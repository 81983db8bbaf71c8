------------------------------- MODULE Keyring -------------------------------
(***************************************************************************)
(* The keyring (src/src/utils/encryption/core/keyring.py): versioned data  *)
(* keys, the password pepper and the blind-index root key, in one          *)
(* encrypted file and in the memory of every Keyring object on that file.  *)
(* A process has several of them: MessageEncryptor and every               *)
(* ChannelRatchetManager have one each on message_keyring.json, every      *)
(* pepper is made through one of its own on system_keyring.json.  What     *)
(* runs under the file lock is one step; the file is replaced atomically,  *)
(* or the write fails and leaves it alone.                                 *)
(*                                                                         *)
(* Secrets are numbered in the order they are generated.  The blind-index  *)
(* root key is derived from the KEK, so only its presence matters here.    *)
(* FileEncryptor's save() after its first get_key() is left out, and so    *)
(* are files that cannot be decrypted.                                     *)
(***************************************************************************)
EXTENDS Integers

CONSTANTS
    Instance,     \* Keyring objects on the same file
    Process,      \* the processes: workers, and an operator's script
    Home,         \* the process of each object
    Role,         \* whose an object is: a "manager" is the EncryptionManager's,
                  \* a "sealer" encrypts messages, files or ratchet keys, and a
                  \* "pepper" is made by KeyringPepperProvider for one call
    MaxVersion,   \* key versions (bound)
    MaxSecret,    \* secrets generated (bound)
    FoundVersion, \* the current version in the file at the start, 0 if none
    FoundPepper,  \* whether that file holds a pepper
    Rotations,    \* whether keys are rotated
    Fallible      \* whether writing the file may fail

ASSUME KeyringAssumption ==
    /\ Home \in [Instance -> Process]
    /\ Role \in [Instance -> {"manager", "sealer", "pepper"}]
    /\ MaxVersion \in Nat \ {0} /\ FoundVersion \in 0 .. MaxVersion
    /\ MaxSecret \in Nat /\ FoundVersion + 1 <= MaxSecret
    /\ FoundPepper \in BOOLEAN /\ Rotations \in BOOLEAN /\ Fallible \in BOOLEAN

Version == 1 .. MaxVersion
Secret == 1 .. MaxSecret
NoSecret == 0

\* The payload of the file, and the attributes of an object.
Content == [current : 0 .. MaxVersion, keys : [Version -> Secret \cup {NoSecret}],
            pepper : Secret \cup {NoSecret}, blind : BOOLEAN]

\* An object that has read nothing; the file that does not exist.
Nothing == [current |-> 0, keys |-> [v \in Version |-> NoSecret],
            pepper |-> NoSecret, blind |-> FALSE]

\* The file at the start: the versions up to FoundVersion, each with its key.
Found(blind) ==
    [current |-> FoundVersion,
     keys |-> [v \in Version |-> IF v <= FoundVersion THEN v ELSE NoSecret],
     pepper |-> IF FoundPepper THEN FoundVersion + 1 ELSE NoSecret,
     blind |-> blind]

VARIABLES
    file,    \* the keyring file
    memory,  \* what each object holds
    state,   \* an object is "down", "saving" (inside __init__) or "up"
    issued,  \* the number of secrets generated so far
    sealed,  \* stored ciphertexts: the version they name and the key they need
    hashed   \* the peppers that passwords were hashed with

vars == <<file, memory, state, issued, sealed, hashed>>

\* A file that is there, with or without a blind-index root key, comes with
\* data sealed under each of its versions and passwords hashed with its pepper.
Init ==
    /\ \E blind \in BOOLEAN : /\ blind => FoundVersion # 0
                              /\ file = Found(blind)
    /\ memory = [i \in Instance |-> Nothing]
    /\ state = [i \in Instance |-> "down"]
    /\ issued = FoundVersion + (IF FoundPepper THEN 1 ELSE 0)
    /\ sealed = {[version |-> v, key |-> v] : v \in 1 .. FoundVersion}
    /\ hashed = IF FoundPepper THEN {FoundVersion + 1} ELSE {}

HasKeys(c) == \E v \in Version : c.keys[v] # NoSecret

MutWritten(c) == [c EXCEPT !.blind = FALSE, !.pepper = NoSecret]

\* What _save_without_lock() writes: all but the blind-index root key.
Written(c) == [c EXCEPT !.blind = FALSE]

\* The file is replaced, or the write raises; the memory was changed before.
WriteOut(c, done) == IF done THEN file' = c ELSE Fallible /\ UNCHANGED file

-----------------------------------------------------------------------------

MutLoad(i) ==
    /\ state[i] = "down"
    /\ memory' = [memory EXCEPT ![i] = [file EXCEPT !.keys =
          [v \in Version |-> IF v = file.current THEN file.keys[v] ELSE NoSecret]]]
    /\ state' = [state EXCEPT ![i] =
                    IF HasKeys(file) /\ ~file.blind THEN "saving" ELSE "up"]
    /\ UNCHANGED <<file, issued, sealed, hashed>>

\* Keyring(...): load(), which ends the critical section; then __init__ finds
\* keys without a blind-index root key, or is done.
Load(i) ==
    /\ state[i] = "down"
    /\ memory' = [memory EXCEPT ![i] = file]
    /\ state' = [state EXCEPT ![i] =
                    IF HasKeys(file) /\ ~file.blind THEN "saving" ELSE "up"]
    /\ UNCHANGED <<file, issued, sealed, hashed>>

\* save() at the end of __init__: what was loaded, with the blind-index root
\* key.  If it raises there is no object.
SaveInInit(i) ==
    /\ state[i] = "saving"
    /\ \/ /\ memory' = [memory EXCEPT ![i].blind = TRUE]
          /\ file' = memory'[i]
          /\ state' = [state EXCEPT ![i] = "up"]
       \/ /\ Fallible
          /\ memory' = [memory EXCEPT ![i] = Nothing]
          /\ state' = [state EXCEPT ![i] = "down"]
          /\ UNCHANGED file
    /\ UNCHANGED <<issued, sealed, hashed>>

\* get_blind_index_root_key() of an object without one: it writes what the
\* object has in memory.
SaveBlindIndexRootKey(i) ==
    /\ state[i] = "up" /\ ~memory[i].blind /\ Role[i] = "manager"
    /\ memory' = [memory EXCEPT ![i].blind = TRUE]
    /\ \E done \in BOOLEAN : WriteOut(memory'[i], done)
    /\ UNCHANGED <<state, issued, sealed, hashed>>

\* The object is dropped or its process ends, at any moment.
Stop(i) ==
    /\ state[i] # "down"
    /\ state' = [state EXCEPT ![i] = "down"]
    /\ memory' = [memory EXCEPT ![i] = Nothing]
    /\ UNCHANGED <<file, issued, sealed, hashed>>

\* get_key() of an object whose memory holds no key: it makes the first one
\* and writes it, whatever the file holds by now.
GenerateFirst(i, done) ==
    /\ ~HasKeys(memory[i]) /\ issued < MaxSecret
    /\ issued' = issued + 1
    /\ memory' = [memory EXCEPT ![i].current = 1, ![i].keys[1] = issued + 1]
    /\ WriteOut(Written(memory'[i]), done)

\* A ciphertext of an object that holds c: wrap() takes the current key.
Envelope(c) == [version |-> c.current, key |-> c.keys[c.current]]

\* wrap() and encrypt(): the ciphertext goes to the database, unless the write
\* of a first key raised.
Seal(i) ==
    /\ state[i] = "up" /\ Role[i] # "pepper"
    /\ \/ /\ HasKeys(memory[i])
          /\ sealed' = sealed \cup {Envelope(memory[i])}
          /\ UNCHANGED <<file, memory, issued>>
       \/ GenerateFirst(i, TRUE) /\ sealed' = sealed \cup {Envelope(memory'[i])}
       \/ GenerateFirst(i, FALSE) /\ sealed' = sealed
    /\ UNCHANGED <<state, hashed>>

\* unwrap() and decrypt(), of any text that looks like an envelope, change
\* something only if the memory holds no key.
UnsealWithoutKeys(i) ==
    /\ state[i] = "up" /\ Role[i] # "pepper"
    /\ \E done \in BOOLEAN : GenerateFirst(i, done)
    /\ UNCHANGED <<state, sealed, hashed>>

\* Where keys are rotated: in initialize_server(), before its process makes
\* another object on the file, or in a script of its own.
FirstOfProcess(i) ==
    \A j \in Instance \ {i} : Home[j] = Home[i] => state[j] = "down"

MutRotate(i) ==
    /\ Rotations /\ FirstOfProcess(i) /\ Role[i] # "pepper"
    /\ state[i] = "up" /\ memory[i].current < MaxVersion /\ issued < MaxSecret
    /\ issued' = issued + 1
    /\ memory' = [memory EXCEPT ![i].current = 1, ![i].keys[1] = issued + 1]
    /\ \E done \in BOOLEAN : WriteOut(Written(memory'[i]), done)
    /\ UNCHANGED <<state, sealed, hashed>>

MutSkippedVersion(i) ==
    /\ Rotations /\ FirstOfProcess(i) /\ Role[i] # "pepper"
    /\ state[i] = "up" /\ memory[i].current < MaxVersion /\ issued < MaxSecret
    /\ issued' = issued + 1
    /\ LET next == memory[i].current + 1
       IN memory' = [memory EXCEPT ![i].current = next + 1, ![i].keys[next] = issued + 1]
    /\ \E done \in BOOLEAN : WriteOut(Written(memory'[i]), done)
    /\ UNCHANGED <<state, sealed, hashed>>

\* rotate(): one more than the version in memory, which is not reloaded.  If
\* the write raises, the caller logs it and the object keeps the new key.
Rotate(i) ==
    /\ Rotations /\ FirstOfProcess(i) /\ Role[i] # "pepper"
    /\ state[i] = "up" /\ memory[i].current < MaxVersion /\ issued < MaxSecret
    /\ issued' = issued + 1
    /\ LET next == memory[i].current + 1
       IN memory' = [memory EXCEPT ![i].current = next, ![i].keys[next] = issued + 1]
    /\ \E done \in BOOLEAN : WriteOut(Written(memory'[i]), done)
    /\ UNCHANGED <<state, sealed, hashed>>

\* _load_from_disk() of an object that exists: without a file it stays as it is.
Reread(i) == IF file = Nothing THEN memory[i] ELSE file

\* get_or_create_pepper(): the file is read again under the lock; a password
\* is hashed with what it returns, nothing if the write of a new one raises.
GetOrCreatePepper(i) ==
    /\ state[i] = "up" /\ Role[i] = "pepper"
    /\ LET m == Reread(i)
       IN IF m.pepper # NoSecret
          THEN /\ memory' = [memory EXCEPT ![i] = m]
               /\ hashed' = hashed \cup {m.pepper}
               /\ UNCHANGED <<file, issued>>
          ELSE /\ issued < MaxSecret
               /\ issued' = issued + 1
               /\ memory' = [memory EXCEPT ![i] = [m EXCEPT !.pepper = issued + 1]]
               /\ \/ WriteOut(Written(memory'[i]), TRUE) /\ hashed' = hashed \cup {issued + 1}
                  \/ WriteOut(Written(memory'[i]), FALSE) /\ hashed' = hashed
    /\ UNCHANGED <<state, sealed>>

\* list_peppers() reads the file again.
ListPeppers(i) ==
    /\ state[i] = "up" /\ Role[i] = "pepper"
    /\ memory' = [memory EXCEPT ![i] = Reread(i)]
    /\ UNCHANGED <<file, state, issued, sealed, hashed>>

Next ==
    \E i \in Instance :
        \/ Load(i) \/ SaveInInit(i) \/ SaveBlindIndexRootKey(i) \/ Stop(i)
        \/ Seal(i) \/ UnsealWithoutKeys(i) \/ Rotate(i)
        \/ GetOrCreatePepper(i) \/ ListPeppers(i)

Spec == Init /\ [][Next]_vars

-----------------------------------------------------------------------------

\* The type invariant; the current version has a key.
TypeOK ==
    /\ file \in Content
    /\ memory \in [Instance -> Content]
    /\ state \in [Instance -> {"down", "saving", "up"}]
    /\ issued \in 0 .. MaxSecret
    /\ sealed \subseteq [version : Version, key : Secret]
    /\ hashed \subseteq Secret
    /\ file.current # 0 => file.keys[file.current] # NoSecret

\* Every stored ciphertext can be opened by whoever loads the file: keys of
\* the current and of all earlier versions stay readable.
SealedOpens == \A b \in sealed : file.keys[b.version] = b.key

\* ... and by every object that is in use now.
SealedOpensNow ==
    \A b \in sealed, i \in Instance :
        state[i] # "down" => memory[i].keys[b.version] = b.key

\* The pepper that passwords were hashed with is the one in the file.
PepperStable == hashed \subseteq {file.pepper}
=============================================================================
