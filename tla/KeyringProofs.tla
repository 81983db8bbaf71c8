---------------------------- MODULE KeyringProofs ----------------------------
(***************************************************************************)
(* The keyring for every set of Keyring objects, in any number of          *)
(* processes, and every order of their loads, saves, failing writes and    *)
(* ends: the types; that keys are kept while none is rotated, or while one *)
(* process with working writes rotates them; that a pepper the file had    *)
(* from the start is kept whatever happens.  The runs that violate         *)
(* SealedOpens and PepperStable show what happens without these premises.  *)
(***************************************************************************)
EXTENDS Keyring, TLAPS

-----------------------------------------------------------------------------
(* Type correctness, however careless the deployment.                      *)

\* A content with a key has a current version, which has a key.
Sound(c) ==
    /\ HasKeys(c) => c.current # 0
    /\ c.current # 0 => c.keys[c.current] # NoSecret

Good == {c \in Content : Sound(c)}

\* The file and every object stay so, even when objects overwrite each other
\* and writes fail.
SoundInv ==
    /\ TypeOK
    /\ file \in Good /\ memory \in [Instance -> Good]

\* What the operations make of a sound content is sound: it is written without
\* or with a blind-index root key, or given a pepper.
LEMMA GoodKept ==
    ASSUME NEW c \in Good
    PROVE  /\ Written(c) \in Good
           /\ [c EXCEPT !.blind = TRUE] \in Good
           /\ \A p \in Secret : [c EXCEPT !.pepper = p] \in Good
BY DEF Good, Sound, HasKeys, Content, Written

\* A key for the first version, or for the one after the current one, makes
\* that version current.
LEMMA GoodNextKey ==
    ASSUME NEW c \in Good, NEW v \in Version, NEW s \in Secret
    PROVE  [c EXCEPT !.current = v, !.keys[v] = s] \in Good
<1> DEFINE d == [c EXCEPT !.current = v, !.keys[v] = s]
<1>1. c \in Content /\ c.keys \in [Version -> Secret \cup {NoSecret}]
  BY DEF Good, Content
<1>2. [c.keys EXCEPT ![v] = s] \in [Version -> Secret \cup {NoSecret}]
  BY <1>1
<1>3. v \in 0 .. MaxVersion /\ v # 0 /\ s # NoSecret
  BY KeyringAssumption DEF Version, Secret, NoSecret
<1>4. d.current = v /\ d.keys = [c.keys EXCEPT ![v] = s]
  BY <1>1 DEF Content
<1>5. d \in Content
  BY <1>1, <1>2, <1>3 DEF Content
<1> HIDE DEF d
<1>6. Sound(d)
  BY <1>1, <1>3, <1>4 DEF Sound
<1>7. QED
  BY <1>5, <1>6 DEF Good, d

\* A new secret.
LEMMA NewSecret ==
    ASSUME issued \in 0 .. MaxSecret, issued < MaxSecret
    PROVE  issued + 1 \in Secret /\ issued + 1 \in 0 .. MaxSecret
BY KeyringAssumption DEF Secret

\* A sound file and sound objects, with the rest of its kind, are all there is.
LEMMA SoundIsTyped ==
    ASSUME file' \in Good, memory' \in [Instance -> Good],
           state' \in [Instance -> {"down", "saving", "up"}], issued' \in 0 .. MaxSecret,
           sealed' \subseteq [version : Version, key : Secret], hashed' \subseteq Secret
    PROVE  SoundInv'
<1>1. memory' \in [Instance -> Content] /\ file' \in Content
  BY DEF Good
<1>2. file'.current # 0 => file'.keys[file'.current] # NoSecret
  BY DEF Good, Sound
<1>3. QED
  BY <1>1, <1>2 DEF SoundInv, TypeOK

\* A write leaves a sound file whether or not it fails.
LEMMA WriteIsSound ==
    ASSUME SoundInv, NEW c \in Good, NEW done, WriteOut(c, done)
    PROVE  file' \in Good
BY DEF WriteOut, SoundInv

\* The first key is made, and written or not.
LEMMA FirstIsSound ==
    ASSUME SoundInv, NEW i \in Instance, NEW done, GenerateFirst(i, done)
    PROVE  /\ file' \in Good /\ memory' \in [Instance -> Good]
           /\ issued' \in 0 .. MaxSecret /\ HasKeys(memory'[i])
<1>1. /\ memory[i] \in Good /\ memory \in [Instance -> Good] /\ issued \in 0 .. MaxSecret
      /\ 1 \in Version
  BY KeyringAssumption DEF SoundInv, TypeOK, Version
<1>2. issued + 1 \in Secret /\ issued' \in 0 .. MaxSecret
  BY <1>1, NewSecret DEF GenerateFirst
<1> DEFINE c == [memory[i] EXCEPT !.current = 1, !.keys[1] = issued + 1]
<1>3. c \in Good
  BY <1>1, <1>2, GoodNextKey
<1>4. c.keys[1] = issued + 1
  BY <1>1 DEF Good, Content
<1>5. memory' = [memory EXCEPT ![i] = c] /\ WriteOut(Written(memory'[i]), done)
  BY DEF GenerateFirst
<1> HIDE DEF c
<1>6. memory'[i] = c /\ Written(c) \in Good
  BY <1>1, <1>3, <1>5, GoodKept
<1>7. HasKeys(c)
  BY <1>1, <1>2, <1>4 DEF HasKeys, Secret, NoSecret
<1>8. QED
  BY <1>1, <1>2, <1>3, <1>5, <1>6, <1>7, WriteIsSound

\* What a sound object that has a key seals under is a version with a key.
LEMMA EnvelopeType ==
    ASSUME NEW c \in Good, HasKeys(c)
    PROVE  Envelope(c) \in [version : Version, key : Secret]
<1>1. c.current \in 0 .. MaxVersion /\ c.keys \in [Version -> Secret \cup {NoSecret}]
  BY DEF Good, Content
<1>2. c.current # 0 /\ c.keys[c.current] # NoSecret
  BY DEF Good, Sound
<1>3. c.current \in Version
  BY <1>1, <1>2, KeyringAssumption DEF Version
<1>4. QED
  BY <1>1, <1>2, <1>3 DEF Envelope

\* The file at the start is sound.
LEMMA FoundIsSound == ASSUME NEW b \in BOOLEAN PROVE Found(b) \in Good
<1> USE KeyringAssumption
<1>1. Found(b) \in Content
  BY DEF Found, Content, Version, Secret, NoSecret
<1>2. Sound(Found(b))
  BY DEF Found, Sound, HasKeys, Version, NoSecret
<1>3. QED
  BY <1>1, <1>2 DEF Good

\* ... and so is everything else.
LEMMA InitSound == Init => SoundInv
<1> SUFFICES ASSUME Init PROVE SoundInv
  OBVIOUS
<1> USE KeyringAssumption
<1>1. Nothing \in Good
  BY DEF Nothing, Good, Sound, HasKeys, Content, Version, Secret, NoSecret
<1>2. file \in Good
  BY FoundIsSound DEF Init
<1>3. sealed \subseteq [version : Version, key : Secret]
  BY DEF Init, Version, Secret
<1>4. issued \in 0 .. MaxSecret /\ hashed \subseteq Secret
  BY DEF Init, Secret
<1>5. file \in Content /\ (file.current # 0 => file.keys[file.current] # NoSecret)
  BY <1>2 DEF Good, Sound
<1>6. memory \in [Instance -> Good] /\ state \in [Instance -> {"down", "saving", "up"}]
  BY <1>1 DEF Init
<1>7. memory \in [Instance -> Content]
  BY <1>6 DEF Good
<1>8. QED
  BY <1>2, <1>3, <1>4, <1>5, <1>6, <1>7 DEF SoundInv, TypeOK

\* Every step keeps it.
LEMMA StepSound == ASSUME SoundInv, [Next]_vars PROVE SoundInv'
<1>1. /\ file \in Good /\ memory \in [Instance -> Good]
      /\ state \in [Instance -> {"down", "saving", "up"}] /\ issued \in 0 .. MaxSecret
      /\ sealed \subseteq [version : Version, key : Secret] /\ hashed \subseteq Secret
  BY DEF SoundInv, TypeOK
<1>2. Nothing \in Good /\ \A i \in Instance : Reread(i) \in Good
  BY <1>1, KeyringAssumption
  DEF Nothing, Good, Sound, HasKeys, Content, Version, Secret, NoSecret, Reread
<1>3. CASE UNCHANGED vars
  BY <1>1, <1>3, SoundIsTyped DEF vars
<1>4. ASSUME NEW i \in Instance, Load(i) \/ Stop(i) \/ ListPeppers(i)
      PROVE  SoundInv'
  <2>1. memory' \in [Instance -> Good]
    BY <1>1, <1>2, <1>4 DEF Load, Stop, ListPeppers
  <2>2. state' \in [Instance -> {"down", "saving", "up"}]
    BY <1>1, <1>4 DEF Load, Stop, ListPeppers
  <2>3. QED
    BY <1>1, <1>4, <2>1, <2>2, SoundIsTyped DEF Load, Stop, ListPeppers
<1>5. ASSUME NEW i \in Instance, SaveInInit(i) \/ SaveBlindIndexRootKey(i)
      PROVE  SoundInv'
  <2> DEFINE c == [memory[i] EXCEPT !.blind = TRUE]
  <2>1. c \in Good
    BY <1>1, GoodKept
  <2>2. \/ memory' = [memory EXCEPT ![i] = c] /\ (file' = memory'[i] \/ file' = file)
        \/ memory' = [memory EXCEPT ![i] = Nothing] /\ file' = file
    BY <1>5 DEF SaveInInit, SaveBlindIndexRootKey, WriteOut
  <2> HIDE DEF c
  <2>3. memory' \in [Instance -> Good] /\ file' \in Good
    BY <1>1, <1>2, <2>1, <2>2
  <2>4. state' \in [Instance -> {"down", "saving", "up"}]
    BY <1>1, <1>5 DEF SaveInInit, SaveBlindIndexRootKey
  <2>5. QED
    BY <1>1, <1>5, <2>3, <2>4, SoundIsTyped DEF SaveInInit, SaveBlindIndexRootKey
<1>6. ASSUME NEW i \in Instance, UnsealWithoutKeys(i)
      PROVE  SoundInv'
  BY <1>1, <1>6, FirstIsSound, SoundIsTyped DEF UnsealWithoutKeys
<1>7. ASSUME NEW i \in Instance, Seal(i)
      PROVE  SoundInv'
  <2>1. CASE GenerateFirst(i, FALSE) /\ sealed' = sealed
    BY <1>1, <1>7, <2>1, FirstIsSound, SoundIsTyped DEF Seal
  <2>2. CASE /\ HasKeys(memory[i]) /\ UNCHANGED <<file, memory, issued>>
             /\ sealed' = sealed \cup {Envelope(memory[i])}
    <3>1. sealed' \subseteq [version : Version, key : Secret]
      BY <1>1, <2>2, EnvelopeType
    <3>2. QED
      BY <1>1, <1>7, <2>2, <3>1, SoundIsTyped DEF Seal
  <2>3. CASE GenerateFirst(i, TRUE) /\ sealed' = sealed \cup {Envelope(memory'[i])}
    <3>1. /\ file' \in Good /\ memory' \in [Instance -> Good]
          /\ issued' \in 0 .. MaxSecret /\ HasKeys(memory'[i])
      BY <2>3, FirstIsSound
    <3>2. sealed' \subseteq [version : Version, key : Secret]
      BY <1>1, <2>3, <3>1, EnvelopeType
    <3>3. QED
      BY <1>1, <1>7, <3>1, <3>2, SoundIsTyped DEF Seal
  <2>4. QED
    BY <1>7, <2>1, <2>2, <2>3 DEF Seal
<1>8. ASSUME NEW i \in Instance, Rotate(i)
      PROVE  SoundInv'
  <2> DEFINE next == memory[i].current + 1
             c == [memory[i] EXCEPT !.current = next, !.keys[next] = issued + 1]
  <2>1. issued + 1 \in Secret /\ issued' \in 0 .. MaxSecret
    BY <1>1, <1>8, NewSecret DEF Rotate
  <2>2. next \in Version
    BY <1>1, <1>8, KeyringAssumption DEF Rotate, Good, Content, Version
  <2>3. c \in Good
    BY <1>1, <2>1, <2>2, GoodNextKey
  <2>4. PICK done \in BOOLEAN :
           memory' = [memory EXCEPT ![i] = c] /\ WriteOut(Written(memory'[i]), done)
    BY <1>8 DEF Rotate
  <2> HIDE DEF c
  <2>5. memory' \in [Instance -> Good] /\ memory'[i] = c
    BY <1>1, <2>3, <2>4
  <2>6. file' \in Good
    BY <2>1, <2>3, <2>4, <2>5, GoodKept, WriteIsSound
  <2>7. QED
    BY <1>1, <1>8, <2>1, <2>5, <2>6, SoundIsTyped DEF Rotate
<1>9. ASSUME NEW i \in Instance, GetOrCreatePepper(i)
      PROVE  SoundInv'
  <2> DEFINE m == Reread(i)
             c == [m EXCEPT !.pepper = issued + 1]
  <2>1. m \in Good
    BY <1>2
  <2>2. state' = state /\ sealed' = sealed
    BY <1>9 DEF GetOrCreatePepper
  <2>3. CASE m.pepper # NoSecret
    <3>1. /\ memory' = [memory EXCEPT ![i] = m] /\ UNCHANGED <<file, issued>>
          /\ hashed' = hashed \cup {m.pepper}
      BY <1>9, <2>3 DEF GetOrCreatePepper
    <3>2. m.pepper \in Secret
      BY <2>1, <2>3 DEF Good, Content
    <3> HIDE DEF m
    <3>3. memory' \in [Instance -> Good] /\ hashed' \subseteq Secret
      BY <1>1, <2>1, <3>1, <3>2
    <3>4. QED
      BY <1>1, <2>2, <3>1, <3>3, SoundIsTyped
  <2>4. CASE m.pepper = NoSecret
    <3>1. /\ issued < MaxSecret /\ issued' = issued + 1
          /\ memory' = [memory EXCEPT ![i] = c]
          /\ \E done : WriteOut(Written(memory'[i]), done)
          /\ hashed' = hashed \cup {issued + 1} \/ hashed' = hashed
      BY <1>9, <2>4 DEF GetOrCreatePepper
    <3>2. issued + 1 \in Secret /\ issued' \in 0 .. MaxSecret
      BY <1>1, <3>1, NewSecret
    <3>3. c \in Good
      BY <2>1, <3>2, GoodKept
    <3> HIDE DEF m, c
    <3>4. memory' \in [Instance -> Good] /\ memory'[i] = c
      BY <1>1, <3>1, <3>3
    <3>5. file' \in Good
      BY <3>1, <3>2, <3>3, <3>4, GoodKept, WriteIsSound
    <3>6. hashed' \subseteq Secret
      BY <1>1, <3>1, <3>2
    <3>7. QED
      BY <1>1, <2>2, <3>2, <3>4, <3>5, <3>6, SoundIsTyped
  <2>5. QED
    BY <2>3, <2>4
<1>10. QED
  BY <1>3, <1>4, <1>5, <1>6, <1>7, <1>8, <1>9 DEF Next

\* The types hold always.
LEMMA AlwaysSound == Spec => []SoundInv
<1>1. SoundInv /\ [Next]_vars => SoundInv'
  BY StepSound
<1>2. QED
  BY InitSound, <1>1, PTL DEF Spec

\* Type correctness in every deployment, one that loses keys included: no
\* object ever encrypts with a version that has no key.
THEOREM KeyringTypes == Spec => []TypeOK
<1>1. SoundInv => TypeOK
  BY DEF SoundInv
<1>2. QED
  BY <1>1, AlwaysSound, PTL

-----------------------------------------------------------------------------
(* Keys.                                                                   *)

OneProcess == \A i, j \in Instance : Home[i] = Home[j]

\* The premise: the file has keys at the start, and if keys are rotated, that
\* happens in the only process there is, and writes succeed.
Careful == FoundVersion # 0 /\ (Rotations => OneProcess /\ ~Fallible)

\* Every object in use holds the file's keys.  Without this a save would
\* replace newer keys.
Synced ==
    \A i \in Instance : state[i] # "down" =>
        /\ memory[i].current = file.current
        /\ memory[i].keys = file.keys

\* The versions after the current one have no key, so a rotation takes one
\* that nothing was encrypted with.
Ahead == \A v \in Version : v > file.current => file.keys[v] = NoSecret

KeysInv == HasKeys(file) /\ Synced /\ Ahead /\ SealedOpens

\* A file with keys exists.
LEMMA FileExists == HasKeys(file) => file # Nothing
BY DEF HasKeys, Nothing

\* What Written() and a new blind-index root key leave alone.
LEMMA KeysOf ==
    ASSUME NEW c \in Content
    PROVE  /\ Written(c).current = c.current /\ Written(c).keys = c.keys
           /\ [c EXCEPT !.blind = TRUE].current = c.current
           /\ [c EXCEPT !.blind = TRUE].keys = c.keys
           /\ \A p : Written([c EXCEPT !.pepper = p]).current = c.current
           /\ \A p : Written([c EXCEPT !.pepper = p]).keys = c.keys
           /\ \A p : [c EXCEPT !.pepper = p].current = c.current
           /\ \A p : [c EXCEPT !.pepper = p].keys = c.keys
BY DEF Content, Written

\* A step that leaves the file's keys, gives objects no others and seals with
\* no others keeps the invariant.
LEMMA SameKeys ==
    ASSUME KeysInv, file'.keys = file.keys, file'.current = file.current,
           \A i \in Instance : state'[i] # "down" =>
               memory'[i].current = file.current /\ memory'[i].keys = file.keys,
           \A b \in sealed' : file.keys[b.version] = b.key
    PROVE  KeysInv'
BY DEF KeysInv, HasKeys, Synced, Ahead, SealedOpens

\* Rotation: the only object in use takes a version nothing was sealed with.
LEMMA RotateKeepsKeys ==
    ASSUME SoundInv, KeysInv, Careful, NEW i \in Instance, Rotate(i)
    PROVE  KeysInv'
<1> USE KeyringAssumption
<1> DEFINE n == memory[i].current + 1
           k == [memory[i].keys EXCEPT ![n] = issued + 1]
           c == [memory[i] EXCEPT !.current = n, !.keys[n] = issued + 1]
<1>0. /\ memory \in [Instance -> Content] /\ file \in Content /\ issued \in 0 .. MaxSecret
      /\ sealed \subseteq [version : Version, key : Secret]
  BY DEF SoundInv, TypeOK
<1>1. /\ state[i] = "up" /\ UNCHANGED <<state, sealed>>
      /\ memory[i].current < MaxVersion /\ issued < MaxSecret
  BY DEF Rotate
<1>2. memory[i].current = file.current /\ memory[i].keys = file.keys
  BY <1>1 DEF KeysInv, Synced
<1>3. /\ memory[i] \in Content /\ file.current \in 0 .. MaxVersion
      /\ file.keys \in [Version -> Secret \cup {NoSecret}]
  BY <1>0 DEF Content
<1>4. n = file.current + 1 /\ n \in Version
  BY <1>1, <1>2, <1>3 DEF Version
<1>5. issued + 1 # NoSecret
  BY <1>0 DEF NoSecret
<1>6. \A v \in Version : k[v] = IF v = n THEN issued + 1 ELSE file.keys[v]
  BY <1>2, <1>3, <1>4
<1>7. c.current = n /\ c.keys = k /\ Written(c).current = n /\ Written(c).keys = k
  BY <1>3 DEF Content, Written
<1>8. memory' = [memory EXCEPT ![i] = c] /\ file' = Written(memory'[i])
  BY DEF Rotate, WriteOut, Careful
<1> HIDE DEF n, k, c
<1>9. memory'[i] = c /\ file'.current = n /\ file'.keys = k
  BY <1>0, <1>7, <1>8
<1>10. \A j \in Instance \ {i} : state[j] = "down"
  BY DEF Rotate, FirstOfProcess, Careful, OneProcess
<1>11. Synced'
  BY <1>1, <1>7, <1>9, <1>10 DEF Synced
<1>12. HasKeys(file')
  BY <1>4, <1>5, <1>6, <1>9 DEF HasKeys
<1>13. Ahead'
  <2>1. SUFFICES ASSUME NEW v \in Version, v > n PROVE k[v] = NoSecret
    BY <1>9 DEF Ahead
  <2>2. v # n /\ v > file.current
    BY <1>3, <1>4, <2>1 DEF Version
  <2>3. QED
    BY <1>6, <2>2 DEF KeysInv, Ahead
<1>14. SealedOpens'
  <2>1. SUFFICES ASSUME NEW b \in sealed PROVE k[b.version] = b.key
    BY <1>1, <1>9 DEF SealedOpens
  <2>2. file.keys[b.version] = b.key
    BY DEF KeysInv, SealedOpens
  <2>3. b.version \in Version /\ b.key # NoSecret
    BY <1>0 DEF Secret, NoSecret
  <2>4. b.version # n
    BY <1>3, <1>4, <2>2, <2>3 DEF KeysInv, Ahead, Version
  <2>5. QED
    BY <1>6, <2>2, <2>3, <2>4
<1>15. QED
  BY <1>11, <1>12, <1>13, <1>14 DEF KeysInv

\* Every step keeps the keys.
LEMMA StepKeys == ASSUME SoundInv, KeysInv, Careful, [Next]_vars PROVE KeysInv'
<1>0. /\ memory \in [Instance -> Content] /\ file \in Content /\ file # Nothing
      /\ state \in [Instance -> {"down", "saving", "up"}]
  BY FileExists DEF SoundInv, TypeOK, KeysInv
<1>1. /\ \A i \in Instance : state[i] # "down" =>
             /\ memory[i].current = file.current /\ memory[i].keys = file.keys
             /\ HasKeys(memory[i])
      /\ \A b \in sealed : file.keys[b.version] = b.key
  BY DEF KeysInv, Synced, SealedOpens, HasKeys
<1>2. CASE UNCHANGED vars
  BY <1>1, <1>2, SameKeys DEF vars
<1>3. ASSUME NEW i \in Instance, Load(i) \/ Stop(i) \/ ListPeppers(i)
      PROVE  KeysInv'
  <2>1. UNCHANGED <<file, sealed>>
    BY <1>3 DEF Load, Stop, ListPeppers
  <2>2. \A j \in Instance : state'[j] # "down" =>
           memory'[j].current = file.current /\ memory'[j].keys = file.keys
    BY <1>0, <1>1, <1>3 DEF Load, Stop, ListPeppers, Reread
  <2>3. QED
    BY <1>1, <2>1, <2>2, SameKeys
<1>4. ASSUME NEW i \in Instance, SaveInInit(i) \/ SaveBlindIndexRootKey(i)
      PROVE  KeysInv'
  <2> DEFINE c == [memory[i] EXCEPT !.blind = TRUE]
  <2>1. /\ memory[i] \in Content /\ sealed' = sealed
        /\ memory[i].current = file.current /\ memory[i].keys = file.keys
    BY <1>0, <1>1, <1>4 DEF SaveInInit, SaveBlindIndexRootKey
  <2>2. c.current = file.current /\ c.keys = file.keys
    BY <2>1, KeysOf
  <2>3. \/ /\ memory' = [memory EXCEPT ![i] = c] /\ (file' = memory'[i] \/ file' = file)
           /\ state' = [state EXCEPT ![i] = "up"] \/ state' = state
        \/ /\ memory' = [memory EXCEPT ![i] = Nothing] /\ file' = file
           /\ state' = [state EXCEPT ![i] = "down"]
    BY <1>4 DEF SaveInInit, SaveBlindIndexRootKey, WriteOut
  <2>4. state[i] # "down"
    BY <1>4 DEF SaveInInit, SaveBlindIndexRootKey
  <2> HIDE DEF c
  <2>5. \A j \in Instance : state'[j] # "down" =>
           memory'[j].current = file.current /\ memory'[j].keys = file.keys
    BY <1>0, <1>1, <2>2, <2>3, <2>4
  <2>6. file'.current = file.current /\ file'.keys = file.keys
    BY <1>0, <2>2, <2>3
  <2>7. QED
    BY <1>1, <2>1, <2>5, <2>6, SameKeys
<1>5. ASSUME NEW i \in Instance, UnsealWithoutKeys(i)
      PROVE  KeysInv'
  BY <1>1, <1>5 DEF UnsealWithoutKeys, GenerateFirst
<1>6. ASSUME NEW i \in Instance, Seal(i)
      PROVE  KeysInv'
  <2>1. /\ UNCHANGED <<file, memory, state>> /\ state[i] # "down"
        /\ sealed' = sealed \cup {Envelope(memory[i])}
    BY <1>1, <1>6 DEF Seal, GenerateFirst
  <2>2. \A b \in sealed' : file.keys[b.version] = b.key
    BY <1>1, <2>1 DEF Envelope
  <2>3. QED
    BY <1>1, <2>1, <2>2, SameKeys
<1>7. ASSUME NEW i \in Instance, Rotate(i)
      PROVE  KeysInv'
  BY <1>7, RotateKeepsKeys
<1>8. ASSUME NEW i \in Instance, GetOrCreatePepper(i)
      PROVE  KeysInv'
  <2>1. UNCHANGED <<state, sealed>> /\ Reread(i) = file
    BY <1>0, <1>8 DEF GetOrCreatePepper, Reread
  <2>2. PICK c : /\ memory' = [memory EXCEPT ![i] = c]
                 /\ c = file \/ \E p : c = [file EXCEPT !.pepper = p]
                 /\ file' = file \/ file' = Written(memory'[i])
    BY <2>1, <1>8 DEF GetOrCreatePepper, WriteOut
  <2>3. /\ c.current = file.current /\ c.keys = file.keys
        /\ Written(c).current = file.current /\ Written(c).keys = file.keys
    <3>1. file \in Content
      BY <1>0
    <3>2. CASE c = file
      BY <3>1, <3>2, KeysOf
    <3>3. CASE \E p : c = [file EXCEPT !.pepper = p]
      <4>1. PICK p : c = [file EXCEPT !.pepper = p]
        BY <3>3
      <4>2. QED
        BY <3>1, <4>1, KeysOf
    <3>4. QED
      BY <2>2, <3>2, <3>3
  <2>4. \A j \in Instance : state'[j] # "down" =>
           memory'[j].current = file.current /\ memory'[j].keys = file.keys
    BY <1>0, <1>1, <2>1, <2>2, <2>3
  <2>5. file'.current = file.current /\ file'.keys = file.keys
    BY <1>0, <2>2, <2>3
  <2>6. QED
    BY <1>1, <2>1, <2>4, <2>5, SameKeys
<1>9. QED
  BY <1>2, <1>3, <1>4, <1>5, <1>6, <1>7, <1>8 DEF Next

\* The initial state.
LEMMA InitKeys == Init /\ Careful => KeysInv
<1> SUFFICES ASSUME Init, Careful PROVE KeysInv
  OBVIOUS
<1> USE KeyringAssumption
<1>1. /\ file.current = FoundVersion
      /\ file.keys = [v \in Version |-> IF v <= FoundVersion THEN v ELSE NoSecret]
  BY DEF Init, Found
<1>2. FoundVersion \in Version
  BY DEF Careful, Version
<1>3. HasKeys(file)
  BY <1>1, <1>2 DEF HasKeys, Version, NoSecret
<1>4. Ahead
  BY <1>1 DEF Ahead, Version
<1>5. SealedOpens
  BY <1>1 DEF Init, SealedOpens, Version
<1>6. Synced
  BY DEF Init, Synced
<1>7. QED
  BY <1>3, <1>4, <1>5, <1>6 DEF KeysInv

\* The objects in use agree with the file on its keys: the inductive invariant
\* (load, save, rotate, get_key, get_or_create_pepper).
THEOREM KeyringInvariant == Careful /\ Spec => []KeysInv
<1> DEFINE I == Careful /\ SoundInv /\ KeysInv
<1>1. Careful /\ Init => I
  BY InitSound, InitKeys
<1>2. I /\ [Next]_vars => I'
  BY StepSound, StepKeys DEF Careful, OneProcess
<1>3. I => KeysInv
  OBVIOUS
<1> HIDE DEF I
<1>4. QED
  BY <1>1, <1>2, <1>3, PTL DEF Spec

\* "The current version and all previous versions remain readable": what any
\* object ever encrypted can be opened with the file, always.
THEOREM KeysAreKept == Careful /\ Spec => []SealedOpens
<1>1. KeysInv => SealedOpens
  BY DEF KeysInv
<1>2. QED
  BY <1>1, KeyringInvariant, PTL

\* ... and with the memory of every object that is in use.
THEOREM KeysAreHeld == Careful /\ Spec => []SealedOpensNow
<1>1. KeysInv => SealedOpensNow
  BY DEF KeysInv, Synced, SealedOpens, SealedOpensNow
<1>2. QED
  BY <1>1, KeyringInvariant, PTL

-----------------------------------------------------------------------------
(* The pepper.                                                             *)

Pepper == FoundVersion + 1

\* The file, every object in use and every hash have the pepper the file had
\* at the start.
PepperInv ==
    /\ file.pepper = Pepper
    /\ \A i \in Instance : state[i] # "down" => memory[i].pepper = Pepper
    /\ hashed \subseteq {Pepper}

\* No operation on a content with a pepper takes it away.
LEMMA PepperOf ==
    ASSUME NEW c \in Content
    PROVE  /\ Written(c).pepper = c.pepper
           /\ [c EXCEPT !.blind = TRUE].pepper = c.pepper
BY DEF Content, Written

\* Every step keeps the pepper: also a rotation, a first key or a save that
\* writes what an object has had in memory for long, and one that fails.
LEMMA StepPepper == ASSUME SoundInv, PepperInv, [Next]_vars PROVE PepperInv'
<1>0. /\ memory \in [Instance -> Content] /\ file \in Content
      /\ state \in [Instance -> {"down", "saving", "up"}]
      /\ Pepper # NoSecret /\ file.pepper = Pepper /\ file # Nothing
  BY KeyringAssumption DEF SoundInv, TypeOK, PepperInv, Pepper, NoSecret, Nothing
<1>1. \A i \in Instance : state[i] # "down" => memory[i].pepper = Pepper
  BY DEF PepperInv
<1>2. ASSUME NEW i \in Instance, NEW c, c.pepper = Pepper, UNCHANGED hashed,
             state[i] # "down", memory' = [memory EXCEPT ![i] = c],
             state' = state \/ state' = [state EXCEPT ![i] = "up"],
             file'.pepper = Pepper
      PROVE  PepperInv'
  BY <1>0, <1>1, <1>2 DEF PepperInv
<1>3. CASE UNCHANGED vars
  BY <1>3 DEF vars, PepperInv
<1>4. ASSUME NEW i \in Instance, Load(i) \/ Stop(i) \/ ListPeppers(i)
      PROVE  PepperInv'
  <2>1. UNCHANGED <<file, hashed>>
    BY <1>4 DEF Load, Stop, ListPeppers
  <2>2. \A j \in Instance : state'[j] # "down" => memory'[j].pepper = Pepper
    BY <1>0, <1>1, <1>4 DEF Load, Stop, ListPeppers, Reread
  <2>3. QED
    BY <2>1, <2>2 DEF PepperInv
<1>5. ASSUME NEW i \in Instance, SaveInInit(i) \/ SaveBlindIndexRootKey(i)
      PROVE  PepperInv'
  <2> DEFINE c == [memory[i] EXCEPT !.blind = TRUE]
  <2>1. state[i] # "down" /\ hashed' = hashed
    BY <1>5 DEF SaveInInit, SaveBlindIndexRootKey
  <2>2. c.pepper = Pepper
    BY <1>0, <1>1, <2>1, PepperOf
  <2>3. \/ /\ memory' = [memory EXCEPT ![i] = c] /\ (file' = memory'[i] \/ file' = file)
           /\ state' = [state EXCEPT ![i] = "up"] \/ state' = state
        \/ /\ memory' = [memory EXCEPT ![i] = Nothing] /\ file' = file
           /\ state' = [state EXCEPT ![i] = "down"]
    BY <1>5 DEF SaveInInit, SaveBlindIndexRootKey, WriteOut
  <2> HIDE DEF c
  <2>4. file'.pepper = Pepper
    BY <1>0, <2>2, <2>3
  <2>5. \A j \in Instance : state'[j] # "down" => memory'[j].pepper = Pepper
    BY <1>0, <1>1, <2>1, <2>2, <2>3
  <2>6. QED
    BY <2>1, <2>4, <2>5 DEF PepperInv
<1>6. ASSUME NEW i \in Instance, NEW v, NEW done, state[i] # "down", UNCHANGED <<state, hashed>>,
             memory' = [memory EXCEPT ![i].current = v, ![i].keys[v] = issued + 1],
             WriteOut(Written(memory'[i]), done)
      PROVE  PepperInv'
  <2> DEFINE c == [memory[i] EXCEPT !.current = v, !.keys[v] = issued + 1]
  <2>1. c.pepper = Pepper /\ Written(c).pepper = Pepper
    <3>1. memory[i] \in Content /\ memory[i].pepper = Pepper
      BY <1>0, <1>1, <1>6
    <3>2. c.pepper = memory[i].pepper /\ Written(c).pepper = memory[i].pepper
      BY <3>1 DEF Content, Written
    <3>3. QED
      BY <3>1, <3>2
  <2>2. memory' = [memory EXCEPT ![i] = c]
    BY <1>6
  <2> HIDE DEF c
  <2>3. memory'[i] = c
    BY <1>0, <2>2
  <2>4. file'.pepper = Pepper
    BY <1>0, <1>6, <2>1, <2>3 DEF WriteOut
  <2>5. QED
    BY <1>2, <1>6, <2>1, <2>2, <2>4
<1>7. ASSUME NEW i \in Instance, UnsealWithoutKeys(i) PROVE PepperInv'
  BY <1>6, <1>7 DEF UnsealWithoutKeys, GenerateFirst
<1>8. ASSUME NEW i \in Instance, Seal(i) PROVE PepperInv'
  <2>1. CASE UNCHANGED <<file, memory>>
    BY <1>8, <2>1 DEF Seal, PepperInv
  <2>2. CASE \E done \in BOOLEAN : GenerateFirst(i, done)
    BY <1>6, <1>8, <2>2 DEF Seal, GenerateFirst
  <2>3. QED
    BY <1>8, <2>1, <2>2 DEF Seal
<1>9. ASSUME NEW i \in Instance, Rotate(i) PROVE PepperInv'
  BY <1>6, <1>9 DEF Rotate
<1>10. ASSUME NEW i \in Instance, GetOrCreatePepper(i) PROVE PepperInv'
  <2>1. Reread(i) = file
    BY <1>0 DEF Reread
  <2>2. /\ memory' = [memory EXCEPT ![i] = file] /\ UNCHANGED <<file, state>>
        /\ hashed' = hashed \cup {Pepper}
    BY <1>0, <1>10, <2>1 DEF GetOrCreatePepper
  <2>3. QED
    BY <1>0, <1>1, <2>2 DEF PepperInv
<1>11. QED
  BY <1>3, <1>4, <1>5, <1>7, <1>8, <1>9, <1>10 DEF Next

\* A pepper the file had at the start stays in it, and is the only one that
\* passwords are hashed with: with any number of processes, rotations and
\* failing writes.
THEOREM PepperIsKept == FoundPepper /\ Spec => []PepperStable
<1>1. FoundPepper /\ Init => PepperInv
  BY DEF Init, Found, PepperInv, Pepper
<1>2. SoundInv /\ PepperInv /\ [Next]_vars => PepperInv'
  BY StepPepper
<1>3. PepperInv => PepperStable
  BY DEF PepperInv, PepperStable
<1>4. QED
  BY <1>1, <1>2, <1>3, AlwaysSound, PTL DEF Spec
=============================================================================
