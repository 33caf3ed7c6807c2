---------------------------- MODULE SgxKeysProofs ----------------------------
(* What the key files of the SGX provider hold after any sequence of commands, *)
(* failures and relocations, for every number of keys, CPUs and cloud keys.     *)
EXTENDS SgxKeys, KeyWrap, WellFoundedInduction, TLAPS

\* Every key a command may still write was generated before.
Generated ==
  /\ consensusKey \notin Absent => consensusKey.key <= fresh
  /\ idKey \notin Absent => idKey.key <= fresh
  /\ consensusBackup \notin Absent => consensusBackup.key <= fresh
  /\ \A d \in key_data : d.key <= fresh

\* No key from which the consensus key can be written is the identity key: not
\* its file, nor its backup, nor what a command has in its hands.
Apart ==
  ~recoveredId /\ idKey \notin Absent =>
    /\ consensusKey \notin Absent => consensusKey.key # idKey.key
    /\ consensusBackup \notin Absent => consensusBackup.key # idKey.key
    /\ at # "id_backup" => \A d \in key_data : d.key # idKey.key

Usable == \E b \in cloud_backup : decrypts(b)

\* The backup of a key, under the cloud key at hand.
BackupOf(k) == [seal |-> externalKey.seal, key |-> k]

\* What an init has in its hands is the backup of the key it has just written,
\* if it has a key to make it with.
HasBackupOf(f) ==
  /\ f \in SealedKeyData
  /\ \A d \in key_data : d = BackupOf(f.key)
  /\ Usable => key_data # {}

InitSteps == {"consensus", "consensus_backup", "id", "id_backup"}

\* How far init is, and what it has backed up so far.
Progress ==
  /\ at # "idle" => last = "none"
  /\ at \in InitSteps => cloud_backup \in {{}, Given}
  /\ at = "consensus_backup" => HasBackupOf(consensusKey)
  /\ at \in {"id", "id_backup"} /\ Usable => consensusBackup = BackupOf(consensusKey.key)
  /\ at = "id_backup" => HasBackupOf(idKey)

KInv == TypeOK /\ Generated /\ Apart /\ Progress /\ BackupTaken

-----------------------------------------------------------------------------
\* The operators of the model.

\* Sealing a key gives a sealed key that is a file's content.
LEMMA SealType ==
  ASSUME cpu \in CPUs, NEW k \in Keys
  PROVE  seal(k) \in SealedKeyData /\ seal(k).key = k /\ seal(k) \notin Absent
  BY FileAssumption DEF seal, SealedKeyData, Absent

\* The files given with -w and -e.
LEMMA GivenIs ==
  ASSUME NEW b
  PROVE  b \in Given <=>
           /\ wrapKey \notin Absent /\ externalKey \notin Absent
           /\ b = [sealed_rsa_key |-> wrapKey, backup_key |-> externalKey]
  BY DEF Given

\* They are at most one pair of keys.
LEMMA GivenType ==
  ASSUME TypeOK
  PROVE  Given \subseteq CloudBackupKey /\ \A b, c \in Given : b = c
  <1>1. ASSUME NEW b \in Given PROVE b \in CloudBackupKey
    <2>1. b = [sealed_rsa_key |-> wrapKey, backup_key |-> externalKey]
          /\ wrapKey \in SealedKeyData /\ externalKey \in CloudBackupSeal
      BY GivenIs DEF TypeOK
    <2> QED BY <2>1 DEF CloudBackupKey
  <1> QED BY <1>1, GivenIs

\* cloud_backup of KeyGen.
LEMMA CloudBackupIs ==
  ASSUME TypeOK, NEW k \in Keys
  PROVE  /\ CloudBackup(k) \subseteq CloudBackupKeyData
         /\ \A d, e \in CloudBackup(k) : d = e
         /\ \A d \in CloudBackup(k) : d.key = k
         /\ cloud_backup \in {{}, Given} => \A d \in CloudBackup(k) : d = BackupOf(k)
         /\ Usable => CloudBackup(k) # {}
  <1>1. ASSUME NEW d \in CloudBackup(k)
        PROVE  \E b \in cloud_backup : d = [seal |-> b.backup_key.seal, key |-> k]
    BY DEF CloudBackup
  <1>2. CloudBackup(k) \subseteq CloudBackupKeyData
    BY <1>1 DEF TypeOK, CloudBackupKey, CloudBackupSeal, CloudBackupKeyData
  <1>3. \A d, e \in CloudBackup(k) : d = e
    BY <1>1 DEF TypeOK
  <1>4. \A d \in CloudBackup(k) : d.key = k
    BY <1>1
  <1>5. ASSUME cloud_backup \in {{}, Given}, NEW d \in CloudBackup(k) PROVE d = BackupOf(k)
    <2>1. PICK b \in cloud_backup : d = [seal |-> b.backup_key.seal, key |-> k]
      BY <1>1
    <2>2. b.backup_key = externalKey
      BY <1>5, GivenIs
    <2> QED BY <2>1, <2>2 DEF BackupOf
  <1>6. Usable => CloudBackup(k) # {}
    BY DEF Usable, CloudBackup
  <1> QED BY <1>2, <1>3, <1>4, <1>5, <1>6

-----------------------------------------------------------------------------
\* Nothing is generated yet.
LEMMA KeysInit == Init => KInv
<1> SUFFICES ASSUME Init PROVE KInv
  OBVIOUS
<1>1. TypeOK
  <2>1. 0 \in 0 .. MaxKeys /\ NoFile \in Absent
    BY KeyBoundAssumption DEF Absent
  <2>2. cloud_backup = {} /\ key_data = {} /\ "idle" \in Steps /\ "none" \in Results
    BY DEF Init, Steps, Results
  <2> QED BY <2>1, <2>2 DEF Init, TypeOK
<1>2. Generated /\ Apart /\ Progress /\ BackupTaken
  BY DEF Init, Generated, Apart, Progress, BackupTaken, Absent, InitSteps
<1> QED BY <1>1, <1>2 DEF KInv

\* A command that is not an init in progress, and the HSM: what init needs does
\* not change under it.
LEMMA IdleSteps ==
  ASSUME KInv, CloudWrap \/ (\E s \in CloudKeys : Export(s)) \/ Relocate
  PROVE  KInv'
<1> USE DEF KInv
<1>1. at = "idle" /\ at' = "idle" /\ last' = "none" /\ fresh <= fresh'
      /\ UNCHANGED <<keyFiles, cloud_backup, key_data, recoveredId>>
  BY DEF CloudWrap, Export, Relocate, TypeOK
<1>2. TypeOK'
  <2>1. CASE CloudWrap
    <3>1. fresh + 1 \in Keys /\ fresh' \in 0 .. MaxKeys
      BY <2>1, KeyBoundAssumption DEF CloudWrap, TypeOK, Keys
    <3>2. wrapKey' \in SealedKeyData \cup Absent
      BY <2>1, <3>1, SealType DEF CloudWrap, TypeOK, Absent
    <3> QED BY <1>1, <2>1, <3>1, <3>2 DEF CloudWrap, TypeOK, keyFiles, Results
  <2>2. ASSUME NEW s \in CloudKeys, Export(s) PROVE TypeOK'
    <3>1. externalKey' \in CloudBackupSeal
      BY <2>2 DEF Export, TypeOK, SealedKeyData, CloudBackupSeal
    <3> QED BY <1>1, <2>2, <3>1 DEF Export, TypeOK, keyFiles, Results
  <2>3. CASE Relocate
    BY <1>1, <2>3 DEF Relocate, TypeOK, keyFiles, Results
  <2> QED BY <2>1, <2>2, <2>3
<1>3. Generated'
  <2>1. ASSUME NEW k \in Keys, k <= fresh PROVE k <= fresh'
    BY <1>1, <1>2, <2>1 DEF TypeOK, Keys
  <2>2. /\ consensusKey \notin Absent => consensusKey.key \in Keys
        /\ idKey \notin Absent => idKey.key \in Keys
        /\ consensusBackup \notin Absent => consensusBackup.key \in Keys
        /\ \A d \in key_data : d.key \in Keys
    BY DEF TypeOK, SealedKeyData, CloudBackupKeyData
  <2> QED BY <1>1, <2>1, <2>2 DEF Generated, keyFiles
<1>4. Apart'
  BY <1>1 DEF Apart, keyFiles
<1>5. Progress' /\ BackupTaken'
  BY <1>1 DEF Progress, BackupTaken, InitSteps
<1> QED BY <1>2, <1>3, <1>4, <1>5

\* The keys a command may write have numbers.
LEMMA KeyNumbers ==
  ASSUME TypeOK
  PROVE  /\ fresh \in Nat
         /\ consensusKey \notin Absent => consensusKey.key \in Nat
         /\ idKey \notin Absent => idKey.key \in Nat
         /\ consensusBackup \notin Absent => consensusBackup.key \in Nat
         /\ \A d \in key_data : d.key \in Nat
  BY KeyBoundAssumption DEF TypeOK, SealedKeyData, CloudBackupKeyData, Keys

\* init is given the files of -w and -e, or none.
LEMMA InitStarts ==
  ASSUME KInv, NEW given \in {{}, Given}, InitStart(given)
  PROVE  KInv'
<1> USE DEF KInv
<1>1. TypeOK'
  BY GivenType DEF InitStart, TypeOK, keyFiles, Steps, Results
<1>2. Generated' /\ Apart'
  BY DEF InitStart, Generated, Apart, keyFiles
<1>3. Given' = Given
  BY DEF InitStart, Given
<1>4. Progress' /\ BackupTaken'
  BY <1>3 DEF InitStart, Progress, BackupTaken, InitSteps
<1> QED BY <1>1, <1>2, <1>4

\* The key of a launch with KeyGen is a new one.
LEMMA FreshKey ==
  ASSUME TypeOK, fresh < MaxKeys
  PROVE  fresh + 1 \in Keys /\ fresh + 1 \in 0 .. MaxKeys
  BY KeyBoundAssumption DEF TypeOK, Keys

\* The first launch of init: the new key is in none of the files.
LEMMA ConsensusKeyStep ==
  ASSUME KInv, KeyGenConsensus
  PROVE  KInv'
<1> USE DEF KInv
<1> DEFINE k == fresh + 1
<1>1. /\ at = "consensus" /\ at' = "consensus_backup" /\ last = "none" /\ last' = "none"
      /\ fresh' = k /\ consensusKey' = seal(k) /\ key_data' = CloudBackup(k)
      /\ UNCHANGED <<cpu, wrapKey, externalKey, idKey, consensusBackup, idBackup,
                      cloud_backup, recoveredId>>
  BY DEF KeyGenConsensus, KeyGen, Progress
<1>2. k \in Keys /\ k \in 0 .. MaxKeys
  BY FreshKey DEF KeyGenConsensus, KeyGen
<1>3. seal(k) \in SealedKeyData /\ seal(k).key = k /\ seal(k) \notin Absent
  BY <1>2, SealType DEF TypeOK
<1>4. TypeOK'
  BY <1>1, <1>2, <1>3, CloudBackupIs DEF TypeOK, Steps, Results
<1>5. Generated'
  BY <1>1, <1>2, <1>3, CloudBackupIs, KeyNumbers DEF Generated
<1>6. Apart'
  <2>1. idKey \notin Absent => idKey.key # k
    BY KeyNumbers DEF Generated
  <2> QED BY <1>1, <1>2, <1>3, <2>1, CloudBackupIs DEF Apart
<1>7. Given' = Given /\ (Usable' <=> Usable)
  BY <1>1 DEF Given, Usable, decrypts, unseals
<1>8. HasBackupOf(consensusKey)'
  <2>1. cloud_backup \in {{}, Given}
    BY <1>1 DEF Progress, InitSteps
  <2>2. \A d \in CloudBackup(k) : d = BackupOf(k)
    BY <1>2, <2>1, CloudBackupIs
  <2>3. BackupOf(consensusKey.key)' = BackupOf(k)
    BY <1>1, <1>3 DEF BackupOf
  <2> QED BY <1>1, <1>2, <1>3, <1>7, <2>2, <2>3, CloudBackupIs DEF HasBackupOf
<1>9. Progress' /\ BackupTaken'
  BY <1>1, <1>7, <1>8 DEF Progress, BackupTaken, InitSteps
<1> QED BY <1>4, <1>5, <1>6, <1>9

\* init stores the backup of the consensus key.
LEMMA ConsensusBackupStep ==
  ASSUME KInv, BackupConsensus
  PROVE  KInv'
<1> USE DEF KInv
<1>1. /\ at = "consensus_backup" /\ at' = "id" /\ last = "none" /\ last' = "none"
      /\ key_data' = {}
      /\ UNCHANGED <<cpu, fresh, wrapKey, externalKey, consensusKey, idKey, idBackup,
                      cloud_backup, recoveredId>>
      /\ HasBackupOf(consensusKey)
      /\ \/ key_data = {} /\ consensusBackup' = consensusBackup
         \/ consensusBackup' \in key_data
  BY DEF BackupConsensus, Progress
<1>2. TypeOK'
  BY <1>1 DEF TypeOK, Steps
<1>3. Generated'
  BY <1>1 DEF Generated
<1>4. Apart'
  BY <1>1 DEF Apart
<1>5. Given' = Given /\ (Usable' <=> Usable)
  BY <1>1 DEF Given, Usable, decrypts, unseals
<1>6. Usable => consensusBackup' = BackupOf(consensusKey.key)
  BY <1>1 DEF HasBackupOf
<1>7. BackupOf(consensusKey.key)' = BackupOf(consensusKey.key)
  BY <1>1 DEF BackupOf
<1>8. Progress' /\ BackupTaken'
  BY <1>1, <1>5, <1>6, <1>7 DEF Progress, BackupTaken, InitSteps
<1> QED BY <1>2, <1>3, <1>4, <1>8

\* The second launch: the new key is neither the consensus key nor in its backup.
LEMMA IdKeyStep ==
  ASSUME KInv, KeyGenId
  PROVE  KInv'
<1> USE DEF KInv
<1> DEFINE k == fresh + 1
<1>1. /\ at = "id" /\ at' = "id_backup" /\ last = "none" /\ last' = "none"
      /\ fresh' = k /\ idKey' = seal(k) /\ key_data' = CloudBackup(k)
      /\ recoveredId' = FALSE
      /\ UNCHANGED <<cpu, wrapKey, externalKey, consensusKey, consensusBackup, idBackup,
                      cloud_backup>>
  BY DEF KeyGenId, KeyGen, Progress
<1>2. k \in Keys /\ k \in 0 .. MaxKeys
  BY FreshKey DEF KeyGenId, KeyGen
<1>3. seal(k) \in SealedKeyData /\ seal(k).key = k /\ seal(k) \notin Absent
  BY <1>2, SealType DEF TypeOK
<1>4. TypeOK'
  BY <1>1, <1>2, <1>3, CloudBackupIs DEF TypeOK, Steps, Results
<1>5. Generated'
  BY <1>1, <1>2, <1>3, CloudBackupIs, KeyNumbers DEF Generated
<1>6. Apart'
  <2>1. /\ consensusKey \notin Absent => consensusKey.key # k
        /\ consensusBackup \notin Absent => consensusBackup.key # k
    BY KeyNumbers DEF Generated
  <2> QED BY <1>1, <1>3, <2>1 DEF Apart
<1>7. Given' = Given /\ (Usable' <=> Usable)
  BY <1>1 DEF Given, Usable, decrypts, unseals
<1>8. HasBackupOf(idKey)'
  <2>1. cloud_backup \in {{}, Given}
    BY <1>1 DEF Progress, InitSteps
  <2>2. \A d \in CloudBackup(k) : d = BackupOf(k)
    BY <1>2, <2>1, CloudBackupIs
  <2>3. BackupOf(idKey.key)' = BackupOf(k)
    BY <1>1, <1>3 DEF BackupOf
  <2> QED BY <1>1, <1>2, <1>3, <1>7, <2>2, <2>3, CloudBackupIs DEF HasBackupOf
<1>9. BackupOf(consensusKey.key)' = BackupOf(consensusKey.key)
  BY <1>1 DEF BackupOf
<1>10. Progress' /\ BackupTaken'
  BY <1>1, <1>7, <1>8, <1>9 DEF Progress, BackupTaken, InitSteps
<1> QED BY <1>4, <1>5, <1>6, <1>10

\* init stores the backup of the identity key and returns.
LEMMA IdBackupStep ==
  ASSUME KInv, BackupId
  PROVE  KInv'
<1> USE DEF KInv
<1>1. /\ at = "id_backup" /\ at' = "idle" /\ key_data' = {} /\ cloud_backup' = {}
      /\ last' = IF cloud_backup = {} THEN "init" ELSE "init_backup"
      /\ UNCHANGED <<cpu, fresh, wrapKey, externalKey, consensusKey, idKey, consensusBackup,
                      recoveredId>>
      /\ HasBackupOf(idKey)
      /\ \/ key_data = {} /\ idBackup' = idBackup
         \/ idBackup' \in key_data
  BY DEF BackupId, InitReturns, Progress
<1>2. TypeOK'
  BY <1>1 DEF TypeOK, Steps, Results
<1>3. Generated' /\ Apart'
  BY <1>1 DEF Generated, Apart
<1>4. Progress'
  BY <1>1 DEF Progress, InitSteps
<1>5. BackupTaken'
  <2> SUFFICES ASSUME last' = "init_backup", NEW b \in Given', decrypts(b)'
               PROVE  /\ consensusBackup' = BackupOf(consensusKey.key)
                      /\ idBackup' = BackupOf(idKey.key)
    BY <1>1 DEF BackupTaken, BackupOf
  <2>1. b \in Given /\ decrypts(b)
    BY <1>1 DEF Given, decrypts, unseals
  <2>2. cloud_backup = Given
    BY <1>1 DEF Progress, InitSteps
  <2>3. Usable
    BY <2>1, <2>2 DEF Usable
  <2> QED BY <1>1, <2>3 DEF Progress, HasBackupOf
<1> QED BY <1>2, <1>3, <1>4, <1>5

\* recover reads the backup of the consensus key.
LEMMA RecoverStarts ==
  ASSUME KInv, NEW mode \in BOOLEAN, RecoverStart(mode)
  PROVE  KInv'
<1> USE DEF KInv
<1>1. /\ at = "idle" /\ at' \in {"recover", "recover_id"} /\ last' = "none"
      /\ consensusBackup \notin Absent
      /\ cloud_backup' = Given /\ key_data' = {consensusBackup}
      /\ UNCHANGED <<cpu, fresh, wrapKey, externalKey, consensusKey, idKey, consensusBackup,
                      idBackup, recoveredId>>
  BY DEF RecoverStart, keyFiles
<1>2. TypeOK'
  BY <1>1, GivenType DEF TypeOK, Steps, Results
<1>3. Generated' /\ Apart'
  BY <1>1 DEF Generated, Apart
<1>4. Progress' /\ BackupTaken'
  BY <1>1 DEF Progress, BackupTaken, InitSteps
<1> QED BY <1>2, <1>3, <1>4

\* recover seals the key it has read.
LEMMA RecoverStep ==
  ASSUME KInv, Recover
  PROVE  KInv'
<1> USE DEF KInv
<1>1. PICK d \in key_data :
        \/ at = "recover" /\ consensusKey' = seal(d.key) /\ idKey' = idKey
        \/ at = "recover_id" /\ idKey' = seal(d.key) /\ consensusKey' = consensusKey
  BY DEF Recover, Recovered
<1>2. /\ at \in {"recover", "recover_id"} /\ at' = "idle" /\ last' = at
      /\ cloud_backup' = {} /\ key_data' = {}
      /\ recoveredId' = (recoveredId \/ at = "recover_id")
      /\ UNCHANGED <<cpu, fresh, wrapKey, externalKey, consensusBackup, idBackup>>
  BY DEF Recover
<1>3. /\ seal(d.key) \in SealedKeyData /\ seal(d.key).key = d.key
      /\ seal(d.key) \notin Absent
  BY SealType DEF TypeOK, CloudBackupKeyData
<1>4. TypeOK'
  BY <1>1, <1>2, <1>3 DEF TypeOK, Steps, Results
<1>5. Generated'
  BY <1>1, <1>2, <1>3 DEF Generated
<1>6. Apart'
  <2>1. CASE at = "recover"
    BY <1>1, <1>2, <1>3, <2>1 DEF Apart
  <2>2. CASE at = "recover_id"
    BY <1>2, <2>2 DEF Apart
  <2> QED BY <1>2, <2>1, <2>2
<1>7. Progress' /\ BackupTaken'
  BY <1>2 DEF Progress, BackupTaken, InitSteps
<1> QED BY <1>4, <1>5, <1>6, <1>7

\* A command fails or is killed: files are as before or torn.
LEMMA FailStep ==
  ASSUME KInv, CommandFails
  PROVE  KInv'
<1> USE DEF KInv
<1>1. /\ at' = "idle" /\ last' = "none" /\ cloud_backup' = {} /\ key_data' = {}
      /\ UNCHANGED <<cpu, fresh, wrapKey, externalKey, recoveredId>>
      /\ consensusKey' \in {consensusKey, Torn} /\ idKey' \in {idKey, Torn}
      /\ consensusBackup' \in {consensusBackup, Torn} /\ idBackup' \in {idBackup, Torn}
  BY DEF CommandFails, Tears
<1>2. Torn \in Absent
  BY DEF Absent
<1>3. TypeOK'
  BY <1>1, <1>2 DEF TypeOK, Steps, Results
<1>4. Generated' /\ Apart'
  BY <1>1, <1>2 DEF Generated, Apart
<1>5. Progress' /\ BackupTaken'
  BY <1>1 DEF Progress, BackupTaken, InitSteps
<1> QED BY <1>3, <1>4, <1>5

\* Every step keeps the invariant.
LEMMA KeysNext == KInv /\ [Next]_vars => KInv'
<1> SUFFICES ASSUME KInv, [Next]_vars PROVE KInv'
  OBVIOUS
<1>1. CASE Next
  BY <1>1, IdleSteps, InitStarts, ConsensusKeyStep, ConsensusBackupStep, IdKeyStep,
     IdBackupStep, RecoverStarts, RecoverStep, FailStep DEF Next
<1>2. CASE UNCHANGED vars
  <2>1. Given' = Given /\ (Usable' <=> Usable)
    BY <1>2 DEF vars, Given, Usable, decrypts, unseals
  <2>2. TypeOK' /\ Generated' /\ Apart'
    BY <1>2 DEF KInv, vars, keyFiles, TypeOK, Generated, Apart
  <2>3. Progress'
    BY <1>2, <2>1 DEF KInv, vars, keyFiles, Progress, HasBackupOf, BackupOf
  <2>4. BackupTaken'
    BY <1>2, <2>1 DEF KInv, vars, keyFiles, BackupTaken, decrypts, unseals
  <2> QED BY <2>2, <2>3, <2>4 DEF KInv
<1> QED BY <1>1, <1>2

\* So does every behaviour.
LEMMA SpecKInv == Spec => []KInv
  BY KeysInit, KeysNext, PTL DEF Spec

-----------------------------------------------------------------------------
\* The values of the variables stay in their types (TypeOK).
THEOREM SgxKeysTypeCorrect == Spec => []TypeOK
<1>1. KInv => TypeOK
  BY DEF KInv
<1> QED BY <1>1, SpecKInv, PTL

\* Unless recover wrote it, the identity key is not the consensus key, whatever
\* inits, recoveries, failures and relocations came before (KeysApart).
THEOREM KeysStayApart == Spec => []KeysApart
<1>1. KInv => KeysApart
  BY DEF KInv, Apart, KeysApart
<1> QED BY <1>1, SpecKInv, PTL

\* An init that returns, with a wrap key of this machine and the cloud key
\* exported for it, has left a matching backup of each key (BackupTaken).
THEOREM InitLeavesBackups == Spec => []BackupTaken
<1>1. KInv => BackupTaken
  BY DEF KInv
<1> QED BY <1>1, SpecKInv, PTL

-----------------------------------------------------------------------------
(* The wrapping of the cloud key (KeyWrap), for every block cipher.           *)

Pair == Word \X Key

\* A step number names a word of the key.
LEMMA AtInRange ==
  \A s \in 1 .. Last : At(s) \in 1 .. N
<1> SUFFICES ASSUME NEW s \in 1 .. Last PROVE At(s) \in 1 .. N
  OBVIOUS
<1>1. s - 1 \in Int /\ N \in Nat /\ N > 0
  BY NAssumption DEF Last, Rounds
<1>2. (s - 1) % N \in 0 .. N - 1
  BY <1>1
<1> QED BY <1>1, <1>2 DEF At

\* A turn of the wrapping's loop and of the unwrapping's takes pairs to pairs.
LEMMA TurnType ==
  \A k \in Keks, p \in Pair, s \in 1 .. Last : Turn(k, p, s) \in Pair
<1> SUFFICES ASSUME NEW k \in Keks, NEW p \in Pair, NEW s \in 1 .. Last
             PROVE Turn(k, p, s) \in Pair
  OBVIOUS
<1> DEFINE b == Encrypt(k, <<p[1], p[2][At(s)]>>)
<1>1. p[1] \in Word /\ p[2] \in Key /\ At(s) \in 1 .. N
  BY AtInRange DEF Pair
<1>2. <<p[1], p[2][At(s)]>> \in Block
  BY <1>1 DEF Block, Key
<1>3. b \in Block
  BY <1>2, CipherAssumption
<1>4. b[1] \in Word /\ b[2] \in Word
  BY <1>3 DEF Block
<1> HIDE DEF b
<1>5. Mix(b[1], s) \in Word
  BY <1>4, MixAssumption
<1>6. [p[2] EXCEPT ![At(s)] = b[2]] \in Key
  BY <1>1, <1>4 DEF Key
<1> QED BY <1>5, <1>6 DEF Turn, Pair, b

\* A turn of the unwrapping gives an a and an r again.
LEMMA UndoType ==
  \A k \in Keks, p \in Pair, s \in 1 .. Last : Undo(k, p, s) \in Pair
<1> SUFFICES ASSUME NEW k \in Keks, NEW p \in Pair, NEW s \in 1 .. Last
             PROVE Undo(k, p, s) \in Pair
  OBVIOUS
<1> DEFINE b == Decrypt(k, <<Mix(p[1], s), p[2][At(s)]>>)
<1>1. p[1] \in Word /\ p[2] \in Key /\ At(s) \in 1 .. N
  BY AtInRange DEF Pair
<1>2. Mix(p[1], s) \in Word
  BY <1>1, MixAssumption
<1>3. <<Mix(p[1], s), p[2][At(s)]>> \in Block
  BY <1>1, <1>2 DEF Block, Key
<1>4. b \in Block
  BY <1>3, CipherAssumption
<1>5. b[1] \in Word /\ b[2] \in Word
  BY <1>4 DEF Block
<1> HIDE DEF b
<1>6. [p[2] EXCEPT ![At(s)] = b[2]] \in Key
  BY <1>1, <1>5 DEF Key
<1> QED BY <1>5, <1>6 DEF Undo, Pair, b

\* A turn of the unwrapping undoes the same turn of the wrapping...
LEMMA UndoTurn ==
  \A k \in Keks, p \in Pair, s \in 1 .. Last : Undo(k, Turn(k, p, s), s) = p
<1> SUFFICES ASSUME NEW k \in Keks, NEW p \in Pair, NEW s \in 1 .. Last
             PROVE Undo(k, Turn(k, p, s), s) = p
  OBVIOUS
<1> DEFINE i == At(s)
           b == Encrypt(k, <<p[1], p[2][i]>>)
           q == Turn(k, p, s)
<1>1. p[1] \in Word /\ p[2] \in Key /\ i \in 1 .. N /\ p = <<p[1], p[2]>>
  BY AtInRange DEF Pair
<1>2. <<p[1], p[2][i]>> \in Block
  BY <1>1 DEF Block, Key
<1>3. b \in Block /\ Decrypt(k, b) = <<p[1], p[2][i]>>
  BY <1>2, CipherAssumption
<1>4. b[1] \in Word /\ b[2] \in Word /\ b = <<b[1], b[2]>>
  BY <1>3 DEF Block
<1>5. q[1] = Mix(b[1], s) /\ q[2] = [p[2] EXCEPT ![i] = b[2]]
  BY DEF Turn
<1> HIDE DEF b, q, i
<1>6. Mix(q[1], s) = b[1]
  BY <1>4, <1>5, MixAssumption
<1>7. q[2][i] = b[2]
  BY <1>1, <1>5 DEF Key
<1>8. Decrypt(k, <<Mix(q[1], s), q[2][i]>>) = <<p[1], p[2][i]>>
  BY <1>3, <1>4, <1>6, <1>7
<1>9. [q[2] EXCEPT ![i] = p[2][i]] = p[2]
  BY <1>1, <1>5 DEF Key
<1>10. Undo(k, q, s) = <<p[1], p[2]>>
  BY <1>8, <1>9 DEF Undo, i
<1> QED BY <1>1, <1>10 DEF q

\* ... and the other way round.
LEMMA TurnUndo ==
  \A k \in Keks, p \in Pair, s \in 1 .. Last : Turn(k, Undo(k, p, s), s) = p
<1> SUFFICES ASSUME NEW k \in Keks, NEW p \in Pair, NEW s \in 1 .. Last
             PROVE Turn(k, Undo(k, p, s), s) = p
  OBVIOUS
<1> DEFINE i == At(s)
           c == <<Mix(p[1], s), p[2][i]>>
           b == Decrypt(k, c)
           q == Undo(k, p, s)
<1>1. p[1] \in Word /\ p[2] \in Key /\ i \in 1 .. N /\ p = <<p[1], p[2]>>
  BY AtInRange DEF Pair
<1>2. Mix(p[1], s) \in Word /\ Mix(Mix(p[1], s), s) = p[1]
  BY <1>1, MixAssumption
<1>3. c \in Block
  BY <1>1, <1>2 DEF Block, Key
<1>4. b \in Block /\ Encrypt(k, b) = c
  BY <1>3, CipherAssumption
<1>5. b[1] \in Word /\ b[2] \in Word /\ b = <<b[1], b[2]>>
  BY <1>4 DEF Block
<1>6. q[1] = b[1] /\ q[2] = [p[2] EXCEPT ![i] = b[2]]
  BY DEF Undo
<1>7. c[1] = Mix(p[1], s) /\ c[2] = p[2][i]
  OBVIOUS
<1> HIDE DEF b, c, q, i
<1>8. q[2][i] = b[2]
  BY <1>1, <1>6 DEF Key
<1>9. Encrypt(k, <<q[1], q[2][i]>>) = c
  BY <1>4, <1>5, <1>6, <1>8
<1>10. [q[2] EXCEPT ![i] = c[2]] = p[2]
  BY <1>1, <1>6, <1>7 DEF Key
<1>11. Turn(k, q, s) = <<p[1], p[2]>>
  BY <1>2, <1>7, <1>9, <1>10 DEF Turn, i
<1> QED BY <1>1, <1>11 DEF q

-----------------------------------------------------------------------------
\* The loops run with a key-encryption key of the right length, and a key that
\* was returned came out of them.
KekFits == pc = "unwrap" \/ result = "Ok" => kek \in Keks

Typed == WrapTypeOK /\ KekFits

\* It holds at first, wrapping or unwrapping.
LEMMA TypedInit == WrapInit => Typed
<1> SUFFICES ASSUME WrapInit PROVE Typed
  OBVIOUS
<1>1. Last \in Nat /\ Last > 0
  BY NAssumption DEF Last, Rounds
<1>2. /\ a \in Word /\ r \in Key /\ t \in 0 .. Last
      /\ payload \in Word \X Key /\ genuine \in BOOLEAN
  <2>1. CASE HsmInit
    BY <1>1, <2>1, IVAssumption DEF HsmInit
  <2>2. CASE OtherInit
    <3>1. payload[1] \in Word /\ payload[2] \in Key
      BY <2>2 DEF OtherInit
    <3>2. a \in Word /\ r \in Key /\ t \in 0 .. Last
      BY <1>1, <2>2, <3>1 DEF OtherInit
    <3>3. payload \in Word \X Key /\ genuine \in BOOLEAN
      BY <2>2 DEF OtherInit
    <3> QED BY <3>2, <3>3
  <2> QED BY <2>1, <2>2 DEF WrapInit
<1> QED BY <1>2 DEF WrapInit, HsmInit, OtherInit, Typed, WrapTypeOK, KekFits, Errors

\* Every step keeps it.
LEMMA TypedNext == Typed /\ [WrapNext]_wrapVars => Typed'
<1> SUFFICES ASSUME Typed, [WrapNext]_wrapVars PROVE Typed'
  OBVIOUS
<1> USE DEF Typed, WrapTypeOK, KekFits
<1>0. Last \in Nat /\ <<a, r>> \in Pair
  BY NAssumption DEF Last, Rounds, Pair
<1>1. CASE WrapStep
  <2>1. t' \in 1 .. Last
    BY <1>0, <1>1 DEF WrapStep
  <2>2. Turn(hsmKek, <<a, r>>, t') \in Pair
    BY <1>0, <2>1, TurnType
  <2>3. a' \in Word /\ r' \in Key
    BY <1>1, <2>2 DEF WrapStep, Pair
  <2>4. trace' \in [0 .. Last -> Word \X Key]
    BY <1>1, <2>3 DEF WrapStep
  <2> QED BY <1>1, <2>1, <2>3, <2>4 DEF WrapStep
<1>2. CASE Wrapped
  BY <1>2 DEF Wrapped
<1>3. CASE UnwrapGenuine
  BY <1>3 DEF UnwrapGenuine
<1>4. CASE UnwrapBadLength
  BY <1>4 DEF UnwrapBadLength, Errors
<1>5. CASE UnwrapStep
  <2>1. kek \in Keks /\ t \in 1 .. Last
    BY <1>0, <1>5 DEF UnwrapStep
  <2>2. Undo(kek, <<a, r>>, t) \in Pair
    BY <1>0, <2>1, UndoType
  <2>3. a' \in Word /\ r' \in Key
    BY <1>5, <2>2 DEF UnwrapStep, Pair
  <2>4. t' \in 0 .. Last
    BY <1>0, <1>5, <2>1 DEF UnwrapStep
  <2> QED BY <1>5, <2>1, <2>3, <2>4 DEF UnwrapStep
<1>6. CASE Finish
  BY <1>6 DEF Finish, Errors
<1>7. CASE UNCHANGED wrapVars
  BY <1>7 DEF wrapVars
<1> QED BY <1>1, <1>2, <1>3, <1>4, <1>5, <1>6, <1>7 DEF WrapNext

\* The loops of keywrap.rs keep a and r words and t a step number.
THEOREM WrapTypeCorrect == WrapSpec => []WrapTypeOK
<1>1. Typed => WrapTypeOK
  BY DEF Typed
<1> QED BY <1>1, TypedInit, TypedNext, PTL DEF WrapSpec

-----------------------------------------------------------------------------
\* The trace of the HSM is a wrapping as far as it goes, ...
Chained(n) == \A s \in 1 .. n : trace[s] = Turn(hsmKek, trace[s - 1], s)

\* ... the HSM is at its end, ...
OnTrace ==
  /\ pc = "wrap" => genuine /\ <<a, r>> = trace[t] /\ Chained(t)
  /\ pc = "wrapped" => genuine /\ t = Last /\ <<a, r>> = trace[t] /\ Chained(Last)

\* ... and the enclave goes back along it.
BackOnTrace ==
  pc = "unwrap" /\ genuine /\ kek = hsmKek => <<a, r>> = trace[t] /\ Chained(Last)

RInv ==
  /\ Typed /\ OnTrace /\ BackOnTrace /\ RoundTrip
  /\ genuine => trace[0] = <<IV, hsmKey>>

\* Every step keeps it: WrapStep extends the chain, UnwrapStep goes back on it.
LEMMA RInvNext == RInv /\ [WrapNext]_wrapVars => RInv'
<1> SUFFICES ASSUME RInv, [WrapNext]_wrapVars PROVE RInv'
  OBVIOUS
<1>0. Typed'
  BY TypedNext DEF RInv
<1>t. Last \in Nat /\ Last > 0 /\ t \in 0 .. Last /\ <<a, r>> \in Pair
  BY NAssumption DEF Last, Rounds, RInv, Typed, WrapTypeOK, Pair
<1> USE DEF RInv, OnTrace, BackOnTrace, RoundTrip, Chained
<1>1. CASE WrapStep
  <2>1. t' = t + 1 /\ t' \in 1 .. Last /\ pc = "wrap"
    BY <1>1, <1>t DEF WrapStep
  <2>2. Turn(hsmKek, <<a, r>>, t') \in Pair
    BY <1>t, <2>1, TurnType DEF Typed, WrapTypeOK
  <2>3. <<a', r'>> = Turn(hsmKek, <<a, r>>, t')
    BY <1>1, <2>2 DEF WrapStep, Pair
  <2>4. trace' = [trace EXCEPT ![t'] = <<a', r'>>] /\ trace \in [0 .. Last -> Word \X Key]
    BY <1>1 DEF WrapStep, Typed, WrapTypeOK
  <2>5. trace'[t'] = <<a', r'>> /\ \A s \in 0 .. t : trace'[s] = trace[s]
    BY <1>t, <2>1, <2>4
  <2>6. UNCHANGED <<pc, hsmKey, hsmKek, genuine, kek, result>>
    BY <1>1 DEF WrapStep
  <2>7. \A s \in 1 .. t' : trace'[s] = Turn(hsmKek, trace'[s - 1], s)
    <3> SUFFICES ASSUME NEW s \in 1 .. t' PROVE trace'[s] = Turn(hsmKek, trace'[s - 1], s)
      OBVIOUS
    <3>1. CASE s = t'
      BY <3>1, <1>t, <2>1, <2>3, <2>5
    <3>2. CASE s # t'
      <4>1. s \in 1 .. t /\ s - 1 \in 0 .. t /\ s \in 0 .. t
        BY <3>2, <2>1, <1>t
      <4> QED BY <4>1, <2>1, <2>5
    <3> QED BY <3>1, <3>2
  <2> QED BY <1>0, <1>t, <2>1, <2>5, <2>6, <2>7
<1>2. CASE Wrapped
  BY <1>0, <1>2 DEF Wrapped
<1>3. CASE UnwrapGenuine
  BY <1>0, <1>3 DEF UnwrapGenuine
<1>4. CASE UnwrapBadLength
  BY <1>0, <1>4 DEF UnwrapBadLength
<1>5. CASE UnwrapStep
  <2>1. kek \in Keks /\ t \in 1 .. Last /\ t' = t - 1 /\ pc = "unwrap"
    BY <1>5, <1>t DEF UnwrapStep, Typed, KekFits
  <2>2. UNCHANGED <<pc, hsmKey, hsmKek, trace, genuine, kek, result>>
    BY <1>5 DEF UnwrapStep
  <2>3. ASSUME genuine, kek = hsmKek PROVE <<a', r'>> = trace[t - 1]
    <3>1. trace[t - 1] \in Pair
      BY <2>1, <1>t DEF Typed, WrapTypeOK, Pair
    <3>2. <<a, r>> = Turn(kek, trace[t - 1], t)
      BY <2>1, <2>3
    <3>3. Undo(kek, <<a, r>>, t) = trace[t - 1]
      BY <2>1, <3>1, <3>2, UndoTurn
    <3> QED BY <1>5, <3>1, <3>3 DEF UnwrapStep, Pair
  <2> QED BY <1>0, <2>1, <2>2, <2>3
<1>6. CASE Finish
  <2>1. ASSUME genuine, kek = hsmKek PROVE a = IV /\ r = hsmKey
    BY <1>6, <2>1 DEF Finish
  <2> QED BY <1>0, <1>6, <2>1 DEF Finish
<1>7. CASE UNCHANGED wrapVars
  BY <1>0, <1>7 DEF wrapVars
<1> QED BY <1>1, <1>2, <1>3, <1>4, <1>5, <1>6, <1>7 DEF WrapNext

\* aes256_unwrap_key_with_pad gives back what was wrapped with its kek, whatever
\* the cipher.
THEOREM UnwrapsWrapped == WrapSpec => []RoundTrip
<1>1. WrapInit => RInv
  <2> SUFFICES ASSUME WrapInit PROVE RInv
    OBVIOUS
  <2>1. Typed
    BY TypedInit
  <2>2. 0 \in 0 .. Last
    BY NAssumption DEF Last, Rounds
  <2> QED BY <2>1, <2>2
       DEF WrapInit, HsmInit, OtherInit, RInv, OnTrace, BackOnTrace, RoundTrip, Chained
<1>2. RInv => RoundTrip
  BY DEF RInv
<1> QED BY <1>1, <1>2, RInvNext, PTL DEF WrapSpec

-----------------------------------------------------------------------------
\* w is what a and r are during a wrapping with k from step n on.
WrapsFrom(w, k, n) ==
  /\ w \in [0 .. Last -> Pair]
  /\ \A s \in (n + 1) .. Last : w[s] = Turn(k, w[s - 1], s)

\* Wrapping from where the enclave is leads to the payload it was given.
Rewraps ==
  pc = "unwrap" => \A w : WrapsFrom(w, kek, t) /\ w[t] = <<a, r>> => w[Last] = payload

\* OpensOnlyWrapped without the recursive function: every wrapping of the key
\* that is returned, with the kek it was opened with, ends in the payload.
OnlyWrappedOpens ==
  result = "Ok" => \A w : WrapsFrom(w, kek, 0) /\ w[0] = <<IV, r>> => w[Last] = payload

OInv ==
  /\ Typed /\ Rewraps /\ OnlyWrappedOpens
  /\ pc = "wrapped" => t = Last /\ payload = <<a, r>>
  /\ pc # "done" => result # "Ok"

\* Every step keeps it: UnwrapStep adds a turn at the front.
LEMMA OInvNext == OInv /\ [WrapNext]_wrapVars => OInv'
<1> SUFFICES ASSUME OInv, [WrapNext]_wrapVars PROVE OInv'
  OBVIOUS
<1>0. Typed'
  BY TypedNext DEF OInv
<1>t. Last \in Nat /\ Last > 0 /\ t \in 0 .. Last /\ <<a, r>> \in Pair
  BY NAssumption DEF Last, Rounds, OInv, Typed, WrapTypeOK, Pair
<1> USE DEF OInv, Rewraps, OnlyWrappedOpens
<1>1. CASE WrapStep
  BY <1>0, <1>1 DEF WrapStep
<1>2. CASE Wrapped
  BY <1>0, <1>2 DEF Wrapped
<1>3. CASE UnwrapGenuine
  BY <1>0, <1>3 DEF UnwrapGenuine
<1>4. CASE UnwrapBadLength
  BY <1>0, <1>4 DEF UnwrapBadLength
<1>5. CASE UnwrapStep
  <2>1. /\ kek \in Keks /\ t \in 1 .. Last /\ t' = t - 1 /\ pc = "unwrap"
        /\ UNCHANGED <<pc, payload, kek, result>>
    BY <1>5, <1>t DEF UnwrapStep, Typed, KekFits
  <2>2. Undo(kek, <<a, r>>, t) \in Pair /\ <<a', r'>> = Undo(kek, <<a, r>>, t)
    BY <1>5, <1>t, <2>1, UndoType DEF UnwrapStep, Pair
  <2>3. ASSUME NEW w, WrapsFrom(w, kek, t - 1), w[t - 1] = <<a', r'>>
        PROVE  w[Last] = payload
    <3> HIDE DEF OInv, Rewraps, OnlyWrappedOpens
    <3>1. t \in ((t - 1) + 1) .. Last
      BY <1>t, <2>1
    <3>2. w[t] = Turn(kek, w[t - 1], t)
      BY <2>3, <3>1 DEF WrapsFrom
    <3>3. w[t] = <<a, r>>
      BY <3>2, <2>1, <2>2, <2>3, <1>t, TurnUndo
    <3>4. WrapsFrom(w, kek, t)
      BY <2>1, <2>3, <1>t DEF WrapsFrom
    <3> QED BY <3>3, <3>4, <2>1 DEF OInv, Rewraps
  <2> QED BY <1>0, <2>1, <2>3
<1>6. CASE Finish
  BY <1>0, <1>6 DEF Finish
<1>7. CASE UNCHANGED wrapVars
  BY <1>0, <1>7 DEF wrapVars
<1> QED BY <1>1, <1>2, <1>3, <1>4, <1>5, <1>6, <1>7 DEF WrapNext

\* At first nothing has been returned.
LEMMA OInvInit == WrapInit => OInv
<1> SUFFICES ASSUME WrapInit PROVE OInv
  OBVIOUS
<1>1. Typed
  BY TypedInit
<1>2. pc # "done" /\ pc # "wrapped" /\ result = "none"
  BY DEF WrapInit, HsmInit, OtherInit
<1>3. pc = "unwrap" => t = Last /\ payload = <<a, r>>
  BY DEF WrapInit, HsmInit, OtherInit
<1> QED BY <1>1, <1>2, <1>3 DEF OInv, Rewraps, OnlyWrappedOpens

-----------------------------------------------------------------------------
\* A set of step numbers that is not empty has a least one.
LEMMA LeastStep ==
  ASSUME NEW T, T \subseteq Nat, T # {}
  PROVE  \E n \in T : \A m \in T : ~(m < n)
<1>1. \E n \in T : \A m \in T : ~(<<m, n>> \in OpToRel(<, Nat))
  BY NatLessThanWellFounded, WFMin
<1> QED BY <1>1 DEF OpToRel

\* The first n steps of a wrapping.
Begins(w, k, key, n) ==
  /\ w \in [0 .. n -> Pair] /\ w[0] = <<IV, key>>
  /\ \A s \in 1 .. n : w[s] = Turn(k, w[s - 1], s)

\* There is a wrapping of every key: a least number of steps that cannot be made
\* would be one more than a number that can.
LEMMA WrappingExists ==
  ASSUME NEW k \in Keks, NEW key \in Key
  PROVE  \E w : Begins(w, k, key, Last)
<1> DEFINE T == {n \in 0 .. Last : \A w : ~Begins(w, k, key, n)}
<1>0. Last \in Nat
  BY NAssumption DEF Last, Rounds
<1>1. SUFFICES ASSUME T # {} PROVE FALSE
  BY <1>0
<1>2. PICK n \in T : \A m \in T : ~(m < n)
  <2>1. T \subseteq Nat
    BY <1>0
  <2> HIDE DEF T
  <2> QED BY <1>1, <2>1, LeastStep
<1>3. n \in 0 .. Last /\ \A w : ~Begins(w, k, key, n)
  OBVIOUS
<1>4. CASE n = 0
  <2> DEFINE w == [s \in 0 .. 0 |-> <<IV, key>>]
  <2>1. Begins(w, k, key, 0)
    BY IVAssumption DEF Begins, Pair
  <2> QED BY <1>3, <1>4, <2>1
<1>5. CASE n # 0
  <2>1. n - 1 \in 0 .. Last /\ n - 1 \notin T /\ n \in 1 .. Last
    BY <1>0, <1>2, <1>3, <1>5
  <2>2. PICK v : Begins(v, k, key, n - 1)
    BY <2>1
  <2> DEFINE w == [s \in 0 .. n |-> IF s = n THEN Turn(k, v[n - 1], n) ELSE v[s]]
  <2>3. v[n - 1] \in Pair /\ v \in [0 .. n - 1 -> Pair]
    BY <2>1, <2>2 DEF Begins
  <2>4. Turn(k, v[n - 1], n) \in Pair
    BY <2>1, <2>3, TurnType
  <2>5. w \in [0 .. n -> Pair]
    BY <2>1, <2>3, <2>4
  <2>6. w[n] = Turn(k, v[n - 1], n) /\ \A s \in 0 .. n - 1 : w[s] = v[s]
    BY <2>1
  <2> HIDE DEF w
  <2>7. \A s \in 1 .. n : w[s] = Turn(k, w[s - 1], s)
    <3> SUFFICES ASSUME NEW s \in 1 .. n PROVE w[s] = Turn(k, w[s - 1], s)
      OBVIOUS
    <3>1. CASE s = n
      BY <2>1, <2>6, <3>1
    <3>2. CASE s # n
      <4>1. s \in 1 .. n - 1 /\ s \in 0 .. n - 1 /\ s - 1 \in 0 .. n - 1
        BY <2>1, <3>2
      <4> QED BY <2>2, <2>6, <4>1 DEF Begins
    <3> QED BY <3>1, <3>2
  <2>8. w[0] = <<IV, key>>
    BY <2>1, <2>2, <2>6 DEF Begins
  <2>9. Begins(w, k, key, n)
    BY <2>5, <2>7, <2>8 DEF Begins
  <2> QED BY <1>3, <2>9
<1> QED BY <1>4, <1>5

\* Wrapping is the one there is.
LEMMA WrappingBegins ==
  ASSUME NEW k \in Keks, NEW key \in Key
  PROVE  Begins(Wrapping(k, key), k, key, Last)
<1> DEFINE F(w) == [s \in 0 .. Last |-> IF s = 0 THEN <<IV, key>> ELSE Turn(k, w[s - 1], s)]
           u == Wrapping(k, key)
           T == {s \in 0 .. Last : u[s] \notin Pair}
<1>0. Last \in Nat
  BY NAssumption DEF Last, Rounds
<1>1. u = CHOOSE w : w = F(w)
  BY DEF Wrapping
<1>2. PICK v : Begins(v, k, key, Last)
  BY WrappingExists
<1>3. v = F(v)
  <2>1. v = [s \in 0 .. Last |-> v[s]]
    BY <1>2 DEF Begins
  <2>2. ASSUME NEW s \in 0 .. Last
        PROVE  v[s] = IF s = 0 THEN <<IV, key>> ELSE Turn(k, v[s - 1], s)
    <3>1. s = 0 \/ s \in 1 .. Last
      BY <1>0
    <3>2. ~(0 \in 1 .. Last)
      BY <1>0
    <3> QED BY <1>2, <3>1, <3>2, Zenon DEF Begins
  <2> QED BY <2>1, <2>2
<1>4. u = F(u)
  <2> HIDE DEF F, u
  <2> QED BY <1>1, <1>3
<1>5. \A s \in 0 .. Last : u[s] = IF s = 0 THEN <<IV, key>> ELSE Turn(k, u[s - 1], s)
  <2> HIDE DEF u
  <2> QED BY <1>4
<1>6. DOMAIN u = 0 .. Last /\ u = [s \in 0 .. Last |-> u[s]]
  <2> HIDE DEF u
  <2> QED BY <1>4
<1> HIDE DEF u
<1>7. ASSUME T # {} PROVE FALSE
  <2>1. PICK n \in T : \A m \in T : ~(m < n)
    <3>1. T \subseteq Nat
      BY <1>0
    <3> HIDE DEF T
    <3> QED BY <1>7, <3>1, LeastStep
  <2>2. CASE n = 0
    BY <1>5, <2>2, IVAssumption DEF Pair
  <2>3. CASE n # 0
    <3>1. n \in 1 .. Last /\ n - 1 \in 0 .. Last /\ n - 1 \notin T
      BY <1>0, <2>1, <2>3
    <3>2. u[n - 1] \in Pair
      BY <3>1
    <3> QED BY <1>5, <3>1, <3>2, TurnType
  <2> QED BY <2>2, <2>3
<1>8. u \in [0 .. Last -> Pair]
  BY <1>6, <1>7
<1>9. u[0] = <<IV, key>> /\ \A s \in 1 .. Last : u[s] = Turn(k, u[s - 1], s)
  BY <1>0, <1>5
<1> QED BY <1>8, <1>9 DEF Begins, u

\* Wrapping being a wrapping, it is the payload.
LEMMA OInvOpensOnlyWrapped == OInv => OpensOnlyWrapped
<1> SUFFICES ASSUME OInv, result = "Ok" PROVE payload = Wrapping(kek, r)[Last]
  BY DEF OpensOnlyWrapped
<1>1. kek \in Keks /\ r \in Key
  BY DEF OInv, Typed, WrapTypeOK, KekFits
<1>2. Begins(Wrapping(kek, r), kek, r, Last)
  BY <1>1, WrappingBegins
<1>3. WrapsFrom(Wrapping(kek, r), kek, 0) /\ Wrapping(kek, r)[0] = <<IV, r>>
  BY <1>2 DEF Begins, WrapsFrom
<1> QED BY <1>3 DEF OInv, OnlyWrappedOpens

\* A payload that passes the comparison with IV_5649 is what an HSM makes of the
\* returned key with the kek it was opened with, whatever the cipher
\* (OpensOnlyWrapped).
THEOREM OpensOnlyWrappings == WrapSpec => []OpensOnlyWrapped
BY OInvInit, OInvNext, OInvOpensOnlyWrapped, PTL DEF WrapSpec
=============================================================================
