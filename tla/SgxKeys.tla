------------------------------- MODULE SgxKeys -------------------------------
(* The key files of the SGX provider: `cloud-wrap`, `init` and `recover` of    *)
(* the runner (command.rs) with what the enclave does for them (entry,          *)
(* keypair_seal.rs, cloud.rs).  A sealed key opens only on the CPU it was       *)
(* sealed on, a backup with the key of the cloud HSM it was made with, which    *)
(* reaches the enclave wrapped for an RSA key that is itself sealed.            *)
EXTENDS Naturals

CONSTANTS
  CPUs,           \* processors the instance may run on
  CloudKeys,      \* sealing keys the cloud HSM may export
  MaxKeys,        \* bound: keys generated in one behaviour
  NoFile,         \* the file does not exist
  Torn            \* the file was truncated and not written to its end

ASSUME KeyBoundAssumption == MaxKeys \in Nat

Keys == 1 .. MaxKeys
SealedKeyData == [cpu : CPUs, key : Keys]
CloudBackupSeal == [rsa : Keys, seal : CloudKeys]
CloudBackupKeyData == [seal : CloudKeys, key : Keys]
CloudBackupKey == [sealed_rsa_key : SealedKeyData, backup_key : CloudBackupSeal]

ASSUME FileAssumption ==
  {NoFile, Torn} \cap (SealedKeyData \cup CloudBackupSeal \cup CloudBackupKeyData) = {}

VARIABLES
  cpu,           \* where the instance runs now
  fresh,         \* keys generated so far
  wrapKey,       \* sealed-wrap.key
  externalKey,   \* the wrapped cloud key, made by the HSM
  consensusKey, idKey,         \* secrets/secret.key, secrets/id.key
  consensusBackup, idBackup,   \* consensus-key.backup, id-key.backup
  at,            \* the step the running command is at
  cloud_backup,  \* {} or {CloudBackupKey}: what the command was given
  key_data,      \* {} or {CloudBackupKeyData}: returned by keygen, or read by recover
  last,          \* the command that has just returned Ok
  recoveredId    \* history: the identity key was written by recover

keyFiles == <<consensusKey, idKey, consensusBackup, idBackup>>
vars == <<cpu, fresh, wrapKey, externalKey, keyFiles, at, cloud_backup, key_data, last, recoveredId>>

Absent == {NoFile, Torn}
Steps == {"idle", "consensus", "consensus_backup", "id", "id_backup", "recover", "recover_id"}
Results == {"none", "init", "init_backup", "recover", "recover_id"}

TypeOK ==
  /\ cpu \in CPUs /\ fresh \in 0 .. MaxKeys
  /\ wrapKey \in SealedKeyData \cup Absent
  /\ externalKey \in CloudBackupSeal \cup Absent
  /\ consensusKey \in SealedKeyData \cup Absent
  /\ idKey \in SealedKeyData \cup Absent
  /\ consensusBackup \in CloudBackupKeyData \cup Absent
  /\ idBackup \in CloudBackupKeyData \cup Absent
  /\ at \in Steps /\ last \in Results /\ recoveredId \in BOOLEAN
  /\ cloud_backup \subseteq CloudBackupKey /\ \A b, c \in cloud_backup : b = c
  /\ key_data \subseteq CloudBackupKeyData /\ \A d, e \in key_data : d = e

Init ==
  /\ cpu \in CPUs /\ fresh = 0
  /\ wrapKey = NoFile /\ externalKey = NoFile
  /\ consensusKey = NoFile /\ idKey = NoFile
  /\ consensusBackup = NoFile /\ idBackup = NoFile
  /\ at = "idle" /\ cloud_backup = {} /\ key_data = {} /\ last = "none"
  /\ recoveredId = FALSE

-----------------------------------------------------------------------------
\* In the enclave.

seal(k) == [cpu |-> cpu, key |-> k]
unseals(sealed) == sealed.cpu = cpu

\* unseal_secret of the RSA key, then decrypt_wrapped_key with it.
decrypts(b) == unseals(b.sealed_rsa_key) /\ b.backup_key.rsa = b.sealed_rsa_key.key

\* cloud_backup of KeyGen; its error becomes None, as if nothing were asked for.
CloudBackup(k) == {[seal |-> b.backup_key.seal, key |-> k] : b \in {c \in cloud_backup : decrypts(c)}}

\* One launch of the enclave with KeyGen, its response stored in a key file.
KeyGen(file) ==
  /\ fresh < MaxKeys
  /\ fresh' = fresh + 1
  /\ file' = seal(fresh + 1)
  /\ key_data' = CloudBackup(fresh + 1)

\* reseal_recover_cloud up to the sealing: the key, if everything decrypts.
Recovered(b, d) == {k \in {d.key} : decrypts(b) /\ d.seal = b.backup_key.seal}

-----------------------------------------------------------------------------
\* `cloud-wrap`, which may be killed in its write, and the HSM, which exports a
\* sealing key for the RSA public key.
CloudWrap ==
  /\ at = "idle" /\ fresh < MaxKeys
  /\ fresh' = fresh + 1
  /\ wrapKey' \in {seal(fresh + 1), Torn}
  /\ last' = "none"
  /\ UNCHANGED <<cpu, externalKey, keyFiles, at, cloud_backup, key_data, recoveredId>>

Export(s) ==
  /\ at = "idle" /\ wrapKey \notin Absent
  /\ externalKey' = [rsa |-> wrapKey.key, seal |-> s]
  /\ last' = "none"
  /\ UNCHANGED <<cpu, fresh, wrapKey, keyFiles, at, cloud_backup, key_data, recoveredId>>

\* The files given with -w and -e, both or none.
Given == {[sealed_rsa_key |-> wrapKey, backup_key |-> externalKey] :
            x \in {y \in {0} : wrapKey \notin Absent /\ externalKey \notin Absent}}

-----------------------------------------------------------------------------
\* `init`: two launches of the enclave with the same request, and up to four
\* files, each truncated and then written.  (The configuration and the state
\* file it also creates are not among the key files.)
InitStart(given) ==
  /\ at = "idle"
  /\ at' = "consensus" /\ cloud_backup' = given /\ last' = "none"
  /\ UNCHANGED <<cpu, fresh, wrapKey, externalKey, keyFiles, key_data, recoveredId>>

KeyGenConsensus ==
  /\ at = "consensus" /\ KeyGen(consensusKey)
  /\ at' = "consensus_backup"
  /\ UNCHANGED <<cpu, wrapKey, externalKey, idKey, consensusBackup, idBackup, cloud_backup, last,
                  recoveredId>>

BackupConsensus ==
  /\ at = "consensus_backup"
  /\ \/ key_data = {} /\ UNCHANGED consensusBackup
     \/ consensusBackup' \in key_data
  /\ at' = "id" /\ key_data' = {}
  /\ UNCHANGED <<cpu, fresh, wrapKey, externalKey, consensusKey, idKey, idBackup, cloud_backup, last,
                  recoveredId>>

\* A variant that stores the key of the first launch again.
KeyGenIdSame ==
  /\ at = "id" /\ fresh < MaxKeys
  /\ idKey' = seal(fresh)
  /\ key_data' = CloudBackup(fresh)
  /\ at' = "id_backup" /\ recoveredId' = FALSE
  /\ UNCHANGED <<cpu, fresh, wrapKey, externalKey, consensusKey, consensusBackup, idBackup, cloud_backup, last>>

KeyGenId ==
  /\ at = "id" /\ KeyGen(idKey)
  /\ at' = "id_backup" /\ recoveredId' = FALSE
  /\ UNCHANGED <<cpu, wrapKey, externalKey, consensusKey, consensusBackup, idBackup, cloud_backup, last>>

InitReturns ==
  /\ at' = "idle" /\ cloud_backup' = {} /\ key_data' = {}
  /\ last' = IF cloud_backup = {} THEN "init" ELSE "init_backup"

\* A variant with one file for both backups.
BackupIdOver ==
  /\ at = "id_backup"
  /\ \/ key_data = {} /\ UNCHANGED consensusBackup
     \/ consensusBackup' \in key_data
  /\ InitReturns
  /\ UNCHANGED <<cpu, fresh, wrapKey, externalKey, consensusKey, idKey, idBackup, recoveredId>>

BackupId ==
  /\ at = "id_backup"
  /\ \/ key_data = {} /\ UNCHANGED idBackup
     \/ idBackup' \in key_data
  /\ InitReturns
  /\ UNCHANGED <<cpu, fresh, wrapKey, externalKey, consensusKey, idKey, consensusBackup, recoveredId>>

-----------------------------------------------------------------------------
\* `recover`, which reads consensus-key.backup in both of its modes.
RecoverStart(recover_consensus_key) ==
  /\ at = "idle" /\ Given # {} /\ consensusBackup \notin Absent
  /\ at' = IF recover_consensus_key THEN "recover" ELSE "recover_id"
  /\ cloud_backup' = Given /\ key_data' = {consensusBackup} /\ last' = "none"
  /\ UNCHANGED <<cpu, fresh, wrapKey, externalKey, keyFiles, recoveredId>>

\* A variant that stores the backup as it is instead of sealing its key.
RecoverUnsealed ==
  /\ at \in {"recover", "recover_id"}
  /\ \E b \in cloud_backup, d \in key_data : \E k \in Recovered(b, d) :
       IF at = "recover"
         THEN consensusKey' = d /\ UNCHANGED idKey
         ELSE idKey' = d /\ UNCHANGED consensusKey
  /\ at' = "idle" /\ cloud_backup' = {} /\ key_data' = {} /\ last' = at
  /\ recoveredId' = (recoveredId \/ at = "recover_id")
  /\ UNCHANGED <<cpu, fresh, wrapKey, externalKey, consensusBackup, idBackup>>

Recover ==
  /\ at \in {"recover", "recover_id"}
  /\ \E b \in cloud_backup, d \in key_data : \E k \in Recovered(b, d) :
       IF at = "recover"
         THEN consensusKey' = seal(k) /\ UNCHANGED idKey
         ELSE idKey' = seal(k) /\ UNCHANGED consensusKey
  /\ at' = "idle" /\ cloud_backup' = {} /\ key_data' = {} /\ last' = at
  /\ recoveredId' = (recoveredId \/ at = "recover_id")
  /\ UNCHANGED <<cpu, fresh, wrapKey, externalKey, consensusBackup, idBackup>>

-----------------------------------------------------------------------------
\* A command fails or is killed, at a write after the file was truncated or
\* before.
Tears(f, steps) == f' = f \/ (at \in steps /\ f' = Torn)

CommandFails ==
  /\ at # "idle"
  /\ Tears(consensusKey, {"consensus", "recover"})
  /\ Tears(idKey, {"id", "recover_id"})
  /\ Tears(consensusBackup, {s \in {"consensus_backup"} : key_data # {}})
  /\ Tears(idBackup, {s \in {"id_backup"} : key_data # {}})
  /\ at' = "idle" /\ cloud_backup' = {} /\ key_data' = {} /\ last' = "none"
  /\ UNCHANGED <<cpu, fresh, wrapKey, externalKey, recoveredId>>

\* The cloud moves the instance to another machine.
Relocate ==
  /\ at = "idle"
  /\ cpu' \in CPUs \ {cpu}
  /\ last' = "none"
  /\ UNCHANGED <<fresh, wrapKey, externalKey, keyFiles, at, cloud_backup, key_data, recoveredId>>

Next ==
  \/ CloudWrap \/ (\E s \in CloudKeys : Export(s))
  \/ (\E given \in {{}, Given} : InitStart(given))
  \/ KeyGenConsensus \/ BackupConsensus \/ KeyGenId \/ BackupId
  \/ (\E mode \in BOOLEAN : RecoverStart(mode)) \/ Recover
  \/ CommandFails \/ Relocate

Spec == Init /\ [][Next]_vars

-----------------------------------------------------------------------------
\* An `init` that was given a wrap key of this machine and the cloud key
\* exported for it leaves, when it returns, two backups, each of its own key
\* and each to be opened with that cloud key, whatever earlier commands left
\* behind.
BackupTaken ==
  last = "init_backup" /\ (\E b \in Given : decrypts(b)) =>
    /\ consensusBackup = [seal |-> externalKey.seal, key |-> consensusKey.key]
    /\ idBackup = [seal |-> externalKey.seal, key |-> idKey.key]

\* The consensus key is not used as the identity of the connection: as long as
\* the identity key was not written by `recover`, the two key files hold
\* different keys, through failures, repeated inits and recoveries.
KeysApart ==
  ~recoveredId /\ consensusKey \notin Absent /\ idKey \notin Absent =>
    consensusKey.key # idKey.key

\* "recover the previously backed up id/consensus key" (doc of recover).
RecoversId ==
  last = "recover_id" /\ idBackup \notin Absent => idKey.key = idBackup.key
=============================================================================
