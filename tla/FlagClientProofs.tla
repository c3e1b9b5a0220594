-------------------------- MODULE FlagClientProofs --------------------------
(***************************************************************************)
(* Proofs about FlagClient, for any number of activity instances whose      *)
(* attempts overlap, any keystore, and any number of keys and kills.        *)
(***************************************************************************)
EXTENDS FlagClient, TLAPS

USE FlagClientAssumption

\* A step of store at which something is refused and nothing changes.
GivesUp(i) ==
    /\ pc[i] \in {"loading", "strongbox", "checking_strongbox", "tee", "checking", "encrypting",
                 "opening"}
    /\ StoreFails(i)
    /\ UNCHANGED <<uiVars, entry, storeVars>>

LEMMA Refusals ==
    ASSUME NEW i \in Screens,
           LoadFails(i) \/ GenerateFails(i) \/ CheckFails(i) \/ EncryptFails(i) \/ OpenFails(i)
    PROVE  GivesUp(i)
BY DEF GivesUp, LoadFails, GenerateFails, CheckFails, EncryptFails, OpenFails

\* What the deletion of files does, whichever of them it succeeds with.
LEMMA FilesDeleted ==
    ASSUME TypeOK, NEW names \in SUBSET {"target", "temp"}, DeleteFiles(names)
    PROVE  /\ target' \in {target, Absent} /\ temp' \in {temp, Absent}
           /\ "target" \notin names => target' = target
           /\ writing' \in [Screens -> {"none", "temp", "target", "unlinked"}]
           /\ \A j \in Screens : writing[j] = "none" => writing'[j] = "none"
<1>1. PICK gone \in SUBSET names :
         /\ target' = IF "target" \in gone THEN Absent ELSE target
         /\ temp' = IF "temp" \in gone THEN Absent ELSE temp
         /\ writing' = [j \in Screens |-> IF writing[j] \in gone THEN "unlinked" ELSE writing[j]]
  BY DEF DeleteFiles
<1>2. "none" \notin gone
  OBVIOUS
<1> QED BY <1>1, <1>2 DEF TypeOK

\* Every step keeps the types.
LEMMA TypeStep == TypeOK /\ [Next]_vars => TypeOK'
<1> SUFFICES ASSUME TypeOK, [Next]_vars
             PROVE  TypeOK'
  OBVIOUS
<1> USE DEF TypeOK, GoTo, uiVars, storeVars, Proving, Storing
<1>s. {"idle", "in_flight", "tier2", "expired", "invalid", "unavailable", "untrusted",
       "no_connection", "storage_failed"} \subseteq Statuses
  BY DEF Statuses
<1>0. NoKey \notin Keys /\ Absent = NoKey /\ Empty \notin Keys
  BY DEF NoKey, Absent, Empty, Keys
<1>1. ASSUME NEW i \in Screens, Create(i) \/ Destroy(i) \/ Tap(i) PROVE TypeOK'
  <2>1. CASE Create(i)
    BY <2>1, <1>s DEF Create
  <2>2. CASE Destroy(i)
    BY <2>2 DEF Destroy
  <2>3. CASE Tap(i)
    BY <2>3, <1>s DEF Tap
  <2> QED BY <1>1, <2>1, <2>2, <2>3
<1>2. ASSUME NEW i \in Screens, Challenged(i) \/ GenerateAttested(i) \/ AttestStrongBoxFails(i)
             \/ AttestFallback(i) \/ Sign(i) \/ DeleteEntry(i) \/ Accepted(i)
      PROVE  TypeOK'
  <2>1. CASE Challenged(i) \/ Sign(i) \/ Accepted(i)
    BY <2>1 DEF Challenged, Sign, Accepted
  <2>2. CASE GenerateAttested(i) \/ AttestFallback(i)
    BY <2>2 DEF GenerateAttested, AttestFallback
  <2>3. CASE AttestStrongBoxFails(i)
    BY <2>3 DEF AttestStrongBoxFails
  <2>4. CASE DeleteEntry(i)
    BY <2>4 DEF DeleteEntry
  <2> QED BY <1>2, <2>1, <2>2, <2>3, <2>4
<1>3. ASSUME NEW i \in Screens, CallFails(i) PROVE TypeOK'
  <2>1. PICK r \in Failures \cup {"unavailable"} : Conclude(i, r)
    BY <1>3 DEF CallFails
  <2>2. r \in Statuses
    BY <1>s
  <2> QED BY <1>3, <2>1, <2>2 DEF CallFails, Conclude
<1>4. ASSUME NEW i \in Screens, AttestFails(i) \/ SignFails(i) PROVE TypeOK'
  BY <1>4, <1>s DEF AttestFails, SignFails, ProveThrows
<1>5. ASSUME NEW i \in Screens, Rejected(i) PROVE TypeOK'
  <2>1. PICK code \in Codes : Conclude(i, ForCode(code))
    BY <1>5 DEF Rejected
  <2>2. ForCode(code) \in Statuses
    BY DEF ForCode, Statuses, KnownCodes
  <2> QED BY <1>5, <2>1, <2>2 DEF Rejected, Conclude
<1>6. ASSUME NEW i \in Screens, Interrupted(i) \/ Post(i) PROVE TypeOK'
  <2>1. /\ pc' \in [Screens -> Proving \cup Storing \cup {"idle", "asking", "sending", "posting"}]
        /\ key' \in [Screens -> {NoKey} \cup Keys]
        /\ result' \in [Screens -> Statuses]
        /\ writing' \in [Screens -> {"none", "temp", "target", "unlinked"}]
    BY <1>6, <1>s DEF Interrupted, Post, EndAttempt
  <2>2. /\ screen' \in [Screens -> {"absent", "shown", "destroyed"}]
        /\ enabled' \in [Screens -> BOOLEAN]
        /\ status' \in [Screens -> Statuses]
    BY <1>6, <1>s DEF Interrupted, Post
  <2> QED BY <1>6, <2>1, <2>2 DEF Interrupted, Post
<1>7. ASSUME NEW i \in Screens, LoadKey(i) \/ NoKeyYet(i) \/ StrongBoxFails(i) \/ CheckKey(i)
      PROVE  TypeOK'
  BY <1>7 DEF LoadKey, NoKeyYet, StrongBoxFails, CheckKey, RequireHardware
<1>8. ASSUME NEW i \in Screens, Generate(i) PROVE TypeOK'
  <2>1. keysMade' \in 1 .. MaxKeys
    BY <1>8 DEF Generate
  <2>2. PICK hardware \in SecurityLevels :
           alias' = [id |-> keysMade', hardware |-> hardware] /\ key' = [key EXCEPT ![i] = alias']
    BY <1>8 DEF Generate
  <2>3. alias' \in Keys
    BY <2>1, <2>2 DEF Keys
  <2> QED BY <1>8, <2>1, <2>2, <2>3 DEF Generate
<1>9. ASSUME NEW i \in Screens, GivesUp(i) \/ Encrypt(i) \/ WriteFails(i) PROVE TypeOK'
  BY <1>9, <1>s DEF GivesUp, Encrypt, WriteFails, StoreFails, Conclude
<1>d. ASSUME NEW i \in Screens, DeleteRecords(i) \/ DeleteTemp(i) PROVE TypeOK'
  <2>1. /\ target' \in {target, Absent} /\ temp' \in {temp, Absent}
        /\ writing' \in [Screens -> {"none", "temp", "target", "unlinked"}]
    BY <1>d, FilesDeleted DEF DeleteRecords, DeleteTemp
  <2> QED BY <1>d, <2>1, <1>s DEF DeleteRecords, DeleteTemp, StoreFails, Conclude
<1>10. ASSUME NEW i \in Screens, OpenTemp(i) \/ WriteTemp(i) \/ RenameFails(i) PROVE TypeOK'
  BY <1>10, <1>0 DEF OpenTemp, WriteTemp, RenameFails
<1>11. ASSUME NEW i \in Screens, Rename(i) PROVE TypeOK'
  <2>1. writing' \in [Screens -> {"none", "temp", "target", "unlinked"}]
    BY <1>11, Zenon DEF Rename
  <2> QED BY <1>11, <2>1, <1>s DEF Rename
<1>12. CASE Kill
  BY <1>12, <1>s DEF Kill
<1>13. CASE UNCHANGED vars
  BY <1>13 DEF vars
<1> QED BY <1>1, <1>2, <1>3, <1>4, <1>5, <1>6, <1>7, <1>8, <1>9, <1>10, <1>d, <1>11, <1>12, <1>13,
        Refusals DEF Next, Attempt

-----------------------------------------------------------------------------
\* A thread that may write a record holds a key that was checked, and the files change
\* only by what such a thread writes, by the rename, or by being emptied or deleted.
LEMMA HardwareStep == IInv /\ [Next]_vars => HardwareKeysOnly' /\ HoldersAreHardware'
<1> SUFFICES ASSUME IInv, [Next]_vars
             PROVE  HardwareKeysOnly' /\ HoldersAreHardware'
  OBVIOUS
<1> USE DEF IInv, TypeOK, GoTo, uiVars, storeVars
<1>0. Absent \notin Keys /\ Empty \notin Keys
  BY DEF Absent, Empty, Keys
<1>k. ASSUME UNCHANGED <<target, temp>>, key' = key,
             \A i \in Screens : pc'[i] = pc[i]
                                \/ pc'[i] \notin {"encrypting", "opening", "writing"}
      PROVE  HardwareKeysOnly' /\ HoldersAreHardware'
  BY <1>k DEF HardwareKeysOnly, HoldersAreHardware
<1>1. ASSUME NEW i \in Screens, Create(i) \/ Destroy(i) \/ Tap(i)
      PROVE  HardwareKeysOnly' /\ HoldersAreHardware'
  BY <1>1, <1>k DEF Create, Destroy, Tap
<1>2. ASSUME NEW i \in Screens, Challenged(i) \/ GenerateAttested(i) \/ AttestStrongBoxFails(i)
             \/ AttestFallback(i) \/ Sign(i) \/ DeleteEntry(i) \/ Accepted(i) \/ AttestFails(i)
             \/ SignFails(i)
      PROVE  HardwareKeysOnly' /\ HoldersAreHardware'
  BY <1>2, <1>k DEF Challenged, GenerateAttested, AttestStrongBoxFails, AttestFallback, Sign,
                    DeleteEntry, Accepted, AttestFails, SignFails, ProveThrows
<1>3. ASSUME NEW i \in Screens, CallFails(i) \/ Rejected(i) \/ NoKeyYet(i)
             \/ GivesUp(i) \/ WriteFails(i) \/ RenameFails(i)
      PROVE  HardwareKeysOnly' /\ HoldersAreHardware'
  BY <1>3, <1>k DEF CallFails, Rejected, NoKeyYet, GivesUp, WriteFails,
                    RenameFails, StoreFails, Conclude
<1>4. ASSUME NEW i \in Screens, Interrupted(i) \/ Post(i)
      PROVE  HardwareKeysOnly' /\ HoldersAreHardware'
  <2>1. UNCHANGED <<target, temp>> /\ EndAttempt(i)
    BY <1>4 DEF Interrupted, Post
  <2> QED BY <2>1 DEF EndAttempt, HardwareKeysOnly, HoldersAreHardware
<1>5. ASSUME NEW i \in Screens, LoadKey(i) \/ CheckKey(i)
      PROVE  HardwareKeysOnly' /\ HoldersAreHardware'
  <2>1. UNCHANGED <<target, temp>>
    BY <1>5 DEF LoadKey, CheckKey
  <2>2. CASE LoadKey(i)
    BY <2>1, <2>2 DEF LoadKey, RequireHardware, HardwareKeysOnly, HoldersAreHardware
  <2>3. CASE CheckKey(i)
    BY <2>1, <2>3 DEF CheckKey, RequireHardware, HardwareKeysOnly, HoldersAreHardware
  <2> QED BY <1>5, <2>2, <2>3
<1>6. ASSUME NEW i \in Screens, Generate(i) \/ StrongBoxFails(i)
      PROVE  HardwareKeysOnly' /\ HoldersAreHardware'
  BY <1>6 DEF Generate, StrongBoxFails, HardwareKeysOnly, HoldersAreHardware
<1>7. ASSUME NEW i \in Screens, DeleteRecords(i) \/ DeleteTemp(i)
      PROVE  HardwareKeysOnly' /\ HoldersAreHardware'
  <2>1. target' \in {target, Absent} /\ temp' \in {temp, Absent}
    BY <1>7, FilesDeleted DEF DeleteRecords, DeleteTemp
  <2>2. HardwareKeysOnly'
    BY <2>1, <1>0 DEF HardwareKeysOnly
  <2> QED BY <1>7, <2>2 DEF DeleteRecords, DeleteTemp, StoreFails, Conclude, HoldersAreHardware
<1>8. ASSUME NEW i \in Screens, Encrypt(i) PROVE HardwareKeysOnly' /\ HoldersAreHardware'
  BY <1>8 DEF Encrypt, StoreFails, Conclude, HardwareKeysOnly, HoldersAreHardware
<1>9. ASSUME NEW i \in Screens, OpenTemp(i) PROVE HardwareKeysOnly' /\ HoldersAreHardware'
  BY <1>9, <1>0 DEF OpenTemp, HardwareKeysOnly, HoldersAreHardware
<1>10. ASSUME NEW i \in Screens, WriteTemp(i) PROVE HardwareKeysOnly' /\ HoldersAreHardware'
  <2>1. key[i].hardware /\ target' \in {target, key[i]} /\ temp' \in {temp, key[i]}
    BY <1>10 DEF WriteTemp, HoldersAreHardware
  <2> QED BY <1>10, <2>1 DEF WriteTemp, HardwareKeysOnly, HoldersAreHardware
<1>11. ASSUME NEW i \in Screens, Rename(i) PROVE HardwareKeysOnly' /\ HoldersAreHardware'
  <2>1. target' = temp /\ temp' = Absent /\ key' = key /\ pc' = [pc EXCEPT ![i] = "posting"]
    BY <1>11 DEF Rename
  <2> QED BY <2>1, <1>0 DEF HardwareKeysOnly, HoldersAreHardware
<1>12. CASE Kill
  BY <1>12 DEF Kill, HardwareKeysOnly, HoldersAreHardware
<1>13. CASE UNCHANGED vars
  BY <1>13, <1>k DEF vars
<1> QED BY <1>1, <1>2, <1>3, <1>4, <1>5, <1>6, <1>7, <1>8, <1>9, <1>10, <1>11, <1>12, <1>13,
        Refusals DEF Next, Attempt

\* prove is left through the deletion only.
LEMMA EntryStep == IInv /\ [Next]_vars => NoKeyLeftBehind'
<1> SUFFICES ASSUME IInv, [Next]_vars
             PROVE  NoKeyLeftBehind'
  OBVIOUS
<1> USE DEF IInv, TypeOK, GoTo, uiVars, storeVars, Proving
<1>k. ASSUME entry' = entry, \A i \in Screens : pc[i] \in Proving => pc'[i] \in Proving
      PROVE  NoKeyLeftBehind'
  BY <1>k DEF NoKeyLeftBehind
<1>e. ASSUME NEW i \in Screens, pc[i] \notin Proving, entry' = entry,
             \A j \in Screens : j # i => pc'[j] = pc[j]
      PROVE  NoKeyLeftBehind'
  BY <1>e, <1>k
<1>1. ASSUME NEW i \in Screens, Create(i) \/ Destroy(i) PROVE NoKeyLeftBehind'
  BY <1>1, <1>k DEF Create, Destroy
<1>2. ASSUME NEW i \in Screens, Tap(i) PROVE NoKeyLeftBehind'
  <2>1. entry' = entry /\ pc' = [pc EXCEPT ![i] = "asking"]
    BY <1>2 DEF Tap
  <2>2. pc[i] = "idle"
    BY <1>2 DEF Tap, OneAttempt
  <2> QED BY <2>1, <2>2, <1>e
<1>3. ASSUME NEW i \in Screens, GenerateAttested(i) \/ AttestStrongBoxFails(i)
             \/ AttestFallback(i) \/ AttestFails(i)
      PROVE  NoKeyLeftBehind'
  <2>1. pc'[i] \in Proving /\ \A j \in Screens : j # i => pc'[j] = pc[j] /\ entry'[j] = entry[j]
    BY <1>3 DEF GenerateAttested, AttestStrongBoxFails, AttestFallback, AttestFails, ProveThrows
  <2> QED BY <2>1 DEF NoKeyLeftBehind
<1>4. ASSUME NEW i \in Screens, Sign(i) \/ SignFails(i) PROVE NoKeyLeftBehind'
  BY <1>4, <1>k DEF Sign, SignFails, ProveThrows
<1>5. ASSUME NEW i \in Screens, DeleteEntry(i) PROVE NoKeyLeftBehind'
  BY <1>5 DEF DeleteEntry, NoKeyLeftBehind
<1>6. ASSUME NEW i \in Screens, Challenged(i) \/ CallFails(i) \/ Interrupted(i) \/ Accepted(i)
             \/ Rejected(i)
      PROVE  NoKeyLeftBehind'
  BY <1>6, <1>e DEF Challenged, CallFails, Interrupted, EndAttempt, Accepted, Rejected, Conclude
<1>7. ASSUME NEW i \in Screens, LoadKey(i) \/ NoKeyYet(i) \/ Generate(i) \/ StrongBoxFails(i)
             \/ GivesUp(i) \/ CheckKey(i)
      PROVE  NoKeyLeftBehind'
  BY <1>7, <1>e DEF LoadKey, NoKeyYet, Generate, StrongBoxFails, GivesUp, CheckKey,
                    RequireHardware, StoreFails, Conclude
<1>8. ASSUME NEW i \in Screens, DeleteRecords(i) \/ Encrypt(i) \/ OpenTemp(i) \/ WriteTemp(i)
             \/ WriteFails(i) \/ Rename(i) \/ RenameFails(i) \/ DeleteTemp(i) \/ Post(i)
      PROVE  NoKeyLeftBehind'
  <2>1. pc[i] \notin Proving /\ entry' = entry /\ \A j \in Screens : j # i => pc'[j] = pc[j]
    BY <1>8 DEF DeleteRecords, Encrypt, OpenTemp, WriteTemp, WriteFails, Rename, RenameFails,
                DeleteTemp, DeleteFiles, Post, EndAttempt, StoreFails, Conclude
  <2> QED BY <2>1, <1>e
<1>9. CASE Kill
  BY <1>9 DEF Kill, NoKeyLeftBehind
<1>10. CASE UNCHANGED vars
  BY <1>10, <1>k DEF vars
<1> QED BY <1>1, <1>2, <1>3, <1>4, <1>5, <1>6, <1>7, <1>8, <1>9, <1>10, Refusals
        DEF Next, Attempt

\* An instance that can begin an attempt has none under way.
LEMMA AttemptStep == IInv /\ [Next]_vars => OneAttempt'
<1> SUFFICES ASSUME IInv, [Next]_vars
             PROVE  OneAttempt'
  OBVIOUS
<1> USE DEF IInv, TypeOK, GoTo, uiVars, storeVars
<1>k. ASSUME NEW i \in Screens, pc[i] # "idle", UNCHANGED uiVars,
             \A j \in Screens : j # i => pc'[j] = pc[j]
      PROVE  OneAttempt'
  BY <1>k DEF OneAttempt
<1>1. ASSUME NEW i \in Screens, Create(i) \/ Destroy(i) \/ Tap(i) PROVE OneAttempt'
  <2>1. CASE Create(i)
    BY <2>1 DEF Create, OneAttempt
  <2>2. CASE Destroy(i)
    BY <2>2 DEF Destroy, OneAttempt
  <2>3. CASE Tap(i)
    BY <2>3 DEF Tap, OneAttempt
  <2> QED BY <1>1, <2>1, <2>2, <2>3
<1>2. ASSUME NEW i \in Screens, Interrupted(i) \/ Post(i) PROVE OneAttempt'
  <2>1. /\ pc' = [pc EXCEPT ![i] = "idle"]
        /\ \A j \in Screens : j # i => screen'[j] = screen[j] /\ enabled'[j] = enabled[j]
    BY <1>2 DEF Interrupted, Post, EndAttempt
  <2> QED BY <2>1 DEF OneAttempt
<1>3. ASSUME NEW i \in Screens, Challenged(i) \/ CallFails(i) \/ GenerateAttested(i)
             \/ AttestStrongBoxFails(i) \/ AttestFallback(i) \/ AttestFails(i) \/ Sign(i)
             \/ SignFails(i) \/ DeleteEntry(i) \/ Accepted(i) \/ Rejected(i)
      PROVE  OneAttempt'
  <2>1. /\ pc[i] # "idle" /\ UNCHANGED uiVars
        /\ \A j \in Screens : j # i => pc'[j] = pc[j]
    BY <1>3 DEF Challenged, CallFails, GenerateAttested, AttestStrongBoxFails, AttestFallback,
                AttestFails, Sign, SignFails, DeleteEntry, Accepted, Rejected, ProveThrows, Conclude
  <2> QED BY <2>1, <1>k
<1>4. ASSUME NEW i \in Screens, LoadKey(i) \/ NoKeyYet(i) \/ Generate(i) \/ StrongBoxFails(i)
             \/ GivesUp(i) \/ CheckKey(i) \/ DeleteRecords(i) \/ Encrypt(i) \/ OpenTemp(i)
             \/ WriteTemp(i) \/ WriteFails(i) \/ Rename(i) \/ RenameFails(i) \/ DeleteTemp(i)
      PROVE  OneAttempt'
  <2>1. /\ pc[i] # "idle" /\ UNCHANGED uiVars
        /\ \A j \in Screens : j # i => pc'[j] = pc[j]
    BY <1>4 DEF LoadKey, NoKeyYet, Generate, StrongBoxFails, GivesUp, CheckKey, DeleteRecords,
                Encrypt, OpenTemp, WriteTemp, WriteFails, Rename, RenameFails, DeleteTemp,
                RequireHardware, StoreFails, Conclude
  <2> QED BY <2>1, <1>k
<1>5. CASE Kill
  BY <1>5 DEF Kill, OneAttempt
<1>6. CASE UNCHANGED vars
  BY <1>6 DEF vars, OneAttempt
<1> QED BY <1>1, <1>2, <1>3, <1>4, <1>5, <1>6, Refusals DEF Next, Attempt

\* Keys are numbered in the order in which they are made.
LEMMA KeysStep == IInv /\ [Next]_vars => KeysAreMade'
<1> SUFFICES ASSUME IInv, [Next]_vars
             PROVE  KeysAreMade'
  OBVIOUS
<1> USE DEF IInv, TypeOK, GoTo, uiVars, storeVars
<1>0. /\ keysMade \in Nat /\ NoKey.id = 0 /\ Absent.id = 0 /\ Empty.id = 0
      /\ Keys \subseteq [id : Nat, hardware : BOOLEAN]
  BY DEF NoKey, Absent, Empty, Keys
<1>i. /\ alias.id \in Nat /\ target.id \in Nat /\ temp.id \in Nat
      /\ \A i \in Screens : key[i].id \in Nat
  BY <1>0
<1>k. ASSUME keysMade' = keysMade, alias' \in {alias, NoKey},
             target' \in {target, temp, Absent}, temp' \in {temp, Absent, Empty},
             \A i \in Screens : key'[i] \in {key[i], alias, NoKey}
      PROVE  KeysAreMade'
  BY <1>k, <1>0 DEF KeysAreMade
<1>1. ASSUME NEW i \in Screens, Create(i) \/ Destroy(i) \/ Tap(i) PROVE KeysAreMade'
  BY <1>1, <1>k DEF Create, Destroy, Tap
<1>2. ASSUME NEW i \in Screens, Challenged(i) \/ CallFails(i) \/ GenerateAttested(i)
             \/ AttestStrongBoxFails(i) \/ AttestFallback(i) \/ AttestFails(i) \/ Sign(i)
             \/ SignFails(i) \/ DeleteEntry(i) \/ Accepted(i) \/ Rejected(i)
      PROVE  KeysAreMade'
  BY <1>2, <1>k DEF Challenged, CallFails, GenerateAttested, AttestStrongBoxFails,
                    AttestFallback, AttestFails, Sign, SignFails, DeleteEntry, Accepted, Rejected
<1>3. ASSUME NEW i \in Screens, Interrupted(i) \/ Post(i) PROVE KeysAreMade'
  BY <1>3, <1>k DEF Interrupted, Post, EndAttempt
<1>4. ASSUME NEW i \in Screens, LoadKey(i) \/ StrongBoxFails(i) \/ CheckKey(i) PROVE KeysAreMade'
  BY <1>4, <1>k DEF LoadKey, StrongBoxFails, CheckKey, RequireHardware
<1>5. ASSUME NEW i \in Screens, NoKeyYet(i) \/ GivesUp(i) \/ Encrypt(i) \/ WriteFails(i)
             \/ RenameFails(i) \/ OpenTemp(i)
      PROVE  KeysAreMade'
  BY <1>5, <1>k DEF NoKeyYet, GivesUp, Encrypt, WriteFails, RenameFails, OpenTemp
<1>6. ASSUME NEW i \in Screens, DeleteRecords(i) \/ DeleteTemp(i) PROVE KeysAreMade'
  <2>1. target' \in {target, Absent} /\ temp' \in {temp, Absent}
    BY <1>6, FilesDeleted DEF DeleteRecords, DeleteTemp
  <2> QED BY <1>6, <2>1, <1>k DEF DeleteRecords, DeleteTemp
<1>7. ASSUME NEW i \in Screens, Generate(i) PROVE KeysAreMade'
  <2>1. PICK hardware \in SecurityLevels :
           alias' = [id |-> keysMade', hardware |-> hardware] /\ key' = [key EXCEPT ![i] = alias']
    BY <1>7 DEF Generate
  <2>2. alias'.id = keysMade' /\ keysMade' = keysMade + 1 /\ UNCHANGED <<target, temp>>
    BY <1>7, <2>1 DEF Generate
  <2> QED BY <2>1, <2>2, <1>0, <1>i DEF KeysAreMade
<1>8. ASSUME NEW i \in Screens, WriteTemp(i) PROVE KeysAreMade'
  <2>1. /\ target' \in {target, key[i]} /\ temp' \in {temp, key[i]}
        /\ UNCHANGED <<key, alias, keysMade>>
    BY <1>8 DEF WriteTemp
  <2> QED BY <2>1 DEF KeysAreMade
<1>9. ASSUME NEW i \in Screens, Rename(i) PROVE KeysAreMade'
  BY <1>9, <1>k DEF Rename
<1>10. CASE Kill \/ UNCHANGED vars
  BY <1>10, <1>k DEF Kill, vars
<1> QED BY <1>1, <1>2, <1>3, <1>4, <1>5, <1>6, <1>7, <1>8, <1>9, <1>10, Refusals
        DEF Next, Attempt

LEMMA InitHolds == Init => IInv
BY DEF Init, IInv, TypeOK, Statuses, Absent, Empty, Keys, NoKey, NoKeyLeftBehind,
       HardwareKeysOnly, HoldersAreHardware, OneAttempt, KeysAreMade

\* The strengthened invariant holds in every reachable state.
LEMMA Inductive == Spec => []IInv
<1>1. IInv /\ [Next]_vars => IInv'
  BY TypeStep, HardwareStep, EntryStep, AttemptStep, KeysStep DEF IInv
<1> QED BY InitHolds, <1>1, PTL DEF Spec

\* The variables keep their types.
THEOREM TypeCorrect == Spec => []TypeOK
<1>1. IInv => TypeOK
  BY DEF IInv
<1> QED BY Inductive, <1>1, PTL

\* No flag is ever on disk under a key outside secure hardware, however many instances
\* generate, load and replace keys at once (FlagStore.kt:91-128).
THEOREM HardwareOnly == Spec => []HardwareKeysOnly
<1>1. IInv => HardwareKeysOnly
  BY DEF IInv
<1> QED BY Inductive, <1>1, PTL

\* An attempt that is past prove has left no attestation key behind, whichever of its
\* steps failed (Attestation.kt:37-49).
THEOREM KeyDeleted == Spec => []NoKeyLeftBehind
<1>1. IInv => NoKeyLeftBehind
  BY DEF IInv
<1> QED BY Inductive, <1>1, PTL

-----------------------------------------------------------------------------
\* An attempt alone.

Holding == {"checking_strongbox", "checking", "encrypting", "opening", "writing", "renaming"}

MakingKey == {"strongbox", "checking_strongbox", "tee", "checking", "purging"}

\* The part of AloneInv that is about one attempt.
AttemptInv(i) ==
    /\ writing[i] = IF pc[i] = "writing" THEN "temp" ELSE "none"
    /\ pc[i] \in Holding => alias \in Keys /\ key[i] = alias
    /\ pc[i] \in MakingKey => ~Readable
    /\ pc[i] = "renaming" => temp = key[i]
    /\ result[i] = "tier2" => pc[i] = "posting" /\ Readable

LEMMA AloneParts ==
    AloneInv <=> RecordIsWhole /\ OneShown /\ StoredWhileShown /\ \A i \in Screens : AttemptInv(i)
BY DEF AloneInv, OpensOnlyTemp, HoldsCurrentKey, LocksNobodyOut, RenamesItsRecord,
       StoredBeforePosted, AttemptInv, Holding, MakingKey

\* While one attempt is under way, the others are idle, hold no file and have no result.
LEMMA OthersIdle ==
    ASSUME IInv, NoOverlap, AloneInv, NEW i \in Screens, Attempt(i)
    PROVE  /\ pc[i] # "idle"
           /\ \A j \in Screens : j # i =>
                 pc[j] = "idle" /\ writing[j] = "none" /\ result[j] # "tier2"
           /\ \A j \in Screens : j # i =>
                 pc'[j] = pc[j] /\ result'[j] = result[j] /\ writing'[j] = writing[j]
<1> USE DEF IInv, TypeOK, GoTo, uiVars, storeVars
<1>1. pc[i] # "idle"
  BY DEF Attempt, Challenged, CallFails, Interrupted, GenerateAttested, AttestStrongBoxFails,
         AttestFallback, AttestFails, Sign, SignFails, DeleteEntry, Accepted, Rejected, LoadKey,
         NoKeyYet, Generate, StrongBoxFails, GivesUp, CheckKey, DeleteRecords, Encrypt, OpenTemp,
         WriteTemp, WriteFails, Rename, RenameFails, DeleteTemp, Post, LoadFails, GenerateFails,
         CheckFails, EncryptFails, OpenFails
<1>2. \A j \in Screens : j # i => pc[j] = "idle"
  BY <1>1 DEF NoOverlap
<1>3. \A j \in Screens : j # i => writing[j] = "none" /\ result[j] # "tier2"
  BY <1>2 DEF AloneInv, OpensOnlyTemp, StoredBeforePosted
<1>4. ASSUME NEW j \in Screens, j # i PROVE pc'[j] = pc[j]
  <2>1. CASE Challenged(i) \/ CallFails(i) \/ Interrupted(i) \/ GenerateAttested(i)
             \/ AttestStrongBoxFails(i) \/ AttestFallback(i) \/ AttestFails(i) \/ Sign(i)
             \/ SignFails(i) \/ DeleteEntry(i) \/ Accepted(i) \/ Rejected(i) \/ Post(i)
    BY <1>4, <2>1
       DEF Challenged, CallFails, Interrupted, GenerateAttested, AttestStrongBoxFails,
           AttestFallback, AttestFails, Sign, SignFails, DeleteEntry, Accepted, Rejected, Post,
           EndAttempt, ProveThrows, Conclude
  <2>2. CASE LoadKey(i) \/ NoKeyYet(i) \/ Generate(i) \/ StrongBoxFails(i) \/ GivesUp(i)
             \/ CheckKey(i) \/ DeleteRecords(i) \/ Encrypt(i) \/ OpenTemp(i) \/ WriteTemp(i)
             \/ WriteFails(i) \/ Rename(i) \/ RenameFails(i) \/ DeleteTemp(i)
    BY <1>4, <2>2
       DEF LoadKey, NoKeyYet, Generate, StrongBoxFails, GivesUp, CheckKey, DeleteRecords,
           Encrypt, OpenTemp, WriteTemp, WriteFails, Rename, RenameFails, DeleteTemp,
           RequireHardware, StoreFails, Conclude
  <2> QED BY <2>1, <2>2, Refusals DEF Attempt
<1>5. ASSUME NEW j \in Screens, j # i PROVE result'[j] = result[j]
  <2>1. CASE Challenged(i) \/ CallFails(i) \/ Interrupted(i) \/ GenerateAttested(i)
             \/ AttestStrongBoxFails(i) \/ AttestFallback(i) \/ AttestFails(i) \/ Sign(i)
             \/ SignFails(i) \/ DeleteEntry(i) \/ Accepted(i) \/ Rejected(i) \/ Post(i)
    BY <1>5, <2>1
       DEF Challenged, CallFails, Interrupted, GenerateAttested, AttestStrongBoxFails,
           AttestFallback, AttestFails, Sign, SignFails, DeleteEntry, Accepted, Rejected, Post,
           EndAttempt, ProveThrows, Conclude
  <2>2. CASE LoadKey(i) \/ NoKeyYet(i) \/ Generate(i) \/ StrongBoxFails(i) \/ GivesUp(i)
             \/ CheckKey(i) \/ DeleteRecords(i) \/ Encrypt(i) \/ OpenTemp(i) \/ WriteTemp(i)
             \/ WriteFails(i) \/ Rename(i) \/ RenameFails(i) \/ DeleteTemp(i)
    BY <1>5, <2>2
       DEF LoadKey, NoKeyYet, Generate, StrongBoxFails, GivesUp, CheckKey, DeleteRecords,
           Encrypt, OpenTemp, WriteTemp, WriteFails, Rename, RenameFails, DeleteTemp,
           StoreFails, Conclude
  <2> QED BY <2>1, <2>2, Refusals DEF Attempt
<1>6. ASSUME NEW j \in Screens, j # i PROVE writing'[j] = writing[j]
  <2>0. writing[j] = "none"
    BY <1>3, <1>6
  <2>1. CASE Interrupted(i) \/ Post(i) \/ OpenTemp(i) \/ WriteTemp(i) \/ WriteFails(i)
             \/ DeleteRecords(i) \/ DeleteTemp(i)
    BY <1>6, <2>0, <2>1, FilesDeleted
       DEF Interrupted, Post, EndAttempt, OpenTemp, WriteTemp, WriteFails, DeleteRecords, DeleteTemp
  <2>2. CASE Rename(i)
    <3>1. writing'[j] = CASE writing[j] = "temp"   -> "target"
                          [] writing[j] = "target" -> "unlinked"
                          [] OTHER                 -> writing[j]
      BY <2>2 DEF Rename
    <3> QED BY <2>0, <3>1
  <2>3. CASE ~Interrupted(i) /\ ~Post(i) /\ ~OpenTemp(i) /\ ~WriteTemp(i) /\ ~WriteFails(i)
             /\ ~DeleteRecords(i) /\ ~DeleteTemp(i) /\ ~Rename(i)
    <3>1. writing' = writing
      BY <2>3 DEF Attempt, Challenged, CallFails, GenerateAttested, AttestStrongBoxFails,
                  AttestFallback, AttestFails, Sign, SignFails, DeleteEntry, Accepted, Rejected,
                  LoadKey, NoKeyYet, Generate, StrongBoxFails, GivesUp, CheckKey, Encrypt,
                  RenameFails, LoadFails, GenerateFails, CheckFails, EncryptFails, OpenFails
    <3> QED BY <3>1
  <2> QED BY <2>1, <2>2, <2>3
<1> QED BY <1>1, <1>2, <1>3, <1>4, <1>5, <1>6

\* A step of an attempt alone keeps what is known of it, and never leaves the record
\* half-written.
LEMMA AttemptStepAlone ==
    ASSUME IInv, NoOverlap, AloneInv, NEW i \in Screens, Attempt(i)
    PROVE  RecordIsWhole' /\ AttemptInv(i)'
<1> USE DEF TypeOK, GoTo, uiVars, storeVars
<1>t. TypeOK /\ RecordIsWhole /\ AttemptInv(i) /\ pc[i] # "idle"
  BY AloneParts, OthersIdle DEF IInv
<1>0. NoKey \notin Keys /\ Absent = NoKey /\ Empty \notin Keys /\ Absent # Empty
  BY DEF NoKey, Absent, Empty, Keys
<1>w. pc[i] # "writing" => writing[i] = "none"
  BY <1>t DEF AttemptInv
<1>r. pc[i] # "posting" => result[i] # "tier2"
  BY <1>t DEF AttemptInv
<1>m. pc[i] \in MakingKey => ~Readable
  BY <1>t DEF AttemptInv
\* A step that leaves the files and the alias alone and begins neither to hold a key nor
\* to make one.
<1>k. ASSUME UNCHANGED <<writing, alias, target, temp, key>>, pc[i] # "writing",
             pc'[i] \notin Holding, pc'[i] \notin MakingKey, result'[i] # "tier2"
      PROVE  RecordIsWhole' /\ AttemptInv(i)'
  <2>1. pc'[i] # "writing" /\ pc'[i] # "renaming"
    BY <1>k DEF Holding
  <2> QED BY <1>k, <1>w, <1>t, <2>1 DEF AttemptInv, RecordIsWhole
\* A step that leaves the record alone, and makes or refuses a key it is not under.
<1>n. ASSUME UNCHANGED <<writing, target, temp, result>>, pc[i] # "writing", pc[i] # "posting",
             pc'[i] \in MakingKey, ~Readable',
             pc'[i] \in Holding => alias' \in Keys /\ key'[i] = alias'
      PROVE  RecordIsWhole' /\ AttemptInv(i)'
  <2>1. pc'[i] # "writing" /\ pc'[i] # "renaming"
    BY <1>n DEF MakingKey
  <2>2. result'[i] # "tier2"
    BY <1>n, <1>r
  <2> QED BY <1>n, <1>w, <1>t, <2>1, <2>2 DEF AttemptInv, RecordIsWhole
<1>1. CASE Challenged(i) \/ GenerateAttested(i) \/ AttestStrongBoxFails(i) \/ AttestFallback(i)
           \/ Sign(i) \/ Accepted(i) \/ RenameFails(i) \/ DeleteEntry(i)
  <2>1. UNCHANGED <<writing, alias, target, temp, key, result>> /\ pc[i] # "writing"
        /\ pc[i] # "posting" /\ pc'[i] \notin Holding /\ pc'[i] \notin MakingKey
    BY <1>1, <1>t DEF Challenged, GenerateAttested, AttestStrongBoxFails, AttestFallback, Sign,
                      Accepted, RenameFails, DeleteEntry, Holding, MakingKey
  <2> QED BY <2>1, <1>k, <1>r
<1>2. CASE CallFails(i) \/ AttestFails(i) \/ SignFails(i) \/ Rejected(i) \/ GivesUp(i)
  <2>1. UNCHANGED <<writing, alias, target, temp, key>> /\ pc[i] # "writing"
        /\ pc'[i] \notin Holding /\ pc'[i] \notin MakingKey
    BY <1>2, <1>t DEF CallFails, AttestFails, SignFails, Rejected, GivesUp, ProveThrows,
                      StoreFails, Conclude, Holding, MakingKey
  <2>2. result'[i] # "tier2"
    <3>1. \A code \in Codes : ForCode(code) # "tier2"
      BY DEF ForCode, KnownCodes
    <3> QED BY <1>2, <1>t, <3>1 DEF CallFails, AttestFails, SignFails, Rejected, GivesUp,
                                    ProveThrows, StoreFails, Conclude
  <2> QED BY <2>1, <2>2, <1>k
<1>3. CASE Interrupted(i) \/ Post(i)
  <2>1. /\ pc'[i] = "idle" /\ result'[i] = "idle" /\ writing'[i] = "none"
        /\ UNCHANGED <<alias, target, temp>>
    BY <1>3, <1>t DEF Interrupted, Post, EndAttempt
  <2> QED BY <2>1, <1>t DEF AttemptInv, RecordIsWhole, Holding, MakingKey
<1>4. CASE LoadKey(i) \/ CheckKey(i)
  <2>1. /\ UNCHANGED <<writing, result, target, temp>>
        /\ pc[i] \in {"loading", "checking_strongbox", "checking"}
    BY <1>4 DEF LoadKey, CheckKey
  <2>2. \/ pc'[i] = "encrypting" /\ alias' = alias /\ key'[i] = alias /\ alias \in Keys
        \/ pc'[i] = "purging" /\ alias' = NoKey
    <3>1. CASE LoadKey(i)
      BY <3>1, <1>t DEF LoadKey, RequireHardware
    <3>2. CASE CheckKey(i)
      BY <3>2, <1>t DEF CheckKey, RequireHardware, AttemptInv, Holding
    <3> QED BY <1>4, <3>1, <3>2
  <2>3. CASE pc'[i] = "encrypting"
    BY <2>1, <2>2, <2>3, <1>t DEF AttemptInv, RecordIsWhole, Holding, MakingKey
  <2>4. CASE pc'[i] = "purging"
    BY <2>1, <2>2, <2>4, <1>0, <1>n DEF Readable, Holding, MakingKey
  <2> QED BY <2>2, <2>3, <2>4
<1>y. CASE NoKeyYet(i)
  <2>1. /\ UNCHANGED <<writing, result, alias, target, temp>> /\ alias = NoKey
        /\ pc[i] = "loading" /\ pc'[i] \in {"strongbox", "tee"}
    BY <1>y, <1>t DEF NoKeyYet
  <2> QED BY <2>1, <1>0, <1>n DEF Readable, Holding, MakingKey
<1>5. CASE Generate(i)
  <2>1. keysMade' \in 1 .. MaxKeys
    BY <1>5, <1>t DEF Generate
  <2>2. PICK hardware \in SecurityLevels :
           alias' = [id |-> keysMade', hardware |-> hardware] /\ key' = [key EXCEPT ![i] = alias']
    BY <1>5 DEF Generate
  <2>3. alias' \in Keys /\ key'[i] = alias'
    BY <2>1, <2>2, <1>t DEF Keys
  <2>4. pc'[i] \in {"checking_strongbox", "checking"} /\ UNCHANGED <<writing, result, target, temp>>
        /\ pc[i] \in {"strongbox", "tee"}
    BY <1>5, <1>t DEF Generate
  <2>5. alias' # target
    <3>1. target.id <= keysMade /\ keysMade \in Nat /\ target.id \in Nat
      BY <1>t DEF IInv, KeysAreMade, Keys, Absent, Empty
    <3>2. alias'.id = keysMade + 1
      BY <1>5, <2>2 DEF Generate
    <3> QED BY <3>1, <3>2
  <2> QED BY <2>3, <2>4, <2>5, <1>n DEF Readable, MakingKey
<1>6. CASE StrongBoxFails(i)
  <2>1. /\ pc'[i] = "tee" /\ UNCHANGED <<writing, result, target, temp>>
        /\ pc[i] \in {"strongbox", "checking_strongbox"} /\ alias' \in {NoKey, alias}
    BY <1>6, <1>t DEF StrongBoxFails
  <2>2. ~Readable'
    BY <2>1, <1>m, <1>0 DEF Readable, MakingKey
  <2> QED BY <2>1, <2>2, <1>n DEF Holding, MakingKey
<1>7. CASE DeleteRecords(i) \/ DeleteTemp(i)
  <2>1. /\ pc'[i] = "posting" /\ result'[i] = "storage_failed" /\ target' \in {target, Absent}
        /\ pc[i] \in {"purging", "cleaning"}
    BY <1>7, <1>t, FilesDeleted DEF DeleteRecords, DeleteTemp, StoreFails, Conclude
  <2>2. writing'[i] = "none"
    BY <1>7, <1>t, <1>w, <2>1, FilesDeleted DEF DeleteRecords, DeleteTemp
  <2> QED BY <2>1, <2>2, <1>0, <1>t DEF AttemptInv, RecordIsWhole, Holding, MakingKey
<1>8. CASE Encrypt(i)
  <2>1. /\ pc[i] = "encrypting" /\ pc'[i] = "opening"
        /\ UNCHANGED <<writing, key, result, alias, target, temp>>
    BY <1>8, <1>t DEF Encrypt
  <2> QED BY <2>1, <1>t DEF AttemptInv, RecordIsWhole, Holding, MakingKey
<1>9. CASE OpenTemp(i)
  <2>1. /\ pc[i] = "opening" /\ pc'[i] = "writing" /\ writing'[i] = "temp"
        /\ UNCHANGED <<key, result, alias, target>>
    BY <1>9, <1>t DEF OpenTemp
  <2> QED BY <2>1, <1>t DEF AttemptInv, RecordIsWhole, Holding, MakingKey
<1>10. CASE WriteTemp(i)
  <2>1. /\ pc[i] = "writing" /\ pc'[i] = "renaming" /\ writing'[i] = "none"
        /\ UNCHANGED <<key, result, alias>>
    BY <1>10, <1>t DEF WriteTemp
  <2>2. writing[i] = "temp"
    BY <2>1, <1>t DEF AttemptInv
  <2>3. temp' = key[i] /\ target' = target
    BY <1>10, <2>2 DEF WriteTemp
  <2> QED BY <2>1, <2>3, <1>t DEF AttemptInv, RecordIsWhole, Holding, MakingKey
<1>11. CASE WriteFails(i)
  <2>1. /\ pc'[i] = "posting" /\ result'[i] = "storage_failed" /\ writing'[i] = "none"
        /\ target' = target
    BY <1>11, <1>t DEF WriteFails, StoreFails, Conclude
  <2> QED BY <2>1, <1>t DEF AttemptInv, RecordIsWhole, Holding, MakingKey
<1>12. CASE Rename(i)
  <2>1. /\ pc[i] = "renaming" /\ pc'[i] = "posting" /\ target' = temp
        /\ UNCHANGED <<key, alias>>
    BY <1>12, <1>t DEF Rename
  <2>2. temp = key[i] /\ key[i] = alias /\ alias \in Keys
    BY <2>1, <1>t DEF AttemptInv, Holding
  <2>3. writing'[i] = "none"
    <3>1. writing'[i] = CASE writing[i] = "temp"   -> "target"
                          [] writing[i] = "target" -> "unlinked"
                          [] OTHER                 -> writing[i]
      BY <1>12 DEF Rename
    <3>2. writing[i] = "none"
      BY <2>1, <1>w
    <3> QED BY <3>1, <3>2
  <2> QED BY <2>1, <2>2, <2>3, <1>0 DEF AttemptInv, RecordIsWhole, Readable, Holding,
                                           MakingKey
<1> QED BY <1>1, <1>2, <1>3, <1>4, <1>y, <1>5, <1>6, <1>7, <1>8, <1>9, <1>10, <1>11, <1>12,
        Refusals DEF Attempt

LEMMA AloneStep == IInv /\ NoOverlap /\ AloneInv /\ [Next]_vars => AloneInv'
<1> SUFFICES ASSUME IInv, NoOverlap, AloneInv, [Next]_vars
             PROVE  AloneInv'
  OBVIOUS
<1> USE DEF TypeOK, GoTo, uiVars, storeVars
<1>t. /\ TypeOK /\ OneAttempt /\ RecordIsWhole /\ OneShown /\ StoredWhileShown
      /\ \A i \in Screens : AttemptInv(i)
  BY AloneParts DEF IInv
<1>a. RecordIsWhole' /\ OneShown' /\ StoredWhileShown' /\ (\A i \in Screens : AttemptInv(i)')
          => AloneInv'
  BY DEF AloneInv, OpensOnlyTemp, HoldsCurrentKey, LocksNobodyOut, RenamesItsRecord,
         StoredBeforePosted, AttemptInv, Holding, MakingKey
<1>1. ASSUME NEW i \in Screens, Create(i) \/ Destroy(i) PROVE AloneInv'
  <2>1. UNCHANGED <<pc, key, result, writing, alias, target, temp>>
    BY <1>1 DEF Create, Destroy
  <2>2. RecordIsWhole' /\ \A j \in Screens : AttemptInv(j)'
    BY <2>1, <1>t DEF RecordIsWhole, AttemptInv, Readable
  <2>3. OneShown'
    BY <1>1, <1>t DEF Create, Destroy, OneShown
  <2>4. \A j \in Screens : screen'[j] = "shown" /\ status'[j] = "tier2"
            => screen[j] = "shown" /\ status[j] = "tier2"
    BY <1>1, <1>t DEF Create, Destroy
  <2>5. StoredWhileShown'
    BY <2>1, <2>4, <1>t DEF StoredWhileShown, Readable
  <2> QED BY <2>2, <2>3, <2>5, <1>a
<1>2. ASSUME NEW i \in Screens, Tap(i) PROVE AloneInv'
  <2>1. /\ screen' = screen /\ status' = [status EXCEPT ![i] = "in_flight"]
        /\ pc' = [pc EXCEPT ![i] = "asking"] /\ UNCHANGED <<key, result, writing, alias, target, temp>>
        /\ screen[i] = "shown" /\ pc[i] = "idle"
    BY <1>2, <1>t DEF Tap, OneAttempt
  <2>2. RecordIsWhole' /\ OneShown'
    BY <2>1, <1>t DEF RecordIsWhole, OneShown
  <2>3. ASSUME NEW j \in Screens PROVE AttemptInv(j)'
    <3>1. CASE j = i
      BY <2>1, <3>1, <1>t DEF AttemptInv, Holding, MakingKey
    <3>2. CASE j # i
      BY <2>1, <3>2, <1>t DEF AttemptInv, Readable
    <3> QED BY <3>1, <3>2
  <2>4. StoredWhileShown'
    <3>1. \A j \in Screens : screen'[j] = "shown" => j = i
      BY <2>1, <1>t DEF OneShown
    <3>2. status'[i] # "tier2"
      BY <2>1, <1>t
    <3> QED BY <3>1, <3>2 DEF StoredWhileShown
  <2> QED BY <2>2, <2>3, <2>4, <1>a
<1>3. ASSUME NEW i \in Screens, Attempt(i) PROVE AloneInv'
  <2>1. RecordIsWhole' /\ AttemptInv(i)'
    BY <1>3, AttemptStepAlone
  <2>2. /\ pc[i] # "idle"
        /\ \A j \in Screens : j # i => pc'[j] = "idle" /\ writing'[j] = "none" /\ result'[j] # "tier2"
    BY <1>3, OthersIdle
  <2>3. ASSUME NEW j \in Screens PROVE AttemptInv(j)'
    <3>1. CASE j # i
      BY <2>2, <3>1 DEF AttemptInv, Holding, MakingKey
    <3> QED BY <2>1, <3>1
  <2>4. \A j \in Screens : ~(screen[j] = "shown" /\ status[j] = "tier2")
    BY <2>2, <1>t DEF StoredWhileShown
  <2>5. OneShown' /\ StoredWhileShown'
    <3>1. CASE UNCHANGED uiVars
      BY <2>4, <3>1, <1>t DEF OneShown, StoredWhileShown
    <3>2. CASE Interrupted(i)
      BY <2>4, <3>2, <1>t DEF Interrupted, OneShown, StoredWhileShown
    <3>3. CASE Post(i)
      <4>1. /\ pc[i] = "posting" /\ pc'[i] = "idle" /\ UNCHANGED <<alias, target>>
            /\ \A j \in Screens : screen'[j] = "shown" => screen[j] = "shown"
            /\ \A j \in Screens : status'[j] = status[j] \/ (j = i /\ status'[i] = result[i])
        BY <3>3, <1>t DEF Post, EndAttempt
      <4>2. \A j \in Screens : pc'[j] = "idle"
        BY <2>2, <4>1
      <4>3. result[i] = "tier2" => Readable'
        BY <4>1, <1>t DEF AttemptInv, Readable
      <4> QED BY <2>4, <4>1, <4>2, <4>3, <1>t DEF OneShown, StoredWhileShown
    <3>4. CASE ~Interrupted(i) /\ ~Post(i)
      <4>1. UNCHANGED uiVars
        BY <1>3, <3>4
           DEF Attempt, Challenged, CallFails, GenerateAttested, AttestStrongBoxFails,
               AttestFallback, AttestFails, Sign, SignFails, DeleteEntry, Accepted, Rejected,
               LoadKey, NoKeyYet, Generate, StrongBoxFails, GivesUp, CheckKey, DeleteRecords,
               Encrypt, OpenTemp, WriteTemp, WriteFails, Rename, RenameFails, DeleteTemp,
               LoadFails, GenerateFails, CheckFails, EncryptFails, OpenFails
      <4> QED BY <3>1, <4>1
    <3> QED BY <3>2, <3>3, <3>4
  <2> QED BY <2>1, <2>3, <2>5, <1>a
<1>4. CASE Kill
  <2>1. RecordIsWhole' /\ OneShown' /\ StoredWhileShown'
    BY <1>4, <1>t DEF Kill, RecordIsWhole, OneShown, StoredWhileShown
  <2>2. \A i \in Screens : AttemptInv(i)'
    BY <1>4 DEF Kill, AttemptInv, Holding, MakingKey
  <2> QED BY <2>1, <2>2, <1>a
<1>5. CASE UNCHANGED vars
  <2>1. RecordIsWhole' /\ OneShown' /\ StoredWhileShown'
    BY <1>5, <1>t DEF vars, RecordIsWhole, OneShown, StoredWhileShown, Readable
  <2>2. \A i \in Screens : AttemptInv(i)'
    BY <1>5, <1>t DEF vars, AttemptInv, Readable
  <2> QED BY <2>1, <2>2, <1>a
<1> QED BY <1>1, <1>2, <1>3, <1>4, <1>5 DEF Next

LEMMA AloneInit == Init => AloneInv
BY DEF Init, AloneInv, RecordIsWhole, OneShown, OpensOnlyTemp, HoldsCurrentKey,
       LocksNobodyOut, RenamesItsRecord, StoredBeforePosted, StoredWhileShown, Absent, Empty

\* AloneInv holds for as long as no two attempts are under way at once.
LEMMA InductiveAlone == Spec /\ []NoOverlap => []AloneInv
BY Inductive, AloneInit, AloneStep, PTL DEF Spec

\* Unless two attempts are under way at once, tier2.bin is never a half-written file:
\* neither a kill nor a write that fails shows anyone a part of a record
\* (FlagStore.kt:23-24, 134-142).
THEOREM WholeRecord == Spec /\ []NoOverlap => []RecordIsWhole
<1>1. AloneInv => RecordIsWhole
  BY DEF AloneInv
<1> QED BY InductiveAlone, <1>1, PTL

\* Unless two attempts are under way at once, a screen that says the flag was accepted
\* says so of a record that the current key decrypts, for as long as it says it, whatever
\* instance, kill or failed attempt came before (MainActivity.kt:33-42).
THEOREM StoredIfAccepted == Spec /\ []NoOverlap => []AcceptedMeansStored
<1>1. AloneInv => AcceptedMeansStored
  BY DEF AloneInv, StoredWhileShown, AcceptedMeansStored
<1> QED BY InductiveAlone, <1>1, PTL

\* Unless two attempts are under way at once, a stored record that can be decrypted stays
\* one, whatever is refused and whenever the process is killed: it is replaced only by a
\* whole record, and the key it is under is neither deleted nor replaced
\* (FlagStore.kt:46-52, 91-126).
THEOREM RecordSurvives == Spec /\ []NoOverlap => RecordOutlivesFailures
<1> DEFINE Kept == Readable => Readable'
<1>1. ASSUME IInv, NoOverlap, AloneInv, [Next]_vars, Readable PROVE Readable'
  <2>k. UNCHANGED <<alias, target>> => Readable'
    BY <1>1 DEF Readable
  <2>t. TypeOK /\ HardwareKeysOnly /\ alias = target /\ \A i \in Screens : AttemptInv(i)
    BY <1>1, AloneParts DEF IInv, Readable
  <2>m. \A i \in Screens : pc[i] \notin MakingKey
    BY <1>1, <2>t DEF AttemptInv
  <2>1. ASSUME NEW i \in Screens, LoadKey(i) PROVE UNCHANGED <<alias, target>>
    BY <1>1, <2>1, <2>t DEF LoadKey, RequireHardware, HardwareKeysOnly, Readable
  <2>2. ASSUME NEW i \in Screens, WriteTemp(i) PROVE UNCHANGED <<alias, target>>
    BY <2>2, <2>t DEF WriteTemp, AttemptInv
  <2>3. ASSUME NEW i \in Screens, Rename(i) PROVE Readable'
    <3>1. target' = temp /\ alias' = alias /\ pc[i] = "renaming"
      BY <2>3 DEF Rename
    <3>2. temp = key[i] /\ key[i] = alias /\ alias \in Keys
      BY <2>t, <3>1 DEF AttemptInv, Holding
    <3> QED BY <3>1, <3>2 DEF Readable
  <2>4. ASSUME NEW i \in Screens, DeleteTemp(i) PROVE UNCHANGED <<alias, target>>
    BY <2>4, <2>t, FilesDeleted DEF DeleteTemp
  <2>5. ASSUME NEW i \in Screens,
               Generate(i) \/ StrongBoxFails(i) \/ CheckKey(i) \/ DeleteRecords(i)
        PROVE  FALSE
    BY <2>5, <2>m DEF Generate, StrongBoxFails, CheckKey, DeleteRecords, MakingKey
  <2>6. ASSUME NEW i \in Screens, Attempt(i), ~LoadKey(i), ~WriteTemp(i), ~Rename(i),
               ~DeleteTemp(i), ~Generate(i), ~StrongBoxFails(i), ~CheckKey(i), ~DeleteRecords(i)
        PROVE  UNCHANGED <<alias, target>>
    BY <2>6 DEF Attempt, Challenged, CallFails, Interrupted, GenerateAttested,
                AttestStrongBoxFails, AttestFallback, AttestFails, Sign, SignFails, DeleteEntry,
                Accepted, Rejected, NoKeyYet, LoadFails, GenerateFails, CheckFails, Encrypt,
                EncryptFails, OpenTemp, OpenFails, WriteFails, RenameFails, Post, storeVars
  <2>7. ASSUME NEW i \in Screens, Create(i) \/ Destroy(i) \/ Tap(i)
        PROVE  UNCHANGED <<alias, target>>
    BY <2>7 DEF Create, Destroy, Tap
  <2>8. CASE Kill \/ UNCHANGED vars
    BY <2>8, <2>k DEF Kill, vars
  <2> QED BY <1>1, <2>k, <2>1, <2>2, <2>3, <2>4, <2>5, <2>6, <2>7, <2>8 DEF Next
<1>2. IInv /\ NoOverlap /\ AloneInv /\ [Next]_vars => Kept
  BY <1>1
<1> QED BY Inductive, InductiveAlone, <1>2, PTL DEF Spec, RecordOutlivesFailures

=============================================================================
