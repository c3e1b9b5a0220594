----------------------------- MODULE FlagClient -----------------------------
(***************************************************************************)
(* The Android client: MainActivity.kt with the attempts it runs, the round *)
(* trip of an attempt (Backend.kt, Status.kt), the throwaway key it proves  *)
(* possession of (Attestation.kt), and FlagStore.kt with the key and the    *)
(* files the attempts share.                                                *)
(*                                                                          *)
(* An activity instance runs one attempt at a time, on a thread of its own. *)
(* When the system recreates the activity, onDestroy interrupts the thread, *)
(* but nothing in FlagStore looks at the interrupt: the attempt of a dead   *)
(* instance may still store its flag while the new instance runs one.  The  *)
(* instances of one process, and so of all threads that can overlap, share  *)
(* the keystore alias and the two file names.                               *)
(*                                                                          *)
(* An attestation key has an alias of its own, 96 random bits, so that no   *)
(* two attempts share one.  The keystore is taken to delete an attestation  *)
(* key when it is told to: a refusal is swallowed (Attestation.kt:48), and  *)
(* the key stays.  Everything FlagStore asks of the keystore and of the     *)
(* file system may be refused.                                              *)
(*                                                                          *)
(* The record of one tier is modelled (the server issues no other, and only *)
(* requireHardware touches the files of both).  A record is represented by  *)
(* the key it is encrypted under, which is what decides whether it can ever *)
(* be decrypted.  The keystore (Keystore 2, Android 12 and later) and the   *)
(* file system are external: a key handle names one key and carries what    *)
(* protects it; generating a key under an alias replaces the key that was   *)
(* there, whose handles then cannot encrypt; a file keeps its contents for  *)
(* whoever has it open when its name is replaced or deleted.                *)
(***************************************************************************)
EXTENDS Naturals

CONSTANTS
    Screens,        \* activity instances of one process
    HasStrongBox,   \* whether the device claims a StrongBox
    SecurityLevels, \* what the device's keystore may generate: subset of BOOLEAN,
                    \* TRUE for a key in secure hardware
    Codes,          \* the codes of the server's rejections, subset of KnownCodes
    Failures,       \* the ways a call fails, subset of {"untrusted", "no_connection",
                    \* "invalid"}
    MaxKeys         \* bound: keys generated for the flag store in a behaviour

\* The codes that have a line of their own on the screen; "other" is any other string.
KnownCodes == {"device_integrity", "security_patch_outdated", "no_remote_provisioning",
               "app_integrity", "no_hardware_attestation", "challenge_expired",
               "challenge_replayed", "other"}

ASSUME FlagClientAssumption ==
    /\ HasStrongBox \in BOOLEAN
    /\ SecurityLevels \subseteq BOOLEAN
    /\ Codes \subseteq KnownCodes
    /\ Failures \subseteq {"untrusted", "no_connection", "invalid"}
    /\ MaxKeys \in Nat

Keys == [id : 1 .. MaxKeys, hardware : BOOLEAN]

NoKey == [id |-> 0, hardware |-> FALSE]

\* The contents of a file are a record, named by its key, or one of two values that
\* are no key: there is no file, or it is opened for writing and not written yet.
Absent == [id |-> 0, hardware |-> FALSE]
Empty == [id |-> 0, hardware |-> TRUE]

VARIABLES
    screen,     \* screen[i]: "absent", "shown" or "destroyed"
    enabled,    \* enabled[i]: the attest button
    status,     \* status[i]: what the screen says
    pc,         \* pc[i]: what the attempt of instance i does next
    entry,      \* entry[i]: whether the keystore holds its attestation key
    key,        \* key[i]: the key it holds a handle of
    result,     \* result[i]: the status it is going to post
    writing,    \* writing[i]: the name of the file it has open, or "none"
    alias,      \* the key under "flag-store", or NoKey; persistent
    target,     \* contents of tier2.bin; persistent
    temp,       \* contents of tier2.bin.tmp; persistent
    keysMade    \* keys generated so far

uiVars == <<screen, enabled, status>>
vars == <<screen, enabled, status, pc, entry, key, result, writing, alias, target, temp, keysMade>>

storeVars == <<key, writing, alias, target, temp, keysMade>>

Statuses == (KnownCodes \ {"challenge_expired", "challenge_replayed", "other"}) \cup
            {"idle", "in_flight", "tier2", "expired", "invalid", "unavailable",
             "untrusted", "no_connection", "storage_failed"}

\* The steps of prove, from the choice of the alias to its deletion.
Proving == {"attest_strongbox", "attest_fallback", "attest_tee", "signing", "deleting"}

\* The steps of store, from the look for a key to the clean-up after a failed rename;
\* the key that is being checked came from the StrongBox or not.
Storing == {"loading", "strongbox", "checking_strongbox", "tee", "checking", "purging",
            "encrypting", "opening", "writing", "renaming", "cleaning"}

TypeOK ==
    /\ screen \in [Screens -> {"absent", "shown", "destroyed"}]
    /\ enabled \in [Screens -> BOOLEAN]
    /\ status \in [Screens -> Statuses]
    /\ pc \in [Screens -> Proving \cup Storing \cup {"idle", "asking", "sending", "posting"}]
    /\ entry \in [Screens -> BOOLEAN]
    /\ key \in [Screens -> {NoKey} \cup Keys]
    /\ result \in [Screens -> Statuses]
    /\ writing \in [Screens -> {"none", "temp", "target", "unlinked"}]
    /\ alias \in {NoKey} \cup Keys
    /\ target \in {Absent, Empty} \cup Keys
    /\ temp \in {Absent, Empty} \cup Keys
    /\ keysMade \in 0 .. MaxKeys

Init ==
    /\ screen = [i \in Screens |-> "absent"]
    /\ enabled = [i \in Screens |-> TRUE]
    /\ status = [i \in Screens |-> "idle"]
    /\ pc = [i \in Screens |-> "idle"]
    /\ entry = [i \in Screens |-> FALSE]
    /\ key = [i \in Screens |-> NoKey]
    /\ result = [i \in Screens |-> "idle"]
    /\ writing = [i \in Screens |-> "none"]
    /\ alias = NoKey
    /\ target = Absent
    /\ temp = Absent
    /\ keysMade = 0

GoTo(i, step) == pc' = [pc EXCEPT ![i] = step]

-----------------------------------------------------------------------------
\* The activity.

\* onCreate: an instance comes up when no other is on the screen.
Create(i) ==
    /\ screen[i] = "absent"
    /\ \A j \in Screens : screen[j] # "shown"
    /\ screen' = [screen EXCEPT ![i] = "shown"]
    /\ enabled' = [enabled EXCEPT ![i] = TRUE]
    /\ status' = [status EXCEPT ![i] = "idle"]
    /\ UNCHANGED <<pc, entry, key, result, writing, alias, target, temp, keysMade>>

\* onDestroy: the thread is interrupted; an instance without one is gone at once.
Destroy(i) ==
    /\ screen[i] = "shown"
    /\ screen' = [screen EXCEPT ![i] = IF pc[i] = "idle" THEN "absent" ELSE "destroyed"]
    /\ UNCHANGED <<enabled, status, pc, entry, key, result, writing, alias, target, temp, keysMade>>

\* A tap on the button: runAttempt.
Tap(i) ==
    /\ screen[i] = "shown"
    /\ enabled[i]
    /\ enabled' = [enabled EXCEPT ![i] = FALSE]
    /\ status' = [status EXCEPT ![i] = "in_flight"]
    /\ GoTo(i, "asking")
    /\ UNCHANGED <<screen, entry, key, result, writing, alias, target, temp, keysMade>>

\* The attempt is over: its thread holds nothing any more.
EndAttempt(i) ==
    /\ GoTo(i, "idle")
    /\ key' = [key EXCEPT ![i] = NoKey]
    /\ result' = [result EXCEPT ![i] = "idle"]
    /\ writing' = [writing EXCEPT ![i] = "none"]

\* (Mutant: the server's code is shown as it is.)
ForCode_Verbatim(code) == code

\* Status.forOutcome of a rejection.
ForCode(code) ==
    IF code \in {"challenge_expired", "challenge_replayed"} THEN "expired"
    ELSE IF code = "other" THEN "invalid" ELSE code

\* The attempt has a result, and only has to post it.
Conclude(i, r) ==
    /\ result' = [result EXCEPT ![i] = r]
    /\ GoTo(i, "posting")

\* GET /v1/challenge ends with a challenge: prove chooses an alias.
Challenged(i) ==
    /\ pc[i] = "asking"
    /\ GoTo(i, IF HasStrongBox THEN "attest_strongbox" ELSE "attest_tee")
    /\ UNCHANGED <<uiVars, entry, result, storeVars>>

\* Either request ends with 429 or 503, or fails: no connection, no trusted one, or an
\* answer outside the protocol.
CallFails(i) ==
    /\ pc[i] \in {"asking", "sending"}
    /\ \E r \in Failures \cup {"unavailable"} : Conclude(i, r)
    /\ UNCHANGED <<uiVars, entry, storeVars>>

\* generateKey puts an attested key under the alias.
GenerateAttested(i) ==
    /\ pc[i] \in {"attest_strongbox", "attest_tee"}
    /\ entry' = [entry EXCEPT ![i] = TRUE]
    /\ GoTo(i, "signing")
    /\ UNCHANGED <<uiVars, result, storeVars>>

\* The StrongBox refuses, possibly with something left under the alias, which goes
\* before the TEE is tried.
AttestStrongBoxFails(i) ==
    /\ pc[i] = "attest_strongbox"
    /\ \E partial \in BOOLEAN : entry' = [entry EXCEPT ![i] = partial]
    /\ GoTo(i, "attest_fallback")
    /\ UNCHANGED <<uiVars, result, storeVars>>

AttestFallback(i) ==
    /\ pc[i] = "attest_fallback"
    /\ entry' = [entry EXCEPT ![i] = FALSE]
    /\ GoTo(i, "attest_tee")
    /\ UNCHANGED <<uiVars, result, storeVars>>

\* prove throws: the alias is deleted on the way out.
ProveThrows(i) ==
    /\ result' = [result EXCEPT ![i] = "invalid"]
    /\ GoTo(i, "deleting")

\* The key cannot be generated for any other reason, and there is no other to try.
AttestFails(i) ==
    /\ pc[i] \in {"attest_strongbox", "attest_tee"}
    /\ \E partial \in BOOLEAN : entry' = [entry EXCEPT ![i] = partial]
    /\ ProveThrows(i)
    /\ UNCHANGED <<uiVars, storeVars>>

Sign(i) ==
    /\ pc[i] = "signing"
    /\ GoTo(i, "deleting")
    /\ UNCHANGED <<uiVars, entry, result, storeVars>>

\* (Mutant: the alias is deleted after the signature, not in a finally.)
SignFails_NoFinally(i) ==
    /\ pc[i] = "signing"
    /\ Conclude(i, "invalid")
    /\ UNCHANGED <<uiVars, entry, storeVars>>

\* There is no chain, no private key or no signature.
SignFails(i) ==
    /\ pc[i] = "signing"
    /\ ProveThrows(i)
    /\ UNCHANGED <<uiVars, entry, storeVars>>

\* The finally of prove: on to POST /v1/attest if there is a proof.
DeleteEntry(i) ==
    /\ pc[i] = "deleting"
    /\ entry' = [entry EXCEPT ![i] = FALSE]
    /\ GoTo(i, IF result[i] = "idle" THEN "sending" ELSE "posting")
    /\ UNCHANGED <<uiVars, result, storeVars>>

\* The round trip to the server ends with an accepted flag.
Accepted(i) ==
    /\ pc[i] = "sending"
    /\ GoTo(i, "loading")
    /\ UNCHANGED <<uiVars, entry, result, storeVars>>

\* It ends with a rejection.
Rejected(i) ==
    /\ pc[i] = "sending"
    /\ \E code \in Codes : Conclude(i, ForCode(code))
    /\ UNCHANGED <<uiVars, entry, storeVars>>

\* The interrupt of onDestroy reaches it as an InterruptedException: nothing is posted.
Interrupted(i) ==
    /\ pc[i] \in {"asking", "sending"}
    /\ screen[i] = "destroyed"
    /\ screen' = [screen EXCEPT ![i] = "absent"]
    /\ EndAttempt(i)
    /\ UNCHANGED <<enabled, status, entry, alias, target, temp, keysMade>>

\* (Mutant: the button is enabled again only after a success.)
Post_DisabledOnFailure(i) ==
    /\ pc[i] = "posting"
    /\ IF screen[i] = "destroyed"
       THEN /\ screen' = [screen EXCEPT ![i] = "absent"]
            /\ UNCHANGED <<enabled, status>>
       ELSE /\ status' = [status EXCEPT ![i] = result[i]]
            /\ enabled' = [enabled EXCEPT ![i] = (result[i] = "tier2")]
            /\ UNCHANGED screen
    /\ EndAttempt(i)
    /\ UNCHANGED <<entry, alias, target, temp, keysMade>>

\* The posted runnable: a result for a dead instance is dropped.
Post(i) ==
    /\ pc[i] = "posting"
    /\ IF screen[i] = "destroyed"
       THEN /\ screen' = [screen EXCEPT ![i] = "absent"]
            /\ UNCHANGED <<enabled, status>>
       ELSE /\ status' = [status EXCEPT ![i] = result[i]]
            /\ enabled' = [enabled EXCEPT ![i] = TRUE]
            /\ UNCHANGED screen
    /\ EndAttempt(i)
    /\ UNCHANGED <<entry, alias, target, temp, keysMade>>

-----------------------------------------------------------------------------
\* FlagStore.store.

\* store throws: FlagStorageException, whatever the reason.
StoreFails(i) == Conclude(i, "storage_failed")

\* (Mutant: a key that cannot be loaded is taken for none.)
LoadFails_Regenerates(i) ==
    /\ pc[i] = "loading"
    /\ GoTo(i, IF HasStrongBox THEN "strongbox" ELSE "tee")
    /\ UNCHANGED <<uiVars, entry, result, storeVars>>

\* The keystore does not say whether there is a key, what protects it, or does not
\* delete the one that is refused.
LoadFails(i) ==
    /\ pc[i] = "loading"
    /\ StoreFails(i)
    /\ UNCHANGED <<uiVars, entry, storeVars>>

\* requireHardware: a key outside secure hardware is deleted, and then its records.
RequireHardware(i, k) ==
    IF k.hardware
    THEN GoTo(i, "encrypting") /\ UNCHANGED alias
    ELSE GoTo(i, "purging") /\ alias' = NoKey

\* (Mutant: only new keys are checked.)
LoadKey_Unchecked(i) ==
    /\ pc[i] = "loading"
    /\ alias # NoKey
    /\ key' = [key EXCEPT ![i] = alias]
    /\ GoTo(i, "encrypting")
    /\ UNCHANGED <<uiVars, entry, result, writing, alias, target, temp, keysMade>>

\* key(create = true) finds a key under the alias.
LoadKey(i) ==
    /\ pc[i] = "loading"
    /\ alias # NoKey
    /\ key' = [key EXCEPT ![i] = alias]
    /\ RequireHardware(i, alias)
    /\ UNCHANGED <<uiVars, entry, result, writing, target, temp, keysMade>>

\* It finds none.
NoKeyYet(i) ==
    /\ pc[i] = "loading"
    /\ alias = NoKey
    /\ GoTo(i, IF HasStrongBox THEN "strongbox" ELSE "tee")
    /\ UNCHANGED <<uiVars, entry, result, storeVars>>

\* generate: a new key takes the alias, replacing any key that is there by now.
Generate(i) ==
    /\ pc[i] \in {"strongbox", "tee"}
    /\ keysMade < MaxKeys
    /\ keysMade' = keysMade + 1
    /\ \E hardware \in SecurityLevels :
          /\ alias' = [id |-> keysMade', hardware |-> hardware]
          /\ key' = [key EXCEPT ![i] = alias']
    /\ GoTo(i, IF pc[i] = "strongbox" THEN "checking_strongbox" ELSE "checking")
    /\ UNCHANGED <<uiVars, entry, result, writing, target, temp>>

\* A ProviderException of the StrongBox, from the generation or from the check: the
\* alias is cleared, unless the keystore refuses that too, and the TEE is tried.
StrongBoxFails(i) ==
    /\ pc[i] \in {"strongbox", "checking_strongbox"}
    /\ alias' \in {NoKey, alias}
    /\ key' = [key EXCEPT ![i] = NoKey]
    /\ GoTo(i, "tee")
    /\ UNCHANGED <<uiVars, entry, result, writing, target, temp, keysMade>>

\* Any other exception of a generation, and any of the TEE's: there is no other to try.
\* (One that leaves a key under the alias is a Generate and a CheckFails.)
GenerateFails(i) ==
    /\ pc[i] \in {"strongbox", "tee"}
    /\ StoreFails(i)
    /\ UNCHANGED <<uiVars, entry, storeVars>>

\* The new key is checked like a loaded one, by what its handle says of it; what is
\* deleted when it fails is whatever has the alias by now.
CheckKey(i) ==
    /\ pc[i] \in {"checking_strongbox", "checking"}
    /\ RequireHardware(i, key[i])
    /\ UNCHANGED <<uiVars, entry, key, result, writing, target, temp, keysMade>>

\* The keystore does not say what protects the new key, or does not delete it: it stays.
CheckFails(i) ==
    /\ pc[i] \in {"checking_strongbox", "checking"}
    /\ StoreFails(i)
    /\ UNCHANGED <<uiVars, entry, storeVars>>

\* File.delete of some names: any of them may be refused, which nobody looks at.
DeleteFiles(names) ==
    \E gone \in SUBSET names :
        /\ target' = IF "target" \in gone THEN Absent ELSE target
        /\ temp' = IF "temp" \in gone THEN Absent ELSE temp
        /\ writing' = [j \in Screens |-> IF writing[j] \in gone THEN "unlinked" ELSE writing[j]]

\* The rest of requireHardware's refusal: both files go.
DeleteRecords(i) ==
    /\ pc[i] = "purging"
    /\ DeleteFiles({"target", "temp"})
    /\ StoreFails(i)
    /\ UNCHANGED <<uiVars, entry, key, alias, keysMade>>

\* The flag is encrypted under a handle whose key is still there.
Encrypt(i) ==
    /\ pc[i] = "encrypting"
    /\ alias = key[i]
    /\ GoTo(i, "opening")
    /\ UNCHANGED <<uiVars, entry, result, storeVars>>

\* The key is gone, or the keystore does not encrypt under it.
EncryptFails(i) ==
    /\ pc[i] = "encrypting"
    /\ StoreFails(i)
    /\ UNCHANGED <<uiVars, entry, storeVars>>

\* (Mutant: the record is written in place.)
OpenTemp_InPlace(i) ==
    /\ pc[i] = "opening"
    /\ target' = Empty
    /\ writing' = [writing EXCEPT ![i] = "target"]
    /\ GoTo(i, "writing")
    /\ UNCHANGED <<uiVars, entry, key, result, alias, temp, keysMade>>

\* writeBytes opens the temporary file, created or truncated.
OpenTemp(i) ==
    /\ pc[i] = "opening"
    /\ temp' = Empty
    /\ writing' = [writing EXCEPT ![i] = "temp"]
    /\ GoTo(i, "writing")
    /\ UNCHANGED <<uiVars, entry, key, result, alias, target, keysMade>>

\* It cannot be opened, and is as it was.
OpenFails(i) ==
    /\ pc[i] = "opening"
    /\ StoreFails(i)
    /\ UNCHANGED <<uiVars, entry, storeVars>>

\* writeBytes writes the record to the file it opened, whatever it is called now.
WriteTemp(i) ==
    /\ pc[i] = "writing"
    /\ temp' = IF writing[i] = "temp" THEN key[i] ELSE temp
    /\ target' = IF writing[i] = "target" THEN key[i] ELSE target
    /\ writing' = [writing EXCEPT ![i] = "none"]
    /\ GoTo(i, "renaming")
    /\ UNCHANGED <<uiVars, entry, key, result, alias, keysMade>>

\* The write fails (no space): the temporary file stays behind.
WriteFails(i) ==
    /\ pc[i] = "writing"
    /\ writing' = [writing EXCEPT ![i] = "none"]
    /\ StoreFails(i)
    /\ UNCHANGED <<uiVars, entry, key, alias, target, temp, keysMade>>

\* renameTo replaces the record by whatever has the temporary name.
Rename(i) ==
    /\ pc[i] = "renaming"
    /\ temp # Absent
    /\ target' = temp
    /\ temp' = Absent
    /\ writing' = [j \in Screens |->
          CASE writing[j] = "temp"   -> "target"
            [] writing[j] = "target" -> "unlinked"
            [] OTHER                 -> writing[j]]
    /\ result' = [result EXCEPT ![i] = "tier2"]
    /\ GoTo(i, "posting")
    /\ UNCHANGED <<uiVars, entry, key, alias, keysMade>>

\* (Mutant: the result of renameTo is ignored.)
RenameFails_Ignored(i) ==
    /\ pc[i] = "renaming"
    /\ result' = [result EXCEPT ![i] = "tier2"]
    /\ GoTo(i, "posting")
    /\ UNCHANGED <<uiVars, entry, storeVars>>

\* renameTo returns false: there is no such file, or the directory refuses.
RenameFails(i) ==
    /\ pc[i] = "renaming"
    /\ GoTo(i, "cleaning")
    /\ UNCHANGED <<uiVars, entry, result, storeVars>>

\* Then the temporary file is deleted and store throws.
DeleteTemp(i) ==
    /\ pc[i] = "cleaning"
    /\ DeleteFiles({"temp"})
    /\ StoreFails(i)
    /\ UNCHANGED <<uiVars, entry, key, alias, keysMade>>

-----------------------------------------------------------------------------
\* The system kills the process: the instances and threads are gone, the keys and the
\* files stay.  An attestation key that is left under its alias has no attempt any more;
\* nothing ever deletes it, or uses it.
Kill ==
    /\ screen' = [i \in Screens |-> "absent"]
    /\ enabled' = [i \in Screens |-> TRUE]
    /\ status' = [i \in Screens |-> "idle"]
    /\ pc' = [i \in Screens |-> "idle"]
    /\ key' = [i \in Screens |-> NoKey]
    /\ result' = [i \in Screens |-> "idle"]
    /\ writing' = [i \in Screens |-> "none"]
    /\ entry' = [i \in Screens |-> FALSE]
    /\ UNCHANGED <<alias, target, temp, keysMade>>

\* Everything the thread and the main looper do for an attempt under way.
Attempt(i) ==
    \/ Challenged(i) \/ CallFails(i) \/ Interrupted(i)
    \/ GenerateAttested(i) \/ AttestStrongBoxFails(i) \/ AttestFallback(i) \/ AttestFails(i)
    \/ Sign(i) \/ SignFails(i) \/ DeleteEntry(i)
    \/ Accepted(i) \/ Rejected(i)
    \/ LoadKey(i) \/ LoadFails(i) \/ NoKeyYet(i)
    \/ Generate(i) \/ StrongBoxFails(i) \/ GenerateFails(i)
    \/ CheckKey(i) \/ CheckFails(i) \/ DeleteRecords(i)
    \/ Encrypt(i) \/ EncryptFails(i)
    \/ OpenTemp(i) \/ OpenFails(i) \/ WriteTemp(i) \/ WriteFails(i)
    \/ Rename(i) \/ RenameFails(i) \/ DeleteTemp(i)
    \/ Post(i)

Next ==
    \/ \E i \in Screens : Create(i) \/ Destroy(i) \/ Tap(i) \/ Attempt(i)
    \/ Kill

Spec == Init /\ [][Next]_vars

\* A thread that is running goes on, and the looper runs what is posted to it: every
\* await of an attempt is bounded (the call timeout of Backend, local work).
LiveSpec == Spec /\ \A i \in Screens : WF_vars(Attempt(i))

-----------------------------------------------------------------------------
\* The stored file is a whole record that the current key decrypts.
Readable == target \in Keys /\ target = alias

\* An attempt that is past prove, however it went, has left no attestation key behind:
\* only a kill in between can (Attestation.kt:37-49).
NoKeyLeftBehind == \A i \in Screens : entry[i] => pc[i] \in Proving

\* No flag is ever on disk under a key outside secure hardware, also when the process
\* is killed between the generation of a key and its check (FlagStore.kt:91-128).
HardwareKeysOnly ==
    \A file \in {target, temp} : file \in Keys => file.hardware

\* What HardwareKeysOnly rests on: a key that is about to encrypt a record was checked.
HoldersAreHardware ==
    \A i \in Screens : pc[i] \in {"encrypting", "opening", "writing"} => key[i].hardware

\* What NoKeyLeftBehind rests on: an instance runs one attempt at a time.
OneAttempt ==
    \A i \in Screens :
        screen[i] = "absent" \/ (screen[i] = "shown" /\ enabled[i]) => pc[i] = "idle"

\* A key that is generated is none that encrypted a record or that anyone holds.
KeysAreMade ==
    /\ alias.id <= keysMade /\ target.id <= keysMade /\ temp.id <= keysMade
    /\ \A i \in Screens : key[i].id <= keysMade

IInv ==
    /\ TypeOK /\ OneAttempt /\ NoKeyLeftBehind
    /\ HardwareKeysOnly /\ HoldersAreHardware /\ KeysAreMade

\* "replaced atomically" (FlagStore.kt:23-24): tier2.bin is never a half-written file.
RecordIsWhole == target # Empty

\* A screen that says the flag was accepted says so of a flag that was stored and can
\* be decrypted (MainActivity.kt:33-42).
AcceptedMeansStored ==
    \A i \in Screens : screen[i] = "shown" /\ status[i] = "tier2" => Readable

\* A stored record that can be decrypted stays one: no step of any attempt, none that is
\* refused and no kill deletes it, replaces it by less than a record that can be
\* decrypted, or deletes or replaces the key it is under (FlagStore.kt:46-52, 91-126).
RecordOutlivesFailures == [][Readable => Readable']_vars

\* The condition under which the last three hold: no two attempts are under way at once.
\* It fails when the attempt of a destroyed instance is still storing its flag while the
\* new instance begins one.
NoOverlap == \A i, j \in Screens : pc[i] # "idle" /\ pc[j] # "idle" => i = j

\* What they rest on: an attempt alone has only the temporary file open, holds the key
\* under the alias from the moment it has one, makes or refuses a key only when that
\* locks nobody out, renames what it has written under that key, and reports the flag
\* as stored only then; a screen that says so has seen no attempt since.
OneShown == \A i, j \in Screens : screen[i] = "shown" /\ screen[j] = "shown" => i = j

OpensOnlyTemp ==
    \A i \in Screens : writing[i] = IF pc[i] = "writing" THEN "temp" ELSE "none"

HoldsCurrentKey ==
    \A i \in Screens :
        pc[i] \in {"checking_strongbox", "checking", "encrypting", "opening", "writing",
                  "renaming"} => alias \in Keys /\ key[i] = alias

LocksNobodyOut ==
    \A i \in Screens :
        pc[i] \in {"strongbox", "checking_strongbox", "tee", "checking", "purging"} => ~Readable

RenamesItsRecord == \A i \in Screens : pc[i] = "renaming" => temp = key[i]

StoredBeforePosted ==
    \A i \in Screens : result[i] = "tier2" => pc[i] = "posting" /\ Readable

StoredWhileShown ==
    \A i \in Screens : screen[i] = "shown" /\ status[i] = "tier2" =>
        Readable /\ \A j \in Screens : pc[j] = "idle"

AloneInv ==
    /\ RecordIsWhole /\ OneShown /\ OpensOnlyTemp /\ HoldsCurrentKey
    /\ LocksNobodyOut /\ RenamesItsRecord /\ StoredBeforePosted /\ StoredWhileShown

\* The button comes back: no attempt leaves a screen that is still shown in flight.
ButtonComesBack ==
    \A i \in Screens : screen[i] = "shown" /\ ~enabled[i] ~> enabled[i] \/ screen[i] # "shown"

=============================================================================
