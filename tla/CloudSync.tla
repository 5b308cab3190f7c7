----------------------------- MODULE CloudSync -----------------------------
(***************************************************************************)
(* Several devices share their configuration through one encrypted file on *)
(* a cloud drive.  A desktop runs handle_cloud_sync_upload and _download   *)
(* of the daemon (handler.rs), a phone the functions of the same names in  *)
(* android-ffi/cloud_sync.rs.  The drive offers file_info, upload,         *)
(* download and delete, and no conditional write: each handler compares    *)
(* the hash it finds with the one it recorded, and acts later.             *)
(*                                                                         *)
(* A file is abstracted to the revision of its upload (every encryption    *)
(* draws a fresh salt, so two uploads never have one hash) with what the   *)
(* properties tell apart: its password, and whether it carries one given   *)
(* trigger that is created on the device Author.  The clocks of devices    *)
(* are not synchronised, so check_rollback may refuse any file.  Both      *)
(* providers of the repository report a hash.  One sync operation runs at  *)
(* a time on a device; local edits may happen at any point of it.          *)
(*                                                                         *)
(* There is a hash recorded for every provider, and one password hash for  *)
(* all of them.  The file of one provider is followed; what the syncs with *)
(* the other one do to the password hash is SyncElsewhere.                 *)
(***************************************************************************)
EXTENDS Naturals

CONSTANTS
    Dev,         \* the devices
    Desktops,    \* those that run the daemon; the others are phones
    Author,      \* the device where the trigger that is followed is created
    Passwords,   \* master passwords the users may type
    NoPassword,  \* no password hash has been stored
    MaxUploads   \* bound: files that reach the drive

ASSUME DeviceAssumption == Desktops \subseteq Dev /\ Author \in Dev
ASSUME PasswordAssumption == NoPassword \notin Passwords
ASSUME UploadAssumption == MaxUploads \in Nat

VARIABLES
    cloud,       \* the file on the drive; its revision is 0 when there is none
    revs,        \* uploads so far
    last,        \* per device: the hash of its sync state, 0 for none
    pwHash,      \* per device: the password of its last sync with any provider
    trigger,     \* per device: its configuration has Author's trigger
    op,          \* per device: the sync operation under way
    seen,        \* history: the device wrote or applied the file on the drive
    interfered,  \* history: a write fell between its last upload and re-fetch
    stray        \* history: the password hash is not of its last sync with this drive

store == <<last, pwHash, trigger>>
history == <<seen, interfered, stray>>
vars == <<cloud, revs, store, op, history>>

Revisions == 1..MaxUploads

\* A file_info without a hash is recorded as the empty string.
EmptyHash == MaxUploads + 1

NoFile == [rev |-> 0]
Idle == [pc |-> "idle"]

File == [rev : Revisions, pw : Passwords, trigger : BOOLEAN]

Operation ==
    {Idle}
      \cup [pc : {"upload"}, force : BOOLEAN, pw : Passwords,
            info : 0..MaxUploads, trigger : BOOLEAN]
      \cup [pc : {"download"}, pw : Passwords, info : Revisions]
      \cup [pc : {"apply"}, pw : Passwords, info : Revisions, got : File]
      \cup [pc : {"record"}, pw : Passwords, hash : 1..EmptyHash]
      \cup [pc : {"refetch", "password"}, pw : Passwords]

TypeOK ==
    /\ cloud \in File \cup {NoFile}
    /\ revs \in 0..MaxUploads
    /\ last \in [Dev -> 0..EmptyHash]
    /\ pwHash \in [Dev -> Passwords \cup {NoPassword}]
    /\ trigger \in [Dev -> BOOLEAN]
    /\ op \in [Dev -> Operation]
    /\ seen \in [Dev -> BOOLEAN]
    /\ interfered \in [Dev -> BOOLEAN]
    /\ stray \in [Dev -> BOOLEAN]

Init ==
    /\ cloud = NoFile /\ revs = 0
    /\ last = [d \in Dev |-> 0]
    /\ pwHash \in [Dev -> Passwords \cup {NoPassword}]
    /\ trigger = [d \in Dev |-> FALSE]
    /\ op = [d \in Dev |-> Idle]
    /\ seen = [d \in Dev |-> FALSE]
    /\ interfered = [d \in Dev |-> FALSE]
    /\ stray = [d \in Dev |-> FALSE]

-----------------------------------------------------------------------------
(* Local edits: the trigger is created, or deleted where it is             *)

Edit(d) ==
    /\ trigger[d] \/ d = Author
    /\ trigger' = [trigger EXCEPT ![d] = ~@]
    /\ UNCHANGED <<cloud, revs, last, pwHash, op, history>>

-----------------------------------------------------------------------------
(* Upload                                                                  *)

\* Whether an unforced upload goes on: the password is the one of the last
\* sync, and the file is absent or has the hash recorded then.
PasswordUnchecked(d, pw) == TRUE   \* mutant
PasswordKept(d, pw) == pwHash[d] \in {NoPassword, pw}
NoConflictAtFirst(d) == cloud.rev = last[d] \/ last[d] = 0   \* mutant
NoConflict(d) == cloud.rev \in {0, last[d]}

UploadBegin(d) ==
    /\ op[d] = Idle
    /\ \E force \in BOOLEAN, pw \in Passwords :
          /\ force \/ (PasswordKept(d, pw) /\ NoConflict(d))
          /\ op' = [op EXCEPT ![d] = [pc |-> "upload", force |-> force, pw |-> pw,
                                      info |-> cloud.rev, trigger |-> trigger[d]]]
    /\ UNCHANGED <<cloud, revs, store, history>>

\* The re-fetch of another device will find this write.
Interferes(d) ==
    [e \in Dev |-> interfered[e] \/ (e # d /\ op[e].pc = "refetch")]

\* The file reaches the drive.  The answer may get lost: the handler then
\* returns an error and records nothing.
UploadFile(d) ==
    /\ op[d].pc = "upload"
    /\ revs < MaxUploads
    /\ revs' = revs + 1
    /\ cloud' = [rev |-> revs + 1, pw |-> op[d].pw,
                 trigger |-> op[d].trigger]
    /\ seen' = [e \in Dev |-> e = d]
    /\ interfered' = [Interferes(d) EXCEPT ![d] = FALSE]
    /\ op' = [op EXCEPT ![d] = [pc |-> "refetch", pw |-> op[d].pw]]
    /\ UNCHANGED <<store, stray>>

\* file_info again, for the hash to record.
Refetch(d) ==
    /\ op[d].pc = "refetch"
    /\ op' = [op EXCEPT ![d] = [pc |-> "record", pw |-> op[d].pw,
                                hash |-> IF cloud = NoFile THEN EmptyHash
                                         ELSE cloud.rev]]
    /\ UNCHANGED <<cloud, revs, store, history>>

-----------------------------------------------------------------------------
(* Download                                                                *)

\* With the hash unchanged an unforced download is answered no_update or
\* local_newer, whether or not there were local edits since.
DownloadBegin(d) ==
    /\ op[d] = Idle
    /\ cloud # NoFile
    /\ \E force \in BOOLEAN, pw \in Passwords :
          /\ force \/ cloud.rev # last[d]
          /\ op' = [op EXCEPT ![d] = [pc |-> "download", pw |-> pw,
                                      info |-> cloud.rev]]
    /\ UNCHANGED <<cloud, revs, store, history>>

\* What comes down is the file of this moment, and it decrypts only with its
\* own password.
DownloadFile(d) ==
    /\ op[d].pc = "download"
    /\ cloud # NoFile
    /\ cloud.pw = op[d].pw
    /\ op' = [op EXCEPT ![d] = [pc |-> "apply", pw |-> op[d].pw, info |-> op[d].info,
                                got |-> cloud]]
    /\ UNCHANGED <<cloud, revs, store, history>>

\* A desktop strips every trigger from what it applies, a phone none.
StrippedNowhere(d, file) == file.trigger   \* mutant
Stripped(d, file) == d \notin Desktops /\ file.trigger

\* Mutant: the hash to record is asked for again, as after an upload.
ApplyRefetches(d) ==
    /\ op[d].pc = "apply"
    /\ trigger' = [trigger EXCEPT ![d] = Stripped(d, op[d].got)]
    /\ op' = [op EXCEPT ![d] = [pc |-> "record", pw |-> op[d].pw,
                                hash |-> IF cloud = NoFile THEN EmptyHash
                                         ELSE cloud.rev]]
    /\ seen' = [seen EXCEPT ![d] = @ \/ op[d].got = cloud]
    /\ UNCHANGED <<cloud, revs, last, pwHash, interfered, stray>>

\* apply_full_export replaces the whole configuration.
Apply(d) ==
    /\ op[d].pc = "apply"
    /\ trigger' = [trigger EXCEPT ![d] = Stripped(d, op[d].got)]
    /\ op' = [op EXCEPT ![d] = [pc |-> "record", pw |-> op[d].pw, hash |-> op[d].info]]
    /\ seen' = [seen EXCEPT ![d] = @ \/ op[d].got = cloud]
    /\ UNCHANGED <<cloud, revs, last, pwHash, interfered, stray>>

-----------------------------------------------------------------------------
(* Recording: set_sync_info with the version of now, then the password     *)

RecordState(d) ==
    /\ op[d].pc = "record"
    /\ last' = [last EXCEPT ![d] = op[d].hash]
    /\ op' = [op EXCEPT ![d] = [pc |-> "password", pw |-> op[d].pw]]
    /\ UNCHANGED <<cloud, revs, pwHash, trigger, history>>

RecordPassword(d) ==
    /\ op[d].pc = "password"
    /\ pwHash' = [pwHash EXCEPT ![d] = op[d].pw]
    /\ op' = [op EXCEPT ![d] = Idle]
    /\ stray' = [stray EXCEPT ![d] = FALSE]
    /\ UNCHANGED <<cloud, revs, last, trigger, seen, interfered>>

\* A request to the drive fails, the file does not decrypt, is gone, or is
\* refused as a rollback; or the process ends.
Abandon(d) ==
    /\ op[d] # Idle
    /\ op' = [op EXCEPT ![d] = Idle]
    /\ stray' = [stray EXCEPT ![d] = @ \/ op[d].pc = "password"]
    /\ UNCHANGED <<cloud, revs, store, seen, interfered>>

\* A sync with the other provider ends: it has stored its password.
SyncElsewhere(d) ==
    /\ op[d] = Idle
    /\ \E pw \in Passwords : pwHash' = [pwHash EXCEPT ![d] = pw]
    /\ stray' = [stray EXCEPT ![d] = TRUE]
    /\ UNCHANGED <<cloud, revs, last, trigger, op, seen, interfered>>

\* The master password of a desktop is set, changed or reset.
ClearPassword(d) ==
    /\ d \in Desktops
    /\ pwHash' = [pwHash EXCEPT ![d] = NoPassword]
    /\ stray' = [stray EXCEPT ![d] = TRUE]
    /\ UNCHANGED <<cloud, revs, last, trigger, op, seen, interfered>>

DeleteRemote(d) ==
    /\ d \in Desktops
    /\ cloud # NoFile
    /\ cloud' = NoFile
    /\ seen' = [e \in Dev |-> FALSE]
    /\ interfered' = Interferes(d)
    /\ UNCHANGED <<revs, store, op, stray>>

Next ==
    \E d \in Dev :
        \/ Edit(d)
        \/ UploadBegin(d) \/ UploadFile(d) \/ Refetch(d)
        \/ DownloadBegin(d) \/ DownloadFile(d) \/ Apply(d)
        \/ RecordState(d) \/ RecordPassword(d)
        \/ Abandon(d) \/ SyncElsewhere(d) \/ ClearPassword(d) \/ DeleteRemote(d)

Spec == Init /\ [][Next]_vars

-----------------------------------------------------------------------------
(* Properties                                                              *)

\* The comment of check_upload_conflict calls an upload safe when the hash
\* matches the recorded one.  That holds unless a write of another device fell
\* between an upload and the re-fetch of its hash: whenever a device's recorded
\* hash is that of the file on the drive, it has uploaded or applied that file.
MatchingHashIsSeen ==
    \A d \in Dev : cloud # NoFile /\ cloud.rev = last[d]
                      => seen[d] \/ interfered[d]

\* The same without the exception: what the comment says.
SafeWhenHashMatches ==
    \A d \in Dev : cloud # NoFile /\ cloud.rev = last[d] => seen[d]

Uploads(d) == op[d].pc = "upload" /\ op'[d].pc = "refetch"

\* An upload nobody forced destroys a file its device never saw only in the
\* window between its own file_info and its own upload, or after such an
\* interference.
NoBlindOverwrite ==
    [][\A d \in Dev :
          Uploads(d) /\ ~op[d].force /\ cloud # NoFile /\ ~seen[d]
             => cloud.rev # op[d].info \/ interfered[d]]_vars

\* Changing the password of the cloud file asks the user first (password_mismatch
\* of handle_cloud_sync_upload): an unforced upload keeps the password of the
\* file it replaces, but for those two windows and for a password hash that is
\* not of the device's last sync with this drive: it was never saved, was
\* cleared with the master password, or is of a sync with the other provider.
PasswordChangeConfirmed ==
    [][\A d \in Dev :
          Uploads(d) /\ ~op[d].force /\ cloud # NoFile /\ cloud.pw # op[d].pw
             => cloud.rev # op[d].info \/ interfered[d] \/ stray[d]]_vars

\* "No remote trigger sync": whatever phones and other desktops upload, a
\* desktop never has a trigger created on another device.
NoForeignTriggers == \A d \in Desktops : trigger[d] => d = Author

============================================================================
