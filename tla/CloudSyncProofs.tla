--------------------------- MODULE CloudSyncProofs ---------------------------
(***************************************************************************)
(* The safety properties of CloudSync for every number of devices, every   *)
(* set of passwords and every bound on the uploads.                        *)
(*                                                                         *)
(* The argument: revisions grow, so the hash a device recorded matches the *)
(* file on the drive only if it was read since that file was written.      *)
(* SyncInv follows the hash from where it is read (a file_info before a    *)
(* download, a re-fetch after an upload) to where it is recorded, and says *)
(* at each point what is known of the file when it matches.                *)
(***************************************************************************)
EXTENDS CloudSync, TLAPS

\* The newest upload is the one on the drive.
CloudNewest == cloud # NoFile => cloud.rev = revs

\* What a device has recorded, or will, was on the drive.
Recorded(d) ==
    /\ last[d] \in 0..revs \/ last[d] = EmptyHash
    /\ op[d].pc \in {"upload", "download", "apply"} => op[d].info \in 0..revs
    /\ op[d].pc = "record" => op[d].hash \in 0..revs \/ op[d].hash = EmptyHash

\* When a recorded hash matches, or will match, the file on the drive.
Known(d) ==
    /\ cloud.rev = last[d] => seen[d] \/ interfered[d]
    /\ cloud.rev = last[d] /\ op[d].pc # "password"
         => interfered[d] \/ stray[d] \/ pwHash[d] = cloud.pw
    /\ cloud.rev = last[d] /\ op[d].pc = "password"
         => interfered[d] \/ op[d].pw = cloud.pw
    /\ op[d].pc = "upload" /\ ~op[d].force /\ op[d].info = cloud.rev
         => /\ seen[d] \/ interfered[d]
            /\ interfered[d] \/ stray[d] \/ op[d].pw = cloud.pw
    /\ op[d].pc = "refetch" => (seen[d] /\ op[d].pw = cloud.pw) \/ interfered[d]
    /\ op[d].pc = "apply" /\ op[d].info = cloud.rev
         => op[d].got = cloud /\ op[d].pw = cloud.pw
    /\ op[d].pc = "record" /\ op[d].hash = cloud.rev
         => interfered[d] \/ (seen[d] /\ op[d].pw = cloud.pw)

SyncInv ==
    /\ TypeOK
    /\ CloudNewest
    /\ \A d \in Dev : Recorded(d)
    /\ \A d \in Dev : cloud # NoFile => Known(d)

Ops(d) ==
    \/ Edit(d)
    \/ UploadBegin(d) \/ UploadFile(d) \/ Refetch(d)
    \/ DownloadBegin(d) \/ DownloadFile(d) \/ Apply(d)
    \/ RecordState(d) \/ RecordPassword(d)
    \/ Abandon(d) \/ SyncElsewhere(d) \/ ClearPassword(d) \/ DeleteRemote(d)

-----------------------------------------------------------------------------
(* Types                                                                   *)

\* What the type of an operation says at each point of it.
LEMMA OperationFields ==
    ASSUME NEW o \in Operation
    PROVE  /\ o.pc \in {"idle", "upload", "download", "apply", "record",
                        "refetch", "password"}
           /\ (o = Idle) <=> (o.pc = "idle")
           /\ o.pc # "idle" => o.pw \in Passwords
           /\ o.pc = "upload" => /\ o.force \in BOOLEAN /\ o.trigger \in BOOLEAN
                                 /\ o.info \in 0..MaxUploads
           /\ o.pc = "download" => o.info \in Revisions
           /\ o.pc = "apply" => o.info \in Revisions /\ o.got \in File
           /\ o.pc = "record" => o.hash \in 1..EmptyHash
  BY DEF Operation, Idle

\* A file has a revision, and NoFile is no file.
LEMMA FileFields ==
    ASSUME NEW f \in File \cup {NoFile}
    PROVE  /\ f # NoFile => f \in File
           /\ f # NoFile => f.rev \in Revisions /\ f.pw \in Passwords
                            /\ f.trigger \in BOOLEAN
           /\ f = NoFile => f.rev = 0
           /\ f.rev \in 0..MaxUploads
           /\ f.rev = 0 <=> f = NoFile
  BY UploadAssumption DEF File, NoFile, Revisions

\* Every step keeps the types.
LEMMA TypeStep == TypeOK /\ [Next]_vars => TypeOK'
<1> SUFFICES ASSUME TypeOK, [Next]_vars PROVE TypeOK'
  OBVIOUS
<1> USE UploadAssumption
<1>1. CASE UNCHANGED vars
  BY <1>1 DEF TypeOK, vars, store, history
<1>2. ASSUME NEW d \in Dev, Ops(d) PROVE TypeOK'
  <2>0. op[d] \in Operation /\ cloud \in File \cup {NoFile}
    BY DEF TypeOK
  <2>1. CASE Edit(d)
    BY <2>1 DEF Edit, TypeOK, history
  <2>2. CASE UploadBegin(d)
    <3>1. PICK f \in BOOLEAN, p \in Passwords :
            op' = [op EXCEPT ![d] = [pc |-> "upload", force |-> f, pw |-> p,
                                     info |-> cloud.rev, trigger |-> trigger[d]]]
      BY <2>2 DEF UploadBegin
    <3>2. cloud.rev \in 0..MaxUploads /\ trigger[d] \in BOOLEAN
      BY <2>0, FileFields DEF TypeOK
    <3>3. [pc |-> "upload", force |-> f, pw |-> p, info |-> cloud.rev,
           trigger |-> trigger[d]] \in Operation
      BY <3>2 DEF Operation
    <3> QED
      BY <3>1, <3>3, <2>2 DEF UploadBegin, TypeOK, store, history
  <2>3. CASE UploadFile(d)
    <3>1. op[d].pw \in Passwords /\ op[d].trigger \in BOOLEAN
      BY <2>0, <2>3, OperationFields DEF UploadFile
    <3>2. revs' \in 0..MaxUploads /\ revs + 1 \in Revisions
      BY <2>3 DEF UploadFile, TypeOK, Revisions
    <3>3. cloud' \in File
      BY <3>1, <3>2, <2>3 DEF UploadFile, File
    <3>4. [pc |-> "refetch", pw |-> op[d].pw] \in Operation
      BY <3>1 DEF Operation
    <3>5. interfered' \in [Dev -> BOOLEAN] /\ seen' \in [Dev -> BOOLEAN]
      BY <2>3 DEF UploadFile, Interferes, TypeOK
    <3> QED
      BY <3>2, <3>3, <3>4, <3>5, <2>3 DEF UploadFile, TypeOK, store
  <2>4. CASE Refetch(d)
    <3>1. op[d].pw \in Passwords
      BY <2>0, <2>4, OperationFields DEF Refetch
    <3>2. (IF cloud = NoFile THEN EmptyHash ELSE cloud.rev) \in 1..EmptyHash
      BY <2>0, FileFields DEF EmptyHash, Revisions
    <3>3. [pc |-> "record", pw |-> op[d].pw,
           hash |-> IF cloud = NoFile THEN EmptyHash ELSE cloud.rev] \in Operation
      BY <3>1, <3>2 DEF Operation
    <3> QED
      BY <3>3, <2>4 DEF Refetch, TypeOK, store, history
  <2>5. CASE DownloadBegin(d)
    <3>1. PICK p \in Passwords :
            op' = [op EXCEPT ![d] = [pc |-> "download", pw |-> p, info |-> cloud.rev]]
      BY <2>5 DEF DownloadBegin
    <3>2. [pc |-> "download", pw |-> p, info |-> cloud.rev] \in Operation
      BY <2>0, <2>5, FileFields DEF Operation, DownloadBegin
    <3> QED
      BY <3>1, <3>2, <2>5 DEF DownloadBegin, TypeOK, store, history
  <2>6. CASE DownloadFile(d)
    <3>1. [pc |-> "apply", pw |-> op[d].pw, info |-> op[d].info, got |-> cloud]
             \in Operation
      BY <2>0, <2>6, OperationFields, FileFields DEF Operation, DownloadFile
    <3> QED
      BY <3>1, <2>6 DEF DownloadFile, TypeOK, store, history
  <2>7. CASE Apply(d)
    <3>1. op[d].pw \in Passwords /\ op[d].info \in Revisions /\ op[d].got \in File
      BY <2>0, <2>7, OperationFields DEF Apply
    <3>2. [pc |-> "record", pw |-> op[d].pw, hash |-> op[d].info] \in Operation
      BY <3>1 DEF Operation, Revisions, EmptyHash
    <3>3. Stripped(d, op[d].got) \in BOOLEAN /\ (seen[d] \/ op[d].got = cloud) \in BOOLEAN
      BY <3>1 DEF Stripped, File
    <3> QED
      BY <3>2, <3>3, <2>7 DEF Apply, TypeOK
  <2>8. CASE RecordState(d)
    <3>1. op[d].pw \in Passwords /\ op[d].hash \in 0..EmptyHash
      BY <2>0, <2>8, OperationFields DEF RecordState, EmptyHash
    <3>2. [pc |-> "password", pw |-> op[d].pw] \in Operation
      BY <3>1 DEF Operation
    <3> QED
      BY <3>1, <3>2, <2>8 DEF RecordState, TypeOK, history
  <2>9. CASE RecordPassword(d)
    <3>1. op[d].pw \in Passwords /\ Idle \in Operation
      BY <2>0, <2>9, OperationFields DEF RecordPassword, Operation
    <3> QED
      BY <3>1, <2>9 DEF RecordPassword, TypeOK
  <2>10. CASE Abandon(d)
    <3>1. Idle \in Operation
      BY DEF Operation
    <3> QED
      BY <3>1, <2>10 DEF Abandon, TypeOK, store
  <2>11. CASE DeleteRemote(d)
    BY <2>11 DEF DeleteRemote, Interferes, TypeOK, store
  <2>12. CASE SyncElsewhere(d)
    BY <2>12 DEF SyncElsewhere, TypeOK
  <2>13. CASE ClearPassword(d)
    BY <2>13 DEF ClearPassword, TypeOK
  <2> QED
    BY <1>2, <2>1, <2>2, <2>3, <2>4, <2>5, <2>6, <2>7, <2>8, <2>9, <2>10, <2>11,
       <2>12, <2>13 DEF Ops
<1> QED
  BY <1>1, <1>2 DEF Next, Ops

-----------------------------------------------------------------------------
(* The step of SyncInv                                                     *)

\* The drive changes only by an upload, which takes a revision nobody has
\* recorded, or by becoming empty.
LEMMA SyncStep == SyncInv /\ [Next]_vars => SyncInv'
<1> SUFFICES ASSUME SyncInv, [Next]_vars PROVE SyncInv'
  OBVIOUS
<1> USE UploadAssumption
<1>0. TypeOK /\ TypeOK'
  BY TypeStep DEF SyncInv
<1>1. CASE UNCHANGED vars
  BY <1>0, <1>1 DEF SyncInv, CloudNewest, Recorded, Known, vars, store, history
<1>2. ASSUME NEW d \in Dev, Ops(d) PROVE SyncInv'
  <2>0. /\ op[d] \in Operation /\ cloud \in File \cup {NoFile}
        /\ revs \in 0..MaxUploads /\ EmptyHash = MaxUploads + 1
        /\ op \in [Dev -> Operation] /\ last \in [Dev -> 0..EmptyHash]
        /\ seen \in [Dev -> BOOLEAN] /\ interfered \in [Dev -> BOOLEAN]
        /\ stray \in [Dev -> BOOLEAN]
        /\ pwHash \in [Dev -> Passwords \cup {NoPassword}]
    BY <1>0 DEF TypeOK, EmptyHash
  <2>i. /\ CloudNewest
        /\ \A e \in Dev : Recorded(e)
        /\ \A e \in Dev : cloud # NoFile => Known(e)
    BY DEF SyncInv
  <2>r. cloud # NoFile => cloud.rev = revs /\ cloud.rev \in Revisions
                          /\ cloud.pw \in Passwords
    BY <2>0, <2>i, FileFields DEF CloudNewest
  \* Devices other than d do not notice the steps that leave the drive alone.
  <2>o. ASSUME UNCHANGED <<cloud, revs>>,
               \A e \in Dev \ {d} : /\ last'[e] = last[e] /\ pwHash'[e] = pwHash[e]
                                    /\ op'[e] = op[e] /\ seen'[e] = seen[e]
                                    /\ interfered'[e] = interfered[e]
                                    /\ stray'[e] = stray[e],
               Recorded(d)', cloud # NoFile => Known(d)'
        PROVE  SyncInv'
    <3>1. CloudNewest'
      BY <2>o, <2>i DEF CloudNewest
    <3>2. ASSUME NEW e \in Dev \ {d} PROVE Recorded(e)' /\ (cloud # NoFile => Known(e)')
      <4>1. Recorded(e) /\ (cloud # NoFile => Known(e))
        BY <2>i
      <4> QED
        BY <4>1, <2>o DEF Recorded, Known
    <3> QED
      BY <3>1, <3>2, <2>o, <1>0 DEF SyncInv
  <2>1. CASE Edit(d)
    BY <2>i, <2>1, <2>o DEF Edit, history, Recorded, Known
  <2>2. CASE UploadBegin(d)
    <3>1. PICK f \in BOOLEAN, p \in Passwords :
            /\ f \/ (PasswordKept(d, p) /\ NoConflict(d))
            /\ op' = [op EXCEPT ![d] = [pc |-> "upload", force |-> f, pw |-> p,
                                     info |-> cloud.rev, trigger |-> trigger[d]]]
      BY <2>2 DEF UploadBegin
    <3>2. UNCHANGED <<cloud, revs, last, pwHash, seen, interfered, stray>> /\ op[d].pc = "idle"
      BY <2>2, <2>0, OperationFields DEF UploadBegin, store, history
    <3>3. op'[d] = [pc |-> "upload", force |-> f, pw |-> p,
                    info |-> cloud.rev, trigger |-> trigger[d]]
      BY <3>1, <2>0
    <3>4. cloud.rev \in 0..revs
      BY <2>0, <2>r, FileFields DEF Revisions
    <3>5. Recorded(d)'
      BY <2>i, <3>2, <3>3, <3>4 DEF Recorded
    <3>6. cloud # NoFile => Known(d)'
      <4> SUFFICES ASSUME cloud # NoFile PROVE Known(d)'
        OBVIOUS
      <4>1. Known(d)
        BY <2>i
      <4>2. ~f => cloud.rev = last[d] /\ pwHash[d] \in {NoPassword, p}
        BY <3>1, <2>r DEF NoConflict, PasswordKept, Revisions
      <4>3. pwHash[d] = cloud.pw /\ pwHash[d] \in {NoPassword, p} => p = cloud.pw
        BY <2>r, PasswordAssumption
      <4> QED
        BY <4>1, <4>2, <4>3, <3>2, <3>3 DEF Known
    <3> QED
      BY <2>o, <3>1, <3>2, <3>5, <3>6
  <2>3. CASE UploadFile(d)
    <3>1. /\ revs' = revs + 1 /\ cloud'.rev = revs + 1 /\ cloud'.pw = op[d].pw
          /\ seen' = [e \in Dev |-> e = d]
          /\ interfered' = [Interferes(d) EXCEPT ![d] = FALSE]
          /\ op' = [op EXCEPT ![d] = [pc |-> "refetch", pw |-> op[d].pw]]
          /\ UNCHANGED <<last, pwHash, stray>> /\ op[d].pc = "upload"
          /\ revs < MaxUploads
      BY <2>3 DEF UploadFile, store
    <3>2. CloudNewest'
      BY <3>1 DEF CloudNewest
    <3>3. ASSUME NEW e \in Dev PROVE Recorded(e)' /\ Known(e)'
      <4>1. Recorded(e) /\ op[e] \in Operation
        BY <2>i, <2>0
      <4>2. last'[e] # cloud'.rev
        BY <4>1, <3>1, <2>0 DEF Recorded
      <4>3. CASE e = d
        <5>1. op'[e] = [pc |-> "refetch", pw |-> op[d].pw] /\ seen'[e]
          BY <3>1, <4>3, <2>0
        <5> QED
          BY <4>1, <4>2, <5>1, <3>1, <2>0 DEF Recorded, Known
      <4>4. CASE e # d
        <5>1. op'[e] = op[e]
          BY <3>1, <4>4, <2>0
        <5>2. op[e].pc = "refetch" => interfered'[e]
          BY <3>1, <4>4 DEF Interferes
        <5>3. Recorded(e)'
          BY <4>1, <5>1, <3>1, <2>0 DEF Recorded
        <5>4. /\ op[e].pc \in {"upload", "apply"} => op[e].info # cloud'.rev
              /\ op[e].pc = "record" => op[e].hash # cloud'.rev
          BY <4>1, <3>1, <2>0 DEF Recorded
        <5> QED
          BY <5>1, <5>2, <5>3, <5>4, <4>2 DEF Known
      <4> QED
        BY <4>3, <4>4
    <3> QED
      BY <3>2, <3>3, <1>0 DEF SyncInv
  <2>4. CASE Refetch(d)
    <3>1. /\ op[d].pc = "refetch"
          /\ op'[d] = [pc |-> "record", pw |-> op[d].pw,
                       hash |-> IF cloud = NoFile THEN EmptyHash ELSE cloud.rev]
          /\ UNCHANGED <<cloud, revs, last, pwHash, seen, interfered, stray>>
      BY <2>4, <2>0 DEF Refetch, store, history
    <3>2. Recorded(d)'
      BY <2>i, <2>r, <2>0, <3>1 DEF Recorded, Revisions
    <3>3. cloud # NoFile => Known(d)'
      BY <2>i, <3>1 DEF Known
    <3> QED
      BY <2>o, <2>4, <3>1, <3>2, <3>3 DEF Refetch
  <2>5. CASE DownloadBegin(d)
    <3>1. PICK p \in Passwords :
            op' = [op EXCEPT ![d] = [pc |-> "download", pw |-> p, info |-> cloud.rev]]
      BY <2>5 DEF DownloadBegin
    <3>2. /\ op[d].pc = "idle" /\ cloud # NoFile
          /\ op'[d] = [pc |-> "download", pw |-> p, info |-> cloud.rev]
          /\ UNCHANGED <<cloud, revs, last, pwHash, seen, interfered, stray>>
      BY <2>5, <2>0, <3>1, OperationFields DEF DownloadBegin, store, history
    <3>3. Recorded(d)'
      BY <2>i, <2>r, <2>0, <3>2 DEF Recorded, Revisions
    <3>4. Known(d)'
      BY <2>i, <3>2 DEF Known
    <3> QED
      BY <2>o, <3>1, <3>2, <3>3, <3>4
  <2>6. CASE DownloadFile(d)
    <3>1. /\ op[d].pc = "download" /\ cloud.pw = op[d].pw
          /\ op'[d] = [pc |-> "apply", pw |-> op[d].pw, info |-> op[d].info,
                       got |-> cloud]
          /\ UNCHANGED <<cloud, revs, last, pwHash, seen, interfered, stray>>
      BY <2>6, <2>0 DEF DownloadFile, store, history
    <3>2. Recorded(d)'
      BY <2>i, <3>1 DEF Recorded
    <3>3. cloud # NoFile => Known(d)'
      BY <2>i, <3>1 DEF Known
    <3> QED
      BY <2>o, <2>6, <3>1, <3>2, <3>3 DEF DownloadFile
  <2>7. CASE Apply(d)
    <3>1. /\ op[d].pc = "apply"
          /\ op'[d] = [pc |-> "record", pw |-> op[d].pw, hash |-> op[d].info]
          /\ seen' = [seen EXCEPT ![d] = @ \/ op[d].got = cloud]
          /\ seen'[d] = (seen[d] \/ op[d].got = cloud)
          /\ UNCHANGED <<cloud, revs, last, pwHash, interfered, stray>>
      BY <2>7, <2>0 DEF Apply
    <3>2. Recorded(d)'
      BY <2>i, <3>1 DEF Recorded
    <3>3. cloud # NoFile => Known(d)'
      <4> SUFFICES ASSUME cloud # NoFile PROVE Known(d)'
        OBVIOUS
      <4>1. (seen[d] => seen'[d]) /\ (op[d].got = cloud => seen'[d])
        BY <3>1
      <4>2. Known(d) /\ op'[d].pc = "record" /\ op'[d].pw = op[d].pw
            /\ op'[d].hash = op[d].info
        BY <2>i, <3>1
      <4>3. /\ UNCHANGED <<cloud, last, pwHash, interfered, stray>>
            /\ op[d].pc = "apply"
        BY <3>1
      <4> QED
        BY ONLY <4>1, <4>2, <4>3 DEF Known
    <3> QED
      BY <2>o, <2>7, <3>1, <3>2, <3>3 DEF Apply
  <2>8. CASE RecordState(d)
    <3>1. /\ op[d].pc = "record"
          /\ op'[d] = [pc |-> "password", pw |-> op[d].pw]
          /\ last'[d] = op[d].hash
          /\ UNCHANGED <<cloud, revs, pwHash, seen, interfered, stray>>
      BY <2>8, <2>0 DEF RecordState, history
    <3>2. Recorded(d)'
      BY <2>i, <3>1 DEF Recorded
    <3>3. cloud # NoFile => Known(d)'
      <4> SUFFICES ASSUME cloud # NoFile PROVE Known(d)'
        OBVIOUS
      <4>1. op[d].hash = cloud.rev => interfered[d] \/ (seen[d] /\ op[d].pw = cloud.pw)
        BY <2>i, <3>1 DEF Known
      <4>2. op'[d].pc = "password" /\ op'[d].pw = op[d].pw
        BY <3>1
      <4> QED
        BY ONLY <4>1, <4>2, <3>1 DEF Known
    <3> QED
      BY <2>o, <2>8, <3>1, <3>2, <3>3 DEF RecordState
  <2>9. CASE RecordPassword(d)
    <3>1. /\ op[d].pc = "password" /\ op'[d].pc = "idle"
          /\ pwHash'[d] = op[d].pw
          /\ UNCHANGED <<cloud, revs, last, seen, interfered>>
      BY <2>9, <2>0 DEF RecordPassword, Idle
    <3>2. Recorded(d)'
      BY <2>i, <3>1 DEF Recorded
    <3>3. cloud # NoFile => Known(d)'
      BY <2>i, <3>1 DEF Known
    <3> QED
      BY <2>o, <2>9, <3>1, <3>2, <3>3 DEF RecordPassword
  <2>10. CASE Abandon(d)
    <3>1. /\ op'[d].pc = "idle"
          /\ stray'[d] = (stray[d] \/ op[d].pc = "password")
          /\ UNCHANGED <<cloud, revs, last, pwHash, seen, interfered>>
      BY <2>10, <2>0 DEF Abandon, Idle, store
    <3>2. Recorded(d)'
      BY <2>i, <3>1 DEF Recorded
    <3>3. cloud # NoFile => Known(d)'
      BY <2>i, <3>1 DEF Known
    <3> QED
      BY <2>o, <2>10, <3>1, <3>2, <3>3 DEF Abandon
  <2>11. CASE DeleteRemote(d)
    <3>1. cloud' = NoFile /\ UNCHANGED <<revs, last, op>>
      BY <2>11 DEF DeleteRemote, store
    <3> QED
      BY <3>1, <2>i, <1>0 DEF SyncInv, CloudNewest, Recorded
  <2>12. CASE SyncElsewhere(d)
    <3>1. /\ op[d].pc = "idle" /\ stray'[d]
          /\ UNCHANGED <<cloud, revs, last, op, seen, interfered>>
      BY <2>12, <2>0, OperationFields DEF SyncElsewhere
    <3>2. Recorded(d)' /\ (cloud # NoFile => Known(d)')
      BY <2>i, <3>1 DEF Recorded, Known
    <3> QED
      BY <2>o, <2>12, <3>1, <3>2 DEF SyncElsewhere
  <2>13. CASE ClearPassword(d)
    <3>1. stray'[d] /\ UNCHANGED <<cloud, revs, last, op, seen, interfered>>
      BY <2>13, <2>0 DEF ClearPassword
    <3>2. Recorded(d)' /\ (cloud # NoFile => Known(d)')
      BY <2>i, <3>1 DEF Recorded, Known
    <3> QED
      BY <2>o, <2>13, <3>1, <3>2 DEF ClearPassword
  <2> QED
    BY <1>2, <2>1, <2>2, <2>3, <2>4, <2>5, <2>6, <2>7, <2>8, <2>9, <2>10, <2>11,
       <2>12, <2>13 DEF Ops
<1> QED
  BY <1>1, <1>2 DEF Next, Ops

\* SyncInv holds before anything is synced.
LEMMA SyncInit == Init => SyncInv
<1> SUFFICES ASSUME Init PROVE SyncInv
  OBVIOUS
<1> USE UploadAssumption
<1>1. TypeOK
  BY DEF Init, TypeOK, Operation, EmptyHash
<1>2. CloudNewest /\ \A d \in Dev : Recorded(d) /\ (cloud # NoFile => Known(d))
  BY DEF Init, CloudNewest, Recorded, Idle
<1> QED
  BY <1>1, <1>2 DEF SyncInv

-----------------------------------------------------------------------------
(* Theorems                                                                *)

\* SyncInv holds in every reachable state of the handlers of upload and
\* download, on any number of devices.
THEOREM SyncInductive == Spec => []SyncInv
<1>1. Init => SyncInv
  BY SyncInit
<1>2. SyncInv /\ [Next]_vars => SyncInv'
  BY SyncStep
<1> QED
  BY <1>1, <1>2, PTL DEF Spec

\* Every variable of the sync keeps its type.
THEOREM SyncTypeCorrect == Spec => []TypeOK
<1>1. SyncInv => TypeOK
  BY DEF SyncInv
<1> QED
  BY <1>1, SyncInductive, PTL

\* A device whose recorded hash is that of the file on the drive has uploaded
\* or applied that file, but for the window of the re-fetch (handler.rs:4804).
THEOREM SyncMatchingHashIsSeen == Spec => []MatchingHashIsSeen
<1>1. SyncInv => MatchingHashIsSeen
  BY DEF SyncInv, MatchingHashIsSeen, Known
<1> QED
  BY <1>1, SyncInductive, PTL

\* An upload that starts its transfer leaves the idle state with what
\* check_upload_conflict compared.
LEMMA UploadsStep ==
    ASSUME SyncInv, [Next]_vars, NEW d \in Dev, Uploads(d), ~op[d].force,
           cloud # NoFile, cloud.rev = op[d].info
    PROVE  /\ seen[d] \/ interfered[d]
           /\ interfered[d] \/ stray[d] \/ op[d].pw = cloud.pw
<1>1. Known(d)
  BY DEF SyncInv
<1> QED
  BY <1>1 DEF Known, Uploads

\* An unforced upload destroys a file its device never saw only in the windows
\* of check_upload_conflict and of the re-fetch.
THEOREM SyncNoBlindOverwrite == Spec => NoBlindOverwrite
<1>1. SyncInv /\ [Next]_vars =>
        [\A d \in Dev :
          Uploads(d) /\ ~op[d].force /\ cloud # NoFile /\ ~seen[d]
             => cloud.rev # op[d].info \/ interfered[d]]_vars
  BY UploadsStep
<1> QED
  BY <1>1, SyncInductive, PTL DEF Spec, NoBlindOverwrite

\* An unforced upload keeps the password of the file it replaces, but for those
\* windows and a password hash that is not of the device's last sync with this
\* drive: never saved, cleared, or of the other provider.
THEOREM SyncPasswordChangeConfirmed == Spec => PasswordChangeConfirmed
<1>1. SyncInv /\ [Next]_vars =>
        [\A d \in Dev :
          Uploads(d) /\ ~op[d].force /\ cloud # NoFile /\ cloud.pw # op[d].pw
             => cloud.rev # op[d].info \/ interfered[d] \/ stray[d]]_vars
  BY UploadsStep
<1> QED
  BY <1>1, SyncInductive, PTL DEF Spec, PasswordChangeConfirmed

\* Whatever is uploaded by whom, a desktop never has a trigger it did not
\* create (the stripping of handler.rs:4951).
THEOREM SyncNoForeignTriggers == Spec => []NoForeignTriggers
<1>1. Init => NoForeignTriggers
  BY DeviceAssumption DEF Init, NoForeignTriggers
<1>2. SyncInv /\ NoForeignTriggers /\ [Next]_vars => NoForeignTriggers'
  <2> SUFFICES ASSUME SyncInv, NoForeignTriggers, [Next]_vars
               PROVE  NoForeignTriggers'
    OBVIOUS
  <2>0. trigger \in [Dev -> BOOLEAN] /\ Desktops \subseteq Dev
    BY DeviceAssumption DEF SyncInv, TypeOK
  <2>1. CASE UNCHANGED vars
    BY <2>1 DEF vars, store, NoForeignTriggers
  <2>2. ASSUME NEW d \in Dev, Edit(d) PROVE NoForeignTriggers'
    BY <2>0, <2>2 DEF Edit, NoForeignTriggers
  <2>3. ASSUME NEW d \in Dev, Apply(d) PROVE NoForeignTriggers'
    BY <2>0, <2>3 DEF Apply, Stripped, NoForeignTriggers
  <2>4. ASSUME NEW d \in Dev, Ops(d), ~Edit(d), ~Apply(d) PROVE trigger' = trigger
    BY <2>4 DEF Ops, UploadBegin, UploadFile, Refetch, DownloadBegin, DownloadFile,
                RecordState, RecordPassword, Abandon, SyncElsewhere, ClearPassword,
                DeleteRemote, store
  <2> QED
    BY <2>1, <2>2, <2>3, <2>4 DEF Next, Ops, NoForeignTriggers
<1> QED
  BY <1>1, <1>2, SyncInductive, PTL DEF Spec

=============================================================================
