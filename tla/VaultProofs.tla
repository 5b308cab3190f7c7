---------------------------- MODULE VaultProofs ----------------------------
(***************************************************************************)
(* The safety properties of Vault for every set of passwords and every     *)
(* bound on the writes.                                                    *)
(*                                                                         *)
(* The argument: between the copy and PRAGMA rekey both files have one     *)
(* key, so a crash there leaves at least one of them readable under the    *)
(* old key or the new one (KeyKnown); and outside of the stretch that      *)
(* leftover marks, a copy has no key of its own (CopyAgrees), so it opens  *)
(* nothing the database does not open.                                     *)
(***************************************************************************)
EXTENDS Vault, TLAPS

Known == attempts \cup {confirmed}

\* A change of the password runs only on an open database, is known to the
\* user, and has the key in place from PRAGMA rekey on.
OpProgress ==
    /\ proc = "up" => db # NoFile /\ db.key # NoKey
    /\ op # Idle => proc = "up" /\ op.to \in attempts
    /\ op.pc = "copied" => bak # NoFile /\ bak.key = db.key
    /\ op.pc \in {"rekeyed", "marked", "cache"} => db.key = op.to

KeyKnown ==
    db # NoFile /\ ~skipped
       => \/ db.key \in Known
          \/ db.key = NoKey /\ bak # NoFile /\ bak.key \in Known

CopyAgrees == ~leftover => bak = NoFile \/ bak.key \in {NoKey, db.key}

Fresh == db = NoFile => bak = NoFile /\ confirmed = Default /\ proc # "up"

VaultInv == TypeOK /\ OpProgress /\ KeyKnown /\ CopyAgrees /\ Fresh

-----------------------------------------------------------------------------

\* A file has a key, or none.
LEMMA FileKeys ==
    ASSUME NEW f \in File \cup {NoFile}
    PROVE  /\ f # NoFile => f \in File /\ f.key \in Keys \cup {NoKey}
           /\ f = NoFile => f.key = NoKey
  BY DEF File, NoFile

\* The key of no file is no key, and the default is one.
LEMMA NoKeyIsNoKey == NoKey \notin Keys /\ Default \in Keys /\ Default # NoKey
  BY KeyAssumption DEF Keys

\* What a change under way remembers.
LEMMA OpTypes ==
    ASSUME NEW o \in Rekey \cup {Idle}
    PROVE  /\ o # Idle => o.to \in Keys /\ o \in Rekey /\ o.reset \in BOOLEAN
           /\ (o = Idle) <=> (o.pc = "idle")
  BY DEF Rekey, Idle

\* Opening with a key re-establishes everything.
LEMMA OpenStep ==
    ASSUME VaultInv, NEW k \in Keys, OpenOrRecover(k), op' = op, op = Idle,
           cached' \in Keys \cup {NoKey}
    PROVE  VaultInv'
<1> USE NoKeyIsNoKey, WritesAssumption
<1>0. /\ db \in File \cup {NoFile} /\ bak \in File \cup {NoFile}
      /\ op \in Rekey \cup {Idle} /\ leftover \in BOOLEAN
  BY DEF VaultInv, TypeOK
<1>1. CASE Direct(k)
  <2>1. /\ db' = db /\ bak' = bak /\ proc' = "up" /\ confirmed' = k
        /\ attempts' = {} /\ skipped' = FALSE /\ leftover' = leftover
        /\ written' = db.data /\ db.key = k
    BY <1>0, <1>1 DEF OpenOrRecover, Direct
  <2>2. db \in File
    BY <1>0, <2>1, FileKeys
  <2>3. TypeOK'
    BY <2>1, <2>2, <1>0 DEF VaultInv, TypeOK, File
  <2> QED
    BY <2>1, <2>2, <2>3, <1>0, FileKeys
    DEF VaultInv, OpProgress, KeyKnown, CopyAgrees, Fresh, Known, Idle
<1>2. CASE ~Direct(k)
  <2>1. /\ db' = bak /\ bak' = NoFile /\ proc' = "up" /\ confirmed' = k
        /\ attempts' = {} /\ skipped' = FALSE /\ leftover' = FALSE
        /\ written' = bak.data /\ bak.key = k /\ bak # NoFile
    BY <1>0, <1>2 DEF OpenOrRecover, Opens, Recovers
  <2>2. bak \in File
    BY <1>0, <2>1
  <2>3. TypeOK'
    BY <2>1, <2>2, <1>0 DEF VaultInv, TypeOK, File
  <2> QED
    BY <2>1, <2>2, <2>3, <1>0, FileKeys
    DEF VaultInv, OpProgress, KeyKnown, CopyAgrees, Fresh, Known, Idle
<1> QED
  BY <1>1, <1>2

\* VaultInv holds of a new database.
LEMMA VaultInit == Init => VaultInv
<1> USE NoKeyIsNoKey, WritesAssumption
<1>1. Init => TypeOK
  <2>1. Init => db \in File \cup {NoFile} /\ bak \in File \cup {NoFile}
                /\ op \in Rekey \cup {Idle} /\ proc \in {"down", "gate", "up"}
    BY DEF Init
  <2>2. Init => written \in 0..MaxWrites
    BY DEF Init
  <2> QED
    BY <2>1, <2>2 DEF Init, TypeOK
<1> QED
  BY <1>1 DEF Init, VaultInv, OpProgress, KeyKnown, CopyAgrees, Fresh, Idle

\* Beginning a change only adds to what the user knows.
LEMMA BeginStep ==
    ASSUME VaultInv, NEW pc \in {"backup", "clear"}, NEW reset \in BOOLEAN,
           NEW to \in Keys, Begin(pc, reset, to)
    PROVE  VaultInv'
<1>1. op' \in Rekey /\ op'.pc = pc /\ op'.to = to /\ op' # Idle
  BY DEF Begin, Rekey, Idle
<1>2. /\ UNCHANGED <<db, bak, proc, cached, written, confirmed, leftover, skipped>>
      /\ attempts' = attempts \cup {to} /\ proc = "up"
  BY DEF Begin
<1>3. TypeOK'
  BY <1>1, <1>2 DEF VaultInv, TypeOK
<1>4. OpProgress'
  BY <1>1, <1>2 DEF VaultInv, OpProgress
<1>5. KeyKnown' /\ CopyAgrees' /\ Fresh'
  BY <1>2 DEF VaultInv, KeyKnown, CopyAgrees, Fresh, Known
<1> QED
  BY <1>3, <1>4, <1>5 DEF VaultInv

\* Every step keeps VaultInv.
LEMMA VaultStep == VaultInv /\ [Next]_vars => VaultInv'
<1> SUFFICES ASSUME VaultInv, [Next]_vars PROVE VaultInv'
  OBVIOUS
<1> USE NoKeyIsNoKey, WritesAssumption
<1>0. /\ TypeOK /\ OpProgress /\ KeyKnown /\ CopyAgrees /\ Fresh
      /\ db \in File \cup {NoFile} /\ bak \in File \cup {NoFile}
      /\ op \in Rekey \cup {Idle}
  BY DEF VaultInv, TypeOK
<1>d. /\ db # NoFile => db \in File
      /\ bak # NoFile => bak \in File
      /\ (op = Idle) <=> (op.pc = "idle")
      /\ op # Idle => op \in Rekey /\ op.to \in Keys /\ op.reset \in BOOLEAN
  BY <1>0, FileKeys, OpTypes
<1>1. CASE UNCHANGED vars
  BY <1>0, <1>1 DEF VaultInv, TypeOK, OpProgress, KeyKnown, CopyAgrees, Fresh, Known,
                    vars, user
<1>2. CASE FirstStart
  <2>1. db' \in File /\ db'.key = Default
    BY <1>2 DEF FirstStart, File
  <2>2. op = Idle /\ bak = NoFile /\ confirmed = Default
    BY <1>0, <1>2 DEF FirstStart, OpProgress, Fresh
  <2>3. TypeOK'
    BY <1>0, <2>1, <1>2 DEF FirstStart, TypeOK, user
  <2>4. db' # NoFile
    BY <2>1 DEF NoFile
  <2> QED
    BY <1>0, <1>2, <2>1, <2>2, <2>3, <2>4
    DEF FirstStart, VaultInv, OpProgress, KeyKnown, CopyAgrees, Fresh, Known, user, Idle
<1>3. CASE Start
  <2>0. op = Idle
    BY <1>0, <1>3 DEF Start, OpProgress
  <2>1. CASE OpenOrRecover(Default)
    BY <2>0, <2>1, <1>3, <1>0, OpenStep DEF Start, TypeOK
  <2>2. CASE ~OpenOrRecover(Default)
    BY <2>0, <2>2, <1>3, <1>0
    DEF Start, VaultInv, TypeOK, OpProgress, KeyKnown, CopyAgrees, Fresh, Known, user
  <2> QED
    BY <2>1, <2>2
<1>4. CASE CachedUnlock
  <2>0. op = Idle /\ cached \in Keys
    BY <1>0, <1>4 DEF CachedUnlock, OpProgress, TypeOK
  <2>1. CASE OpenOrRecover(cached) /\ UNCHANGED cached
    BY <2>0, <2>1, <1>4, OpenStep DEF CachedUnlock
  <2>2. CASE ~(OpenOrRecover(cached) /\ UNCHANGED cached)
    BY <2>0, <2>2, <1>4, <1>0
    DEF CachedUnlock, VaultInv, TypeOK, OpProgress, KeyKnown, CopyAgrees, Fresh, Known,
        user
  <2> QED
    BY <2>1, <2>2
<1>5. CASE Unlock
  <2>0. op = Idle
    BY <1>0, <1>5 DEF Unlock, OpProgress
  <2>1. PICK p \in Passwords : OpenOrRecover(p) /\ cached' \in {cached, p}
    BY <1>5 DEF Unlock
  <2>2. p \in Keys /\ cached' \in Keys \cup {NoKey} /\ op' = op
    BY <2>1, <1>0, <1>5 DEF Keys, TypeOK, Unlock
  <2> QED
    BY <2>0, <2>1, <2>2, OpenStep
<1>6. CASE Lock
  <2>1. cached' \in Keys \cup {NoKey}
    BY <1>6 DEF Lock, Keys
  <2> QED
    BY <1>0, <1>6, <2>1
    DEF Lock, VaultInv, TypeOK, OpProgress, KeyKnown, CopyAgrees, Fresh, Known, user
<1>7. CASE Write
  <2>1. db \in File /\ db # NoFile
    BY <1>0, <1>d, <1>7 DEF Write, OpProgress
  <2>2. db' \in File /\ db'.key = db.key /\ written' \in 0..MaxWrites
    BY <1>0, <1>7, <2>1 DEF Write, File, TypeOK
  <2>3. db' # NoFile
    BY <2>2 DEF File, NoFile
  <2>4. TypeOK'
    BY <1>0, <1>7, <2>2 DEF Write, TypeOK, user
  <2> QED
    BY <1>0, <1>7, <2>1, <2>2, <2>3, <2>4
    DEF Write, VaultInv, OpProgress, KeyKnown, CopyAgrees, Fresh, Known, user
<1>8. CASE Initialize \/ ChangePassword \/ Reset
  <2>1. CASE Initialize \/ ChangePassword
    <3>1. PICK p \in Passwords : Begin("backup", FALSE, p)
      BY <2>1 DEF Initialize, ChangePassword
    <3> QED
      BY <3>1, BeginStep DEF Keys
  <2>2. CASE Reset
    <3>1. \/ Begin("clear", TRUE, Default)
          \/ Begin("backup", TRUE, Default)
      BY <2>2 DEF Reset
    <3> QED
      BY <3>1, BeginStep
  <2> QED
    BY <1>8, <2>1, <2>2
\* From here on a change is under way.
<1> DEFINE Running == proc = "up" /\ op # Idle /\ op \in Rekey /\ db \in File
<1>r. ASSUME NEW pc \in {"backup", "copied", "rekeyed", "marked", "cache", "clear",
                         "uncache"}, At(pc)
      PROVE  Running /\ op.to \in Keys /\ op.to \in attempts /\ db # NoFile
             /\ db.key \in Keys
  BY <1>0, <1>d, <1>r, FileKeys DEF At, OpProgress, Idle
<1>g. ASSUME NEW pc \in {"copied", "rekeyed", "marked", "cache", "clear", "uncache"},
             Running, Goto(pc)
      PROVE  op' \in Rekey /\ op'.pc = pc /\ op'.to = op.to /\ op' # Idle
  BY <1>g DEF Goto, Rekey, Idle
<1>9. CASE Backup
  <2>1. Running /\ op.to \in attempts /\ db # NoFile
    BY <1>9, <1>r DEF Backup
  <2>2. op' \in Rekey /\ op'.pc = "copied" /\ op'.to = op.to /\ op' # Idle
    BY <2>1, <1>9, <1>g DEF Backup
  <2>3. TypeOK'
    BY <1>0, <1>9, <2>1, <2>2 DEF Backup, TypeOK, user
  <2> QED
    BY <1>0, <1>9, <2>1, <2>2, <2>3
    DEF Backup, VaultInv, OpProgress, KeyKnown, CopyAgrees, Fresh, Known, user
<1>10. CASE BackupFails
  <2>1. Running /\ db # NoFile /\ db.key \in Keys
    BY <1>10, <1>r DEF BackupFails
  <2>2. Garble(db) \in File /\ Garble(db).key = NoKey
    BY <2>1 DEF Garble, File
  <2>3. TypeOK'
    BY <1>0, <1>10, <2>2 DEF BackupFails, TypeOK, user
  <2>4. OpProgress'
    BY <1>0, <1>10 DEF BackupFails, OpProgress, Idle
  <2>5. KeyKnown'
    BY <1>0, <1>10, <2>1 DEF BackupFails, KeyKnown, Known, user
  <2>6. CopyAgrees' /\ Fresh'
    BY <1>0, <1>10, <2>1, <2>2 DEF BackupFails, CopyAgrees, Fresh
  <2> QED
    BY <2>3, <2>4, <2>5, <2>6 DEF VaultInv
<1>11. CASE PragmaRekey
  <2>1. Running /\ op.to \in attempts /\ op.to \in Keys /\ db # NoFile
    BY <1>11, <1>r DEF PragmaRekey
  <2>2. db' \in File /\ db'.key = op.to
    BY <1>11, <2>1 DEF PragmaRekey, File
  <2>3. op' \in Rekey /\ op'.pc = "rekeyed" /\ op'.to = op.to /\ op' # Idle
    BY <2>1, <1>11, <1>g DEF PragmaRekey
  <2>4. db' # NoFile
    BY <2>2 DEF File, NoFile
  <2>5. TypeOK'
    BY <1>0, <1>11, <2>2, <2>3 DEF PragmaRekey, TypeOK, user
  <2> QED
    BY <1>0, <1>11, <2>1, <2>2, <2>3, <2>4, <2>5
    DEF PragmaRekey, VaultInv, OpProgress, KeyKnown, CopyAgrees, Fresh, Known, user
<1>12. CASE RekeyFails
  BY <1>0, <1>12
  DEF RekeyFails, VaultInv, TypeOK, OpProgress, KeyKnown, CopyAgrees, Fresh, Known, user,
      Idle
<1>13. CASE Mark
  <2>1. Running /\ op.to \in attempts /\ db # NoFile /\ db.key \in Keys
    BY <1>13, <1>r DEF Mark
  <2>2. db' \in File /\ db'.key = db.key
    BY <1>13, <2>1 DEF Mark, File
  <2>3. \/ op' \in Rekey /\ op'.pc = "marked" /\ op'.to = op.to /\ op' # Idle
        \/ op' = Idle
    BY <2>1, <1>13, <1>g DEF Mark
  <2>4. db' # NoFile
    BY <2>2 DEF File, NoFile
  <2>5. TypeOK'
    BY <1>0, <1>13, <2>2, <2>3 DEF Mark, TypeOK, user
  <2>6. OpProgress'
    BY <1>0, <1>13, <2>1, <2>2, <2>3, <2>4 DEF Mark, OpProgress, At, user, Idle
  <2>7. KeyKnown' /\ CopyAgrees' /\ Fresh'
    BY <1>0, <1>13, <2>1, <2>2, <2>4 DEF Mark, KeyKnown, CopyAgrees, Fresh, Known, user
  <2> QED
    BY <2>5, <2>6, <2>7 DEF VaultInv
<1>14. CASE RemoveBackup
  <2>1. Running /\ op.to \in attempts /\ db # NoFile /\ db.key \in Keys
    BY <1>14, <1>r DEF RemoveBackup
  <2>2. /\ op' \in Rekey /\ op'.pc \in {"clear", "cache"}
        /\ op'.to = op.to /\ op' # Idle
    BY <2>1, <1>14, <1>g DEF RemoveBackup
  <2>3. TypeOK'
    BY <1>0, <1>14, <2>2 DEF RemoveBackup, TypeOK, user
  <2>4. OpProgress'
    BY <1>0, <1>14, <2>1, <2>2 DEF RemoveBackup, OpProgress, At, user
  <2>5. KeyKnown'
    BY <1>0, <1>14, <2>1 DEF RemoveBackup, KeyKnown, OpProgress, At, Known, user
  <2>6. CopyAgrees' /\ Fresh'
    BY <1>0, <1>14, <2>1 DEF RemoveBackup, CopyAgrees, Fresh, user
  <2> QED
    BY <2>3, <2>4, <2>5, <2>6 DEF VaultInv
<1>15. CASE Cache
  <2>1. Running /\ op.to \in Keys /\ db # NoFile /\ db.key = op.to
    BY <1>15, <1>r, <1>0 DEF Cache, OpProgress, At
  <2>2. TypeOK'
    BY <1>0, <1>15, <2>1 DEF Cache, TypeOK
  <2> QED
    BY <1>0, <1>15, <2>1, <2>2
    DEF Cache, VaultInv, OpProgress, KeyKnown, CopyAgrees, Fresh, Known, Idle
<1>16. CASE Clear
  <2>1. Running /\ op.to \in attempts /\ db # NoFile /\ db.key \in Keys
    BY <1>16, <1>r DEF Clear
  <2>2. db' \in File /\ db'.key = db.key /\ written' \in 0..MaxWrites
    <3>1. CASE UNCHANGED <<db, written>>
      BY <1>0, <2>1, <3>1 DEF TypeOK
    <3>2. CASE db' = [db EXCEPT !.data = 0, !.marker = TRUE] /\ written' = 0
      <4>1. db' \in File /\ db'.key = db.key
        <5>1. db' = [key |-> db.key, data |-> 0, marker |-> TRUE]
          BY ONLY <2>1, <3>2 DEF File
        <5> QED
          BY <5>1, <2>1, <1>d DEF File
      <4> QED
        BY <4>1, <3>2
    <3> QED
      BY <1>16, <3>1, <3>2 DEF Clear
  <2>3. \/ op' \in Rekey /\ op'.pc = "uncache" /\ op'.to = op.to /\ op' # Idle
        \/ op' = Idle
    BY <2>1, <1>16, <1>g DEF Clear
  <2>4. db' # NoFile
    BY <2>2 DEF File, NoFile
  <2>5. TypeOK'
    BY <1>0, <1>16, <2>2, <2>3 DEF Clear, TypeOK, user
  <2>6. OpProgress'
    BY <1>0, <1>16, <2>1, <2>2, <2>3, <2>4 DEF Clear, OpProgress, user, Idle
  <2>7. KeyKnown' /\ CopyAgrees' /\ Fresh'
    BY <1>0, <1>16, <2>1, <2>2, <2>4 DEF Clear, KeyKnown, CopyAgrees, Fresh, Known, user
  <2> QED
    BY <2>5, <2>6, <2>7 DEF VaultInv
<1>17. CASE Uncache
  <2>1. Running /\ db # NoFile /\ db.key \in Keys
    BY <1>17, <1>r DEF Uncache
  <2>2. skipped' = (db.key # Default) /\ confirmed' = Default
    BY <1>17 DEF Uncache
  <2>3. TypeOK'
    BY <1>0, <1>17 DEF Uncache, TypeOK
  <2> QED
    BY <1>0, <1>17, <2>1, <2>2, <2>3
    DEF Uncache, VaultInv, OpProgress, KeyKnown, CopyAgrees, Fresh, Known, Idle
<1>18. CASE Crash
  <2>1. CASE op.pc \notin {"backup", "copied"}
    BY <1>0, <1>18, <2>1
    DEF Crash, VaultInv, TypeOK, OpProgress, KeyKnown, CopyAgrees, Fresh, Known, user,
        Idle
  <2>2. CASE op.pc = "backup"
    <3>1. db \in File /\ db # NoFile /\ proc = "up" /\ db.key \in Keys
      BY <1>0, <1>d, <2>2, FileKeys DEF OpProgress, Idle
    <3>2. Garble(db) \in File /\ Garble(db).key = NoKey
      BY <3>1 DEF Garble, File
    <3>3. /\ bak' \in {bak, Garble(db), db} /\ UNCHANGED <<db, cached, written, user>>
          /\ leftover' = leftover /\ op' = Idle /\ proc' = "down"
      BY <1>0, <1>18, <2>2 DEF Crash, TypeOK
    <3>4. TypeOK'
      BY <1>0, <3>1, <3>2, <3>3 DEF TypeOK, user
    <3>5. CopyAgrees'
      BY <1>0, <3>2, <3>3 DEF CopyAgrees
    <3> QED
      BY <1>0, <3>1, <3>3, <3>4, <3>5
      DEF VaultInv, OpProgress, KeyKnown, Fresh, Known, user, Idle
  <2>3. CASE op.pc = "copied"
    <3>1. /\ db \in File /\ db # NoFile /\ proc = "up" /\ db.key \in Keys
          /\ op.to \in Keys /\ op.to \in attempts /\ bak # NoFile /\ bak.key = db.key
      BY <1>0, <1>d, <2>3, FileKeys DEF OpProgress, Idle
    <3>2. /\ Garble(db) \in File /\ Garble(db).key = NoKey
          /\ [db EXCEPT !.key = op.to] \in File
          /\ [db EXCEPT !.key = op.to].key = op.to
      BY <3>1 DEF Garble, File
    <3>3. /\ db' \in {db, [db EXCEPT !.key = op.to], Garble(db)}
          /\ UNCHANGED <<bak, cached, written, user>>
          /\ leftover' = (leftover \/ db' # db) /\ op' = Idle /\ proc' = "down"
      BY <1>18, <2>3 DEF Crash
    <3>4. TypeOK'
      BY <1>0, <3>1, <3>2, <3>3 DEF TypeOK, user
    <3>5. db' \in File /\ db' # NoFile /\ db'.key \in {db.key, op.to, NoKey}
      BY <3>1, <3>2, <3>3 DEF File, NoFile
    <3>6. KeyKnown'
      BY <1>0, <3>1, <3>3, <3>5 DEF KeyKnown, Known, user
    <3>7. CopyAgrees'
      BY <1>0, <3>1, <3>3 DEF CopyAgrees
    <3> QED
      BY <3>3, <3>4, <3>5, <3>6, <3>7 DEF VaultInv, OpProgress, Fresh, Idle
  <2> QED
    BY <2>1, <2>2, <2>3
<1> QED
  BY <1>1, <1>2, <1>3, <1>4, <1>5, <1>6, <1>7, <1>8, <1>9, <1>10, <1>11, <1>12, <1>13,
     <1>14, <1>15, <1>16, <1>17, <1>18 DEF Next

-----------------------------------------------------------------------------
(* Theorems                                                                *)

\* VaultInv holds in every reachable state, whatever fails and crashes.
THEOREM VaultInductive == Spec => []VaultInv
<1> QED
  BY VaultInit, VaultStep, PTL DEF Spec

\* Every variable keeps its type.
THEOREM VaultTypeCorrect == Spec => []TypeOK
<1>1. VaultInv => TypeOK
  BY DEF VaultInv
<1> QED
  BY <1>1, VaultInductive, PTL

\* No failure or crash of rekey locks the user out.
THEOREM VaultNoLockout == Spec => []NoLockout
<1>1. VaultInv => NoLockout
  <2> SUFFICES ASSUME VaultInv, db # NoFile, ~skipped
               PROVE  \E k \in Known : Opens(k)
    BY DEF NoLockout, Known
  <2>1. CASE db.key \in Known
    BY <2>1 DEF Opens, Direct
  <2>2. CASE db.key = NoKey /\ bak # NoFile /\ bak.key \in Known
    <3>1. Known \subseteq Keys
      BY DEF VaultInv, TypeOK, Known
    <3> QED
      BY <2>2, <3>1, NoKeyIsNoKey DEF Opens, Recovers, Direct
  <2> QED
    BY <2>1, <2>2 DEF VaultInv, KeyKnown
<1> QED
  BY <1>1, VaultInductive, PTL

\* A password that was replaced, or refused, opens nothing any more.
THEOREM VaultOnlyConfirmedOpens == Spec => []OnlyConfirmedOpens
<1>1. VaultInv => OnlyConfirmedOpens
  <2> SUFFICES ASSUME VaultInv, attempts = {}, ~skipped, ~leftover,
                      NEW k \in Keys, Opens(k)
               PROVE  k = confirmed
    BY DEF OnlyConfirmedOpens
  <2>1. db # NoFile
    BY NoKeyIsNoKey, FileKeys
    DEF VaultInv, TypeOK, Fresh, Opens, Recovers, Direct
  <2>2. db.key = k
    BY NoKeyIsNoKey DEF VaultInv, CopyAgrees, Opens, Recovers, Direct
  <2> QED
    BY <2>1, <2>2, NoKeyIsNoKey DEF VaultInv, KeyKnown, Known
<1> QED
  BY <1>1, VaultInductive, PTL

\* The copy replaces the database only after a rekey that was cut off.
THEOREM VaultRecoveryOnlyAfterRekey == Spec => RecoveryOnlyAfterRekey
<1>1. VaultInv /\ [Next]_vars => [Recovered => leftover]_vars
  <2> SUFFICES ASSUME VaultInv, Next, Recovered PROVE leftover
    BY DEF vars, Recovered
  <2>1. PICK k \in Keys : OpenOrRecover(k)
    <3>1. CASE Start
      BY <3>1, NoKeyIsNoKey DEF Start, Recovered
    <3>2. CASE CachedUnlock
      BY <3>2 DEF CachedUnlock, Recovered, VaultInv, TypeOK
    <3>3. CASE Unlock
      BY <3>3 DEF Unlock, Keys
    <3>4. CASE Crash
      <4>1. bak' \in {bak, Garble(db), db} /\ (op.pc # "backup" => bak' = bak)
        BY <3>4 DEF Crash
      <4>2. op.pc = "backup" => db \in File
        BY OpTypes, FileKeys DEF VaultInv, TypeOK, OpProgress, Idle
      <4>3. op.pc = "backup" => db # NoFile /\ Garble(db) # NoFile
        BY <4>2 DEF File, NoFile, Garble
      <4> QED
        BY <4>1, <4>3 DEF Recovered
    <3>5. CASE ~(Start \/ CachedUnlock \/ Unlock \/ Crash)
      BY <3>5 DEF Next, Recovered, FirstStart, Lock, Write, Initialize, ChangePassword,
                  Reset, Begin, Backup, BackupFails, PragmaRekey, RekeyFails, Mark,
                  RemoveBackup, Cache, Clear, Uncache, At
    <3> QED
      BY <3>1, <3>2, <3>3, <3>4, <3>5
  <2>2. ~Direct(k) /\ bak.key = k /\ bak # NoFile
    BY <2>1 DEF OpenOrRecover, Opens, Recovers, Recovered
  <2> QED
    BY <2>2, NoKeyIsNoKey DEF VaultInv, CopyAgrees, Direct
<1> QED
  BY <1>1, VaultInductive, PTL DEF Spec, RecoveryOnlyAfterRekey

=============================================================================
