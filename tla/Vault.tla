------------------------------- MODULE Vault -------------------------------
(***************************************************************************)
(* The database that holds configuration and credentials is encrypted with *)
(* a key derived from the master password, or with DEFAULT_DEK while there *)
(* is none.  SqlCipherStorage::rekey changes the key behind a copy of the  *)
(* file, .db.bak; open_or_recover falls back on the copy when a key does   *)
(* not open the database.  The module follows both files through setting,  *)
(* changing and resetting the password, failures of every step, crashes at *)
(* every point and the three ways a start finds a key: DEFAULT_DEK, the    *)
(* key cached in the system's keychain, the password gate.                 *)
(*                                                                         *)
(* A file is its key, the number of the last committed write, and the      *)
(* marker using_default_dek.  A crash inside PRAGMA rekey leaves the old   *)
(* key, the new one, or a file no key opens: what the comment of           *)
(* open_or_recover expects of SQLCipher.  SQLite's own journal files are   *)
(* not modelled.  One change of the password runs at a time.               *)
(***************************************************************************)
EXTENDS Naturals

CONSTANTS
    Passwords,   \* master passwords, as the keys derived from them
    Default,     \* DEFAULT_DEK
    NoKey,       \* no key
    MaxWrites    \* bound: writes committed

ASSUME KeyAssumption == Default # NoKey /\ {Default, NoKey} \cap Passwords = {}
ASSUME WritesAssumption == MaxWrites \in Nat

VARIABLES
    db,          \* the database file
    bak,         \* its copy
    proc,        \* the daemon: "down", "gate" (waits for a password), "up"
    cached,      \* the key in the keychain
    op,          \* the change of the password under way
    written,     \* number of the last write that was committed
    confirmed,   \* the key the user knows to be set
    attempts,    \* keys of changes since then that did not get to their end
    leftover,    \* history: a change stopped between PRAGMA rekey and the
                 \* removal of the copy, and the copy is still there
    skipped      \* history: a reset went by the marker of such a change, and
                 \* left the password in place

user == <<confirmed, attempts, skipped>>
vars == <<db, bak, proc, cached, op, written, user, leftover>>

Keys == Passwords \cup {Default}
NoFile == [key |-> NoKey]
File == [key : Keys \cup {NoKey}, data : 0..MaxWrites, marker : BOOLEAN]
Idle == [pc |-> "idle"]
Rekey == [pc : {"backup", "copied", "rekeyed", "marked", "cache", "clear", "uncache"},
          reset : BOOLEAN, to : Keys]

TypeOK ==
    /\ db \in File \cup {NoFile} /\ bak \in File \cup {NoFile}
    /\ proc \in {"down", "gate", "up"}
    /\ cached \in Keys \cup {NoKey}
    /\ op \in Rekey \cup {Idle}
    /\ written \in 0..MaxWrites
    /\ confirmed \in Keys /\ attempts \subseteq Keys
    /\ leftover \in BOOLEAN /\ skipped \in BOOLEAN

Init ==
    /\ db = NoFile /\ bak = NoFile
    /\ proc = "down" /\ cached = NoKey /\ op = Idle
    /\ written = 0
    /\ confirmed = Default /\ attempts = {}
    /\ leftover = FALSE /\ skipped = FALSE

\* A file that no key opens; what is left of it does not matter.
Garble(file) == [file EXCEPT !.key = NoKey]

-----------------------------------------------------------------------------
(* Opening                                                                 *)

Direct(k) == db.key = k
Recovers(k) == ~Direct(k) /\ bak # NoFile /\ bak.key = k
Opens(k) == Direct(k) \/ Recovers(k)

\* Mutant: whatever the key, a copy that is there replaces the database.
OpenOrRecoverAny(k) ==
    /\ Opens(k) \/ bak # NoFile
    /\ db' = IF Direct(k) THEN db ELSE bak
    /\ bak' = IF Direct(k) THEN bak ELSE NoFile
    /\ proc' = "up"
    /\ confirmed' = k /\ attempts' = {} /\ skipped' = FALSE
    /\ leftover' = (leftover /\ Direct(k))
    /\ written' = db'.data

\* The key opens the database, or the copy, which then replaces it.
OpenOrRecover(k) ==
    /\ Opens(k)
    /\ db' = IF Direct(k) THEN db ELSE bak
    /\ bak' = IF Direct(k) THEN bak ELSE NoFile
    /\ proc' = "up"
    /\ confirmed' = k /\ attempts' = {} /\ skipped' = FALSE
    /\ leftover' = (leftover /\ Direct(k))
    /\ written' = db'.data

FirstStart ==
    /\ proc = "down" /\ db = NoFile
    /\ db' = [key |-> Default, data |-> 0, marker |-> TRUE]
    /\ proc' = "up"
    /\ UNCHANGED <<bak, cached, op, written, user, leftover>>

\* A start tries DEFAULT_DEK.  If it does not open, the start ends with
\* NeedUnlock, or with an error when there is a copy; in both cases there is
\* no credential store and CredentialGate asks for the password.
Start ==
    /\ proc = "down" /\ db # NoFile
    /\ \/ OpenOrRecover(Default)
       \/ /\ ~Opens(Default)
          /\ proc' = "gate"
          /\ UNCHANGED <<db, bak, written, user, leftover>>
    /\ UNCHANGED <<cached, op>>

\* The gate tries the cached key first, and forgets it if it does not open.
CachedUnlock ==
    /\ proc = "gate" /\ cached # NoKey
    /\ \/ OpenOrRecover(cached) /\ UNCHANGED cached
       \/ /\ ~Opens(cached)
          /\ cached' = NoKey
          /\ UNCHANGED <<db, bak, proc, written, user, leftover>>
    /\ UNCHANGED op

\* A password that opens nothing is answered with an error.
Unlock ==
    /\ proc = "gate"
    /\ \E p \in Passwords : OpenOrRecover(p) /\ cached' \in {cached, p}
    /\ UNCHANGED op

\* Lock forgets the cached key, and unlocking a running daemon caches it again:
\* the database stays open all the time.
Lock ==
    /\ proc = "up"
    /\ cached' \in {NoKey} \cup (Passwords \cap {db.key})
    /\ UNCHANGED <<db, bak, proc, op, written, user, leftover>>

-----------------------------------------------------------------------------
(* Writing                                                                 *)

\* Holders of the connection's lock; rekey gives it up between the backup and
\* the rest.
Locked == op.pc \in {"backup", "rekeyed", "marked"}

Write ==
    /\ proc = "up" /\ ~Locked
    /\ written < MaxWrites
    /\ db' = [db EXCEPT !.data = written + 1]
    /\ written' = written + 1
    /\ UNCHANGED <<bak, proc, cached, op, user, leftover>>

-----------------------------------------------------------------------------
(* Setting, changing and resetting the password                            *)

Begin(pc, reset, to) ==
    /\ proc = "up" /\ op = Idle
    /\ op' = [pc |-> pc, reset |-> reset, to |-> to]
    /\ attempts' = attempts \cup {to}
    /\ UNCHANGED <<db, bak, proc, cached, written, confirmed, leftover, skipped>>

\* initialize is for a database without a password.
Initialize ==
    /\ proc = "up" /\ db.marker
    /\ \E p \in Passwords : Begin("backup", FALSE, p)

\* change_password opens the file with the old password first.
ChangePassword ==
    /\ proc = "up" /\ db.key \in Passwords
    /\ \E p \in Passwords : Begin("backup", FALSE, p)

\* reset goes back to DEFAULT_DEK if a password is set, and clears the tables.
Reset ==
    /\ proc = "up"
    /\ Begin(IF db.marker THEN "clear" ELSE "backup", TRUE, Default)

At(pc) == proc = "up" /\ op.pc = pc
Goto(pc) == op' = [op EXCEPT !.pc = pc]

\* Mutant: the rest goes on although the copy is incomplete.
BackupFailsUnnoticed ==
    /\ At("backup")
    /\ bak' = Garble(db)
    /\ Goto("copied")
    /\ UNCHANGED <<db, proc, cached, written, user, leftover>>

Backup ==
    /\ At("backup")
    /\ bak' = db
    /\ leftover' = FALSE
    /\ Goto("copied")
    /\ UNCHANGED <<db, proc, cached, written, user>>

\* The copy fails, or is left incomplete: rekey returns the error.
BackupFails ==
    /\ At("backup")
    /\ bak' \in {bak, Garble(db)}
    /\ op' = Idle
    /\ UNCHANGED <<db, proc, cached, written, user, leftover>>

PragmaRekey ==
    /\ At("copied")
    /\ db' = [db EXCEPT !.key = op.to]
    /\ leftover' = TRUE
    /\ Goto("rekeyed")
    /\ UNCHANGED <<bak, proc, cached, written, user>>

\* PRAGMA rekey, or what precedes it, fails and changes nothing.
RekeyFails ==
    /\ At("copied")
    /\ op' = Idle
    /\ UNCHANGED <<db, bak, proc, cached, written, user, leftover>>

\* journal_mode = WAL and the marker; a failure of either is returned, with the
\* new key in place and the copy still there.
Mark ==
    /\ At("rekeyed")
    /\ \/ /\ db' = [db EXCEPT !.marker = (op.to = Default)]
          /\ Goto("marked")
       \/ op' = Idle /\ UNCHANGED db
    /\ UNCHANGED <<bak, proc, cached, written, user, leftover>>

\* Mutant: the copy is kept.
KeepBackup ==
    /\ At("marked")
    /\ leftover' = FALSE
    /\ Goto(IF op.reset THEN "clear" ELSE "cache")
    /\ UNCHANGED <<db, bak, proc, cached, written, user>>

\* The copy is removed or renamed; if neither works it stays, with a warning.
RemoveBackup ==
    /\ At("marked")
    /\ \/ bak' = NoFile /\ leftover' = FALSE
       \/ UNCHANGED <<bak, leftover>>
    /\ Goto(IF op.reset THEN "clear" ELSE "cache")
    /\ UNCHANGED <<db, proc, cached, written, user>>

\* save_cached_key, which may fail, and the answer to the user.
Cache ==
    /\ At("cache")
    /\ cached' \in {cached, op.to}
    /\ confirmed' = op.to /\ attempts' = {} /\ skipped' = FALSE
    /\ op' = Idle
    /\ UNCHANGED <<db, bak, proc, written, leftover>>

\* SqlCipherStorage::reset: the tables and the marker.
Clear ==
    /\ At("clear")
    /\ \/ /\ db' = [db EXCEPT !.data = 0, !.marker = TRUE]
          /\ written' = 0
          /\ Goto("uncache")
       \/ op' = Idle /\ UNCHANGED <<db, written>>
    /\ UNCHANGED <<bak, proc, cached, user, leftover>>

Uncache ==
    /\ At("uncache")
    /\ cached' \in {cached, NoKey}
    /\ confirmed' = Default /\ attempts' = {}
    /\ skipped' = (db.key # Default)
    /\ op' = Idle
    /\ UNCHANGED <<db, bak, proc, written, leftover>>

-----------------------------------------------------------------------------

\* The process ends, in the middle of the copy or of PRAGMA rekey if it was
\* there.
Crash ==
    /\ proc # "down"
    /\ proc' = "down" /\ op' = Idle
    /\ IF op.pc = "backup" THEN bak' \in {bak, Garble(db), db} ELSE UNCHANGED bak
    /\ IF op.pc = "copied"
       THEN db' \in {db, [db EXCEPT !.key = op.to], Garble(db)}
       ELSE UNCHANGED db
    /\ leftover' = (leftover \/ db' # db)
    /\ UNCHANGED <<cached, written, user>>

Next ==
    \/ FirstStart \/ Start \/ CachedUnlock \/ Unlock \/ Lock
    \/ Write
    \/ Initialize \/ ChangePassword \/ Reset
    \/ Backup \/ BackupFails \/ PragmaRekey \/ RekeyFails \/ Mark
    \/ RemoveBackup \/ Cache \/ Clear \/ Uncache
    \/ Crash

Spec == Init /\ [][Next]_vars

-----------------------------------------------------------------------------
(* Properties                                                              *)

\* Whatever failed and wherever the process ended, the key the user knows to be
\* set, or one the user tried to set since, opens the database: nobody is locked
\* out by a half-finished rekey.  The exception is a reset that believed the
\* marker of a rekey that had failed before it wrote the marker.
NoLockout ==
    db # NoFile /\ ~skipped => \E k \in attempts \cup {confirmed} : Opens(k)

\* Once a change has been answered, or a key has opened the database, no other
\* password does: not one that was replaced, nor one that was refused.  But for
\* a copy that a change cut off behind PRAGMA rekey has left.
OnlyConfirmedOpens ==
    op = Idle /\ attempts = {} /\ ~skipped /\ ~leftover
        => \A k \in Keys : Opens(k) => k = confirmed

Recovered == bak # NoFile /\ bak' = NoFile /\ proc' # proc

\* The copy replaces the database only if a change of the password was cut off,
\* or could not remove its copy: in particular a password that does not open
\* the database never destroys it otherwise.
RecoveryOnlyAfterRekey == [][Recovered => leftover]_vars
============================================================================
