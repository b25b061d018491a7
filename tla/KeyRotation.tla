------------------------------ MODULE KeyRotation ------------------------------
(***************************************************************************)
(* The master key: `ah rotate-key`, which re-encrypts the state database   *)
(* in one transaction, the key files the operator moves as the runbook     *)
(* says (docs/runbooks/operations.md), the start of the server, which      *)
(* loads or seeds the key of the API-key hashes, and `ah backup`.          *)
(*                                                                         *)
(* A ciphertext is the name of the key it is under: Decrypt with another   *)
(* key is an error, and Encrypt with any key succeeds.  A table stands for *)
(* its rows, which a running server writes under its one master key; in a  *)
(* snapshot's JSON one bad value keeps the whole row, as one bad row keeps *)
(* the whole table here.                                                   *)
(***************************************************************************)
EXTENDS Naturals, Sequences

CONSTANTS
  Columns,       \* the encrypted columns, in the order of RotateKeys: service_env, database
                 \* passwords and connection strings, kanban tokens, snapshot env
  Keys,          \* master keys, as many as are ever generated
  FirstKey,      \* the one ah was installed with
  MaxBackups,    \* how many backups enforceRetention keeps
  MaxRestores    \* bound: restores of a backup

KeyRotationAssumption ==
  /\ FirstKey \in Keys /\ "none" \notin Keys
  /\ Columns \in Seq(STRING)

VARIABLES
  db,        \* the committed state database
  tx,        \* the rotation that is running, and its transaction
  file,      \* master.key, master-new.key and master-old.key
  server,    \* the running server: its master key and its hash key
  dump,      \* `ah backup`: the copy VACUUM INTO made
  backups,   \* the published backups, oldest first
  used,      \* the keys generated so far
  restores   \* bound

vars == <<db, tx, file, server, dump, backups, used, restores>>

None == "none"

Column == {Columns[i] : i \in DOMAIN Columns}

NoSecret == [under |-> None, holds |-> None]
Down == [key |-> None, hash |-> None]
NoTx == [pc |-> "none"]

Db == [secret : [Column -> Keys \cup {None}], hash : [under : Keys \cup {None}, holds : Keys \cup {None}]]

TypeOK ==
  /\ db \in Db
  /\ tx = NoTx \/ tx \in [pc : 1..(Len(Columns) + 2), old : Keys, new : Keys, dry : BOOLEAN,
                          errors : BOOLEAN, db : Db]
  /\ file \in [master : Keys \cup {None}, fresh : Keys \cup {None}, old : Keys \cup {None}]
  /\ server \in [key : Keys \cup {None}, hash : Keys \cup {None}]
  /\ dump = <<>> \/ (Len(dump) = 1 /\ dump[1] \in Db)
  /\ Len(backups) <= MaxBackups /\ \A i \in DOMAIN backups : backups[i] \in Db
  /\ used \subseteq Keys

Init ==
  /\ db = [secret |-> [c \in Column |-> None], hash |-> NoSecret]
  /\ tx = NoTx
  /\ file = [master |-> FirstKey, fresh |-> None, old |-> None]
  /\ server = Down
  /\ dump = <<>> /\ backups = <<>>
  /\ used = {FirstKey}
  /\ restores = 0

-----------------------------------------------------------------------------
(* The server. *)

Up == server # Down

\* LoadOrCreateAPIKeyHashKey: seed the row if there is none, then read it; a row under
\* another key is fatal.
Start ==
  /\ ~Up /\ tx = NoTx /\ file.master # None
  /\ LET key == file.master
         hash == IF db.hash = NoSecret THEN [under |-> key, holds |-> key] ELSE db.hash
     IN /\ hash.under = key
        /\ db' = [db EXCEPT !.hash = hash]
        /\ server' = [key |-> key, hash |-> hash.holds]
  /\ UNCHANGED <<tx, file, dump, backups, used, restores>>

\* `systemctl stop ah`, or a crash.
Stop ==
  /\ Up /\ server' = Down
  /\ UNCHANGED <<db, tx, file, dump, backups, used, restores>>

\* A handler stores an encrypted value, or deletes the last one.
WriteSecret(c) ==
  /\ Up
  /\ \E k \in {server.key, None} : db' = [db EXCEPT !.secret[c] = k]
  /\ UNCHANGED <<tx, file, server, dump, backups, used, restores>>

-----------------------------------------------------------------------------
(* RotateKeys. *)

\* loadKeyFile: any key file that is there.
KeyFiles == {file.master, file.old, file.fresh} \ {None}

\* The key files that are given may be the wrong ones; without the hash key's row a wrong
\* old key could not be told, and is taken to be right.
BeginRotation(dry) ==
  /\ ~Up /\ tx = NoTx
  /\ \E old \in KeyFiles, new \in KeyFiles :
       /\ db.hash = NoSecret => old = FirstKey /\ file.master = FirstKey
       /\ tx' = [pc |-> 1, old |-> old, new |-> new, dry |-> dry, errors |-> FALSE, db |-> db]
  /\ UNCHANGED <<db, file, server, dump, backups, used, restores>>

Rotating == tx # NoTx

\* rotateServiceEnv, rotateColumn, rotateSnapshotEnvs: errors are counted and passed over.
RotateColumn ==
  /\ Rotating /\ tx.pc <= Len(Columns)
  /\ LET c == Columns[tx.pc] IN
       tx' = [tx EXCEPT !.pc = @ + 1,
                        !.errors = @ \/ tx.db.secret[c] \notin {None, tx.old},
                        !.db.secret[c] = IF @ = tx.old /\ ~tx.dry THEN tx.new ELSE @]
  /\ UNCHANGED <<db, file, server, dump, backups, used, restores>>

\* Mutant: a missing row is seeded with the new key.
SeedNewHashKey ==
  /\ Rotating /\ tx.pc = Len(Columns) + 1
  /\ tx.db.hash.under \in {None, tx.old}
  /\ tx' = [tx EXCEPT !.pc = @ + 1,
                      !.db.hash = IF tx.dry THEN @
                                  ELSE [under |-> tx.new,
                                        holds |-> IF @ = NoSecret THEN tx.new ELSE @.holds]]
  /\ UNCHANGED <<db, file, server, dump, backups, used, restores>>

\* rotateAPIKeyHashKey: the row keeps what it holds; a missing one gets the old key.
RotateHashKey ==
  /\ Rotating /\ tx.pc = Len(Columns) + 1
  /\ tx.db.hash.under \in {None, tx.old}
  /\ tx' = [tx EXCEPT !.pc = @ + 1,
                      !.db.hash = IF tx.dry THEN @
                                  ELSE [under |-> tx.new,
                                        holds |-> IF @ = NoSecret THEN tx.old ELSE @.holds]]
  /\ UNCHANGED <<db, file, server, dump, backups, used, restores>>

\* Nothing failed, and it is not a dry run.
Commit ==
  /\ Rotating /\ tx.pc = Len(Columns) + 2 /\ ~tx.errors /\ ~tx.dry
  /\ db' = tx.db
  /\ tx' = NoTx
  /\ UNCHANGED <<file, server, dump, backups, used, restores>>

\* An error, the end of a dry run, or the end of the process: the transaction is undone.
Rollback ==
  /\ Rotating
  /\ tx' = NoTx
  /\ UNCHANGED <<db, file, server, dump, backups, used, restores>>

RotateKeys == RotateColumn \/ RotateHashKey \/ Commit \/ Rollback

-----------------------------------------------------------------------------
(* The runbook. *)

GenerateKey ==
  /\ file.fresh = None
  /\ \E k \in Keys \ used :
       /\ file' = [file EXCEPT !.fresh = k]
       /\ used' = used \cup {k}
  /\ UNCHANGED <<db, tx, server, dump, backups, restores>>

\* Step 5, after a rotation that was not refused: two moves, with time between them.
MoveOldKey ==
  /\ ~Up /\ ~Rotating /\ file.master # None /\ file.fresh # None
  /\ db.hash.under = file.fresh
  /\ file' = [file EXCEPT !.old = file.master, !.master = None]
  /\ UNCHANGED <<db, tx, server, dump, backups, used, restores>>

MoveNewKey ==
  /\ file.master = None /\ file.fresh # None
  /\ file' = [file EXCEPT !.master = file.fresh, !.fresh = None]
  /\ UNCHANGED <<db, tx, server, dump, backups, used, restores>>

-----------------------------------------------------------------------------
(* Backups. *)

\* VACUUM INTO a temporary file copies what is committed, whoever is running.
Vacuum ==
  /\ dump = <<>>
  /\ dump' = <<db>>
  /\ UNCHANGED <<db, tx, file, server, backups, used, restores>>

\* The rename publishes the copy; enforceRetention keeps the newest MaxBackups.
Publish ==
  /\ dump # <<>>
  /\ LET all == Append(backups, dump[1])
     IN backups' = IF Len(all) > MaxBackups THEN Tail(all) ELSE all
  /\ dump' = <<>>
  /\ UNCHANGED <<db, tx, file, server, used, restores>>

\* A failed or killed backup leaves nothing that ends in .db.gz.
AbandonBackup ==
  /\ dump # <<>> /\ dump' = <<>>
  /\ UNCHANGED <<db, tx, file, server, backups, used, restores>>

\* The operator puts a backup back, one that a server has run on, with whichever key files
\* are there.
Restore ==
  /\ ~Up /\ ~Rotating /\ restores < MaxRestores
  /\ \E i \in DOMAIN backups :
       /\ backups[i].hash # NoSecret
       /\ db' = backups[i]
  /\ restores' = restores + 1
  /\ UNCHANGED <<tx, file, server, dump, backups, used>>

Next ==
  \/ Start \/ Stop \/ \E c \in Column : WriteSecret(c)
  \/ \E dry \in BOOLEAN : BeginRotation(dry)
  \/ RotateKeys
  \/ GenerateKey \/ MoveOldKey \/ MoveNewKey
  \/ Vacuum \/ Publish \/ AbandonBackup \/ Restore

Spec == Init /\ [][Next]_vars

-----------------------------------------------------------------------------
(* Properties. *)

\* Under one key, with the key of the API-key hashes what it was when they were made.
Coherent(d) ==
  /\ d.hash # NoSecret => d.hash.holds = FirstKey
  /\ \E k \in Keys : \A c \in Column : d.secret[c] \in {None, k}
                                       /\ d.hash.under \in {None, k}

\* All or nothing: whatever failed, was killed, repeated, given the wrong key files, backed
\* up or restored on the way, the database and every backup are under one key, and a server
\* that has started can read every secret and verify every API key ever minted.
SecretsReadable ==
  /\ Coherent(db)
  /\ \A i \in DOMAIN backups : Coherent(backups[i])
  /\ Up => /\ server.hash = FirstKey
           /\ \A c \in Column : db.secret[c] \in {None, server.key}

=============================================================================
