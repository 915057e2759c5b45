------------------------------- MODULE Database -------------------------------
(***************************************************************************)
(* database/db_manager.cpp: the handle and the stored codes of a vehicle.  *)
(* Every statement is a transaction of its own in SQLite, any one can fail *)
(* (disk full, database locked), and the program can stop between two.     *)
(* The tables not about codes are left out; SELECT returns the rows in the *)
(* order they were inserted.                                               *)
(***************************************************************************)
EXTENDS Integers, Sequences

CONSTANTS Vins, Codes, CodeLists   \* vehicles, and what saveDTCs is called with
CONSTANT MaxSaves                  \* bound: calls of saveDTCs

ASSUME DatabaseAssumption == Vins # {} /\ CodeLists \subseteq Seq(Codes) /\ MaxSaves \in Nat

VARIABLES handle, db_is_open,    \* db_ ("null", "dead" after a failed open, "live") and open_
          migrated,              \* the file has the tables
          table,                 \* the rows of each vehicle
          step, vin, codes,      \* saveDTCs: 0 when not running, i before the i-th insert
          result,                \* what the last call returned, "crash" if it never did
          before,                \* ghost: the rows of vin when saveDTCs was called
          saves

dbVars == <<handle, db_is_open, migrated, table, step, vin, codes, result, before, saves>>

Results == {"none", "true", "false", "crash"}

DbInit ==
  /\ handle = "null" /\ db_is_open = FALSE
  /\ migrated = FALSE /\ table = [v \in Vins |-> <<>>]
  /\ step = 0 /\ vin = (CHOOSE v \in Vins : TRUE) /\ codes = <<>> /\ result = "none" /\ before = <<>>
  /\ saves = 0

\* sqlite3_open leaves a handle behind even when it fails.
dbOpen ==
  /\ step = 0 /\ ~db_is_open
  /\ \/ handle' = "live" /\ db_is_open' = TRUE
     \/ handle' = "dead" /\ UNCHANGED db_is_open
  /\ UNCHANGED <<migrated, table, step, vin, codes, result, before, saves>>

dbClose ==
  /\ step = 0
  /\ handle' = "null" /\ db_is_open' = FALSE
  /\ UNCHANGED <<migrated, table, step, vin, codes, result, before, saves>>

\* Several statements in one call: one that fails leaves the later tables out.
runMigrations ==
  /\ step = 0 /\ db_is_open
  /\ migrated' \in {migrated, TRUE}
  /\ UNCHANGED <<handle, db_is_open, table, step, vin, codes, result, before, saves>>

\* execute works on db_, whatever open_ says: only on a live handle, and where
\* the table is, can a statement about codes succeed.
Works == handle = "live" /\ migrated

\* saveDTCs, first statement: what the DELETE returned is not looked at.
SaveDelete(v, list) ==
  /\ step = 0 /\ saves < MaxSaves /\ saves' = saves + 1
  /\ step' = 1 /\ vin' = v /\ codes' = list /\ before' = table[v] /\ result' = "none"
  /\ \/ Works /\ table' = [table EXCEPT ![v] = <<>>]
     \/ UNCHANGED table
  /\ UNCHANGED <<handle, db_is_open, migrated>>

\* Slip: what the INSERT returned is not looked at either.
InsertUnchecked ==
  /\ step \in DOMAIN codes
  /\ step' = step + 1
  /\ \/ Works /\ table' = [table EXCEPT ![vin] = Append(@, codes[step])]
     \/ UNCHANGED table
  /\ UNCHANGED <<handle, db_is_open, migrated, vin, codes, result, before, saves>>

SaveInsert ==
  /\ step \in DOMAIN codes
  /\ \/ /\ Works /\ table' = [table EXCEPT ![vin] = Append(@, codes[step])]
        /\ step' = step + 1 /\ UNCHANGED result
     \/ step' = 0 /\ result' = "false" /\ UNCHANGED table
  /\ UNCHANGED <<handle, db_is_open, migrated, vin, codes, before, saves>>

SaveDone ==
  /\ step = Len(codes) + 1
  /\ step' = 0 /\ result' = "true"
  /\ UNCHANGED <<handle, db_is_open, migrated, table, vin, codes, before, saves>>

\* The process ends; what was committed stays.
DbCrash ==
  /\ handle' = "null" /\ db_is_open' = FALSE
  /\ step' = 0 /\ result' = IF step = 0 THEN result ELSE "crash"
  /\ UNCHANGED <<migrated, table, vin, codes, before, saves>>

DbNext ==
  \/ dbOpen \/ dbClose \/ runMigrations \/ DbCrash
  \/ \E v \in Vins, list \in CodeLists : SaveDelete(v, list)
  \/ SaveInsert \/ SaveDone

DbSpec == DbInit /\ [][DbNext]_dbVars

loadDTCs(v) == table[v]

\* What a save has done to its vehicle: the first n codes stand behind the
\* rows that were there, or behind nothing.
StoredUpTo(n) ==
  LET new == SubSeq(codes, 1, n) IN loadDTCs(vin) \in {new, before \o new}

\* A save that returned TRUE has stored every code, in order, and behind at
\* most the rows a failed DELETE left; one that failed or was cut short has
\* stored a prefix of them.  It never mixes old and new rows otherwise.
SavedWhenTrue ==
  /\ result = "true" => StoredUpTo(Len(codes))
  /\ \E n \in 0..Len(codes) : StoredUpTo(n)
=============================================================================
