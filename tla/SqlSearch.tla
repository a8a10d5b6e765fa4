----------------------------- MODULE SqlSearch -----------------------------
(***************************************************************************)
(* The sqlite example of Error部分/sqlSearch: main.go, sqlRest/sql.go and  *)
(* dbConfig/config.go.                                                     *)
(*                                                                         *)
(* main builds a DBConfig, opens the database with CreateDB, creates the   *)
(* table "person", inserts the name "echo", reads it back with QueryData,  *)
(* prints the value and closes the database.  It prints every error and    *)
(* carries on with the next call.  The database file outlives the process: *)
(* the program may be run again, and each run adds one more "echo" row.    *)
(*                                                                         *)
(* database/sql is folded into the calls: sql.Open only looks the driver   *)
(* up (an unregistered name is its only error) and connects nothing; the   *)
(* first Exec or Query opens a connection, and go-sqlite3 then parses the  *)
(* DSN and runs its PRAGMAs.  Opening the file, an Exec, a Query and the   *)
(* stepping of the rows may fail (a locked or unwritable file, an I/O      *)
(* error); these are the nondeterministic outcomes of each call.  A method *)
(* of a nil *sql.DB dereferences it and panics.                            *)
(***************************************************************************)
EXTENDS Naturals, SequencesExt

CONSTANTS
  Nil,           \* the nil *sql.DB
  Drivers,       \* driver names registered with database/sql
  MaxRuns        \* how many times the program is run against one file

ASSUME MaxRuns \in Nat \ {0}

VARIABLES
  pc,            \* main: "start", "createTb", "insert", "query", "close", "done", "panicked"
  db,            \* main's sqldb: Nil, "open" or "closed"
  conn,          \* a connection of the pool is open
  pragmas,       \* journal mode and synchronous mode the connection runs with
  table,         \* the file holds the table person
  rows,          \* number of rows named "echo" in the file
  v,             \* QueryData's value: "" or "echo"
  qerr,          \* QueryData's error: "nil" or "err"
  iterErr,       \* rows.Err() when QueryData's loop ended (not read by the code)
  runs           \* runs of the program so far

vars == <<pc, db, conn, pragmas, table, rows, v, qerr, iterErr, runs>>

(***************************************************************************)
(* The DSN.  A field of the query string is a sequence of tokens; Config   *)
(* joins the key, "=" and the value, except for _synchronous, where the    *)
(* "=" is missing and the value is glued to the key.                       *)
(***************************************************************************)
\* The DBConfig main builds (main.go:14-15).
MainConf == [DBName |-> "file", JournalModel |-> "WAL", CacheSize |-> "8000",
             Synchronous |-> "0", Mode |-> "rwc", TbName |-> "person"]

Config(c) == << <<"_journal_mode", "=", c.JournalModel>>,
                <<"_cache_size", "=", c.CacheSize>>,
                <<"_synchronous", c.Synchronous>>,
                <<"mode", "=", c.Mode>> >>

\* url.ParseQuery: a field's key is what precedes its first "=", its value
\* what follows; a field without "=" is a key with the empty value.
EqAt(f) == SelectInSeq(f, LAMBDA t : t = "=")
KeyOf(f) == IF EqAt(f) = 0 THEN f ELSE SubSeq(f, 1, EqAt(f) - 1)
ValueOf(f) == IF EqAt(f) = 0 THEN <<>> ELSE SubSeq(f, EqAt(f) + 1, Len(f))

\* params.Get(key): the value of the first field with that key, or "".
Get(fields, key) ==
  LET i == SelectInSeq(fields, LAMBDA f : KeyOf(f) = <<key>>)
  IN  IF i = 0 \/ ValueOf(fields[i]) = <<>> THEN "" ELSE Head(ValueOf(fields[i]))

\* go-sqlite3's open: journal_mode is set only when given; synchronous is
\* always set, to NORMAL unless _synchronous gives a value.
OpenPragmas(fields) ==
  [journal |-> IF Get(fields, "_journal_mode") = "" THEN "DELETE" ELSE Get(fields, "_journal_mode"),
   sync    |-> IF Get(fields, "_synchronous") = "" THEN "NORMAL" ELSE Get(fields, "_synchronous")]

NoPragmas == [journal |-> "none", sync |-> "none"]

(***************************************************************************)
(* sqlRest                                                                 *)
(***************************************************************************)
\* sql.Open(driver, dsn): the handle, or nil with the error.
SqlOpen(driver) == IF driver \in Drivers THEN "open" ELSE Nil

\* pathExist(path) over the outcome of os.Stat: a missing path is the
\* wrapped not-exist error, any other Stat error is returned as it is.
StatOutcomes == {"ok", "notExist", "denied"}
pathExist(stat) ==
  CASE stat = "ok"       -> "nil"
    [] stat = "notExist" -> "wrapped"
    [] OTHER             -> stat

\* OpenDb: pathExist(DBPathInfo()), then sql.Open("sqlite", ...); the handle.
OpenDb(stat) == IF pathExist(stat) = "nil" THEN SqlOpen("sqlite") ELSE Nil

TypeOK ==
  /\ pc \in {"start", "createTb", "insert", "query", "close", "done", "panicked"}
  /\ db \in {Nil, "open", "closed"}
  /\ conn \in BOOLEAN
  /\ pragmas \in {NoPragmas} \cup [journal : {"DELETE", "WAL"}, sync : {"NORMAL", "0"}]
  /\ table \in BOOLEAN
  /\ rows \in 0..MaxRuns
  /\ v \in {"", "echo"}
  /\ qerr \in {"nil", "err"}
  /\ iterErr \in BOOLEAN
  /\ runs \in 1..MaxRuns

Init ==
  /\ pc = "start"
  /\ db = Nil
  /\ conn = FALSE
  /\ pragmas = NoPragmas
  /\ table = FALSE
  /\ rows = 0
  /\ v = ""
  /\ qerr = "nil"
  /\ iterErr = FALSE
  /\ runs = 1

(***************************************************************************)
(* main's steps.  Each is the whole sqlRest call main makes there; main    *)
(* prints an error and goes on, so no step depends on the previous error.  *)
(***************************************************************************)
\* A method of the nil *sql.DB: the process panics.
Panic ==
  /\ pc' = "panicked"
  /\ UNCHANGED <<db, conn, pragmas, table, rows, v, qerr, iterErr, runs>>

\* db.conn(): reuse the open connection or open one, which may fail; a new
\* connection parses the DSN Config() built and runs its PRAGMAs.
Connect(opened) ==
  /\ conn' = (conn \/ opened)
  /\ pragmas' = IF conn \/ ~opened THEN pragmas ELSE OpenPragmas(Config(MainConf))

\* os.Getwd, the DBConfig, then sqldb, err := CreateDB(conf):
\* sql.Open("sqlite3", conf.Config()).
CreateDB ==
  /\ pc = "start"
  /\ db' = SqlOpen("sqlite3")
  /\ pc' = "createTb"
  /\ UNCHANGED <<conn, pragmas, table, rows, v, qerr, iterErr, runs>>

\* CreateTbWithName: db.Exec("CREATE TABLE IF NOT EXISTS person (...)").
CreateTbWithName ==
  /\ pc = "createTb"
  /\ IF db = Nil THEN Panic
     ELSE \E opened, ok \in BOOLEAN :
            /\ Connect(opened)
            /\ table' = (table \/ (conn' /\ ok))
            /\ pc' = "insert"
            /\ UNCHANGED <<db, rows, v, qerr, iterErr, runs>>

\* InsertData(db, conf, "echo"): db.Exec("insert into person(name) values(?)");
\* it fails when the table is missing.
InsertData ==
  /\ pc = "insert"
  /\ IF db = Nil THEN Panic
     ELSE \E opened, ok \in BOOLEAN :
            /\ Connect(opened)
            /\ rows' = IF conn' /\ ok /\ table /\ rows < MaxRuns THEN rows + 1 ELSE rows
            /\ pc' = "query"
            /\ UNCHANGED <<db, table, v, qerr, iterErr, runs>>

\* QueryData(db, conf, "echo"): a failed db.Query returns "" and the error.
\* Otherwise `for rows.Next() { err = rows.Scan(&value) }` reads k rows:
\* all of them, or fewer when stepping fails, and rows.Next then returns
\* false with the error kept in rows.Err(), which is never read.  Scan of
\* the NOT NULL VARCHAR into a string does not fail, so err stays nil, and
\* value is "echo" when at least one row was read.
QueryData ==
  /\ pc = "query"
  /\ IF db = Nil THEN Panic
     ELSE \E opened, ok \in BOOLEAN :
            /\ Connect(opened)
            /\ pc' = "close"
            /\ UNCHANGED <<db, table, rows, runs>>
            /\ IF conn' /\ ok /\ table
               THEN \E k \in 0..rows, stopped \in BOOLEAN :
                      /\ ~stopped => k = rows
                      /\ v' = IF k > 0 THEN "echo" ELSE ""
                      /\ qerr' = "nil"
                      /\ iterErr' = stopped
               ELSE /\ v' = ""
                    /\ qerr' = "err"
                    /\ iterErr' = FALSE

\* println("v:", v), then CloseDb(sqldb): db.Close() closes the pool.
CloseDb ==
  /\ pc = "close"
  /\ IF db = Nil THEN Panic
     ELSE /\ db' = "closed"
          /\ conn' = FALSE
          /\ pragmas' = NoPragmas
          /\ pc' = "done"
          /\ UNCHANGED <<table, rows, v, qerr, iterErr, runs>>

\* The program is run again, after it ended or panicked; the file and its
\* rows remain.
Rerun ==
  /\ pc \in {"done", "panicked"}
  /\ runs < MaxRuns
  /\ pc' = "start"
  /\ db' = Nil
  /\ conn' = FALSE
  /\ pragmas' = NoPragmas
  /\ v' = ""
  /\ qerr' = "nil"
  /\ iterErr' = FALSE
  /\ runs' = runs + 1
  /\ UNCHANGED <<table, rows>>

MainStep == CreateDB \/ CreateTbWithName \/ InsertData \/ QueryData \/ CloseDb

Next == MainStep \/ Rerun

Spec == Init /\ [][Next]_vars

(***************************************************************************)
(* Properties                                                              *)
(***************************************************************************)
\* QueryData's nil error means its value is the answer: main prints ""
\* with no error only when the file holds no "echo" row.
QueryReportsFailure ==
  (pc = "close" /\ qerr = "nil") => ((v = "echo") <=> (rows > 0))

\* A connection runs with the journal mode and the synchronous mode the
\* DBConfig asks for (WAL and 0).
ConfigApplied ==
  conn => pragmas = [journal |-> MainConf.JournalModel, sync |-> MainConf.Synchronous]
====
