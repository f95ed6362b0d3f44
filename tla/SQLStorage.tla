------------------------------ MODULE SQLStorage ------------------------------
(***************************************************************************)
(* SQLiteStorage and PostgresStorage (storage/sqlite.go, postgres.go): a   *)
(* constructor that opens, pings and migrates a database, and five calls   *)
(* that each run one statement on a connection of database/sql's pool and, *)
(* where there are many rows, read them one by one.                        *)
(*                                                                         *)
(* External, modelled as the code uses it: the pool of database/sql (its   *)
(* limits, free connections, callers that wait for one, Close), and the    *)
(* database, which runs a statement at one moment and streams the rows of  *)
(* a query from a snapshot. A connection to ":memory:" has a database of   *)
(* its own, which is gone when the connection is closed.                   *)
(***************************************************************************)
EXTENDS Naturals, FiniteSets

CONSTANTS
    Users, Keys, Values, Categories,
    Unencodable,    \* values json.Marshal rejects
    Procs,      \* goroutines that call the storage
    Conns,      \* connections; bound: as many as are ever open at once
    Drivers,    \* a subset of {"sqlite", "postgres"}
    Files,      \* what an application passes as filePath
    Options,    \* what it passes as options
    Faults,     \* what may go wrong, see FaultAssumption
    Shared,     \* the database all connections but those to ":memory:" see
    None

Slot == Users \X Keys
Row == [val : Values, cat : Categories]
Stored == [val : Values \ Unencodable, cat : Categories]
Table == [Slot -> Stored \cup {None}]
Config == [named : BOOLEAN, volatile : BOOLEAN, wal : BOOLEAN,
           journal : {"", "WAL", "DELETE"}, extra : {"", "WAL", "DELETE"},
           maxOpen : Nat, maxIdle : Nat]

ASSUME DriverAssumption == Drivers \subseteq {"sqlite", "postgres"}
ASSUME FileAssumption == Files \subseteq {"", "prefs.db", ":memory:"}
SQLiteOption(o) ==
    /\ o.driver = "sqlite" /\ o.field \in {"wal", "journal", "extra"}
    /\ o.value \in (IF o.field = "wal" THEN BOOLEAN ELSE {"WAL", "DELETE"})
\* "named": the options name the database, by DSN or by DBName.
PostgresOption(o) ==
    /\ o.driver = "postgres" /\ o.field \in {"named", "maxOpen", "maxIdle"}
    /\ o.value \in (IF o.field = "named" THEN BOOLEAN ELSE Nat)
ASSUME OptionAssumption == \A o \in Options : SQLiteOption(o) \/ PostgresOption(o)
\* "open": the DSN is malformed; "connect": no connection, or no answer to the
\* ping in time; "error", "indefinite": a statement fails, before or after it was
\* applied; "row": a row does not scan or unmarshal; "stream": the connection
\* breaks between two rows; "cancel": the caller's context ends
ASSUME FaultAssumption ==
    Faults \subseteq {"open", "connect", "error", "indefinite", "row", "stream", "cancel"}
ASSUME PoolAssumption == IsFiniteSet(Conns) /\ Conns # {}
ASSUME NamesAssumption == Shared \notin Conns /\ None \notin Row \cup Table \cup Conns

VARIABLES
    boot,       \* where the constructor stands, with its configuration
    db,         \* the sql.DB: what the configuration made of it, and its closed flag
    open, free, \* the pool: connections that are open, and those nobody uses
    data,       \* what each database holds; None: it has no table
    call, res

vars == <<boot, db, open, free, data, call, res>>
pool == <<open, free, data>>

-----------------------------------------------------------------------------
(* Configuration.                                                          *)

\* What the constructors start from.
PostgresConfig == [named |-> FALSE, volatile |-> FALSE, wal |-> FALSE, journal |-> "",
                   extra |-> "", maxOpen |-> 0, maxIdle |-> 0]
SQLiteConfig(file) ==
    [PostgresConfig EXCEPT !.named = file # "", !.volatile = file = ":memory:", !.wal = TRUE]

\* The journal mode of the DSN: an extra parameter replaces what WALMode and
\* JournalMode ask for.
Journal(cfg) == IF cfg.extra # "" THEN cfg.extra
                ELSE IF cfg.wal THEN "WAL" ELSE cfg.journal

\* Mutant of PoolOf: MaxIdleConns is handed on unconditionally.
PoolUnguarded(cfg) == [maxOpen |-> IF cfg.maxOpen > 0 THEN cfg.maxOpen ELSE Cardinality(Conns),
                       maxIdle |-> cfg.maxIdle]

\* 0 leaves database/sql's defaults: no limit, and two idle connections.
PoolOf(cfg) == [maxOpen |-> IF cfg.maxOpen > 0 THEN cfg.maxOpen ELSE Cardinality(Conns),
                maxIdle |-> IF cfg.maxIdle > 0 THEN cfg.maxIdle ELSE 2]

DB(cfg) == [volatile |-> cfg.volatile, journal |-> Journal(cfg), maxOpen |-> PoolOf(cfg).maxOpen,
            maxIdle |-> PoolOf(cfg).maxIdle, closed |-> FALSE]

NoDB == [volatile |-> FALSE, journal |-> "", maxOpen |-> 1, maxIdle |-> 2, closed |-> TRUE]

-----------------------------------------------------------------------------
(* The pool.                                                               *)

Place(c) == IF db.volatile THEN c ELSE Shared
Waiting(p) == call[p].at = "conn"
Holds(p) == call[p].at \in {"exec", "scan"}

\* A connection is given back after its statement left the databases as d: to
\* the pool, if it works and there is room or somebody waits.
Release(p, works, d) ==
    LET c == call[p].conn
        kept == /\ works /\ ~db.closed
                /\ \/ Cardinality(free) < db.maxIdle
                   \/ \E q \in Procs : Waiting(q) /\ Cardinality(open) >= db.maxOpen
    IN /\ free' = IF kept THEN free \cup {c} ELSE free
       /\ open' = IF kept THEN open ELSE open \ {c}
       /\ data' = IF kept THEN d ELSE [d EXCEPT ![c] = None]

-----------------------------------------------------------------------------
(* The constructor.                                                        *)

Idle == [at |-> "idle"]
NoRows == [k \in Keys |-> None]
Closed == boot.at = "ready" /\ db.closed

\* The application constructs a storage, again if the last attempt failed or the
\* storage was closed and is no longer used.
NewStorage(file) ==
    /\ \/ boot.at \in {"none", "failed"}
       \/ Closed /\ open = {} /\ \A p \in Procs : call[p] = Idle
    /\ boot.driver = "postgres" => file = ""
    /\ boot' = [boot EXCEPT !.at = "options",
                            !.cfg = IF boot.driver = "postgres" THEN PostgresConfig
                                    ELSE SQLiteConfig(file)]
    /\ db' = NoDB
    /\ UNCHANGED <<pool, call, res>>

\* One iteration of the loop over opts.
ApplyOption(o) ==
    /\ boot.at = "options" /\ o.driver = boot.driver
    /\ boot' = [boot EXCEPT !.cfg = [@ EXCEPT ![o.field] = o.value]]
    /\ UNCHANGED <<db, pool, call, res>>

\* A database must be named: by filePath, by DBName or by a DSN. sql.Open does
\* not connect.
Open ==
    /\ boot.at = "options"
    /\ \/ /\ ~boot.cfg.named \/ "open" \in Faults
          /\ boot' = [boot EXCEPT !.at = "failed", !.cfg = PostgresConfig]
          /\ UNCHANGED db
       \/ /\ boot.cfg.named
          /\ boot' = [boot EXCEPT !.at = "ping", !.cfg = PostgresConfig]
          /\ db' = DB(boot.cfg)
    /\ UNCHANGED <<pool, call, res>>

\* Mutant of GiveUp: the sql.DB is not closed.
GiveUpOpen(d) ==
    /\ boot' = [boot EXCEPT !.at = "failed"]
    /\ data' = d
    /\ UNCHANGED <<db, open, free>>

\* The constructor fails and closes what it opened.
GiveUp(d) ==
    /\ boot' = [boot EXCEPT !.at = "failed"]
    /\ db' = [db EXCEPT !.closed = TRUE]
    /\ open' = {} /\ free' = {}
    /\ data' = [x \in DOMAIN d |-> IF x \in open THEN None ELSE d[x]]

Ping ==
    /\ boot.at = "ping"
    /\ \/ /\ \E c \in Conns : open' = {c} /\ free' = {c}
          /\ boot' = [boot EXCEPT !.at = "migrate"]
          /\ UNCHANGED <<db, data>>
       \/ "connect" \in Faults /\ GiveUp(data)
    /\ UNCHANGED <<call, res>>

Migrated(c) == [data EXCEPT ![Place(c)] = IF @ = None THEN [s \in Slot |-> None] ELSE @]

\* CREATE TABLE and CREATE INDEX, IF NOT EXISTS: the first may have been applied
\* when the whole fails.
Migrate ==
    /\ boot.at = "migrate"
    /\ \E c \in free :
          \/ /\ data' = Migrated(c)
             /\ boot' = [boot EXCEPT !.at = "ready"]
             /\ UNCHANGED <<db, open, free>>
          \/ "error" \in Faults /\ GiveUp(data)
          \/ "indefinite" \in Faults /\ GiveUp(Migrated(c))
    /\ UNCHANGED <<call, res>>

-----------------------------------------------------------------------------
(* Calls.                                                                  *)

Requests == [op : {"get", "delete"}, slot : Slot]
            \cup [op : {"set"}, slot : Slot, row : Row]
            \cup [op : {"getall"}, user : Users]
            \cup [op : {"bycategory"}, user : Users, cat : Categories]

RowMap == [Keys -> Stored \cup {None}]
Calls == {Idle}
         \cup [at : {"conn"}, req : Requests]
         \cup [at : {"exec"}, req : Requests, conn : Conns]
         \cup [at : {"scan"}, req : {r \in Requests : r.op \in {"getall", "bycategory"}},
               conn : Conns, rows : RowMap, todo : SUBSET Keys]
Result == [err : {"nil", "ErrNotFound", "error", "no such table"}, rows : RowMap]

NoResult == [err |-> "nil", rows |-> NoRows]
Proceed(p, c) == /\ call' = [call EXCEPT ![p] = c]
                 /\ res' = [res EXCEPT ![p] = NoResult]
Return(p, err, rows) ==
    /\ call' = [call EXCEPT ![p] = Idle]
    /\ res' = [res EXCEPT ![p] = [err |-> err, rows |-> rows]]
Fails(p) == Return(p, "error", NoRows)

\* A Set marshals its value; then every call asks the pool for a connection.
Begin(p, r) ==
    /\ boot.at = "ready" /\ call[p] = Idle
    /\ IF db.closed \/ (r.op = "set" /\ r.row.val \in Unencodable)
       THEN Return(p, "error", NoRows)
       ELSE Proceed(p, [at |-> "conn", req |-> r])
    /\ UNCHANGED <<boot, db, pool>>

\* It gets a free one, or a new one if there is none and the limit allows, or it
\* waits; it fails if the storage is closed.
Acquire(p) ==
    /\ Waiting(p)
    /\ LET Take(c) == Proceed(p, [at |-> "exec", req |-> call[p].req, conn |-> c]) IN
       \/ /\ ~db.closed
          /\ \E c \in free : free' = free \ {c} /\ Take(c)
          /\ UNCHANGED open
       \/ /\ ~db.closed /\ free = {} /\ Cardinality(open) < db.maxOpen
          /\ \/ \E c \in Conns \ open : open' = open \cup {c} /\ Take(c)
             \/ "connect" \in Faults /\ Fails(p) /\ UNCHANGED open
          /\ UNCHANGED free
       \/ db.closed /\ Fails(p) /\ UNCHANGED <<open, free>>
    /\ UNCHANGED <<boot, db, data>>

\* The caller's context ends while it waits.
StopWaiting(p) ==
    /\ Waiting(p) /\ "cancel" \in Faults
    /\ Fails(p)
    /\ UNCHANGED <<boot, db, pool>>

At(p) == data[Place(call[p].conn)]
Executes(p, op) == call[p].at = "exec" /\ call[p].req.op = op /\ At(p) # None

\* The statement fails and changes nothing; the connection may be broken.
ExecFails(p) ==
    /\ call[p].at = "exec"
    /\ \/ {"error", "cancel"} \cap Faults # {} /\ Fails(p)
       \/ At(p) = None /\ Return(p, "no such table", NoRows)
    /\ \E works \in BOOLEAN : Release(p, works, data)
    /\ UNCHANGED <<boot, db>>

\* QueryRow(...).Scan
Get(p) ==
    /\ Executes(p, "get")
    /\ LET s == call[p].req.slot
           row == At(p)[s]
       IN \/ row = None /\ Return(p, "ErrNotFound", NoRows)
          \/ row # None /\ Return(p, "nil", [NoRows EXCEPT ![s[2]] = row])
          \/ row # None /\ "row" \in Faults /\ Fails(p)
    /\ Release(p, TRUE, data)
    /\ UNCHANGED <<boot, db>>

\* The upsert: ON CONFLICT keeps the category.
Upserted(old, row) == IF old = None THEN row ELSE [old EXCEPT !.val = row.val]

\* A reader keeps writers of a SQLite database out unless the journal is a WAL.
LockedOut(p) ==
    /\ boot.driver = "sqlite" /\ ~db.volatile /\ db.journal # "WAL"
    /\ \E q \in Procs \ {p} : call[q].at = "scan"

\* A statement makes row of what is in its slot, and the caller learns of it or not.
Exec(p, row, err) ==
    LET written == [data EXCEPT ![Place(call[p].conn)][call[p].req.slot] = row] IN
    /\ \/ Return(p, err, NoRows) /\ Release(p, TRUE, written)
       \/ "indefinite" \in Faults /\ Fails(p) /\ Release(p, FALSE, written)
    /\ UNCHANGED <<boot, db>>

Set(p) ==
    /\ Executes(p, "set") /\ ~LockedOut(p)
    /\ LET r == call[p].req IN Exec(p, Upserted(At(p)[r.slot], r.row), "nil")

Affected(old) == IF old = None THEN "ErrNotFound" ELSE "nil"

Delete(p) ==
    /\ Executes(p, "delete") /\ ~LockedOut(p)
    /\ Exec(p, None, Affected(At(p)[call[p].req.slot]))

\* SQLITE_BUSY: the lock was not free before the busy timeout was over.
Busy(p) ==
    /\ Executes(p, "set") \/ Executes(p, "delete")
    /\ LockedOut(p)
    /\ Fails(p)
    /\ Release(p, TRUE, data)
    /\ UNCHANGED <<boot, db>>

\* A query's rows are those of this moment, and are read later.
Query(p, hits) ==
    LET r == call[p].req IN
    /\ Proceed(p, [at |-> "scan", req |-> r, conn |-> call[p].conn, todo |-> hits,
                   rows |-> [k \in Keys |-> IF k \in hits THEN At(p)[<<r.user, k>>] ELSE None]])
    /\ UNCHANGED <<boot, db, pool>>

KeysOf(p) == {k \in Keys : At(p)[<<call[p].req.user, k>>] # None}

GetAll(p) == Executes(p, "getall") /\ Query(p, KeysOf(p))

GetByCategory(p) ==
    /\ Executes(p, "bycategory")
    /\ LET r == call[p].req
       IN Query(p, {k \in KeysOf(p) : At(p)[<<r.user, k>>].cat = r.cat})

\* scanPreferences: one row more.
ScanRow(p, k) ==
    /\ call[p].at = "scan" /\ k \in call[p].todo
    /\ Proceed(p, [call[p] EXCEPT !.todo = @ \ {k}])
    /\ UNCHANGED <<boot, db, pool>>

\* The map built so far. scanPreferences returns it with an error too, and callers
\* look at the error first: a failed call has no rows here.
Scanned(p) == [k \in Keys |-> IF k \in call[p].todo THEN None ELSE call[p].rows[k]]

\* Mutant of ScanStops: the rows are left open.
ScanAbandoned(p) ==
    /\ call[p].at = "scan"
    /\ {"row", "stream", "cancel"} \cap Faults # {}
    /\ Fails(p)
    /\ UNCHANGED <<boot, db, pool>>

\* A row is bad, the context is done, or the connection broke, behind the last row
\* too (rows.Err). The deferred rows.Close gives the connection back.
ScanStops(p) ==
    /\ call[p].at = "scan"
    /\ \/ /\ ("row" \in Faults /\ call[p].todo # {}) \/ "cancel" \in Faults
          /\ Release(p, TRUE, data)
       \/ /\ {"stream", "cancel"} \cap Faults # {}
          /\ Release(p, FALSE, data)
    /\ Fails(p)
    /\ UNCHANGED <<boot, db>>

\* Mutant of ScanEnds: rows.Err is not asked.
ScanEndsUnasked(p) ==
    /\ call[p].at = "scan"
    /\ call[p].todo = {} \/ "stream" \in Faults
    /\ Return(p, "nil", Scanned(p))
    /\ Release(p, TRUE, data)
    /\ UNCHANGED <<boot, db>>

ScanEnds(p) ==
    /\ call[p].at = "scan" /\ call[p].todo = {}
    /\ Return(p, "nil", Scanned(p))
    /\ Release(p, TRUE, data)
    /\ UNCHANGED <<boot, db>>

\* A free connection reaches ConnMaxLifetime or ConnMaxIdleTime, or the server ends it.
Retire(c) ==
    /\ boot.driver = "postgres" /\ boot.at = "ready" /\ c \in free
    /\ free' = free \ {c} /\ open' = open \ {c}
    /\ UNCHANGED <<boot, db, data, call, res>>

\* db.Close closes the free connections, the others when they are given back.
Close(p) ==
    /\ boot.at = "ready" /\ call[p] = Idle
    /\ db' = [db EXCEPT !.closed = TRUE]
    /\ open' = open \ free /\ free' = {}
    /\ data' = [x \in DOMAIN data |-> IF x \in free THEN None ELSE data[x]]
    /\ Return(p, "nil", NoRows)
    /\ UNCHANGED boot

-----------------------------------------------------------------------------
\* A database that was never used, or one another process left a table in.
Init ==
    /\ boot \in [driver : Drivers, at : {"none"}, cfg : {PostgresConfig}]
    /\ db = NoDB
    /\ open = {} /\ free = {}
    /\ \E old \in {None, [s \in Slot |-> None]} :
          data = [x \in Conns \cup {Shared} |-> IF x = Shared THEN old ELSE None]
    /\ call = [p \in Procs |-> Idle]
    /\ res = [p \in Procs |-> NoResult]

Construct == Open \/ Ping \/ Migrate

Continue(p) ==
    \/ ExecFails(p) \/ Get(p) \/ Set(p) \/ Delete(p) \/ Busy(p)
    \/ GetAll(p) \/ GetByCategory(p)
    \/ \E k \in Keys : ScanRow(p, k)
    \/ ScanStops(p) \/ ScanEnds(p)

Next ==
    \/ \E file \in Files \cup {""} : NewStorage(file)
    \/ \E o \in Options : ApplyOption(o)
    \/ Construct
    \/ \E c \in Conns : Retire(c)
    \/ \E p \in Procs :
          \/ \E r \in Requests : Begin(p, r)
          \/ Acquire(p) \/ StopWaiting(p) \/ Continue(p) \/ Close(p)

Spec == Init /\ [][Next]_vars

\* The database answers, or a timeout does (the ping's, the busy timeout, the
\* driver's); of those that wait for a connection, database/sql picks one at
\* random when one is given back, so nobody waits while others are served forever.
\* Nobody's context has to end.
Fairness ==
    /\ WF_vars(Construct)
    /\ \A p \in Procs : WF_vars(Continue(p)) /\ SF_vars(Acquire(p))

FairSpec == Spec /\ Fairness

-----------------------------------------------------------------------------
(* Properties.                                                             *)

\* Every variable keeps its shape, and who is in a call has a connection of its own.
TypeOK ==
    /\ boot \in [driver : Drivers, cfg : Config,
                 at : {"none", "options", "ping", "migrate", "ready", "failed"}]
    /\ db \in [volatile : BOOLEAN, journal : {"", "WAL", "DELETE"}, maxOpen : Nat \ {0},
               maxIdle : Nat \ {0}, closed : BOOLEAN]
    /\ open \subseteq Conns /\ free \subseteq open
    /\ data \in [Conns \cup {Shared} -> Table \cup {None}]
    /\ call \in [Procs -> Calls]
    /\ res \in [Procs -> Result]

\* No connection leaks: every open connection is free or in use by exactly one
\* call, and there are never more than the configured limit. All ways out of
\* scanPreferences, and QueryRow's Scan, must give theirs back.
NothingLeaks ==
    /\ open = free \cup {call[p].conn : p \in {q \in Procs : Holds(q)}}
    /\ \A p \in Procs : Holds(p) =>
          /\ call[p].conn \notin free
          /\ \A q \in Procs \ {p} : Holds(q) => call[q].conn # call[p].conn
    /\ Cardinality(open) <= db.maxOpen

\* A constructor that returns an error leaves no connection open, whichever step
\* failed, and one that succeeds has made the table, whoever else uses the database.
ConstructorSound ==
    /\ boot.at = "failed" => db.closed /\ open = {}
    /\ boot.at = "ready" /\ ~db.volatile => data[Shared] # None

\* A goroutine that calls the storage gets its answer, even if the pool is as
\* small as one connection, others keep calling, rows go bad, other contexts end and
\* the storage is closed: it need not rely on a deadline of its own.
CallsReturn == \A p \in Procs : call[p].at # "idle" ~> call[p].at = "idle"

\* The storage is linearizable, GetAll and GetByCategory see one moment, a failed
\* call returns no rows as if they were all, a call begun after Close fails, and
\* closing and constructing again loses nothing.
RequestOf(c) ==
    CASE c.at = "idle" -> [op |-> "idle"]
      [] c.at = "scan" -> [op |-> "deliver", rows |-> c.rows]
      [] OTHER -> c.req

Service == INSTANCE StorageService WITH
    Medium <- "sql",
    content <- IF data[Shared] = None THEN [s \in Slot |-> None] ELSE data[Shared],
    usable <- boot.at = "ready" /\ ~db.closed,
    pend <- [p \in Procs |-> RequestOf(call[p])],
    reply <- [p \in Procs |-> [err |-> IF res[p].err = "no such table" THEN "error" ELSE res[p].err,
                               rows |-> res[p].rows]]

ImplementsStorage == Service!Spec

\* NewSQLiteStorage promises ":memory:" as "a volatile in-memory database, useful for
\* testing or temporary storage" (sqlite.go:156), and that it "Applies database schema
\* migrations" (sqlite.go:166): no call on the storage it returns misses the table.
SchemaInPlace == \A p \in Procs : res[p].err # "no such table"
=============================================================================
