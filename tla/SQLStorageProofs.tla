--------------------------- MODULE SQLStorageProofs ---------------------------
(***************************************************************************)
(* SQLiteStorage and PostgresStorage, for any users, keys, goroutines,     *)
(* pool limits, options and faults: they keep their types, leak no         *)
(* connection, and are constructed whole or not at all.                    *)
(***************************************************************************)
EXTENDS SQLStorage, FiniteSetTheorems, TLAPS

\* A value on its way to the database is one that Set could marshal.
Encoded(c) == c.at \in {"conn", "exec"} /\ c.req.op = "set" => c.req.row.val \notin Unencodable

\* Only a storage that is ready has callers, and only one that is ready or being migrated
\* has connections.
Constructing ==
    /\ boot.at \in {"none", "options", "failed"} => db.closed
    /\ boot.at \in {"none", "options", "ping", "failed"} => open = {}
    /\ boot.at # "ready" => \A p \in Procs : call[p] = Idle
    /\ \A p \in Procs : Encoded(call[p])

IInv == TypeOK /\ Constructing /\ NothingLeaks /\ ConstructorSound

\* The variables' types, one by one.
BootType == [driver : Drivers, cfg : Config,
             at : {"none", "options", "ping", "migrate", "ready", "failed"}]
DBType == [volatile : BOOLEAN, journal : {"", "WAL", "DELETE"}, maxOpen : Nat \ {0},
           maxIdle : Nat \ {0}, closed : BOOLEAN]
DataType == [Conns \cup {Shared} -> Table \cup {None}]

-----------------------------------------------------------------------------
(* Configuration.                                                          *)

LEMMA ConfigType ==
  /\ PostgresConfig \in Config
  /\ \A file \in Files : SQLiteConfig(file) \in Config
  /\ SQLiteConfig("") \in Config
  BY DEF PostgresConfig, SQLiteConfig, Config

\* An option of the application keeps the configuration one.
LEMMA OptionType ==
  ASSUME NEW cfg \in Config, NEW o \in Options
  PROVE  [cfg EXCEPT ![o.field] = o.value] \in Config
<1>1. CASE o.field = "wal" /\ o.value \in BOOLEAN
  BY <1>1 DEF Config
<1>2. CASE o.field = "journal" /\ o.value \in {"WAL", "DELETE"}
  BY <1>2 DEF Config
<1>3. CASE o.field = "extra" /\ o.value \in {"WAL", "DELETE"}
  BY <1>3 DEF Config
<1>4. CASE o.field = "named" /\ o.value \in BOOLEAN
  BY <1>4 DEF Config
<1>5. CASE o.field = "maxOpen" /\ o.value \in Nat
  BY <1>5 DEF Config
<1>6. CASE o.field = "maxIdle" /\ o.value \in Nat
  BY <1>6 DEF Config
<1>. QED  BY <1>1, <1>2, <1>3, <1>4, <1>5, <1>6, OptionAssumption
          DEF SQLiteOption, PostgresOption

\* There is at least one connection, and a set of connections can be counted.
LEMMA Countable ==
  /\ Cardinality(Conns) \in Nat \ {0}
  /\ \A S \in SUBSET Conns : IsFiniteSet(S) /\ Cardinality(S) \in Nat
<1>1. Cardinality(Conns) \in Nat /\ Cardinality(Conns) # 0
  BY PoolAssumption, FS_CardinalityType, FS_EmptySet
<1>2. \A S \in SUBSET Conns : IsFiniteSet(S)
  BY PoolAssumption, FS_Subset
<1>. QED  BY <1>1, <1>2, FS_CardinalityType

\* database/sql gets limits that are at least one.
LEMMA DBIs ==
  ASSUME NEW cfg \in Config
  PROVE  DB(cfg) \in DBType /\ NoDB \in DBType
<1>1. Journal(cfg) \in {"", "WAL", "DELETE"}
  BY DEF Journal, Config
<1>2. PoolOf(cfg).maxOpen \in Nat \ {0} /\ PoolOf(cfg).maxIdle \in Nat \ {0}
  <2>1. cfg.maxOpen \in Nat /\ cfg.maxIdle \in Nat
    BY DEF Config
  <2>2. (IF cfg.maxOpen > 0 THEN cfg.maxOpen ELSE Cardinality(Conns)) \in Nat \ {0}
    BY <2>1, Countable
  <2>3. (IF cfg.maxIdle > 0 THEN cfg.maxIdle ELSE 2) \in Nat \ {0}
    BY <2>1
  <2>. QED  BY <2>2, <2>3 DEF PoolOf
<1>3. cfg.volatile \in BOOLEAN
  BY DEF Config
<1>4. DB(cfg) \in DBType
  BY <1>1, <1>2, <1>3 DEF DB, DBType
<1>5. NoDB \in DBType
  BY DEF NoDB, DBType
<1>. QED  BY <1>4, <1>5

-----------------------------------------------------------------------------
(* The constructor.                                                        *)

\* While nobody has connections, nobody can lose them.
LEMMA NobodyLeaks ==
  ASSUME \A p \in Procs : call'[p] = Idle, open' = free', open' = {} \/ \E c \in Conns : open' = {c},
         db' \in DBType
  PROVE  NothingLeaks'
<1>1. \A p \in Procs : ~Holds(p)'
  BY DEF Holds, Idle
<1>2. Cardinality(open') \in {0, 1} /\ db'.maxOpen \in Nat \ {0}
  BY FS_EmptySet, FS_Singleton DEF DBType
<1>3. {q \in Procs : Holds(q)}' = {}
  BY <1>1
<1>4. (open = free \cup {call[p].conn : p \in {q \in Procs : Holds(q)}})'
  BY <1>3
<1>5. Cardinality(open') <= db'.maxOpen
  BY <1>2
<1>. HIDE DEF Holds
<1>. QED  BY <1>1, <1>4, <1>5 DEF NothingLeaks

\* A constructor that gives up closes its connections.
LEMMA GiveUpInv ==
  ASSUME IInv, boot.at \in {"ping", "migrate"}, NEW d \in DataType, GiveUp(d), UNCHANGED <<call, res>>
  PROVE  IInv'
<1>1. /\ boot' = [boot EXCEPT !.at = "failed"] /\ db' = [db EXCEPT !.closed = TRUE]
      /\ open' = {} /\ free' = {}
  BY DEF GiveUp
<1>2. boot' \in BootType /\ boot'.at = "failed"
  BY <1>1 DEF IInv, TypeOK, BootType
<1>3. db' \in DBType /\ db'.closed
  BY <1>1 DEF IInv, TypeOK, DBType
<1>4. data' \in DataType
  <2>1. data' = [x \in DOMAIN d |-> IF x \in open THEN None ELSE d[x]]
    BY DEF GiveUp
  <2>. QED  BY <2>1 DEF DataType
<1>5. TypeOK'
  BY <1>1, <1>2, <1>3, <1>4 DEF IInv, TypeOK, BootType, DBType, DataType
<1>6. \A p \in Procs : call'[p] = Idle
  BY DEF IInv, Constructing
<1>7. NothingLeaks'
  BY <1>1, <1>3, <1>6, NobodyLeaks
<1>. QED  BY <1>1, <1>2, <1>3, <1>5, <1>6, <1>7 DEF IInv, Constructing, ConstructorSound

LEMMA NewStorageInv ==
  ASSUME IInv, NEW file \in Files \cup {""}, NewStorage(file)
  PROVE  IInv'
<1>1. /\ boot' = [boot EXCEPT !.at = "options",
                              !.cfg = IF boot.driver = "postgres" THEN PostgresConfig
                                      ELSE SQLiteConfig(file)]
      /\ db' = NoDB /\ UNCHANGED <<open, free, data, call, res>>
  BY DEF NewStorage, pool
<1>2. open = {} /\ free = {} /\ \A p \in Procs : call[p] = Idle
  BY DEF NewStorage, Closed, IInv, TypeOK, Constructing
<1>3. boot' \in BootType /\ boot'.at = "options"
  BY <1>1, ConfigType DEF IInv, TypeOK, BootType
<1>4. db' \in DBType /\ db'.closed
  BY <1>1, ConfigType, DBIs DEF NoDB
<1>5. TypeOK'
  BY <1>1, <1>3, <1>4 DEF IInv, TypeOK, BootType, DBType
<1>6. NothingLeaks'
  BY <1>1, <1>2, <1>4, NobodyLeaks
<1>. QED  BY <1>1, <1>2, <1>3, <1>4, <1>5, <1>6 DEF IInv, Constructing, ConstructorSound

LEMMA OptionsInv ==
  ASSUME IInv, (\E o \in Options : ApplyOption(o)) \/ Open
  PROVE  IInv'
<1>1. /\ boot.at = "options" /\ UNCHANGED <<open, free, data, call, res>>
      /\ boot \in BootType /\ db \in DBType /\ db.closed
  BY DEF ApplyOption, Open, pool, IInv, TypeOK, BootType, DBType, Constructing
<1>2. open = {} /\ free = {} /\ \A p \in Procs : call[p] = Idle
  BY <1>1 DEF IInv, TypeOK, Constructing
<1>3. /\ boot' \in BootType /\ db' \in DBType
      /\ boot'.at \in {"options", "failed", "ping"} /\ (boot'.at # "ping" => db'.closed)
  <2>1. ASSUME NEW o \in Options, ApplyOption(o)
        PROVE  boot' \in BootType /\ boot'.at = "options" /\ db' = db
    <3>1. boot' = [boot EXCEPT !.cfg = [@ EXCEPT ![o.field] = o.value]]
      BY <2>1 DEF ApplyOption
    <3>2. boot.cfg \in Config
      BY <1>1 DEF BootType
    <3>3. [boot.cfg EXCEPT ![o.field] = o.value] \in Config
      BY <3>2, OptionType
    <3>. QED  BY <1>1, <2>1, <3>1, <3>3 DEF BootType, ApplyOption
  <2>2. CASE boot' = [boot EXCEPT !.at = "failed", !.cfg = PostgresConfig] /\ UNCHANGED db
    BY <1>1, <2>2, ConfigType DEF BootType
  <2>3. CASE boot' = [boot EXCEPT !.at = "ping", !.cfg = PostgresConfig] /\ db' = DB(boot.cfg)
    <3>1. boot' \in BootType /\ boot'.at = "ping"
      BY <1>1, <2>3, ConfigType DEF BootType
    <3>2. boot.cfg \in Config
      BY <1>1 DEF BootType
    <3>. QED  BY <2>3, <3>1, <3>2, DBIs
  <2>. QED  BY <1>1, <2>1, <2>2, <2>3 DEF Open
<1>4. TypeOK'
  BY <1>1, <1>3 DEF IInv, TypeOK, BootType, DBType
<1>5. NothingLeaks'
  BY <1>1, <1>2, <1>3, NobodyLeaks
<1>. QED  BY <1>1, <1>2, <1>3, <1>4, <1>5 DEF IInv, Constructing, ConstructorSound

LEMMA PingInv ==
  ASSUME IInv, Ping
  PROVE  IInv'
<1>0. boot.at = "ping" /\ UNCHANGED <<call, res>> /\ boot \in BootType /\ data \in DataType
  BY DEF Ping, IInv, TypeOK, BootType, DataType
<1>1. CASE GiveUp(data)
  BY <1>0, <1>1, GiveUpInv
<1>2. CASE /\ \E c \in Conns : open' = {c} /\ free' = {c}
           /\ boot' = [boot EXCEPT !.at = "migrate"]
           /\ UNCHANGED <<db, data>>
  <2>1. boot' \in BootType /\ boot'.at = "migrate"
    BY <1>0, <1>2 DEF BootType
  <2>2. TypeOK'
    BY <1>0, <1>2, <2>1 DEF IInv, TypeOK, BootType
  <2>3. NothingLeaks'
    BY <1>0, <1>2, NobodyLeaks DEF IInv, TypeOK, Constructing, DBType
  <2>. QED  BY <1>0, <1>2, <2>1, <2>2, <2>3 DEF IInv, Constructing, ConstructorSound
<1>. QED  BY <1>1, <1>2 DEF Ping

\* Where a connection's statements work, and what a migration leaves there.
LEMMA MigratedType ==
  ASSUME data \in DataType, NEW c \in Conns
  PROVE  /\ Place(c) \in Conns \cup {Shared}
         /\ Migrated(c) \in DataType /\ Migrated(c)[Place(c)] # None
         /\ \A x \in (Conns \cup {Shared}) \ {Place(c)} : Migrated(c)[x] = data[x]
<1>1. Place(c) \in Conns \cup {Shared}
  BY DEF Place
<1>2. [s \in Slot |-> None] \in Table /\ None \notin Table
  BY NamesAssumption DEF Table
<1>. HIDE DEF Place
<1>. QED  BY <1>1, <1>2 DEF Migrated, DataType

LEMMA MigrateInv ==
  ASSUME IInv, Migrate
  PROVE  IInv'
<1>0. /\ boot.at = "migrate" /\ UNCHANGED <<call, res>> /\ boot \in BootType /\ data \in DataType
      /\ free \subseteq Conns
  BY DEF Migrate, IInv, TypeOK, BootType, DataType
<1>1. PICK c \in free :
          \/ /\ data' = Migrated(c)
             /\ boot' = [boot EXCEPT !.at = "ready"]
             /\ UNCHANGED <<db, open, free>>
          \/ "error" \in Faults /\ GiveUp(data)
          \/ "indefinite" \in Faults /\ GiveUp(Migrated(c))
  BY DEF Migrate
<1>2. /\ Place(c) \in Conns \cup {Shared}
      /\ Migrated(c) \in DataType /\ Migrated(c)[Place(c)] # None
  BY <1>0, MigratedType
<1>3. CASE GiveUp(data)
  BY <1>0, <1>3, GiveUpInv
<1>4. CASE GiveUp(Migrated(c))
  BY <1>0, <1>2, <1>4, GiveUpInv
<1>5. CASE /\ data' = Migrated(c)
           /\ boot' = [boot EXCEPT !.at = "ready"]
           /\ UNCHANGED <<db, open, free>>
  <2>1. boot' \in BootType /\ boot'.at = "ready"
    BY <1>0, <1>5 DEF BootType
  <2>2. TypeOK'
    BY <1>0, <1>2, <1>5, <2>1 DEF IInv, TypeOK, BootType, DataType
  <2>3. NothingLeaks'
    BY <1>0, <1>5 DEF IInv, NothingLeaks, Holds
  <2>4. ~db'.volatile => data'[Shared] # None
    BY <1>2, <1>5 DEF Place
  <2>. QED  BY <1>0, <1>5, <2>1, <2>2, <2>3, <2>4 DEF IInv, Constructing, ConstructorSound
<1>. QED  BY <1>1, <1>3, <1>4, <1>5

-----------------------------------------------------------------------------
(* Calls and connections.                                                  *)

\* Each kind of call carries its parts.
LEMMA CallFields ==
  ASSUME NEW c \in Calls
  PROVE  /\ c.at \in {"idle", "conn", "exec", "scan"}
         /\ c.at = "idle" => c = Idle
         /\ c.at # "idle" => c.req \in Requests
         /\ c.at \in {"exec", "scan"} => c.conn \in Conns
         /\ c.at = "scan" => c.rows \in RowMap /\ c.todo \in SUBSET Keys
  BY DEF Calls, Idle

LEMMA IdleEncoded == Encoded(Idle)
  BY DEF Encoded, Idle

LEMMA RequestFields ==
  ASSUME NEW r \in Requests
  PROVE  /\ r.op \in {"get", "set", "delete"} => r.slot \in Slot
         /\ r.op = "set" => r.row \in Row
         /\ r.op \in {"getall", "bycategory"} => r.user \in Users
         /\ r.op = "bycategory" => r.cat \in Categories
  BY DEF Requests

LEMMA NoRowsType == NoRows \in RowMap
  BY DEF NoRows, RowMap

\* A call that goes on, or returns.
LEMMA ProceedType ==
  ASSUME TypeOK, NEW p \in Procs, NEW c \in Calls, Proceed(p, c)
  PROVE  /\ call' \in [Procs -> Calls] /\ res' \in [Procs -> Result]
         /\ call'[p] = c /\ \A q \in Procs \ {p} : call'[q] = call[q]
  BY NoRowsType DEF TypeOK, Proceed, NoResult, Result

LEMMA ReturnType ==
  ASSUME TypeOK, NEW p \in Procs, NEW err \in {"nil", "ErrNotFound", "error", "no such table"},
         NEW rows \in RowMap, Return(p, err, rows)
  PROVE  /\ call' \in [Procs -> Calls] /\ res' \in [Procs -> Result]
         /\ call'[p] = Idle /\ \A q \in Procs \ {p} : call'[q] = call[q]
<1>1. Idle \in Calls /\ [err |-> err, rows |-> rows] \in Result
  BY DEF Calls, Result
<1>. QED  BY <1>1 DEF TypeOK, Return

\* Whoever has a caller, the constructor is done.
LEMMA Ready ==
  ASSUME IInv, NEW p \in Procs, call[p] # Idle
  PROVE  boot.at = "ready"
  BY DEF IInv, TypeOK, Constructing

\* A call that ends gives its connection back, and nobody else's.
LEMMA ReleaseInv ==
  ASSUME IInv, NEW p \in Procs, Holds(p), NEW works \in BOOLEAN, NEW d \in DataType,
         data[Shared] # None => d[Shared] # None, Release(p, works, d),
         call' \in [Procs -> Calls], res' \in [Procs -> Result], call'[p] = Idle,
         \A q \in Procs \ {p} : call'[q] = call[q], UNCHANGED <<boot, db>>
  PROVE  IInv'
<1>. DEFINE c == call[p].conn
<1>1. boot.at = "ready" /\ c \in Conns
  <2>1. call[p] \in Calls
    BY DEF IInv, TypeOK
  <2>2. call[p].at \in {"exec", "scan"}
    BY DEF Holds
  <2>3. call[p] # Idle
    BY <2>2 DEF Idle
  <2>. QED  BY <2>1, <2>2, <2>3, Ready, CallFields
<1>2. /\ open' = open /\ free' = free \cup {c} /\ data' = d
      \/ /\ open' = open \ {c} /\ free' = free /\ data' = [d EXCEPT ![c] = None]
  BY DEF Release
<1>3. data' \in DataType /\ (data[Shared] # None => data'[Shared] # None)
  BY <1>1, <1>2, NamesAssumption DEF DataType
<1>4. /\ open = free \cup {call[q].conn : q \in {x \in Procs : Holds(x)}}
      /\ \A q \in Procs : Holds(q) =>
            /\ call[q].conn \notin free
            /\ \A x \in Procs \ {q} : Holds(x) => call[x].conn # call[q].conn
  BY DEF IInv, NothingLeaks
<1>5. \A q \in Procs : Holds(q)' <=> Holds(q) /\ q # p
  BY DEF Holds, Idle
<1>6. {x \in Procs : Holds(x)}' = {x \in Procs : Holds(x)} \ {p}
  BY <1>5
<1>7. {call[q].conn : q \in {x \in Procs : Holds(x)}}' =
         {call[q].conn : q \in {x \in Procs : Holds(x)} \ {p}}
  BY <1>6
<1>8. {call[q].conn : q \in {x \in Procs : Holds(x)}} =
         {call[q].conn : q \in {x \in Procs : Holds(x)} \ {p}} \cup {c}
  OBVIOUS
<1>9. c \notin {call[q].conn : q \in {x \in Procs : Holds(x)} \ {p}} /\ c \in open
  BY <1>4, <1>8
<1>10. (open = free \cup {call[q].conn : q \in {x \in Procs : Holds(x)}})'
  BY <1>2, <1>4, <1>7, <1>8, <1>9
<1>11. \A q \in Procs : Holds(q)' =>
          /\ call'[q].conn \notin free'
          /\ \A x \in Procs \ {q} : Holds(x)' => call'[x].conn # call'[q].conn
  BY <1>2, <1>4, <1>5
<1>12. open' \subseteq open /\ free' \subseteq open'
  BY <1>2, <1>9, <1>10
<1>13. Cardinality(open') <= db'.maxOpen
  <2>1. open \in SUBSET Conns /\ open' \in SUBSET open
    BY <1>12 DEF IInv, TypeOK
  <2>2. IsFiniteSet(open) /\ Cardinality(open) \in Nat /\ Cardinality(open') \in Nat
    BY <2>1, Countable
  <2>3. Cardinality(open') <= Cardinality(open)
    BY <2>1, <2>2, FS_Subset
  <2>4. Cardinality(open) <= db.maxOpen /\ db.maxOpen \in Nat
    BY DEF IInv, NothingLeaks, TypeOK
  <2>. QED  BY <2>2, <2>3, <2>4
<1>14. NothingLeaks'
  <2>. HIDE DEF c
  <2>. QED  BY <1>10, <1>11, <1>13 DEF NothingLeaks
<1>15. TypeOK'
  BY <1>3, <1>12 DEF IInv, TypeOK, DataType
<1>. HIDE DEF Holds
<1>. QED  BY <1>1, <1>3, <1>14, <1>15, IdleEncoded DEF IInv, Constructing, ConstructorSound

\* A call that keeps the connection it has, or has none before and after.
LEMMA KeepInv ==
  ASSUME IInv, NEW p \in Procs, boot.at = "ready",
         call' \in [Procs -> Calls], res' \in [Procs -> Result],
         \A q \in Procs \ {p} : call'[q] = call[q], Encoded(call'[p]),
         Holds(p)' <=> Holds(p), Holds(p) => call'[p].conn = call[p].conn,
         UNCHANGED <<boot, db, open, free, data>>
  PROVE  IInv'
<1>1. \A q \in Procs : (Holds(q)' <=> Holds(q)) /\ (Holds(q) => call'[q].conn = call[q].conn)
  BY DEF Holds
<1>2. {call[q].conn : q \in {x \in Procs : Holds(x)}}' =
         {call[q].conn : q \in {x \in Procs : Holds(x)}}
  <2>1. {x \in Procs : Holds(x)}' = {x \in Procs : Holds(x)}
    BY <1>1
  <2>. HIDE DEF Holds
  <2>. QED  BY <1>1, <2>1
<1>3. NothingLeaks'
  <2>. HIDE DEF Holds
  <2>. QED  BY <1>1, <1>2 DEF IInv, NothingLeaks
<1>4. TypeOK'
  BY DEF IInv, TypeOK
<1>. QED  BY <1>3, <1>4 DEF IInv, Constructing, ConstructorSound

-----------------------------------------------------------------------------
(* The inductive invariant, by operation.                                  *)

LEMMA BeginInv ==
  ASSUME IInv, NEW p \in Procs, NEW r \in Requests, Begin(p, r)
  PROVE  IInv'
<1>1. /\ boot.at = "ready" /\ call[p] = Idle /\ UNCHANGED <<boot, db, open, free, data>>
  BY DEF Begin, pool
<1>2. [at |-> "conn", req |-> r] \in Calls
  BY DEF Calls
<1>3. /\ call' \in [Procs -> Calls] /\ res' \in [Procs -> Result]
      /\ call'[p] \in {Idle, [at |-> "conn", req |-> r]}
      /\ \A q \in Procs \ {p} : call'[q] = call[q]
  <2>1. CASE Return(p, "error", NoRows)
    BY <2>1, NoRowsType, ReturnType DEF IInv
  <2>2. CASE Proceed(p, [at |-> "conn", req |-> r])
    BY <1>2, <2>2, ProceedType DEF IInv
  <2>. QED  BY <2>1, <2>2 DEF Begin
<1>4. ~Holds(p) /\ ~Holds(p)'
  BY <1>1, <1>3 DEF Holds, Idle
<1>5. Encoded(call'[p])
  <2>1. CASE r.op = "set" /\ r.row.val \in Unencodable
    BY <2>1, IdleEncoded DEF Begin, Return, IInv, TypeOK
  <2>2. CASE ~(r.op = "set" /\ r.row.val \in Unencodable)
    BY <1>3, <2>2, IdleEncoded DEF Encoded
  <2>. QED  BY <2>1, <2>2
<1>. HIDE DEF Holds
<1>. QED  BY <1>1, <1>3, <1>4, <1>5, KeepInv

\* Waiting ends with a connection that nobody else has, or without one.
LEMMA AcquireInv ==
  ASSUME IInv, NEW p \in Procs, Acquire(p) \/ StopWaiting(p)
  PROVE  IInv'
<1>0. /\ call[p] \in Calls /\ call[p].at = "conn" /\ call[p].req \in Requests
      /\ UNCHANGED <<boot, db, data>> /\ ~Holds(p)
  <2>1. call[p] \in Calls /\ call[p].at = "conn" /\ UNCHANGED <<boot, db, data>>
    BY DEF Acquire, StopWaiting, Waiting, pool, IInv, TypeOK
  <2>. QED  BY <2>1, CallFields DEF Holds
<1>1. boot.at = "ready"
  BY <1>0, Ready DEF Idle
<1>2. CASE Fails(p) /\ UNCHANGED <<open, free>>
  <2>1. /\ call' \in [Procs -> Calls] /\ res' \in [Procs -> Result]
        /\ call'[p] = Idle /\ \A q \in Procs \ {p} : call'[q] = call[q]
    BY <1>2, NoRowsType, ReturnType DEF Fails, IInv
  <2>2. ~Holds(p)'
    BY <2>1 DEF Holds, Idle
  <2>. QED  BY <1>0, <1>1, <1>2, <2>1, <2>2, IdleEncoded, KeepInv
<1>3. ASSUME NEW c \in Conns, c \in free \/ c \notin open, free' = free \ {c}, open' = open \cup {c},
             Cardinality(open') <= db.maxOpen,
             Proceed(p, [at |-> "exec", req |-> call[p].req, conn |-> c])
      PROVE  IInv'
  <2>1. [at |-> "exec", req |-> call[p].req, conn |-> c] \in Calls
    BY <1>0 DEF Calls
  <2>2. /\ call' \in [Procs -> Calls] /\ res' \in [Procs -> Result]
        /\ call'[p].at = "exec" /\ call'[p].conn = c
        /\ \A q \in Procs \ {p} : call'[q] = call[q]
    BY <1>3, <2>1, ProceedType DEF IInv
  <2>3. /\ open = free \cup {call[q].conn : q \in {x \in Procs : Holds(x)}}
        /\ \A q \in Procs : Holds(q) =>
              /\ call[q].conn \notin free
              /\ \A x \in Procs \ {q} : Holds(x) => call[x].conn # call[q].conn
    BY DEF IInv, NothingLeaks
  <2>4. \A q \in Procs : (Holds(q)' <=> Holds(q) \/ q = p)
    BY <2>2 DEF Holds
  <2>5. \A q \in Procs : Holds(q) => call[q].conn \in open /\ call[q].conn # c /\ q # p
    BY <1>0, <1>3, <2>3
  <2>. HIDE DEF Holds
  <2>6. {x \in Procs : Holds(x)}' = {x \in Procs : Holds(x)} \cup {p}
    BY <2>4
  <2>7. {call[q].conn : q \in {x \in Procs : Holds(x)}}' =
           {call[q].conn : q \in {x \in Procs : Holds(x)}} \cup {c}
    BY <2>2, <2>5, <2>6
  <2>8. (open = free \cup {call[q].conn : q \in {x \in Procs : Holds(x)}})'
    BY <1>3, <2>3, <2>5, <2>7
  <2>9. \A q \in Procs : Holds(q)' =>
           /\ call'[q].conn \notin free'
           /\ \A x \in Procs \ {q} : Holds(x)' => call'[x].conn # call'[q].conn
    BY <1>3, <2>2, <2>3, <2>4, <2>5
  <2>10. NothingLeaks'
    BY <1>0, <1>3, <2>8, <2>9 DEF NothingLeaks
  <2>11. TypeOK'
    BY <1>0, <1>3, <2>2 DEF IInv, TypeOK
  <2>12. \A q \in Procs : Encoded(call'[q])
    <3>1. Encoded(call[p]) /\ call'[p].req = call[p].req
      BY <1>3, <2>1, ProceedType DEF IInv, Constructing
    <3>2. Encoded(call'[p])
      BY <1>0, <2>2, <3>1 DEF Encoded
    <3>. QED  BY <2>2, <3>2 DEF IInv, Constructing
  <2>. QED  BY <1>0, <1>1, <2>10, <2>11, <2>12 DEF IInv, Constructing, ConstructorSound
<1>4. ASSUME NEW c \in free, free' = free \ {c}, UNCHANGED open,
             Proceed(p, [at |-> "exec", req |-> call[p].req, conn |-> c])
      PROVE  IInv'
  <2>1. c \in Conns /\ open' = open \cup {c}
    BY <1>4 DEF IInv, TypeOK
  <2>2. Cardinality(open') <= db.maxOpen
    BY <1>4 DEF IInv, NothingLeaks
  <2>. QED  BY <1>3, <1>4, <2>1, <2>2
<1>5. ASSUME NEW c \in Conns \ open, open' = open \cup {c}, free = {}, UNCHANGED free,
             Cardinality(open) < db.maxOpen,
             Proceed(p, [at |-> "exec", req |-> call[p].req, conn |-> c])
      PROVE  IInv'
  <2>1. IsFiniteSet(open) /\ Cardinality(open) \in Nat /\ db.maxOpen \in Nat
    BY Countable DEF IInv, TypeOK
  <2>2. Cardinality(open') = Cardinality(open) + 1
    BY <1>5, <2>1, FS_AddElement
  <2>3. Cardinality(open') <= db.maxOpen /\ free' = free \ {c}
    BY <1>5, <2>1, <2>2
  <2>. QED  BY <1>3, <1>5, <2>3
<1>6. CASE Acquire(p)
  BY <1>2, <1>4, <1>5, <1>6 DEF Acquire
<1>7. CASE StopWaiting(p)
  BY <1>2, <1>7 DEF StopWaiting, pool
<1>. QED  BY <1>6, <1>7

\* A call with a statement on its connection.
LEMMA ExecFields ==
  ASSUME IInv, NEW p \in Procs, call[p].at = "exec"
  PROVE  /\ call[p].req \in Requests /\ call[p].conn \in Conns /\ Holds(p)
         /\ boot.at = "ready"
         /\ At(p) \in Table \cup {None}
<1>1. call[p] \in Calls
  BY DEF IInv, TypeOK
<1>2. call[p].req \in Requests /\ call[p].conn \in Conns /\ call[p] # Idle
  BY <1>1, CallFields DEF Idle
<1>3. data[Place(call[p].conn)] \in Table \cup {None}
  BY <1>2 DEF IInv, TypeOK, Place
<1>. QED  BY <1>2, <1>3, Ready DEF Holds, At

\* A call that returns and gives its connection back with the data unchanged.
LEMMA EndInv ==
  ASSUME IInv, NEW p \in Procs, Holds(p), NEW works \in BOOLEAN, Release(p, works, data),
         NEW err \in {"nil", "ErrNotFound", "error", "no such table"}, NEW rows \in RowMap,
         Return(p, err, rows), UNCHANGED <<boot, db>>
  PROVE  IInv'
<1>1. data \in DataType
  BY DEF IInv, TypeOK, DataType
<1>. HIDE DEF Holds
<1>. QED  BY <1>1, ReturnType, ReleaseInv DEF IInv

LEMMA ExecFailsInv ==
  ASSUME IInv, NEW p \in Procs, ExecFails(p) \/ Busy(p)
  PROVE  IInv'
<1>1. call[p].at = "exec" /\ UNCHANGED <<boot, db>>
  BY DEF ExecFails, Busy, Executes
<1>2. PICK works \in BOOLEAN : Release(p, works, data)
  BY DEF ExecFails, Busy
<1>3. Return(p, "error", NoRows) \/ Return(p, "no such table", NoRows)
  BY DEF ExecFails, Busy, Fails
<1>. QED  BY <1>1, <1>2, <1>3, ExecFields, NoRowsType, EndInv

LEMMA GetInv ==
  ASSUME IInv, NEW p \in Procs, Get(p)
  PROVE  IInv'
<1>. DEFINE s == call[p].req.slot
            row == At(p)[s]
<1>1. call[p].at = "exec" /\ At(p) # None /\ UNCHANGED <<boot, db>> /\ Release(p, TRUE, data)
      /\ call[p].req.op = "get"
  BY DEF Get, Executes
<1>2. s \in Slot /\ At(p) \in Table /\ Holds(p)
  BY <1>1, ExecFields, RequestFields
<1>3. row \in Stored \cup {None} /\ s[2] \in Keys
  BY <1>2 DEF Table, Slot
<1>4. [NoRows EXCEPT ![s[2]] = row] \in RowMap
  BY <1>3 DEF NoRows, RowMap
<1>5. \/ Return(p, "ErrNotFound", NoRows)
      \/ Return(p, "nil", [NoRows EXCEPT ![s[2]] = row])
      \/ Return(p, "error", NoRows)
  BY DEF Get, Fails
<1>. HIDE DEF s, row, Holds
<1>. QED  BY <1>1, <1>2, <1>4, <1>5, NoRowsType, EndInv

\* A statement that writes a row.
LEMMA WriteInv ==
  ASSUME IInv, NEW p \in Procs, call[p].at = "exec", At(p) # None, call[p].req.op \in {"set", "delete"},
         NEW row \in Stored \cup {None}, NEW err \in {"nil", "ErrNotFound"}, Exec(p, row, err)
  PROVE  IInv'
<1>. DEFINE c == call[p].conn
            s == call[p].req.slot
            written == [data EXCEPT ![Place(c)][s] = row]
<1>1. /\ c \in Conns /\ s \in Slot /\ Holds(p) /\ At(p) \in Table
      /\ Place(c) \in Conns \cup {Shared} /\ data \in DataType
  <2>1. s \in Slot
    BY ExecFields, RequestFields
  <2>. QED  BY <2>1, ExecFields DEF Place, IInv, TypeOK, DataType
<1>2. [At(p) EXCEPT ![s] = row] \in Table
  BY <1>1 DEF Table
<1>3. written = [data EXCEPT ![Place(c)] = [At(p) EXCEPT ![s] = row]]
  BY <1>1 DEF At, DataType
<1>. HIDE DEF written, c, s, Place, Holds, At
<1>4. written \in DataType /\ (data[Shared] # None => written[Shared] # None)
  <2>1. [At(p) EXCEPT ![s] = row] # None
    BY <1>2, NamesAssumption
  <2>. QED  BY <1>1, <1>2, <1>3, <2>1 DEF DataType
<1>5. UNCHANGED <<boot, db>>
  BY DEF Exec
<1>6. \/ Return(p, err, NoRows) /\ Release(p, TRUE, written)
      \/ Return(p, "error", NoRows) /\ Release(p, FALSE, written)
  BY DEF Exec, Fails, written, c, s
<1>7. CASE Return(p, err, NoRows) /\ Release(p, TRUE, written)
  BY <1>1, <1>4, <1>5, <1>7, NoRowsType, ReturnType, ReleaseInv DEF IInv
<1>8. CASE Return(p, "error", NoRows) /\ Release(p, FALSE, written)
  BY <1>1, <1>4, <1>5, <1>8, NoRowsType, ReturnType, ReleaseInv DEF IInv
<1>. QED  BY <1>6, <1>7, <1>8


LEMMA SetInv ==
  ASSUME IInv, NEW p \in Procs, Set(p)
  PROVE  IInv'
<1>. DEFINE r == call[p].req
            old == At(p)[r.slot]
<1>1. /\ call[p].at = "exec" /\ At(p) # None /\ r.op = "set" /\ Exec(p, Upserted(old, r.row), "nil")
  BY DEF Set, Executes
<1>2. r.slot \in Slot /\ r.row \in Row /\ At(p) \in Table
  BY <1>1, ExecFields, RequestFields
<1>3. old \in Stored \cup {None}
  BY <1>2 DEF Table
<1>4. r.row \in Stored
  <2>1. r.row.val \notin Unencodable
    BY <1>1 DEF IInv, Constructing, Encoded
  <2>. QED  BY <1>2, <2>1 DEF Row, Stored
<1>5. Upserted(old, r.row) \in Stored
  BY <1>3, <1>4 DEF Upserted, Stored
<1>. HIDE DEF old
<1>. QED  BY <1>1, <1>5, WriteInv

LEMMA DeleteInv ==
  ASSUME IInv, NEW p \in Procs, Delete(p)
  PROVE  IInv'
<1>1. /\ call[p].at = "exec" /\ At(p) # None /\ call[p].req.op = "delete"
      /\ Exec(p, None, Affected(At(p)[call[p].req.slot]))
  BY DEF Delete, Executes
<1>2. Affected(At(p)[call[p].req.slot]) \in {"nil", "ErrNotFound"}
  BY DEF Affected
<1>. QED  BY <1>1, <1>2, WriteInv

\* A query keeps its connection while its rows are read.
LEMMA QueryInv ==
  ASSUME IInv, NEW p \in Procs, GetAll(p) \/ GetByCategory(p)
  PROVE  IInv'
<1>. DEFINE r == call[p].req
<1>1. /\ call[p].at = "exec" /\ At(p) # None /\ r.op \in {"getall", "bycategory"}
      /\ \E hits \in SUBSET KeysOf(p) : Query(p, hits)
  BY DEF GetAll, GetByCategory, Executes
<1>2. PICK hits \in SUBSET KeysOf(p) : Query(p, hits)
  BY <1>1
<1>3. r \in Requests /\ r.user \in Users /\ At(p) \in Table /\ call[p].conn \in Conns /\ Holds(p)
      /\ boot.at = "ready"
  BY <1>1, ExecFields, RequestFields
<1>. DEFINE rows == [k \in Keys |-> IF k \in hits THEN At(p)[<<r.user, k>>] ELSE None]
            c == [at |-> "scan", req |-> r, conn |-> call[p].conn, todo |-> hits, rows |-> rows]
<1>4. rows \in RowMap
  BY <1>3 DEF RowMap, Table, Slot
<1>5. hits \in SUBSET Keys
  BY DEF KeysOf
<1>. HIDE DEF rows
<1>6. c \in Calls /\ c.at = "scan" /\ c.conn = call[p].conn
  BY <1>1, <1>3, <1>4, <1>5 DEF Calls
<1>7. Proceed(p, c) /\ UNCHANGED <<boot, db, open, free, data>>
  BY <1>2 DEF Query, pool, rows
<1>. HIDE DEF c
<1>8. /\ call' \in [Procs -> Calls] /\ res' \in [Procs -> Result] /\ call'[p] = c
      /\ \A q \in Procs \ {p} : call'[q] = call[q]
  BY <1>6, <1>7, ProceedType DEF IInv
<1>9. Holds(p)' /\ Encoded(call'[p])
  BY <1>6, <1>8 DEF Holds, Encoded
<1>. HIDE DEF Holds
<1>. QED  BY <1>3, <1>6, <1>7, <1>8, <1>9, KeepInv

LEMMA ScanInv ==
  ASSUME IInv, NEW p \in Procs, (\E k \in Keys : ScanRow(p, k)) \/ ScanStops(p) \/ ScanEnds(p)
  PROVE  IInv'
<1>1. call[p].at = "scan" /\ call[p] \in Calls
  BY DEF ScanRow, ScanStops, ScanEnds, IInv, TypeOK
<1>2. /\ Holds(p) /\ boot.at = "ready"
      /\ call[p].rows \in RowMap /\ call[p].todo \in SUBSET Keys
  <2>1. call[p] # Idle
    BY <1>1 DEF Idle
  <2>. QED  BY <1>1, <2>1, CallFields, Ready DEF Holds
<1>3. ASSUME NEW k \in Keys, ScanRow(p, k) PROVE IInv'
  <2>. DEFINE c == [call[p] EXCEPT !.todo = @ \ {k}]
  <2>1. c \in Calls /\ c.at = "scan" /\ c.conn = call[p].conn
    <3>1. call[p] \in [at : {"scan"}, req : {r \in Requests : r.op \in {"getall", "bycategory"}},
                       conn : Conns, rows : RowMap, todo : SUBSET Keys]
      BY <1>1 DEF Calls, Idle
    <3>2. c \in [at : {"scan"}, req : {r \in Requests : r.op \in {"getall", "bycategory"}},
                 conn : Conns, rows : RowMap, todo : SUBSET Keys]
      BY <3>1
    <3>. QED  BY <1>1, <3>1, <3>2 DEF Calls
  <2>2. Proceed(p, c) /\ UNCHANGED <<boot, db, open, free, data>>
    BY <1>3 DEF ScanRow, pool
  <2>. HIDE DEF c
  <2>3. /\ call' \in [Procs -> Calls] /\ res' \in [Procs -> Result] /\ call'[p] = c
        /\ \A q \in Procs \ {p} : call'[q] = call[q]
    BY <2>1, <2>2, ProceedType DEF IInv
  <2>4. Holds(p)' /\ Encoded(call'[p])
    BY <2>1, <2>3 DEF Holds, Encoded
  <2>. HIDE DEF Holds
  <2>. QED  BY <1>2, <2>1, <2>2, <2>3, <2>4, KeepInv
<1>4. CASE ScanStops(p)
  <2>1. PICK works \in BOOLEAN : Release(p, works, data)
    BY <1>4 DEF ScanStops
  <2>2. Return(p, "error", NoRows) /\ UNCHANGED <<boot, db>>
    BY <1>4 DEF ScanStops, Fails
  <2>. HIDE DEF Holds
  <2>. QED  BY <1>2, <2>1, <2>2, NoRowsType, EndInv
<1>5. CASE ScanEnds(p)
  <2>1. Scanned(p) \in RowMap
    BY <1>2 DEF Scanned, RowMap
  <2>2. Return(p, "nil", Scanned(p)) /\ Release(p, TRUE, data) /\ UNCHANGED <<boot, db>>
    BY <1>5 DEF ScanEnds
  <2>. HIDE DEF Holds
  <2>. QED  BY <1>2, <2>1, <2>2, EndInv
<1>. QED  BY <1>3, <1>4, <1>5

\* Closing free connections takes none from a caller.
LEMMA FreeClosedInv ==
  ASSUME IInv, NEW gone \in SUBSET free, open' = open \ gone, free' = free \ gone, boot.at = "ready",
         data' \in DataType, data[Shared] # None => data'[Shared] # None,
         db' \in DBType, db'.maxOpen = db.maxOpen, db'.volatile = db.volatile,
         call' \in [Procs -> Calls], res' \in [Procs -> Result],
         \A p \in Procs : (Holds(p)' <=> Holds(p)) /\ (Holds(p) => call'[p].conn = call[p].conn),
         \A p \in Procs : Encoded(call'[p]), UNCHANGED boot
  PROVE  IInv'
<1>1. /\ open = free \cup {call[q].conn : q \in {x \in Procs : Holds(x)}}
      /\ \A q \in Procs : Holds(q) =>
            /\ call[q].conn \notin free
            /\ \A x \in Procs \ {q} : Holds(x) => call[x].conn # call[q].conn
  BY DEF IInv, NothingLeaks
<1>. HIDE DEF Holds
<1>2. {call[q].conn : q \in {x \in Procs : Holds(x)}}' =
         {call[q].conn : q \in {x \in Procs : Holds(x)}}
  <2>1. {x \in Procs : Holds(x)}' = {x \in Procs : Holds(x)}
    OBVIOUS
  <2>. QED  BY <2>1
<1>3. (open = free \cup {call[q].conn : q \in {x \in Procs : Holds(x)}})'
  BY <1>1, <1>2
<1>4. \A q \in Procs : Holds(q)' =>
         /\ call'[q].conn \notin free'
         /\ \A x \in Procs \ {q} : Holds(x)' => call'[x].conn # call'[q].conn
  BY <1>1
<1>5. Cardinality(open') <= db'.maxOpen
  <2>1. open \in SUBSET Conns /\ open' \in SUBSET open
    BY DEF IInv, TypeOK
  <2>2. IsFiniteSet(open) /\ Cardinality(open) \in Nat /\ Cardinality(open') \in Nat
    BY <2>1, Countable
  <2>3. Cardinality(open') <= Cardinality(open)
    BY <2>1, <2>2, FS_Subset
  <2>4. Cardinality(open) <= db.maxOpen /\ db.maxOpen \in Nat
    BY DEF IInv, NothingLeaks, TypeOK
  <2>. QED  BY <2>2, <2>3, <2>4
<1>6. NothingLeaks'
  BY <1>3, <1>4, <1>5 DEF NothingLeaks
<1>7. open' \subseteq Conns /\ free' \subseteq open'
  BY DEF IInv, TypeOK
<1>8. TypeOK'
  BY <1>7 DEF IInv, TypeOK, DataType, DBType
<1>. QED  BY <1>6, <1>8 DEF IInv, Constructing, ConstructorSound

LEMMA RetireInv ==
  ASSUME IInv, NEW c \in Conns, Retire(c)
  PROVE  IInv'
<1>1. {c} \in SUBSET free /\ open' = open \ {c} /\ free' = free \ {c} /\ boot.at = "ready"
      /\ UNCHANGED <<boot, db, data, call, res>>
  BY DEF Retire
<1>2. /\ data \in DataType /\ db \in DBType /\ call \in [Procs -> Calls] /\ res \in [Procs -> Result]
      /\ \A p \in Procs : Encoded(call[p])
  BY DEF IInv, TypeOK, Constructing, DataType, DBType
<1>3. \A p \in Procs : (Holds(p)' <=> Holds(p)) /\ (Holds(p) => call'[p].conn = call[p].conn)
  BY <1>1 DEF Holds
<1>. HIDE DEF Holds
<1>. QED  BY <1>1, <1>2, <1>3, FreeClosedInv

LEMMA CloseInv ==
  ASSUME IInv, NEW p \in Procs, Close(p)
  PROVE  IInv'
<1>1. /\ boot.at = "ready" /\ call[p] = Idle /\ UNCHANGED boot
      /\ db' = [db EXCEPT !.closed = TRUE]
      /\ open' = open \ free /\ free' = free \ free
      /\ data' = [x \in DOMAIN data |-> IF x \in free THEN None ELSE data[x]]
  BY DEF Close
<1>2. db' \in DBType /\ db'.maxOpen = db.maxOpen /\ db'.volatile = db.volatile
  BY <1>1 DEF IInv, TypeOK, DBType
<1>3. data' \in DataType /\ (data[Shared] # None => data'[Shared] # None)
  <2>1. Shared \notin free /\ data \in [Conns \cup {Shared} -> Table \cup {None}]
    BY NamesAssumption DEF IInv, TypeOK
  <2>. QED  BY <1>1, <2>1 DEF DataType
<1>4. /\ call' \in [Procs -> Calls] /\ res' \in [Procs -> Result]
      /\ call'[p] = Idle /\ \A q \in Procs \ {p} : call'[q] = call[q]
  BY NoRowsType, ReturnType DEF Close, IInv
<1>5. \A q \in Procs : /\ (Holds(q)' <=> Holds(q)) /\ (Holds(q) => call'[q].conn = call[q].conn)
                       /\ Encoded(call'[q])
  <2>1. call' = call
    <3>1. call' = [call EXCEPT ![p] = Idle] /\ call \in [Procs -> Calls]
      BY DEF Close, Return, IInv, TypeOK
    <3>. QED  BY <1>1, <3>1
  <2>. QED  BY <2>1 DEF Holds, IInv, Constructing
<1>. HIDE DEF Holds
<1>. QED  BY <1>1, <1>2, <1>3, <1>4, <1>5, FreeClosedInv

LEMMA InitInv == Init => IInv
<1>. SUFFICES ASSUME Init PROVE IInv
  OBVIOUS
<1>1. NoDB \in DBType /\ NoDB.maxOpen = 1 /\ NoDB.closed
  BY DEF NoDB, DBType
<1>2. [s \in Slot |-> None] \in Table
  BY DEF Table
<1>3. data \in DataType
  BY <1>2 DEF Init, DataType
<1>4. NoResult \in Result /\ Idle \in Calls
  BY NoRowsType DEF NoResult, Result, Calls
<1>5. boot \in BootType /\ boot.at = "none"
  BY ConfigType DEF Init, BootType
<1>6. TypeOK
  BY <1>1, <1>3, <1>4, <1>5 DEF Init, TypeOK, BootType, DBType, DataType
<1>7. Constructing
  BY <1>1, <1>5, IdleEncoded DEF Init, Constructing
<1>8. NothingLeaks
  <2>1. \A p \in Procs : ~Holds(p)
    BY DEF Init, Holds, Idle
  <2>2. {q \in Procs : Holds(q)} = {}
    BY <2>1
  <2>3. open = free \cup {call[p].conn : p \in {q \in Procs : Holds(q)}}
    BY <2>2 DEF Init
  <2>4. Cardinality(open) <= db.maxOpen
    BY <1>1, FS_EmptySet DEF Init
  <2>. HIDE DEF Holds
  <2>. QED  BY <2>1, <2>3, <2>4 DEF NothingLeaks
<1>9. ConstructorSound
  BY <1>5 DEF ConstructorSound
<1>. QED  BY <1>6, <1>7, <1>8, <1>9 DEF IInv

LEMMA StepInv == IInv /\ [Next]_vars => IInv'
<1>. SUFFICES ASSUME IInv, [Next]_vars PROVE IInv'
  OBVIOUS
<1>1. CASE (\E file \in Files \cup {""} : NewStorage(file)) \/ (\E o \in Options : ApplyOption(o))
           \/ Construct
  BY <1>1, NewStorageInv, OptionsInv, PingInv, MigrateInv DEF Construct
<1>2. CASE \E c \in Conns : Retire(c)
  BY <1>2, RetireInv
<1>3. ASSUME NEW p \in Procs, Continue(p) PROVE IInv'
  BY <1>3, ExecFailsInv, GetInv, SetInv, DeleteInv, QueryInv, ScanInv DEF Continue
<1>4. ASSUME NEW p \in Procs,
             (\E r \in Requests : Begin(p, r)) \/ Acquire(p) \/ StopWaiting(p) \/ Close(p)
      PROVE  IInv'
  BY <1>4, BeginInv, AcquireInv, CloseInv
<1>5. CASE UNCHANGED vars
  <2>1. TypeOK' /\ Constructing' /\ ConstructorSound'
    BY <1>5 DEF vars, IInv, TypeOK, Constructing, ConstructorSound
  <2>2. NothingLeaks'
    BY <1>5 DEF vars, IInv, NothingLeaks, Holds
  <2>. QED  BY <2>1, <2>2 DEF IInv
<1>. QED  BY <1>1, <1>2, <1>3, <1>4, <1>5 DEF Next

-----------------------------------------------------------------------------
\* A SQL storage keeps its types: in particular no value that could not be marshalled is
\* in a table, and the configuration is one, whatever options an application passes.
THEOREM SQLTypeCorrect == Spec => []TypeOK
<1>1. IInv => TypeOK
  BY DEF IInv
<1>. QED  BY <1>1, InitInv, StepInv, PTL DEF Spec

\* Whatever fails, every open connection is free or in use by exactly one call, and the
\* limit is kept: for any number of callers and any limits.
THEOREM LeakFree == Spec => []NothingLeaks
<1>1. IInv => NothingLeaks
  BY DEF IInv
<1>. QED  BY <1>1, InitInv, StepInv, PTL DEF Spec

\* A constructor that fails closes what it opened, and one that succeeds has made the table.
THEOREM ConstructedWhole == Spec => []ConstructorSound
<1>1. IInv => ConstructorSound
  BY DEF IInv
<1>. QED  BY <1>1, InitInv, StepInv, PTL DEF Spec
-----------------------------------------------------------------------------
(* A SQL storage implements StorageService.                                *)

\* Every connection sees the same database: ":memory:" is not among the files.
Lasting == ":memory:" \notin Files

\* What the proof of it needs beside IInv: no configuration asks for a volatile database,
\* a constructor works on an open sql.DB, and who is in a call has no answer yet.
Serving ==
    /\ ~boot.cfg.volatile /\ ~db.volatile
    /\ boot.at \in {"ping", "migrate"} => ~db.closed
    /\ \A p \in Procs : call[p] # Idle => res[p] = NoResult

\* How a call changes what its caller sees.
LEMMA CallSteps ==
  ASSUME IInv, NEW p \in Procs,
         \/ \E c : c # Idle /\ Proceed(p, c)
         \/ \E err, rows : Return(p, err, rows)
  PROVE  /\ \A q \in Procs \ {p} : call'[q] = call[q] /\ res'[q] = res[q]
         /\ call'[p] # Idle => res'[p] = NoResult
  BY DEF IInv, TypeOK, Proceed, Return

LEMMA ServingStays ==
  ASSUME IInv, Serving, UNCHANGED <<boot, db>>, NEW p \in Procs,
         \/ \E c : c # Idle /\ Proceed(p, c)
         \/ \E err, rows : Return(p, err, rows)
  PROVE  Serving'
  BY CallSteps DEF Serving

LEMMA InitServing == Init => Serving
<1>. SUFFICES ASSUME Init PROVE Serving
  OBVIOUS
<1>1. boot.at = "none" /\ boot.cfg = PostgresConfig /\ ~PostgresConfig.volatile /\ ~NoDB.volatile
  BY DEF Init, PostgresConfig, NoDB
<1>. HIDE DEF Idle
<1>. QED  BY <1>1 DEF Init, Serving

\* No option, and no file but ":memory:", makes a configuration volatile.
LEMMA ConstructServing ==
  ASSUME Lasting, IInv, Serving,
         \/ \E file \in Files \cup {""} : NewStorage(file)
         \/ \E o \in Options : ApplyOption(o)
         \/ Construct
  PROVE  Serving'
<1>0. boot \in BootType /\ db \in DBType /\ boot.cfg \in Config
  BY DEF IInv, TypeOK, BootType, DBType
<1>1. ASSUME NEW file \in Files \cup {""}, NewStorage(file) PROVE Serving'
  <2>1. ~PostgresConfig.volatile /\ ~SQLiteConfig(file).volatile
    BY DEF PostgresConfig, SQLiteConfig, Lasting
  <2>. QED  BY <1>0, <1>1, <2>1 DEF NewStorage, Serving, NoDB, BootType
<1>2. ASSUME NEW o \in Options, ApplyOption(o) PROVE Serving'
  <2>1. o.field # "volatile"
    BY OptionAssumption DEF SQLiteOption, PostgresOption
  <2>2. [boot.cfg EXCEPT ![o.field] = o.value].volatile = boot.cfg.volatile
    BY <1>0, <2>1 DEF Config
  <2>. QED  BY <1>0, <1>2, <2>2 DEF ApplyOption, Serving, BootType
<1>3. CASE Open
  <2>1. ~PostgresConfig.volatile /\ DB(boot.cfg).volatile = boot.cfg.volatile
        /\ ~DB(boot.cfg).closed
    BY DEF PostgresConfig, DB
  <2>2. CASE boot' = [boot EXCEPT !.at = "failed", !.cfg = PostgresConfig] /\ UNCHANGED db
    BY <1>0, <1>3, <2>1, <2>2 DEF Open, Serving, BootType, pool
  <2>3. CASE boot' = [boot EXCEPT !.at = "ping", !.cfg = PostgresConfig] /\ db' = DB(boot.cfg)
    BY <1>0, <1>3, <2>1, <2>3 DEF Open, Serving, BootType, pool
  <2>. QED  BY <1>3, <2>2, <2>3 DEF Open
<1>4. ASSUME UNCHANGED <<call, res>>,
             \/ UNCHANGED db /\ \E at : boot' = [boot EXCEPT !.at = at]
             \/ \E d : GiveUp(d),
             boot.at \in {"ping", "migrate"}
      PROVE  Serving'
  BY <1>0, <1>4 DEF Serving, GiveUp, BootType, DBType
<1>5. CASE Ping \/ Migrate
  BY <1>4, <1>5 DEF Ping, Migrate
<1>. QED  BY <1>1, <1>2, <1>3, <1>5 DEF Construct

LEMMA StepServing == Lasting /\ IInv /\ Serving /\ [Next]_vars => Serving'
<1>. SUFFICES ASSUME Lasting, IInv, Serving, [Next]_vars PROVE Serving'
  OBVIOUS
<1>1. CASE \/ \E file \in Files \cup {""} : NewStorage(file)
           \/ \E o \in Options : ApplyOption(o)
           \/ Construct
  BY <1>1, ConstructServing
<1>2. ASSUME NEW p \in Procs, NEW r \in Requests, Begin(p, r) PROVE Serving'
  BY <1>2, ServingStays DEF Begin, Idle
<1>3. ASSUME NEW p \in Procs, Acquire(p) \/ StopWaiting(p) PROVE Serving'
  BY <1>3, ServingStays DEF Acquire, StopWaiting, Fails, Idle
<1>4. ASSUME NEW p \in Procs, ExecFails(p) \/ Busy(p) \/ Get(p) PROVE Serving'
  BY <1>4, ServingStays DEF ExecFails, Busy, Get, Fails
<1>5. ASSUME NEW p \in Procs, Set(p) \/ Delete(p) PROVE Serving'
  BY <1>5, ServingStays DEF Set, Delete, Exec, Fails
<1>6. ASSUME NEW p \in Procs, GetAll(p) \/ GetByCategory(p) PROVE Serving'
  BY <1>6, ServingStays DEF GetAll, GetByCategory, Query, Idle
<1>7. ASSUME NEW p \in Procs, (\E k \in Keys : ScanRow(p, k)) \/ ScanStops(p) \/ ScanEnds(p)
      PROVE  Serving'
  <2>1. ASSUME NEW k \in Keys, ScanRow(p, k) PROVE Serving'
    <3>1. [call[p] EXCEPT !.todo = @ \ {k}] # Idle
      <4>1. call[p] \in [at : {"scan"}, req : {r \in Requests : r.op \in {"getall", "bycategory"}},
                         conn : Conns, rows : RowMap, todo : SUBSET Keys]
        <5>1. call[p] \in Calls /\ call[p].at = "scan"
          BY <2>1 DEF ScanRow, IInv, TypeOK
        <5>. QED  BY <5>1 DEF Calls, Idle
      <4>. QED  BY <4>1 DEF Idle
    <3>. QED  BY <2>1, <3>1, ServingStays DEF ScanRow
  <2>. QED  BY <1>7, <2>1, ServingStays DEF ScanStops, ScanEnds, Fails
<1>8. ASSUME NEW p \in Procs, Close(p) PROVE Serving'
  <2>1. boot.at = "ready" /\ db' = [db EXCEPT !.closed = TRUE] /\ db \in DBType
    BY <1>8 DEF Close, IInv, TypeOK, DBType
  <2>2. \A q \in Procs : call'[q] # Idle => res'[q] = NoResult
    BY <1>8, CallSteps DEF Close, Serving
  <2>. QED  BY <1>8, <2>1, <2>2 DEF Close, Serving, DBType
<1>9. ASSUME NEW c \in Conns, Retire(c) PROVE Serving'
  BY <1>9 DEF Retire, Serving
<1>10. CASE UNCHANGED vars
  BY <1>10 DEF vars, Serving
<1>. QED  BY <1>1, <1>2, <1>3, <1>4, <1>5, <1>6, <1>7, <1>8, <1>9, <1>10 DEF Next, Continue

\* What the abstract storage holds, and what callers see of it.
Content == IF data[Shared] = None THEN [s \in Slot |-> None] ELSE data[Shared]
Pend == [p \in Procs |-> RequestOf(call[p])]
Seen(err) == IF err = "no such table" THEN "error" ELSE err
Replies == [p \in Procs |-> [err |-> Seen(res[p].err), rows |-> res[p].rows]]

LEMMA RequestOfIs ==
  ASSUME NEW c \in Calls
  PROVE  /\ c.at = "idle" <=> c = Idle
         /\ c.at = "idle" <=> RequestOf(c) = [op |-> "idle"]
         /\ c.at = "scan" => RequestOf(c) = [op |-> "deliver", rows |-> c.rows]
         /\ c.at \in {"conn", "exec"} => RequestOf(c) = c.req
<1>1. c.at = "idle" <=> c = Idle
  BY CallFields DEF Idle
<1>2. c.at = "idle" => RequestOf(c) = [op |-> "idle"]
  BY DEF RequestOf
<1>3. c.at = "scan" => RequestOf(c) = [op |-> "deliver", rows |-> c.rows]
  BY DEF RequestOf
<1>4. c.at \in {"conn", "exec"} => RequestOf(c) = c.req /\ c.req.op # "idle"
  <2>1. c.at \in {"conn", "exec"} => c.req \in Requests
    BY CallFields
  <2>2. \A r \in Requests : r.op # "idle"
    BY DEF Requests
  <2>. QED  BY <2>1, <2>2 DEF RequestOf
<1>5. [op |-> "deliver", rows |-> c.rows] # [op |-> "idle"]
  <2>1. [op |-> "deliver", rows |-> c.rows].op # [op |-> "idle"].op
    OBVIOUS
  <2>. QED  BY <2>1
<1>. QED  BY <1>1, <1>2, <1>3, <1>4, <1>5, CallFields

\* A call that returns answers, and one that goes on waits, with another request or the same.
LEMMA Answers ==
  ASSUME IInv, NEW p \in Procs, NEW err, NEW rows, Return(p, err, rows)
  PROVE  Service!Answer(p, Seen(err), rows)
<1>1. call' = [call EXCEPT ![p] = Idle] /\ res' = [res EXCEPT ![p] = [err |-> err, rows |-> rows]]
      /\ call \in [Procs -> Calls] /\ res \in [Procs -> Result]
  BY DEF Return, IInv, TypeOK
<1>2. RequestOf(Idle) = [op |-> "idle"]
  BY DEF RequestOf, Idle
<1>3. Pend' = [Pend EXCEPT ![p] = [op |-> "idle"]]
  BY <1>1, <1>2 DEF Pend
<1>4. Replies' = [Replies EXCEPT ![p] = [err |-> Seen(err), rows |-> rows]]
  BY <1>1 DEF Replies
<1>. QED  BY <1>3, <1>4 DEF Pend, Replies, Seen, Service!Answer, Service!Idle

LEMMA Awaits ==
  ASSUME IInv, NEW p \in Procs, NEW c, Proceed(p, c)
  PROVE  Service!Await(p, RequestOf(c))
<1>1. call' = [call EXCEPT ![p] = c] /\ res' = [res EXCEPT ![p] = [err |-> "nil", rows |-> NoRows]]
      /\ call \in [Procs -> Calls] /\ res \in [Procs -> Result]
  BY DEF Proceed, NoResult, IInv, TypeOK
<1>2. Pend' = [Pend EXCEPT ![p] = RequestOf(c)]
  BY <1>1 DEF Pend
<1>3. Replies' = [Replies EXCEPT ![p] = [err |-> "nil", rows |-> NoRows]]
  BY <1>1 DEF Replies, Seen
<1>. QED  BY <1>2, <1>3 DEF Pend, Replies, Seen, Service!Await, Service!NoRows, NoRows

LEMMA GoesOn ==
  ASSUME IInv, Serving, NEW p \in Procs, call[p] # Idle, NEW c, Proceed(p, c),
         RequestOf(c) = RequestOf(call[p])
  PROVE  Pend' = Pend /\ Replies' = Replies
<1>1. call' = [call EXCEPT ![p] = c] /\ res' = [res EXCEPT ![p] = NoResult]
      /\ call \in [Procs -> Calls] /\ res \in [Procs -> Result]
  BY DEF Proceed, IInv, TypeOK
<1>2. res' = res
  BY <1>1 DEF Serving
<1>3. \A q \in Procs : RequestOf(call'[q]) = RequestOf(call[q])
  BY <1>1
<1>. QED  BY <1>2, <1>3 DEF Pend, Replies

\* A connection that is given back takes no row with it.
LEMMA ReleaseKeeps ==
  ASSUME IInv, NEW p \in Procs, Holds(p), NEW works, NEW d \in DataType, Release(p, works, d)
  PROVE  data'[Shared] = d[Shared]
<1>1. call[p].conn \in Conns
  BY CallFields DEF Holds, IInv, TypeOK
<1>2. data' = d \/ data' = [d EXCEPT ![call[p].conn] = None]
  BY DEF Release
<1>. QED  BY <1>1, <1>2, NamesAssumption DEF DataType

\* Where statements of a storage that serves work.
LEMMA ServesShared ==
  ASSUME IInv, Serving, NEW p \in Procs, call[p].at = "exec"
  PROVE  /\ Place(call[p].conn) = Shared /\ At(p) = data[Shared]
         /\ At(p) # None /\ At(p) \in Table /\ Content = At(p)
<1>1. Place(call[p].conn) = Shared /\ boot.at = "ready" /\ At(p) \in Table \cup {None}
  BY ExecFields DEF Place, Serving
<1>2. data[Shared] # None
  BY <1>1 DEF IInv, ConstructorSound, Serving
<1>. QED  BY <1>1, <1>2 DEF At, Content

\* The constructor shows nothing but that the storage can be used, once it can.
LEMMA ConstructImplements ==
  ASSUME IInv, Serving,
         \/ \E file \in Files \cup {""} : NewStorage(file)
         \/ \E o \in Options : ApplyOption(o)
         \/ Construct
  PROVE  Service!Open \/ UNCHANGED Service!svars
<1>0. boot \in BootType /\ db \in DBType /\ data \in DataType /\ open \subseteq Conns
      /\ free \subseteq open
  BY DEF IInv, TypeOK, BootType, DBType, DataType
<1>1. ASSUME UNCHANGED <<call, res>>, Content' = Content, boot.at # "ready" \/ db.closed,
             boot'.at # "ready" \/ db'.closed
      PROVE  UNCHANGED Service!svars
  BY <1>1 DEF Content, Service!svars
<1>2. ASSUME UNCHANGED <<call, res>>, Content' = Content, boot'.at = "ready", ~db'.closed
      PROVE  Service!Open
  BY <1>2 DEF Content, Service!Open
<1>3. ASSUME UNCHANGED data PROVE Content' = Content
  BY <1>3 DEF Content
<1>4. ASSUME NEW file \in Files \cup {""}, NewStorage(file) PROVE UNCHANGED Service!svars
  BY <1>0, <1>1, <1>3, <1>4 DEF NewStorage, Closed, NoDB, BootType, pool
<1>5. ASSUME NEW o \in Options, ApplyOption(o) PROVE UNCHANGED Service!svars
  BY <1>0, <1>1, <1>3, <1>5 DEF ApplyOption, BootType, pool
<1>6. CASE Open
  <2>1. boot.at = "options" /\ boot'.at # "ready" /\ UNCHANGED <<data, call, res>>
    BY <1>0, <1>6 DEF Open, BootType, pool
  <2>. QED  BY <1>1, <1>3, <2>1
<1>7. ASSUME NEW c \in free PROVE /\ Migrated(c) \in DataType
                                 /\ Migrated(c)[Shared] = Content
  <2>1. c \in Conns /\ Place(c) = Shared
    BY <1>0, <1>7 DEF Place, Serving
  <2>2. Migrated(c) \in DataType
    BY <1>0, <2>1, MigratedType
  <2>. QED  BY <1>0, <2>1, <2>2 DEF Migrated, Content, DataType
<1>8. ASSUME NEW d \in DataType, GiveUp(d), d[Shared] \in {data[Shared], Content}
      PROVE  Content' = Content /\ boot'.at = "failed"
  <2>1. data' = [x \in DOMAIN d |-> IF x \in open THEN None ELSE d[x]] /\ Shared \notin open
    BY <1>0, <1>8, NamesAssumption DEF GiveUp
  <2>2. data'[Shared] = d[Shared]
    BY <1>0, <1>8, <2>1 DEF DataType
  <2>3. Content # None
    <3>1. [s \in Slot |-> None] \in Table
      BY DEF Table
    <3>. QED  BY <3>1, NamesAssumption DEF Content
  <2>4. Content' = Content
    BY <1>8, <2>2, <2>3 DEF Content
  <2>. QED  BY <1>0, <1>8, <2>4 DEF GiveUp, BootType
<1>9. CASE Ping
  <2>1. boot.at = "ping" /\ UNCHANGED <<call, res>>
    BY <1>9 DEF Ping
  <2>2. CASE GiveUp(data)
    BY <1>0, <1>1, <1>8, <2>1, <2>2
  <2>3. CASE boot' = [boot EXCEPT !.at = "migrate"] /\ UNCHANGED <<db, data>>
    BY <1>0, <1>1, <1>3, <2>1, <2>3 DEF BootType
  <2>. QED  BY <1>9, <2>2, <2>3 DEF Ping
<1>10. CASE Migrate
  <2>1. PICK c \in free :
          \/ /\ data' = Migrated(c)
             /\ boot' = [boot EXCEPT !.at = "ready"]
             /\ UNCHANGED <<db, open, free>>
          \/ "error" \in Faults /\ GiveUp(data)
          \/ "indefinite" \in Faults /\ GiveUp(Migrated(c))
    BY <1>10 DEF Migrate
  <2>2. boot.at = "migrate" /\ ~db.closed /\ UNCHANGED <<call, res>>
    BY <1>10 DEF Migrate, Serving
  <2>3. CASE GiveUp(data) \/ GiveUp(Migrated(c))
    BY <1>0, <1>1, <1>7, <1>8, <2>2, <2>3
  <2>4. CASE /\ data' = Migrated(c)
             /\ boot' = [boot EXCEPT !.at = "ready"]
             /\ UNCHANGED <<db, open, free>>
    <3>1. data'[Shared] = Content
      BY <1>7, <2>4
    <3>2. Content' = Content
      BY <3>1 DEF Content
    <3>. QED  BY <1>0, <1>2, <2>2, <2>4, <3>2 DEF BootType
  <2>. QED  BY <2>1, <2>3, <2>4
<1>. QED  BY <1>4, <1>5, <1>6, <1>9, <1>10 DEF Construct

\* What a step of the abstract storage leaves alone.
Untouched == boot' = boot /\ db' = db /\ data'[Shared] = data[Shared]

LEMMA UntouchedIs ==
  ASSUME Untouched
  PROVE  Content' = Content /\ (boot.at = "ready" /\ ~db.closed)' = (boot.at = "ready" /\ ~db.closed)
  BY DEF Untouched, Content

\* A caller that is asked about has the request that the abstract storage has.
LEMMA Requested ==
  ASSUME IInv, NEW p \in Procs, call[p] # Idle
  PROVE  /\ Pend[p] # Service!Idle
         /\ call[p].at = "scan" => Pend[p] = [op |-> "deliver", rows |-> call[p].rows]
         /\ call[p].at \in {"conn", "exec"} => Pend[p] = call[p].req
<1>1. call[p] \in Calls
  BY DEF IInv, TypeOK
<1>. QED  BY <1>1, RequestOfIs DEF Pend, Service!Idle

LEMMA FailImplements ==
  ASSUME IInv, NEW p \in Procs, call[p] # Idle, Untouched,
         \E err \in {"error", "no such table"} : Return(p, err, NoRows)
  PROVE  Service!Fail(p)
<1>1. Service!Answer(p, "error", Service!NoRows)
  BY Answers DEF Seen, NoRows, Service!NoRows
<1>2. Pend[p] # Service!Idle
  BY Requested
<1>. QED  BY <1>1, <1>2, UntouchedIs DEF Service!Fail, Pend, Content

LEMMA BeginImplements ==
  ASSUME IInv, NEW p \in Procs, NEW r \in Requests, Begin(p, r)
  PROVE  Service!Request(p, r)
<1>1. boot.at = "ready" /\ call[p] = Idle /\ Untouched
  BY DEF Begin, Untouched, pool
<1>2. Pend[p] = Service!Idle
  BY <1>1 DEF Pend, RequestOf, Idle, Service!Idle
<1>3. CASE Return(p, "error", NoRows)
  <2>1. Service!Answer(p, "error", Service!NoRows)
    BY <1>3, Answers DEF Seen, NoRows, Service!NoRows
  <2>. QED  BY <1>1, <1>2, <2>1, UntouchedIs DEF Service!Request, Pend, Content
<1>4. CASE Proceed(p, [at |-> "conn", req |-> r]) /\ ~db.closed
  <2>1. RequestOf([at |-> "conn", req |-> r]) = r
    BY DEF RequestOf
  <2>2. Service!Await(p, r)
    BY <1>4, <2>1, Awaits
  <2>. QED  BY <1>1, <1>2, <1>4, <2>2, UntouchedIs DEF Service!Request, Pend, Content
<1>. QED  BY <1>3, <1>4 DEF Begin

LEMMA WaitImplements ==
  ASSUME IInv, Serving, NEW p \in Procs, Acquire(p) \/ StopWaiting(p)
  PROVE  Service!Fail(p) \/ UNCHANGED Service!svars
<1>1. call[p] \in Calls /\ call[p].at = "conn" /\ Untouched /\ call[p] # Idle
  <2>1. call[p] \in Calls /\ call[p].at = "conn" /\ Untouched
    BY DEF Acquire, StopWaiting, Waiting, Untouched, pool, IInv, TypeOK
  <2>. QED  BY <2>1 DEF Idle
<1>2. CASE Fails(p)
  BY <1>1, <1>2, FailImplements DEF Fails
<1>3. ASSUME NEW c, Proceed(p, [at |-> "exec", req |-> call[p].req, conn |-> c])
      PROVE  UNCHANGED Service!svars
  <2>1. RequestOf([at |-> "exec", req |-> call[p].req, conn |-> c]) = call[p].req
    BY DEF RequestOf
  <2>2. RequestOf(call[p]) = call[p].req
    BY <1>1, RequestOfIs
  <2>3. Pend' = Pend /\ Replies' = Replies
    BY <1>1, <1>3, <2>1, <2>2, GoesOn
  <2>. QED  BY <1>1, <2>3, UntouchedIs DEF Service!svars, Pend, Replies, Seen, Content
<1>. QED  BY <1>2, <1>3 DEF Acquire, StopWaiting

\* A statement that is executed, and its request.
LEMMA Executed ==
  ASSUME IInv, Serving, NEW p \in Procs, call[p].at = "exec"
  PROVE  /\ call[p].req \in Requests /\ call[p] # Idle /\ Holds(p) /\ Pend[p] = call[p].req
         /\ Content = At(p) /\ At(p) = data[Shared] /\ At(p) \in Table /\ data \in DataType
         /\ Place(call[p].conn) = Shared
<1>1. call[p] # Idle
  BY DEF Idle
<1>. QED  BY <1>1, ExecFields, ServesShared, Requested DEF IInv, TypeOK, DataType

LEMMA ExecFailsImplements ==
  ASSUME IInv, Serving, NEW p \in Procs, ExecFails(p) \/ Busy(p)
  PROVE  Service!Fail(p)
<1>1. call[p].at = "exec" /\ UNCHANGED <<boot, db>>
  BY DEF ExecFails, Busy, Executes
<1>2. \E works : Release(p, works, data)
  BY DEF ExecFails, Busy
<1>3. Untouched
  BY <1>1, <1>2, Executed, ReleaseKeeps DEF Untouched
<1>. QED  BY <1>1, <1>3, Executed, FailImplements DEF ExecFails, Busy, Fails

LEMMA GetImplements ==
  ASSUME IInv, Serving, NEW p \in Procs, Get(p)
  PROVE  Service!Get(p) \/ Service!Fail(p)
<1>. DEFINE s == call[p].req.slot
            row == At(p)[s]
<1>1. call[p].at = "exec" /\ call[p].req.op = "get" /\ UNCHANGED <<boot, db>>
      /\ Release(p, TRUE, data)
  BY DEF Get, Executes
<1>2. Untouched
  BY <1>1, Executed, ReleaseKeeps DEF Untouched
<1>3. Pend[p].op = "get" /\ Pend[p].slot = s /\ Content[s] = row
  BY <1>1, Executed
<1>4. CASE row = None /\ Return(p, "ErrNotFound", NoRows)
  <2>1. Service!Answer(p, "ErrNotFound", Service!NoRows)
    BY <1>4, Answers DEF Seen, NoRows, Service!NoRows
  <2>. QED  BY <1>2, <1>3, <1>4, <2>1, UntouchedIs DEF Service!Get, Pend, Content
<1>5. CASE row # None /\ Return(p, "nil", [NoRows EXCEPT ![s[2]] = row])
  <2>1. Service!NoRows = NoRows /\ Seen("nil") = "nil"
    BY DEF Seen, NoRows, Service!NoRows
  <2>2. PICK rows : rows = [NoRows EXCEPT ![s[2]] = row]
    OBVIOUS
  <2>3. Service!Answer(p, "nil", rows)
    BY <1>5, <2>1, <2>2, Answers
  <2>4. rows = [Service!NoRows EXCEPT ![Pend[p].slot[2]] = Content[Pend[p].slot]]
    BY <1>3, <2>1, <2>2
  <2>5. Service!Answer(p, "nil", [Service!NoRows EXCEPT ![Pend[p].slot[2]] = Content[Pend[p].slot]])
    BY <2>3, <2>4 DEF Service!Answer
  <2>6. Pend[p].op = "get" /\ Content[Pend[p].slot] # None /\ Content' = Content
        /\ (boot.at = "ready" /\ ~db.closed)' = (boot.at = "ready" /\ ~db.closed)
    BY <1>2, <1>3, <1>5, UntouchedIs
  <2>. QED  BY <2>5, <2>6 DEF Service!Get, Pend, Content
<1>6. CASE Fails(p)
  BY <1>1, <1>2, <1>6, Executed, FailImplements DEF Fails
<1>. QED  BY <1>4, <1>5, <1>6 DEF Get

\* A statement that writes what the abstract storage writes, whether its caller learns of it
\* or not.
LEMMA ExecImplements ==
  ASSUME IInv, Serving, NEW p \in Procs, call[p].at = "exec", call[p].req.op \in {"set", "delete"},
         NEW row \in Stored \cup {None}, NEW err \in {"nil", "ErrNotFound"}, Exec(p, row, err),
         err = (IF call[p].req.op = "delete" /\ At(p)[call[p].req.slot] = None THEN "ErrNotFound"
                ELSE "nil"),
         row = (IF call[p].req.op = "delete" THEN None
                ELSE IF At(p)[call[p].req.slot] # None
                     THEN [At(p)[call[p].req.slot] EXCEPT !.val = call[p].req.row.val]
                     ELSE call[p].req.row)
  PROVE  Service!Write(p) \/ Service!Fail(p)
<1>. DEFINE r == call[p].req
            s == r.slot
            written == [data EXCEPT ![Shared][s] = row]
<1>1. r \in Requests /\ s \in Slot /\ UNCHANGED <<boot, db>> /\ Pend[p] = r /\ Content = At(p)
      /\ At(p) = data[Shared] /\ At(p) \in Table /\ data \in DataType /\ Holds(p)
  BY Executed, RequestFields DEF Exec
<1>2. written[Shared] = [At(p) EXCEPT ![s] = row] /\ written[Shared] \in Table /\ written \in DataType
  BY <1>1 DEF DataType, Table
<1>3. \/ Return(p, err, NoRows) /\ Release(p, TRUE, written)
      \/ Return(p, "error", NoRows) /\ Release(p, FALSE, written)
  BY Executed DEF Exec, Fails
<1>. HIDE DEF written
<1>4. data'[Shared] = written[Shared]
  BY <1>1, <1>2, <1>3, ReleaseKeeps
<1>5. Content' = [Content EXCEPT ![s] = row]
  <2>1. data'[Shared] # None
    BY <1>2, <1>4, NamesAssumption
  <2>2. Content' = data'[Shared]
    BY <2>1 DEF Content
  <2>. QED  BY <1>1, <1>2, <1>4, <2>2
<1>6. Service!Takes(r)
  <2>1. Content' = [Content EXCEPT ![s] = IF r.op = "delete" THEN None
                                          ELSE IF @ # None THEN [@ EXCEPT !.val = r.row.val]
                                          ELSE r.row]
    BY <1>1, <1>5
  <2>. QED  BY <2>1 DEF Service!Takes, Content
<1>7. (boot.at = "ready" /\ ~db.closed)' = (boot.at = "ready" /\ ~db.closed)
  BY <1>1
<1>8. CASE Return(p, err, NoRows)
  <2>1. Service!Answer(p, err, Service!NoRows)
    BY <1>8, Answers DEF Seen, NoRows, Service!NoRows
  <2>. QED  BY <1>1, <1>6, <1>7, <2>1 DEF Service!Write, Pend, Content
<1>9. CASE Return(p, "error", NoRows)
  <2>1. Service!Answer(p, "error", Service!NoRows)
    BY <1>9, Answers DEF Seen, NoRows, Service!NoRows
  <2>2. Pend[p] # Service!Idle
    BY Executed, Requested
  <2>. QED  BY <1>1, <1>6, <1>7, <2>1, <2>2 DEF Service!Fail, Pend, Content
<1>. QED  BY <1>3, <1>8, <1>9

LEMMA WriteImplements ==
  ASSUME IInv, Serving, NEW p \in Procs, Set(p) \/ Delete(p)
  PROVE  Service!Write(p) \/ Service!Fail(p)
<1>. DEFINE r == call[p].req
            old == At(p)[r.slot]
<1>1. CASE Set(p)
  <2>1. call[p].at = "exec" /\ r.op = "set" /\ Exec(p, Upserted(old, r.row), "nil")
    BY <1>1 DEF Set, Executes
  <2>2. r.slot \in Slot /\ r.row \in Row /\ At(p) \in Table
    BY <2>1, Executed, RequestFields
  <2>3. old \in Stored \cup {None} /\ r.row \in Stored
    BY <2>1, <2>2 DEF Table, IInv, Constructing, Encoded, Row, Stored
  <2>4. Upserted(old, r.row) \in Stored
    BY <2>3 DEF Upserted, Stored
  <2>5. Upserted(old, r.row) = IF old # None THEN [old EXCEPT !.val = r.row.val] ELSE r.row
    BY DEF Upserted
  <2>. HIDE DEF old
  <2>. QED  BY <2>1, <2>4, <2>5, ExecImplements DEF old
<1>2. CASE Delete(p)
  <2>1. call[p].at = "exec" /\ r.op = "delete" /\ Exec(p, None, Affected(old))
    BY <1>2 DEF Delete, Executes
  <2>2. Affected(old) = (IF old = None THEN "ErrNotFound" ELSE "nil")
    BY DEF Affected
  <2>. QED  BY <2>1, <2>2, ExecImplements
<1>. QED  BY <1>1, <1>2

\* The rows of a query are those the abstract storage would return at this moment.
LEMMA QueryImplements ==
  ASSUME IInv, Serving, NEW p \in Procs, GetAll(p) \/ GetByCategory(p)
  PROVE  Service!Snapshot(p)
<1>. DEFINE r == call[p].req
            Hit(k) == At(p)[<<r.user, k>>] # None
                      /\ (r.op = "bycategory" => At(p)[<<r.user, k>>].cat = r.cat)
            rows == [k \in Keys |-> IF Hit(k) THEN At(p)[<<r.user, k>>] ELSE None]
<1>1. call[p].at = "exec" /\ r.op \in {"getall", "bycategory"} /\ UNCHANGED <<boot, db, data>>
  BY DEF GetAll, GetByCategory, Executes, Query, pool
<1>2. Untouched /\ Pend[p] = r /\ Content = At(p)
  BY <1>1, Executed DEF Untouched
<1>3. PICK hits : Query(p, hits) /\ hits = {k \in Keys : Hit(k)}
  BY DEF GetAll, GetByCategory, Executes, KeysOf
<1>. DEFINE c == [at |-> "scan", req |-> r, conn |-> call[p].conn, todo |-> hits, rows |-> rows]
<1>4. rows = [k \in Keys |-> IF k \in hits THEN At(p)[<<r.user, k>>] ELSE None]
  BY <1>3
<1>5. Proceed(p, c)
  BY <1>3, <1>4 DEF Query
<1>6. RequestOf(c) = [op |-> "deliver", rows |-> rows]
  BY DEF RequestOf
<1>. HIDE DEF c, rows
<1>7. Service!Await(p, [op |-> "deliver", rows |-> rows])
  <2>1. PICK d : d = c
    OBVIOUS
  <2>2. Proceed(p, d)
    BY <1>5, <2>1 DEF Proceed
  <2>3. Service!Await(p, RequestOf(d))
    BY <2>2, Awaits
  <2>4. RequestOf(d) = [op |-> "deliver", rows |-> rows]
    BY <1>6, <2>1
  <2>. QED  BY <2>3, <2>4 DEF Service!Await
<1>8. ASSUME NEW k \in Keys
      PROVE  Service!Selects(Pend[p], <<Pend[p].user, k>>) <=> Hit(k)
  BY <1>2 DEF Service!Selects, Content
<1>9. rows = [k \in Keys |-> IF Service!Selects(Pend[p], <<Pend[p].user, k>>)
                              THEN Content[<<Pend[p].user, k>>] ELSE None]
  <2>. HIDE DEF Hit
  <2>. QED  BY <1>2, <1>8 DEF rows
<1>10. Service!Await(p, [op |-> "deliver",
                         rows |-> [k \in Keys |-> IF Service!Selects(Pend[p], <<Pend[p].user, k>>)
                                                  THEN Content[<<Pend[p].user, k>>] ELSE None]])
  BY <1>7, <1>9 DEF Service!Await
<1>11. Pend[p].op \in {"getall", "bycategory"} /\ Content' = Content
       /\ (boot.at = "ready" /\ ~db.closed)' = (boot.at = "ready" /\ ~db.closed)
  BY <1>1, <1>2, UntouchedIs
<1>. QED  BY <1>10, <1>11 DEF Service!Snapshot, Pend, Content

\* A caller gets the rows of that moment, all of them, or an error.
LEMMA ScanImplements ==
  ASSUME IInv, Serving, NEW p \in Procs,
         (\E k \in Keys : ScanRow(p, k)) \/ ScanStops(p) \/ ScanEnds(p)
  PROVE  Service!Deliver(p) \/ Service!Fail(p) \/ UNCHANGED Service!svars
<1>1. call[p].at = "scan" /\ call[p] \in Calls /\ data \in DataType
  BY DEF ScanRow, ScanStops, ScanEnds, IInv, TypeOK, DataType
<1>2. call[p] # Idle /\ Holds(p) /\ call[p].rows \in RowMap
  BY <1>1, CallFields DEF Idle, Holds
<1>3. ASSUME NEW k \in Keys, ScanRow(p, k) PROVE UNCHANGED Service!svars
  <2>. DEFINE c == [call[p] EXCEPT !.todo = @ \ {k}]
  <2>1. c.at = "scan" /\ c.rows = call[p].rows
    <3>1. call[p] \in [at : {"scan"}, req : {r \in Requests : r.op \in {"getall", "bycategory"}},
                       conn : Conns, rows : RowMap, todo : SUBSET Keys]
      BY <1>1 DEF Calls, Idle
    <3>. QED  BY <3>1
  <2>. HIDE DEF c
  <2>2. RequestOf(c) = RequestOf(call[p])
    BY <1>1, <2>1 DEF RequestOf
  <2>3. Proceed(p, c) /\ Untouched
    BY <1>3 DEF ScanRow, Untouched, pool, c
  <2>4. Pend' = Pend /\ Replies' = Replies
    BY <1>2, <2>2, <2>3, GoesOn
  <2>. QED  BY <2>3, <2>4, UntouchedIs DEF Service!svars, Pend, Replies, Seen, Content
<1>4. CASE ScanStops(p)
  <2>1. Untouched /\ Return(p, "error", NoRows)
    BY <1>1, <1>2, <1>4, ReleaseKeeps DEF ScanStops, Fails, Untouched
  <2>. QED  BY <1>2, <2>1, FailImplements
<1>5. CASE ScanEnds(p)
  <2>1. Untouched /\ Return(p, "nil", Scanned(p)) /\ call[p].todo = {}
    BY <1>1, <1>2, <1>5, ReleaseKeeps DEF ScanEnds, Untouched
  <2>2. Scanned(p) = call[p].rows
    BY <1>2, <2>1 DEF Scanned, RowMap
  <2>3. Pend[p] = [op |-> "deliver", rows |-> call[p].rows]
    BY <1>1, <1>2, Requested
  <2>4. Service!Answer(p, "nil", Pend[p].rows)
    <3>1. PICK rows : rows = Scanned(p)
      OBVIOUS
    <3>2. Return(p, "nil", rows)
      BY <2>1, <3>1 DEF Return
    <3>3. Service!Answer(p, "nil", rows)
      BY <3>2, Answers DEF Seen
    <3>4. rows = Pend[p].rows
      BY <2>2, <2>3, <3>1
    <3>. QED  BY <3>3, <3>4 DEF Service!Answer
  <2>5. Pend[p].op = "deliver"
    BY <2>3
  <2>. QED  BY <2>1, <2>4, <2>5, UntouchedIs DEF Service!Deliver, Pend, Content
<1>. QED  BY <1>3, <1>4, <1>5

LEMMA CloseImplements ==
  ASSUME IInv, NEW p \in Procs, Close(p)
  PROVE  Service!Close(p)
<1>1. boot.at = "ready" /\ call[p] = Idle /\ UNCHANGED boot
      /\ db' = [db EXCEPT !.closed = TRUE] /\ db \in DBType
      /\ data' = [x \in DOMAIN data |-> IF x \in free THEN None ELSE data[x]]
      /\ Shared \notin free /\ data \in DataType
  BY NamesAssumption DEF Close, IInv, TypeOK, DBType, DataType
<1>2. Content' = Content
  BY <1>1 DEF Content, DataType
<1>3. (boot.at = "ready" /\ ~db.closed)' = FALSE
  BY <1>1 DEF DBType
<1>4. Pend[p] = Service!Idle
  BY <1>1 DEF Pend, RequestOf, Idle, Service!Idle
<1>5. Service!Answer(p, "nil", Service!NoRows)
  BY Answers DEF Close, Seen, NoRows, Service!NoRows
<1>. QED  BY <1>2, <1>3, <1>4, <1>5 DEF Service!Close, Pend, Content

LEMMA InitImplements == Init => Service!Init
<1>. SUFFICES ASSUME Init PROVE Service!Init
  OBVIOUS
<1>1. data[Shared] \in {None, [s \in Slot |-> None]} /\ boot.at = "none"
  BY DEF Init
<1>2. Content \in [Slot -> Row \cup {None}]
  BY <1>1 DEF Content
<1>3. Pend = [p \in Procs |-> Service!Idle]
  BY DEF Init, Pend, RequestOf, Idle, Service!Idle
<1>4. Replies = [p \in Procs |-> [err |-> "nil", rows |-> Service!NoRows]]
  BY DEF Init, Replies, Seen, NoResult, NoRows, Service!NoRows
<1>. QED  BY <1>1, <1>2, <1>3, <1>4
          DEF Service!Init, Content, Pend, Replies, Seen, Service!Slot, Slot, Service!Row, Row

\* Every step is a step of the abstract storage, or shows nothing.
LEMMA StepImplements == IInv /\ Serving /\ [Next]_vars => [Service!Next]_Service!svars
<1>. SUFFICES ASSUME IInv, Serving, [Next]_vars PROVE [Service!Next]_Service!svars
  OBVIOUS
<1>1. CASE \/ \E file \in Files \cup {""} : NewStorage(file)
           \/ \E o \in Options : ApplyOption(o)
           \/ Construct
  BY <1>1, ConstructImplements DEF Service!Next
<1>2. ASSUME NEW p \in Procs, NEW r \in Requests, Begin(p, r) PROVE Service!Next
  <2>1. r \in Service!Requests
    BY DEF Requests, Service!Requests, Slot, Service!Slot, Row, Service!Row
  <2>. QED  BY <1>2, <2>1, BeginImplements DEF Service!Next
<1>3. ASSUME NEW p \in Procs, Acquire(p) \/ StopWaiting(p)
      PROVE  [Service!Next]_Service!svars
  BY <1>3, WaitImplements DEF Service!Next
<1>4. ASSUME NEW p \in Procs, ExecFails(p) \/ Busy(p) \/ Get(p) \/ Set(p) \/ Delete(p)
      PROVE  Service!Next
  BY <1>4, ExecFailsImplements, GetImplements, WriteImplements DEF Service!Next
<1>5. ASSUME NEW p \in Procs, GetAll(p) \/ GetByCategory(p) PROVE Service!Next
  BY <1>5, QueryImplements DEF Service!Next
<1>6. ASSUME NEW p \in Procs, (\E k \in Keys : ScanRow(p, k)) \/ ScanStops(p) \/ ScanEnds(p)
      PROVE  [Service!Next]_Service!svars
  BY <1>6, ScanImplements DEF Service!Next
<1>7. ASSUME NEW p \in Procs, Close(p) PROVE Service!Next
  BY <1>7, CloseImplements DEF Service!Next
<1>8. CASE UNCHANGED vars \/ \E c \in Conns : Retire(c)
  <2>1. UNCHANGED <<boot, db, data, call, res>>
    BY <1>8 DEF vars, Retire
  <2>. QED  BY <2>1 DEF Service!svars
<1>. QED  BY <1>1, <1>2, <1>3, <1>4, <1>5, <1>6, <1>7, <1>8 DEF Next, Continue

\* A SQL storage whose connections all see the same database is the Storage of the
\* interface: each call takes effect at one moment, GetAll and GetByCategory see one moment
\* though they read row by row, a failed call returns no rows, a call begun after Close
\* fails, and what was written is there when it is constructed again. With ":memory:" it is
\* not so: each connection has a table of its own.
THEOREM SQLImplements == ASSUME Lasting PROVE Spec => ImplementsStorage
<1>. QED  BY InitInv, StepInv, InitServing, StepServing, InitImplements, StepImplements, PTL
          DEF Spec, ImplementsStorage, Service!Spec

=============================================================================
