# userprefs: specifications, model checking and proofs

TLA+ modules that model [userprefs](https://github.com/CreativeUnicorns/userprefs),
a Go library that keeps typed, optionally encrypted per-user preferences in a
storage backend, behind an optional cache, and the server command that offers
its definitions over HTTP. TLC checks the modules on small instances, TLAPS
proves the most important results for every instance.

## 1. The system

| component | state it keeps | operations | how it meets the others |
|---|---|---|---|
| Manager (`manager.go`) | none of its own but the configuration; every call carries local state from step to step | `Get`, `Set`, `Delete`, `GetAll`, `GetByCategory`, `DefinePreference`, `GetDefinition` | calls cache and storage, starts a goroutine that warms the cache |
| Definitions registry (`Config.definitions`) | map key -> definition, under an RWMutex | register, look up, snapshot | read at the start of every call; may change under a call in progress |
| Validation (`validation.go`) | none | type check, `AllowedValues`, `ValidateFunc` | called by `Set` |
| Value codec (`encryptValue`, `decryptValue`, `encryption/`) | the AES key | encrypt, decrypt | called on the way to and from the storage; cached values are in clear |
| MemoryCache (`cache/memory.go`) | map of items with expirations, closed flag, stop channel, `sync.Once` | `Get`, `Set`, `Delete`, `Close`, sweep | called by any number of goroutines |
| RedisCache (`cache/redis.go`) | a Redis client | construct, `Get`, `Set`, `Delete`, `Close` | entries outlive the process; commands may arrive after their caller gave up |
| MemoryStorage (`storage/memory.go`) | map of maps of `*Preference` | `Get`, `Set`, `Delete`, `GetAll`, `GetByCategory`, `Close` | never fails; must not share its objects |
| SQLite, PostgreSQL (`storage/`) | one table, a pool of connections | construct, migrate, the same calls, row scanning | may fail before or after the write; waits for connections |
| API server (`api/`) | an `http.Server` | define, look up, list, health; start, stop | a goroutine per request, all on one Manager |
| Server command (`cmd/userprefs-server`) | where `main` stands, the signal channel | start, wait for a signal, graceful stop | starts the serving goroutine, closes the cache at the end |
| Logger, examples | - | - | - |

What is hard. No lock spans two steps of a Manager call: between `storage.Set`
and `cache.Set`, or between a `Get`'s storage read and the write of what it read
to the cache, any other call may run. `GetAll` leaves a goroutine behind that
writes to the cache when it pleases. Cache errors are logged and swallowed. A
storage call may fail after it was applied. A Redis cache survives a crash
between two writes, and a command whose answer was lost may still arrive.
Definitions may be replaced under a call, encryption included. The MemoryCache's
flag is read without its lock and `Close` races with everything. The SQL
storages hold a connection while they read row by row, and every way out must
give it back. The in-memory storage hands out pointers. The server's listener
fails, or is shut down before it is open, in a goroutine `main` never waits for.

What makes each part correct:

- Manager: it is a preference service (a write takes effect once, a read
  returns something the slot held); the cache agrees with the storage except
  where one of a short list of things happened, and comes to agree in the end;
  encrypted keys are never stored in clear, stay readable, and are in clear on
  the way out;
- caches: linearizable (Redis: but for writes whose answer was lost), respect
  expirations, can be closed at any time, every call returns;
- storages: linearizable, a read of many rows sees one moment, nothing is shared
  with callers, no connection leaks, a failed constructor leaves nothing behind;
- server: definitions accepted are found; the cache is closed behind the last
  request; every signal ends the process; it does not stay up without serving.

`PROJECT.json` lists the hazards one by one, at their lines, with the
properties that cover them.

## 2. The modules

| module | what it is |
|---|---|
| `PrefService` | abstract: what the Manager promises its callers |
| `PrefManager` | the Manager with its definitions, codec, storage and cache |
| `PrefManagerRefinement` | the mapping under which `PrefManager` implements `PrefService` |
| `PrefManagerClaims` | statements of comments that the code does not keep |
| `PrefManagerProofs` | lemmas on values and calls, type correctness; the inductive invariant behind coherence |
| `PrefManagerHistory` | what the history variables say: nothing in clear at rest, nothing unstored in the cache, what was accepted is readable, callers get no ciphertext |
| `PrefManagerRefinementProofs` | the Manager implements `PrefService`, step by step |
| `CacheService` | abstract: the `Cache` interface, linearizable, with a `Close` |
| `MemoryCache`, `MemoryCacheProofs` | the in-memory cache, at the grain of its lock and its flag; its invariant, and that it implements `CacheService` |
| `LateCacheService` | abstract: a cache behind a network, where a write whose answer was lost may happen once more |
| `RedisCache`, `RedisCacheProofs` | the Redis cache with the client's pool, retries and timeouts; types, and that it implements `LateCacheService` |
| `StorageService` | abstract: the `Storage` interface, linearizable; `Medium` says where SQL and memory differ |
| `MemoryStorage`, `MemoryStorageProofs` | the maps of objects and who can reach them; nothing is shared, and it implements `StorageService` |
| `SQLStorage`, `SQLStorageProofs` | both SQL storages, construction, pool, statements and rows; types, connections, construction, and that they implement `StorageService` |
| `Server`, `ServerProofs` | the command and its HTTP API; types, shutdown order, definitions |
| `MC...` | values, definitions, options and symmetry for TLC |

How they compose. `PrefManager` has the storage and the cache as variables whose
steps are atomic: that is what `StorageService` and `CacheService` promise, and
what `MemoryStorage`, `SQLStorage` and `MemoryCache` are shown to implement. Its
fault modes are what `StorageService` allows a SQL storage (`Fail`: an error,
applied or not) and what a cache may do. `RedisCache` implements
`LateCacheService` only, which is weaker than the cache `PrefManager` uses; see
section 5.

### PrefManager and the code

| variable | code |
|---|---|
| `defs` | `m.config.definitions` |
| `store[<<u, k>>]` | the storage's row of user `u`, key `k` |
| `cache[<<u, k>>]` | the cache's entry `pref:u:k`, unmarshalled |
| `call[p]` | the Manager call goroutine `p` is in, with its locals; `at` names the next shared access |
| `warm[p]` | `prefsToCache` of the goroutine that `p`'s last `GetAll` started |
| `res[p]` | what `p`'s last call returned |
| `past`, `offered`, `dirty` | history: payloads stored, definitions registered, slots disturbed |

Each action is one atomic access to shared state with the computation up to the
next one: `GetStart` (input check and `GetDefinition`), `GetCache`,
`GetStorage` (with decryption), `GetFill` (`setToCache`); `SetStart` (checks,
validation, encryption), `SetStorage`, `SetCache`; `DelStart`, `DelStorage`,
`DelCache`; `AllStart` (snapshot of the definitions), `AllStorage`, `WarmStep`
(one write of the warming goroutine); `ByCategoryStart` (the query),
`ByCategoryDef` (one definition lookup of the loop); `DefinePreference`;
`Expire` (the TTL); `Crash` (the process dies and starts again).

A value is a payload with a form: as the caller passed it (`native`), decoded
from JSON without its Go type (`json`: an int has become a float64), or a
ciphertext (`cipher`). `Kind`, `Unencodable`, `Blank`, `Parses` give the payload's
Go type, whether JSON takes it, whether the encryption leaves it as it is (nil
and the empty string), and the types its plaintext unmarshals as; so encryption,
decryption and both JSON round trips are modelled by what they do to the value.
`AllowedValues` and `ValidateFunc` are the set `admits` of a definition.
`UpdatedAt`, wording of errors and logging are left out. Modes choose the
deployment: `HasCache`, `HasEncryption`, `Backend` ("memory", or "sql" for SQLite
and PostgreSQL, whose upserts are the same), `CacheDurable` (Redis), and which
calls may fail.

A slot is `dirty` once something was done that the code cannot keep coherent:
the storage changed while another goroutine held a copy for the cache
(`Carries`), a cache write or delete failed or did not marshal, a storage call
failed after it was applied, the key was redefined with another definition, a caller
wrote to a preference the warming goroutine is about to cache, or the process
died between the two writes while the cache survived. Deleting or expiring the
entry with no copy on its way makes the slot clean again (`Healed`).

### MemoryCache and the code

`items`, `closed`, `stop`, `once` are the struct's fields; `lock` is `mu` where
it is held over several steps (`Close`, the sweep); the other critical sections
are one map access and one action, taken when nobody holds `lock`. `isClosed`
is read when a call begins, without the lock (`Begin`). `CloseOnce` is
`once.Do`; `CloseStop`, `CloseClear`, `CloseMark` are the assignments under the
lock in their order. `GcTick`/`GcExit` are the two cases of the select. An
item's expiration is never, running or over; `Elapse` lets it pass.

### RedisCache and the code

`boot`, `cfg`, `client` follow `NewRedisCache`: options, `redis.NewClient`, the
ping, whose failure closes the client. `Get`, `Set`, `Delete` send one command;
`Set` maps a TTL that is not positive to "no expiration" (`Expiration`). The
client is external: `Acquire` takes a connection of the pool or times out,
`Serve` is the server running the command, `Reply` its answer, `Lost` an attempt
without one. Then the command may be in `wire`, from where it arrives later
(`Arrive`) or never, while `GiveUp` tries again until the retries are used up.

### MemoryStorage and the code

`prefs` is the map of maps, to objects; `heap` says what each `Preference` object
contains; `held` which objects a caller has a pointer to. A call's critical section is
one action. `Keep` copies the caller's object into the map, `Hand` copies what
Get, GetAll and GetByCategory found; a caller may write to any object it has, at any
time (`CallerWrites`). An object is named by where it is made, so there is a fixed number
of them, and one made again replaces one that nobody reaches any more.

### SQLStorage and the code

One module for `sqlite.go` and `postgres.go`, which differ in their options and
DSN, in the limits of the pool and in locking. `NewStorage`, `ApplyOption`,
`Open`, `Ping`, `Migrate` are the constructor; `GiveUp` its error paths. A call
marshals (`Begin`), gets a connection (`Acquire`, or its context ends:
`StopWaiting`), runs its statement (`Get`, `Set`, `Delete`, `Query`, `ExecFails`,
`Busy`), and GetAll and GetByCategory then read row by row (`ScanRow`,
`ScanStops`, `ScanEnds`), the connection in their hands. `Release` gives it back:
it is kept if it works and there is room. `Retire` is the pool's connection
lifetime. External: database/sql's pool and the database. A connection to
`:memory:` has a database of its own (`Place`), which goes with the connection.
A SQLite database without a WAL keeps writers out while somebody reads
(`LockedOut`).

### Server and the code

`main` goes through `Setup`, `Go` (the serving goroutine), `Notify`, `Wait`,
`Receive` (and the begin of `Shutdown`), `Drain`, `CloseCache`, `Exit`; `serve`
through `Listen`, `Bind`, `Serve`, `ServeReturns`. A signal kills the process
before `Notify`; then it goes to the channel, which holds one. A request is
decoded, handled and answered (`Decode`, `Define`, `Get`, `ListOrHealth`,
`Respond`), and `Answer` says which error becomes which status. `known` is
history: the keys that were defined when the request came.

## 3. The runs

| run | instance | checks |
|---|---|---|
| `cached` | 2 goroutines, 1 key, all cache faults, restarts, `FairSpec` | `CoherentUnlessDisturbed`, `ImplementsService`, `Converges` |
| `linearizable` | no cache, SQL, 2 goroutines, 2 keys, indefinite failures | `ImplementsService` with `Stale` false: linearizability, `GetAll` a snapshot |
| `restart` | SQL and Redis, 2 goroutines, redefinitions, crashes, both storage failures | `CoherentUnlessDisturbed`, `NothingUnstored` |
| `redefined` | 1 goroutine, all operations, definitions plain, encrypted, invalid, NaN, int and nil values, failures, crashes, callers that write | `TypeOK`, `CoherentUnlessDisturbed`, `SealedAtRest`, `StoredReadable`, `ClearToCallers` |
| `memory_cache` | 3 goroutines, 1 key, `FairSpec` | `TypeOK`, `ClosedOnReturn`, `CallsReturn`, `SweeperEnds`, `ImplementsCache` |
| `redis_cache` | 2 goroutines, 1 key, 0 or 1 retries, 1 or 2 connections, all faults, `FairSpec` | `TypeOK`, `CallsReturn`, `ImplementsLateCache` |
| `memory_storage` | 2 goroutines, 2 keys, 2 categories | `TypeOK`, `Isolated`, `NoEmptyMaps`, `ImplementsStorage` |
| `sql_storage` | both drivers, 2 goroutines, 2 keys, 1 or 2 connections, all faults, close and construct again, `FairSpec` | `TypeOK`, `NothingLeaks`, `ConstructorSound`, `CallsReturn`, `ImplementsStorage` |
| `server` | 2 requests, 2 signals, all faults, `FairSpec` | `TypeOK`, `ShutdownInOrder`, `DefinedIsFound`, `SignalEnds`, `NoIdleProcess` |
| `stale_at_rest` | 1 goroutine, no faults | violates `CacheConsistentAtRest` |
| `unreadable` | 1 goroutine, an encrypted JSON key | violates `DecryptsWhatSetStored` |
| `sql_volatile` | SQLite, `:memory:`, 2 goroutines, no faults | violates `SchemaInPlace` |

Bounds. All instances have one user; slots of different users meet nowhere in
the code but in the format of the cache key (section 6). Two goroutines are
enough for every race between two calls, and each `GetAll` of the Manager adds a
third, the warming one (one per caller: guard of `AllStart`); two payloads tell
an old value from a new one. `redefined` has one goroutine: its questions are
about sequences of calls and the warming goroutine, and the theorems cover any
number. Three goroutines in `memory_cache` let a Set that passed the closed
check, a Get that did too, and a Close meet; the TTL tells one entry from the
next, so one value suffices, in `redis_cache` too. Two keys in the storages make a read of
many rows differ from one of a single row, and categories tell an old object
from a new one in `memory_storage`. `sql_storage` has two connections, so that one can be
free, busy or broken while another is made, and a single category: that the
upsert keeps the category, and what the filter of GetByCategory selects, is in
`StorageService` and `PrefManager`, and adding a second category multiplies the states
without a new order of steps. In `server` the number of requests and signals
is bounded (`Requests`, `MaxSignals`): two requests are a definition and a
lookup, two signals fill the channel. The other state spaces are finite because payloads
and definitions are. `SYMMETRY` is used by runs without liveness only.
`CHECK_DEADLOCK FALSE` is set where the system may stop: the server process ends, and
the SQL instances may come to rest with a storage that is closed or could not be opened.

Fairness.

- `PrefManager`: a goroutine in a call goes on (`WF(Continue)`: the code never
  waits for another call but for the registry's RWMutex), the warming goroutine
  goes on, and an entry that nobody rewrites expires. The last is
  `WF(Expire \/ Rewrite)`: an entry rewritten again and again may live on, since
  each write starts the 24 hours anew. Clients are not obliged to do anything.
- `MemoryCache`: strong fairness for getting the lock (Go's RWMutex lets a
  waiting writer in before new readers, and a mutex waiter that starved for 1 ms
  gets it next) and for the select's stop case (it picks at random among ready cases).
- `RedisCache`: the server answers or a timeout ends the attempt (weak), and
  callers get connections in the order they ask for them (strong fairness for `Acquire`, as it is
  not enabled while all are in use).
- `SQLStorage`: the database answers or a timeout does (the ping's, SQLite's busy timeout, the
  driver's); of the callers that wait for a connection
  database/sql serves one at random (strong fairness for `Acquire`). Nobody's
  context has to end: `StopWaiting` has no fairness, so `CallsReturn` does not
  rest on it.
- `Server`: goroutines are scheduled (weak), and the server's timeouts (read, write,
  idle, Shutdown's 30 s) end what a client delays. `Accept` need not fail and no
  signal has to come.

Each property of a passing run is also checked against a mutant: an operator
beside its original (`CacheTakesIfAbsent`, `ScanAbandoned`, `KeepPointer`,
`DrainAtOnce`, ...), with which TLC finds the property violated.

### What the violations show

- `stale_at_rest`: set 1; GetAll; set 2; now the goroutine GetAll started writes
  1 to the cache. One sequential client and no fault are enough, and Get
  answers 1 for up to 24 hours. Set's comment promises the opposite.
- `unreadable`: a Go string under an encrypted `json` key is encrypted without
  being marshalled, and does not unmarshal when it is decrypted: Get fails
  until somebody sets another value, and GetAll fails for the user's other keys too.
- `sql_volatile`: two calls at once on a storage made with `":memory:"`, and the
  second gets a connection of its own, to an empty database without the table.

More places where comments and code part, seen while modelling and not given a
run of their own:

- Manager. Set writes the cache through; its comment says it deletes the entry
  (`manager.go:218`). Get fills the cache before it returns; its comment says
  asynchronously (`manager.go:118`). After a redefinition a cached entry is
  returned with the old type, category and default; `types.go:19-21` says
  DefaultValue is populated on retrieval. For a stored row `Get` returns the
  row's default, `GetAll` the definition's. A Set stores the definition's type and
  category (`manager.go:216`), but the SQL upserts keep those of the row's first Set
  (`sqlite.go:48`, `postgres.go:170`).
- Codec. A Set that looked its definition up before the key was redefined as
  encrypted stores in clear after it (`manager.go:235`, `268`); `SealedAtRest` is
  therefore about keys that were never plain. `decryptValue` lets old
  unencrypted data through only if it is no string (`manager.go:619-625`): old
  strings fail to decrypt. An int comes back as a float64 from the cache and from
  SQL; `types.go:16-17` says Value conforms to Type. GetByCategory returns a row
  whose key is not defined as it is stored, ciphertext included.
- Interfaces. `Storage.Delete` must be idempotent with a nil error
  (`interfaces.go:27`); every storage returns ErrNotFound for a key it does not
  have, which the Manager maps to nil. `Close` must be safe to call several times
  (`interfaces.go:47`, `84`); the Redis client's second `Close` returns an error.
- MemoryCache. A Set that passed the closed check may leave its item behind
  after Close "clears all items" (`memory.go:114-116`).
- MemoryStorage. Its copies are shallow: a map or slice inside a payload is still shared,
  although a modified copy must not affect the stored data (`memory.go:35-38`).
- SQL. `MaxIdleConns` 0 is documented as "no idle connections are retained"
  (`postgres.go:49`), but a 0 is not passed on and leaves two. A connect timeout
  below a second becomes 0, which means none (`postgres.go:250`). scanPreferences
  says its map "will be nil" with an error (`sqlite.go:445`) and returns what it read so far.
  The migration has neither a context nor a timeout.
- RedisCache. `WithRedisMaxRetries` says 0 is no retries and -1 infinitely many
  (`redis.go:132-133`); to go-redis 0 is its default, three, and -1 none. The model has the
  client's reading.
- API. A definition with an empty key, or an encrypted one without an encryption
  adapter, is answered 500. No Manager call returns ErrAlreadyExists
  (`handlers_definitions.go:31`): the branch is dead. `AllowedValues` that came as
  JSON are float64s and refuse every Go int.
- Command. "Server exited gracefully" is logged, and the status is 0, after a
  Shutdown that timed out too (`main.go:86`).

## 4. The proofs

`tlapm` checks every module with theorems; they hold for arbitrary values of
the constants, from the named assumptions of the modules, all of which are about the
shape of the constants and are evaluated by the runs.

PrefManager (`KindAssumption`, `DataAssumption`, `CodecAssumption`,
`DefinitionAssumption`, `NoneAssumption`, `ModeAssumption`; `CodecAssumption` says that
json.Unmarshal takes back what json.Marshal wrote):

- `TypeCorrect`: `Spec => []TypeOK`. `TypeOK` is inductive because a call in
  progress carries the facts its next step needs: a `set.storage` call holds a
  value that encrypts, a `bycat.defs` call still has the preferences it has to
  decrypt. One lemma per operator on values, one per operation.
- `CacheCoherent`: with a cache, `Spec => []CoherentUnlessDisturbed`. The property is not
  inductive: a goroutine that holds an outdated copy breaks it one step later.
  The strengthening `Coherence` adds that every copy on its way to the cache (a
  `Get`'s, a `Set`'s, the warming goroutine's, and what a `GetAll` with
  outdated definitions is going to make) is current unless its slot is dirty.
- `Sealed`: `Spec => []SealedAtRest`. The strengthening says that the registry
  and every definition a call holds are among those `offered`; so a write in
  clear means that a plain definition was once registered.
- `NeverUnstored`: if no caller writes to a preference that GetAll returned to
  it (`"mutate" \notin Ops`), `Spec => []NothingUnstored`. The strengthening
  `Traced` says the same of the storage, of the copies that calls carry and of
  what the warming goroutines have left to write: each payload was stored in its
  slot or is a default its key has had. Without the assumption the result
  is false, since the goroutine that GetAll starts writes the very objects the caller got.
- `AcceptedIsReadable`: `Spec => []StoredReadable`, if no encrypted json definition admits
  a string that is not JSON text (`TextAdmitted`). The strengthening `WriteHistory` says
  that a Set that reached the storage was accepted by the definition it holds, and that every
  stored value is one that encryptValue made of a payload some definition of the key
  accepted (`WrittenAs`). Then it is a case distinction on that definition: decryptValue
  undoes encryptValue. The run `unreadable` shows what happens without `TextAdmitted`.
- `CallersSeeClear`: `Spec => ClearToCallers`. `ClearInv` adds to `WriteHistory` that a
  ciphertext in the storage, or read from it by a GetByCategory, comes from an encrypted
  definition of its key, and that the copies on their way to the cache are in clear. The
  proof corrected the property. Its first form said that a call never returns a ciphertext of a
  key that is defined when it returns; with two keys that is false: GetByCategory looks its
  keys up one after the other, keeps the ciphertext of one that is not defined yet, and
  another goroutine defines it before the call returns (TLC finds it with two keys and two
  goroutines). `InHand` now counts a value as given to the caller when it is looked up.
- `ManagerImplements`: `Spec => ImplementsService`, again if `"mutate" \notin Ops`. The storage
  call of a Set or Delete is the abstract write, and answers it unless a cache call
  follows, whose step is then `Done`; a Get takes effect at its cache hit, its storage read
  or, with a cache to fill, at its end; GetAll and GetByCategory read everything in their
  one storage call, and the lookups that follow stutter. `Attended` adds what the mapping
  needs: a definition is offered under its own key only, only a Manager with a cache uses
  one, the keys registered at the start are in every GetAll's snapshot, and who is in a call
  has no result yet. `Traced` is what makes a cache hit an answer the service allows.

MemoryCache (`NamesAssumption`: the names are distinct):

- `CacheTypeCorrect` and `CloseCloses`: `Spec => []TypeOK` and
  `Spec => []ClosedOnReturn`. A Close that finds the Once done returns without
  looking at anything, so `OnceInv` is needed: the Once is done exactly when the cache is
  closed, only the goroutine that runs it is past it, the channel is closed
  before the items are cleared, and a caller in a call has no result yet.
- `CacheImplements`: `Spec => ImplementsCache`. Get, Set, Delete map to their abstract
  operations in their critical section; `Begin` to the request or its
  refusal; `CloseClear` and `CloseMark` to the two visible steps of Close; `Elapse`
  to the expiration, after which the sweep shows nothing; the steps with the Once,
  the lock and the channel stutter. `OnceInv` is what keeps `CloseClear`
  from coming after the cache was closed.

MemoryStorage (`NamesAssumption`):

- `StorageTypeCorrect` and `NothingShared`: `Spec => []TypeOK` and `Spec => []Isolated`. Both
  follow from `Placed`: an object in the map is the one Set made for that slot, an object
  in a caller's hands is one that caller made or was given. It holds after a step only because
  every way in and out copies.
- `MapsHoldKeys`: `Spec => []NoEmptyMaps`. It is inductive together with the types: only Delete
  takes keys out of a map, and it removes the map of a user it leaves without any.
- `StorageImplements`: `Spec => ImplementsStorage`. Every call maps to its abstract
  operation; `CallerWrites` stutters, which is `Isolated` at work: the object written is no slot's.

SQLStorage (`DriverAssumption`, `FileAssumption`, `OptionAssumption`,
`FaultAssumption`, `PoolAssumption`, `NamesAssumption`):

- `SQLTypeCorrect`, `LeakFree` and `ConstructedWhole`: `TypeOK`, `NothingLeaks` and
  `ConstructorSound` in every reachable state, for any number of callers, any
  limits of the pool and any faults. The strengthening `Constructing` says that only a ready storage
  has callers, that only one that is ready or migrating has connections, and
  that a value on its way to the table was marshalled. One lemma says what `Release` does to
  the pool; it serves every way out of a call.
- `SQLImplements`: `Spec => ImplementsStorage`, if `":memory:"` is not among the files
  (`Lasting`): the run `sql_volatile` shows that it is false otherwise. A statement takes
  effect where it runs, with its answer or, for a query, with the rows still to be
  scanned (`deliver`); construction, the pool and the scan stutter. `Serving` adds that no
  configuration is volatile, that a constructor works on an open sql.DB, and that who
  is in a call has no answer yet; with `ConstructorSound` every connection of a ready
  storage then sees the one table.

RedisCache (`OptionAssumption`, `LibraryAssumption`, `NamesAssumption`):

- `RedisTypeCorrect`: `Spec => []TypeOK`, which says that no more commands are under way than
  the pool has connections. `Calling` adds that finitely many goroutines hold a connection
  (so that counting them means something), that only a ready cache has callers, that
  these have no reply yet, and that a command asks for the expiration its caller asked for
  (`Honest`).
- `RedisImplements`: `Spec => ImplementsLateCache`. A command takes effect when the server runs it;
  an attempt whose answer was lost leaves its command on the `wire`, from where it may be run
  once more. It assumes that there are keys at all: closing a closed cache
  fails, and the failure is shown as a refused request, which needs a key to be one.

Server (`BuiltInAssumption`, `SignalAssumption`, `VersionAssumption`):

- `ServerTypeCorrect`, `ShutdownOrdered` and `DefinedFound`: `TypeOK`, `ShutdownInOrder` and
  `DefinedIsFound`. The strengthenings: `Stages` (where `main` stands says what
  it has done, and once Shutdown returned in time nothing is active) and
  `Registry` (what is defined stays defined, and what requests were told
  agrees with it).

Only model-checked: liveness (`Converges`, `CallsReturn`, `SweeperEnds`,
`SignalEnds`, `NoIdleProcess`), which is out of the prover's reach. Every
invariant, action property and refinement that a passing run checks has its theorem.

## 5. Not modelled

- AES-GCM and key derivation: encryption is an injective function. The empty string, which
  it leaves as it is, is in the set `Blank` with nil; the instances have nil only.
- The panic of `AllowedValues` on uncomparable values (maps, slices), and the
  rounding of ints above 2^53 by JSON.
- Maps and slices inside a payload, which the in-memory storage shares with its callers.
- A Redis write that arrives late, under the Manager: `PrefManager`'s cache calls fail or succeed
  at once. `RedisCache` shows what a late write can be: an old one, once more. For the Manager it
  is one more reason for a stale entry until the TTL.
- `UpdatedAt`, wording of errors, logging, middleware that only logs, the
  examples. A cancelled context appears as the storage or cache failure it causes.
- Redis options that say where the server is and how long to wait: no step depends on them.

## 6. Plan

Done: the Manager with its abstract service, claims and proofs; the caches; the storages;
the server; their runs; the theorems of section 4.

Left, in this order:

1. Two Managers on one storage and one Redis; the Manager over `LateCacheService`.
2. The format of the cache key (`pref:%s:%s` is not injective), and the panic in validation.
