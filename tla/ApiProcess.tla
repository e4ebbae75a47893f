----------------------------- MODULE ApiProcess -----------------------------
(***************************************************************************)
(* The whole API process: main loads and validates the settings, opens the *)
(* database pool, migrates the schema where that is enabled, connects to   *)
(* Redis and runs the services of module Lifecycle, whose HTTP server      *)
(* answers readiness probes while PostgreSQL, its schema and Redis come    *)
(* and go.                                                                 *)
(*                                                                         *)
(* A setting is a number or a yes/no question that Validate or a later     *)
(* step asks of it.  Durations are int64 nanoseconds: a second is Second   *)
(* of them, and they wrap at Word.                                         *)
(***************************************************************************)
EXTENDS Lifecycle

CONSTANTS
  Conns,            \* settings of the pool sizes
  DefaultOpen, DefaultIdle,
  Seconds,          \* settings of durations
  DefaultSeconds,
  Second,           \* 10^9 in the code
  Word              \* 2^64 in the code

ASSUME ProcessAssumption ==
  /\ Conns \subseteq Int
  /\ Seconds \subseteq Int
  /\ DefaultOpen \in Nat /\ DefaultIdle \in 1..DefaultOpen
  /\ {DefaultSeconds, Second, Word} \subseteq Nat \ {0}
  /\ Word % 2 = 0
  /\ DefaultSeconds * Second < Word \div 2

VARIABLES
  phase,     \* where main is
  cfg,       \* the settings that the servers read
  pool,      \* dbs.Config, until the pool is open
  overflow,  \* an accepted duration does not fit its type
  postgres,  \* PostgreSQL answers
  tables,    \* it has every table that the service uses
  migrated,  \* its migration record is current and clean
  redis,     \* Redis answers
  probe,     \* where the readiness probe is
  checks,    \* the components it has found ready before the last one
  held,      \* what was usable at some time of the probe
  ready      \* the last answer was "ready"

world == <<postgres, tables, migrated, redis>>
probing == <<probe, checks, held, ready>>
main == <<phase, cfg, pool, overflow>>
pvars == <<vars, main, world, probing>>

----------------------------------------------------------------------------
(* config *)

Settings ==
  [environment : {"development", "production", "staging"},
   autoMigrate : BOOLEAN,
   flag : {"unset", "parsable", "malformed"},   \* the optional booleans
   secret : {"placeholder", "short", "long"},
   ports : BOOLEAN, redisURI : BOOLEAN, databaseURI : BOOLEAN,
   maxOpen : Conns, maxIdle : Conns,
   lifetime : Seconds, idleTime : Seconds, interval : Seconds]

intOrDefault(n, default) == IF n = 0 THEN default ELSE n

Wrap(n) == ((n + Word \div 2) % Word) - Word \div 2

secondsOrDefault(n) == Wrap((IF n <= 0 THEN DefaultSeconds ELSE n) * Second)

RefuseNegatives(s) == \A n \in {s.maxOpen, s.maxIdle, s.lifetime, s.idleTime} : n >= 0

validateDatabasePoolConfig(s) ==
  /\ \A n \in {s.maxOpen, s.maxIdle, s.lifetime, s.idleTime} : n >= 0
  /\ intOrDefault(s.maxIdle, DefaultIdle) <= intOrDefault(s.maxOpen, DefaultOpen)

validateOptionalBool(s) == s.flag # "malformed"

isPlaceholderAuthSecret(s) == s.secret = "placeholder"

Validate(s) ==
  /\ s.environment \in {"development", "production"}
  /\ validateDatabasePoolConfig(s)
  /\ validateOptionalBool(s)
  /\ s.environment = "production" =>
       /\ ~isPlaceholderAuthSecret(s) /\ s.secret # "short"
       /\ s.ports /\ s.databaseURI /\ s.redisURI
       /\ ~s.autoMigrate

----------------------------------------------------------------------------
(* main *)

\* The dbs.Config that main builds from the getters.
PoolConfig(s) ==
  [uri |-> s.databaseURI,
   open |-> intOrDefault(s.maxOpen, DefaultOpen),
   idle |-> intOrDefault(s.maxIdle, DefaultIdle),
   lifetime |-> secondsOrDefault(s.lifetime),
   idleTime |-> secondsOrDefault(s.idleTime)]

Exit(how) == phase' = how /\ pool' = {}

LoadConfig ==
  /\ phase = "load"
  /\ \E s \in Settings :
       IF Validate(s)
       THEN /\ phase' = "connect"
            /\ cfg' = [autoMigrate |-> s.autoMigrate,
                       interval |-> secondsOrDefault(s.interval)]
            /\ pool' = {PoolConfig(s)}
            /\ overflow' = (\E n \in {s.lifetime, s.idleTime, s.interval} :
                              n * Second >= Word \div 2)
       ELSE Exit("exited") /\ UNCHANGED <<cfg, overflow>>
  /\ UNCHANGED <<vars, world, probing>>

validateConnectionPoolConfig(p) ==
  /\ p.open > 0 /\ p.idle > 0 /\ p.idle <= p.open
  /\ p.lifetime > 0 /\ p.idleTime > 0

\* gorm.Open pings the server.
NewDatabase ==
  /\ phase = "connect"
  /\ \E p \in pool :
       \/ ~p.uri /\ Exit("exited")
       \/ p.uri /\ ~validateConnectionPoolConfig(p) /\ Exit("bad pool")
       \/ p.uri /\ validateConnectionPoolConfig(p) /\ postgres /\ Exit("migrate")
       \/ p.uri /\ validateConnectionPoolConfig(p) /\ Exit("exited")
  /\ UNCHANGED <<vars, cfg, overflow, world, probing>>

\* AutoMigrate makes the tables but no migration record.
migrateDatabase ==
  /\ phase = "migrate"
  /\ \/ ~cfg.autoMigrate /\ phase' = "redis" /\ UNCHANGED tables
     \/ cfg.autoMigrate /\ postgres /\ tables' = TRUE /\ phase' = "redis"
     \/ cfg.autoMigrate /\ phase' = "exited" /\ UNCHANGED tables
  /\ UNCHANGED <<vars, cfg, pool, overflow, postgres, migrated, redis, probing>>

NewRedis ==
  /\ phase = "redis"
  /\ \/ redis /\ phase' = "run"
     \/ phase' = "exited"
  /\ UNCHANGED <<vars, cfg, pool, overflow, world, probing>>

\* Before signal.NotifyContext a signal kills the process.
KilledEarly ==
  /\ phase \in {"load", "connect", "migrate", "redis"}
  /\ Exit("exited")
  /\ UNCHANGED <<vars, cfg, overflow, world, probing>>

\* lifecycle.Run.  A probe ends with the HTTP server: Shutdown waits for it,
\* or its answer comes too late for anyone.
Running(A) ==
  /\ phase = "run"
  /\ A
  /\ IF pc'["http"] = "serve"
     THEN UNCHANGED probing
     ELSE probe' = "idle" /\ checks' = {} /\ held' = {} /\ ready' = FALSE
  /\ UNCHANGED <<main, world>>

MainReturns ==
  /\ phase = "run"
  /\ runner = "returned"
  /\ phase' = "exited"
  /\ UNCHANGED <<vars, cfg, pool, overflow, world, probing>>

\* time.NewTicker in runOutboxPublisherLoop
TickerPanics ==
  /\ phase = "run"
  /\ loop["publisher"] = "running"
  /\ cfg.interval <= 0
  /\ phase' = "panicked"
  /\ UNCHANGED <<vars, cfg, pool, overflow, world, probing>>

----------------------------------------------------------------------------
(* PostgreSQL, operators' migrations and Redis *)

\* What readiness promises.  A process that makes the tables itself asks for
\* no migration record.
Dependencies == {"tables", "migration", "redis"}

Usable ==
  {d \in Dependencies :
     \/ d = "tables" /\ postgres /\ tables
     \/ d = "migration" /\ postgres /\ (migrated \/ cfg.autoMigrate)
     \/ d = "redis" /\ redis}

\* A record may be there without the tables, and tables without a record.
WorldChanges ==
  /\ postgres' \in BOOLEAN
  /\ redis' \in BOOLEAN
  /\ tables' \in BOOLEAN
  /\ migrated' \in BOOLEAN

\* They come and go at any time.  Only main's setup and the probe look: what
\* happens between two probes happens as the next one begins.
Outage ==
  /\ phase \in {"load", "connect", "migrate", "redis"} \/ (phase = "run" /\ probe # "idle")
  /\ WorldChanges
  /\ UNCHANGED <<vars, main, probe, checks, ready>>
  /\ held' = IF probe = "idle" THEN {} ELSE held \cup Usable'

----------------------------------------------------------------------------
(* /readyz *)

HasTables == postgres /\ tables

\* validateMigrationState of schema_migrations
MigrationReady == postgres /\ migrated

ProbeBegins ==
  /\ phase = "run"
  /\ pc["http"] = "serve"
  /\ probe = "idle"
  /\ probe' = "ping"
  /\ checks' = {}
  /\ ready' = FALSE
  /\ WorldChanges
  /\ UNCHANGED <<vars, main>>
  /\ held' = Usable'

\* A check that finds the dependency ready goes on; one that does not, or
\* that times out, ends the checks of that dependency.
Check(here, found, next) ==
  /\ phase = "run"
  /\ probe = here
  /\ \/ /\ found
        /\ probe' = next
        /\ checks' = IF next = "redis" THEN checks \cup {"postgres"} ELSE checks
     \/ probe' = "redis" /\ UNCHANGED checks
  /\ UNCHANGED <<vars, main, world, held, ready>>

PingPostgres == Check("ping", postgres, "tables")

MigrationCheckInverted ==
  Check("tables", HasTables, IF cfg.autoMigrate THEN "migration" ELSE "redis")

CheckTables ==
  Check("tables", HasTables, IF cfg.autoMigrate THEN "redis" ELSE "migration")

CheckMigration == Check("migration", MigrationReady, "redis")

\* The last check, and the answer: "ready" if every component was.
PingRedis ==
  /\ phase = "run"
  /\ probe = "redis"
  /\ \/ redis /\ ready' = (checks = {"postgres"})
     \/ ready' = FALSE
  /\ probe' = "idle"
  /\ checks' = {}
  /\ held' = {}
  /\ UNCHANGED <<vars, main, world>>

readiness == ProbeBegins \/ PingPostgres \/ CheckTables \/ CheckMigration \/ PingRedis

----------------------------------------------------------------------------
ProcessInit ==
  /\ Init
  /\ phase = "load"
  /\ cfg = [autoMigrate |-> FALSE, interval |-> 0]
  /\ pool = {}
  /\ overflow = FALSE
  /\ postgres \in BOOLEAN
  /\ tables \in BOOLEAN /\ migrated \in BOOLEAN
  /\ redis \in BOOLEAN
  /\ probe = "idle"
  /\ checks = {}
  /\ held = {}
  /\ ready = FALSE

Setup == LoadConfig \/ NewDatabase \/ migrateDatabase \/ NewRedis

ProcessNext ==
  \/ Setup \/ KilledEarly
  \/ Running(Next) \/ MainReturns \/ TickerPanics
  \/ readiness
  \/ Outage

\* main and the goroutines of the services keep running and their waits are
\* bounded; neither a signal nor the failure of a listener has to happen, and
\* the world owes nothing.
ProcessFairness ==
  /\ WF_pvars(Setup)
  /\ WF_pvars(Running(RunHTTP))
  /\ WF_pvars(Running(RunGRPC))
  /\ WF_pvars(Running(Select \/ Return))
  /\ \A l \in Loops : WF_pvars(Running(LoopEnds(l)))
  /\ WF_pvars(MainReturns)

ProcessSpec == ProcessInit /\ [][ProcessNext]_pvars /\ ProcessFairness

----------------------------------------------------------------------------
(* Properties *)

\* Every variable has its type, and the services' variables move only while
\* main is in lifecycle.Run.
ProcessTypeOK ==
  /\ TypeOK
  /\ phase \in {"load", "connect", "migrate", "redis", "run", "exited", "bad pool", "panicked"}
  /\ cfg.autoMigrate \in BOOLEAN
  /\ cfg.interval \in -(Word \div 2)..(Word \div 2 - 1)
  /\ Cardinality(pool) <= 1
  /\ pool # {} => phase = "connect"
  /\ overflow \in BOOLEAN
  /\ postgres \in BOOLEAN /\ redis \in BOOLEAN
  /\ tables \in BOOLEAN /\ migrated \in BOOLEAN
  /\ probe \in {"idle", "ping", "tables", "migration", "redis"}
  /\ checks \subseteq {"postgres"}
  /\ held \subseteq Dependencies
  /\ ready \in BOOLEAN
  /\ phase \in {"load", "connect", "migrate", "redis"} => runner = "select" /\ failed = {}

\* Settings that config.Validate accepts are good for what reads them later:
\* dbs.NewDatabase never refuses their pool and the publisher's ticker never
\* panics, unless a number of seconds overflows time.Duration.
SettingsHold == phase \in {"bad pool", "panicked"} => overflow

\* The probe answers "ready" only if the tables, the migration record where one
\* is asked for, and Redis were each usable at some time while it ran, although
\* its four checks see the world at different times.
ReadyMeansUsable ==
  [][probe = "redis" /\ probe' = "idle" /\ ready' => held = Dependencies]_pvars

\* Why both hold.  Unless one overflows, the settings that main goes on with
\* are good, and the pool is the one that it built from them.
SettingsGood ==
  /\ \A p, q \in pool : p = q
  /\ \A p \in pool : overflow \/ validateConnectionPoolConfig(p)
  /\ phase \in {"connect", "migrate", "redis", "run"} => overflow \/ cfg.interval > 0

\* A probe runs only while main does; it holds what has been usable since it
\* began, among it what its checks have found.
ProbeSound ==
  /\ phase \in {"load", "connect", "migrate", "redis"} => probe = "idle"
  /\ probe # "idle" => Usable \subseteq held
  /\ probe = "migration" => "tables" \in held
  /\ checks # {} => {"tables", "migration"} \subseteq held
  /\ probe = "idle" => checks = {}

\* The inductive invariant of the process, beside the one of its services.
ProcessInv == Inv /\ ProcessTypeOK /\ SettingsGood /\ SettingsHold /\ ProbeSound

\* A signal or a failing service ends the process, whatever else is going on.
ProcessEnds ==
  (phase = "run" /\ (signal \/ failed # {})) ~> phase \in {"exited", "panicked"}
=============================================================================
