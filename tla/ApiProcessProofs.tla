--------------------------- MODULE ApiProcessProofs ---------------------------
(***************************************************************************)
(* The API process: lifecycle.Run reports a failing service and leaves no  *)
(* loop behind, accepted settings hold, and the readiness probe does not   *)
(* answer for a world it has not seen, for every set of enabled loops and  *)
(* every range of settings.                                                *)
(***************************************************************************)
EXTENDS ApiProcess, FiniteSetTheorems, TLAPS

Steps == {"routes", "publisher", "consumer", "serve", "stop", "stop consumer",
          "stop publisher", "return", "done"}

----------------------------------------------------------------------------
(* lifecycle.Run and its services *)

\* A service that has not yet failed fails and goes on to its stop or return.
LEMMA FailStep ==
  ASSUME Inv, NEW s \in Services, pc[s] # "done",
         NEW step \in {"stop consumer", "stop publisher", "return"},
         Goto(s, step), failed' = failed \/ Fail(s), UNCHANGED run
  PROVE  FailuresReported' /\ ErrorReported'
<1>1. /\ pc'[s] = step /\ \A r \in Services : r # s => pc'[r] = pc[r]
      /\ failed \subseteq failed' /\ failed' \subseteq failed \cup {s}
      /\ UNCHANGED <<errors, runner, result>>
  BY DEF Goto, Fail, run, Inv, TypeOK
<1>2. runner # "returned"
  BY DEF Inv, FailuresReported
<1>3. failed \subseteq Services /\ failed' \subseteq Services
  BY <1>1 DEF Inv, TypeOK
<1>4. ASSUME NEW r \in failed'
      PROVE  /\ pc'[r] \in {"stop consumer", "stop publisher", "return", "done"}
             /\ pc'[r] = "done" => r \in errors' \/ result' = r
  BY <1>1, <1>3, <1>4 DEF Inv, FailuresReported
<1> QED
  BY <1>1, <1>2, <1>4 DEF Inv, FailuresReported, ErrorReported

\* A service that has not failed moves, short of done.
LEMMA MoveStep ==
  ASSUME Inv, NEW s \in Services, s \notin failed \/ pc[s] = "stop consumer" \/ pc[s] = "stop publisher",
         pc[s] # "done",
         NEW step \in Steps, Goto(s, step), UNCHANGED <<failed, run>>,
         step # "done", s \in failed => step \in {"stop publisher", "return"}
  PROVE  FailuresReported' /\ ErrorReported'
<1>1. /\ pc'[s] = step /\ \A r \in Services : r # s => pc'[r] = pc[r]
      /\ UNCHANGED <<errors, runner, result, failed>>
  BY DEF Goto, run, Inv, TypeOK, Steps
<1>2. runner # "returned"
  BY DEF Inv, FailuresReported
<1>3. failed \subseteq Services
  BY DEF Inv, TypeOK
<1>4. ASSUME NEW r \in failed'
      PROVE  /\ pc'[r] \in {"stop consumer", "stop publisher", "return", "done"}
             /\ pc'[r] = "done" => r \in errors' \/ result' = r
  BY <1>1, <1>3, <1>4 DEF Inv, FailuresReported
<1> QED
  BY <1>1, <1>2, <1>4 DEF Inv, FailuresReported, ErrorReported

LEMMA ServicesType == Inv /\ [Next]_vars => TypeOK'
<1> SUFFICES ASSUME Inv, [Next]_vars PROVE TypeOK'
  OBVIOUS
<1>0. TypeOK
  BY DEF Inv
<1> USE DEF Goto, Fail, run, background, Services
<1>1. CASE UNCHANGED vars
  BY <1>0, <1>1 DEF vars, TypeOK
<1>2. CASE MapRoutes
  BY <1>0, <1>2 DEF MapRoutes, TypeOK
<1>3. ASSUME NEW l \in {"publisher", "consumer"}, NEW next \in Steps, NEW undo \in Steps,
             Start(l, next, undo)
      PROVE  TypeOK'
  <2>1. loop' \in [{"publisher", "consumer"} -> {"off", "running", "ended"}]
    BY <1>0, <1>3 DEF Start, TypeOK
  <2>2. /\ pc' \in [Services -> Steps] /\ failed' \subseteq Services /\ failed \subseteq failed'
        /\ UNCHANGED <<signal, runCtx, errors, runner, result, loopCtx, late>>
    BY <1>0, <1>3 DEF Start, TypeOK, Steps
  <2> QED
    BY <1>0, <2>1, <2>2 DEF TypeOK, Steps
<1>4. CASE ListenFailsHTTP \/ ShutdownHTTP
  BY <1>0, <1>4 DEF ListenFailsHTTP, ShutdownHTTP, TypeOK
<1>5. ASSUME NEW l \in {"publisher", "consumer"}, NEW here \in Steps, NEW next \in Steps,
             Stop(l, here, next)
      PROVE  TypeOK'
  <2>1. /\ pc' \in [Services -> Steps] /\ loopCtx' \subseteq {"publisher", "consumer"}
        /\ late' \subseteq {"publisher", "consumer"}
        /\ UNCHANGED <<signal, runCtx, errors, runner, result, failed, loop>>
    BY <1>0, <1>5 DEF Stop, TypeOK, Steps
  <2> QED
    BY <1>0, <2>1 DEF TypeOK, Steps
<1>6. ASSUME NEW l \in Loops, LoopEnds(l) PROVE TypeOK'
  BY <1>0, <1>6, LifecycleAssumption DEF LoopEnds, TypeOK
<1>7. CASE ShutdownGRPC \/ StopGRPC \/ ServeFailsGRPC
  BY <1>0, <1>7 DEF ShutdownGRPC, StopGRPC, ServeFailsGRPC, TypeOK
<1>8. ASSUME NEW s \in Services, Report(s) PROVE TypeOK'
  BY <1>0, <1>8 DEF Report, TypeOK
<1>9. CASE Select
  BY <1>0, <1>9 DEF Select, TypeOK
<1>10. CASE Return
  BY <1>0, <1>10 DEF Return, TypeOK
<1>11. CASE Signal
  BY <1>0, <1>11 DEF Signal, TypeOK
<1>12. CASE startOutboxPublisher \/ startOutboxConsumer \/ stopOutboxConsumer \/ stopOutboxPublisher
  BY <1>3, <1>5, <1>12 DEF startOutboxPublisher, startOutboxConsumer, stopOutboxConsumer,
                           stopOutboxPublisher, Steps
<1> QED
  BY <1>1, <1>2, <1>4, <1>6, <1>7, <1>8, <1>9, <1>10, <1>11, <1>12 DEF Next, RunHTTP, RunGRPC

\* The error of a failing service is in the channel before the service is done.
LEMMA ReportStep ==
  ASSUME Inv, NEW s \in Services, Report(s)
  PROVE  FailuresReported' /\ ErrorReported'
<1>1. /\ pc[s] = "return" /\ pc'[s] = "done" /\ \A r \in Services : r # s => pc'[r] = pc[r]
      /\ errors' = IF s \in failed THEN errors \cup {s} ELSE errors
      /\ UNCHANGED <<runner, result, failed>>
  BY DEF Report, Goto, Inv, TypeOK
<1>2. runner # "returned"
  BY <1>1 DEF Inv, FailuresReported
<1>3. failed \subseteq Services
  BY DEF Inv, TypeOK
<1>4. ASSUME NEW r \in failed'
      PROVE  /\ pc'[r] \in {"stop consumer", "stop publisher", "return", "done"}
             /\ pc'[r] = "done" => r \in errors' \/ result' = r
  BY <1>1, <1>3, <1>4 DEF Inv, FailuresReported
<1> QED
  BY <1>1, <1>2, <1>4 DEF Inv, FailuresReported, ErrorReported

LEMMA SelectStep ==
  ASSUME Inv, Select
  PROVE  FailuresReported' /\ ErrorReported'
<1>0. /\ runner = "select" /\ result = "none" /\ UNCHANGED <<pc, failed>>
      /\ errors \subseteq failed /\ failed \subseteq Services
      /\ \A r \in failed : /\ pc[r] \in {"stop consumer", "stop publisher", "return", "done"}
                           /\ pc[r] = "done" => r \in errors
  BY DEF Select, Inv, FailuresReported, TypeOK, Services
<1>1. CASE \E s \in errors : errors' = errors \ {s} /\ runner' = "wait error" /\ result' = s
  BY <1>0, <1>1 DEF FailuresReported, ErrorReported
<1>2. CASE runner' = "wait" /\ UNCHANGED <<errors, result>>
  BY <1>0, <1>2 DEF FailuresReported, ErrorReported
<1> QED
  BY <1>1, <1>2 DEF Select

\* Every service is done, so every error has been taken or is in the channel.
LEMMA ReturnStep ==
  ASSUME Inv, Return
  PROVE  FailuresReported' /\ ErrorReported'
<1>0. /\ runner' = "returned" /\ UNCHANGED <<pc, failed>>
      /\ \A s \in Services : pc[s] = "done"
      /\ errors \subseteq failed /\ failed \subseteq Services
      /\ \A r \in failed : r \in errors \/ result = r
  BY DEF Return, Inv, FailuresReported, TypeOK
<1>1. "nil" \notin Services /\ "none" \notin Services
  BY DEF Services
<1>2. CASE runner = "wait error" /\ UNCHANGED <<errors, result>>
  <2>1. result \in failed
    BY <1>2 DEF Inv, FailuresReported
  <2> QED
    BY <1>0, <1>1, <1>2, <2>1 DEF FailuresReported, ErrorReported
<1>3. CASE /\ runner = "wait"
           /\ \E s \in errors : result' = s /\ errors' = errors \ {s}
  <2>1. result = "none"
    BY <1>3 DEF Inv, FailuresReported
  <2>2. PICK s \in errors : result' = s /\ errors' = errors \ {s}
    BY <1>3
  <2>3. \A r \in failed : r \in errors' \/ result' = r
    BY <1>0, <1>1, <2>1, <2>2
  <2> QED
    BY <1>0, <1>1, <2>2, <2>3 DEF FailuresReported, ErrorReported
<1>4. CASE runner = "wait" /\ errors = {} /\ result' = "nil" /\ UNCHANGED errors
  <2>1. result = "none"
    BY <1>4 DEF Inv, FailuresReported
  <2>2. failed = {}
    BY <1>0, <1>1, <1>4, <2>1
  <2> QED
    BY <1>0, <1>4, <2>2 DEF FailuresReported, ErrorReported
<1> QED
  BY <1>2, <1>3, <1>4 DEF Return

LEMMA ErrorsStep == Inv /\ [Next]_vars => FailuresReported' /\ ErrorReported'
<1> SUFFICES ASSUME Inv, [Next]_vars PROVE FailuresReported' /\ ErrorReported'
  OBVIOUS
<1>0. TypeOK /\ FailuresReported /\ ErrorReported
  BY DEF Inv
<1>s. "http" \in Services /\ "grpc" \in Services
  BY DEF Services
\* A step that no service and no Run takes part in.
<1>a. UNCHANGED <<pc, failed, errors, runner, result>> => FailuresReported' /\ ErrorReported'
  BY <1>0 DEF FailuresReported, ErrorReported
<1>b. \A s \in failed : pc[s] \in {"stop consumer", "stop publisher", "return", "done"}
  BY <1>0 DEF FailuresReported
<1>1. CASE UNCHANGED vars
  BY <1>1, <1>a DEF vars, run
<1>2. CASE MapRoutes
  <2>0. pc["http"] = "routes" /\ "http" \notin failed /\ UNCHANGED run
    BY <1>2, <1>b DEF MapRoutes
  <2>1. CASE Goto("http", "publisher") /\ UNCHANGED failed
    BY <1>s, <2>0, <2>1, MoveStep DEF Steps
  <2>2. CASE Goto("http", "return") /\ Fail("http")
    BY <1>s, <2>0, <2>2, FailStep
  <2> QED
    BY <1>2, <2>1, <2>2 DEF MapRoutes
<1>3. ASSUME NEW l \in {"publisher", "consumer"}, NEW next \in {"consumer", "serve"},
             NEW undo \in {"return", "stop publisher"}, Start(l, next, undo)
      PROVE  FailuresReported' /\ ErrorReported'
  <2>0. pc["http"] = l /\ "http" \notin failed /\ UNCHANGED run
    BY <1>3, <1>b DEF Start
  <2>1. CASE Goto("http", next) /\ UNCHANGED failed
    BY <1>s, <2>0, <2>1, MoveStep DEF Steps
  <2>2. CASE Goto("http", undo) /\ Fail("http")
    BY <1>s, <2>0, <2>2, FailStep
  <2> QED
    BY <1>3, <2>1, <2>2 DEF Start
<1>4. CASE ListenFailsHTTP \/ ShutdownHTTP
  <2>1. /\ pc["http"] = "serve" /\ Goto("http", "stop consumer") /\ UNCHANGED run
        /\ failed' = failed \/ Fail("http")
    BY <1>4 DEF ListenFailsHTTP, ShutdownHTTP
  <2> QED
    BY <1>s, <2>1, FailStep
<1>5. ASSUME NEW l \in {"publisher", "consumer"}, NEW here \in {"stop consumer", "stop publisher"},
             NEW next \in {"stop publisher", "return"}, Stop(l, here, next)
      PROVE  FailuresReported' /\ ErrorReported'
  <2>0. pc["http"] = here /\ UNCHANGED run /\ UNCHANGED failed
    BY <1>5 DEF Stop
  <2>1. CASE UNCHANGED pc
    BY <2>0, <2>1, <1>a DEF run
  <2>2. CASE Goto("http", next)
    BY <1>s, <2>0, <2>2, MoveStep DEF Steps
  <2> QED
    BY <1>5, <2>1, <2>2 DEF Stop
<1>6. ASSUME NEW l \in Loops, LoopEnds(l) PROVE FailuresReported' /\ ErrorReported'
  BY <1>6, <1>a DEF LoopEnds, run
<1>7. CASE StopGRPC \/ ServeFailsGRPC
  <2>1. /\ pc["grpc"] \in {"serve", "stop"} /\ Goto("grpc", "return") /\ UNCHANGED run
        /\ failed' = failed \/ Fail("grpc")
    BY <1>7 DEF StopGRPC, ServeFailsGRPC
  <2> QED
    BY <1>s, <2>1, FailStep
<1>8. CASE ShutdownGRPC
  <2>1. /\ pc["grpc"] = "serve" /\ "grpc" \notin failed /\ Goto("grpc", "stop")
        /\ UNCHANGED <<failed, run>>
    BY <1>8, <1>b DEF ShutdownGRPC
  <2> QED
    BY <1>s, <2>1, MoveStep DEF Steps
<1>9. CASE Report("http") \/ Report("grpc")
  BY <1>9, <1>s, ReportStep
<1>10. CASE Select
  BY <1>10, SelectStep
<1>11. CASE Return
  BY <1>11, ReturnStep
<1>12. CASE Signal
  BY <1>12, <1>a DEF Signal
<1>13. CASE startOutboxPublisher \/ startOutboxConsumer
  BY <1>13, <1>3 DEF startOutboxPublisher, startOutboxConsumer
<1>14. CASE stopOutboxPublisher \/ stopOutboxConsumer
  BY <1>14, <1>5 DEF stopOutboxPublisher, stopOutboxConsumer
<1> QED
  BY <1>1, <1>2, <1>4, <1>6, <1>7, <1>8, <1>9, <1>10, <1>11, <1>12, <1>13, <1>14
     DEF Next, RunHTTP, RunGRPC

\* A loop is started before the service passes its stop, and the stop leaves
\* it running only if it counts it as late.
LEMMA LoopsStep == Inv /\ [Next]_vars => LoopsCovered'
<1> SUFFICES ASSUME Inv, [Next]_vars PROVE LoopsCovered'
  OBVIOUS
<1>0. TypeOK /\ LoopsCovered
  BY DEF Inv
<1>p. pc \in [Services -> Steps] /\ loop \in [{"publisher", "consumer"} -> {"off", "running", "ended"}]
  BY <1>0 DEF TypeOK, Steps
<1>a. pc'["http"] = pc["http"] /\ UNCHANGED <<loop, late>> => LoopsCovered'
  BY <1>0 DEF LoopsCovered
<1> USE DEF Goto, background, Services
<1>1. CASE UNCHANGED vars
  BY <1>1, <1>a DEF vars
<1>2. CASE MapRoutes
  BY <1>0, <1>p, <1>2 DEF MapRoutes, LoopsCovered
<1>3. CASE startOutboxPublisher
  BY <1>0, <1>p, <1>3 DEF startOutboxPublisher, Start, LoopsCovered
<1>4. CASE startOutboxConsumer
  BY <1>0, <1>p, <1>4 DEF startOutboxConsumer, Start, LoopsCovered
<1>5. CASE ListenFailsHTTP \/ ShutdownHTTP
  BY <1>0, <1>p, <1>5 DEF ListenFailsHTTP, ShutdownHTTP, LoopsCovered
<1>6. CASE stopOutboxConsumer
  BY <1>0, <1>p, <1>6 DEF stopOutboxConsumer, Stop, LoopsCovered
<1>7. CASE stopOutboxPublisher
  BY <1>0, <1>p, <1>7 DEF stopOutboxPublisher, Stop, LoopsCovered
<1>8. CASE Report("http")
  BY <1>0, <1>p, <1>8 DEF Report, LoopsCovered
<1>9. CASE Report("grpc") \/ ShutdownGRPC \/ StopGRPC \/ ServeFailsGRPC
  BY <1>p, <1>9, <1>a DEF Report, ShutdownGRPC, StopGRPC, ServeFailsGRPC
<1>10. CASE Select \/ Return \/ Signal
  BY <1>10, <1>a DEF Select, Return, Signal
<1>11. ASSUME NEW l \in Loops, LoopEnds(l) PROVE LoopsCovered'
  <2>1. /\ l \in {"publisher", "consumer"} /\ loop' = [loop EXCEPT ![l] = "ended"]
        /\ UNCHANGED <<pc, late>>
    BY <1>11, LifecycleAssumption DEF LoopEnds
  <2> QED
    BY <1>0, <1>p, <2>1 DEF LoopsCovered
<1> QED
  BY <1>1, <1>2, <1>3, <1>4, <1>5, <1>6, <1>7, <1>8, <1>9, <1>10, <1>11 DEF Next, RunHTTP, RunGRPC

LEMMA ServicesInit == Init => Inv
BY DEF Init, Inv, TypeOK, FailuresReported, ErrorReported, LoopsCovered, Services

LEMMA ServicesStep == Inv /\ [Next]_vars => Inv'
BY ServicesType, ErrorsStep, LoopsStep DEF Inv

\* The inductive invariant of lifecycle.Run with its services and loops.
THEOREM LifecycleInvariance == Spec => []Inv
BY ServicesInit, ServicesStep, PTL DEF Spec

----------------------------------------------------------------------------
(* Durations *)

LEMMA HalfWord == Word \div 2 \in Nat /\ Word = (Word \div 2) + (Word \div 2) /\ Word \in Nat /\ Word > 0
BY ProcessAssumption

LEMMA WrapRange ==
  ASSUME NEW n \in Int
  PROVE  Wrap(n) \in -(Word \div 2)..(Word \div 2 - 1)
<1> DEFINE h == Word \div 2
<1>1. h \in Nat /\ Word = h + h /\ Word \in Nat /\ Word > 0
  BY HalfWord
<1> HIDE DEF h
<1>2. (n + h) % Word \in 0..(Word - 1)
  BY <1>1
<1>3. ((n + h) % Word) - h \in -h..(h - 1)
  BY <1>1, <1>2
<1> QED
  BY <1>3 DEF Wrap, h

\* A duration that fits is what it says.
LEMMA WrapFits ==
  ASSUME NEW n \in Nat, n < Word \div 2
  PROVE  Wrap(n) = n
<1> DEFINE h == Word \div 2
<1>1. h \in Nat /\ Word = h + h /\ Word \in Nat /\ Word > 0 /\ n < h
  BY HalfWord
<1> HIDE DEF h
<1>2. n + h \in 0..(Word - 1)
  BY <1>1
<1>3. (n + h) % Word = n + h
  BY <1>1, <1>2
<1>4. ((n + h) % Word) - h = n
  BY <1>1, <1>3
<1> QED
  BY <1>4 DEF Wrap, h

LEMMA TimesPositive ==
  ASSUME NEW n \in Nat \ {0}, NEW m \in Nat \ {0}
  PROVE  n * m \in Nat \ {0}
OBVIOUS

LEMMA SecondsRange ==
  ASSUME NEW n \in Int
  PROVE  secondsOrDefault(n) \in -(Word \div 2)..(Word \div 2 - 1)
<1> DEFINE m == (IF n <= 0 THEN DefaultSeconds ELSE n) * Second
<1>1. m \in Int
  BY ProcessAssumption
<1> HIDE DEF m
<1>2. Wrap(m) \in -(Word \div 2)..(Word \div 2 - 1)
  BY <1>1, WrapRange
<1> QED
  BY <1>2 DEF secondsOrDefault, m

LEMMA SecondsPositive ==
  ASSUME NEW n \in Int, ~(n * Second >= Word \div 2)
  PROVE  secondsOrDefault(n) > 0
<1> DEFINE k == IF n <= 0 THEN DefaultSeconds ELSE n
           m == k * Second
<1>1. k \in Nat \ {0} /\ Second \in Nat \ {0}
  BY ProcessAssumption
<1>2. m \in Nat \ {0}
  BY <1>1, TimesPositive
<1>3. m < Word \div 2
  <2>1. CASE n <= 0
    BY <2>1, ProcessAssumption
  <2>2. CASE ~(n <= 0)
    BY <2>2, <1>2, HalfWord
  <2> QED
    BY <2>1, <2>2
<1> HIDE DEF m
<1>4. Wrap(m) = m
  BY <1>2, <1>3, WrapFits
<1> QED
  BY <1>2, <1>4 DEF secondsOrDefault, m

\* Settings that Validate accepts make a pool that NewDatabase accepts and a
\* ticker that does not panic, unless a duration overflows.
LEMMA ValidatedSettings ==
  ASSUME NEW s \in Settings, Validate(s),
         ~ \E n \in {s.lifetime, s.idleTime, s.interval} : n * Second >= Word \div 2
  PROVE  /\ validateConnectionPoolConfig(PoolConfig(s))
         /\ secondsOrDefault(s.interval) > 0
<1>1. /\ s.maxOpen \in Int /\ s.maxIdle \in Int
      /\ s.lifetime \in Int /\ s.idleTime \in Int /\ s.interval \in Int
  BY ProcessAssumption DEF Settings
<1>2. /\ s.maxOpen >= 0 /\ s.maxIdle >= 0
      /\ intOrDefault(s.maxIdle, DefaultIdle) <= intOrDefault(s.maxOpen, DefaultOpen)
  BY DEF Validate, validateDatabasePoolConfig
<1>3. intOrDefault(s.maxIdle, DefaultIdle) > 0 /\ intOrDefault(s.maxOpen, DefaultOpen) > 0
  BY <1>1, <1>2, ProcessAssumption DEF intOrDefault
<1>4. /\ secondsOrDefault(s.lifetime) > 0 /\ secondsOrDefault(s.idleTime) > 0
      /\ secondsOrDefault(s.interval) > 0
  BY <1>1, SecondsPositive
<1> QED
  BY <1>2, <1>3, <1>4 DEF validateConnectionPoolConfig, PoolConfig

----------------------------------------------------------------------------
(* The process *)

Before == {"load", "connect", "migrate", "redis"}

\* What ProcessTypeOK says of main and of the world.
MainTyped ==
  /\ phase \in Before \cup {"run", "exited", "bad pool", "panicked"}
  /\ cfg.autoMigrate \in BOOLEAN
  /\ cfg.interval \in -(Word \div 2)..(Word \div 2 - 1)
  /\ pool # {} => phase = "connect"
  /\ overflow \in BOOLEAN
  /\ phase \in Before => runner = "select" /\ failed = {}

WorldTyped ==
  /\ postgres \in BOOLEAN /\ redis \in BOOLEAN
  /\ tables \in BOOLEAN /\ migrated \in BOOLEAN

ProbeTyped ==
  /\ probe \in {"idle", "ping", "tables", "migration", "redis"}
  /\ checks \subseteq {"postgres"}
  /\ held \subseteq Dependencies
  /\ ready \in BOOLEAN

LEMMA OnePool ==
  (\A p, q \in pool : p = q) => Cardinality(pool) <= 1
<1> SUFFICES ASSUME \A p, q \in pool : p = q PROVE Cardinality(pool) <= 1
  OBVIOUS
<1>1. CASE pool = {}
  BY <1>1, FS_EmptySet
<1>2. ASSUME NEW p \in pool PROVE Cardinality(pool) <= 1
  <2>1. pool = {p}
    BY <1>2
  <2>2. Cardinality({p}) = 1
    BY FS_Singleton, Zenon
  <2> QED
    BY <2>1, <2>2
<1> QED
  BY <1>1, <1>2

LEMMA ProcessParts ==
  ProcessInv <=> /\ Inv /\ MainTyped /\ WorldTyped /\ ProbeTyped
                 /\ SettingsGood /\ SettingsHold /\ ProbeSound
<1>1. SettingsGood => Cardinality(pool) <= 1
  BY OnePool DEF SettingsGood
<1>2. Inv => TypeOK
  BY DEF Inv
<1> QED
  BY <1>1, <1>2 DEF ProcessInv, ProcessTypeOK, MainTyped, WorldTyped, ProbeTyped, Before

\* Whatever else the process does, its services only ever take steps of
\* lifecycle.Run.
LEMMA ServicesOnly == [ProcessNext]_pvars => [Next]_vars
<1> SUFFICES ASSUME [ProcessNext]_pvars PROVE [Next]_vars
  OBVIOUS
<1>1. CASE UNCHANGED pvars
  BY <1>1 DEF pvars
<1>2. CASE Setup
  BY <1>2 DEF Setup, LoadConfig, NewDatabase, migrateDatabase, NewRedis
<1>3. CASE KilledEarly \/ MainReturns \/ TickerPanics \/ Outage
  BY <1>3 DEF KilledEarly, MainReturns, TickerPanics, Outage
<1>4. CASE Running(Next)
  BY <1>4 DEF Running
<1>5. CASE readiness
  BY <1>5 DEF readiness, ProbeBegins, PingPostgres, CheckTables, CheckMigration, PingRedis, Check
<1> QED
  BY <1>1, <1>2, <1>3, <1>4, <1>5 DEF ProcessNext

\* main goes on, or the process ends; the probe and the world do not move.
LEMMA MainStep ==
  ASSUME ProcessInv, Setup \/ KilledEarly \/ MainReturns \/ TickerPanics
  PROVE  MainTyped' /\ SettingsGood' /\ SettingsHold'
<1>0. MainTyped /\ SettingsGood /\ SettingsHold
  BY ProcessParts
<1> USE DEF Exit, Before
<1>1. CASE LoadConfig
  <2>0. phase = "load" /\ pool = {} /\ UNCHANGED <<runner, failed>>
    BY <1>0, <1>1 DEF LoadConfig, MainTyped, vars, run
  <2>1. PICK s \in Settings :
          IF Validate(s)
          THEN /\ phase' = "connect"
               /\ cfg' = [autoMigrate |-> s.autoMigrate,
                          interval |-> secondsOrDefault(s.interval)]
               /\ pool' = {PoolConfig(s)}
               /\ overflow' = (\E n \in {s.lifetime, s.idleTime, s.interval} :
                                 n * Second >= Word \div 2)
          ELSE Exit("exited") /\ UNCHANGED <<cfg, overflow>>
    BY <1>1 DEF LoadConfig
  <2>2. CASE Validate(s)
    <3>1. s.autoMigrate \in BOOLEAN /\ s.interval \in Int
      BY ProcessAssumption DEF Settings
    <3>2. /\ phase' = "connect"
          /\ cfg'.autoMigrate = s.autoMigrate /\ cfg'.interval = secondsOrDefault(s.interval)
          /\ pool' = {PoolConfig(s)}
      BY <2>1, <2>2
    <3>3. /\ overflow' \in BOOLEAN
          /\ overflow' \/ ~ \E n \in {s.lifetime, s.idleTime, s.interval} : n * Second >= Word \div 2
      BY <2>1, <2>2
    <3>4. MainTyped'
      BY <1>0, <2>0, <3>1, <3>2, <3>3, SecondsRange DEF MainTyped
    <3>5. overflow' \/ (/\ validateConnectionPoolConfig(PoolConfig(s))
                        /\ secondsOrDefault(s.interval) > 0)
      BY <2>2, <3>3, ValidatedSettings
    <3>6. SettingsGood' /\ SettingsHold'
      BY <3>2, <3>5 DEF SettingsGood, SettingsHold, validateConnectionPoolConfig
    <3> QED
      BY <3>4, <3>6
  <2>3. CASE ~Validate(s)
    <3>1. phase' = "exited" /\ pool' = {} /\ UNCHANGED <<cfg, overflow>>
      BY <2>1, <2>3
    <3> QED
      BY <1>0, <3>1 DEF MainTyped, SettingsGood, SettingsHold
  <2> QED
    BY <2>2, <2>3
<1>2. CASE NewDatabase
  <2>0. phase = "connect" /\ UNCHANGED <<runner, failed, cfg, overflow>>
    BY <1>2 DEF NewDatabase, vars, run
  <2>1. PICK p \in pool : /\ pool' = {} /\ phase' \in {"exited", "bad pool", "migrate"}
                          /\ phase' = "bad pool" => ~validateConnectionPoolConfig(p)
    BY <1>2 DEF NewDatabase
  <2>2. phase' = "bad pool" => overflow
    BY <1>0, <2>1 DEF SettingsGood
  <2>3. MainTyped'
    BY <1>0, <2>0, <2>1 DEF MainTyped
  <2> QED
    BY <1>0, <2>0, <2>1, <2>2, <2>3 DEF SettingsGood, SettingsHold
<1>3. CASE migrateDatabase \/ NewRedis
  <2>1. /\ phase \in {"migrate", "redis"} /\ phase' \in {"redis", "run", "exited"}
        /\ UNCHANGED <<runner, failed, cfg, overflow, pool>>
    BY <1>3 DEF migrateDatabase, NewRedis, vars, run
  <2>2. pool = {}
    BY <1>0, <2>1 DEF MainTyped
  <2> QED
    BY <1>0, <2>1, <2>2 DEF MainTyped, SettingsGood, SettingsHold
<1>4. CASE KilledEarly \/ MainReturns
  <2>1. /\ phase' = "exited" /\ UNCHANGED <<runner, failed, cfg, overflow>>
        /\ pool' = {}
    BY <1>0, <1>4 DEF KilledEarly, MainReturns, vars, run, MainTyped
  <2> QED
    BY <1>0, <2>1 DEF MainTyped, SettingsGood, SettingsHold
<1>5. CASE TickerPanics
  <2>1. /\ phase = "run" /\ phase' = "panicked" /\ cfg.interval <= 0
        /\ UNCHANGED <<runner, failed, cfg, overflow, pool>>
    BY <1>5 DEF TickerPanics, vars, run
  <2>2. pool = {} /\ cfg.interval \in Int
    BY <1>0, <2>1, HalfWord DEF MainTyped
  <2>3. overflow
    BY <1>0, <2>1, <2>2 DEF SettingsGood
  <2> QED
    BY <1>0, <2>1, <2>2, <2>3 DEF MainTyped, SettingsGood, SettingsHold
<1> QED
  BY <1>1, <1>2, <1>3, <1>4, <1>5 DEF Setup

\* Before main runs, and after it, nothing probes; while it does, the probe
\* has not seen less than what is usable now.
LEMMA ProbeStep ==
  ASSUME ProcessInv, [ProcessNext]_pvars
  PROVE  WorldTyped' /\ ProbeTyped' /\ ProbeSound'
<1>0. MainTyped /\ WorldTyped /\ ProbeTyped /\ ProbeSound
  BY ProcessParts
<1>u. Usable \subseteq Dependencies /\ Usable' \subseteq Dependencies
  BY DEF Usable
<1> USE DEF Before
\* A step that changes neither the world nor what the probe has seen.
<1>a. ASSUME UNCHANGED <<cfg, world, probing>>, phase \notin Before => phase' \notin Before
      PROVE  WorldTyped' /\ ProbeTyped' /\ ProbeSound'
  <2>1. UNCHANGED Usable
    BY <1>a DEF Usable, world
  <2>2. phase' \in Before => probe' = "idle"
    BY <1>0, <1>a DEF probing, ProbeSound
  <2>3. WorldTyped' /\ ProbeTyped'
    BY <1>0, <1>a DEF WorldTyped, ProbeTyped, world, probing
  <2> QED
    BY <1>0, <1>a, <2>1, <2>2, <2>3 DEF ProbeSound, probing
\* A step of main's setup, where no probe is under way.
<1>b. ASSUME phase \in Before, UNCHANGED probing, WorldTyped'
      PROVE  ProbeTyped' /\ ProbeSound'
  BY <1>0, <1>b DEF ProbeTyped, ProbeSound, probing
<1>1. CASE UNCHANGED pvars
  BY <1>1, <1>a DEF pvars, main
<1>2. CASE LoadConfig \/ NewDatabase \/ NewRedis \/ KilledEarly
  <2>1. phase \in Before /\ UNCHANGED world /\ UNCHANGED probing
    BY <1>2 DEF LoadConfig, NewDatabase, NewRedis, KilledEarly
  <2>2. WorldTyped'
    BY <1>0, <2>1 DEF WorldTyped, world
  <2> QED
    BY <1>b, <2>1, <2>2
<1>3. CASE migrateDatabase
  <2>1. /\ phase \in Before /\ UNCHANGED <<postgres, migrated, redis>> /\ UNCHANGED probing
        /\ tables' \in {tables, TRUE}
    BY <1>3 DEF migrateDatabase
  <2>2. WorldTyped'
    BY <1>0, <2>1 DEF WorldTyped
  <2> QED
    BY <1>b, <2>1, <2>2
<1>4. CASE Running(Next)
  <2>1. phase = "run" /\ UNCHANGED world /\ UNCHANGED main
    BY <1>4 DEF Running
  <2>2. CASE UNCHANGED probing
    BY <1>a, <2>1, <2>2 DEF main
  <2>3. CASE probe' = "idle" /\ checks' = {} /\ held' = {} /\ ready' = FALSE
    <3>1. WorldTyped'
      BY <1>0, <2>1 DEF WorldTyped, world
    <3> QED
      BY <2>3, <3>1 DEF ProbeTyped, ProbeSound
  <2> QED
    BY <1>4, <2>2, <2>3 DEF Running
<1>5. CASE MainReturns \/ TickerPanics
  <2>1. phase' \notin Before /\ UNCHANGED <<cfg, world, probing>>
    BY <1>5 DEF MainReturns, TickerPanics
  <2> QED
    BY <1>a, <2>1
<1>6. CASE Outage
  <2>1. /\ WorldChanges /\ UNCHANGED <<phase, probe, checks, ready>>
        /\ held' = IF probe = "idle" THEN {} ELSE held \cup Usable'
        /\ phase \in Before \/ probe # "idle"
    BY <1>6 DEF Outage, main
  <2>2. WorldTyped'
    BY <1>0, <2>1 DEF WorldTyped, WorldChanges
  <2>3. held' \subseteq Dependencies
    BY <1>0, <1>u, <2>1 DEF ProbeTyped
  <2>4. ProbeTyped'
    BY <1>0, <2>1, <2>3 DEF ProbeTyped
  <2>5. CASE probe = "idle"
    <3>1. checks' = {}
      BY <1>0, <1>6, <2>1, <2>5 DEF ProbeSound
    <3> QED
      BY <1>0, <2>1, <2>2, <2>4, <2>5, <3>1 DEF ProbeSound
  <2>6. CASE probe # "idle"
    BY <1>0, <2>1, <2>2, <2>4, <2>6 DEF ProbeSound
  <2> QED
    BY <2>5, <2>6
<1>7. CASE ProbeBegins
  <2>1. /\ phase = "run" /\ UNCHANGED phase /\ WorldChanges
        /\ probe' = "ping" /\ checks' = {} /\ ready' = FALSE /\ held' = Usable'
    BY <1>7 DEF ProbeBegins, main
  <2>2. WorldTyped'
    BY <1>0, <2>1 DEF WorldTyped, WorldChanges
  <2> QED
    BY <1>u, <2>1, <2>2 DEF ProbeTyped, ProbeSound
\* A check finds what is usable now, and that is held.
<1>8. ASSUME NEW here, here # "idle", NEW found, NEW next \in {"tables", "migration", "redis"},
             Check(here, found, next),
             found /\ next = "migration" => "tables" \in held,
             found /\ next = "redis" => {"tables", "migration"} \subseteq held
      PROVE  WorldTyped' /\ ProbeTyped' /\ ProbeSound'
  <2>1. /\ phase = "run" /\ probe # "idle" /\ UNCHANGED <<phase, cfg, world, held, ready>>
        /\ probe' \in {"tables", "migration", "redis"}
        /\ probe' = "migration" => "tables" \in held
        /\ \/ checks' = checks
           \/ checks' = checks \cup {"postgres"} /\ {"tables", "migration"} \subseteq held
    BY <1>8 DEF Check, main
  <2>2. WorldTyped' /\ UNCHANGED Usable
    BY <1>0, <2>1 DEF WorldTyped, world, Usable
  <2>3. checks' # {} => {"tables", "migration"} \subseteq held'
    BY <1>0, <2>1 DEF ProbeSound
  <2>4. ProbeTyped'
    BY <1>0, <2>1 DEF ProbeTyped
  <2> QED
    BY <1>0, <2>1, <2>2, <2>3, <2>4 DEF ProbeSound
<1>9. CASE PingPostgres \/ CheckTables \/ CheckMigration
  <2>1. CASE PingPostgres
    BY <1>8, <2>1 DEF PingPostgres
  <2>2. CASE CheckTables
    <3>1. /\ HasTables => "tables" \in Usable
          /\ HasTables /\ cfg.autoMigrate => "migration" \in Usable
      BY DEF HasTables, Usable, Dependencies
    <3>2. Usable \subseteq held
      BY <1>0, <2>2 DEF CheckTables, Check, ProbeSound
    <3>3. CASE cfg.autoMigrate
      BY <1>8, <2>2, <3>1, <3>2, <3>3 DEF CheckTables
    <3>4. CASE ~cfg.autoMigrate
      BY <1>8, <2>2, <3>1, <3>2, <3>4 DEF CheckTables
    <3> QED
      BY <3>3, <3>4
  <2>3. CASE CheckMigration
    <3>1. MigrationReady => "migration" \in Usable
      BY DEF MigrationReady, Usable, Dependencies
    <3>2. Usable \subseteq held /\ "tables" \in held
      BY <1>0, <2>3 DEF CheckMigration, Check, ProbeSound
    <3> QED
      BY <1>8, <2>3, <3>1, <3>2 DEF CheckMigration
  <2> QED
    BY <1>9, <2>1, <2>2, <2>3
<1>10. CASE PingRedis
  <2>1. /\ phase = "run" /\ UNCHANGED <<phase, world>>
        /\ probe' = "idle" /\ checks' = {} /\ held' = {} /\ ready' \in BOOLEAN
    BY <1>10 DEF PingRedis, main
  <2>2. WorldTyped'
    BY <1>0, <2>1 DEF WorldTyped, world
  <2> QED
    BY <2>1, <2>2 DEF ProbeTyped, ProbeSound
<1> QED
  BY <1>1, <1>2, <1>3, <1>4, <1>5, <1>6, <1>7, <1>9, <1>10 DEF ProcessNext, Setup, readiness

LEMMA ProcessStep == ProcessInv /\ [ProcessNext]_pvars => ProcessInv'
<1> SUFFICES ASSUME ProcessInv, [ProcessNext]_pvars PROVE ProcessInv'
  OBVIOUS
<1>0. Inv /\ MainTyped /\ SettingsGood /\ SettingsHold
  BY ProcessParts
<1>1. Inv'
  BY <1>0, ServicesOnly, ServicesStep
<1>2. WorldTyped' /\ ProbeTyped' /\ ProbeSound'
  BY ProbeStep
<1>3. MainTyped' /\ SettingsGood' /\ SettingsHold'
  <2>1. CASE Setup \/ KilledEarly \/ MainReturns \/ TickerPanics
    BY <2>1, MainStep
  <2>2. ASSUME UNCHANGED main, phase \in Before => UNCHANGED <<runner, failed>>
        PROVE  MainTyped' /\ SettingsGood' /\ SettingsHold'
    <3>1. UNCHANGED <<phase, cfg, pool, overflow>>
      BY <2>2 DEF main
    <3>2. MainTyped'
      BY <1>0, <2>2, <3>1 DEF MainTyped
    <3> QED
      BY <1>0, <3>1, <3>2 DEF SettingsGood, SettingsHold, validateConnectionPoolConfig
  <2>3. CASE UNCHANGED pvars
    BY <2>2, <2>3 DEF pvars, vars, run
  <2>4. CASE Running(Next)
    BY <2>2, <2>4 DEF Running, Before
  <2>5. CASE Outage \/ readiness
    <3>1. UNCHANGED main /\ UNCHANGED vars
      BY <2>5 DEF Outage, readiness, ProbeBegins, PingPostgres, CheckTables, CheckMigration,
                  PingRedis, Check
    <3> QED
      BY <2>2, <3>1 DEF vars, run
  <2> QED
    BY <2>1, <2>3, <2>4, <2>5 DEF ProcessNext
<1>4. (/\ Inv /\ MainTyped /\ WorldTyped /\ ProbeTyped
       /\ SettingsGood /\ SettingsHold /\ ProbeSound)'
  BY <1>1, <1>2, <1>3
<1>5. (\A p, q \in pool : p = q)' => (Cardinality(pool) <= 1)'
  BY OnePool, PTL
<1>6. (Cardinality(pool) <= 1)'
  BY <1>3, <1>5 DEF SettingsGood
<1> QED
  BY <1>4, <1>6 DEF ProcessInv, Inv, ProcessTypeOK, MainTyped, WorldTyped, ProbeTyped, Before

LEMMA ProcessInitial == ProcessInit => ProcessInv
<1> SUFFICES ASSUME ProcessInit PROVE ProcessInv
  OBVIOUS
<1>1. Inv
  BY ServicesInit DEF ProcessInit
<1>2. 0 \in -(Word \div 2)..(Word \div 2 - 1)
  BY HalfWord
<1>3. MainTyped
  BY <1>2 DEF ProcessInit, Init, MainTyped, Before
<1>4. WorldTyped /\ ProbeTyped /\ ProbeSound
  BY DEF ProcessInit, WorldTyped, ProbeTyped, ProbeSound
<1>5. SettingsGood /\ SettingsHold
  BY DEF ProcessInit, SettingsGood, SettingsHold
<1> QED
  BY <1>1, <1>3, <1>4, <1>5, ProcessParts

----------------------------------------------------------------------------
(* The theorems *)

\* Setup, probes and outages leave lifecycle.Run what it is: the process
\* implements the specification of its services.
THEOREM ProcessRunsLifecycle == ProcessSpec => Spec
<1>1. ProcessInit => Init
  BY DEF ProcessInit
<1> QED
  BY <1>1, ServicesOnly, PTL DEF ProcessSpec, Spec

\* lifecycle.Run returns nil only if no service failed, and otherwise the error
\* of one that did, whichever branch its select takes.
THEOREM ErrorsReported == ProcessSpec => []ErrorReported
<1>1. Inv => ErrorReported
  BY DEF Inv
<1> QED
  BY <1>1, LifecycleInvariance, ProcessRunsLifecycle, PTL

\* When lifecycle.Run returns no outbox loop is running but one that outlived
\* the wait of its stop.
THEOREM NoLoopLeft == ProcessSpec => []NothingLeftRunning
<1>1. Inv => NothingLeftRunning
  BY LifecycleAssumption DEF Inv, FailuresReported, LoopsCovered, NothingLeftRunning, Services
<1> QED
  BY <1>1, LifecycleInvariance, ProcessRunsLifecycle, PTL

\* The inductive invariant of the whole process.
THEOREM ProcessInvariance == ProcessSpec => []ProcessInv
BY ProcessInitial, ProcessStep, PTL DEF ProcessSpec

\* Every variable of the process keeps its type, and no service moves before
\* main runs.
THEOREM ProcessTypeCorrect == ProcessSpec => []ProcessTypeOK
<1>1. ProcessInv => ProcessTypeOK
  BY DEF ProcessInv
<1> QED
  BY <1>1, ProcessInvariance, PTL

\* Settings that Validate accepts never make NewDatabase refuse the pool or the
\* publisher's ticker panic, unless a duration overflows.
THEOREM AcceptedSettingsHold == ProcessSpec => []SettingsHold
<1>1. ProcessInv => SettingsHold
  BY DEF ProcessInv
<1> QED
  BY <1>1, ProcessInvariance, PTL

\* The probe answers "ready" only if the tables, the migration record where one
\* is asked for, and Redis were each usable at some time while it ran.
THEOREM ReadyAnswersTrue == ProcessSpec => ReadyMeansUsable
<1> DEFINE Honest == probe = "redis" /\ probe' = "idle" /\ ready' => held = Dependencies
<1>1. ProcessInv /\ [ProcessNext]_pvars => [Honest]_pvars
  <2> SUFFICES ASSUME ProcessInv, [ProcessNext]_pvars, probe = "redis", probe' = "idle", ready'
               PROVE  held = Dependencies
    OBVIOUS
  <2>0. MainTyped /\ ProbeTyped /\ ProbeSound
    BY ProcessParts
  \* Only the last check answers: an HTTP server that stops answers nothing.
  <2>1. PingRedis
    <3>1. ~UNCHANGED probe
      OBVIOUS
    <3>2. ~Setup /\ ~KilledEarly /\ ~MainReturns /\ ~TickerPanics /\ ~Outage /\ ~UNCHANGED pvars
      BY <3>1 DEF Setup, LoadConfig, NewDatabase, migrateDatabase, NewRedis, KilledEarly,
                  MainReturns, TickerPanics, Outage, pvars, probing
    <3>3. ~Running(Next)
      BY <3>1 DEF Running, probing
    <3>4. ~ProbeBegins /\ ~PingPostgres /\ ~CheckTables /\ ~CheckMigration
      BY DEF ProbeBegins, PingPostgres, CheckTables, CheckMigration, Check
    <3> QED
      BY <3>2, <3>3, <3>4 DEF ProcessNext, readiness
  <2>2. redis /\ checks = {"postgres"}
    BY <2>1 DEF PingRedis
  <2>3. "redis" \in held
    BY <2>0, <2>2 DEF ProbeSound, Usable, Dependencies
  <2> QED
    BY <2>0, <2>2, <2>3 DEF ProbeTyped, ProbeSound, Dependencies
<1> QED
  BY <1>1, ProcessInvariance, PTL DEF ProcessSpec, ReadyMeansUsable
=============================================================================
