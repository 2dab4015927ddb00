------------------------------ MODULE Bootstrap ------------------------------
(***************************************************************************)
(* The start of the process: the dependency graph src/app.module.ts and    *)
(* the modules it imports declare, the two database connections, and the   *)
(* steps of src/main.ts.                                                   *)
(*                                                                         *)
(* A module is a record: the project's modules it imports, the tokens it   *)
(* exports, and for each token it provides the tokens that one needs.      *)
(***************************************************************************)
EXTENDS Naturals, TLC

CONSTANT
  MaxTries    \* attempts at a connection before the libraries give up, at least 1

RepositoryProviders ==
  "USER_REPOSITORY" :> {"DataSource"} @@ "MONGO_USER_REPOSITORY" :> {"UserMongoModel"}

ServiceProviders ==
  "HashService" :> {} @@ "EmailService" :> {"ConfigService"}
  @@ "CacheService" :> {"CACHE_MANAGER"}

CoreProviders ==
  "USER_SERVICE" :> {"USER_REPOSITORY", "MONGO_USER_REPOSITORY", "HashService",
                     "CacheService", "EventBusService"}
  @@ "AUTH_SERVICE" :> {"USER_SERVICE", "JwtService", "HashService",
                        "SessionService", "CacheService"}

\* The dependencies of the classes ServicesModule declares and AppModule
\* declares once more (the breaker's logger is optional, and present).
SharedServices ==
  "RequestContextService" :> {} @@ "MetricsService" :> {}
  @@ "CustomLoggerService" :> {"ConfigService", "RequestContextService"}
  @@ "CircuitBreakerService" :> {"CIRCUIT_BREAKER_OPTIONS", "CustomLoggerService"}

AppModule ==
  [imports |-> {"Database", "Services", "EventBus", "Health"},
   exports |-> {"USER_SERVICE", "AUTH_SERVICE"},
   needs |->
     RepositoryProviders @@ ServiceProviders @@ CoreProviders @@ SharedServices
     @@ "AdvancedRateLimitGuard" :> {"THROTTLER_OPTIONS", "Reflector"}
     @@ "EnhancedJwtAuthGuard" :> {"JwtService", "Reflector", "CacheService"}
     @@ "MetricsInterceptor" :> {"MetricsService"}
     @@ "SessionService" :> {"CACHE_MANAGER", "SessionGateway", "SESSION_CONFIG"}
     @@ "SessionGuard" :> {"SessionService", "CustomLoggerService"}
     @@ "SessionGateway" :> {"JwtService"}
     @@ "SESSION_CONFIG" :> {}
     @@ "AuthThrottlerGuard" :> {"THROTTLER_OPTIONS", "Reflector"}]

\* The middleware AppModule applies, built when the application listens.  The
\* tracking middleware asks for the CustomLoggerService of logger.service.ts, a
\* class of the same name that no module provides.
Middleware ==
  "EnhancedSecurityHeadersMiddleware" :> {}
  @@ "RequestTrackingMiddleware" :> {"CustomLoggerService of logger.service.ts"}

ServicesModule ==
  [imports |-> {},
   exports |-> {"CustomLoggerService", "RequestContextService", "CircuitBreakerService",
                "MetricsService", "CIRCUIT_BREAKER_OPTIONS"},
   needs |-> SharedServices @@ "CIRCUIT_BREAKER_OPTIONS" :> {}]

\* It exports the library modules that hold the connections.
DatabaseModule ==
  [imports |-> {}, exports |-> {"DataSource", "UserMongoModel"},
   needs |-> "DataSource" :> {"ConfigService"} @@ "UserMongoModel" :> {"ConfigService"}]

EventBusModule ==
  [imports |-> {}, exports |-> {"EventBusService"},
   needs |-> "MAIN_SERVICE" :> {"ConfigService"} @@ "EventBusService" :> {"MAIN_SERVICE"}]

HealthModule ==
  [imports |-> {}, exports |-> {},
   needs |-> "CacheService" :> {"CACHE_MANAGER"}
             @@ "CacheHealthIndicator" :> {"CacheService"}
             @@ "HealthController" :> {"HealthCheckService", "CacheHealthIndicator"}]

\* What the libraries' modules provide where they are imported, or everywhere.
Library == {"ConfigService", "JwtService", "HealthCheckService", "CACHE_MANAGER",
            "THROTTLER_OPTIONS", "Reflector"}

Module == [App |-> AppModule, Services |-> ServicesModule, Database |-> DatabaseModule,
           EventBus |-> EventBusModule, Health |-> HealthModule]

Providers == UNION {{m} \X DOMAIN Module[m].needs : m \in DOMAIN Module}
-----------------------------------------------------------------------------
Provides(m, t) == t \in DOMAIN Module[m].needs
Exporters(m, t) == {i \in Module[m].imports : t \in Module[i].exports}
Visible(m, t) == t \in Library \/ Provides(m, t) \/ Exporters(m, t) # {}

\* The classes that declare a scope of their own.
TransientScoped == {"CustomLoggerService"}
RequestScoped == {"RequestContextService"}

\* A provider is one for the whole process only if all it depends on is: an
\* instance per request makes one per request of everything above it.
IsStatic[p \in Providers] ==
  /\ p[2] \notin TransientScoped \cup RequestScoped
  /\ \A t \in Module[p[1]].needs[p[2]] \ Library :
       IF Provides(p[1], t) THEN IsStatic[<<p[1], t>>]
       ELSE \E i \in Exporters(p[1], t) : IsStatic[<<i, t>>]
-----------------------------------------------------------------------------
Databases == {"postgres", "mongo"}

VARIABLES
  phase,   \* how far bootstrap() is
  up,      \* the databases connected to
  tries    \* refused attempts at each

vars == <<phase, up, tries>>

Init ==
  /\ phase = "create"
  /\ up = {}
  /\ tries = [d \in Databases |-> 0]

\* The factories of TypeOrmModule and MongooseModule connect, side by side, and
\* try again when refused; the last refusal fails NestFactory.create().
Connect(d) ==
  /\ phase = "create" /\ d \notin up
  /\ up' = up \cup {d}
  /\ UNCHANGED <<phase, tries>>

Refused(d) ==
  /\ phase = "create" /\ d \notin up
  /\ tries' = [tries EXCEPT ![d] = @ + 1]
  /\ phase' = IF tries'[d] = MaxTries THEN "exited" ELSE phase
  /\ UNCHANGED up

\* bootstrap() goes on if the condition holds; if not, Nest ends the process.
Pass(from, to, holds) ==
  /\ phase = from
  /\ phase' = IF holds THEN to ELSE "exited"
  /\ UNCHANGED <<up, tries>>

\* NestFactory.create(): every dependency has to be found.
Create ==
  /\ up = Databases
  /\ Pass("create", "configure",
          \A m \in DOMAIN Module : \A t \in DOMAIN Module[m].needs :
            \A d \in Module[m].needs[t] : Visible(m, d))

\* Plug-ins, versioning, pipe, interceptor and Swagger; taken to succeed.
Configure == Pass("configure", "logger", TRUE)

\* app.get() gives providers of the whole process only.
GetLogger == Pass("logger", "listen", IsStatic[<<"App", "CustomLoggerService">>])

\* app.listen() builds the middleware first.
Listen ==
  Pass("listen", "listening",
       \A w \in DOMAIN Middleware : \A t \in Middleware[w] : Visible("App", t))

\* The container starts the process again.
Restart ==
  /\ phase = "exited"
  /\ phase' = "create" /\ up' = {} /\ tries' = [d \in Databases |-> 0]

Next ==
  \/ \E d \in Databases : Connect(d) \/ Refused(d)
  \/ Create \/ Configure \/ GetLogger \/ Listen \/ Restart
  \/ phase = "listening" /\ UNCHANGED vars

\* The databases answer; every step of the code is taken.
Spec ==
  /\ Init /\ [][Next]_vars
  /\ \A d \in Databases : WF_vars(Connect(d))
  /\ WF_vars(Create) /\ WF_vars(Configure) /\ WF_vars(GetLogger) /\ WF_vars(Listen)
  /\ WF_vars(Restart)

\* main.ts:47: a process that reaches its databases, as often as it takes, comes
\* to listen.
ComesToListen == []<>(up = Databases) => <>(phase = "listening")
=============================================================================
