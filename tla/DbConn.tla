------------------------------- MODULE DbConn -------------------------------
(***************************************************************************)
(* OpenConnection and the postgres connection it returns: choosing an      *)
(* alias, resolving the DSN, opening a pool with an eager ping, and the    *)
(* calls of several goroutines on the connection until it is closed.       *)
(***************************************************************************)
EXTENDS Config

CONSTANTS
    DbConfigs,   \* [conns, default]: configurations that passed validation
    DbAliases,   \* --connection: <<>> when absent
    DbDrivers,   \* registered drivers -> can compose a DSN
    DbErrors,    \* what pgx returns: [timeout, class, code]
    DbCallers    \* goroutines using the connection

(* A password is named after the alias it was given for.                   *)
ASSUME DbAssumption ==
    \A c \in DbConfigs :
        /\ c.conns \in Seq({c.conns[i] : i \in DOMAIN c.conns})
        /\ \A i \in DOMAIN c.conns : c.conns[i].password \in {<<>>, c.conns[i].alias}

VARIABLES
    dbPc, dbConn, dbErr,
    secret,      \* the DSN: whose it is and the password in it
    pool,        \* "none", "open", "closing", "closed"
    poolCloses,  \* calls of pgxpool.Close
    dbCall       \* what each goroutine is doing

dbVars == <<dbPc, dbConn, dbErr, secret, pool, poolCloses, dbCall>>

NoConn == [alias |-> <<>>]
NoError == "none"

(* The flag's alias, else the configured one, else the only connection. *)
ActiveConnection(c, cli) ==
    LET alias == IF cli = <<>> THEN c.default ELSE cli
        named == {i \in DOMAIN c.conns : c.conns[i].alias = alias}
    IN  IF alias = <<>>
        THEN CASE Len(c.conns) = 0 -> [err |-> "CONN.NO_CONNECTION"]
               [] Len(c.conns) = 1 -> [err |-> NoError, conn |-> c.conns[1]]
               [] OTHER -> [err |-> "CONN.AMBIGUOUS"]
        ELSE IF named = {} THEN [err |-> "CONN.UNKNOWN_ALIAS"]
        ELSE [err |-> NoError, conn |-> c.conns[CHOOSE i \in named : \A j \in named : i <= j]]

(* The environment after the user exported a password for these aliases. *)
passwordEnv(aliases) ==
    [k \in {envKey(a) : a \in aliases} |-> CHOOSE a \in aliases : envKey(a) = k]

(* The alias's own variable, even when empty, before the file. *)
ResolvePassword(conn, env) ==
    IF envKey(conn.alias) \in DOMAIN env THEN env[envKey(conn.alias)] ELSE conn.password

(* The composed DSN, unless the driver's own parser refuses it. *)
ComposeDSN(conn, env, parses) ==
    IF parses THEN [err |-> NoError, alias |-> conn.alias, password |-> ResolvePassword(conn, env)]
    ELSE [err |-> "DB.CONNECT_FAILED"]

(* A DSN passes through as it is; fields go to the driver's composer. *)
ResolveDSN(conn, env, parses) ==
    IF conn.dsn THEN [err |-> NoError, alias |-> conn.alias, password |-> conn.password]
    ELSE IF conn.driver \notin DOMAIN DbDrivers THEN [err |-> "DB.DRIVER_UNKNOWN"]
    ELSE IF ~DbDrivers[conn.driver] THEN [err |-> "CONN.UNSUPPORTED_FIELDS"]
    ELSE ComposeDSN(conn, env, parses)

(* Timeouts and cancellation first, then two codes, then the class. *)
classify(e) ==
    IF e.timeout THEN "DB.TIMEOUT"
    ELSE IF e.class = "net" THEN "DB.CONNECT_FAILED"
    ELSE IF e.code = "42501" THEN "DB.AUTH_FAILED"
    ELSE IF e.code = "3D000" THEN "DB.CONNECT_FAILED"
    ELSE IF e.class = "28" THEN "DB.AUTH_FAILED"
    ELSE IF e.class = "08" THEN "DB.CONNECT_FAILED"
    ELSE IF e.class \in {"53", "57"} THEN "DB.UNAVAILABLE"
    ELSE "DB.QUERY_FAILED"

DbInit ==
    /\ dbPc = "start" /\ dbConn = NoConn /\ dbErr = NoError
    /\ secret = NoConn /\ pool = "none" /\ poolCloses = 0
    /\ dbCall = [g \in DbCallers |-> "none"]

Fails(code) == dbPc' = "failed" /\ dbErr' = code

(* OpenConnection up to db.Open. *)
SelectConnection ==
    /\ dbPc = "start"
    /\ \E c \in {d \in DbConfigs : validateConnections(d.conns) = {}}, cli \in DbAliases :
       \E exported \in SUBSET {c.conns[i].alias : i \in DOMAIN c.conns}, parses \in BOOLEAN :
         LET active == ActiveConnection(c, cli)
             env == passwordEnv(exported) IN
         IF active.err # NoError THEN Fails(active.err) /\ UNCHANGED <<dbConn, secret>>
         ELSE LET dsn == ResolveDSN(active.conn, env, parses) IN
              IF dsn.err # NoError THEN Fails(dsn.err) /\ UNCHANGED <<dbConn, secret>>
              ELSE /\ dbConn' = active.conn /\ secret' = dsn
                   /\ IF active.conn.driver \in DOMAIN DbDrivers
                      THEN dbPc' = "pool" /\ UNCHANGED dbErr ELSE Fails("DB.DRIVER_UNKNOWN")
    /\ UNCHANGED <<pool, poolCloses, dbCall>>

newPool ==
    /\ dbPc = "pool"
    /\ \/ pool' = "open" /\ dbPc' = "ping" /\ UNCHANGED dbErr
       \/ UNCHANGED pool /\ \E e \in DbErrors : Fails(classify(e))
    /\ UNCHANGED <<dbConn, secret, poolCloses, dbCall>>

(* The eager ping; when it fails the pool is closed before the error returns. *)
Driver_Open ==
    /\ dbPc = "ping"
    /\ \/ dbPc' = "open" /\ UNCHANGED <<dbErr, pool, poolCloses>>
       \/ (\E e \in DbErrors : Fails(classify(e))) /\ pool' = "closed" /\ poolCloses' = 1
    /\ UNCHANGED <<dbConn, secret, dbCall>>

(* Ping and HealthCheck ask the pool for a connection, whatever became of  *)
(* it: Close may have begun or be over.                                    *)
Busy == {"waiting", "query", "closing"}

Query(g) ==
    /\ dbPc = "open" /\ dbCall[g] \notin Busy
    /\ dbCall' = [dbCall EXCEPT ![g] = "waiting"]
    /\ UNCHANGED <<dbPc, dbConn, dbErr, secret, pool, poolCloses>>

(* A pool whose Close has begun gives out no connection any more. *)
Acquired(g) ==
    /\ dbCall[g] = "waiting" /\ pool = "open"
    /\ dbCall' = [dbCall EXCEPT ![g] = "query"]
    /\ UNCHANGED <<dbPc, dbConn, dbErr, secret, pool, poolCloses>>

(* Only who got a connection can succeed; it is given back either way. *)
QueryReturns(g) ==
    /\ dbCall[g] \in {"waiting", "query"}
    /\ \E answer \in {classify(e) : e \in DbErrors} \cup (IF dbCall[g] = "query" THEN {"ok"} ELSE {}) :
         dbCall' = [dbCall EXCEPT ![g] = answer]
    /\ UNCHANGED <<dbPc, dbConn, dbErr, secret, pool, poolCloses>>

pgConnClose_Flagged(g) ==
    /\ dbPc = "open" /\ dbCall[g] \notin Busy
    /\ IF pool = "open" THEN dbCall' = [dbCall EXCEPT ![g] = "closing"] /\ pool' = "closing"
                             /\ poolCloses' = poolCloses + 1
       ELSE dbCall' = [dbCall EXCEPT ![g] = "returned"] /\ UNCHANGED <<pool, poolCloses>>
    /\ UNCHANGED <<dbPc, dbConn, dbErr, secret>>

(* closeOnce.Do: the first caller closes the pool, the others wait for it. *)
pgConnClose(g) ==
    /\ dbPc = "open" /\ dbCall[g] \notin Busy
    /\ dbCall' = [dbCall EXCEPT ![g] = "closing"]
    /\ IF pool = "open" THEN pool' = "closing" /\ poolCloses' = poolCloses + 1
       ELSE UNCHANGED <<pool, poolCloses>>
    /\ UNCHANGED <<dbPc, dbConn, dbErr, secret>>

(* pgxpool.Close returns once every connection has been given back. *)
PoolClosed ==
    /\ pool = "closing" /\ \A g \in DbCallers : dbCall[g] # "query"
    /\ pool' = "closed"
    /\ UNCHANGED <<dbPc, dbConn, dbErr, secret, poolCloses, dbCall>>

ConnCloseReturns(g) ==
    /\ dbCall[g] = "closing" /\ pool = "closed"
    /\ dbCall' = [dbCall EXCEPT ![g] = "returned"]
    /\ UNCHANGED <<dbPc, dbConn, dbErr, secret, pool, poolCloses>>

DbDone ==
    /\ dbPc = "failed" \/ \A g \in DbCallers : dbCall[g] = "returned"
    /\ UNCHANGED dbVars

DbNext ==
    \/ SelectConnection \/ newPool \/ Driver_Open \/ PoolClosed \/ DbDone
    \/ \E g \in DbCallers : \/ Query(g) \/ Acquired(g) \/ QueryReturns(g)
                            \/ pgConnClose(g) \/ ConnCloseReturns(g)
DbSpec == DbInit /\ [][DbNext]_dbVars
-----------------------------------------------------------------------------
(* OpenConnection hands over an open pool or none: an Open that fails at   *)
(* any step leaves no pool behind that nobody could close.                 *)
FailedOpenLeavesNoPool == dbPc = "failed" => pool \in {"none", "closed"}

(* However many goroutines close the connection, and as often, while       *)
(* others still use it, pgxpool.Close runs at most once, and whoever's     *)
(* Close has returned finds the pool closed and no query in it.            *)
CloseOnceAndDone ==
    /\ poolCloses <= 1
    /\ \A g \in DbCallers :
         dbCall[g] = "returned" => pool = "closed" /\ \A h \in DbCallers : dbCall[h] # "query"

(* The password sent to the server was given for the connection that is    *)
(* opened, in the file or in the variable of its alias: two aliases never  *)
(* share a variable.                                                       *)
OwnPassword == dbConn # NoConn => secret.password \in {<<>>, dbConn.alias}

(* A pool has one owner and one end: a failed open leaves none, concurrent *)
(* closes end it once, and it was opened with the password of its own      *)
(* alias.                                                                  *)
ConnectionSafe == FailedOpenLeavesNoPool /\ CloseOnceAndDone /\ OwnPassword
=============================================================================
