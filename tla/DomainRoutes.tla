---------------------------- MODULE DomainRoutes ----------------------------
(* Domain mappings and the embedded reverse proxy (api/domain_handlers.go,   *)
(* store/domain_mappings.go, internal/proxy). A client completes a TLS       *)
(* handshake by SNI and then sends requests by Host; a request that names an *)
(* eligible mapping is answered from backendCache or from the one flight     *)
(* (singleflight) that resolves the mapping's key. Containers, the ACME      *)
(* service and the compose CLI are the environment.                          *)
EXTENDS Naturals, FiniteSets

CONSTANTS
    MaxProjects,  \* bound: projects
    Domains,      \* public names that are not the admin's
    Admin,        \* the admin's own domain (cfg.ACMEDomains)
    Targets,      \* (service, port) pairs a mapping can name
    Addrs,        \* addresses containers publish on
    Clients,      \* TLS connections
    Editors,      \* API requests in flight
    TTL,          \* life of a cache entry
    Timeout,      \* resolveTimeout
    MaxChanges    \* bound: changes of projects, mappings, hosts and containers

(* Times are numbers, an entry lives for a while, and no address is Down.    *)
BoundsOK == TTL \in Nat \ {0} /\ Timeout \in Nat /\ "down" \notin Addrs

Projects == 1..MaxProjects
Names == Domains \cup {Admin}
NoRow == [id |-> 0]
Nobody == [project |-> 0]
Down == "down"

VARIABLES
    proj,       \* projects: "local", "remote", "gone"
    rows,       \* domain_mappings, by domain (UNIQUE): [id, project, target]
    nextRow,    \* next mapping id
    localRow,   \* hosts still has its row of kind "local"
    bound,      \* who publishes on each address of the local daemon
    cache,      \* backendCache.m: [key, ans, left]: left ticks to live
    nextSweep,  \* ticks to backendCache.nextSweep
    flights,    \* singleflight calls: [key, m, pc, age], then ans
    conn,       \* where each client stands
    edit,       \* where each API request stands
    certs,      \* names the proxy's manager holds a certificate for
    changes     \* history: changes of projects, mappings, hosts and containers

dvars == <<proj, rows, nextRow, localRow, bound, cache, nextSweep, flights, conn, edit, certs, changes>>

Idle == [pc |-> "idle"]
ConnTo(c, to) == conn' = [conn EXCEPT ![c] = to]
EditTo(e, to) == edit' = [edit EXCEPT ![e] = to]
Served == {"lookup", "join", "wait", "dial"}

Init ==
    /\ proj = [p \in Projects |-> "local"]
    /\ rows = [d \in Names |-> NoRow]
    /\ nextRow = 1
    /\ localRow = TRUE
    /\ bound = [a \in Addrs |-> Nobody]
    /\ nextSweep = 0
    /\ cache = {} /\ flights = {}
    /\ conn = [c \in Clients |-> Idle]
    /\ edit = [e \in Editors |-> Idle]
    /\ certs = {} /\ changes = 0

Changed == changes < MaxChanges /\ changes' = changes + 1
Exists(p) == proj[p] \in {"local", "remote"}

-----------------------------------------------------------------------------
(* handleUpdateProject and handleDeleteProject, as far as mappings see them: *)
(* DeleteProject removes the mappings and then the row, two statements.      *)
MoveProject(p, host) ==
    /\ Changed
    /\ Exists(p) /\ proj[p] # host
    /\ proj' = [proj EXCEPT ![p] = host]
    /\ UNCHANGED <<rows, nextRow, localRow, bound, cache, nextSweep, flights, conn, edit, certs>>

DeleteDomainMappings(e, p) ==
    /\ Changed
    /\ edit[e].pc = "idle" /\ Exists(p)
    /\ rows' = [d \in Names |-> IF rows[d] # NoRow /\ rows[d].project = p THEN NoRow ELSE rows[d]]
    /\ EditTo(e, [pc |-> "drop", project |-> p])
    /\ UNCHANGED <<proj, nextRow, localRow, bound, cache, nextSweep, flights, conn, certs>>

DeleteProjectRow(e) ==
    /\ edit[e].pc = "drop"
    /\ proj' = [proj EXCEPT ![edit[e].project] = "gone"]
    /\ EditTo(e, Idle)
    /\ UNCHANGED <<rows, nextRow, localRow, bound, cache, nextSweep, flights, conn, certs, changes>>

(* An admin deletes the local host's row (handleDeleteHost).                 *)
DeleteLocalHost ==
    /\ Changed
    /\ localRow
    /\ localRow' = FALSE
    /\ UNCHANGED <<proj, rows, nextRow, bound, cache, nextSweep, flights, conn, edit, certs>>

-----------------------------------------------------------------------------
(* checkDomainMappingFields: the admin's own name is never mapped.           *)
FieldsOK(d) == d # Admin

(* validateDomainMapping's service check is best-effort: the target a        *)
(* mapping names need not be one the project has.                            *)
LoadForCreate(e, p, d, t) ==
    /\ Changed
    /\ edit[e].pc = "idle" /\ Exists(p) /\ FieldsOK(d)
    /\ EditTo(e, [pc |-> "create", project |-> p, domain |-> d, target |-> t])
    /\ UNCHANGED <<proj, rows, nextRow, localRow, bound, cache, nextSweep, flights, conn, certs>>

(* CreateDomainMapping: UNIQUE(domain), no foreign key.                      *)
CreateDomainMapping(e) ==
    LET x == edit[e] IN
    /\ x.pc = "create"
    /\ IF rows[x.domain] = NoRow
         THEN /\ rows' = [rows EXCEPT ![x.domain] = [id |-> nextRow, project |-> x.project, target |-> x.target]]
              /\ nextRow' = nextRow + 1
         ELSE UNCHANGED <<rows, nextRow>>
    /\ EditTo(e, Idle)
    /\ UNCHANGED <<proj, localRow, bound, cache, nextSweep, flights, conn, certs, changes>>

(* handleUpdateDomainMapping reads the row and validates; the statement      *)
(* matches on id and project, so a row deleted meanwhile is not found.       *)
LoadForUpdate(e, d, t) ==
    /\ Changed
    /\ edit[e].pc = "idle"
    /\ rows[d] # NoRow /\ Exists(rows[d].project) /\ rows[d].target # t
    /\ EditTo(e, [pc |-> "update", domain |-> d, id |-> rows[d].id, target |-> t])
    /\ UNCHANGED <<proj, rows, nextRow, localRow, bound, cache, nextSweep, flights, conn, certs>>

UpdateDomainMapping(e) ==
    LET x == edit[e] IN
    /\ x.pc = "update"
    /\ rows' = IF rows[x.domain].id = x.id
                 THEN [rows EXCEPT ![x.domain].target = x.target]
                 ELSE rows
    /\ EditTo(e, Idle)
    /\ UNCHANGED <<proj, nextRow, localRow, bound, cache, nextSweep, flights, conn, certs, changes>>

(* handleDeleteDomainMapping needs the project (loadProject).                *)
DeleteDomainMapping(d) ==
    /\ Changed
    /\ rows[d] # NoRow /\ Exists(rows[d].project)
    /\ rows' = [rows EXCEPT ![d] = NoRow]
    /\ UNCHANGED <<proj, nextRow, localRow, bound, cache, nextSweep, flights, conn, edit, certs>>

-----------------------------------------------------------------------------
(* eligibleMapping: a row, of an existing project, on the local host.        *)
Eligible(d) == rows[d] # NoRow /\ proj[rows[d].project] = "local"

(* CombinedGetCertificate and HostPolicy: the admin's name has a manager of  *)
(* its own; another name gets a certificate while it is eligible, or is      *)
(* served the one cached earlier.                                            *)
Handshake(c, d) ==
    /\ conn[c].pc = "idle"
    /\ d = Admin \/ d \in certs \/ Eligible(d)
    /\ certs' = certs \cup ({d} \ {Admin})
    /\ ConnTo(c, [pc |-> "open", sni |-> d])
    /\ UNCHANGED <<proj, rows, nextRow, localRow, bound, cache, nextSweep, flights, edit, changes>>

(* CombinedHandler: SNI and Host must agree.                                 *)
Directed(c, d) == conn[c].sni = d

(* TryServeHTTP reads the mapping; a name that is not eligible is answered   *)
(* with 404 and never by the admin's handler.                                *)
Request(c, d) ==
    /\ conn[c].pc = "open"
    /\ d # Admin /\ Directed(c, d) /\ Eligible(d)
    /\ ConnTo(c, [pc |-> "lookup", sni |-> conn[c].sni, domain |-> d, m |-> rows[d]])
    /\ UNCHANGED <<proj, rows, nextRow, localRow, bound, cache, nextSweep, flights, edit, certs, changes>>

-----------------------------------------------------------------------------
(* cacheKey: every input of resolveBackend. (UpdatedAt only splits keys      *)
(* further: the entries shared here are those of equal inputs.)              *)
CacheKey(d, m) == [domain |-> d, id |-> m.id, project |-> m.project, target |-> m.target]

(* lookupLocked: an entry that has expired is a miss.                        *)
Live(e) == e.left > 0
Hits(key) == {e \in cache : e.key = key /\ Live(e)}

(* What lookupLocked leaves of the cache.                                    *)
AfterLookup(key) == {e \in cache : e.key # key \/ Live(e)}

Answered(c, ans) == [pc |-> "dial", sni |-> conn[c].sni, domain |-> conn[c].domain, m |-> conn[c].m, ans |-> ans]

Lookup(c) ==
    LET key == CacheKey(conn[c].domain, conn[c].m) IN
    /\ conn[c].pc = "lookup"
    /\ cache' = AfterLookup(key)
    /\ IF Hits(key) = {} THEN ConnTo(c, [conn[c] EXCEPT !.pc = "join"])
       ELSE \E e \in Hits(key) : ConnTo(c, Answered(c, e.ans))
    /\ UNCHANGED <<proj, rows, nextRow, localRow, bound, nextSweep, flights, edit, certs, changes>>

(* DoChan joins the flight of the key or starts one.                         *)
Join(c) ==
    LET key == CacheKey(conn[c].domain, conn[c].m) IN
    /\ conn[c].pc = "join"
    /\ ConnTo(c, [conn[c] EXCEPT !.pc = "wait"])
    /\ flights' = IF \E f \in flights : f.key = key THEN flights
                  ELSE flights \cup {[key |-> key, m |-> conn[c].m, pc |-> "check", age |-> 0]}
    /\ UNCHANGED <<proj, rows, nextRow, localRow, bound, cache, nextSweep, edit, certs, changes>>

(* Every waiter of the flight gets its answer.                               *)
Deliver(key, ans) ==
    conn' = [c \in Clients |-> IF conn[c].pc = "wait" /\ CacheKey(conn[c].domain, conn[c].m) = key
                                 THEN Answered(c, ans) ELSE conn[c]]

(* The flight looks again: another may have filled the cache meanwhile.      *)
Recheck(key) == Hits(key)

FlightCheck(f) ==
    /\ f.pc = "check"
    /\ IF Recheck(f.key) = {}
         THEN /\ flights' = (flights \ {f}) \cup {[f EXCEPT !.pc = "list", !.age = 0]}
              /\ UNCHANGED conn
         ELSE /\ flights' = flights \ {f}
              /\ \E e \in Recheck(f.key) : Deliver(f.key, e.ans)
    /\ cache' = AfterLookup(f.key)
    /\ UNCHANGED <<proj, rows, nextRow, localRow, bound, nextSweep, edit, certs, changes>>

Resolved(f, ans) ==
    flights' = (flights \ {f}) \cup {[key |-> f.key, m |-> f.m, pc |-> "store", age |-> f.age, ans |-> ans]}

NoBackend(why) == [addr |-> Down, why |-> why, age |-> 0]

(* resolveBackend that dials the port the mapping names, whoever has it.     *)
MatchesAny(m) == {a \in Addrs : bound[a] # Nobody /\ bound[a].target = m.target}

(* resolveBackend: a running container of the project and service that       *)
(* publishes the port; the address is the daemon's own.                      *)
Matches(m) == {a \in Addrs : bound[a] = [project |-> m.project, target |-> m.target]}

(* resolveBackend checks the project again, and that hosts has a local row.  *)
Local(m) == proj[m.project] = "local" /\ localRow

FlightList(f) ==
    /\ f.pc = "list"
    /\ \/ /\ ~Local(f.m)
          /\ Resolved(f, NoBackend("moved"))
       \/ /\ Local(f.m) /\ Matches(f.m) = {}
          /\ Resolved(f, NoBackend("absent"))
       \/ /\ Local(f.m)
          /\ \E a \in Matches(f.m) : Resolved(f, [addr |-> a, owner |-> bound[a], age |-> 0])
    /\ UNCHANGED <<proj, rows, nextRow, localRow, bound, cache, nextSweep, conn, edit, certs, changes>>

(* The daemon does not answer within resolveTimeout.                         *)
FlightTimesOut(f) ==
    /\ f.pc = "list" /\ f.age = Timeout
    /\ Resolved(f, NoBackend("timeout"))
    /\ UNCHANGED <<proj, rows, nextRow, localRow, bound, cache, nextSweep, conn, edit, certs, changes>>

(* storeLocked sweeps, at most once per TTL.                                 *)
Swept(entries) == IF nextSweep > 0 THEN entries ELSE {e \in entries : Live(e)}

FlightStore(f) ==
    /\ f.pc = "store"
    /\ cache' = Swept({e \in cache : e.key # f.key} \cup {[key |-> f.key, ans |-> f.ans, left |-> TTL]})
    /\ nextSweep' = IF nextSweep > 0 THEN nextSweep ELSE TTL
    /\ flights' = flights \ {f}
    /\ Deliver(f.key, f.ans)
    /\ UNCHANGED <<proj, rows, nextRow, localRow, bound, edit, certs, changes>>

(* A flight under its first waiter's context: that client's disconnect is    *)
(* the answer of everyone, and of the cache.                                 *)
CutFlightsToo(c) ==
    {IF f.pc = "list" /\ f.key = CacheKey(conn[c].domain, conn[c].m)
       THEN [key |-> f.key, m |-> f.m, pc |-> "store", age |-> f.age, ans |-> NoBackend("cancelled")] ELSE f : f \in flights}

(* The flight runs under a context of its own: a client that disconnects     *)
(* stops waiting and nothing else.                                           *)
CutFlights(c) == flights

Disconnect(c) ==
    /\ conn[c].pc = "wait"
    /\ flights' = CutFlights(c)
    /\ ConnTo(c, Idle)
    /\ UNCHANGED <<proj, rows, nextRow, localRow, bound, cache, nextSweep, edit, certs, changes>>

(* The answer is used: proxied, or 502.                                      *)
Finish(c) ==
    /\ conn[c].pc = "dial"
    /\ ConnTo(c, Idle)
    /\ UNCHANGED <<proj, rows, nextRow, localRow, bound, cache, nextSweep, flights, edit, certs, changes>>

-----------------------------------------------------------------------------
(* Containers start and stop: an address changes hands.                      *)
Publish(a, o) ==
    /\ Changed
    /\ bound[a] # o
    /\ bound' = [bound EXCEPT ![a] = o]
    /\ UNCHANGED <<proj, rows, nextRow, localRow, cache, nextSweep, flights, conn, edit, certs>>

(* Time passes; the timeout's context lets no resolution outlive it. The age *)
(* of an answer is how long ago its listing was made, while it is in use.    *)
Older(ans) == [ans EXCEPT !.age = @ + 1]
Forgotten == [addr |-> Down, why |-> "expired", age |-> 0]
Less(n) == IF n > 0 THEN n - 1 ELSE 0

Tick ==
    /\ \A f \in flights : f.pc = "check" \/ f.age < Timeout
    /\ cache' = {IF e.left > 1 THEN [key |-> e.key, ans |-> Older(e.ans), left |-> e.left - 1]
                 ELSE [key |-> e.key, ans |-> Forgotten, left |-> 0] : e \in cache}
    /\ nextSweep' = Less(nextSweep)
    /\ flights' = {CASE f.pc = "check" -> f
                     [] f.pc = "store" -> [f EXCEPT !.age = @ + 1, !.ans = Older(@)]
                     [] OTHER -> [f EXCEPT !.age = @ + 1] : f \in flights}
    /\ UNCHANGED <<proj, rows, nextRow, localRow, bound, conn, edit, certs, changes>>

Owners == [project : Projects, target : Targets] \cup {Nobody}

Next ==
    \/ \E p \in Projects, host \in {"local", "remote"} : MoveProject(p, host)
    \/ \E e \in Editors :
          \/ \E p \in Projects : DeleteDomainMappings(e, p)
          \/ DeleteProjectRow(e) \/ CreateDomainMapping(e) \/ UpdateDomainMapping(e)
          \/ \E p \in Projects, d \in Names, t \in Targets : LoadForCreate(e, p, d, t)
          \/ \E d \in Names, t \in Targets : LoadForUpdate(e, d, t)
    \/ \E d \in Names : DeleteDomainMapping(d)
    \/ DeleteLocalHost
    \/ \E c \in Clients :
          \/ \E d \in Names : Handshake(c, d) \/ Request(c, d)
          \/ Lookup(c) \/ Join(c) \/ Disconnect(c) \/ Finish(c)
    \/ \E f \in flights : FlightCheck(f) \/ FlightList(f) \/ FlightTimesOut(f) \/ FlightStore(f)
    \/ \E a \in Addrs, o \in Owners : Publish(a, o)
    \/ Tick

Spec == Init /\ [][Next]_dvars

-----------------------------------------------------------------------------
TypeOK ==
    /\ proj \in [Projects -> {"local", "remote", "gone"}]
    /\ \A d \in Names : rows[d] = NoRow \/ rows[d].project \in Projects
    /\ bound \in [Addrs -> Owners]
    /\ certs \subseteq Domains
    /\ \A f \in flights : f.pc \in {"check", "list", "store"}
    /\ \A c \in Clients : conn[c].pc \in {"idle", "open"} \cup Served

(* backend.go's cacheKey: the address a request is sent to belonged, when it *)
(* was listed, to the project and service of the mapping the request read,   *)
(* whatever was deleted, recreated or repointed in between, and was listed   *)
(* no longer ago than an entry's life and a resolution together.             *)
AnswerIsOfTheMapping ==
    \A c \in Clients : conn[c].pc = "dial" /\ conn[c].ans.addr # Down =>
        /\ conn[c].ans.owner = [project |-> conn[c].m.project, target |-> conn[c].m.target]
        /\ conn[c].ans.age < TTL + Timeout

(* dispatch.go: a request is proxied only over a handshake for its own name, *)
(* under a certificate issued while the name was eligible, and never for the *)
(* admin's name.                                                             *)
ProxiedUnderItsOwnName ==
    \A c \in Clients : conn[c].pc \in Served =>
        /\ conn[c].sni = conn[c].domain /\ conn[c].domain \in certs

(* resolveBackendCached: an entry that says "down" says so because of the    *)
(* daemon or the store, never because a client went away.                    *)
NoClientPoisonsTheCache ==
    \A e \in cache : e.ans.addr = Down => e.ans.why # "cancelled"

(* resolveBackendCached: the daemon is not asked about a key whose answer is *)
(* in the cache, whichever way late callers and flights interleave.          *)
NoNeedlessListing ==
    \A f \in flights : f.pc = "list" => Hits(f.key) = {}

(* storeLocked: entries under superseded keys go: one store after a sweep    *)
(* falls due, none that has expired is left.                                 *)
SweepStep == nextSweep = 0 /\ nextSweep' > 0 => \A e \in cache' : e.left > 0
SweepKeepsUp == [][SweepStep]_dvars

(* store.go: DeleteProject removes the mappings of a project itself. (TLC    *)
(* refutes this: a creation that loaded the project before inserts after.)   *)
NoOrphanMappings ==
    \A d \in Names : rows[d] # NoRow => proj[rows[d].project] # "gone"
=============================================================================
