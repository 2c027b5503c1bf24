------------------------------ MODULE Accounts ------------------------------
(* Accounts, roles and what they grant: first-run setup, user and role        *)
(* administration, directory logins that provision accounts and roles, and    *)
(* the access check of every gated request (store/users.go, store/roles.go,   *)
(* store/access.go, store/ldap.go, api/user_handlers.go, api/role_handlers.go,*)
(* api/access_middleware.go).                                                 *)
(*                                                                            *)
(* No handler here runs in one transaction: each statement is a step, and     *)
(* requests interleave between them.  Ids are never reused (AUTOINCREMENT).   *)
EXTENDS Naturals, FiniteSets, FiniteSetsExt

CONSTANTS
    Users,      \* account ids; an id stands for its username too
    Roles,      \* role ids
    Sections,   \* store.Sections
    Hosts,      \* remote host ids; the local daemon is always in scope
    Requests,   \* requests in flight at once
    Areas,      \* areas of the API that requests are made to
    Edits,      \* role bodies: [sections : [Sections -> Access], hosts : SUBSET Hosts]
    Bodies,     \* access bodies: [role, readOnly, sections]
    Scenarios   \* [ops, roles, lanes]: endpoints, role ids and requests of a behaviour

Access == {"none", "read", "write"}

VARIABLES
    users,      \* users: id -> [role, readOnly, sections, source]
    roles,      \* roles: the ids of the rows
    roleRows,   \* role_sections and role_hosts: id -> [sections, hosts]
    userRoles,  \* user_roles: pairs <<user, role>>
    disabled,   \* disabled_sections
    fallback,   \* LDAPConfig.FallbackRoleID, {} when none
    areq,       \* where each request stands
    offer,      \* the scenario of this behaviour
    made,       \* history: accounts setup made since the table was last empty
    busy        \* history: two guarded or role-changing requests overlapped

avars == <<users, roles, roleRows, userRoles, disabled, fallback, areq, offer, made, busy>>

NoRow == [sections |-> [s \in Sections |-> "none"], hosts |-> {}]
Free == [pc |-> "idle"]

Init ==
    /\ users = <<>>
    /\ roles = {}
    /\ roleRows = [x \in Roles |-> NoRow]
    /\ userRoles = {}
    /\ disabled = {}
    /\ fallback = {}
    /\ areq = [r \in Requests |-> Free]
    /\ offer \in Scenarios
    /\ made = 0
    /\ busy = FALSE

(* busy says whether a request that goes on with what it read (a guard, a row,*)
(* a role looked up) was open while another one was.                          *)
To(r, rec) ==
    /\ areq' = [areq EXCEPT ![r] = rec]
    /\ busy' = (busy \/ (rec.pc # "idle" /\ \E q \in Requests \ {r} : areq[q].pc # "idle"))
    /\ UNCHANGED offer
Op(op) == op \in offer.ops
End(r) == To(r, Free)
Stands(r, pc) == areq[r].pc = pc

Put(f, x, v) == [y \in DOMAIN f \cup {x} |-> IF y = x THEN v ELSE f[y]]
Drop(f, x) == [y \in DOMAIN f \ {x} |-> f[y]]

Account(role, readOnly, sections, source) ==
    [role |-> role, readOnly |-> readOnly, sections |-> sections, source |-> source]

(* CountAdmins *)
Admins == {u \in DOMAIN users : users[u].role = "admin"}

-----------------------------------------------------------------------------
(* Setup: the count is advisory ...                                           *)
Setup(r, u) ==
    /\ Op("setup")
    /\ Stands(r, "idle")
    /\ users = <<>>
    /\ To(r, [pc |-> "first", user |-> u])
    /\ UNCHANGED <<users, roles, roleRows, userRoles, disabled, fallback, made>>

(* ... and CreateFirstUser's INSERT decides.                                  *)
NoUsers == users = <<>>

CreateFirstUser(r) ==
    /\ Stands(r, "first")
    /\ IF NoUsers
         THEN /\ users' = Put(users, areq[r].user, Account("admin", FALSE, {}, "local"))
              /\ made' = made + 1
         ELSE UNCHANGED <<users, made>>
    /\ End(r)
    /\ UNCHANGED <<roles, roleRows, userRoles, disabled, fallback>>

(* handleCreateUser and CreateAccount; the INSERT refuses a taken username.   *)
CreateAccount(r, u, body) ==
    /\ Op("users")
    /\ Stands(r, "idle")
    /\ Admins # {}
    /\ u \notin DOMAIN users
    /\ users' = Put(users, u, Account(body.role, body.readOnly, body.sections, "local"))
    /\ End(r)
    /\ UNCHANGED <<roles, roleRows, userRoles, disabled, fallback, made>>

(* handleUpdateUser's guard: the last admin is not demoted.                   *)
LastAdminOffByOne(u) == u \in Admins /\ Cardinality(Admins) < 1

LastAdmin(u) == u \in Admins /\ Cardinality(Admins) <= 1

UpdateUser(r, u, body, ids) ==
    /\ Op("users")
    /\ Stands(r, "idle")
    /\ u \in DOMAIN users
    /\ body.role # "admin" => ~LastAdmin(u)
    /\ To(r, [pc |-> "access", user |-> u, body |-> body, ids |-> ids])
    /\ UNCHANGED <<users, roles, roleRows, userRoles, disabled, fallback, made>>

(* UpdateUserAccess, an UPDATE that finds its row or does nothing, then the   *)
(* roles.                                                                     *)
WithAccess(u, body) ==
    IF u \in DOMAIN users
      THEN [users EXCEPT ![u] = Account(body.role, body.readOnly, body.sections, @.source)]
      ELSE users

UpdateUserAccess(r) ==
    /\ Stands(r, "access")
    /\ users' = WithAccess(areq[r].user, areq[r].body)
    /\ To(r, [pc |-> "clear", user |-> areq[r].user, ids |-> areq[r].ids])
    /\ UNCHANGED <<roles, roleRows, userRoles, disabled, fallback, made>>

(* SetUserRoles: every assignment is deleted, then each id is looked up and   *)
(* inserted, an unknown one dropped.                                          *)
ClearUserRoles(r) ==
    /\ Stands(r, "clear")
    /\ userRoles' = {p \in userRoles : p[1] # areq[r].user}
    /\ To(r, [areq[r] EXCEPT !.pc = "lookup"])
    /\ UNCHANGED <<users, roles, roleRows, disabled, fallback, made>>

LookupRole(r) ==
    /\ Stands(r, "lookup")
    /\ IF areq[r].ids = {}
         THEN End(r)
         ELSE \E id \in areq[r].ids :
                IF id \in roles
                  THEN To(r, [pc |-> "insert", user |-> areq[r].user, id |-> id,
                              ids |-> areq[r].ids \ {id}])
                  ELSE To(r, [areq[r] EXCEPT !.ids = @ \ {id}])
    /\ UNCHANGED <<users, roles, roleRows, userRoles, disabled, fallback, made>>

InsertUserRole(r) ==
    /\ Stands(r, "insert")
    /\ userRoles' = userRoles \cup {<<areq[r].user, areq[r].id>>}
    /\ To(r, [pc |-> "lookup", user |-> areq[r].user, ids |-> areq[r].ids])
    /\ UNCHANGED <<users, roles, roleRows, disabled, fallback, made>>

(* handleDeleteUser: never one's own account, never the last admin; then      *)
(* DeleteUser, whose factors and sessions go with it.                         *)
DeleteUserGuard(r, me, u) ==
    /\ Op("users")
    /\ Stands(r, "idle")
    /\ me \in Admins /\ u \in DOMAIN users /\ u # me
    /\ ~LastAdmin(u)
    /\ To(r, [pc |-> "delete", user |-> u])
    /\ UNCHANGED <<users, roles, roleRows, userRoles, disabled, fallback, made>>

DeleteUser(r) ==
    /\ Stands(r, "delete")
    /\ users' = Drop(users, areq[r].user)
    /\ made' = IF DOMAIN users' = {} THEN 0 ELSE made
    /\ End(r)
    /\ UNCHANGED <<roles, roleRows, userRoles, disabled, fallback>>

-----------------------------------------------------------------------------
(* CreateRole (handleCreateRole, handleDuplicateRole): the row, its sections, *)
(* its hosts.  Nothing is assigned a role before it exists.                   *)
CreateRole(r, id, edit) ==
    /\ Op("roles")
    /\ Stands(r, "idle")
    /\ Admins # {}
    /\ id \notin roles /\ roleRows[id] = NoRow
    /\ roles' = roles \cup {id}
    /\ roleRows' = [roleRows EXCEPT ![id] = edit]
    /\ End(r)
    /\ UNCHANGED <<users, userRoles, disabled, fallback, made>>

(* UpdateRole: the row is looked up, its sections replaced in one transaction *)
(* and its hosts in another.                                                  *)
UpdateRole(r, id, edit) ==
    /\ Op("roles")
    /\ Stands(r, "idle")
    /\ id \in roles
    /\ roleRows' = [roleRows EXCEPT ![id].sections = edit.sections]
    /\ To(r, [pc |-> "hosts", id |-> id, hosts |-> edit.hosts])
    /\ UNCHANGED <<users, roles, userRoles, disabled, fallback, made>>

ReplaceRoleHosts(r) ==
    /\ Stands(r, "hosts")
    /\ roleRows' = [roleRows EXCEPT ![areq[r].id].hosts = areq[r].hosts]
    /\ End(r)
    /\ UNCHANGED <<users, roles, userRoles, disabled, fallback, made>>

(* DeleteRole: refused while it is the directory's fallback; the assignments  *)
(* go, then the host scope, then the row.  Its role_sections rows stay.       *)
Deletable(id) == id \notin fallback

DeleteRole(r, id) ==
    /\ Op("roles")
    /\ Stands(r, "idle")
    /\ id \in roles
    /\ Deletable(id)
    /\ To(r, [pc |-> "unassign", id |-> id])
    /\ UNCHANGED <<users, roles, roleRows, userRoles, disabled, fallback, made>>

UnassignRole(r) ==
    /\ Stands(r, "unassign")
    /\ userRoles' = {p \in userRoles : p[2] # areq[r].id}
    /\ To(r, [areq[r] EXCEPT !.pc = "drop"])
    /\ UNCHANGED <<users, roles, roleRows, disabled, fallback, made>>

DropRole(r) ==
    /\ Stands(r, "drop")
    /\ roles' = roles \ {areq[r].id}
    /\ roleRows' = [roleRows EXCEPT ![areq[r].id].hosts = {}]
    /\ End(r)
    /\ UNCHANGED <<users, userRoles, disabled, fallback, made>>

-----------------------------------------------------------------------------
(* handleSetLDAP and handleSetSettings: one statement each.                   *)
AtOnce == busy' = (busy \/ \E q \in Requests : areq[q].pc # "idle")

SetLDAP(id) ==
    /\ Op("ldap")
    /\ Admins # {}
    /\ fallback' \in {{}, {id}}
    /\ AtOnce
    /\ UNCHANGED <<users, roles, roleRows, userRoles, disabled, areq, offer, made>>

SetSettings(off) ==
    /\ Op("settings")
    /\ disabled' = off
    /\ AtOnce
    /\ UNCHANGED <<users, roles, roleRows, userRoles, fallback, areq, offer, made>>

(* Login reads the row, if there is one, and asks the directory.              *)
LDAPLogin(r, u) ==
    /\ Op("ldap")
    /\ Stands(r, "idle")
    /\ Admins # {}
    /\ u \in DOMAIN users => users[u].source = "ldap"
    /\ To(r, [pc |-> "directory", user |-> u,
              was |-> IF u \in DOMAIN users THEN {users[u]} ELSE {}])
    /\ UNCHANGED <<users, roles, roleRows, userRoles, disabled, fallback, made>>

(* The role an existing account keeps: its own, whatever its groups say.      *)
KeptRole(row, admin) == row.role

(* The directory answered: an account is made on the first login; an existing *)
(* one gets the sections of its groups, with the role and the read-only flag  *)
(* of the row read before the directory was asked.                            *)
ldapLogin(r, admin, secs, want) ==
    /\ Stands(r, "directory")
    /\ LET u == areq[r].user
           was == areq[r].was
       IN /\ users' = IF was = {}
                        THEN IF u \in DOMAIN users THEN users
                             ELSE Put(users, u, Account(IF admin THEN "admin" ELSE "user", FALSE, secs, "ldap"))
                        ELSE LET row == CHOOSE x \in was : TRUE
                             IN IF row.sections = secs THEN users
                                ELSE WithAccess(u, Account(KeptRole(row, admin), row.readOnly, secs, "ldap"))
          /\ IF was = {} /\ u \in DOMAIN users
               THEN End(r)
               ELSE To(r, [pc |-> "sync", user |-> u, want |-> want])
    /\ UNCHANGED <<roles, roleRows, userRoles, disabled, fallback, made>>

(* syncRoles: the roles the groups name that still exist, and the fallback in *)
(* the place of one that does not.                                            *)
SyncedRoles(want) ==
    LET valid == want \cap roles
    IN IF Cardinality(valid) < Cardinality(want) THEN valid \cup (fallback \cap roles) ELSE valid

SyncRoles(r) ==
    /\ Stands(r, "sync")
    /\ LET valid == SyncedRoles(areq[r].want)
           have  == {p[2] : p \in {q \in userRoles : q[1] = areq[r].user}}
       IN IF have = valid THEN End(r)
                          ELSE To(r, [pc |-> "clear", user |-> areq[r].user, ids |-> valid])
    /\ UNCHANGED <<users, roles, roleRows, userRoles, disabled, fallback, made>>

-----------------------------------------------------------------------------
(* EffectiveGrants, as the code builds it: the account's own sections, then   *)
(* one row of role_sections after the other (joined on user_roles alone),     *)
(* capped by read-only and by the disabled sections.                          *)
NoGrant == [granted |-> FALSE, write |-> FALSE, all |-> FALSE, hosts |-> {}]

AddGrant(g, write, hosts) ==
    [granted |-> TRUE, write |-> g.write \/ write,
     all |-> g.all \/ hosts = {}, hosts |-> g.hosts \cup hosts]

RowsOf(u, s) ==
    {id \in Roles : <<u, id>> \in userRoles /\ roleRows[id].sections[s] # "none"}

EffectiveGrant(u, s) ==
    LET own   == IF s \in users[u].sections THEN AddGrant(NoGrant, TRUE, {}) ELSE NoGrant
        Add(id, g) == AddGrant(g, roleRows[id].sections[s] = "write", roleRows[id].hosts)
        sum   == FoldSet(Add, own, RowsOf(u, s))
        capped == [sum EXCEPT !.write = @ /\ ~users[u].readOnly]
    IN IF s \in disabled THEN NoGrant ELSE capped

(* checkAccess (Grant.HasHost for the host; host "local" is always in scope). *)
Permits(u, s, write, host) ==
    \/ users[u].role = "admin"
    \/ LET g == EffectiveGrant(u, s)
       IN g.granted /\ (write => g.write) /\ (host = "local" \/ g.all \/ host \in g.hosts)

(* ReachableHosts, CanReachHost and visibleHosts: the hosts an account sees   *)
(* at all, for lists and for routes that belong to no section.                *)
ReachableHostsNoScope(u) ==
    LET grants == {EffectiveGrant(u, s) : s \in Sections}
    IN IF \E g \in grants : g.hosts = {} THEN Hosts ELSE UNION {g.hosts : g \in grants}

ReachableHosts(u) ==
    LET grants == {EffectiveGrant(u, s) : s \in Sections}
    IN IF \E g \in grants : g.granted /\ g.all THEN Hosts ELSE UNION {g.hosts : g \in grants}

Visible(u, host) == host = "local" \/ users[u].role = "admin" \/ host \in ReachableHosts(u)

(* effectiveSections: the menu, computed apart from the gate.                 *)
Menu(u) ==
    LET enabled == Sections \ disabled
    IN IF users[u].role = "admin" THEN enabled
       ELSE {s \in enabled : EffectiveGrant(u, s).granted}

(* handleMyAccess: where a grant comes from, the account itself or a role     *)
(* that RolesForUser still finds (0 stands for the account).                  *)
Provenance(u, s) ==
    {0 : x \in {y \in {1} : s \in users[u].sections}}
    \cup {id \in roles : <<u, id>> \in userRoles /\ roleRows[id].sections[s] # "none"}

(* sectionForPath and sectionForInspectKind: the areas of the API, by section.*)
AreasOf == [containers |-> {"containers", "stacks", "inspect/container"},
            projects |-> {"projects", "project-templates", "service-blocks", "compose-fragments"},
            images |-> {"images", "inspect/image"}, volumes |-> {"volumes", "inspect/volume"},
            networks |-> {"networks", "inspect/network"}, topology |-> {"topology"},
            events |-> {"events"}, logs |-> {"parse-rules"},
            alerts |-> {"alerts", "alert-rules", "webhooks", "maintenance-windows"},
            hosts |-> {"hosts"}, registries |-> {"registries"}, audit |-> {"audit"},
            diagnostics |-> {"diagnostics"}, dashboard |-> {"stats", "system/df"},
            admin |-> {"smtp", "users", "roles", "settings", "ldap", "update", "mcp-admin",
                       "policy-rules", "recovery", "backup-jobs"}]

sectionForPath(area) ==
    IF \E s \in DOMAIN AreasOf : area \in AreasOf[s]
      THEN CHOOSE s \in DOMAIN AreasOf : area \in AreasOf[s]
      ELSE ""

(* sectionForRequest: choosing where a webhook goes is an admin's call.       *)
sectionForRequest(area, write) ==
    IF area = "webhooks" /\ write THEN "admin" ELSE sectionForPath(area)

(* isWriteRequest, isRawDataDownload: a GET that acts (exec, pull, push, scan,*)
(* ports) or hands over raw content counts as a write.                        *)
isWriteRequest(method) == method \in {"change", "act", "raw"}

(* callerCanReachHost                                                         *)
callerCanReachHost(u, host) == Visible(u, host)

(* permissions: the gate in front of every route.                             *)
Serves(u, area, method, host) ==
    LET section == sectionForRequest(area, isWriteRequest(method))
    IN CASE section = ""      -> callerCanReachHost(u, host)
         [] section = "admin" -> users[u].role = "admin"
         [] OTHER             -> Permits(u, section, isWriteRequest(method), host)

-----------------------------------------------------------------------------
Arrival(r) ==
    \/ \E u \in Users : Setup(r, u) \/ LDAPLogin(r, u)
    \/ \E u \in Users, body \in Bodies :
          CreateAccount(r, u, body) \/ \E ids \in SUBSET offer.roles : UpdateUser(r, u, body, ids)
    \/ \E me, u \in Users : DeleteUserGuard(r, me, u)
    \/ \E id \in offer.roles, edit \in Edits : CreateRole(r, id, edit) \/ UpdateRole(r, id, edit)
    \/ \E id \in offer.roles : DeleteRole(r, id)

Work(r) ==
    \/ CreateFirstUser(r)
    \/ UpdateUserAccess(r) \/ ClearUserRoles(r) \/ LookupRole(r) \/ InsertUserRole(r)
    \/ DeleteUser(r)
    \/ ReplaceRoleHosts(r)
    \/ UnassignRole(r) \/ DropRole(r)
    \/ \E admin \in BOOLEAN, secs \in SUBSET Sections, want \in SUBSET offer.roles :
          ldapLogin(r, admin, secs, want)
    \/ SyncRoles(r)

Next ==
    \/ \E r \in offer.lanes : Arrival(r) \/ Work(r)
    \/ \E id \in offer.roles : SetLDAP(id)
    \/ \E off \in SUBSET Sections : SetSettings(off)

Spec == Init /\ [][Next]_avars

-----------------------------------------------------------------------------
(* What the theorems assume of the constants.                                 *)
BoundsOK ==
    /\ IsFiniteSet(Users) /\ IsFiniteSet(Roles)
    /\ Edits \subseteq [sections : [Sections -> Access], hosts : SUBSET Hosts]
    /\ Bodies \subseteq [role : {"admin", "user"}, readOnly : BOOLEAN, sections : SUBSET Sections]
    /\ \A w \in Scenarios : w.roles \subseteq Roles /\ w.lanes \subseteq Requests
    /\ \A area \in Areas, write \in BOOLEAN : sectionForRequest(area, write) \in Sections \cup {"", "admin"}
    /\ "local" \notin Hosts

TypeOK ==
    /\ DOMAIN users \subseteq Users
    /\ \A u \in DOMAIN users :
          users[u] \in [role : {"admin", "user"}, readOnly : BOOLEAN,
                        sections : SUBSET Sections, source : {"local", "ldap"}]
    /\ roles \subseteq Roles
    /\ roleRows \in [Roles -> [sections : [Sections -> Access], hosts : SUBSET Hosts]]
    /\ userRoles \subseteq Users \X Roles
    /\ disabled \subseteq Sections
    /\ fallback \subseteq Roles
    /\ made \in Nat
    /\ busy \in BOOLEAN

(* First-run setup makes one account however many setups run at once: a       *)
(* second one only after every account is gone again.                         *)
SetupHappensOnce == made <= 1

(* Once there is an admin there is one for good, as long as no two requests   *)
(* overlap: the guards count what is there when they are asked.               *)
AdminRemains == (made > 0 /\ ~busy) => Admins # {}

(* What user_handlers.go says without that condition: never the last admin.   *)
AdminAlwaysRemains == made > 0 => Admins # {}

(* A role that was deleted grants nothing: its assignments went before it     *)
(* did, unless an assignment overlapped the deletion.                         *)
DeletedRoleGrantsNothing == ~busy => \A p \in userRoles : p[2] \in roles

(* The same without the condition (roles.go: "removes a user-defined role and *)
(* any assignments of it").                                                   *)
DeletedRoleNeverGrants == \A p \in userRoles : p[2] \in roles \/ \E r \in Requests : areq[r].pc # "idle"

(* What checkAccess permits, section by section and host by host, is what the *)
(* union of the account's sources grants: some source grants the section,     *)
(* some source the write, some source the host, read-only forbids every       *)
(* write and a disabled section is closed to everyone but admins.             *)
Sources(u, s) ==
    {[write |-> TRUE, hosts |-> Hosts] : x \in {y \in {1} : s \in users[u].sections}}
    \cup {[write |-> roleRows[id].sections[s] = "write",
           hosts |-> IF roleRows[id].hosts = {} THEN Hosts ELSE roleRows[id].hosts] : id \in RowsOf(u, s)}

PermitsIsTheUnion ==
    \A u \in DOMAIN users, s \in Sections, write \in BOOLEAN, host \in Hosts \cup {"local"} :
        Permits(u, s, write, host) <=>
            \/ users[u].role = "admin"
            \/ /\ s \notin disabled
               /\ Sources(u, s) # {}
               /\ write => ~users[u].readOnly /\ \E x \in Sources(u, s) : x.write
               /\ host # "local" => \E x \in Sources(u, s) : host \in x.hosts

(* No request is served for a host its caller does not see, not even by a     *)
(* route that belongs to no section.                                          *)
NamedHostIsVisible ==
    \A u \in DOMAIN users, area \in Areas, method \in {"read", "change"}, host \in Hosts :
        Serves(u, area, method, host) => Visible(u, host)

(* A host an account sees is one it can use: some section of its menu may be  *)
(* read there.                                                                *)
VisibleIsUsable ==
    \A u \in DOMAIN users, host \in Hosts :
        Visible(u, host) => users[u].role = "admin" \/ \E s \in Menu(u) : Permits(u, s, FALSE, host)

(* The menu shows exactly the sections a request may read on the local host,  *)
(* and for everyone but admins, whom nothing is closed to.                    *)
MenuMatchesGate ==
    \A u \in DOMAIN users :
        users[u].role # "admin" => Menu(u) = {s \in Sections : Permits(u, s, FALSE, "local")}

(* Every grant the profile page shows has a source it can name, unless an     *)
(* assignment overlapped the deletion of its role.                            *)
AccessExplained ==
    ~busy => \A u \in DOMAIN users : \A s \in Menu(u) :
                users[u].role = "admin" \/ Provenance(u, s) # {}

(* The directory never takes a role it was not asked for: a login whose       *)
(* groups name existing roles only gets those, the fallback stands in for a   *)
(* missing one only, and groups that name none give none.                     *)
FallbackStandsIn ==
    \A want \in SUBSET Roles :
        /\ SyncedRoles(want) \subseteq roles
        /\ want \subseteq roles => SyncedRoles(want) = want
        /\ want \cap roles \subseteq SyncedRoles(want)

(* Only an administrator's edit makes an account an admin: a directory login  *)
(* writes back the role it read, which is the role the account has unless an  *)
(* edit overlapped the login.                                                 *)
Promoted(u) ==
    /\ u \in DOMAIN users /\ u \in DOMAIN users'
    /\ users[u].role = "user" /\ users'[u].role = "admin"
Asked(u) == \E r \in Requests : Stands(r, "access") /\ areq[r].user = u /\ areq[r].body.role = "admin"
PromotesAsAsked == \A u \in Users : Promoted(u) => Asked(u)
PromotionIsAsked == [][~busy' => PromotesAsAsked]_avars

(* The same without the condition: service.go says the role "stay[s] as set   *)
(* locally".                                                                  *)
RoleStaysAsSet == [][PromotesAsAsked]_avars

(* Deleting roles never takes the fallback away: while it names a role, that  *)
(* role exists, unless the setting changed while a deletion was under way.    *)
KeepsFallback == \A id \in fallback \cap roles : id \in fallback' /\ ~busy' => id \in roles'
FallbackExists == [][KeepsFallback]_avars
=============================================================================
