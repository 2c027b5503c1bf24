---------------------------- MODULE HostClients ----------------------------
(* Docker hosts and the connections the manager keeps to them               *)
(* (docker/manager.go, docker/ssh.go, docker/probe.go, store/hosts.go,      *)
(* api/host_handlers.go).  A caller of Client looks in the cache, reads the *)
(* host's row, dials with the lock released, and takes the lock again to    *)
(* cache what it built; the port prober's SSH connections are made with the *)
(* lock held.  The handlers change the row first and disconnect after.      *)
(*                                                                          *)
(* Hosts are ssh hosts, the kind whose trust is pinned; a key is whatever   *)
(* the machine presents at the moment.                                      *)
EXTENDS Naturals, FiniteSets

CONSTANTS
    Hosts,      \* ids of hosts
    Keys,       \* host keys a machine can present
    Callers,    \* goroutines that want a client
    Admins,     \* handlers in flight
    MaxConns,   \* bound: connections dialled
    MaxEdits,   \* bound: changes of host rows
    MaxReinstalls \* bound: changes of the keys presented

VARIABLES
    row,        \* hosts table: [exists, pin, disabled, version]
    presents,   \* the key each machine presents now
    clients,    \* Manager.clients: host -> connection, 0 is none
    sshConns,   \* Manager.sshConns, likewise
    conns,      \* connections ever made: [host, key, row, open, tunnel]
    lock,       \* Manager.mu: who holds it over a dial, or "free"
    call,       \* where each caller stands
    admin,      \* where each handler stands
    edits,      \* history: changes made
    reinstalls, \* history: keys changed
    raced,      \* history: hosts disconnected while a dial to them was under way
    reviewed    \* history: fingerprints an operator approved, per host

hvars == <<row, presents, clients, sshConns, conns, lock, call, admin, edits, reinstalls, raced, reviewed>>

NoKey == "nokey"
NoPin == "nopin"
Idle == [pc |-> "idle"]
Conns == 1 .. MaxConns
NoConn == [host |-> 0]
Free == lock = "free"
Used == {c \in Conns : conns[c] # NoConn}
NextConn == Cardinality(Used) + 1
CallTo(k, to) == call' = [call EXCEPT ![k] = to]
AdminTo(a, to) == admin' = [admin EXCEPT ![a] = to]

Init ==
    /\ row = [h \in Hosts |-> [exists |-> TRUE, pin |-> NoPin, disabled |-> FALSE, version |-> 0]]
    /\ presents \in [Hosts -> Keys]
    /\ clients = [h \in Hosts |-> 0] /\ sshConns = [h \in Hosts |-> 0]
    /\ conns = [c \in Conns |-> NoConn]
    /\ lock = "free"
    /\ call = [k \in Callers |-> Idle]
    /\ admin = [a \in Admins |-> Idle]
    /\ edits = 0 /\ reinstalls = 0
    /\ raced = {}
    /\ reviewed = [h \in Hosts |-> {}]

-----------------------------------------------------------------------------
(* verifyHostKey that takes a pinned key for a hint.                         *)
VerifyPinIsAHint(r, key) == TRUE

(* verifyHostKey: the pinned key and no other; without a pin, known_hosts    *)
(* decides (external: it may know the key or not).                           *)
VerifyHostKey(r, key) == r.pin = NoPin \/ r.pin = key

(* Client misses the cache, unlocks and reads the row; a hit returns the     *)
(* cached client and changes nothing.                                        *)
ClientMiss(k, h) ==
    /\ call[k] = Idle /\ Free
    /\ clients[h] = 0
    /\ row[h].exists
    /\ CallTo(k, [pc |-> "dial", host |-> h, row |-> row[h], for |-> "client"])
    /\ UNCHANGED <<row, presents, clients, sshConns, conns, lock, admin, edits, reinstalls, raced, reviewed>>

(* sshClientFor's caller has read the row.                                   *)
ProbeStart(k, h) ==
    /\ call[k] = Idle
    /\ row[h].exists
    /\ CallTo(k, [pc |-> "sshlock", host |-> h, row |-> row[h], for |-> "probe"])
    /\ UNCHANGED <<row, presents, clients, sshConns, conns, lock, admin, edits, reinstalls, raced, reviewed>>

(* sshClientFor takes the lock and keeps it over the dial.                   *)
ProbeLock(k) ==
    /\ call[k].pc = "sshlock" /\ Free
    /\ \/ /\ sshConns[call[k].host] # 0
          /\ CallTo(k, Idle) /\ UNCHANGED lock
       \/ /\ sshConns[call[k].host] = 0
          /\ CallTo(k, [call[k] EXCEPT !.pc = "dial"]) /\ lock' = k
    /\ UNCHANGED <<row, presents, clients, sshConns, conns, admin, edits, reinstalls, raced, reviewed>>

(* The connection dialSSH made for a caller.                                 *)
Dialled(k) ==
    [host |-> call[k].host, key |-> presents[call[k].host], row |-> call[k].row,
     open |-> TRUE, tunnel |-> TRUE]

(* dialSSH succeeds: the machine's key is the one its row asks for.          *)
Dial(k) ==
    /\ call[k].pc = "dial"
    /\ NextConn \in Conns
    /\ VerifyHostKey(call[k].row, presents[call[k].host])
    /\ conns' = [conns EXCEPT ![NextConn] = Dialled(k)]
    /\ IF call[k].for = "probe"
       THEN /\ sshConns' = [sshConns EXCEPT ![call[k].host] = NextConn]
            /\ lock' = "free"
            /\ CallTo(k, Idle)
       ELSE /\ CallTo(k, [pc |-> "built", host |-> call[k].host, row |-> call[k].row,
                          for |-> call[k].for, conn |-> NextConn])
            /\ UNCHANGED <<sshConns, lock>>
    /\ UNCHANGED <<row, presents, clients, admin, edits, reinstalls, raced, reviewed>>

(* dialSSH fails: unreachable, unknown key, or another key than the pin.     *)
DialFails(k) ==
    /\ call[k].pc = "dial"
    /\ lock' = IF lock = k THEN "free" ELSE lock
    /\ CallTo(k, Idle)
    /\ UNCHANGED <<row, presents, clients, sshConns, conns, admin, edits, reinstalls, raced, reviewed>>

(* c.Close of a connection: the Docker client is shut, but nothing closes    *)
(* the SSH connection under an ssh host's client (buildSSHClient).           *)
Closed(c) == [c EXCEPT !.open = FALSE]

(* sshConns hold the SSH connection itself.                                  *)
ClosedSSH(c) == [c EXCEPT !.open = FALSE, !.tunnel = FALSE]

(* The end of Client: the first client built stays, the loser is closed.     *)
InstallFirst(k) ==
    IF clients[call[k].host] # 0
    THEN /\ conns' = [conns EXCEPT ![call[k].conn] = Closed(@)]
         /\ UNCHANGED clients
    ELSE /\ clients' = [clients EXCEPT ![call[k].host] = call[k].conn]
         /\ UNCHANGED conns

Install(k) ==
    /\ call[k].pc = "built" /\ Free
    /\ InstallFirst(k)
    /\ CallTo(k, Idle)
    /\ UNCHANGED <<row, presents, sshConns, lock, admin, edits, reinstalls, raced, reviewed>>

-----------------------------------------------------------------------------
(* The handlers: the row first ...                                           *)
Edit(h, to) ==
    /\ edits < MaxEdits
    /\ edits' = edits + 1
    /\ row' = [row EXCEPT ![h] = [to EXCEPT !.version = edits + 1]]

(* handleUpdateHost's SetHostDisabled.                                       *)
SetHostDisabled(a, h) ==
    /\ admin[a] = Idle /\ row[h].exists
    /\ Edit(h, [row[h] EXCEPT !.disabled = ~@])
    /\ AdminTo(a, [pc |-> "disconnect", host |-> h])
    /\ UNCHANGED <<presents, clients, sshConns, conns, lock, call, reinstalls, raced, reviewed>>

(* handleDeleteHost's DeleteHost.                                            *)
DeleteHost(a, h) ==
    /\ admin[a] = Idle /\ row[h].exists
    /\ Edit(h, [row[h] EXCEPT !.exists = FALSE])
    /\ AdminTo(a, [pc |-> "disconnect", host |-> h])
    /\ UNCHANGED <<presents, clients, sshConns, conns, lock, call, reinstalls, raced, reviewed>>

(* handleTestHost shows the operator the fingerprint, who approves it; the   *)
(* body of the trust request carries it, or is empty.                        *)
Review(a, h, named) ==
    /\ admin[a] = Idle /\ row[h].exists
    /\ AdminTo(a, [pc |-> "probe", host |-> h, seen |-> IF named THEN presents[h] ELSE NoKey])
    /\ UNCHANGED <<row, presents, clients, sshConns, conns, lock, call, edits, reinstalls, raced, reviewed>>

(* handleTrustHost: the key reviewed is the key the probe captured.          *)
Trusts(seen, key) == seen = NoKey \/ seen = key

(* ProbeHostKey.                                                             *)
ProbeHostKey(a) ==
    /\ admin[a].pc = "probe"
    /\ LET key == presents[admin[a].host]
       IN  AdminTo(a, IF Trusts(admin[a].seen, key)
                      THEN [pc |-> "pin", host |-> admin[a].host, seen |-> admin[a].seen, key |-> key]
                      ELSE Idle)
    /\ UNCHANGED <<row, presents, clients, sshConns, conns, lock, call, edits, reinstalls, raced, reviewed>>

(* handleTrustHost's SetHostKey; a row deleted meanwhile matches nothing.    *)
SetHostKey(a) ==
    /\ admin[a].pc = "pin"
    /\ LET h == admin[a].host
       IN  /\ \/ row[h].exists /\ Edit(h, [row[h] EXCEPT !.pin = admin[a].key])
              \/ ~row[h].exists /\ UNCHANGED <<row, edits>>
           /\ reviewed' = [reviewed EXCEPT ![h] = @ \cup
                             {IF admin[a].seen = NoKey THEN admin[a].key ELSE admin[a].seen}]
           /\ AdminTo(a, [pc |-> "disconnect", host |-> h])
    /\ UNCHANGED <<presents, clients, sshConns, conns, lock, call, reinstalls, raced>>

(* ... and Disconnect after it: the cached connections are closed and gone.  *)
Disconnected(h) == [clients EXCEPT ![h] = 0]

Disconnect(a) ==
    /\ admin[a].pc = "disconnect" /\ Free
    /\ LET h == admin[a].host
       IN  /\ conns' = [c \in Conns |-> IF c = clients[h] THEN Closed(conns[c])
                                        ELSE IF c = sshConns[h] THEN ClosedSSH(conns[c]) ELSE conns[c]]
           /\ clients' = Disconnected(h)
           /\ sshConns' = [sshConns EXCEPT ![h] = 0]
           /\ raced' = IF \E k \in Callers : call[k] # Idle /\ call[k].host = h
                       THEN raced \cup {h} ELSE raced \ {h}
    /\ AdminTo(a, Idle)
    /\ UNCHANGED <<row, presents, lock, call, edits, reinstalls, reviewed>>

(* The machine is reinstalled, or another one answers at its address.        *)
KeyChanges(h, key) ==
    /\ reinstalls < MaxReinstalls /\ reinstalls' = reinstalls + 1
    /\ key # presents[h]
    /\ presents' = [presents EXCEPT ![h] = key]
    /\ UNCHANGED <<row, clients, sshConns, conns, lock, call, admin, edits, raced, reviewed>>

Next ==
    \/ \E k \in Callers : \E h \in Hosts : ClientMiss(k, h) \/ ProbeStart(k, h)
    \/ \E k \in Callers : ProbeLock(k) \/ Dial(k) \/ DialFails(k) \/ Install(k)
    \/ \E a \in Admins : \E h \in Hosts :
           SetHostDisabled(a, h) \/ DeleteHost(a, h) \/ \E named \in BOOLEAN : Review(a, h, named)
    \/ \E a \in Admins : ProbeHostKey(a) \/ SetHostKey(a) \/ Disconnect(a)
    \/ \E h \in Hosts : \E key \in Keys : KeyChanges(h, key)

Spec == Init /\ [][Next]_hvars

-----------------------------------------------------------------------------
(* What the theorems assume of the constants: host 0 is the local daemon, and *)
(* nobody is called as the lock is when it is free.                          *)
BoundsOK == 0 \notin Hosts /\ "free" \notin Callers /\ MaxConns \in Nat /\ MaxEdits \in Nat

RowType == [exists : BOOLEAN, pin : Keys \cup {NoPin}, disabled : BOOLEAN, version : 0 .. MaxEdits]
ConnType == [host : Hosts, key : Keys, row : RowType, open : BOOLEAN, tunnel : BOOLEAN]

(* A caller on its way to a connection, or with one; a handler about to read  *)
(* the key, with the key, or about to disconnect.                            *)
Dialling == [pc : {"sshlock", "dial"}, host : Hosts, row : RowType, for : {"client", "probe"}]
Built == [pc : {"built"}, host : Hosts, row : RowType, for : {"client", "probe"}, conn : Conns]
Probing == [pc : {"probe"}, host : Hosts, seen : Keys \cup {NoKey}]
Pinning == [pc : {"pin"}, host : Hosts, seen : Keys \cup {NoKey}, key : Keys]
Leaving == [pc : {"disconnect"}, host : Hosts]

TypeOK ==
    /\ row \in [Hosts -> RowType] /\ presents \in [Hosts -> Keys]
    /\ clients \in [Hosts -> 0 .. MaxConns] /\ sshConns \in [Hosts -> 0 .. MaxConns]
    /\ \A h \in Hosts : {clients[h], sshConns[h]} \subseteq {0} \cup {c \in Used : conns[c].host = h}
    /\ conns \in [Conns -> {NoConn} \cup ConnType]
    /\ lock \in {"free"} \cup Callers
    /\ call \in [Callers -> {Idle} \cup Dialling \cup Built]
    /\ admin \in [Admins -> {Idle} \cup Probing \cup Pinning \cup Leaving]
    /\ edits \in 0 .. MaxEdits
    /\ raced \subseteq Hosts /\ reviewed \in [Hosts -> SUBSET Keys]

(* No handler is between its row and its Disconnect.                         *)
Settled(h) == \A a \in Admins : admin[a] # Idle /\ admin[a].pc = "disconnect" => admin[a].host # h

(* An open client is cached under its host or still with the caller that     *)
(* built it: two callers racing in Client leave one connection, not two.     *)
OpenIsOwned ==
    \A c \in Used : conns[c].open =>
        \/ clients[conns[c].host] = c \/ sshConns[conns[c].host] = c
        \/ \E k \in Callers : call[k].pc = "built" /\ call[k].conn = c

(* Unless a dial to the host was under way at the last Disconnect, a cached  *)
(* connection was made with the row as it is, and its machine presented the  *)
(* key that is pinned: a new pin governs at once.                            *)
CacheFollowsRow ==
    \A h \in Hosts : h \notin raced /\ Settled(h) /\ row[h].version > 0 =>
        \A c \in {clients[h], sshConns[h]} \ {0} :
            /\ conns[c].row = row[h]
            /\ row[h].pin # NoPin => conns[c].key = row[h].pin

(* What is pinned for a host was approved for it, also when the machine      *)
(* changes its key between the review, the probe and the pin.                *)
PinWasReviewed == \A h \in Hosts : row[h].pin # NoPin => row[h].pin \in reviewed[h]

(* Racing callers leave one open connection, a cached one follows the row    *)
(* and its pin, and a pinned key was approved.                               *)
ConnectionsFollowRows == TypeOK /\ OpenIsOwned /\ CacheFollowsRow /\ PinWasReviewed

(* Disconnect's comment: "the next use reconnects with fresh settings".      *)
NextUseIsFresh ==
    \A h \in Hosts : Settled(h) /\ row[h].version > 0 =>
        \A c \in {clients[h], sshConns[h]} \ {0} : conns[c].row = row[h]

(* Client's comment: "close the loser rather than leaking its connection".   *)
TunnelIsOwned ==
    \A c \in Used : conns[c].tunnel =>
        \/ clients[conns[c].host] = c \/ sshConns[conns[c].host] = c
        \/ \E k \in Callers : call[k].pc = "built" /\ call[k].conn = c

(* Client's comment on "holding the manager-wide mutex" across a dial:       *)
(* "stalls every other host".                                                *)
NoDialUnderTheLock == lock = "free"
=============================================================================
