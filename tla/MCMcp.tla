------------------------------- MODULE MCMcp -------------------------------
(* Instances of the two modules about the MCP server for TLC: a behaviour is *)
(* of one of them, chosen at the start, and the other stands still.          *)
EXTENDS McpGate, McpSessions

CONSTANT Parts
VARIABLE part

-----------------------------------------------------------------------------
(* Minting: policies and bodies at their edges.                               *)
Full == [ro |-> FALSE, sections |-> Sections, hosts |-> {}]
Plain == [ro |-> FALSE, sections |-> {}, hosts |-> {}, days |-> 0, never |-> FALSE]
Logs == [Full EXCEPT !.sections = {"logs"}]
Viewer == [Full EXCEPT !.ro = TRUE]
NoTools == {}

Policies == [default : {-1, DefaultMax + 1}, max : {-1, 0, 1}, unlimited : BOOLEAN]
Lifetimes == [ro : {FALSE}, sections : {{}}, hosts : {{}},
              days : {-1, 0, 1, 2, AbsoluteMax, AbsoluteMax + 1, WrapDays}, never : BOOLEAN]
Mint == [ops |-> {"policy"}, policies |-> Policies, rights |-> {Full}, bodies |-> Lifetimes,
         tools |-> NoTools, lanes |-> {}]

(* Narrowing: what a token names against what its owner has when it is used.  *)
Narrow == [ro : BOOLEAN, sections : {{}, {"logs"}, {"containers"}}, hosts : {{}, {0}, Hosts \ {2}},
           days : {1}, never : {FALSE}]
OneEach == {[section |-> "containers", write |-> TRUE, host |-> 0, n |-> 1],
            [section |-> "containers", write |-> FALSE, host |-> 2, n |-> 1],
            [section |-> "logs", write |-> FALSE, host |-> 0, n |-> 1]}
Gate == [ops |-> {"revoke", "day"}, policies |-> {}, rights |-> {Full, Logs, Viewer, [Full EXCEPT !.hosts = {1}]},
         bodies |-> Narrow, tools |-> OneEach, lanes |-> {CHOOSE c \in Calls : TRUE}]

(* Charging: batches of every size around the burst.                          *)
Changes == {[section |-> "containers", write |-> TRUE, host |-> 0, n |-> n] : n \in Batches}
Rate == [ops |-> {"refill", "day"}, policies |-> {}, rights |-> {Full}, bodies |-> {Plain},
         tools |-> Changes, lanes |-> Calls]

AllUses == {Mint, Gate, Rate}
RateOnly == {Rate}
GateOnly == {Gate}

-----------------------------------------------------------------------------
vars == <<part, mvars, gvars>>

MCInit ==
    /\ part \in Parts
    /\ SessionInit /\ Init
    /\ part # "gate" => offer = Rate
    /\ part # "sessions" => clients = {}

MCNext ==
    /\ UNCHANGED part
    /\ \/ part = "gate" /\ Next /\ UNCHANGED mvars
       \/ part = "sessions" /\ SessionNext /\ UNCHANGED gvars

MCSpec == MCInit /\ [][MCNext]_vars
=============================================================================
