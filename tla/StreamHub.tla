----------------------------- MODULE StreamHub -----------------------------
(* One WebSocket connection and its subscriptions (ws/hub.go,                *)
(* api/ws_handler.go, and the streams of docker/stream.go).  The reader      *)
(* goroutine handles one message at a time; every subscription runs its own  *)
(* stream, and a log stream emits from two scanners.  connState.mu covers    *)
(* the map subs only: a frame is written after it is released.               *)
(*                                                                           *)
(* A frame is what it says and whether its stream was still the current one  *)
(* when it went out; its content is left out.                                *)
EXTENDS Naturals, FiniteSets

CONSTANTS
    Ids,        \* subscription ids the browser uses
    Rights,     \* rights the user may have: records [admin, granted]
    MaxGen      \* bound: subscriptions made on the connection

VARIABLES
    open,       \* the reader loop runs
    rights,     \* what the database says now: [admin, granted]
    loaded,     \* the admin flag of the user's row handleWebSocket loaded
    subs,       \* connState.subs: id -> generation, 0 is no entry
    gen,        \* connState.gen
    streams,    \* generation -> its stream
    reader,     \* the message in hand: [pc, id, channel]
    late,       \* history: generation -> its frames sent after it was replaced
    wrongEnd    \* history: an "end" went out over a live subscription's id

svars == <<open, rights, loaded, subs, gen, streams, reader, late, wrongEnd>>

Channels == {"stats", "logs", "other"}

(* stats decodes in the stream's own goroutine, logs in a scanner for each   *)
(* of stdout and stderr.                                                     *)
Emitters(channel) == IF channel = "logs" THEN {"stdout", "stderr"}
                     ELSE IF channel = "stats" THEN {"stats"} ELSE {}
AllEmitters == {"stdout", "stderr", "stats"}

NoStream == [pc |-> "none", id |-> CHOOSE i \in Ids : TRUE, channel |-> "other",
             cancelled |-> FALSE, emit |-> [e \in AllEmitters |-> "off"]]
Gens == 1 .. MaxGen
At(g, pc) == streams[g].pc = pc
Step(g, f) == streams' = [streams EXCEPT ![g] = f]
IdleReader == [pc |-> "read", id |-> CHOOSE i \in Ids : TRUE, channel |-> "other"]

Init ==
    /\ open = TRUE
    /\ rights \in Rights /\ loaded = rights.admin
    /\ subs = [i \in Ids |-> 0]
    /\ gen = 0
    /\ streams = [g \in Gens |-> NoStream]
    /\ reader = IdleReader
    /\ late = [g \in Gens |-> 0]
    /\ wrongEnd = FALSE

-----------------------------------------------------------------------------
(* The streams with the contexts of generations gs cancelled.                *)
Cancelled(gs) ==
    [g \in Gens |-> IF g \in gs THEN [streams[g] EXCEPT !.cancelled = TRUE] ELSE streams[g]]

(* connState.unsubscribe.                                                    *)
Unsubscribe(i) ==
    /\ subs' = [subs EXCEPT ![i] = 0]
    /\ streams' = Cancelled({subs[i]})

(* Serve's loop reads a subscribe frame; the previous stream under the id    *)
(* goes first.                                                               *)
ReadSubscribe(i, channel) ==
    /\ open /\ reader.pc = "read"
    /\ gen < MaxGen
    /\ Unsubscribe(i)
    /\ reader' = [pc |-> "allow", id |-> i, channel |-> channel]
    /\ UNCHANGED <<open, rights, loaded, gen, late, wrongEnd>>

ReadUnsubscribe(i) ==
    /\ open /\ reader.pc = "read"
    /\ subs[i] # 0
    /\ Unsubscribe(i)
    /\ UNCHANGED <<open, rights, loaded, gen, reader, late, wrongEnd>>

(* handleWebSocket's allow: an unknown channel is denied, and checkAccess    *)
(* judges the row loaded when the socket opened and the grants of now.       *)
Allowed(channel) == channel # "other" /\ (loaded \/ rights.granted)

Deny ==
    /\ reader.pc = "allow"
    /\ ~Allowed(reader.channel)
    /\ reader' = IdleReader
    /\ UNCHANGED <<open, rights, loaded, subs, gen, streams, late, wrongEnd>>

Allow ==
    /\ reader.pc = "allow"
    /\ Allowed(reader.channel)
    /\ reader' = [reader EXCEPT !.pc = "register"]
    /\ UNCHANGED <<open, rights, loaded, subs, gen, streams, late, wrongEnd>>

NextGen == gen + 1

(* The entry is registered and the stream's goroutine started.               *)
Register ==
    /\ reader.pc = "register"
    /\ gen' = NextGen
    /\ subs' = [subs EXCEPT ![reader.id] = NextGen]
    /\ Step(NextGen, [pc |-> "run", id |-> reader.id, channel |-> reader.channel, cancelled |-> FALSE,
                      emit |-> [e \in AllEmitters |->
                                  IF e \in Emitters(reader.channel) THEN "idle" ELSE "off"]])
    /\ reader' = IdleReader
    /\ UNCHANGED <<open, rights, loaded, late, wrongEnd>>

(* closeAll without the cancellations.                                       *)
CloseAllEntriesOnly == UNCHANGED streams

(* closeAll, deferred by Serve: the read failed or the request is over.      *)
CloseAll == streams' = Cancelled({subs[i] : i \in Ids})

Close ==
    /\ open /\ reader.pc = "read"
    /\ open' = FALSE
    /\ CloseAll
    /\ subs' = [i \in Ids |-> 0]
    /\ UNCHANGED <<rights, loaded, gen, reader, late, wrongEnd>>

(* An administrator changes the user's rights while the socket is open.      *)
ChangeRights(to) ==
    /\ rights' = to
    /\ UNCHANGED <<open, loaded, subs, gen, streams, reader, late, wrongEnd>>

-----------------------------------------------------------------------------
(* The entry under the stream's id is still this generation's.               *)
Current(g) == subs[streams[g].id] = g

(* writeSub's check, under the lock.                                         *)
MayWrite(g) == Current(g)

(* A sample or line arrives and writeSub checks it under the lock.           *)
Emit(g, e) ==
    /\ At(g, "run") \/ At(g, "finish") \/ At(g, "end") \/ At(g, "done")
    /\ streams[g].emit[e] = "idle"
    /\ MayWrite(g)
    /\ Step(g, [streams[g] EXCEPT !.emit[e] = "write"])
    /\ UNCHANGED <<open, rights, loaded, subs, gen, reader, late, wrongEnd>>

(* write, under the connection's context: it fails once the socket is gone.  *)
Write(g, e) ==
    /\ streams[g].emit[e] = "write"
    /\ Step(g, [streams[g] EXCEPT !.emit[e] = "idle"])
    /\ late' = [late EXCEPT ![g] = IF open /\ ~Current(g) THEN @ + 1 ELSE @]
    /\ UNCHANGED <<open, rights, loaded, subs, gen, reader, wrongEnd>>

(* An emitter ends: its source is exhausted or failed, or the stream was     *)
(* cancelled.  The stats loop also returns from its own top.                 *)
EmitterEnds(g, e) ==
    /\ streams[g].emit[e] = "idle"
    /\ Step(g, [streams[g] EXCEPT !.emit[e] = "off"])
    /\ UNCHANGED <<open, rights, loaded, subs, gen, reader, late, wrongEnd>>

(* StreamStats and StreamLogs are over: every emitter has ended, or the      *)
(* cancelled log stream leaves a scanner to wind down by itself.             *)
StreamOver(g) ==
    \/ \A e \in AllEmitters : streams[g].emit[e] = "off"
    \/ streams[g].cancelled /\ streams[g].channel = "logs"

(* The stream returns, with an error to report if it was not cancelled.      *)
Return(g, failed) ==
    /\ At(g, "run")
    /\ StreamOver(g)
    /\ LET reports == failed /\ ~streams[g].cancelled /\ MayWrite(g)
       IN  Step(g, [streams[g] EXCEPT !.pc = IF reports THEN "error" ELSE "finish"])
    /\ UNCHANGED <<open, rights, loaded, subs, gen, reader, late, wrongEnd>>

(* The error frame goes out.                                                 *)
WriteError(g) ==
    /\ At(g, "error")
    /\ Step(g, [streams[g] EXCEPT !.pc = "finish"])
    /\ late' = [late EXCEPT ![g] = IF open /\ ~Current(g) THEN @ + 1 ELSE @]
    /\ UNCHANGED <<open, rights, loaded, subs, gen, reader, wrongEnd>>

(* finish that removes whatever is under the id.                             *)
MineById(g) == subs[streams[g].id] # 0

(* finish's comparison of generations.                                       *)
Mine(g) == Current(g)

(* finish, up to the unlock.                                                 *)
Finish(g) ==
    /\ At(g, "finish")
    /\ subs' = IF Mine(g) THEN [subs EXCEPT ![streams[g].id] = 0] ELSE subs
    /\ Step(g, [streams[g] EXCEPT !.pc = IF Mine(g) THEN "end" ELSE "done"])
    /\ UNCHANGED <<open, rights, loaded, gen, reader, late, wrongEnd>>

(* finish's "end" frame, after the unlock.                                   *)
WriteEnd(g) ==
    /\ At(g, "end")
    /\ Step(g, [streams[g] EXCEPT !.pc = "done"])
    /\ wrongEnd' = (wrongEnd \/ (open /\ subs[streams[g].id] # 0))
    /\ UNCHANGED <<open, rights, loaded, subs, gen, reader, late>>

Next ==
    \/ \E i \in Ids : \E channel \in Channels : ReadSubscribe(i, channel)
    \/ \E i \in Ids : ReadUnsubscribe(i)
    \/ Deny \/ Allow \/ Register \/ Close
    \/ \E to \in Rights : ChangeRights(to)
    \/ \E g \in Gens : \E e \in AllEmitters : Emit(g, e) \/ Write(g, e) \/ EmitterEnds(g, e)
    \/ \E g \in Gens : (\E f \in BOOLEAN : Return(g, f)) \/ WriteError(g) \/ Finish(g) \/ WriteEnd(g)

(* A cancelled stream's emitters end, a write finishes within its timeout,   *)
(* and a goroutine that can run does.                                        *)
Fairness ==
    \A g \in Gens :
        /\ \A e \in AllEmitters : WF_svars(Write(g, e)) /\ WF_svars(streams[g].cancelled /\ EmitterEnds(g, e))
        /\ WF_svars(\E f \in BOOLEAN : Return(g, f)) /\ WF_svars(WriteError(g))
        /\ WF_svars(Finish(g)) /\ WF_svars(WriteEnd(g))

Spec == Init /\ [][Next]_svars

-----------------------------------------------------------------------------
(* The browser uses some id, and rights are two flags.                       *)
BoundsOK == Ids # {} /\ Rights \subseteq [admin : BOOLEAN, granted : BOOLEAN] /\ MaxGen \in Nat

TypeOK ==
    /\ open \in BOOLEAN /\ rights \in Rights /\ loaded \in BOOLEAN /\ wrongEnd \in BOOLEAN
    /\ subs \in [Ids -> 0 .. gen] /\ gen \in 0 .. MaxGen
    /\ streams \in [Gens -> [pc : {"none", "run", "error", "finish", "end", "done"}, id : Ids,
                             channel : Channels, cancelled : BOOLEAN,
                             emit : [AllEmitters -> {"off", "idle", "write"}]]]
    /\ reader \in [pc : {"read", "allow", "register"}, id : Ids, channel : Channels]
    /\ late \in [Gens -> Nat]

(* A stream that nobody cancelled is the one under its id, so the next       *)
(* unsubscribe, re-subscribe or close stops it ("nothing able to cancel it"  *)
(* is what finish's comment is about); and once it has ended by itself its   *)
(* entry does not outlive it.                                                *)
EveryStreamCanBeStopped ==
    \A g \in Gens :
        /\ streams[g].pc \in {"run", "error", "finish"} /\ ~streams[g].cancelled => Current(g)
        /\ streams[g].pc \in {"none", "end", "done"} => \A i \in Ids : subs[i] # g

(* writeSub lets at most one frame of a replaced stream through for each of  *)
(* the goroutines that write for it.                                         *)
LateFramesAreBounded ==
    \A g \in Gens : late[g] <= Cardinality(Emitters(streams[g].channel))

(* The "end" of a stream nobody cancelled is its last frame: demuxLines      *)
(* waits for both scanners, so no line comes after it or is dropped.         *)
EndIsLast ==
    \A g \in Gens :
        streams[g].pc \in {"finish", "end", "done"} /\ ~streams[g].cancelled
            => \A e \in AllEmitters : streams[g].emit[e] = "off"

(* A stream nobody cancelled is the one under its id, a replaced one sends   *)
(* one more frame per goroutine at most, and nothing follows its "end"       *)
(* (finish, writeSub, demuxLines).                                           *)
StreamsAreOwned == TypeOK /\ EveryStreamCanBeStopped /\ LateFramesAreBounded /\ EndIsLast

(* writeSub's comment: "that race is one frame wide".                        *)
RaceIsOneFrameWide == \A g \in Gens : late[g] <= 1

(* finish's comment: the client is not told its live subscription ended.     *)
EndNamesNoLiveSubscription == ~wrongEnd

(* handleWebSocket's comment: a channel is "checked against the user's live  *)
(* permissions".                                                             *)
GateIsLive == [][Allow => rights.admin \/ rights.granted]_svars

(* A closed socket stops every stream it had (Serve's deferred closeAll).    *)
ClosedSocketEndsStreams == []<>(open \/ \A g \in Gens : streams[g].pc \in {"none", "done"})
=============================================================================
