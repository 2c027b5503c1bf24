----------------------------- MODULE HostsProofs -----------------------------
(***************************************************************************)
(* What the components of MCHosts keep true for every number of            *)
(* subscriptions, hosts, callers, admins, jobs, services and policies:     *)
(* live streams belong to the subscription they were started for, a cached *)
(* connection follows the row of its host, watchers and health alerts      *)
(* follow the hosts table, backup runs are recorded in order, an image     *)
(* update is announced once, a stack's file is one compose accepted, a     *)
(* purge deletes what its policy says, and what a deploy or a restore says *)
(* of the volumes of a project is true.  Each component has an inductive   *)
(* invariant, a lemma for each group of its actions, and the theorem about *)
(* its property.                                                           *)
(***************************************************************************)
EXTENDS MCHosts, Sequences, FiniteSetTheorems, SequenceTheorems, WellFoundedInduction, TLAPS

(* An instance has its own copy of the operators of FiniteSets, and it is  *)
(* about the same sets.                                                    *)
LEMMA SizesAgree ==
    \A X : /\ S!IsFiniteSet(X) = IsFiniteSet(X) /\ S!Cardinality(X) = Cardinality(X)
           /\ C!IsFiniteSet(X) = IsFiniteSet(X) /\ C!Cardinality(X) = Cardinality(X)
           /\ B!IsFiniteSet(X) = IsFiniteSet(X) /\ B!Cardinality(X) = Cardinality(X)
           /\ D!IsFiniteSet(X) = IsFiniteSet(X) /\ D!Cardinality(X) = Cardinality(X)
<1>1. \A X : /\ S!IsFiniteSet(X) = IsFiniteSet(X) /\ C!IsFiniteSet(X) = IsFiniteSet(X)
             /\ B!IsFiniteSet(X) = IsFiniteSet(X) /\ D!IsFiniteSet(X) = IsFiniteSet(X)
  BY DEF S!IsFiniteSet, C!IsFiniteSet, B!IsFiniteSet, D!IsFiniteSet, IsFiniteSet
<1>2. \A X : S!Cardinality(X) = Cardinality(X)
  BY <1>1 DEF S!Cardinality, Cardinality
<1>3. \A X : C!Cardinality(X) = Cardinality(X)
  BY <1>1 DEF C!Cardinality, Cardinality
<1>4. \A X : B!Cardinality(X) = Cardinality(X)
  BY <1>1 DEF B!Cardinality, Cardinality
<1>5. \A X : D!Cardinality(X) = Cardinality(X)
  BY <1>1 DEF D!Cardinality, Cardinality
<1> QED
  BY <1>1, <1>2, <1>3, <1>4, <1>5

-----------------------------------------------------------------------------
(***************************************************************************)
(* Streams.  The entries, the goroutines and the counters of late frames   *)
(* are told of generation by generation, so that an action disturbs one.   *)
(***************************************************************************)
StreamType == [pc : {"none", "run", "error", "finish", "end", "done"}, id : Ids, channel : S!Channels,
               cancelled : BOOLEAN, emit : [S!AllEmitters -> {"off", "idle", "write"}]]

Silent(g) == \A e \in S!AllEmitters : streams[g].emit[e] = "off"

(* The goroutines that may write for a stream, and the frames it has in    *)
(* hand: checked under the lock and not yet written.                       *)
Writers(channel) == IF channel = "logs" THEN 2 ELSE IF channel = "stats" THEN 1 ELSE 0
One(b) == IF b THEN 1 ELSE 0
InHand(g) == One(streams[g].emit["stdout"] = "write") + One(streams[g].emit["stderr"] = "write")
             + One(streams[g].emit["stats"] = "write") + One(streams[g].pc = "error")

(* An entry is of the stream that carries its id, the reader registers     *)
(* under an id it has just freed, and generations start in order.          *)
EntriesAreTheirStreams ==
    /\ \A i \in Ids, g \in S!Gens : subs[i] = g => streams[g].id = i
    /\ reader.pc # "read" => subs[reader.id] = 0 /\ gen < MaxGen
    /\ reader.pc = "register" => reader.channel # "other"
    /\ \A g \in S!Gens : streams[g].pc = "none" <=> g > gen
    /\ \A g \in S!Gens : streams[g].pc # "none" => streams[g].channel # "other"

(* Only a channel's own goroutines write, none does once an error is to be *)
(* reported, and the frames sent late and in hand never exceed them.       *)
Counted(g) ==
    /\ \A e \in S!AllEmitters : e \notin S!Emitters(streams[g].channel) => streams[g].emit[e] = "off"
    /\ streams[g].pc \in {"none", "error"} => Silent(g)
    /\ streams[g].pc = "none" => late[g] = 0
    /\ S!Current(g) => late[g] = 0
    /\ late[g] + InHand(g) <= Writers(streams[g].channel)

(* EveryStreamCanBeStopped and EndIsLast, for one stream.                  *)
Stoppable(g) ==
    /\ streams[g].pc \in {"run", "error", "finish"} /\ ~streams[g].cancelled => S!Current(g)
    /\ streams[g].pc \in {"none", "end", "done"} => \A i \in Ids : subs[i] # g

EndsLast(g) == streams[g].pc \in {"finish", "end", "done"} /\ ~streams[g].cancelled => Silent(g)

StreamInv ==
    /\ S!TypeOK /\ EntriesAreTheirStreams
    /\ \A g \in S!Gens : Counted(g) /\ Stoppable(g) /\ EndsLast(g)

-----------------------------------------------------------------------------
LEMMA StreamTypes ==
    ASSUME S!TypeOK
    PROVE  /\ streams \in [S!Gens -> StreamType] /\ gen \in Nat /\ late \in [S!Gens -> Nat]
           /\ \A i \in Ids : subs[i] \in Nat /\ subs[i] <= gen
           /\ \A g \in S!Gens : g \in Nat \ {0}
<1>1. streams \in [S!Gens -> StreamType] /\ gen \in Nat /\ late \in [S!Gens -> Nat]
  BY DEF S!TypeOK, StreamType
<1>2. \A i \in Ids : subs[i] \in 0 .. gen
  BY DEF S!TypeOK
<1> QED
  BY <1>1, <1>2 DEF S!Gens

LEMMA InHandIsSmall ==
    ASSUME NEW g \in S!Gens, streams \in [S!Gens -> StreamType],
           \A e \in S!AllEmitters : e \notin S!Emitters(streams[g].channel) => streams[g].emit[e] = "off",
           streams[g].pc = "error" => Silent(g) /\ streams[g].channel # "other"
    PROVE  InHand(g) \in Nat /\ InHand(g) <= Writers(streams[g].channel)
  BY DEF InHand, One, Writers, S!Emitters, S!AllEmitters, Silent, StreamType, S!Channels

LEMMA SilentHand ==
    ASSUME NEW g \in S!Gens, Silent(g)
    PROVE  InHand(g) = IF streams[g].pc = "error" THEN 1 ELSE 0
  BY DEF InHand, One, Silent, S!AllEmitters

LEMMA StepOf ==
    ASSUME S!TypeOK, NEW g \in S!Gens, NEW f \in StreamType, S!Step(g, f)
    PROVE  /\ streams' \in [S!Gens -> StreamType] /\ streams'[g] = f
           /\ \A h \in S!Gens : h # g => streams'[h] = streams[h]
  BY StreamTypes DEF S!Step

(* A step of one stream's goroutines that leaves the map alone.            *)
LEMMA StreamStep ==
    ASSUME StreamInv, NEW g \in S!Gens, NEW f \in StreamType, S!Step(g, f),
           UNCHANGED <<open, rights, loaded, subs, gen, reader>>, wrongEnd' \in BOOLEAN,
           late' \in [S!Gens -> Nat], \A h \in S!Gens : h # g => late'[h] = late[h],
           f.id = streams[g].id, f.channel = streams[g].channel, f.cancelled = streams[g].cancelled,
           streams[g].pc # "none", f.pc # "none",
           Counted(g)', Stoppable(g)', EndsLast(g)'
    PROVE  StreamInv'
<1>1. /\ S!TypeOK
      /\ streams' \in [S!Gens -> StreamType] /\ streams'[g] = f
      /\ \A h \in S!Gens : h # g => streams'[h] = streams[h]
  BY StepOf DEF StreamInv
<1>2. S!TypeOK'
  BY <1>1 DEF S!TypeOK, StreamType
<1>3. EntriesAreTheirStreams'
  BY <1>1 DEF StreamInv, EntriesAreTheirStreams
<1>4. ASSUME NEW h \in S!Gens, h # g PROVE Counted(h)' /\ Stoppable(h)' /\ EndsLast(h)'
  <2>1. streams'[h] = streams[h] /\ late'[h] = late[h] /\ subs' = subs
    BY <1>1, <1>4
  <2>2. Counted(h) /\ Stoppable(h) /\ EndsLast(h)
    BY DEF StreamInv
  <2> QED
    BY <2>1, <2>2 DEF Counted, Stoppable, EndsLast, S!Current, Silent, InHand
<1> QED
  BY <1>2, <1>3, <1>4 DEF StreamInv

LEMMA EmitRecord ==
    ASSUME NEW P, NEW I, NEW Q, NEW Cs, NEW Es, NEW V,
           NEW f \in [pc : P, id : I, channel : Q, cancelled : Cs, emit : [Es -> V]], NEW e \in Es, NEW v \in V
    PROVE  LET u == [f EXCEPT !.emit[e] = v]
           IN  /\ u \in [pc : P, id : I, channel : Q, cancelled : Cs, emit : [Es -> V]]
               /\ u.pc = f.pc /\ u.id = f.id /\ u.channel = f.channel /\ u.cancelled = f.cancelled
               /\ u.emit[e] = v /\ \A d \in Es : d # e => u.emit[d] = f.emit[d]
  OBVIOUS

WithEmit(g, e, v) == [streams[g] EXCEPT !.emit[e] = v]

LEMMA EmitOf ==
    ASSUME S!TypeOK, NEW g \in S!Gens, NEW e \in S!AllEmitters, NEW v \in {"off", "idle", "write"}
    PROVE  LET u == WithEmit(g, e, v)
           IN  /\ u \in StreamType
               /\ u.pc = streams[g].pc /\ u.id = streams[g].id /\ u.channel = streams[g].channel
               /\ u.cancelled = streams[g].cancelled
               /\ u.emit[e] = v /\ \A d \in S!AllEmitters : d # e => u.emit[d] = streams[g].emit[d]
<1> DEFINE P == {"none", "run", "error", "finish", "end", "done"}
           V == {"off", "idle", "write"}
<1>1. StreamType = [pc : P, id : Ids, channel : S!Channels, cancelled : BOOLEAN, emit : [S!AllEmitters -> V]]
  BY DEF StreamType
<1>2. streams[g] \in StreamType
  BY StreamTypes
<1> HIDE DEF P, V
<1> QED
  BY <1>1, <1>2, EmitRecord DEF V, WithEmit

LEMMA EmitStep ==
    ASSUME S!BoundsOK, StreamInv, NEW g \in S!Gens, NEW e \in S!AllEmitters,
           S!Emit(g, e) \/ S!Write(g, e) \/ S!EmitterEnds(g, e)
    PROVE  StreamInv'
<1>1. S!TypeOK /\ Counted(g) /\ Stoppable(g) /\ EndsLast(g)
  BY DEF StreamInv
<1>2. streams \in [S!Gens -> StreamType] /\ late \in [S!Gens -> Nat] /\ late[g] \in Nat
  BY <1>1, StreamTypes
<1>3. PICK v \in {"off", "idle", "write"} : S!Step(g, WithEmit(g, e, v))
  BY DEF S!Emit, S!Write, S!EmitterEnds, WithEmit
<1> DEFINE f == WithEmit(g, e, v)
<1>4. /\ f \in StreamType
      /\ f.pc = streams[g].pc /\ f.id = streams[g].id /\ f.channel = streams[g].channel
      /\ f.cancelled = streams[g].cancelled
      /\ f.emit[e] = v /\ \A d \in S!AllEmitters : d # e => f.emit[d] = streams[g].emit[d]
  BY <1>1, EmitOf
<1> HIDE DEF f
<1>5. S!Step(g, f)
  BY <1>3 DEF f
<1>6. streams' \in [S!Gens -> StreamType] /\ streams'[g] = f
  BY <1>1, <1>4, <1>5, StepOf
<1>7. UNCHANGED <<open, rights, loaded, subs, gen, reader, wrongEnd>>
  BY DEF S!Emit, S!Write, S!EmitterEnds
<1>8. streams[g].emit[e] # "off" /\ streams[g].pc \notin {"none", "error"}
  BY <1>1 DEF S!Emit, S!Write, S!EmitterEnds, Counted, Silent
<1>9. e \in S!Emitters(streams[g].channel)
  BY <1>1, <1>8 DEF Counted
<1>10. \A d \in S!AllEmitters : d \notin S!Emitters(f.channel) => f.emit[d] = "off"
  BY <1>1, <1>4, <1>9 DEF Counted
<1>11. Stoppable(g)'
  BY <1>1, <1>4, <1>6, <1>7 DEF Stoppable, S!Current
<1>12. EndsLast(g)'
  BY <1>1, <1>4, <1>6, <1>8 DEF EndsLast, Silent
<1>13. S!Current(g)' <=> S!Current(g)
  BY <1>4, <1>6, <1>7 DEF S!Current
<1>14. InHand(g)' \in Nat /\ InHand(g)' <= Writers(f.channel)
  <2>1. InHand(g)' = One(f.emit["stdout"] = "write") + One(f.emit["stderr"] = "write")
                      + One(f.emit["stats"] = "write") + One(f.pc = "error")
    BY <1>6 DEF InHand
  <2> QED
    BY <1>4, <1>8, <1>10, <2>1 DEF One, Writers, S!Emitters, S!AllEmitters, StreamType, S!Channels
<1>15. /\ late' \in [S!Gens -> Nat] /\ \A h \in S!Gens : h # g => late'[h] = late[h]
       /\ S!Current(g) => late'[g] = late[g]
       /\ late'[g] + InHand(g)' <= Writers(f.channel)
  <2>1. CASE S!Emit(g, e)
    <3>1. late' = late /\ S!Current(g)
      BY <2>1 DEF S!Emit, S!MayWrite
    <3>2. late[g] = 0
      BY <1>1, <3>1 DEF Counted
    <3> QED
      BY <1>2, <1>14, <3>1, <3>2
  <2>2. CASE S!Write(g, e)
    <3>1. v = "idle" /\ streams[g].emit[e] = "write"
      <4>1. S!Step(g, WithEmit(g, e, "idle"))
        BY <2>2 DEF S!Write, WithEmit
      <4>2. streams'[g] = WithEmit(g, e, "idle") /\ WithEmit(g, e, "idle").emit[e] = "idle"
        BY <1>1, <4>1, EmitOf, StepOf
      <4> QED
        BY <1>4, <1>6, <2>2, <4>2 DEF S!Write
    <3>2. InHand(g)' + 1 = InHand(g)
      <4>1. InHand(g)' = One(f.emit["stdout"] = "write") + One(f.emit["stderr"] = "write")
                          + One(f.emit["stats"] = "write") + One(f.pc = "error")
        BY <1>6 DEF InHand
      <4> QED
        BY <1>4, <3>1, <4>1 DEF InHand, One, S!AllEmitters
    <3>3. late' = [late EXCEPT ![g] = IF open /\ ~S!Current(g) THEN @ + 1 ELSE @]
      BY <2>2 DEF S!Write
    <3>4. /\ late' \in [S!Gens -> Nat] /\ \A h \in S!Gens : h # g => late'[h] = late[h]
          /\ late'[g] \in {late[g], late[g] + 1}
          /\ S!Current(g) => late'[g] = late[g]
      BY <1>2, <3>3
    <3>5. late[g] + InHand(g) <= Writers(f.channel)
      BY <1>1, <1>4 DEF Counted
    <3>6. Writers(f.channel) \in Nat
      BY DEF Writers
    <3> QED
      BY <1>2, <1>14, <3>2, <3>4, <3>5, <3>6
  <2>3. CASE S!EmitterEnds(g, e)
    <3>1. late' = late /\ streams[g].emit[e] = "idle"
      BY <2>3 DEF S!EmitterEnds
    <3>2. v = "off"
      <4>1. S!Step(g, WithEmit(g, e, "off"))
        BY <2>3 DEF S!EmitterEnds, WithEmit
      <4>2. streams'[g] = WithEmit(g, e, "off") /\ WithEmit(g, e, "off").emit[e] = "off"
        BY <1>1, <4>1, EmitOf, StepOf
      <4> QED
        BY <1>4, <1>6, <4>2
    <3>3. InHand(g)' = InHand(g)
      <4>1. InHand(g)' = One(f.emit["stdout"] = "write") + One(f.emit["stderr"] = "write")
                          + One(f.emit["stats"] = "write") + One(f.pc = "error")
        BY <1>6 DEF InHand
      <4> QED
        BY <1>4, <3>1, <3>2, <4>1 DEF InHand, One, S!AllEmitters
    <3> QED
      BY <1>1, <1>2, <1>4, <3>1, <3>3 DEF Counted
  <2> QED
    BY <2>1, <2>2, <2>3
<1>16. Counted(g)'
  BY <1>1, <1>4, <1>6, <1>8, <1>10, <1>13, <1>15 DEF Counted
<1> QED
  BY <1>4, <1>5, <1>7, <1>8, <1>11, <1>12, <1>15, <1>16, StreamStep DEF StreamInv, S!TypeOK

WithPc(g, pc) == [streams[g] EXCEPT !.pc = pc]

LEMMA PcOf ==
    ASSUME S!TypeOK, NEW g \in S!Gens, NEW pc \in {"run", "error", "finish", "end", "done"}
    PROVE  LET u == WithPc(g, pc)
           IN  /\ u \in StreamType
               /\ u.pc = pc /\ u.id = streams[g].id /\ u.channel = streams[g].channel
               /\ u.cancelled = streams[g].cancelled /\ u.emit = streams[g].emit
<1>1. streams[g] \in StreamType
  BY StreamTypes
<1> QED
  BY <1>1 DEF WithPc, StreamType

LEMMA ReturnStep ==
    ASSUME S!BoundsOK, StreamInv, NEW g \in S!Gens, NEW failed \in BOOLEAN, S!Return(g, failed)
    PROVE  StreamInv'
<1>1. S!TypeOK /\ Counted(g) /\ Stoppable(g) /\ EndsLast(g) /\ streams[g].pc = "run"
  BY DEF StreamInv, S!Return, S!At
<1>2. streams \in [S!Gens -> StreamType] /\ late \in [S!Gens -> Nat] /\ late[g] \in Nat
  BY <1>1, StreamTypes
<1> DEFINE pc == IF failed /\ ~streams[g].cancelled /\ S!MayWrite(g) THEN "error" ELSE "finish"
           f == WithPc(g, pc)
<1>3. S!Step(g, f) /\ pc \in {"error", "finish"} /\ (pc = "error" => ~streams[g].cancelled /\ S!Current(g))
  BY DEF S!Return, WithPc, S!MayWrite
<1> HIDE DEF pc
<1>4. /\ f \in StreamType /\ f.pc = pc /\ f.id = streams[g].id /\ f.channel = streams[g].channel
      /\ f.cancelled = streams[g].cancelled /\ f.emit = streams[g].emit
  BY <1>1, <1>3, PcOf
<1> HIDE DEF f
<1>5. streams' \in [S!Gens -> StreamType] /\ streams'[g] = f
  BY <1>1, <1>3, <1>4, StepOf
<1>6. UNCHANGED <<open, rights, loaded, subs, gen, reader, late, wrongEnd>>
  BY DEF S!Return
<1>7. ~streams[g].cancelled => Silent(g)
  BY DEF S!Return, S!StreamOver, Silent
<1>8. Stoppable(g)'
  BY <1>1, <1>3, <1>4, <1>5, <1>6 DEF Stoppable, S!Current
<1>9. EndsLast(g)'
  BY <1>4, <1>5, <1>7 DEF EndsLast, Silent
<1>10. Counted(g)'
  <2>1. streams[g].channel # "other"
    BY <1>1 DEF StreamInv, EntriesAreTheirStreams
  <2>2. late'[g] + InHand(g)' <= Writers(f.channel)
    <3>1. CASE pc = "error"
      <4>1. late[g] = 0 /\ Silent(g)
        BY <1>1, <1>3, <1>7, <3>1 DEF Counted
      <4>2. InHand(g)' = 1
        BY <1>4, <1>5, <3>1, <4>1 DEF InHand, One, Silent, S!AllEmitters
      <4>3. Writers(f.channel) >= 1
        BY <1>2, <1>4, <2>1 DEF Writers, StreamType, S!Channels
      <4>4. Writers(f.channel) \in Nat
        BY DEF Writers
      <4> QED
        BY <1>6, <4>1, <4>2, <4>3, <4>4
    <3>2. CASE pc = "finish"
      <4>1. InHand(g)' = InHand(g)
        BY <1>1, <1>4, <1>5, <3>2 DEF InHand, One
      <4> QED
        BY <1>1, <1>4, <1>6, <4>1 DEF Counted
    <3> QED
      BY <1>3, <3>1, <3>2
  <2> QED
    BY <1>1, <1>3, <1>4, <1>5, <1>6, <1>7, <2>2 DEF Counted, Silent, S!Current
<1> QED
  BY <1>1, <1>2, <1>3, <1>4, <1>6, <1>8, <1>9, <1>10, StreamStep DEF S!TypeOK

LEMMA FrameStep ==
    ASSUME S!BoundsOK, StreamInv, NEW g \in S!Gens, S!WriteError(g) \/ S!WriteEnd(g)
    PROVE  StreamInv'
<1>1. S!TypeOK /\ Counted(g) /\ Stoppable(g) /\ EndsLast(g) /\ streams[g].pc \in {"error", "end"}
  BY DEF StreamInv, S!WriteError, S!WriteEnd, S!At
<1>2. streams \in [S!Gens -> StreamType] /\ late \in [S!Gens -> Nat] /\ late[g] \in Nat
  BY <1>1, StreamTypes
<1> DEFINE pc == IF streams[g].pc = "error" THEN "finish" ELSE "done"
           f == WithPc(g, pc)
<1>3. S!Step(g, f)
  BY DEF S!WriteError, S!WriteEnd, WithPc, S!At
<1>4. /\ f \in StreamType /\ f.pc = pc /\ f.id = streams[g].id /\ f.channel = streams[g].channel
      /\ f.cancelled = streams[g].cancelled /\ f.emit = streams[g].emit
  BY <1>1, PcOf
<1> HIDE DEF f
<1>5. streams' \in [S!Gens -> StreamType] /\ streams'[g] = f
  BY <1>1, <1>3, <1>4, StepOf
<1>6. UNCHANGED <<open, rights, loaded, subs, gen, reader>> /\ wrongEnd' \in BOOLEAN
  BY <1>1 DEF S!WriteError, S!WriteEnd, S!TypeOK
<1>7. /\ late' \in [S!Gens -> Nat] /\ \A h \in S!Gens : h # g => late'[h] = late[h]
      /\ late'[g] \in {late[g], late[g] + 1}
      /\ S!Current(g) \/ streams[g].pc = "end" => late'[g] = late[g]
  BY <1>2 DEF S!WriteError, S!WriteEnd, S!At
<1>8. Stoppable(g)'
  BY <1>1, <1>4, <1>5, <1>6 DEF Stoppable, S!Current
<1>9. EndsLast(g)'
  BY <1>1, <1>4, <1>5 DEF EndsLast, Silent, Counted
<1>10. Counted(g)'
  <2>1. late'[g] + InHand(g)' <= Writers(f.channel)
    <3>1. CASE streams[g].pc = "error"
      <4>1. InHand(g) = 1 /\ InHand(g)' = 0
        BY <1>1, <1>4, <1>5, <3>1 DEF Counted, InHand, One, Silent, S!AllEmitters
      <4>2. Writers(f.channel) \in Nat /\ late[g] + 1 <= Writers(f.channel)
        BY <1>1, <1>4, <4>1 DEF Writers, Counted
      <4> QED
        BY <1>2, <1>7, <4>1, <4>2
    <3>2. CASE streams[g].pc = "end"
      <4>1. InHand(g)' = InHand(g)
        BY <1>1, <1>4, <1>5, <3>2 DEF InHand, One
      <4> QED
        BY <1>1, <1>4, <1>7, <3>2, <4>1 DEF Counted
    <3> QED
      BY <1>1, <3>1, <3>2
  <2> QED
    BY <1>1, <1>4, <1>5, <1>6, <1>7, <2>1 DEF Counted, Silent, S!Current
<1> QED
  BY <1>1, <1>3, <1>4, <1>6, <1>7, <1>8, <1>9, <1>10, StreamStep

LEMMA FinishStep ==
    ASSUME S!BoundsOK, StreamInv, NEW g \in S!Gens, S!Finish(g)
    PROVE  StreamInv'
<1>1. S!TypeOK /\ Counted(g) /\ Stoppable(g) /\ EndsLast(g) /\ streams[g].pc = "finish"
  BY DEF StreamInv, S!Finish, S!At
<1>2. streams \in [S!Gens -> StreamType] /\ late \in [S!Gens -> Nat] /\ late[g] \in Nat
  BY <1>1, StreamTypes
<1> DEFINE pc == IF S!Mine(g) THEN "end" ELSE "done"
           f == WithPc(g, pc)
<1>3. S!Step(g, f)
  BY DEF S!Finish, WithPc
<1>4. /\ f \in StreamType /\ f.pc = pc /\ f.id = streams[g].id /\ f.channel = streams[g].channel
      /\ f.cancelled = streams[g].cancelled /\ f.emit = streams[g].emit
  BY <1>1, PcOf
<1>5. pc \in {"end", "done"}
  OBVIOUS
<1> HIDE DEF f, pc
<1>6. /\ streams' \in [S!Gens -> StreamType] /\ streams'[g] = f
      /\ \A h \in S!Gens : h # g => streams'[h] = streams[h]
  BY <1>1, <1>3, <1>4, StepOf
<1>7. UNCHANGED <<open, rights, loaded, gen, reader, late, wrongEnd>>
  BY DEF S!Finish
<1>8. /\ subs' \in [Ids -> 0 .. gen]
      /\ \A i \in Ids : subs'[i] = (IF subs[i] = g THEN 0 ELSE subs[i])
  <2>1. subs \in [Ids -> 0 .. gen] /\ streams[g].id \in Ids /\ 0 \in 0 .. gen
    BY <1>1, <1>2 DEF S!TypeOK, StreamType
  <2>2. \A i \in Ids : subs[i] = g => i = streams[g].id
    BY DEF StreamInv, EntriesAreTheirStreams
  <2> QED
    BY <2>1, <2>2 DEF S!Finish, S!Mine, S!Current
<1>9. S!TypeOK'
  BY <1>1, <1>6, <1>7, <1>8 DEF S!TypeOK, StreamType
<1>10. \A h \in S!Gens : h # 0
  BY DEF S!Gens
<1>11. EntriesAreTheirStreams'
  <2>1. \A i \in Ids, h \in S!Gens : subs'[i] = h => subs[i] = h /\ h # g
    BY <1>8, <1>10
  <2>2. reader.pc # "read" => subs'[reader.id] = 0
    BY <1>1, <1>8 DEF StreamInv, EntriesAreTheirStreams, S!TypeOK
  <2> QED
    BY <1>1, <1>4, <1>5, <1>6, <1>7, <2>1, <2>2 DEF StreamInv, EntriesAreTheirStreams
<1>12. ASSUME NEW h \in S!Gens, h # g PROVE Counted(h)' /\ Stoppable(h)' /\ EndsLast(h)'
  <2>1. streams'[h] = streams[h] /\ late'[h] = late[h] /\ streams[h].id \in Ids
    BY <1>2, <1>6, <1>7, <1>12 DEF StreamType
  <2>2. (S!Current(h)' <=> S!Current(h)) /\ \A i \in Ids : subs'[i] = h <=> subs[i] = h
    BY <1>8, <1>10, <1>12, <2>1 DEF S!Current
  <2>3. Counted(h) /\ Stoppable(h) /\ EndsLast(h)
    BY DEF StreamInv
  <2> QED
    BY <2>1, <2>2, <2>3 DEF Counted, Stoppable, EndsLast, Silent, InHand
<1>13. Stoppable(g)'
  BY <1>4, <1>5, <1>6, <1>8, <1>10 DEF Stoppable
<1>14. EndsLast(g)'
  BY <1>1, <1>4, <1>6 DEF EndsLast, Silent
<1>15. Counted(g)'
  <2>1. ~S!Current(g)'
    BY <1>2, <1>4, <1>6, <1>8, <1>10 DEF S!Current, StreamType
  <2>2. InHand(g)' = InHand(g)
    BY <1>1, <1>4, <1>5, <1>6 DEF InHand, One
  <2> QED
    BY <1>1, <1>4, <1>5, <1>6, <1>7, <2>1, <2>2 DEF Counted, Silent
<1> QED
  BY <1>9, <1>11, <1>12, <1>13, <1>14, <1>15 DEF StreamInv

(* The reader cancels streams and drops their entries.                     *)
LEMMA CancelStep ==
    ASSUME S!BoundsOK, StreamInv, NEW G, streams' = S!Cancelled(G), UNCHANGED <<rights, loaded, gen, late, wrongEnd>>,
           subs' \in [Ids -> 0 .. gen],
           \A i \in Ids : subs'[i] = subs[i] \/ (subs'[i] = 0 /\ (subs[i] # 0 => subs[i] \in G)),
           open' \in BOOLEAN,
           reader' \in [pc : {"read", "allow", "register"}, id : Ids, channel : S!Channels],
           reader'.pc # "read" => subs'[reader'.id] = 0 /\ gen < MaxGen,
           reader'.pc = "register" => reader'.channel # "other"
    PROVE  StreamInv'
<1>1. S!TypeOK /\ streams \in [S!Gens -> StreamType] /\ gen \in Nat
  BY StreamTypes DEF StreamInv
<1>2. \A h \in S!Gens : /\ streams'[h] \in StreamType
                        /\ streams'[h].pc = streams[h].pc /\ streams'[h].id = streams[h].id
                        /\ streams'[h].channel = streams[h].channel /\ streams'[h].emit = streams[h].emit
                        /\ ~streams'[h].cancelled => ~streams[h].cancelled /\ h \notin G
  <2> SUFFICES ASSUME NEW h \in S!Gens
               PROVE  /\ streams'[h] \in StreamType
                      /\ streams'[h].pc = streams[h].pc /\ streams'[h].id = streams[h].id
                      /\ streams'[h].channel = streams[h].channel /\ streams'[h].emit = streams[h].emit
                      /\ ~streams'[h].cancelled => ~streams[h].cancelled /\ h \notin G
    OBVIOUS
  <2>1. streams[h] \in StreamType
    BY <1>1
  <2>2. CASE h \in G
    <3>1. streams'[h] = [streams[h] EXCEPT !.cancelled = TRUE]
      BY <2>2 DEF S!Cancelled
    <3> QED
      BY <2>1, <2>2, <3>1 DEF StreamType
  <2>3. CASE h \notin G
    <3>1. streams'[h] = streams[h] /\ streams[h].cancelled \in BOOLEAN
      BY <2>1, <2>3 DEF S!Cancelled, StreamType
    <3> QED
      BY <2>1, <2>3, <3>1
  <2> QED
    BY <2>2, <2>3
<1>3. streams' \in [S!Gens -> StreamType]
  <2>1. streams' = [h \in S!Gens |-> streams'[h]]
    BY DEF S!Cancelled
  <2> QED
    BY <1>2, <2>1
<1>4. S!TypeOK'
  BY <1>1, <1>3 DEF S!TypeOK, StreamType
<1>5. \A h \in S!Gens : h # 0
  BY DEF S!Gens
<1>6. \A i \in Ids, h \in S!Gens : subs'[i] = h => subs[i] = h
  BY <1>5
<1>7. EntriesAreTheirStreams'
  BY <1>2, <1>6 DEF StreamInv, EntriesAreTheirStreams
<1>8. ASSUME NEW h \in S!Gens PROVE Counted(h)' /\ Stoppable(h)' /\ EndsLast(h)'
  <2>1. Counted(h) /\ Stoppable(h) /\ EndsLast(h) /\ streams[h].id \in Ids
    BY <1>1 DEF StreamInv, StreamType
  <2>2. /\ S!Current(h)' => S!Current(h)
        /\ S!Current(h) /\ ~streams'[h].cancelled => S!Current(h)'
    BY <1>2, <1>5, <1>6, <2>1 DEF S!Current
  <2>3. (Silent(h)' <=> Silent(h)) /\ InHand(h)' = InHand(h)
    BY <1>2 DEF Silent, InHand, One
  <2>4. Counted(h)'
    BY <1>2, <2>1, <2>2, <2>3 DEF Counted
  <2>5. Stoppable(h)'
    BY <1>2, <1>6, <2>1, <2>2 DEF Stoppable
  <2>6. EndsLast(h)'
    BY <1>2, <2>1, <2>3 DEF EndsLast
  <2> QED
    BY <2>4, <2>5, <2>6
<1> QED
  BY <1>4, <1>7, <1>8 DEF StreamInv

LEMMA ReaderStops ==
    ASSUME S!BoundsOK, StreamInv,
           \/ \E i \in Ids : S!ReadUnsubscribe(i) \/ \E channel \in S!Channels : S!ReadSubscribe(i, channel)
           \/ S!Close
    PROVE  StreamInv'
<1>1. S!TypeOK /\ subs \in [Ids -> 0 .. gen] /\ gen \in Nat /\ 0 \in 0 .. gen
  BY StreamTypes DEF StreamInv, S!TypeOK
<1>2. ASSUME NEW i \in Ids, S!Unsubscribe(i)
      PROVE  /\ subs' \in [Ids -> 0 .. gen] /\ subs'[i] = 0
             /\ \A j \in Ids : subs'[j] = subs[j] \/ (subs'[j] = 0 /\ (subs[j] # 0 => subs[j] \in {subs[i]}))
             /\ streams' = S!Cancelled({subs[i]})
  <2>1. subs' = [subs EXCEPT ![i] = 0] /\ streams' = S!Cancelled({subs[i]})
    BY <1>2 DEF S!Unsubscribe
  <2>2. subs' \in [Ids -> 0 .. gen] /\ subs'[i] = 0 /\ \A j \in Ids : j # i => subs'[j] = subs[j]
    BY <1>1, <2>1
  <2> QED
    BY <2>1, <2>2
<1>3. ASSUME NEW i \in Ids, S!ReadUnsubscribe(i) PROVE StreamInv'
  <2>1. UNCHANGED <<open, rights, loaded, gen, reader, late, wrongEnd>> /\ S!Unsubscribe(i) /\ reader.pc = "read"
    BY <1>3 DEF S!ReadUnsubscribe
  <2>2. /\ open' \in BOOLEAN
        /\ reader' \in [pc : {"read", "allow", "register"}, id : Ids, channel : S!Channels]
        /\ reader'.pc = "read"
    BY <1>1, <2>1 DEF S!TypeOK
  <2> QED
    BY <1>2, <2>1, <2>2, CancelStep
<1>4. ASSUME NEW i \in Ids, NEW channel \in S!Channels, S!ReadSubscribe(i, channel) PROVE StreamInv'
  <2>1. UNCHANGED <<open, rights, loaded, gen, late, wrongEnd>> /\ S!Unsubscribe(i) /\ gen < MaxGen
    BY <1>4 DEF S!ReadSubscribe
  <2>2. /\ open' \in BOOLEAN
        /\ reader' \in [pc : {"read", "allow", "register"}, id : Ids, channel : S!Channels]
        /\ reader'.pc = "allow" /\ reader'.id = i
    BY <1>1, <1>4 DEF S!TypeOK, S!ReadSubscribe
  <2> QED
    BY <1>2, <2>1, <2>2, CancelStep
<1>5. CASE S!Close
  <2>1. /\ UNCHANGED <<rights, loaded, gen, reader, late, wrongEnd>> /\ reader.pc = "read"
        /\ streams' = S!Cancelled({subs[i] : i \in Ids}) /\ open' \in BOOLEAN
        /\ subs' \in [Ids -> 0 .. gen] /\ \A i \in Ids : subs'[i] = 0 /\ subs[i] \in {subs[j] : j \in Ids}
    BY <1>1, <1>5 DEF S!Close, S!CloseAll
  <2>2. reader' \in [pc : {"read", "allow", "register"}, id : Ids, channel : S!Channels] /\ reader'.pc = "read"
    BY <1>1, <2>1 DEF S!TypeOK
  <2> QED
    BY <2>1, <2>2, CancelStep
<1> QED
  BY <1>3, <1>4, <1>5

LEMMA ReaderJudges ==
    ASSUME S!BoundsOK, StreamInv, S!Deny \/ S!Allow \/ (\E to \in Rights : S!ChangeRights(to)) \/ UNCHANGED S!svars
    PROVE  StreamInv'
<1>1. /\ UNCHANGED <<open, loaded, subs, gen, streams, late, wrongEnd>> /\ rights' \in Rights
      /\ S!TypeOK /\ S!IdleReader \in [pc : {"read", "allow", "register"}, id : Ids, channel : S!Channels]
  BY DEF S!Deny, S!Allow, S!ChangeRights, S!svars, StreamInv, S!TypeOK, S!IdleReader, S!BoundsOK, S!Channels
<1>2. /\ reader' \in [pc : {"read", "allow", "register"}, id : Ids, channel : S!Channels]
      /\ \/ reader' = reader \/ reader'.pc = "read"
         \/ /\ reader.pc = "allow" /\ reader'.pc = "register" /\ reader'.id = reader.id
            /\ reader'.channel = reader.channel /\ reader.channel # "other"
  <2>1. CASE S!Deny
    BY <1>1, <2>1 DEF S!Deny, S!IdleReader
  <2>2. CASE S!Allow
    BY <1>1, <2>2 DEF S!Allow, S!Allowed, S!TypeOK
  <2>3. CASE (\E to \in Rights : S!ChangeRights(to)) \/ UNCHANGED S!svars
    BY <1>1, <2>3 DEF S!ChangeRights, S!svars, S!TypeOK
  <2> QED
    BY <2>1, <2>2, <2>3
<1>3. S!TypeOK'
  BY <1>1, <1>2 DEF S!TypeOK
<1>4. EntriesAreTheirStreams'
  BY <1>1, <1>2 DEF StreamInv, EntriesAreTheirStreams
<1>5. \A g \in S!Gens : Counted(g)' /\ Stoppable(g)' /\ EndsLast(g)'
  BY <1>1 DEF StreamInv, Counted, Stoppable, EndsLast, S!Current, Silent, InHand, One
<1> QED
  BY <1>3, <1>4, <1>5 DEF StreamInv

LEMMA RegisterStep ==
    ASSUME S!BoundsOK, StreamInv, S!Register
    PROVE  StreamInv'
<1>0. PICK n : n = gen + 1
  OBVIOUS
<1> DEFINE f == [pc |-> "run", id |-> reader.id, channel |-> reader.channel, cancelled |-> FALSE,
                 emit |-> [e \in S!AllEmitters |-> IF e \in S!Emitters(reader.channel) THEN "idle" ELSE "off"]]
<1>1. /\ S!TypeOK /\ reader.pc = "register" /\ reader.channel # "other" /\ subs[reader.id] = 0 /\ gen < MaxGen
      /\ reader.id \in Ids /\ reader.channel \in S!Channels
  BY DEF StreamInv, S!Register, EntriesAreTheirStreams, S!TypeOK
<1>2. streams \in [S!Gens -> StreamType] /\ late \in [S!Gens -> Nat] /\ gen \in Nat /\ MaxGen \in Nat
  BY <1>1, StreamTypes DEF S!BoundsOK
<1>3. n \in S!Gens /\ n \in Nat /\ n > gen /\ n # 0
  BY <1>0, <1>1, <1>2 DEF S!Gens
<1>4. /\ UNCHANGED <<open, rights, loaded, late, wrongEnd>> /\ gen' = n /\ S!Step(n, f) /\ reader' = S!IdleReader
      /\ subs' = [subs EXCEPT ![reader.id] = n]
  BY <1>0 DEF S!Register, S!NextGen
<1>5. /\ f \in StreamType /\ f.pc = "run" /\ f.id = reader.id /\ f.channel = reader.channel /\ f.cancelled = FALSE
      /\ \A e \in S!AllEmitters : f.emit[e] # "write"
      /\ \A e \in S!AllEmitters : e \notin S!Emitters(f.channel) => f.emit[e] = "off"
  BY <1>1 DEF StreamType
<1> HIDE DEF f
<1>6. /\ streams' \in [S!Gens -> StreamType] /\ streams'[n] = f
      /\ \A h \in S!Gens : h # n => streams'[h] = streams[h]
  BY <1>1, <1>3, <1>4, <1>5, StepOf
<1>7. /\ subs' \in [Ids -> 0 .. n] /\ subs'[reader.id] = n
      /\ \A i \in Ids : i # reader.id => subs'[i] = subs[i]
      /\ \A i \in Ids : subs[i] <= gen /\ subs[i] \in Nat
  <2>1. subs \in [Ids -> 0 .. gen]
    BY <1>1 DEF S!TypeOK
  <2>2. subs \in [Ids -> 0 .. n] /\ n \in 0 .. n
    BY <1>2, <1>3, <2>1
  <2> QED
    BY <1>1, <1>2, <1>4, <2>1, <2>2
<1>8. reader' \in [pc : {"read", "allow", "register"}, id : Ids, channel : S!Channels] /\ reader'.pc = "read"
  BY <1>4 DEF S!IdleReader, S!BoundsOK, S!Channels
<1>9. S!TypeOK'
  <2>1. gen' \in 0 .. MaxGen
    BY <1>2, <1>3, <1>4 DEF S!Gens
  <2> QED
    BY <1>1, <1>4, <1>6, <1>7, <1>8, <2>1 DEF S!TypeOK, StreamType
<1>10. \A i \in Ids : subs[i] # n
  BY <1>2, <1>3, <1>7
<1>11. \A h \in S!Gens : h # n => (h > n <=> h > gen)
  BY <1>0, <1>2, <1>3 DEF S!Gens
<1>12. EntriesAreTheirStreams'
  <2>1. \A i \in Ids, g \in S!Gens : subs'[i] = g => streams'[g].id = i
    BY <1>5, <1>6, <1>7, <1>10 DEF StreamInv, EntriesAreTheirStreams
  <2>2. \A g \in S!Gens : streams'[g].pc = "none" <=> g > n
    BY <1>3, <1>5, <1>6, <1>11 DEF StreamInv, EntriesAreTheirStreams
  <2>3. \A g \in S!Gens : streams'[g].pc # "none" => streams'[g].channel # "other"
    BY <1>1, <1>5, <1>6 DEF StreamInv, EntriesAreTheirStreams
  <2> QED
    BY <1>4, <1>8, <2>1, <2>2, <2>3 DEF EntriesAreTheirStreams
<1>13. ASSUME NEW h \in S!Gens, h # n PROVE Counted(h)' /\ Stoppable(h)' /\ EndsLast(h)'
  <2>1. streams'[h] = streams[h] /\ late'[h] = late[h] /\ streams[h].id \in Ids /\ h # 0
    BY <1>2, <1>4, <1>6, <1>13 DEF StreamType, S!Gens
  <2>2. \A i \in Ids : subs'[i] = h <=> subs[i] = h
    BY <1>1, <1>7, <1>13, <2>1
  <2>3. S!Current(h)' <=> S!Current(h)
    BY <2>1, <2>2 DEF S!Current
  <2>4. Counted(h) /\ Stoppable(h) /\ EndsLast(h)
    BY DEF StreamInv
  <2> QED
    BY <2>1, <2>2, <2>3, <2>4 DEF Counted, Stoppable, EndsLast, Silent, InHand
<1>14. Stoppable(n)' /\ EndsLast(n)'
  BY <1>5, <1>6, <1>7 DEF Stoppable, EndsLast, S!Current
<1>15. Counted(n)'
  <2>1. late[n] = 0
    BY <1>2, <1>3 DEF StreamInv, Counted, EntriesAreTheirStreams
  <2>2. InHand(n)' = 0
    BY <1>5, <1>6 DEF InHand, One, S!AllEmitters
  <2>3. Writers(f.channel) >= 0
    BY DEF Writers
  <2> QED
    BY <1>4, <1>5, <1>6, <2>1, <2>2, <2>3 DEF Counted
<1> QED
  BY <1>9, <1>12, <1>13, <1>14, <1>15 DEF StreamInv

LEMMA StreamInit == ASSUME S!BoundsOK, S!Init PROVE StreamInv
<1>1. S!NoStream \in StreamType /\ S!IdleReader \in [pc : {"read", "allow", "register"}, id : Ids, channel : S!Channels]
  BY DEF S!BoundsOK, S!NoStream, S!IdleReader, StreamType, S!Channels
<1>2. S!TypeOK
  <2>1. rights \in Rights /\ loaded \in BOOLEAN /\ gen \in 0 .. MaxGen /\ subs \in [Ids -> 0 .. gen]
    BY DEF S!Init, S!BoundsOK
  <2>2. streams \in [S!Gens -> StreamType] /\ late \in [S!Gens -> Nat]
    BY <1>1 DEF S!Init
  <2>3. open = TRUE /\ wrongEnd = FALSE /\ reader = S!IdleReader
    BY DEF S!Init
  <2> QED
    BY <1>1, <2>1, <2>2, <2>3 DEF S!TypeOK, StreamType
<1>3. /\ \A g \in S!Gens : streams[g] = S!NoStream /\ late[g] = 0 /\ g \in Nat /\ g > 0
      /\ gen = 0 /\ reader.pc = "read" /\ \A i \in Ids : subs[i] = 0
  BY DEF S!Init, S!Gens, S!IdleReader
<1>4. /\ S!NoStream.pc = "none" /\ S!NoStream.channel = "other" /\ S!NoStream.cancelled = FALSE
      /\ \A e \in S!AllEmitters : S!NoStream.emit[e] = "off"
  BY DEF S!NoStream
<1>5. EntriesAreTheirStreams
  BY <1>3, <1>4 DEF EntriesAreTheirStreams
<1>6. ASSUME NEW g \in S!Gens PROVE Counted(g) /\ Stoppable(g) /\ EndsLast(g)
  <2>1. Silent(g) /\ InHand(g) = 0 /\ Writers(streams[g].channel) = 0
    BY <1>3, <1>4 DEF Silent, InHand, One, S!AllEmitters, Writers
  <2> QED
    BY <1>3, <1>4, <2>1 DEF Counted, Stoppable, EndsLast, Silent
<1> QED
  BY <1>2, <1>5, <1>6 DEF StreamInv

LEMMA StreamNext == ASSUME S!BoundsOK, StreamInv, [S!Next]_S!svars PROVE StreamInv'
  BY EmitStep, ReturnStep, FrameStep, FinishStep, ReaderStops, ReaderJudges, RegisterStep DEF S!Next

LEMMA EmittersCounted == \A channel \in S!Channels : Cardinality(S!Emitters(channel)) = Writers(channel)
<1>1. Cardinality({}) = 0 /\ IsFiniteSet({})
  BY FS_EmptySet
<1>2. \A x : Cardinality({x}) = 1 /\ IsFiniteSet({x})
  BY FS_Singleton
<1>3. Cardinality({"stdout"} \cup {"stderr"}) = 2
  <2>1. \A x, y : x # y => Cardinality({x} \cup {y}) = Cardinality({x}) + 1
    BY <1>2, FS_AddElement
  <2>2. Cardinality({"stdout"} \cup {"stderr"}) = Cardinality({"stdout"}) + 1
    BY <2>1
  <2>3. Cardinality({"stdout"}) = 1
    BY <1>2
  <2> QED
    BY <2>2, <2>3
<1>4. {"stdout", "stderr"} = {"stdout"} \cup {"stderr"}
  OBVIOUS
<1> QED
  BY <1>1, <1>2, <1>3, <1>4 DEF S!Emitters, Writers, S!Channels

(* The inductive invariant of the hub: who a stream belongs to and what its *)
(* goroutines may still write.                                             *)
THEOREM StreamInvariance == ASSUME S!BoundsOK PROVE S!Spec => []StreamInv
<1>1. S!Init => StreamInv
  BY StreamInit
<1>2. StreamInv /\ [S!Next]_S!svars => StreamInv'
  BY StreamNext
<1> QED
  BY <1>1, <1>2, PTL DEF S!Spec

LEMMA StreamEnough == StreamInv => S!StreamsAreOwned
<1> SUFFICES ASSUME StreamInv PROVE S!StreamsAreOwned
  OBVIOUS
<1>1. S!TypeOK
  BY DEF StreamInv
<1>2. S!EveryStreamCanBeStopped /\ S!EndIsLast
  BY DEF StreamInv, S!EveryStreamCanBeStopped, S!EndIsLast, Stoppable, EndsLast, Silent
<1>3. ASSUME NEW g \in S!Gens PROVE late[g] <= Cardinality(S!Emitters(streams[g].channel))
  <2>1. late[g] \in Nat /\ streams[g] \in StreamType
    BY <1>1, StreamTypes
  <2>2. InHand(g) \in Nat
    BY DEF InHand, One
  <2>3. late[g] + InHand(g) <= Writers(streams[g].channel) /\ Writers(streams[g].channel) \in Nat
    BY DEF StreamInv, Counted, Writers
  <2>4. late[g] <= Writers(streams[g].channel)
    BY <2>1, <2>2, <2>3
  <2> QED
    BY <2>1, <2>4, EmittersCounted DEF StreamType
<1> QED
  BY <1>1, <1>2, <1>3, SizesAgree DEF S!StreamsAreOwned, S!LateFramesAreBounded

(* finish, writeSub and demuxLines, however the reader and the streams'    *)
(* goroutines interleave: a stream nobody cancelled is the one under its   *)
(* id, a replaced one sends one more frame per goroutine at most, and      *)
(* nothing follows the "end" of a stream nobody cancelled.                 *)
THEOREM StreamsOwned == ASSUME S!BoundsOK PROVE S!Spec => []S!StreamsAreOwned
  BY StreamInvariance, StreamEnough, PTL

-----------------------------------------------------------------------------
(***************************************************************************)
(* Hosts and the client cache.  That what is cached follows the row needs  *)
(* what the callers and the admins in flight hold, not only the caches.    *)
(***************************************************************************)
CallTypes == {C!Idle} \cup C!Dialling \cup C!Built
AdminTypes == {C!Idle} \cup C!Probing \cup C!Pinning \cup C!Leaving

(* Connections are numbered in the order they were made, and a connection  *)
(* was made with a key that its row allows.                                *)
ConnsAreNumbered == \E n \in 0 .. MaxConns : C!Used = 1 .. n
ConnsAreVerified == \A c \in C!Used : C!VerifyHostKey(conns[c].row, conns[c].key)

(* A caller with a connection has the one it made, and a prober that dials *)
(* has the lock and found nothing cached.                                  *)
BuiltIsItsOwn ==
    \A k \in Callers : call[k].pc = "built" =>
        /\ call[k].conn \in C!Used
        /\ conns[call[k].conn].host = call[k].host /\ conns[call[k].conn].row = call[k].row
ProbeHoldsLock ==
    \A k \in Callers : call[k].pc = "dial" /\ call[k].for = "probe" =>
        lock = k /\ sshConns[call[k].host] = 0

(* Once a host's row is settled and no dial raced with its Disconnect, the *)
(* callers as well as the cache have the row as it is.                     *)
AtWork(k, h) == call[k].pc # "idle" /\ call[k].host = h
Fresh(h) ==
    h \notin raced /\ C!Settled(h) /\ row[h].version > 0 =>
        /\ \A k \in Callers : AtWork(k, h) => call[k].row = row[h]
        /\ \A c \in C!Conns : c = clients[h] \/ c = sshConns[h] => conns[c].row = row[h]

PinsAreTrusted == \A a \in Admins : admin[a].pc = "pin" => C!Trusts(admin[a].seen, admin[a].key)

ClientInv ==
    /\ C!TypeOK /\ ConnsAreNumbered /\ ConnsAreVerified /\ BuiltIsItsOwn /\ ProbeHoldsLock
    /\ C!OpenIsOwned /\ C!PinWasReviewed /\ PinsAreTrusted
    /\ \A h \in Hosts : Fresh(h)

-----------------------------------------------------------------------------
LEMMA CallPc ==
    ASSUME NEW x \in CallTypes
    PROVE  /\ x.pc = "idle" <=> x = C!Idle
           /\ x.pc \in {"sshlock", "dial"} <=> x \in C!Dialling
           /\ x.pc = "built" <=> x \in C!Built
           /\ x.pc \in {"idle", "sshlock", "dial", "built"}
           /\ x # C!Idle => x.host \in Hosts /\ x.row \in C!RowType
<1>1. C!Idle.pc = "idle"
  BY DEF C!Idle
<1>2. \A y \in C!Dialling : y.pc \in {"sshlock", "dial"} /\ y.host \in Hosts /\ y.row \in C!RowType
  BY DEF C!Dialling
<1>3. \A y \in C!Built : y.pc = "built" /\ y.host \in Hosts /\ y.row \in C!RowType
  BY DEF C!Built
<1> QED
  BY <1>1, <1>2, <1>3 DEF CallTypes

LEMMA AdminPc ==
    ASSUME NEW x \in AdminTypes
    PROVE  /\ x.pc = "idle" <=> x = C!Idle
           /\ x.pc = "probe" <=> x \in C!Probing
           /\ x.pc = "pin" <=> x \in C!Pinning
           /\ x.pc = "disconnect" <=> x \in C!Leaving
           /\ x # C!Idle => x.host \in Hosts
<1>1. C!Idle.pc = "idle"
  BY DEF C!Idle
<1>2. \A y \in C!Probing : y.pc = "probe" /\ y.host \in Hosts
  BY DEF C!Probing
<1>3. \A y \in C!Pinning : y.pc = "pin" /\ y.host \in Hosts
  BY DEF C!Pinning
<1>4. \A y \in C!Leaving : y.pc = "disconnect" /\ y.host \in Hosts
  BY DEF C!Leaving
<1> QED
  BY <1>1, <1>2, <1>3, <1>4 DEF AdminTypes

LEMMA UsedIs ==
    ASSUME C!BoundsOK, NEW x \in {C!NoConn} \cup C!ConnType
    PROVE  x # C!NoConn <=> x \in C!ConnType
<1>1. C!NoConn.host = 0
  BY DEF C!NoConn
<1>2. \A y \in C!ConnType : y.host \in Hosts
  BY DEF C!ConnType
<1> QED
  BY <1>1, <1>2 DEF C!BoundsOK

LEMMA CallTypesHold ==
    ASSUME C!TypeOK
    PROVE  /\ call \in [Callers -> CallTypes] /\ admin \in [Admins -> AdminTypes]
           /\ \A k \in Callers : call[k] \in CallTypes
           /\ \A a \in Admins : admin[a] \in AdminTypes
  BY DEF C!TypeOK, CallTypes, AdminTypes

LEMMA CallToIs ==
    ASSUME C!TypeOK, NEW k \in Callers, NEW to, C!CallTo(k, to)
    PROVE  /\ call'[k] = to
           /\ \A j \in Callers : j # k => call'[j] = call[j]
           /\ to \in CallTypes => call' \in [Callers -> CallTypes]
  BY CallTypesHold DEF C!CallTo

LEMMA AdminToIs ==
    ASSUME C!TypeOK, NEW a \in Admins, NEW to, C!AdminTo(a, to)
    PROVE  /\ admin'[a] = to
           /\ \A b \in Admins : b # a => admin'[b] = admin[b]
           /\ to \in AdminTypes => admin' \in [Admins -> AdminTypes]
  BY CallTypesHold DEF C!AdminTo

(* Settled in terms of the pc alone.                                       *)
LEMMA SettledIs ==
    ASSUME C!TypeOK, NEW h
    PROVE  C!Settled(h) <=> \A a \in Admins : admin[a].pc = "disconnect" => admin[a].host # h
<1>1. C!Idle.pc = "idle"
  BY DEF C!Idle
<1> QED
  BY <1>1 DEF C!Settled

LEMMA ClientInit == ASSUME C!BoundsOK, C!Init PROVE ClientInv
<1>1. \A h \in Hosts : row[h] = [exists |-> TRUE, pin |-> C!NoPin, disabled |-> FALSE, version |-> 0]
  BY DEF C!Init
<1>2. row \in [Hosts -> C!RowType]
  <2>1. [exists |-> TRUE, pin |-> C!NoPin, disabled |-> FALSE, version |-> 0] \in C!RowType
    BY DEF C!RowType, C!BoundsOK
  <2> QED
    BY <2>1 DEF C!Init
<1>3. C!Used = {} /\ 0 \in 0 .. MaxConns /\ 0 \in 0 .. RowEdits
  BY DEF C!Init, C!Used, C!BoundsOK
<1>4. C!TypeOK
  BY <1>2, <1>3 DEF C!Init, C!TypeOK
<1>5. ConnsAreNumbered
  <2>1. 1 .. 0 = {}
    OBVIOUS
  <2> QED
    BY <2>1, <1>3 DEF ConnsAreNumbered
<1>6. /\ \A k \in Callers : call[k].pc = "idle"
      /\ \A a \in Admins : admin[a].pc = "idle"
  BY DEF C!Init, C!Idle
<1>7. C!PinWasReviewed
  BY <1>1 DEF C!PinWasReviewed
<1>8. ASSUME NEW h \in Hosts PROVE Fresh(h)
  <2>1. row[h].version = 0
    BY <1>1
  <2> QED
    BY <2>1 DEF Fresh
<1> QED
  BY <1>3, <1>4, <1>5, <1>6, <1>7, <1>8
     DEF ClientInv, ConnsAreVerified, BuiltIsItsOwn, ProbeHoldsLock, C!OpenIsOwned, PinsAreTrusted

-----------------------------------------------------------------------------
(* Callers that look, wait for the lock, or fail to dial.                  *)
LEMMA CallsKeep ==
    ASSUME C!BoundsOK, ClientInv, NEW k \in Callers, NEW h \in Hosts,
           C!ClientMiss(k, h) \/ C!ProbeStart(k, h) \/ C!ProbeLock(k) \/ C!DialFails(k)
    PROVE  ClientInv'
<1>1. UNCHANGED <<row, presents, clients, sshConns, conns, admin, rowEdits, reinstalls, raced, reviewed>>
  BY DEF C!ClientMiss, C!ProbeStart, C!ProbeLock, C!DialFails
<1>2. C!TypeOK /\ call[k] \in CallTypes /\ row[h] \in C!RowType
  BY CallTypesHold DEF ClientInv, C!TypeOK
<1>3. PICK to \in CallTypes :
          /\ C!CallTo(k, to) /\ call[k].pc # "built" /\ to.pc # "built"
          /\ to.pc # "idle" => \/ to.host = call[k].host /\ to.row = call[k].row /\ call[k].pc # "idle"
                               \/ \E g \in Hosts : to.host = g /\ to.row = row[g]
          /\ to.pc = "dial" /\ to.for = "probe" => lock' = k /\ sshConns[to.host] = 0
          /\ lock' \in {lock, "free", k}
          /\ lock' = "free" => lock \in {k, "free"}
          /\ lock' = k => lock \in {k, "free"}
  <2>1. C!Idle \in CallTypes /\ C!Idle.pc = "idle"
    BY DEF CallTypes, C!Idle
  <2>2. CASE C!ClientMiss(k, h)
    <3>1. PICK to : to = [pc |-> "dial", host |-> h, row |-> row[h], for |-> "client"]
      OBVIOUS
    <3>2. to \in CallTypes /\ to.pc = "dial" /\ to.host = h /\ to.row = row[h] /\ to.for = "client"
      BY <3>1, <1>2 DEF CallTypes, C!Dialling
    <3>3. C!CallTo(k, to) /\ call[k] = C!Idle /\ lock' = lock /\ lock = "free"
      BY <3>1, <2>2 DEF C!ClientMiss, C!Free
    <3> QED
      BY <3>2, <3>3, <2>1
  <2>3. CASE C!ProbeStart(k, h)
    <3>1. PICK to : to = [pc |-> "sshlock", host |-> h, row |-> row[h], for |-> "probe"]
      OBVIOUS
    <3>2. to \in CallTypes /\ to.pc = "sshlock" /\ to.host = h /\ to.row = row[h] /\ to.for = "probe"
      BY <3>1, <1>2 DEF CallTypes, C!Dialling
    <3>3. C!CallTo(k, to) /\ call[k] = C!Idle /\ lock' = lock
      BY <3>1, <2>3 DEF C!ProbeStart
    <3> QED
      BY <3>2, <3>3, <2>1
  <2>4. CASE C!ProbeLock(k) /\ sshConns[call[k].host] # 0
    <3>1. C!CallTo(k, C!Idle) /\ lock' = lock /\ call[k].pc = "sshlock"
      BY <2>4 DEF C!ProbeLock
    <3> QED
      BY <3>1, <2>1
  <2>5. CASE C!ProbeLock(k) /\ sshConns[call[k].host] = 0
    <3>1. /\ C!CallTo(k, [call[k] EXCEPT !.pc = "dial"]) /\ lock' = k /\ lock = "free" /\ call[k].pc = "sshlock"
      BY <2>5 DEF C!ProbeLock, C!Free
    <3>2. call[k] \in C!Dialling
      BY <3>1, <1>2, CallPc
    <3>3. PICK to : to = [call[k] EXCEPT !.pc = "dial"]
      OBVIOUS
    <3>4. to \in CallTypes /\ to.pc = "dial" /\ to.host = call[k].host /\ to.row = call[k].row
      BY <3>2, <3>3 DEF CallTypes, C!Dialling
    <3> QED
      BY <3>1, <3>3, <3>4, <2>5
  <2>6. CASE C!DialFails(k)
    BY <2>1, <2>6 DEF C!DialFails
  <2> QED
    BY <2>2, <2>3, <2>4, <2>5, <2>6
<1>4. /\ call'[k] = to /\ call' \in [Callers -> CallTypes]
      /\ \A j \in Callers : j # k => call'[j] = call[j]
  BY <1>2, <1>3, CallToIs
<1>5. C!Used' = C!Used
  BY <1>1 DEF C!Used
<1>6. C!TypeOK'
  BY <1>1, <1>2, <1>3, <1>4, <1>5 DEF C!TypeOK, CallTypes
<1>7. ConnsAreNumbered' /\ ConnsAreVerified' /\ C!PinWasReviewed' /\ PinsAreTrusted'
  BY <1>1, <1>5 DEF ClientInv, ConnsAreNumbered, ConnsAreVerified, C!PinWasReviewed, PinsAreTrusted
<1>8. BuiltIsItsOwn'
  BY <1>1, <1>3, <1>4, <1>5 DEF ClientInv, BuiltIsItsOwn
<1>9. ProbeHoldsLock'
  <2>1. "free" \notin Callers
    BY DEF C!BoundsOK
  <2> QED
    BY <2>1, <1>1, <1>3, <1>4 DEF ClientInv, ProbeHoldsLock
<1>10. C!OpenIsOwned'
  <2>1. \A c : (\E j \in Callers : call[j].pc = "built" /\ call[j].conn = c)
               => \E j \in Callers : call'[j].pc = "built" /\ call'[j].conn = c
    BY <1>3, <1>4
  <2> QED
    BY <2>1, <1>1, <1>5 DEF ClientInv, C!OpenIsOwned
<1>11. ASSUME NEW g \in Hosts PROVE Fresh(g)'
  <2>1. C!Settled(g)' <=> C!Settled(g)
    BY <1>1 DEF C!Settled
  <2>2. ASSUME Fresh(g), g \notin raced, C!Settled(g), row[g].version > 0, NEW j \in Callers, AtWork(j, g)'
        PROVE  call'[j].row = row[g]
    BY <2>2, <1>3, <1>4 DEF AtWork, Fresh
  <2> QED
    BY <2>1, <2>2, <1>1 DEF ClientInv, Fresh
<1> QED
  BY <1>6, <1>7, <1>8, <1>9, <1>10, <1>11 DEF ClientInv

-----------------------------------------------------------------------------
(* The connection a dial makes has the next number.                        *)
LEMMA NextIsNew ==
    ASSUME C!BoundsOK, ConnsAreNumbered, C!NextConn \in C!Conns
    PROVE  C!NextConn \notin C!Used /\ \E n \in 0 .. MaxConns : C!Used \cup {C!NextConn} = 1 .. n
<1>1. PICK n \in 0 .. MaxConns : C!Used = 1 .. n
  BY DEF ConnsAreNumbered
<1>2. n \in Int /\ 1 \in Int
  BY DEF C!BoundsOK
<1>3. Cardinality(1 .. n) = IF 1 > n THEN 0 ELSE n - 1 + 1
  BY <1>2, FS_Interval
<1>4. Cardinality(C!Used) = n
  BY <1>1, <1>3 DEF C!BoundsOK
<1>5. C!NextConn = n + 1
  BY <1>4, SizesAgree DEF C!NextConn
<1>6. n + 1 \in 0 .. MaxConns
  BY <1>5 DEF C!Conns, C!BoundsOK
<1>7. (1 .. n) \cup {n + 1} = 1 .. n + 1
  BY <1>2, <1>1 DEF C!BoundsOK
<1> QED
  BY <1>1, <1>2, <1>5, <1>6, <1>7

LEMMA DialKeeps ==
    ASSUME C!BoundsOK, ClientInv, NEW k \in Callers, C!Dial(k)
    PROVE  ClientInv'
<1>1. UNCHANGED <<row, presents, clients, admin, rowEdits, reinstalls, raced, reviewed>>
  BY DEF C!Dial
<1>2. C!TypeOK /\ call[k] \in CallTypes /\ call[k].pc = "dial"
  BY CallTypesHold DEF ClientInv, C!Dial
<1>3. call[k] \in C!Dialling
  BY <1>2, CallPc
<1>4. PICK n \in C!Conns, h \in Hosts, r \in C!RowType : n = C!NextConn /\ h = call[k].host /\ r = call[k].row
  BY <1>3 DEF C!Dial, C!Dialling
<1>14. PICK d : d = C!Dialled(k)
  OBVIOUS
<1>5. d \in C!ConnType /\ d.host = h /\ d.row = r /\ C!VerifyHostKey(d.row, d.key)
  <2>1. presents[h] \in Keys
    BY <1>2 DEF C!TypeOK
  <2>2. d = [host |-> h, key |-> presents[h], row |-> r, open |-> TRUE, tunnel |-> TRUE]
    BY <1>4, <1>14 DEF C!Dialled
  <2>3. d \in C!ConnType /\ d.host = h /\ d.row = r /\ d.key = presents[h]
    BY <2>1, <2>2 DEF C!ConnType
  <2> QED
    BY <2>3, <1>4 DEF C!Dial
<1>6. /\ conns' = [conns EXCEPT ![n] = d]
      /\ conns' \in [C!Conns -> {C!NoConn} \cup C!ConnType]
      /\ conns'[n] = d
      /\ \A c \in C!Conns : c # n => conns'[c] = conns[c]
  <2>1. conns' = [conns EXCEPT ![n] = d]
    BY <1>4, <1>14 DEF C!Dial
  <2> QED
    BY <2>1, <1>2, <1>5 DEF C!TypeOK
<1>7. n \notin C!Used /\ C!Used' = C!Used \cup {n}
  <2>1. n \notin C!Used
    BY <1>4, NextIsNew DEF ClientInv
  <2>2. d # C!NoConn
    BY <1>5, UsedIs
  <2> QED
    BY <2>1, <2>2, <1>6 DEF C!Used
<1>8. ConnsAreNumbered'
  <2>1. \E m \in 0 .. MaxConns : C!Used \cup {n} = 1 .. m
    BY <1>4, NextIsNew DEF ClientInv
  <2> QED
    BY <2>1, <1>7 DEF ConnsAreNumbered
<1>9. ConnsAreVerified'
  BY <1>5, <1>6, <1>7 DEF ClientInv, ConnsAreVerified, C!Used
<1>10. C!PinWasReviewed' /\ PinsAreTrusted'
  BY <1>1 DEF ClientInv, C!PinWasReviewed, PinsAreTrusted
<1>11. n # 0 /\ n \in 0 .. MaxConns
  BY DEF C!Conns, C!BoundsOK
<1>12. CASE call[k].for = "probe"
  <2>1. /\ sshConns' = [sshConns EXCEPT ![h] = n] /\ lock' = "free" /\ C!CallTo(k, C!Idle)
    BY <1>4, <1>12 DEF C!Dial
  <2>2. /\ C!Idle \in CallTypes /\ C!Idle.pc = "idle"
    BY DEF C!Idle, CallTypes
  <2>3. /\ call'[k] = C!Idle /\ call' \in [Callers -> CallTypes]
        /\ \A j \in Callers : j # k => call'[j] = call[j]
    BY <2>1, <2>2, <1>2, CallToIs
  <2>4. lock = k /\ sshConns[h] = 0
    BY <1>2, <1>4, <1>12 DEF ClientInv, ProbeHoldsLock
  <2>5. /\ sshConns' \in [Hosts -> 0 .. MaxConns] /\ sshConns'[h] = n
        /\ \A g \in Hosts : g # h => sshConns'[g] = sshConns[g]
    BY <2>1, <1>2, <1>11 DEF C!TypeOK
  <2>6. C!TypeOK'
    <3>1. \A g \in Hosts : {clients'[g], sshConns'[g]} \subseteq {0} \cup {c \in C!Used' : conns'[c].host = g}
      BY <2>5, <1>1, <1>2, <1>5, <1>6, <1>7 DEF C!TypeOK, C!Used
    <3> QED
      BY <3>1, <2>1, <2>3, <2>5, <1>1, <1>2, <1>6 DEF C!TypeOK, CallTypes
  <2>7. BuiltIsItsOwn'
    BY <2>2, <2>3, <1>6, <1>7 DEF ClientInv, BuiltIsItsOwn, C!Used
  <2>8. ProbeHoldsLock'
    BY <2>2, <2>3, <2>4 DEF ClientInv, ProbeHoldsLock
  <2>9. C!OpenIsOwned'
    <3>1. ASSUME NEW c \in C!Used', conns'[c].open
          PROVE  \/ clients'[conns'[c].host] = c \/ sshConns'[conns'[c].host] = c
                 \/ \E j \in Callers : call'[j].pc = "built" /\ call'[j].conn = c
      <4>1. CASE c = n
        BY <4>1, <2>5, <1>5, <1>6
      <4>2. CASE c # n
        <5>1. c \in C!Used /\ c \in C!Conns /\ conns'[c] = conns[c] /\ c # 0
          BY <4>2, <1>6, <1>7 DEF C!Used, C!Conns
        <5>2. CASE \E j \in Callers : call[j].pc = "built" /\ call[j].conn = c
          BY <5>2, <2>3, <1>2
        <5>3. CASE clients[conns[c].host] = c \/ sshConns[conns[c].host] = c
          <6>1. conns[c].host \in Hosts
            <7>1. conns[c] \in C!ConnType
              BY <5>1, <1>2, UsedIs DEF C!TypeOK, C!Used
            <7> QED
              BY <7>1 DEF C!ConnType
          <6> QED
            BY <6>1, <5>1, <5>3, <2>4, <2>5, <1>1
        <5> QED
          BY <5>1, <5>2, <5>3, <3>1 DEF ClientInv, C!OpenIsOwned
      <4> QED
        BY <4>1, <4>2
    <3> QED
      BY <3>1 DEF C!OpenIsOwned
  <2>10. ASSUME NEW g \in Hosts PROVE Fresh(g)'
    <3>1. C!Settled(g)' <=> C!Settled(g)
      BY <1>1 DEF C!Settled
    <3>2. ASSUME Fresh(g), g \notin raced, C!Settled(g), row[g].version > 0
          PROVE  /\ \A j \in Callers : AtWork(j, g)' => call'[j].row = row[g]
                 /\ \A c \in C!Conns : c = clients[g] \/ c = sshConns'[g] => conns'[c].row = row[g]
      <4>1. \A j \in Callers : AtWork(j, g)' => call'[j].row = row[g]
        BY <3>2, <2>2, <2>3 DEF AtWork, Fresh
      <4>2. g = h => r = row[g]
        BY <3>2, <1>2, <1>4 DEF AtWork, Fresh
      <4>3. n # clients[g] /\ n # sshConns[g]
        BY <1>2, <1>7, <1>11 DEF C!TypeOK
      <4> QED
        BY <4>1, <4>2, <4>3, <3>2, <2>5, <1>5, <1>6 DEF Fresh
    <3> QED
      BY <3>1, <3>2, <1>1 DEF ClientInv, Fresh
  <2> QED
    BY <2>6, <2>7, <2>8, <2>9, <2>10, <1>8, <1>9, <1>10 DEF ClientInv
<1>13. CASE call[k].for # "probe"
  <2>1. UNCHANGED <<sshConns, lock>>
    BY <1>13 DEF C!Dial
  <2>2. PICK b : b = [pc |-> "built", host |-> h, row |-> r, for |-> call[k].for, conn |-> n]
    OBVIOUS
  <2>3. b \in CallTypes /\ b.pc = "built" /\ b.host = h /\ b.row = r /\ b.conn = n
    BY <2>2, <1>3 DEF CallTypes, C!Built, C!Dialling
  <2>4. C!CallTo(k, b)
    BY <2>2, <1>4, <1>13 DEF C!Dial
  <2>5. /\ call'[k] = b /\ call' \in [Callers -> CallTypes]
        /\ \A j \in Callers : j # k => call'[j] = call[j]
    BY <2>3, <2>4, <1>2, CallToIs
  <2>6. C!TypeOK'
    <3>1. \A g \in Hosts : {clients'[g], sshConns'[g]} \subseteq {0} \cup {c \in C!Used' : conns'[c].host = g}
      BY <2>1, <1>1, <1>2, <1>5, <1>6, <1>7 DEF C!TypeOK, C!Used
    <3> QED
      BY <3>1, <2>1, <2>5, <1>1, <1>2, <1>6 DEF C!TypeOK, CallTypes
  <2>7. BuiltIsItsOwn'
    BY <2>3, <2>5, <1>5, <1>6, <1>7 DEF ClientInv, BuiltIsItsOwn, C!Used
  <2>8. ProbeHoldsLock'
    BY <2>1, <2>3, <2>5 DEF ClientInv, ProbeHoldsLock
  <2>9. C!OpenIsOwned'
    <3>1. ASSUME NEW c \in C!Used', conns'[c].open
          PROVE  \/ clients'[conns'[c].host] = c \/ sshConns'[conns'[c].host] = c
                 \/ \E j \in Callers : call'[j].pc = "built" /\ call'[j].conn = c
      <4>1. CASE c = n
        BY <4>1, <2>3, <2>5
      <4>2. CASE c # n
        <5>1. c \in C!Used /\ c \in C!Conns /\ conns'[c] = conns[c]
          BY <4>2, <1>6, <1>7 DEF C!Used
        <5> QED
          BY <5>1, <3>1, <2>1, <2>5, <1>1, <1>2 DEF ClientInv, C!OpenIsOwned
      <4> QED
        BY <4>1, <4>2
    <3> QED
      BY <3>1 DEF C!OpenIsOwned
  <2>10. ASSUME NEW g \in Hosts PROVE Fresh(g)'
    <3>1. C!Settled(g)' <=> C!Settled(g)
      BY <1>1 DEF C!Settled
    <3>2. ASSUME Fresh(g), g \notin raced, C!Settled(g), row[g].version > 0
          PROVE  /\ \A j \in Callers : AtWork(j, g)' => call'[j].row = row[g]
                 /\ \A c \in C!Conns : c = clients[g] \/ c = sshConns[g] => conns'[c].row = row[g]
      <4>1. g = h => r = row[g]
        BY <3>2, <1>2, <1>4 DEF AtWork, Fresh
      <4>2. \A j \in Callers : AtWork(j, g)' => call'[j].row = row[g]
        BY <4>1, <3>2, <2>3, <2>5 DEF AtWork, Fresh
      <4>3. n # clients[g] /\ n # sshConns[g]
        BY <1>2, <1>7, <1>11 DEF C!TypeOK
      <4> QED
        BY <4>2, <4>3, <3>2, <1>6 DEF Fresh
    <3> QED
      BY <3>1, <3>2, <2>1, <1>1 DEF ClientInv, Fresh
  <2> QED
    BY <2>6, <2>7, <2>8, <2>9, <2>10, <1>8, <1>9, <1>10 DEF ClientInv
<1> QED
  BY <1>12, <1>13

-----------------------------------------------------------------------------
LEMMA InstallKeeps ==
    ASSUME C!BoundsOK, ClientInv, NEW k \in Callers, C!Install(k)
    PROVE  ClientInv'
<1>1. UNCHANGED <<row, presents, sshConns, lock, admin, rowEdits, reinstalls, raced, reviewed>>
  BY DEF C!Install
<1>2. C!TypeOK /\ call[k] \in CallTypes /\ call[k].pc = "built"
  BY CallTypesHold DEF ClientInv, C!Install
<1>3. call[k] \in C!Built
  BY <1>2, CallPc
<1>4. PICK n \in C!Conns, h \in Hosts : n = call[k].conn /\ h = call[k].host
  BY <1>3 DEF C!Built
<1>5. n \in C!Used /\ conns[n].host = h /\ conns[n].row = call[k].row /\ n # 0 /\ n \in 0 .. MaxConns
  BY <1>2, <1>4 DEF ClientInv, BuiltIsItsOwn, C!Conns, C!BoundsOK
<1>6. /\ C!Idle \in CallTypes /\ C!Idle.pc = "idle"
  BY DEF C!Idle, CallTypes
<1>7. /\ call'[k] = C!Idle /\ call' \in [Callers -> CallTypes]
      /\ \A j \in Callers : j # k => call'[j] = call[j]
  <2>1. C!CallTo(k, C!Idle)
    BY DEF C!Install
  <2> QED
    BY <2>1, <1>2, <1>6, CallToIs
<1>8. /\ conns' \in [C!Conns -> {C!NoConn} \cup C!ConnType] /\ C!Used' = C!Used
      /\ \A c \in C!Used : /\ conns'[c].host = conns[c].host /\ conns'[c].row = conns[c].row
                           /\ conns'[c].key = conns[c].key
                           /\ conns'[c].open => conns[c].open
      /\ clients[h] # 0 => ~conns'[n].open
  <2>1. \A c \in C!Conns : c \in C!Used <=> conns[c] \in C!ConnType
    BY <1>2, UsedIs DEF C!TypeOK, C!Used
  <2>2. ASSUME NEW x \in C!ConnType
        PROVE  /\ C!Closed(x) \in C!ConnType /\ C!Closed(x).host = x.host /\ C!Closed(x).row = x.row
               /\ C!Closed(x).key = x.key /\ C!Closed(x).open = FALSE
    BY DEF C!Closed, C!ConnType
  <2>3. CASE clients[h] # 0
    <3>1. conns' = [conns EXCEPT ![n] = C!Closed(conns[n])]
      BY <2>3, <1>4 DEF C!Install, C!InstallFirst
    <3>2. conns[n] \in C!ConnType
      BY <1>5, <2>1
    <3>3. conns'[n] = C!Closed(conns[n]) /\ \A c \in C!Conns \ {n} : conns'[c] = conns[c]
      BY <3>1, <1>2 DEF C!TypeOK
    <3>4. conns' \in [C!Conns -> {C!NoConn} \cup C!ConnType]
      BY <3>1, <3>2, <2>2, <1>2 DEF C!TypeOK
    <3>5. C!Used' = C!Used
      <4>1. C!Closed(conns[n]) # C!NoConn
        BY <3>2, <2>2, UsedIs
      <4> QED
        BY <4>1, <3>3, <1>5 DEF C!Used
    <3>6. ASSUME NEW c \in C!Used
          PROVE  /\ conns'[c].host = conns[c].host /\ conns'[c].row = conns[c].row
                 /\ conns'[c].key = conns[c].key
                 /\ conns'[c].open => conns[c].open
      BY <3>2, <3>3, <2>2 DEF C!Used
    <3> QED
      BY <3>2, <3>3, <3>4, <3>5, <3>6, <2>2
  <2>4. CASE clients[h] = 0
    <3>1. conns' = conns
      BY <2>4, <1>4 DEF C!Install, C!InstallFirst
    <3> QED
      BY <3>1, <2>4, <1>2 DEF C!TypeOK, C!Used
  <2> QED
    BY <2>3, <2>4
<1>9. /\ clients' \in [Hosts -> 0 .. MaxConns]
      /\ \A g \in Hosts : g # h => clients'[g] = clients[g]
      /\ clients'[h] = IF clients[h] # 0 THEN clients[h] ELSE n
  BY <1>2, <1>4, <1>5 DEF C!Install, C!InstallFirst, C!TypeOK
<1>10. C!TypeOK'
  <2>1. ASSUME NEW g \in Hosts
        PROVE  {clients'[g], sshConns'[g]} \subseteq {0} \cup {c \in C!Used' : conns'[c].host = g}
    BY <1>1, <1>2, <1>5, <1>8, <1>9 DEF C!TypeOK
  <2> QED
    BY <2>1, <1>1, <1>2, <1>7, <1>8, <1>9 DEF C!TypeOK, CallTypes
<1>11. ConnsAreNumbered' /\ ConnsAreVerified' /\ C!PinWasReviewed' /\ PinsAreTrusted'
  BY <1>1, <1>8 DEF ClientInv, ConnsAreNumbered, ConnsAreVerified, C!PinWasReviewed, PinsAreTrusted,
     C!VerifyHostKey
<1>12. BuiltIsItsOwn' /\ ProbeHoldsLock'
  BY <1>1, <1>6, <1>7, <1>8 DEF ClientInv, BuiltIsItsOwn, ProbeHoldsLock
<1>13. C!OpenIsOwned'
  <2>1. ASSUME NEW c \in C!Used', conns'[c].open
        PROVE  \/ clients'[conns'[c].host] = c \/ sshConns'[conns'[c].host] = c
               \/ \E j \in Callers : call'[j].pc = "built" /\ call'[j].conn = c
    <3>1. c \in C!Used /\ conns[c].open /\ conns'[c].host = conns[c].host /\ c # 0
      BY <2>1, <1>8 DEF C!Used, C!Conns
    <3>2. CASE c = n
      <4>1. clients[h] = 0
        BY <3>2, <2>1, <1>8
      <4> QED
        BY <4>1, <3>1, <3>2, <1>5, <1>9
    <3>3. CASE c # n
      <4>1. CASE \E j \in Callers : call[j].pc = "built" /\ call[j].conn = c
        BY <4>1, <3>3, <1>4, <1>7
      <4>2. CASE clients[conns[c].host] = c \/ sshConns[conns[c].host] = c
        <5>1. conns[c].host \in Hosts
          <6>1. conns[c] \in C!ConnType
            BY <3>1, <1>2, UsedIs DEF C!TypeOK, C!Used
          <6> QED
            BY <6>1 DEF C!ConnType
        <5> QED
          BY <5>1, <4>2, <3>1, <1>1, <1>9
      <4> QED
        BY <4>1, <4>2, <3>1 DEF ClientInv, C!OpenIsOwned
    <3> QED
      BY <3>2, <3>3
  <2> QED
    BY <2>1 DEF C!OpenIsOwned
<1>14. ASSUME NEW g \in Hosts PROVE Fresh(g)'
  <2>1. C!Settled(g)' <=> C!Settled(g)
    BY <1>1 DEF C!Settled
  <2>2. ASSUME Fresh(g), g \notin raced, C!Settled(g), row[g].version > 0
        PROVE  /\ \A j \in Callers : AtWork(j, g)' => call'[j].row = row[g]
               /\ \A c \in C!Conns : c = clients'[g] \/ c = sshConns[g] => conns'[c].row = row[g]
    <3>1. \A j \in Callers : AtWork(j, g)' => call'[j].row = row[g]
      BY <2>2, <1>6, <1>7 DEF AtWork, Fresh
    <3>2. g = h => conns[n].row = row[g]
      BY <2>2, <1>2, <1>4, <1>5 DEF AtWork, Fresh
    <3>3. ASSUME NEW c \in C!Conns, c = clients'[g] \/ c = sshConns[g]
          PROVE  conns'[c].row = row[g]
      <4>1. c # 0
        BY DEF C!Conns
      <4>2. c = clients[g] \/ c = sshConns[g] \/ (c = n /\ g = h)
        BY <3>3, <1>9
      <4>3. c \in C!Used
        BY <4>1, <4>2, <1>2, <1>5 DEF C!TypeOK
      <4> QED
        BY <4>2, <4>3, <3>2, <2>2, <1>8 DEF Fresh
    <3> QED
      BY <3>1, <3>3
  <2> QED
    BY <2>1, <2>2, <1>1 DEF ClientInv, Fresh
<1> QED
  BY <1>10, <1>11, <1>12, <1>13, <1>14 DEF ClientInv

-----------------------------------------------------------------------------
(* A handler changes a row and is then about to disconnect.                *)
LEMMA RowsKeep ==
    ASSUME C!BoundsOK, ClientInv, NEW a \in Admins,
           C!SetHostKey(a) \/ \E h \in Hosts : C!SetHostDisabled(a, h) \/ C!DeleteHost(a, h)
    PROVE  ClientInv'
<1>1. UNCHANGED <<presents, clients, sshConns, conns, lock, call, reinstalls, raced>>
  BY DEF C!SetHostKey, C!SetHostDisabled, C!DeleteHost
<1>2. C!TypeOK /\ admin[a] \in AdminTypes
  BY CallTypesHold DEF ClientInv
<1>3. PICK h \in Hosts :
          /\ C!AdminTo(a, [pc |-> "disconnect", host |-> h])
          /\ \A g \in Hosts : g # h => row'[g] = row[g] /\ reviewed'[g] = reviewed[g]
          /\ row' \in [Hosts -> C!RowType] /\ rowEdits' \in 0 .. RowEdits
          /\ reviewed' \in [Hosts -> SUBSET Keys] /\ reviewed[h] \subseteq reviewed'[h]
          /\ row'[h].pin = row[h].pin \/ row'[h].pin \in reviewed'[h]
  <2>1. ASSUME NEW h \in Hosts, NEW to \in C!RowType, C!Edit(h, to)
        PROVE  /\ \A g \in Hosts : g # h => row'[g] = row[g]
               /\ row' \in [Hosts -> C!RowType] /\ rowEdits' \in 0 .. RowEdits /\ row'[h].pin = to.pin
    <3>1. PICK v \in 0 .. RowEdits : v = rowEdits + 1 /\ v = rowEdits'
      BY <2>1, <1>2 DEF C!Edit, C!TypeOK, C!BoundsOK
    <3>2. [to EXCEPT !.version = v] \in C!RowType /\ [to EXCEPT !.version = v].pin = to.pin
      BY DEF C!RowType
    <3>3. row' = [row EXCEPT ![h] = [to EXCEPT !.version = v]]
      BY <2>1, <3>1 DEF C!Edit
    <3> QED
      BY <3>1, <3>2, <3>3, <1>2 DEF C!TypeOK
  <2>2. \A h \in Hosts : row[h] \in C!RowType
    BY <1>2 DEF C!TypeOK
  <2>3. ASSUME NEW r \in C!RowType
        PROVE  /\ [r EXCEPT !.exists = FALSE] \in C!RowType /\ [r EXCEPT !.exists = FALSE].pin = r.pin
               /\ [r EXCEPT !.disabled = ~r.disabled] \in C!RowType
               /\ [r EXCEPT !.disabled = ~r.disabled].pin = r.pin
               /\ \A key \in Keys : [r EXCEPT !.pin = key] \in C!RowType /\ [r EXCEPT !.pin = key].pin = key
    BY DEF C!RowType
  <2>4. ASSUME NEW h \in Hosts, C!SetHostDisabled(a, h) \/ C!DeleteHost(a, h)
        PROVE  /\ C!AdminTo(a, [pc |-> "disconnect", host |-> h]) /\ reviewed' = reviewed
               /\ \E to \in C!RowType : C!Edit(h, to) /\ to.pin = row[h].pin
    <3>1. CASE C!SetHostDisabled(a, h)
      BY <3>1, <2>2, <2>3 DEF C!SetHostDisabled
    <3>2. CASE C!DeleteHost(a, h)
      BY <3>2, <2>2, <2>3 DEF C!DeleteHost
    <3> QED
      BY <3>1, <3>2, <2>4
  <2>5. CASE \E h \in Hosts : C!SetHostDisabled(a, h) \/ C!DeleteHost(a, h)
    <3>1. PICK h \in Hosts : C!SetHostDisabled(a, h) \/ C!DeleteHost(a, h)
      BY <2>5
    <3>2. PICK to \in C!RowType : C!Edit(h, to) /\ to.pin = row[h].pin
      BY <3>1, <2>4
    <3>3. C!AdminTo(a, [pc |-> "disconnect", host |-> h]) /\ reviewed' = reviewed
      BY <3>1, <2>4
    <3>4. reviewed \in [Hosts -> SUBSET Keys]
      BY <1>2 DEF C!TypeOK
    <3> QED
      BY <3>2, <3>3, <3>4, <2>1
  <2>6. CASE C!SetHostKey(a)
    <3>1. admin[a] \in C!Pinning /\ admin[a].pc = "pin"
      BY <2>6, <1>2, AdminPc DEF C!SetHostKey
    <3>2. PICK h \in Hosts, key \in Keys : h = admin[a].host /\ key = admin[a].key
      BY <3>1 DEF C!Pinning
    <3>3. C!Trusts(admin[a].seen, key)
      BY <3>1, <3>2 DEF ClientInv, PinsAreTrusted
    <3>4. /\ C!AdminTo(a, [pc |-> "disconnect", host |-> h])
          /\ reviewed' = [reviewed EXCEPT ![h] = @ \cup {key}]
          /\ \/ C!Edit(h, [row[h] EXCEPT !.pin = key])
             \/ UNCHANGED <<row, rowEdits>>
      BY <2>6, <3>2, <3>3 DEF C!SetHostKey, C!Trusts
    <3>5. /\ reviewed' \in [Hosts -> SUBSET Keys] /\ reviewed'[h] = reviewed[h] \cup {key}
          /\ \A g \in Hosts : g # h => reviewed'[g] = reviewed[g]
      BY <3>4, <1>2 DEF C!TypeOK
    <3>6. CASE UNCHANGED <<row, rowEdits>>
      BY <3>4, <3>5, <3>6, <1>2 DEF C!TypeOK
    <3>7. CASE C!Edit(h, [row[h] EXCEPT !.pin = key])
      <4>1. PICK to : to = [row[h] EXCEPT !.pin = key]
        OBVIOUS
      <4>2. to \in C!RowType /\ to.pin = key /\ C!Edit(h, to)
        BY <4>1, <3>7, <2>2, <2>3
      <4> QED
        BY <4>2, <3>4, <3>5, <2>1
    <3> QED
      BY <3>4, <3>6, <3>7
  <2> QED
    BY <2>5, <2>6
<1>4. PICK l : l = [pc |-> "disconnect", host |-> h]
  OBVIOUS
<1>5. l \in AdminTypes /\ l.pc = "disconnect" /\ l.host = h
  BY <1>4 DEF AdminTypes, C!Leaving
<1>6. /\ admin'[a] = l /\ admin' \in [Admins -> AdminTypes]
      /\ \A b \in Admins : b # a => admin'[b] = admin[b]
  BY <1>2, <1>3, <1>4, <1>5, AdminToIs
<1>7. C!Used' = C!Used
  BY <1>1 DEF C!Used
<1>8. C!TypeOK'
  BY <1>1, <1>2, <1>3, <1>6, <1>7 DEF C!TypeOK, AdminTypes
<1>9. ConnsAreNumbered' /\ ConnsAreVerified' /\ BuiltIsItsOwn' /\ ProbeHoldsLock' /\ C!OpenIsOwned'
  BY <1>1, <1>7 DEF ClientInv, ConnsAreNumbered, ConnsAreVerified, BuiltIsItsOwn, ProbeHoldsLock,
     C!OpenIsOwned
<1>10. C!PinWasReviewed'
  BY <1>3 DEF ClientInv, C!PinWasReviewed
<1>11. PinsAreTrusted'
  BY <1>5, <1>6 DEF ClientInv, PinsAreTrusted
<1>12. ASSUME NEW g \in Hosts PROVE Fresh(g)'
  <2>1. CASE g = h
    <3>1. ~C!Settled(g)'
      BY <2>1, <1>5, <1>6, <1>8, SettledIs DEF C!Settled, C!Idle
    <3> QED
      BY <3>1 DEF Fresh
  <2>2. CASE g # h
    <3>1. C!Settled(g)' => C!Settled(g)
      <4>1. admin[a].pc # "disconnect" /\ C!Idle.pc = "idle"
        <5>1. C!Idle.pc = "idle"
          BY DEF C!Idle
        <5>2. CASE C!SetHostKey(a)
          BY <5>1, <5>2 DEF C!SetHostKey
        <5>3. ASSUME NEW i \in Hosts, C!SetHostDisabled(a, i) \/ C!DeleteHost(a, i)
              PROVE  admin[a] = C!Idle
          BY <5>3 DEF C!SetHostDisabled, C!DeleteHost
        <5> QED
          BY <5>1, <5>2, <5>3
      <4> QED
        BY <4>1, <1>6 DEF C!Settled
    <3> QED
      BY <3>1, <2>2, <1>1, <1>3 DEF ClientInv, Fresh, AtWork
  <2> QED
    BY <2>1, <2>2
<1> QED
  BY <1>8, <1>9, <1>10, <1>11, <1>12 DEF ClientInv

(* A handler shows the key, or captures it.                                *)
LEMMA ReviewsKeep ==
    ASSUME C!BoundsOK, ClientInv, NEW a \in Admins,
           C!ProbeHostKey(a) \/ \E h \in Hosts : \E named \in BOOLEAN : C!Review(a, h, named)
    PROVE  ClientInv'
<1>1. UNCHANGED <<row, presents, clients, sshConns, conns, lock, call, rowEdits, reinstalls, raced, reviewed>>
  BY DEF C!ProbeHostKey, C!Review
<1>2. C!TypeOK /\ admin[a] \in AdminTypes
  BY CallTypesHold DEF ClientInv
<1>3. PICK to \in AdminTypes : /\ C!AdminTo(a, to) /\ to.pc # "disconnect" /\ admin[a].pc # "disconnect"
                               /\ to.pc = "pin" => C!Trusts(to.seen, to.key)
  <2>1. C!Idle \in AdminTypes /\ C!Idle.pc = "idle"
    BY DEF C!Idle, AdminTypes
  <2>2. \A h \in Hosts : presents[h] \in Keys
    BY <1>2 DEF C!TypeOK
  <2>3. ASSUME NEW h \in Hosts, NEW named \in BOOLEAN, C!Review(a, h, named)
        PROVE  \E to \in AdminTypes : C!AdminTo(a, to) /\ to.pc = "probe" /\ admin[a] = C!Idle
    <3>1. PICK s \in Keys \cup {C!NoKey} : s = IF named THEN presents[h] ELSE C!NoKey
      BY <2>2
    <3>2. PICK to : to = [pc |-> "probe", host |-> h, seen |-> s]
      OBVIOUS
    <3>3. to \in AdminTypes /\ to.pc = "probe"
      BY <3>2 DEF AdminTypes, C!Probing
    <3> QED
      BY <3>1, <3>2, <3>3, <2>3 DEF C!Review
  <2>4. CASE C!ProbeHostKey(a)
    <3>1. admin[a] \in C!Probing /\ admin[a].pc = "probe"
      BY <2>4, <1>2, AdminPc DEF C!ProbeHostKey
    <3>2. PICK h \in Hosts, s \in Keys \cup {C!NoKey} : h = admin[a].host /\ s = admin[a].seen
      BY <3>1 DEF C!Probing
    <3>3. PICK key \in Keys : key = presents[h]
      BY <2>2
    <3>4. PICK to : to = [pc |-> "pin", host |-> h, seen |-> s, key |-> key]
      OBVIOUS
    <3>5. to \in AdminTypes /\ to.pc = "pin" /\ to.seen = s /\ to.key = key
      BY <3>4 DEF AdminTypes, C!Pinning
    <3>6. C!AdminTo(a, IF C!Trusts(s, key) THEN to ELSE C!Idle)
      BY <2>4, <3>2, <3>3, <3>4 DEF C!ProbeHostKey
    <3>7. CASE C!Trusts(s, key)
      BY <3>1, <3>5, <3>6, <3>7
    <3>8. CASE ~C!Trusts(s, key)
      BY <3>1, <3>6, <3>8, <2>1
    <3> QED
      BY <3>7, <3>8
  <2> QED
    BY <2>1, <2>3, <2>4
<1>4. /\ admin'[a] = to /\ admin' \in [Admins -> AdminTypes]
      /\ \A b \in Admins : b # a => admin'[b] = admin[b]
  BY <1>2, <1>3, AdminToIs
<1>5. C!Used' = C!Used
  BY <1>1 DEF C!Used
<1>6. C!TypeOK'
  BY <1>1, <1>2, <1>4, <1>5 DEF C!TypeOK, AdminTypes
<1>7. /\ ConnsAreNumbered' /\ ConnsAreVerified' /\ BuiltIsItsOwn' /\ ProbeHoldsLock' /\ C!OpenIsOwned'
      /\ C!PinWasReviewed'
  BY <1>1, <1>5 DEF ClientInv, ConnsAreNumbered, ConnsAreVerified, BuiltIsItsOwn, ProbeHoldsLock,
     C!OpenIsOwned,
     C!PinWasReviewed
<1>8. PinsAreTrusted'
  BY <1>3, <1>4 DEF ClientInv, PinsAreTrusted
<1>9. ASSUME NEW g \in Hosts PROVE Fresh(g)'
  <2>1. C!Settled(g)' => C!Settled(g)
    BY <1>3, <1>4 DEF C!Settled
  <2> QED
    BY <2>1, <1>1 DEF ClientInv, Fresh, AtWork
<1> QED
  BY <1>6, <1>7, <1>8, <1>9 DEF ClientInv

-----------------------------------------------------------------------------
LEMMA DisconnectKeeps ==
    ASSUME C!BoundsOK, ClientInv, NEW a \in Admins, C!Disconnect(a)
    PROVE  ClientInv'
<1>1. UNCHANGED <<row, presents, lock, call, rowEdits, reinstalls, reviewed>>
  BY DEF C!Disconnect
<1>2. C!TypeOK /\ admin[a] \in AdminTypes /\ admin[a].pc = "disconnect"
  BY CallTypesHold DEF ClientInv, C!Disconnect
<1>3. PICK h \in Hosts : h = admin[a].host
  BY <1>2, AdminPc DEF C!Leaving
<1>4. /\ conns' = [c \in C!Conns |-> IF c = clients[h] THEN C!Closed(conns[c])
                                     ELSE IF c = sshConns[h] THEN C!ClosedSSH(conns[c]) ELSE conns[c]]
      /\ clients' = [clients EXCEPT ![h] = 0] /\ sshConns' = [sshConns EXCEPT ![h] = 0]
      /\ raced' = IF \E k \in Callers : call[k] # C!Idle /\ call[k].host = h THEN raced \cup {h} ELSE raced \ {h}
      /\ C!AdminTo(a, C!Idle)
  BY <1>3 DEF C!Disconnect, C!Disconnected
<1>5. /\ clients' \in [Hosts -> 0 .. MaxConns] /\ sshConns' \in [Hosts -> 0 .. MaxConns]
      /\ clients'[h] = 0 /\ sshConns'[h] = 0
      /\ \A g \in Hosts : g # h => clients'[g] = clients[g] /\ sshConns'[g] = sshConns[g]
  <2>1. 0 \in 0 .. MaxConns
    BY DEF C!BoundsOK
  <2> QED
    BY <2>1, <1>2, <1>4 DEF C!TypeOK
<1>6. C!Idle \in AdminTypes /\ C!Idle.pc = "idle"
  BY DEF C!Idle, AdminTypes
<1>7. /\ admin'[a] = C!Idle /\ admin' \in [Admins -> AdminTypes]
      /\ \A b \in Admins : b # a => admin'[b] = admin[b]
  BY <1>2, <1>4, <1>6, AdminToIs
<1>8. ASSUME NEW c \in C!Conns
      PROVE  /\ conns'[c] \in {C!NoConn} \cup C!ConnType
             /\ c \in C!Used' <=> c \in C!Used
             /\ c \in C!Used => /\ conns'[c].host = conns[c].host /\ conns'[c].row = conns[c].row
                                /\ conns'[c].key = conns[c].key
                                /\ conns'[c].open => conns[c].open
             /\ c = clients[h] \/ c = sshConns[h] => ~conns'[c].open
  <2>1. c \in C!Used <=> conns[c] \in C!ConnType
    BY <1>2, UsedIs DEF C!TypeOK, C!Used
  <2>2. ASSUME NEW x \in C!ConnType
        PROVE  /\ C!Closed(x) \in C!ConnType /\ C!Closed(x).host = x.host /\ C!Closed(x).row = x.row
               /\ C!Closed(x).key = x.key /\ C!Closed(x).open = FALSE
    BY DEF C!Closed, C!ConnType
  <2>3. ASSUME NEW x \in C!ConnType
        PROVE  /\ C!ClosedSSH(x) \in C!ConnType /\ C!ClosedSSH(x).host = x.host /\ C!ClosedSSH(x).row = x.row
               /\ C!ClosedSSH(x).key = x.key /\ C!ClosedSSH(x).open = FALSE
    BY DEF C!ClosedSSH, C!ConnType
  <2>4. c \in C!Used' <=> conns'[c] # C!NoConn
    BY DEF C!Used
  <2>5. CASE c = clients[h] \/ c = sshConns[h]
    <3>1. c \in C!Used
      BY <2>5, <1>2 DEF C!TypeOK, C!Conns
    <3>2. conns'[c] = C!Closed(conns[c]) \/ conns'[c] = C!ClosedSSH(conns[c])
      BY <2>5, <1>4
    <3>3. conns[c] \in C!ConnType /\ conns'[c] \in C!ConnType /\ ~conns'[c].open
      BY <3>1, <3>2, <2>1, <2>2, <2>3
    <3>4. conns'[c] # C!NoConn
      BY <3>3, UsedIs
    <3>5. /\ conns'[c].host = conns[c].host /\ conns'[c].row = conns[c].row
          /\ conns'[c].key = conns[c].key
      <4>1. CASE conns'[c] = C!Closed(conns[c])
        BY <4>1, <3>3, <2>2
      <4>2. CASE conns'[c] = C!ClosedSSH(conns[c])
        BY <4>2, <3>3, <2>3
      <4> QED
        BY <4>1, <4>2, <3>2
    <3> QED
      BY <3>1, <3>3, <3>4, <3>5, <2>4
  <2>6. CASE c # clients[h] /\ c # sshConns[h]
    <3>1. conns'[c] = conns[c]
      BY <2>6, <1>4
    <3> QED
      BY <3>1, <2>4, <2>6, <1>2 DEF C!TypeOK, C!Used
  <2> QED
    BY <2>5, <2>6
<1>9. C!Used' = C!Used /\ C!Used \subseteq C!Conns
  BY <1>8 DEF C!Used
<1>10. conns' \in [C!Conns -> {C!NoConn} \cup C!ConnType]
  BY <1>4, <1>8
<1>11. C!TypeOK'
  <2>1. ASSUME NEW g \in Hosts
        PROVE  {clients'[g], sshConns'[g]} \subseteq {0} \cup {c \in C!Used' : conns'[c].host = g}
    <3>1. {clients[g], sshConns[g]} \subseteq {0} \cup {c \in C!Used : conns[c].host = g}
      BY <1>2 DEF C!TypeOK
    <3> QED
      BY <3>1, <1>5, <1>8, <1>9
  <2>2. raced' \subseteq Hosts
    BY <1>2, <1>4 DEF C!TypeOK
  <2> QED
    BY <2>1, <2>2, <1>1, <1>2, <1>5, <1>7, <1>10 DEF C!TypeOK, AdminTypes
<1>12. ConnsAreNumbered' /\ ConnsAreVerified' /\ C!PinWasReviewed'
  BY <1>1, <1>8, <1>9 DEF ClientInv, ConnsAreNumbered, ConnsAreVerified, C!PinWasReviewed, C!VerifyHostKey
<1>13. BuiltIsItsOwn' /\ PinsAreTrusted'
  BY <1>1, <1>6, <1>7, <1>8, <1>9 DEF ClientInv, BuiltIsItsOwn, PinsAreTrusted
<1>14. ProbeHoldsLock'
  <2>1. lock = "free" /\ "free" \notin Callers
    BY DEF C!Disconnect, C!Free, C!BoundsOK
  <2> QED
    BY <2>1, <1>1 DEF ClientInv, ProbeHoldsLock
<1>15. C!OpenIsOwned'
  <2>1. ASSUME NEW c \in C!Used', conns'[c].open
        PROVE  \/ clients'[conns'[c].host] = c \/ sshConns'[conns'[c].host] = c
               \/ \E j \in Callers : call'[j].pc = "built" /\ call'[j].conn = c
    <3>1. c \in C!Used /\ c \in C!Conns /\ conns[c].open /\ conns'[c].host = conns[c].host
          /\ c # clients[h] /\ c # sshConns[h]
      BY <2>1, <1>8, <1>9
    <3>2. conns[c].host \in Hosts
      <4>1. conns[c] \in C!ConnType
        BY <3>1, <1>2, UsedIs DEF C!TypeOK, C!Used
      <4> QED
        BY <4>1 DEF C!ConnType
    <3> QED
      BY <3>1, <3>2, <1>1, <1>5 DEF ClientInv, C!OpenIsOwned
  <2> QED
    BY <2>1 DEF C!OpenIsOwned
<1>16. ASSUME NEW g \in Hosts PROVE Fresh(g)'
  <2>1. CASE g = h
    <3>1. ASSUME g \notin raced' PROVE \A k \in Callers : ~AtWork(k, g)'
      <4>1. \A k \in Callers : ~(call[k] # C!Idle /\ call[k].host = h)
        BY <3>1, <2>1, <1>4
      <4>2. \A k \in Callers : call[k] = C!Idle \/ call[k].host # h
        BY <4>1
      <4>3. C!Idle.pc = "idle"
        BY <1>6
      <4> QED
        BY <4>2, <4>3, <2>1, <1>1 DEF AtWork
    <3>2. \A c \in C!Conns : c # clients'[g] /\ c # sshConns'[g]
      BY <2>1, <1>5 DEF C!Conns
    <3> QED
      BY <3>1, <3>2 DEF Fresh
  <2>2. CASE g # h
    <3>1. C!Settled(g)' => C!Settled(g)
      BY <2>2, <1>3, <1>7 DEF C!Settled
    <3>2. g \notin raced' => g \notin raced
      BY <2>2, <1>4
    <3>3. \A c \in C!Conns : c = clients[g] \/ c = sshConns[g] => c \in C!Used
      BY <1>2 DEF C!TypeOK, C!Conns
    <3>4. ASSUME NEW c \in C!Conns, c = clients'[g] \/ c = sshConns'[g]
          PROVE  conns'[c].row = conns[c].row /\ (c = clients[g] \/ c = sshConns[g])
      BY <3>3, <3>4, <2>2, <1>5, <1>8
    <3>5. Fresh(g)
      BY DEF ClientInv
    <3> QED
      BY <3>1, <3>2, <3>4, <3>5, <1>1 DEF Fresh, AtWork
  <2> QED
    BY <2>1, <2>2
<1> QED
  BY <1>11, <1>12, <1>13, <1>14, <1>15, <1>16 DEF ClientInv

LEMMA KeysKeep ==
    ASSUME ClientInv, NEW h \in Hosts, NEW key \in Keys, C!KeyChanges(h, key)
    PROVE  ClientInv'
<1>1. UNCHANGED <<row, clients, sshConns, conns, lock, call, admin, rowEdits, raced, reviewed>>
  BY DEF C!KeyChanges
<1>2. presents' \in [Hosts -> Keys]
  BY DEF C!KeyChanges, ClientInv, C!TypeOK
<1>3. C!Used' = C!Used
  BY <1>1 DEF C!Used
<1>4. C!TypeOK'
  BY <1>1, <1>2, <1>3 DEF ClientInv, C!TypeOK
<1>5. \A g \in Hosts : Fresh(g)'
  BY <1>1 DEF ClientInv, Fresh, AtWork, C!Settled
<1> QED
  BY <1>1, <1>3, <1>4, <1>5 DEF ClientInv, ConnsAreNumbered, ConnsAreVerified, BuiltIsItsOwn,
     ProbeHoldsLock,
     C!OpenIsOwned, C!PinWasReviewed, PinsAreTrusted

LEMMA ClientStutters == ASSUME ClientInv, UNCHANGED C!hvars PROVE ClientInv'
<1>1. C!Used' = C!Used
  BY DEF C!Used, C!hvars
<1>2. C!TypeOK'
  BY <1>1 DEF ClientInv, C!TypeOK, C!hvars
<1>3. \A g \in Hosts : Fresh(g)'
  BY DEF ClientInv, Fresh, AtWork, C!Settled, C!hvars
<1> QED
  BY <1>1, <1>2, <1>3 DEF ClientInv, ConnsAreNumbered, ConnsAreVerified, BuiltIsItsOwn, ProbeHoldsLock,
     C!OpenIsOwned, C!PinWasReviewed, PinsAreTrusted, C!hvars

(* The inductive invariant of the client cache and its handlers.           *)
THEOREM ClientInvariance == ASSUME C!BoundsOK PROVE C!Spec => []ClientInv
<1>1. C!Init => ClientInv
  BY ClientInit
<1>2. ClientInv /\ [C!Next]_C!hvars => ClientInv'
  <2> SUFFICES ASSUME ClientInv, [C!Next]_C!hvars PROVE ClientInv'
    OBVIOUS
  <2>1. CASE UNCHANGED C!hvars
    BY <2>1, ClientStutters
  <2>2. ASSUME NEW k \in Callers, NEW h \in Hosts, C!ClientMiss(k, h) \/ C!ProbeStart(k, h) PROVE ClientInv'
    BY <2>2, CallsKeep
  <2>3. ASSUME NEW k \in Callers, C!ProbeLock(k) \/ C!Dial(k) \/ C!DialFails(k) \/ C!Install(k) PROVE ClientInv'
    <3>1. CASE C!Dial(k)
      BY <3>1, DialKeeps
    <3>2. CASE C!Install(k)
      BY <3>2, InstallKeeps
    <3>3. CASE C!ProbeLock(k) \/ C!DialFails(k)
      <4>1. call[k] \in CallTypes /\ call[k].pc \in {"sshlock", "dial"}
        BY <3>3, CallTypesHold DEF ClientInv, C!ProbeLock, C!DialFails
      <4>2. call[k].host \in Hosts
        BY <4>1, CallPc DEF C!Dialling
      <4> QED
        BY <3>3, <4>2, CallsKeep
    <3> QED
      BY <2>3, <3>1, <3>2, <3>3
  <2>4. CASE \E a \in Admins : \E h \in Hosts :
               C!SetHostDisabled(a, h) \/ C!DeleteHost(a, h) \/ \E named \in BOOLEAN : C!Review(a, h, named)
    BY <2>4, RowsKeep, ReviewsKeep
  <2>5. CASE \E a \in Admins : C!ProbeHostKey(a) \/ C!SetHostKey(a) \/ C!Disconnect(a)
    BY <2>5, RowsKeep, ReviewsKeep, DisconnectKeeps
  <2>6. CASE \E h \in Hosts : \E key \in Keys : C!KeyChanges(h, key)
    BY <2>6, KeysKeep
  <2> QED
    BY <2>1, <2>2, <2>3, <2>4, <2>5, <2>6 DEF C!Next
<1> QED
  BY <1>1, <1>2, PTL DEF C!Spec

(* However dials, edits, deletions, new pins and disconnects interleave,   *)
(* and whatever key a machine comes to present: racing callers leave one   *)
(* open connection, a cached connection follows its row and its pin unless *)
(* a dial raced with the last Disconnect, and a pinned key was approved.   *)
THEOREM ConnectionsTrue == ASSUME C!BoundsOK PROVE C!Spec => []C!ConnectionsFollowRows
<1>1. ClientInv => C!ConnectionsFollowRows
  <2> SUFFICES ASSUME ClientInv PROVE C!CacheFollowsRow
    BY DEF ClientInv, C!ConnectionsFollowRows
  <2>1. ASSUME NEW h \in Hosts, h \notin raced, C!Settled(h), row[h].version > 0,
               NEW c \in {clients[h], sshConns[h]} \ {0}
        PROVE  conns[c].row = row[h] /\ (row[h].pin # C!NoPin => conns[c].key = row[h].pin)
    <3>1. c \in C!Used /\ c \in C!Conns /\ (c = clients[h] \/ c = sshConns[h])
      BY <2>1 DEF ClientInv, C!TypeOK, C!Used
    <3>2. conns[c].row = row[h]
      BY <3>1, <2>1 DEF ClientInv, Fresh
    <3> QED
      BY <3>1, <3>2 DEF ClientInv, ConnsAreVerified, C!VerifyHostKey
  <2> QED
    BY <2>1 DEF C!CacheFollowsRow
<1> QED
  BY <1>1, ClientInvariance, PTL

-----------------------------------------------------------------------------
(***************************************************************************)
(* Host health and the event watchers.                                     *)
(***************************************************************************)
(* What has been seen of a host is what its health says, and the other     *)
(* state as well once there was an alert.                                  *)
SeenIsTold(h) ==
    /\ health[h] = "unknown" => seen[h] = {} /\ alert[h] = "none"
    /\ health[h] # "unknown" /\ alert[h] = "none" => seen[h] = {health[h]}
    /\ alert[h] # "none" => seen[h] = {"up", "down"}
    /\ alert[h] = "offline" => health[h] = "down"
    /\ alert[h] = "recovered" => health[h] = "up"

WatchInv ==
    /\ TypeOK /\ WatcherIsOwned
    /\ seen \in [Monitored -> SUBSET {"up", "down"}]
    /\ \A h \in Monitored : SeenIsTold(h)

LEMMA SeenCounts ==
    Cardinality({}) <= 1 /\ (\A x : Cardinality({x}) <= 1) /\ ~(Cardinality({"up", "down"}) <= 1)
<1>1. Cardinality({}) = 0 /\ (\A x : IsFiniteSet({x}) /\ Cardinality({x}) = 1)
  BY FS_EmptySet, FS_Singleton
<1>2. IsFiniteSet({"up"}) /\ Cardinality({"up"}) = 1
  BY <1>1
<1>3. Cardinality({"up"} \cup {"down"}) = IF "down" \in {"up"} THEN Cardinality({"up"}) ELSE Cardinality({"up"}) + 1
  BY <1>2, FS_AddElement
<1>4. {"up"} \cup {"down"} = {"up", "down"}
  OBVIOUS
<1>5. Cardinality({"up", "down"}) = 2
  <2>1. "down" \notin {"up"}
    OBVIOUS
  <2>2. Cardinality({"up"} \cup {"down"}) = 1 + 1
    BY <2>1, <1>2, <1>3
  <2> QED
    BY <2>2, <1>4
<1>6. ASSUME NEW x PROVE Cardinality({x}) <= 1
  <2>1. Cardinality({x}) = 1
    BY <1>1
  <2> QED
    BY <2>1
<1>7. Cardinality({}) <= 1 /\ ~(Cardinality({"up", "down"}) <= 1)
  <2>1. Cardinality({}) = 0
    BY <1>1
  <2> QED
    BY <2>1, <1>5
<1> QED
  BY <1>6, <1>7

LEMMA WatchImplies == ASSUME WatchInv PROVE WatchFollowsHosts
<1>1. ASSUME NEW h \in Monitored
      PROVE  /\ alert[h] = "offline" => health[h] = "down"
             /\ alert[h] = "recovered" => health[h] = "up"
             /\ alert[h] = "none" => Cardinality(seen[h]) <= 1
             /\ Cardinality(seen[h]) <= 1 => alert[h] = "none"
  <2>1. SeenIsTold(h)
    BY DEF WatchInv
  <2>2. alert[h] = "none" => seen[h] = {} \/ \E x : seen[h] = {x}
    BY <2>1 DEF SeenIsTold
  <2> QED
    BY <2>1, <2>2, SeenCounts DEF SeenIsTold
<1> QED
  BY <1>1 DEF WatchInv, WatchFollowsHosts, AlertMatchesHealth

LEMMA WatchInit == ASSUME BoundsOK, Init PROVE WatchInv
<1>1. NoWatcher \in [pc : {"none", "watch", "wait", "done"}, host : Monitored,
                     cancelled : BOOLEAN, backoff : Nat]
      /\ NoWatcher.pc = "none" /\ NoWatcher.backoff = MinBackoff
  BY DEF BoundsOK, NoWatcher, Monitored
<1>2. TypeOK
  BY <1>1 DEF Init, TypeOK, BoundsOK
<1>3. WatcherIsOwned
  BY <1>1 DEF Init, WatcherIsOwned, BoundsOK
<1>4. \A h \in Monitored : SeenIsTold(h)
  BY DEF Init, SeenIsTold
<1> QED
  BY <1>2, <1>3, <1>4 DEF WatchInv, Init

LEMMA StartRoundKeeps ==
    ASSUME WatchInv, NEW ok \in BOOLEAN, StartRound(ok)
    PROVE  WatchInv'
<1>1. UNCHANGED <<table, up, health, map, watcher, started, alert, seen>>
  BY DEF StartRound
<1>2. round' \subseteq Monitored
  BY DEF StartRound, MonitoredHosts, On, Monitored
<1> QED
  BY <1>1, <1>2 DEF WatchInv, TypeOK, WatcherIsOwned, SeenIsTold

LEMMA CheckHostKeeps ==
    ASSUME WatchInv, NEW h \in Monitored, CheckHost(h)
    PROVE  WatchInv'
<1>1. UNCHANGED <<table, up, map, watcher, started>> /\ round' \subseteq Monitored
  BY DEF CheckHost, WatchInv, TypeOK
<1>2. Observed(h) \in {"up", "down"} /\ (Observed(h) = "up" <=> up[h])
  BY DEF Observed, WatchInv, TypeOK
<1>3. /\ health' \in [Monitored -> {"unknown", "up", "down"}] /\ health'[h] = Observed(h)
      /\ seen' \in [Monitored -> SUBSET {"up", "down"}] /\ seen'[h] = seen[h] \cup {Observed(h)}
      /\ alert' \in [Monitored -> {"none", "offline", "recovered"}]
      /\ Transition(h) => alert'[h] = IF Observed(h) = "up" THEN "recovered" ELSE "offline"
      /\ ~Transition(h) => alert'[h] = alert[h]
      /\ \A i \in Monitored \ {h} : health'[i] = health[i] /\ seen'[i] = seen[i] /\ alert'[i] = alert[i]
  BY <1>2 DEF CheckHost, WatchInv, TypeOK
<1>4. SeenIsTold(h)'
  <2>1. SeenIsTold(h) /\ health[h] \in {"unknown", "up", "down"} /\ alert[h] \in {"none", "offline", "recovered"}
    BY DEF WatchInv, TypeOK
  <2>2. CASE Transition(h)
    <3>1. seen'[h] = {"up", "down"}
      BY <2>1, <2>2, <1>2, <1>3 DEF SeenIsTold, Transition
    <3> QED
      BY <3>1, <2>2, <1>2, <1>3 DEF SeenIsTold
  <2>3. CASE ~Transition(h)
    BY <2>1, <2>3, <1>2, <1>3 DEF SeenIsTold, Transition
  <2> QED
    BY <2>2, <2>3
<1>5. \A i \in Monitored \ {h} : SeenIsTold(i)'
  BY <1>3 DEF WatchInv, SeenIsTold
<1> QED
  BY <1>1, <1>3, <1>4, <1>5 DEF WatchInv, TypeOK, WatcherIsOwned

(* The numbers of the watchers started are new and different.              *)
LEMMA NumbersExist ==
    ASSUME NEW new, IsFiniteSet(new), started \in Nat
    PROVE  /\ Numbered(new) \in [new -> started + 1 .. started + Cardinality(new)]
           /\ \A a, b \in new : a # b => Numbered(new)[a] # Numbered(new)[b]
           /\ Cardinality(new) \in Nat
<1> DEFINE n == Cardinality(new)
           T == started + 1 .. started + n
<1>1. n \in Nat
  BY FS_CardinalityType
<1>2. IsFiniteSet(T) /\ Cardinality(T) = n
  <2>1. PICK a \in Int, b \in Int : a = started + 1 /\ b = started + n
    BY <1>1
  <2>2. IsFiniteSet(a .. b) /\ Cardinality(a .. b) = IF a > b THEN 0 ELSE b - a + 1
    BY FS_Interval
  <2> HIDE DEF n
  <2> QED
    BY <2>1, <2>2, <1>1
<1>3. ExistsBijection(new, T)
  BY <1>2, FS_SameCardinalityBij
<1>4. \E f \in [new -> T] : \A a, b \in new : a # b => f[a] # f[b]
  BY <1>3 DEF ExistsBijection, Bijection, Injection, IsInjective
<1> QED
  BY <1>1, <1>4 DEF Numbered

LEMMA ReconcileKeeps ==
    ASSUME BoundsOK, WatchInv, NEW ok \in BOOLEAN, Reconcile(ok)
    PROVE  WatchInv'
<1> DEFINE hosts == MonitoredHosts(ok)
           new == New(hosts)
           num == Numbered(new)
           W == [pc : {"none", "watch", "wait", "done"}, host : Monitored, cancelled : BOOLEAN, backoff : Nat]
           fresh(w) == [NoWatcher EXCEPT !.pc = "watch", !.host = CHOOSE h \in new : num[h] = w]
<1>1. UNCHANGED <<table, up, round, health, alert, seen>>
  BY DEF Reconcile
<1>2. hosts \subseteq Monitored /\ new \subseteq Monitored /\ IsFiniteSet(new)
  <2>1. hosts \subseteq Monitored /\ new \subseteq Monitored
    BY DEF MonitoredHosts, New, On, Monitored
  <2>2. IsFiniteSet(Monitored)
    BY FS_AddElement DEF BoundsOK, Monitored
  <2> QED
    BY <2>1, <2>2, FS_Subset
<1>3. TypeOK /\ started \in Nat /\ MaxWatchers \in Nat
  BY DEF WatchInv, TypeOK, BoundsOK
<1>4. /\ num \in [new -> started + 1 .. started + Cardinality(new)]
      /\ \A a, b \in new : a # b => num[a] # num[b]
      /\ Cardinality(new) \in Nat
  BY <1>2, <1>3, NumbersExist
<1>5. /\ started + Cardinality(new) <= MaxWatchers /\ started' = started + Cardinality(new)
      /\ map' = [h \in Monitored |-> IF h \in new THEN num[h] ELSE IF h \in Unseen(hosts) THEN 0 ELSE map[h]]
      /\ watcher' = [w \in Watchers |->
                       IF \E h \in new : num[h] = w THEN fresh(w)
                       ELSE IF w \in CancelFor(Unseen(hosts)) THEN [watcher[w] EXCEPT !.cancelled = TRUE]
                       ELSE watcher[w]]
  BY DEF Reconcile
<1>6. \A h \in new : map[h] = 0
  BY DEF New
<1> HIDE DEF hosts, new, num
<1>7. started' \in 0 .. MaxWatchers
  <2>1. PICK m \in Nat : m = Cardinality(new)
    BY <1>4
  <2>2. started' = started + m /\ started + m <= MaxWatchers
    BY <2>1, <1>5
  <2> QED
    BY <2>2, <1>3
<1>8. map' \in [Monitored -> 0 .. started']
  <2>1. \A h \in Monitored : map[h] \in 0 .. started
    BY <1>3 DEF TypeOK
  <2>2. \A h \in new : num[h] \in started + 1 .. started + Cardinality(new)
    BY <1>4
  <2>3. PICK m \in Nat : m = Cardinality(new)
    BY <1>4
  <2>4. started' = started + m /\ \A h \in new : num[h] \in started + 1 .. started + m
    BY <2>2, <2>3, <1>5
  <2>5. ASSUME NEW h \in Monitored PROVE map'[h] \in 0 .. started'
    <3>1. map'[h] = IF h \in new THEN num[h] ELSE IF h \in Unseen(hosts) THEN 0 ELSE map[h]
      BY <1>5
    <3>2. map'[h] \in 0 .. started \/ map'[h] \in started + 1 .. started + m
      BY <3>1, <2>1, <2>4, <1>3
    <3> QED
      BY <3>2, <2>4, <1>3
  <2> QED
    BY <2>5, <1>5
<1>9. ASSUME NEW w \in Watchers
      PROVE  /\ watcher'[w] \in W
             /\ watcher'[w].pc \in {"watch", "wait"} /\ ~watcher'[w].cancelled => map'[watcher'[w].host] = w
             /\ watcher'[w].backoff \in MinBackoff .. MaxBackoff
  <2>1. watcher[w] \in W /\ watcher[w].backoff \in MinBackoff .. MaxBackoff
    BY DEF WatchInv, TypeOK, WatcherIsOwned
  <2>2. CASE \E h \in new : num[h] = w
    <3>1. PICK h : h = (CHOOSE i \in new : num[i] = w)
      OBVIOUS
    <3>2. h \in new /\ num[h] = w
      BY <2>2, <3>1
    <3>3. watcher'[w] = [NoWatcher EXCEPT !.pc = "watch", !.host = h]
      BY <2>2, <3>1, <1>5
    <3>4. watcher'[w] \in W /\ watcher'[w].host = h /\ watcher'[w].backoff = MinBackoff
      BY <3>2, <3>3, <1>2 DEF NoWatcher, BoundsOK
    <3>5. map'[h] = w
      BY <3>2, <1>2, <1>5
    <3> QED
      BY <3>4, <3>5 DEF BoundsOK
  <2>3. CASE ~(\E h \in new : num[h] = w) /\ w \in CancelFor(Unseen(hosts))
    <3>1. watcher'[w] = [watcher[w] EXCEPT !.cancelled = TRUE]
      BY <2>3, <1>5
    <3> QED
      BY <3>1, <2>1
  <2>4. CASE ~(\E h \in new : num[h] = w) /\ w \notin CancelFor(Unseen(hosts))
    <3>1. watcher'[w] = watcher[w]
      BY <2>4, <1>5
    <3>2. ASSUME watcher[w].pc \in {"watch", "wait"}, ~watcher[w].cancelled
          PROVE  map'[watcher[w].host] = w
      <4>1. PICK h \in Monitored : h = watcher[w].host
        BY <2>1
      <4>2. map[h] = w /\ w # 0
        BY <4>1, <3>2 DEF WatchInv, WatcherIsOwned, Watchers
      <4>3. h \notin Unseen(hosts) /\ h \notin new
        BY <4>2, <2>4, <1>6 DEF CancelFor
      <4> QED
        BY <4>1, <4>2, <4>3, <1>5
    <3> QED
      BY <3>1, <3>2, <2>1
  <2> QED
    BY <2>2, <2>3, <2>4
<1>10. TypeOK'
  <2>1. watcher' \in [Watchers -> W]
    BY <1>9, <1>5
  <2> QED
    BY <2>1, <1>1, <1>3, <1>7, <1>8 DEF TypeOK
<1>11. WatcherIsOwned'
  BY <1>9 DEF WatcherIsOwned
<1> QED
  BY <1>1, <1>10, <1>11 DEF WatchInv, SeenIsTold

LEMMA DoubledStays ==
    ASSUME BoundsOK, NEW b \in MinBackoff .. MaxBackoff
    PROVE  Doubled(b) \in MinBackoff .. MaxBackoff
  BY DEF BoundsOK, Doubled

LEMMA WatcherMoves ==
    ASSUME BoundsOK, WatchInv, NEW w \in Watchers, Retry(w) \/ \E long \in BOOLEAN : StreamEnds(w, long)
    PROVE  WatchInv'
<1> DEFINE W == [pc : {"none", "watch", "wait", "done"}, host : Monitored, cancelled : BOOLEAN, backoff : Nat]
<1>1. UNCHANGED <<table, up, round, health, map, started, alert, seen>>
  BY DEF Retry, StreamEnds
<1>2. watcher \in [Watchers -> W] /\ watcher[w] \in W /\ watcher[w].backoff \in MinBackoff .. MaxBackoff
      /\ watcher[w].pc \in {"watch", "wait"}
  BY DEF WatchInv, TypeOK, WatcherIsOwned, Retry, StreamEnds
<1>3. PICK p \in {"watch", "wait", "done"}, b \in MinBackoff .. MaxBackoff :
          /\ p = "done" \/ ~watcher[w].cancelled
          /\ watcher' = [watcher EXCEPT ![w] = [watcher[w] EXCEPT !.pc = p, !.backoff = b]]
  <2>1. \A p : [watcher[w] EXCEPT !.pc = p] = [watcher[w] EXCEPT !.pc = p, !.backoff = watcher[w].backoff]
    BY <1>2
  <2>2. CASE Retry(w)
    <3>1. PICK b \in MinBackoff .. MaxBackoff : b = Doubled(watcher[w].backoff)
      BY <1>2, DoubledStays
    <3>2. CASE watcher[w].cancelled
      BY <3>2, <2>1, <2>2, <1>2 DEF Retry
    <3>3. CASE ~watcher[w].cancelled
      <4>1. watcher' = [watcher EXCEPT ![w] = [watcher[w] EXCEPT !.pc = "watch", !.backoff = Doubled(watcher[w].backoff)]]
        BY <3>3, <2>2 DEF Retry
      <4>2. watcher' = [watcher EXCEPT ![w] = [watcher[w] EXCEPT !.pc = "watch", !.backoff = b]]
        BY <4>1, <3>1
      <4> QED
        BY <4>2, <3>3
    <3> QED
      BY <3>2, <3>3
  <2>3. ASSUME NEW long \in BOOLEAN, StreamEnds(w, long)
        PROVE  \E p \in {"watch", "wait", "done"}, b \in MinBackoff .. MaxBackoff :
                   /\ p = "done" \/ ~watcher[w].cancelled
                   /\ watcher' = [watcher EXCEPT ![w] = [watcher[w] EXCEPT !.pc = p, !.backoff = b]]
    <3>1. PICK b \in MinBackoff .. MaxBackoff : b = IF long THEN MinBackoff ELSE watcher[w].backoff
      BY <1>2 DEF BoundsOK
    <3>2. CASE watcher[w].cancelled
      <4>1. watcher' = [watcher EXCEPT ![w] = [watcher[w] EXCEPT !.pc = "done"]]
        BY <3>2, <2>3 DEF StreamEnds
      <4>2. watcher' = [watcher EXCEPT ![w] = [watcher[w] EXCEPT !.pc = "done", !.backoff = watcher[w].backoff]]
        BY <4>1, <2>1
      <4> QED
        BY <4>2, <1>2
    <3>3. CASE ~watcher[w].cancelled
      <4>1. watcher' = [watcher EXCEPT ![w] = [watcher[w] EXCEPT !.pc = "wait",
                                                 !.backoff = IF long THEN MinBackoff ELSE watcher[w].backoff]]
        BY <3>3, <2>3 DEF StreamEnds
      <4>2. watcher' = [watcher EXCEPT ![w] = [watcher[w] EXCEPT !.pc = "wait", !.backoff = b]]
        BY <4>1, <3>1
      <4> QED
        BY <4>2, <3>3
    <3> QED
      BY <3>2, <3>3
  <2> QED
    BY <2>2, <2>3
<1> DEFINE new == [watcher[w] EXCEPT !.pc = p, !.backoff = b]
<1>4. /\ new \in W /\ new.host = watcher[w].host /\ new.backoff \in MinBackoff .. MaxBackoff
      /\ new.pc \in {"watch", "wait"} => ~watcher[w].cancelled
  <2>1. new.backoff = b /\ new.pc = p /\ new.host = watcher[w].host
    BY <1>2
  <2>2. new \in W
    <3>1. b \in Nat
      BY DEF BoundsOK
    <3>2. \A r \in W : [r EXCEPT !.pc = p, !.backoff = b] \in W
      BY <3>1
    <3> QED
      BY <3>2, <1>2
  <2> QED
    BY <2>1, <2>2, <1>3
<1> HIDE DEF new
<1>5. watcher' \in [Watchers -> W] /\ watcher'[w] = new /\ \A v \in Watchers \ {w} : watcher'[v] = watcher[v]
  BY <1>2, <1>3, <1>4 DEF new
<1>6. TypeOK'
  BY <1>1, <1>5 DEF WatchInv, TypeOK
<1>7. WatcherIsOwned'
  <2>1. ASSUME new.pc \in {"watch", "wait"} PROVE map[watcher[w].host] = w
    BY <2>1, <1>2, <1>4 DEF WatchInv, WatcherIsOwned
  <2> QED
    BY <2>1, <1>1, <1>4, <1>5 DEF WatchInv, WatcherIsOwned
<1> QED
  BY <1>1, <1>6, <1>7 DEF WatchInv, SeenIsTold

(* The inductive invariant of the health loop and the watchers.            *)
THEOREM WatchInvariance == ASSUME BoundsOK PROVE Spec => []WatchInv
<1>1. Init => WatchInv
  BY WatchInit
<1>2. WatchInv /\ [Next]_wvars => WatchInv'
  <2> SUFFICES ASSUME WatchInv, [Next]_wvars PROVE WatchInv'
    OBVIOUS
  <2>1. CASE UNCHANGED wvars
    BY <2>1 DEF wvars, WatchInv, TypeOK, WatcherIsOwned, SeenIsTold
  <2>2. CASE \E ok \in BOOLEAN : StartRound(ok) \/ Reconcile(ok)
    BY <2>2, StartRoundKeeps, ReconcileKeeps
  <2>3. CASE \E h \in Monitored : CheckHost(h)
    BY <2>3, CheckHostKeeps
  <2>4. ASSUME NEW h \in Monitored, Flip(h) PROVE WatchInv'
    <3>1. up' \in [Monitored -> BOOLEAN]
      BY <2>4 DEF Flip, WatchInv, TypeOK
    <3> QED
      BY <2>4, <3>1 DEF Flip, WatchInv, TypeOK, WatcherIsOwned, SeenIsTold
  <2>5. CASE \E w \in Watchers : Retry(w) \/ \E long \in BOOLEAN : StreamEnds(w, long)
    BY <2>5, WatcherMoves
  <2>6. ASSUME NEW h \in Hosts, NEW to \in {"on", "off", "gone"}, EditTable(h, to) PROVE WatchInv'
    <3>1. table' \in [Hosts -> {"on", "off", "gone"}]
      BY <2>6 DEF EditTable, WatchInv, TypeOK
    <3> QED
      BY <2>6, <3>1 DEF EditTable, WatchInv, TypeOK, WatcherIsOwned, SeenIsTold
  <2> QED
    BY <2>1, <2>2, <2>3, <2>4, <2>5, <2>6 DEF Next
<1> QED
  BY <1>1, <1>2, PTL DEF Spec

(* Across rounds that skip a host, disabled and deleted hosts, readings of *)
(* the table that fail and streams that break, the last alert of a host is *)
(* what its health shows, and a watcher nobody cancelled is the one its    *)
(* host's entry names.                                                     *)
THEOREM WatchStaysTrue == ASSUME BoundsOK PROVE Spec => []WatchFollowsHosts
  BY WatchImplies, WatchInvariance, PTL

-----------------------------------------------------------------------------
(***************************************************************************)
(* Backup jobs.                                                            *)
(***************************************************************************)
WorkTypes == {B!Idle} \cup B!Underway \cup B!Ending
EditTypes == {B!Idle} \cup B!Updating \cup B!Deleting

(* The workers that hold a place in backupSem.                             *)
Holders == {w \in B!Workers : work[w].pc \in {"create", "wait", "remove"}}

(* A scheduled run resets both clocks, another only the one DueBackupJobs  *)
(* looks at.                                                               *)
ClocksAgree ==
    \A j \in Jobs : job[j].age <= job[j].sched /\ (job[j].last = 0 => job[j].sched = Interval)

(* What the tick listed is still due when its turn comes, and the job the  *)
(* scheduler is running is not listed.                                     *)
ListedIsDue ==
    /\ \A j \in due : job[j].sched = Interval
    /\ work[B!Scheduler].pc # "idle" => work[B!Scheduler].job \notin due

HelperHasWorker ==
    \A r \in helpers \ orphans : \E w \in B!Workers : work[w].pc \in {"wait", "remove"} /\ work[w].run = r

JobsInv ==
    /\ B!TypeOK /\ B!BadgeMatchesHistory /\ B!ScheduleKeepsInterval
    /\ ClocksAgree /\ ListedIsDue
    /\ HelperHasWorker /\ Cardinality(Holders) <= Slots

-----------------------------------------------------------------------------
LEMMA WorkPc ==
    ASSUME NEW x \in WorkTypes
    PROVE  /\ x.pc = "idle" <=> x = B!Idle
           /\ x.pc \in {"resolve", "slot", "create", "wait"} <=> x \in B!Underway
           /\ x.pc \in {"remove", "record"} <=> x \in B!Ending
           /\ x # B!Idle => x.job \in Jobs /\ x.run \in 1 .. MaxRuns
<1>1. B!Idle.pc = "idle"
  BY DEF B!Idle
<1>2. \A y \in B!Underway : y.pc \in {"resolve", "slot", "create", "wait"} /\ y.job \in Jobs /\ y.run \in 1 .. MaxRuns
  BY DEF B!Underway
<1>3. \A y \in B!Ending : y.pc \in {"remove", "record"} /\ y.job \in Jobs /\ y.run \in 1 .. MaxRuns
  BY DEF B!Ending
<1> QED
  BY <1>1, <1>2, <1>3 DEF WorkTypes

LEMMA EditPc ==
    ASSUME NEW x \in EditTypes
    PROVE  /\ x.pc = "update" <=> x \in B!Updating
           /\ x.pc = "delete" <=> x \in B!Deleting
<1>1. B!Idle.pc = "idle"
  BY DEF B!Idle
<1>2. \A y \in B!Updating : y.pc = "update"
  BY DEF B!Updating
<1>3. \A y \in B!Deleting : y.pc = "delete"
  BY DEF B!Deleting
<1> QED
  BY <1>1, <1>2, <1>3 DEF EditTypes

LEMMA WorkToIs ==
    ASSUME B!TypeOK, NEW w \in B!Workers, NEW to, B!WorkTo(w, to)
    PROVE  /\ work'[w] = to
           /\ \A v \in B!Workers : v # w => work'[v] = work[v]
           /\ to \in WorkTypes => work' \in [B!Workers -> WorkTypes]
  BY DEF B!TypeOK, WorkTypes, B!WorkTo

LEMMA EditToIs ==
    ASSUME B!TypeOK, NEW e \in Editors, NEW to \in EditTypes, B!EditTo(e, to)
    PROVE  edit' \in [Editors -> EditTypes]
  BY DEF B!TypeOK, EditTypes, B!EditTo

LEMMA JobTypesHold ==
    ASSUME B!BoundsOK, B!TypeOK
    PROVE  /\ \A w \in B!Workers : work[w] \in WorkTypes
           /\ \A e \in Editors : edit[e] \in EditTypes
           /\ B!Scheduler \in B!Workers
           /\ \A j \in Jobs : job[j] \in B!JobType /\ runs[j] \in Seq(B!RunType)
           /\ Interval \in Nat /\ MaxRuns \in Nat /\ Slots \in Nat /\ MaxRunsKept \in Nat \ {0}
  BY DEF B!TypeOK, WorkTypes, EditTypes, B!Workers, B!BoundsOK

LEMMA WorkersAreFinite == ASSUME B!BoundsOK PROVE IsFiniteSet(B!Workers)
  BY FS_AddElement, SizesAgree DEF B!BoundsOK, B!Workers

(* Fewer or the same holders stay within the slots.                        *)
LEMMA HoldersShrink ==
    ASSUME B!BoundsOK, Cardinality(Holders) <= Slots, Holders' \subseteq Holders
    PROVE  Cardinality(Holders)' <= Slots
<1>1. IsFiniteSet(Holders)
  BY WorkersAreFinite, FS_Subset DEF Holders
<1>2. Cardinality(Holders') <= Cardinality(Holders) /\ IsFiniteSet(Holders')
  BY <1>1, FS_Subset
<1>3. Cardinality(Holders) \in Nat /\ Cardinality(Holders') \in Nat
  BY <1>1, <1>2, FS_CardinalityType
<1> QED
  BY <1>2, <1>3 DEF B!BoundsOK

(* A helper has its own holder, so the slots bound the helpers.            *)
LEMMA HelpersAreFew ==
    ASSUME B!BoundsOK, HelperHasWorker, Cardinality(Holders) <= Slots
    PROVE  Cardinality(helpers \ orphans) <= Slots
<1> DEFINE H == helpers \ orphans
           f == [r \in H |-> CHOOSE w \in B!Workers : work[w].pc \in {"wait", "remove"} /\ work[w].run = r]
<1>1. \A r \in H : f[r] \in Holders /\ work[f[r]].run = r
  BY DEF HelperHasWorker, Holders
<1>2. f \in [H -> Holders] /\ \A a, b \in H : f[a] = f[b] => a = b
  BY <1>1
<1> HIDE DEF f, H
<1>3. f \in Injection(H, Holders)
  BY <1>2 DEF Injection, IsInjective
<1>4. IsFiniteSet(Holders)
  BY WorkersAreFinite, FS_Subset DEF Holders
<1>5. IsFiniteSet(H) /\ Cardinality(H) <= Cardinality(Holders)
  BY <1>3, <1>4, FS_Injection
<1>6. Cardinality(H) \in Nat /\ Cardinality(Holders) \in Nat
  BY <1>4, <1>5, FS_CardinalityType
<1>7. Cardinality(H) <= Slots
  BY <1>5, <1>6 DEF B!BoundsOK
<1> QED
  BY <1>7 DEF H

LEMMA JobsInit == ASSUME B!BoundsOK, B!Init PROVE JobsInv
<1>1. \A j \in Jobs : job[j] = [exists |-> TRUE, enabled |-> TRUE, env |-> B!NoEnv, last |-> 0,
                               ok |-> FALSE, age |-> Interval, sched |-> Interval]
  BY DEF B!Init
<1>2. [exists |-> TRUE, enabled |-> TRUE, env |-> B!NoEnv, last |-> 0,
       ok |-> FALSE, age |-> Interval, sched |-> Interval] \in B!JobType
  BY DEF B!JobType, B!BoundsOK
<1>3. \A w \in B!Workers : work[w] = B!Idle /\ work[w].pc = "idle"
  BY DEF B!Init, B!Idle
<1>4. <<>> \in Seq(B!RunType) /\ Len(<<>>) = 0 /\ MaxRunsKept \in Nat
  BY DEF B!BoundsOK
<1>5. runs \in [Jobs -> Seq(B!RunType)] /\ \A j \in Jobs : runs[j] = <<>> /\ Len(runs[j]) <= MaxRunsKept
  BY <1>4 DEF B!Init
<1>6. B!TypeOK
  <2>1. job \in [Jobs -> B!JobType]
    BY <1>2 DEF B!Init
  <2>2. 1 \in 1 .. MaxRuns + 1
    BY DEF B!BoundsOK
  <2> QED
    BY <2>1, <2>2, <1>5 DEF B!Init, B!TypeOK
<1>7. Cardinality(Holders) <= Slots
  <2>1. Holders = {}
    BY <1>3 DEF Holders
  <2> QED
    BY <2>1, FS_EmptySet DEF B!BoundsOK
<1>8. ClocksAgree
  BY <1>1 DEF ClocksAgree, B!BoundsOK
<1> QED
  BY <1>3, <1>5, <1>6, <1>7, <1>8
     DEF B!Init, JobsInv, B!BadgeMatchesHistory, B!ScheduleKeepsInterval, ListedIsDue, HelperHasWorker, B!Workers

-----------------------------------------------------------------------------
LEMMA TickKeeps == ASSUME B!BoundsOK, JobsInv, B!Tick PROVE JobsInv'
<1>1. UNCHANGED <<job, runs, work, edit, helpers, nextRun, jobEdits, lostEnv, orphans, early>>
  BY DEF B!Tick
<1>2. work[B!Scheduler].pc = "idle" /\ due' \subseteq Jobs
  BY DEF B!Tick, B!AtPc
<1>3. ASSUME NEW j \in due' PROVE job[j].sched = Interval
  <2>1. j \in Jobs /\ (job[j].last = 0 \/ job[j].age >= Interval)
    BY <1>3 DEF B!Tick, B!Due
  <2>2. job[j] \in B!JobType /\ Interval \in Nat
    BY <2>1, JobTypesHold DEF JobsInv
  <2>3. job[j].age \in 0 .. Interval /\ job[j].sched \in 0 .. Interval
    BY <2>2 DEF B!JobType
  <2> QED
    BY <2>1, <2>2, <2>3 DEF JobsInv, ClocksAgree
<1>4. Holders' = Holders
  BY <1>1 DEF Holders
<1>5. B!TypeOK' /\ B!BadgeMatchesHistory' /\ B!ScheduleKeepsInterval' /\ ClocksAgree' /\ HelperHasWorker'
  BY <1>1, <1>2 DEF JobsInv, B!TypeOK, B!BadgeMatchesHistory, B!ScheduleKeepsInterval, ClocksAgree,
     HelperHasWorker
<1> QED
  BY <1>1, <1>2, <1>3, <1>4, <1>5 DEF JobsInv, ListedIsDue

(* A run begins.                                                           *)
LEMMA StartKeeps ==
    ASSUME B!BoundsOK, JobsInv, NEW j \in Jobs, NEW w \in B!Workers, (B!RunDue(j) /\ w = B!Scheduler) \/ B!TriggerNow(w, j)
    PROVE  JobsInv'
<1>1. UNCHANGED <<job, runs, edit, helpers, jobEdits, lostEnv, orphans>> /\ work[w].pc = "idle" /\ B!Start(w, j)
  BY DEF B!RunDue, B!TriggerNow, B!AtPc
<1>2. B!TypeOK
  BY DEF JobsInv
<1>3. nextRun \in 1 .. MaxRuns /\ nextRun' \in 1 .. MaxRuns + 1
  BY <1>1, <1>2 DEF B!Start, B!TypeOK, B!BoundsOK
<1>4. PICK to : to = [pc |-> "resolve", job |-> j, run |-> nextRun]
  OBVIOUS
<1>5. to \in WorkTypes /\ to.pc = "resolve" /\ to.job = j
  BY <1>3, <1>4 DEF WorkTypes, B!Underway
<1>6. /\ work'[w] = to /\ work' \in [B!Workers -> WorkTypes]
      /\ \A v \in B!Workers : v # w => work'[v] = work[v]
  <2>1. B!WorkTo(w, to)
    BY <1>1, <1>4 DEF B!Start
  <2> QED
    BY <2>1, <1>2, <1>5, WorkToIs
<1>7. early' = FALSE /\ due' \subseteq due /\ (w = B!Scheduler => j \notin due')
  <2>1. CASE B!RunDue(j) /\ w = B!Scheduler
    <3>1. job[j].sched = Interval /\ early = FALSE
      BY <2>1, <1>2 DEF B!RunDue, JobsInv, ListedIsDue, B!ScheduleKeepsInterval, B!TypeOK
    <3>2. ~(job[j].sched < Interval)
      BY <3>1 DEF B!BoundsOK
    <3> QED
      BY <2>1, <3>1, <3>2 DEF B!RunDue
  <2>2. CASE B!TriggerNow(w, j)
    BY <2>2, <1>2 DEF B!TriggerNow, JobsInv, B!ScheduleKeepsInterval, B!TypeOK
  <2> QED
    BY <2>1, <2>2
<1>8. B!TypeOK'
  BY <1>1, <1>2, <1>3, <1>6, <1>7 DEF B!TypeOK, WorkTypes
<1>9. B!BadgeMatchesHistory' /\ B!ScheduleKeepsInterval' /\ ClocksAgree'
  BY <1>1, <1>7 DEF JobsInv, B!BadgeMatchesHistory, B!ScheduleKeepsInterval, ClocksAgree
<1>10. ListedIsDue'
  <2>1. B!Scheduler \in B!Workers
    BY DEF B!Workers
  <2> QED
    BY <2>1, <1>1, <1>5, <1>6, <1>7 DEF JobsInv, ListedIsDue
<1>11. HelperHasWorker'
  BY <1>1, <1>6 DEF JobsInv, HelperHasWorker
<1>12. Holders' \subseteq Holders
  BY <1>5, <1>6 DEF Holders
<1> QED
  BY <1>8, <1>9, <1>10, <1>11, <1>12, HoldersShrink DEF JobsInv

(* A worker moves on with its run, which ends or begins to use a helper.   *)
LEMMA MoveKeeps ==
    ASSUME B!BoundsOK, JobsInv, NEW w \in B!Workers, NEW to \in WorkTypes, B!WorkTo(w, to),
           work[w].pc # "idle", to.pc # "idle", to.job = work[w].job, to.run = work[w].run,
           UNCHANGED <<job, runs, due, edit, nextRun, orphans, early>>,
           helpers' \subseteq 1 .. MaxRuns,
           \A r \in helpers' : (r \in helpers /\ (r # work[w].run \/ work[w].pc # "remove"))
                               \/ (r = work[w].run /\ to.pc \in {"wait", "remove"}),
           work[w].pc = "wait" => to.pc = "remove",
           to.pc \in {"create", "wait", "remove"} => work[w].pc \in {"create", "wait", "remove"}
                                                     \/ (work[w].pc = "slot" /\ B!SlotFree)
    PROVE  JobsInv'
<1>1. B!TypeOK
  BY DEF JobsInv
<1>2. /\ work'[w] = to /\ work' \in [B!Workers -> WorkTypes]
      /\ \A v \in B!Workers : v # w => work'[v] = work[v]
  BY <1>1, WorkToIs
<1>3. B!TypeOK'
  BY <1>1, <1>2 DEF B!TypeOK, WorkTypes
<1>4. B!BadgeMatchesHistory' /\ B!ScheduleKeepsInterval' /\ ClocksAgree'
  BY DEF JobsInv, B!BadgeMatchesHistory, B!ScheduleKeepsInterval, ClocksAgree
<1>5. ListedIsDue'
  <2>1. B!Scheduler \in B!Workers
    BY DEF B!Workers
  <2> QED
    BY <2>1, <1>2 DEF JobsInv, ListedIsDue
<1>6. HelperHasWorker'
  <2>1. ASSUME NEW r \in helpers' \ orphans
        PROVE  \E v \in B!Workers : work'[v].pc \in {"wait", "remove"} /\ work'[v].run = r
    <3>1. CASE r = work[w].run /\ to.pc \in {"wait", "remove"}
      BY <3>1, <1>2
    <3>2. CASE r \in helpers /\ (r # work[w].run \/ work[w].pc # "remove") /\ ~(r = work[w].run /\ to.pc \in {"wait", "remove"})
      <4>1. PICK v \in B!Workers : work[v].pc \in {"wait", "remove"} /\ work[v].run = r
        BY <3>2, <2>1 DEF JobsInv, HelperHasWorker
      <4>2. v # w
        BY <3>2, <4>1
      <4> QED
        BY <4>1, <4>2, <1>2
    <3> QED
      BY <3>1, <3>2, <2>1
  <2> QED
    BY <2>1 DEF HelperHasWorker
<1>7. Cardinality(Holders)' <= Slots
  <2>1. CASE work[w].pc = "slot" /\ B!SlotFree
    <3>1. Cardinality(Holders) < Slots
      BY <2>1, SizesAgree DEF B!SlotFree, Holders
    <3>2. IsFiniteSet(Holders)
      BY WorkersAreFinite, FS_Subset DEF Holders
    <3>3. /\ IsFiniteSet(Holders \cup {w}) /\ Cardinality(Holders) \in Nat
          /\ Cardinality(Holders \cup {w}) = IF w \in Holders THEN Cardinality(Holders) ELSE Cardinality(Holders) + 1
      BY <3>2, FS_AddElement, FS_CardinalityType
    <3>4. Holders' \subseteq Holders \cup {w}
      BY <1>2 DEF Holders
    <3>5. Cardinality(Holders') <= Cardinality(Holders \cup {w}) /\ IsFiniteSet(Holders')
      BY <3>3, <3>4, FS_Subset
    <3>6. Cardinality(Holders') \in Nat
      BY <3>5, FS_CardinalityType
    <3> QED
      BY <3>1, <3>3, <3>5, <3>6 DEF B!BoundsOK
  <2>2. CASE ~(work[w].pc = "slot" /\ B!SlotFree)
    <3>1. Holders' \subseteq Holders
      BY <2>2, <1>2 DEF Holders
    <3> QED
      BY <3>1, HoldersShrink DEF JobsInv
  <2> QED
    BY <2>1, <2>2
<1> QED
  BY <1>3, <1>4, <1>5, <1>6, <1>7 DEF JobsInv

LEMMA RunMoves ==
    ASSUME B!BoundsOK, JobsInv, NEW w \in B!Workers,
           \/ \E found \in BOOLEAN : B!Resolve(w, found)
           \/ B!Acquire(w)
           \/ \E b \in BOOLEAN : B!CreateHelper(w, b) \/ B!Finish(w, b)
           \/ B!RemoveHelper(w)
    PROVE  JobsInv'
<1>1. UNCHANGED <<job, runs, due, edit, nextRun, orphans, early>>
  BY DEF B!Resolve, B!Acquire, B!CreateHelper, B!Finish, B!RemoveHelper
<1>2. B!TypeOK /\ work[w] \in WorkTypes /\ helpers \subseteq 1 .. MaxRuns
  BY JobTypesHold DEF JobsInv, B!TypeOK
<1>3. work[w].pc \in {"resolve", "slot", "create", "wait", "remove"}
  BY DEF B!Resolve, B!Acquire, B!CreateHelper, B!Finish, B!RemoveHelper, B!AtPc
<1>4. PICK j \in Jobs, r \in 1 .. MaxRuns : j = work[w].job /\ r = work[w].run
  BY <1>2, <1>3, WorkPc DEF B!Idle
<1>5. ASSUME NEW pc \in {"remove", "record"}, NEW ok \in BOOLEAN
      PROVE  /\ [pc |-> pc, job |-> j, run |-> r, ok |-> ok] \in WorkTypes
             /\ [pc |-> pc, job |-> j, run |-> r, ok |-> ok].pc = pc
             /\ [pc |-> pc, job |-> j, run |-> r, ok |-> ok].job = j
             /\ [pc |-> pc, job |-> j, run |-> r, ok |-> ok].run = r
  BY DEF WorkTypes, B!Ending
<1>6. ASSUME NEW pc \in {"slot", "create", "wait"}, work[w] \in B!Underway
      PROVE  /\ [work[w] EXCEPT !.pc = pc] \in WorkTypes /\ [work[w] EXCEPT !.pc = pc].pc = pc
             /\ [work[w] EXCEPT !.pc = pc].job = j /\ [work[w] EXCEPT !.pc = pc].run = r
  BY <1>4, <1>6 DEF WorkTypes, B!Underway
<1>7. CASE \E found \in BOOLEAN : B!Resolve(w, found)
  <2>1. work[w].pc = "resolve" /\ work[w] \in B!Underway /\ helpers' = helpers
    BY <1>2, <1>7, WorkPc DEF B!Resolve, B!AtPc
  <2>2. PICK to \in WorkTypes : B!WorkTo(w, to) /\ to.pc \in {"slot", "record"} /\ to.job = j /\ to.run = r
    BY <1>4, <1>5, <1>6, <1>7, <2>1 DEF B!Resolve
  <2> QED
    BY <2>1, <2>2, <1>1, <1>2, <1>4, MoveKeeps
<1>8. CASE B!Acquire(w)
  <2>1. work[w].pc = "slot" /\ work[w] \in B!Underway /\ helpers' = helpers
    BY <1>2, <1>8, WorkPc DEF B!Acquire, B!AtPc
  <2>2. CASE B!SlotFree
    <3>1. PICK to \in WorkTypes : B!WorkTo(w, to) /\ to.pc = "create" /\ to.job = j /\ to.run = r
      BY <1>6, <1>8, <2>1, <2>2 DEF B!Acquire
    <3> QED
      BY <3>1, <2>1, <2>2, <1>1, <1>2, <1>4, MoveKeeps
  <2>3. CASE ~B!SlotFree
    <3>1. PICK to \in WorkTypes : B!WorkTo(w, to) /\ to.pc = "record" /\ to.job = j /\ to.run = r
      BY <1>4, <1>5, <1>8, <2>3 DEF B!Acquire
    <3> QED
      BY <3>1, <2>1, <1>1, <1>2, <1>4, MoveKeeps
  <2> QED
    BY <2>2, <2>3
<1>9. CASE B!CreateHelper(w, TRUE)
  <2>1. work[w].pc = "create" /\ work[w] \in B!Underway /\ helpers' = helpers \cup {r}
    BY <1>2, <1>4, <1>9, WorkPc DEF B!CreateHelper, B!AtPc
  <2>2. PICK to \in WorkTypes : B!WorkTo(w, to) /\ to.pc = "wait" /\ to.job = j /\ to.run = r
    BY <1>6, <1>9, <2>1 DEF B!CreateHelper
  <2> QED
    BY <2>1, <2>2, <1>1, <1>2, <1>4, MoveKeeps
<1>10. CASE B!CreateHelper(w, FALSE)
  <2>1. work[w].pc = "create" /\ work[w] \in B!Underway /\ helpers' = helpers
    BY <1>2, <1>10, WorkPc DEF B!CreateHelper, B!AtPc
  <2>2. PICK to \in WorkTypes : B!WorkTo(w, to) /\ to.pc = "record" /\ to.job = j /\ to.run = r
    BY <1>4, <1>5, <1>10 DEF B!CreateHelper
  <2> QED
    BY <2>1, <2>2, <1>1, <1>2, <1>4, MoveKeeps
<1>11. ASSUME NEW b \in BOOLEAN, B!Finish(w, b) PROVE JobsInv'
  <2>1. work[w].pc = "wait" /\ helpers' = helpers
    BY <1>11 DEF B!Finish, B!AtPc
  <2>2. PICK to \in WorkTypes : B!WorkTo(w, to) /\ to.pc = "remove" /\ to.job = j /\ to.run = r
    BY <1>4, <1>5, <1>11 DEF B!Finish
  <2> QED
    BY <2>1, <2>2, <1>1, <1>2, <1>4, MoveKeeps
<1>12. CASE B!RemoveHelper(w)
  <2>1. work[w].pc = "remove" /\ work[w] \in B!Ending /\ helpers' = helpers \ {r}
    BY <1>2, <1>4, <1>12, WorkPc DEF B!RemoveHelper, B!HelpersAfter, B!AtPc
  <2>2. PICK to : to = [work[w] EXCEPT !.pc = "record"]
    OBVIOUS
  <2>3. to \in WorkTypes /\ to.pc = "record" /\ to.job = j /\ to.run = r /\ B!WorkTo(w, to)
    BY <1>4, <1>12, <2>1, <2>2 DEF B!RemoveHelper, WorkTypes, B!Ending
  <2> QED
    BY <2>1, <2>3, <1>1, <1>2, <1>4, MoveKeeps
<1> QED
  BY <1>7, <1>8, <1>9, <1>10, <1>11, <1>12

-----------------------------------------------------------------------------
(* What pruning keeps of a history that has just grown.                    *)
LEMMA PruneKeepsLast ==
    ASSUME B!BoundsOK, NEW s \in Seq(B!RunType), NEW r \in B!RunType
    PROVE  /\ B!Prune(Append(s, r)) \in Seq(B!RunType)
           /\ Len(B!Prune(Append(s, r))) <= MaxRunsKept
           /\ B!Prune(Append(s, r))[Len(B!Prune(Append(s, r)))] = r
<1>1. PICK t : t = Append(s, r)
  OBVIOUS
<1>2. t \in Seq(B!RunType) /\ Len(t) \in Nat \ {0} /\ t[Len(t)] = r
  <2>1. /\ t \in Seq(B!RunType) /\ Len(t) = Len(s) + 1 /\ t[Len(s) + 1] = r /\ Len(s) \in Nat
    BY <1>1, AppendProperties, LenProperties
  <2> QED
    BY <2>1
<1>3. MaxRunsKept \in Nat \ {0}
  BY DEF B!BoundsOK
<1>4. CASE Len(t) <= MaxRunsKept
  BY <1>1, <1>2, <1>4 DEF B!Prune
<1>5. CASE ~(Len(t) <= MaxRunsKept)
  <2>1. PICK m \in Nat : m = Len(t) - MaxRunsKept + 1 /\ m >= 1 /\ m <= Len(t)
    <3>1. PICK n \in Nat, k \in Nat \ {0} : n = Len(t) /\ k = MaxRunsKept /\ ~(n <= k)
      BY <1>2, <1>3, <1>5
    <3>2. n - k + 1 \in Nat /\ n - k + 1 >= 1 /\ n - k + 1 <= n
      BY <3>1
    <3> QED
      BY <3>1, <3>2
  <2>2. PICK u : u = SubSeq(t, m, Len(t))
    OBVIOUS
  <2>3. u \in Seq(B!RunType) /\ Len(u) = Len(t) - m + 1
    BY <2>1, <2>2, <1>2
  <2>4. Len(u) = MaxRunsKept /\ u[Len(u)] = t[Len(t)]
    BY <2>1, <2>2, <2>3, <1>2, <1>3
  <2>5. B!Prune(Append(s, r)) = u
    BY <2>1, <2>2, <1>1, <1>5 DEF B!Prune
  <2> QED
    BY <2>3, <2>4, <2>5, <1>2, <1>3
<1> QED
  BY <1>4, <1>5

LEMMA RecordKeeps ==
    ASSUME B!BoundsOK, JobsInv, NEW w \in B!Workers, B!RecordBackupRun(w)
    PROVE  JobsInv'
<1>1. UNCHANGED <<due, edit, helpers, nextRun, orphans, early>> /\ work[w].pc = "record"
  BY DEF B!RecordBackupRun, B!AtPc
<1>2. B!TypeOK /\ work[w] \in WorkTypes
  BY JobTypesHold DEF JobsInv
<1>3. work[w] \in B!Ending
  BY <1>1, <1>2, WorkPc
<1>4. PICK j \in Jobs, id \in 1 .. MaxRuns, ok \in BOOLEAN : j = work[w].job /\ id = work[w].run /\ ok = work[w].ok
  BY <1>3 DEF B!Ending
<1>5. PICK r : r = [id |-> id, ok |-> ok]
  OBVIOUS
<1>6. r \in B!RunType /\ r.id = id /\ r.ok = ok
  BY <1>5 DEF B!RunType
<1>7. B!Idle \in WorkTypes /\ B!Idle.pc = "idle"
  BY DEF B!Idle, WorkTypes
<1>8. /\ work'[w] = B!Idle /\ work' \in [B!Workers -> WorkTypes]
      /\ \A v \in B!Workers : v # w => work'[v] = work[v]
  <2>1. B!WorkTo(w, B!Idle)
    BY DEF B!RecordBackupRun
  <2> QED
    BY <2>1, <1>2, <1>7, WorkToIs
<1>9. /\ job[j].exists => /\ runs' = [runs EXCEPT ![j] = B!Prune(Append(runs[j], r))]
                          /\ job' = [job EXCEPT ![j] = B!Ran(job[j], r, w = B!Scheduler)]
      /\ ~job[j].exists => UNCHANGED <<runs, job>>
  BY <1>4, <1>5 DEF B!RecordBackupRun, B!Records
<1>10. /\ Interval \in Nat /\ 0 \in 0 .. Interval /\ id \in 0 .. MaxRuns /\ id # 0
       /\ \A i \in Jobs : job[i] \in B!JobType /\ runs[i] \in Seq(B!RunType)
  BY <1>2, JobTypesHold
<1>11. PICK q : q = B!Ran(job[j], r, w = B!Scheduler)
  OBVIOUS
<1>12. /\ q \in B!JobType /\ q.last = id /\ q.ok = ok /\ q.age = 0 /\ q.exists = job[j].exists
       /\ w # B!Scheduler => q.sched = job[j].sched
       /\ q.sched \in 0 .. Interval
  <2>1. ASSUME NEW x \in B!JobType, NEW s \in 0 .. Interval
        PROVE  /\ [x EXCEPT !.last = id, !.ok = ok, !.age = 0, !.sched = s] \in B!JobType
               /\ [x EXCEPT !.last = id, !.ok = ok, !.age = 0, !.sched = s].last = id
               /\ [x EXCEPT !.last = id, !.ok = ok, !.age = 0, !.sched = s].ok = ok
               /\ [x EXCEPT !.last = id, !.ok = ok, !.age = 0, !.sched = s].age = 0
               /\ [x EXCEPT !.last = id, !.ok = ok, !.age = 0, !.sched = s].sched = s
               /\ [x EXCEPT !.last = id, !.ok = ok, !.age = 0, !.sched = s].exists = x.exists
    BY <1>10 DEF B!JobType
  <2>2. job[j].sched \in 0 .. Interval
    BY <1>10 DEF B!JobType
  <2>3. PICK s \in 0 .. Interval : s = IF w = B!Scheduler THEN 0 ELSE job[j].sched
    BY <2>2, <1>10
  <2>4. q = [job[j] EXCEPT !.last = id, !.ok = ok, !.age = 0, !.sched = s]
    BY <2>3, <1>6, <1>11 DEF B!Ran
  <2>5. /\ q \in B!JobType /\ q.last = id /\ q.ok = ok /\ q.age = 0 /\ q.exists = job[j].exists
        /\ q.sched = s
    <3> HIDE DEF B!JobType
    <3> QED
      BY <2>1, <2>4, <1>10
  <2> QED
    BY <2>3, <2>5
<1>13. /\ job' \in [Jobs -> B!JobType] /\ \A i \in Jobs : i # j => job'[i] = job[i] /\ runs'[i] = runs[i]
       /\ job'[j] \in {q, job[j]} /\ (job'[j].exists => job'[j] = q)
       /\ job'[j].exists => job[j].exists
  <2>1. CASE job[j].exists
    BY <2>1, <1>2, <1>9, <1>11, <1>12 DEF B!TypeOK
  <2>2. CASE ~job[j].exists
    BY <2>2, <1>2, <1>9 DEF B!TypeOK
  <2> QED
    BY <2>1, <2>2
<1>14. /\ runs' \in [Jobs -> Seq(B!RunType)] /\ Len(runs'[j]) <= MaxRunsKept
       /\ job[j].exists => runs'[j][Len(runs'[j])] = r
  <2>1. CASE job[j].exists
    <3>1. runs'[j] = B!Prune(Append(runs[j], r))
      BY <2>1, <1>2, <1>9 DEF B!TypeOK
    <3>2. /\ B!Prune(Append(runs[j], r)) \in Seq(B!RunType)
          /\ Len(B!Prune(Append(runs[j], r))) <= MaxRunsKept
          /\ B!Prune(Append(runs[j], r))[Len(B!Prune(Append(runs[j], r)))] = r
      BY <1>6, <1>10, PruneKeepsLast
    <3> QED
      BY <3>1, <3>2, <2>1, <1>2, <1>9 DEF B!TypeOK
  <2>2. CASE ~job[j].exists
    BY <2>2, <1>2, <1>9 DEF B!TypeOK
  <2> QED
    BY <2>1, <2>2
<1>15. B!TypeOK'
  BY <1>1, <1>2, <1>8, <1>13, <1>14 DEF B!TypeOK, WorkTypes
<1>16. B!BadgeMatchesHistory'
  <2>1. ASSUME NEW i \in Jobs, runs'[i] # <<>>, job'[i].exists
        PROVE  runs'[i][Len(runs'[i])] = [id |-> job'[i].last, ok |-> job'[i].ok]
    <3>1. CASE i = j
      BY <3>1, <2>1, <1>5, <1>12, <1>13, <1>14
    <3>2. CASE i # j
      BY <3>2, <2>1, <1>13 DEF JobsInv, B!BadgeMatchesHistory
    <3> QED
      BY <3>1, <3>2
  <2> QED
    BY <2>1 DEF B!BadgeMatchesHistory
<1>17. B!ScheduleKeepsInterval'
  BY <1>1 DEF JobsInv, B!ScheduleKeepsInterval
<1>18. ClocksAgree'
  <2>1. q.age <= q.sched /\ q.last # 0
    BY <1>10, <1>12
  <2> QED
    BY <2>1, <1>13 DEF JobsInv, ClocksAgree
<1>19. ListedIsDue'
  <2>1. B!Scheduler \in B!Workers
    BY DEF B!Workers
  <2>2. w = B!Scheduler => j \notin due
    BY <1>1, <1>4 DEF JobsInv, ListedIsDue
  <2>3. \A i \in due : job'[i].sched = Interval
    <3>1. due \subseteq Jobs /\ \A i \in due : job[i].sched = Interval
      BY <1>2 DEF JobsInv, ListedIsDue, B!TypeOK
    <3> QED
      BY <3>1, <2>2, <1>12, <1>13
  <2> QED
    BY <2>1, <2>3, <1>1, <1>7, <1>8 DEF JobsInv, ListedIsDue
<1>20. HelperHasWorker'
  BY <1>1, <1>8 DEF JobsInv, HelperHasWorker
<1>21. Holders' \subseteq Holders
  BY <1>7, <1>8 DEF Holders
<1> QED
  BY <1>15, <1>16, <1>17, <1>18, <1>19, <1>20, <1>21, HoldersShrink DEF JobsInv

LEMMA TimeKeeps == ASSUME B!BoundsOK, JobsInv, B!Time PROVE JobsInv'
<1>1. UNCHANGED <<runs, due, work, edit, helpers, nextRun, jobEdits, lostEnv, orphans, early>>
  BY DEF B!Time
<1>2. B!TypeOK /\ Interval \in Nat /\ \A j \in Jobs : job[j] \in B!JobType
  BY JobTypesHold DEF JobsInv
<1>3. ASSUME NEW a \in 0 .. Interval, NEW b \in 0 .. Interval, a <= b
      PROVE  /\ B!Older(a) \in 0 .. Interval /\ B!Older(b) \in 0 .. Interval
             /\ B!Older(a) <= B!Older(b) /\ (b = Interval => B!Older(b) = Interval)
  BY <1>2, <1>3 DEF B!Older
<1>4. ASSUME NEW j \in Jobs
      PROVE  /\ job'[j] \in B!JobType /\ job'[j].last = job[j].last /\ job'[j].ok = job[j].ok
             /\ job'[j].exists = job[j].exists
             /\ job'[j].age <= job'[j].sched
             /\ job[j].sched = Interval => job'[j].sched = Interval
  <2>1. PICK a \in 0 .. Interval, b \in 0 .. Interval : a = job[j].age /\ b = job[j].sched /\ a <= b
    BY <1>2 DEF B!JobType, JobsInv, ClocksAgree
  <2>2. PICK x \in 0 .. Interval, y \in 0 .. Interval :
            x = B!Older(a) /\ y = B!Older(b) /\ x <= y /\ (b = Interval => y = Interval)
    BY <1>3, <2>1
  <2>3. job'[j] = [job[j] EXCEPT !.age = x, !.sched = y]
    BY <2>1, <2>2 DEF B!Time
  <2>4. ASSUME NEW z \in B!JobType
        PROVE  /\ [z EXCEPT !.age = x, !.sched = y] \in B!JobType
               /\ [z EXCEPT !.age = x, !.sched = y].age = x /\ [z EXCEPT !.age = x, !.sched = y].sched = y
               /\ [z EXCEPT !.age = x, !.sched = y].last = z.last
               /\ [z EXCEPT !.age = x, !.sched = y].ok = z.ok
               /\ [z EXCEPT !.age = x, !.sched = y].exists = z.exists
    BY DEF B!JobType
  <2>5. /\ job'[j] \in B!JobType /\ job'[j].last = job[j].last /\ job'[j].ok = job[j].ok
        /\ job'[j].exists = job[j].exists /\ job'[j].age = x /\ job'[j].sched = y
    BY <2>3, <2>4, <1>2
  <2> QED
    BY <2>1, <2>2, <2>5
<1>5. B!TypeOK'
  <2>1. job' \in [Jobs -> B!JobType]
    BY <1>4 DEF B!Time
  <2> QED
    BY <2>1, <1>1, <1>2 DEF B!TypeOK
<1>6. B!BadgeMatchesHistory'
  BY <1>1, <1>4 DEF JobsInv, B!BadgeMatchesHistory
<1>7. ClocksAgree'
  BY <1>4 DEF JobsInv, ClocksAgree
<1>8. ListedIsDue'
  BY <1>1, <1>2, <1>4 DEF JobsInv, ListedIsDue, B!TypeOK
<1>9. Holders' = Holders
  BY <1>1 DEF Holders
<1> QED
  BY <1>1, <1>5, <1>6, <1>7, <1>8, <1>9 DEF JobsInv, B!ScheduleKeepsInterval, HelperHasWorker

(* An edit of one row: its badge, its clocks and the other rows stay.      *)
LEMMA RowEditKeeps ==
    ASSUME B!BoundsOK, JobsInv, NEW j \in Jobs, NEW q \in B!JobType,
           job' = [job EXCEPT ![j] = q],
           q.last = job[j].last, q.ok = job[j].ok, q.age = job[j].age, q.sched = job[j].sched,
           q.exists => job[j].exists, edit' \in [Editors -> EditTypes],
           UNCHANGED <<runs, due, work, helpers, nextRun, orphans, early>>
    PROVE  JobsInv'
<1>1. B!TypeOK
  BY DEF JobsInv
<1>2. job' \in [Jobs -> B!JobType] /\ job'[j] = q /\ \A i \in Jobs : i # j => job'[i] = job[i]
  BY <1>1 DEF B!TypeOK
<1>3. B!TypeOK'
  BY <1>1, <1>2 DEF B!TypeOK, EditTypes
<1>4. B!BadgeMatchesHistory'
  <2>1. ASSUME NEW i \in Jobs, runs[i] # <<>>, job'[i].exists
        PROVE  runs[i][Len(runs[i])] = [id |-> job'[i].last, ok |-> job'[i].ok]
    <3>1. job[i].exists /\ job'[i].last = job[i].last /\ job'[i].ok = job[i].ok
      BY <2>1, <1>2
    <3> QED
      BY <3>1, <2>1 DEF JobsInv, B!BadgeMatchesHistory
  <2> QED
    BY <2>1 DEF B!BadgeMatchesHistory
<1>5. ClocksAgree'
  BY <1>2 DEF JobsInv, ClocksAgree
<1>6. ListedIsDue'
  BY <1>1, <1>2 DEF JobsInv, ListedIsDue, B!TypeOK
<1>7. Holders' = Holders
  BY DEF Holders
<1> QED
  BY <1>3, <1>4, <1>5, <1>6, <1>7 DEF JobsInv, B!ScheduleKeepsInterval, HelperHasWorker

LEMMA EditsKeep ==
    ASSUME B!BoundsOK, JobsInv,
           \/ \E j \in Jobs : B!SetEnabled(j) \/ \E env \in Envs \cup {B!NoEnv} : B!UpdateEnv(j, env)
           \/ \E e \in Editors : B!UpdateWrites(e) \/ B!DeleteJob(e)
    PROVE  JobsInv'
<1>1. /\ \A e \in Editors : edit[e] \in EditTypes
      /\ \A j \in Jobs : job[j] \in B!JobType
      /\ edit \in [Editors -> EditTypes] /\ B!TypeOK /\ B!Idle \in EditTypes
  BY JobTypesHold DEF JobsInv, B!TypeOK, EditTypes
<1>2. ASSUME NEW x \in B!JobType, NEW env \in Envs \cup {B!NoEnv}
      PROVE  /\ [x EXCEPT !.env = env] \in B!JobType
             /\ [x EXCEPT !.env = env].last = x.last /\ [x EXCEPT !.env = env].ok = x.ok
             /\ [x EXCEPT !.env = env].age = x.age /\ [x EXCEPT !.env = env].sched = x.sched
             /\ [x EXCEPT !.env = env].exists => x.exists
  BY DEF B!JobType
<1>7. ASSUME NEW x \in B!JobType, NEW b \in BOOLEAN
      PROVE  /\ [x EXCEPT !.enabled = b] \in B!JobType
             /\ [x EXCEPT !.enabled = b].last = x.last /\ [x EXCEPT !.enabled = b].ok = x.ok
             /\ [x EXCEPT !.enabled = b].age = x.age /\ [x EXCEPT !.enabled = b].sched = x.sched
             /\ [x EXCEPT !.enabled = b].exists => x.exists
  BY DEF B!JobType
<1>8. ASSUME NEW x \in B!JobType, NEW b \in BOOLEAN
      PROVE  /\ [x EXCEPT !.exists = b] \in B!JobType
             /\ [x EXCEPT !.exists = b].last = x.last /\ [x EXCEPT !.exists = b].ok = x.ok
             /\ [x EXCEPT !.exists = b].age = x.age /\ [x EXCEPT !.exists = b].sched = x.sched
             /\ [x EXCEPT !.exists = b].exists => b
  BY DEF B!JobType
<1>3. ASSUME NEW j \in Jobs, B!SetEnabled(j) PROVE JobsInv'
  <2>1. PICK b \in BOOLEAN : b = ~job[j].enabled
    OBVIOUS
  <2>2. PICK q : q = [job[j] EXCEPT !.enabled = b]
    OBVIOUS
  <2>3. /\ q \in B!JobType /\ q.last = job[j].last /\ q.ok = job[j].ok /\ q.age = job[j].age
        /\ q.sched = job[j].sched /\ (q.exists => job[j].exists)
    BY <1>1, <1>7, <2>2
  <2>4. job' = [job EXCEPT ![j] = q] /\ UNCHANGED <<runs, due, work, edit, helpers, nextRun, orphans, early>>
    BY <1>3, <2>1, <2>2 DEF B!SetEnabled
  <2>5. edit' \in [Editors -> EditTypes] /\ (q.exists => job[j].exists)
    BY <1>1, <2>3, <2>4
  <2> QED
    BY <2>3, <2>4, <2>5, RowEditKeeps
<1>4. ASSUME NEW j \in Jobs, NEW env \in Envs \cup {B!NoEnv}, B!UpdateEnv(j, env) PROVE JobsInv'
  <2>2. PICK q : q = [job[j] EXCEPT !.env = env]
    OBVIOUS
  <2>3. /\ q \in B!JobType /\ q.last = job[j].last /\ q.ok = job[j].ok /\ q.age = job[j].age
        /\ q.sched = job[j].sched /\ (q.exists => job[j].exists)
    BY <1>1, <1>2, <2>2
  <2>4. job' = [job EXCEPT ![j] = q] /\ UNCHANGED <<runs, due, work, edit, helpers, nextRun, orphans, early>>
    BY <1>4, <2>2 DEF B!UpdateEnv
  <2>5. edit' \in [Editors -> EditTypes] /\ (q.exists => job[j].exists)
    BY <1>1, <2>3, <2>4
  <2> QED
    BY <2>3, <2>4, <2>5, RowEditKeeps
<1>5. ASSUME NEW e \in Editors, B!UpdateWrites(e) PROVE JobsInv'
  <2>1. edit[e] \in B!Updating
    BY <1>1, <1>5, EditPc DEF B!UpdateWrites
  <2>2. PICK j \in Jobs, env \in Envs \cup {B!NoEnv} : j = edit[e].job /\ env = edit[e].env
    BY <2>1 DEF B!Updating
  <2>3. PICK q : q = [job[j] EXCEPT !.env = env]
    OBVIOUS
  <2>4. /\ q \in B!JobType /\ q.last = job[j].last /\ q.ok = job[j].ok /\ q.age = job[j].age
        /\ q.sched = job[j].sched /\ (q.exists => job[j].exists)
    BY <1>1, <1>2, <2>3
  <2>5. edit' \in [Editors -> EditTypes] /\ UNCHANGED <<runs, due, work, helpers, nextRun, orphans, early>>
    BY <1>1, <1>5, EditToIs DEF B!UpdateWrites
  <2>6. CASE job[j].exists
    <3>1. job' = [job EXCEPT ![j] = q]
      BY <1>5, <2>2, <2>3, <2>6 DEF B!UpdateWrites
    <3> QED
      BY <3>1, <2>4, <2>5, <2>6, RowEditKeeps
  <2>7. CASE ~job[j].exists
    <3>1. job' = job
      BY <1>5, <2>2, <2>7 DEF B!UpdateWrites
    <3>2. job' = [job EXCEPT ![j] = job[j]] /\ job[j] \in B!JobType
      BY <3>1, <1>1 DEF B!TypeOK
    <3> QED
      BY <3>2, <2>5, RowEditKeeps
  <2> QED
    BY <2>6, <2>7
<1>6. ASSUME NEW e \in Editors, B!DeleteJob(e) PROVE JobsInv'
  <2>1. edit[e] \in B!Deleting
    BY <1>1, <1>6, EditPc DEF B!DeleteJob
  <2>2. PICK j \in Jobs : j = edit[e].job
    BY <2>1 DEF B!Deleting
  <2>3. PICK q : q = [job[j] EXCEPT !.exists = FALSE]
    OBVIOUS
  <2>4. /\ q \in B!JobType /\ q.last = job[j].last /\ q.ok = job[j].ok /\ q.age = job[j].age
        /\ q.sched = job[j].sched /\ ~q.exists
    BY <1>1, <1>8, <2>3
  <2>5. edit' \in [Editors -> EditTypes] /\ UNCHANGED <<runs, due, work, helpers, nextRun, orphans, early>>
    BY <1>1, <1>6, EditToIs DEF B!DeleteJob
  <2>6. job' = [job EXCEPT ![j] = q]
    BY <1>6, <2>2, <2>3 DEF B!DeleteJob
  <2> QED
    BY <2>4, <2>5, <2>6, RowEditKeeps
<1> QED
  BY <1>3, <1>4, <1>5, <1>6

LEMMA EditorsKeep ==
    ASSUME B!BoundsOK, JobsInv, NEW e \in Editors, NEW j \in Jobs, B!UpdateReads(e, j) \/ B!DeleteRuns(e, j)
    PROVE  JobsInv'
<1>1. UNCHANGED <<job, due, work, helpers, nextRun, orphans, early>>
  BY DEF B!UpdateReads, B!DeleteRuns
<1>2. B!TypeOK /\ job[j] \in B!JobType
  BY JobTypesHold DEF JobsInv
<1>3. edit' \in [Editors -> EditTypes]
  <2>1. CASE B!UpdateReads(e, j)
    <3>1. PICK to : to = [pc |-> "update", job |-> j, env |-> job[j].env]
      OBVIOUS
    <3>2. job[j].env \in Envs \cup {B!NoEnv}
      BY <1>2 DEF B!JobType
    <3>3. to \in EditTypes
      BY <3>1, <3>2 DEF EditTypes, B!Updating
    <3> QED
      BY <3>1, <3>3, <2>1, <1>2, EditToIs DEF B!UpdateReads
  <2>2. CASE B!DeleteRuns(e, j)
    <3>1. PICK to : to = [pc |-> "delete", job |-> j]
      OBVIOUS
    <3>2. to \in EditTypes
      BY <3>1 DEF EditTypes, B!Deleting
    <3> QED
      BY <3>1, <3>2, <2>2, <1>2, EditToIs DEF B!DeleteRuns
  <2> QED
    BY <2>1, <2>2
<1>4. /\ runs' \in [Jobs -> Seq(B!RunType)]
      /\ \A i \in Jobs : runs'[i] = runs[i] \/ runs'[i] = <<>>
  <2>1. <<>> \in Seq(B!RunType)
    OBVIOUS
  <2> QED
    BY <2>1, <1>2 DEF B!UpdateReads, B!DeleteRuns, B!TypeOK
<1>5. \A i \in Jobs : Len(runs'[i]) <= MaxRunsKept
  <2>1. Len(<<>>) <= MaxRunsKept
    BY DEF B!BoundsOK
  <2> QED
    BY <2>1, <1>2, <1>4 DEF B!TypeOK
<1>6. B!TypeOK'
  BY <1>1, <1>2, <1>3, <1>4, <1>5 DEF B!TypeOK, EditTypes
<1>7. B!BadgeMatchesHistory'
  BY <1>1, <1>4 DEF JobsInv, B!BadgeMatchesHistory
<1>8. Holders' = Holders
  BY <1>1 DEF Holders
<1> QED
  BY <1>1, <1>6, <1>7, <1>8 DEF JobsInv, B!ScheduleKeepsInterval, ClocksAgree, ListedIsDue, HelperHasWorker

LEMMA CrashKeeps == ASSUME B!BoundsOK, JobsInv, B!Crash PROVE JobsInv'
<1>1. UNCHANGED <<job, runs, helpers, nextRun, early>> /\ due' = {} /\ orphans' = helpers
  BY DEF B!Crash
<1>2. \A w \in B!Workers : work'[w] = B!Idle /\ work'[w].pc = "idle"
  BY DEF B!Crash, B!Idle
<1>3. B!TypeOK'
  BY <1>1 DEF B!Crash, JobsInv, B!TypeOK
<1>4. Holders' \subseteq Holders
  BY <1>2 DEF Holders
<1>5. ListedIsDue' /\ HelperHasWorker'
  BY <1>1, <1>2 DEF ListedIsDue, HelperHasWorker
<1> QED
  BY <1>1, <1>3, <1>4, <1>5, HoldersShrink DEF JobsInv, B!BadgeMatchesHistory, B!ScheduleKeepsInterval,
     ClocksAgree

(* The inductive invariant of the backup jobs.                             *)
THEOREM JobsInvariance == ASSUME B!BoundsOK PROVE B!Spec => []JobsInv
<1>1. B!Init => JobsInv
  BY JobsInit
<1>2. JobsInv /\ [B!Next]_B!bvars => JobsInv'
  <2> SUFFICES ASSUME JobsInv, [B!Next]_B!bvars PROVE JobsInv'
    OBVIOUS
  <2>1. CASE UNCHANGED B!bvars
    <3>1. Holders' = Holders
      BY <2>1 DEF B!bvars, Holders
    <3>2. B!TypeOK'
      BY <2>1 DEF B!bvars, JobsInv, B!TypeOK
    <3> QED
      BY <2>1, <3>1, <3>2 DEF B!bvars, JobsInv, B!BadgeMatchesHistory, B!ScheduleKeepsInterval,
         ClocksAgree, ListedIsDue,
         HelperHasWorker
  <2>2. CASE B!Tick \/ B!Time \/ B!Crash
    BY <2>2, TickKeeps, TimeKeeps, CrashKeeps
  <2>3. CASE \E j \in Jobs : B!RunDue(j)
    <3>1. B!Scheduler \in B!Workers
      BY DEF B!Workers
    <3> QED
      BY <2>3, <3>1, StartKeeps
  <2>4. CASE \E j \in Jobs : B!SetEnabled(j) \/ \E env \in Envs \cup {B!NoEnv} : B!UpdateEnv(j, env)
    BY <2>4, EditsKeep
  <2>5. ASSUME NEW w \in B!Workers, B!Run(w) PROVE JobsInv'
    BY <2>5, RunMoves, RecordKeeps DEF B!Run
  <2>6. CASE \E w \in B!Workers : \E j \in Jobs : B!TriggerNow(w, j)
    BY <2>6, StartKeeps
  <2>7. CASE \E e \in Editors : B!UpdateWrites(e) \/ B!DeleteJob(e)
    BY <2>7, EditsKeep
  <2>8. CASE \E e \in Editors : \E j \in Jobs : B!UpdateReads(e, j) \/ B!DeleteRuns(e, j)
    BY <2>8, EditorsKeep
  <2> QED
    BY <2>1, <2>2, <2>3, <2>4, <2>5, <2>6, <2>7, <2>8 DEF B!Next
<1> QED
  BY <1>1, <1>2, PTL DEF B!Spec

(* Whoever runs, edits or deletes a job at the same time, whatever fails   *)
(* and wherever the process dies: the badge is about the newest run kept,  *)
(* a helper container belongs to a run under way or to a crash, the slots  *)
(* bound them, and the schedule keeps its interval.                        *)
THEOREM RunsRecorded == ASSUME B!BoundsOK PROVE B!Spec => []B!RunsAreRecorded
<1>1. JobsInv => B!RunsAreRecorded
  <2> SUFFICES ASSUME JobsInv PROVE B!HelpersAreOwned
    BY DEF JobsInv, B!RunsAreRecorded
  <2>1. Cardinality(helpers \ orphans) <= Slots
    BY HelpersAreFew DEF JobsInv
  <2>2. ASSUME NEW r \in helpers \ orphans
        PROVE  \E w \in B!Workers : work[w] # B!Idle /\ work[w].run = r /\ work[w].pc \in {"wait", "remove"}
    <3>1. PICK w \in B!Workers : work[w].pc \in {"wait", "remove"} /\ work[w].run = r
      BY DEF JobsInv, HelperHasWorker
    <3>2. B!Idle.pc = "idle"
      BY DEF B!Idle
    <3> QED
      BY <3>1, <3>2
  <2> QED
    BY <2>1, <2>2, SizesAgree DEF B!HelpersAreOwned
<1> QED
  BY <1>1, JobsInvariance, PTL

-----------------------------------------------------------------------------
(***************************************************************************)
(* The image update poller.                                                *)
(***************************************************************************)
(* The row of a service tells what was last told of it, but for the        *)
(* service whose digest is about to be marked.                             *)
RowTells(s) ==
    /\ told[s] = U!NoDrift => stored[s] \in {U!Absent, U!Cleared}
    /\ told[s] # U!NoDrift => stored[s] = told[s] \/ (poll.pc = "mark" /\ poll.at = s)

(* The preview that a poll works from.                                     *)
PreviewAgrees ==
    /\ poll # U!Between => poll.confirmed = poll.same /\ \A s \in poll.same : poll.drift[s] = U!NoDrift
    /\ poll.pc = "clear" => poll.todo \subseteq poll.confirmed
    /\ poll.pc = "mark" => /\ poll.at \notin poll.todo
                           /\ poll.drift[poll.at] # U!NoDrift /\ told[poll.at] = poll.drift[poll.at]

(* What a poll read of a row is still there when it comes to the service.  *)
ReadIsFresh(s) ==
    /\ poll.pc = "clear" /\ (s \in poll.todo \/ s \notin poll.confirmed) => poll.last[s] = stored[s]
    /\ poll.pc \in {"notify", "mark"} /\ s \in poll.todo => poll.last[s] = stored[s]

UpdateInv ==
    /\ U!UpdatesAreTold /\ PreviewAgrees
    /\ poll.pc \in {"notify", "mark"} => \A s \in poll.todo : U!ToNotify(s)
    /\ \A s \in Services \ faulty : RowTells(s) /\ ReadIsFresh(s)

LEMMA UpdateInit == ASSUME U!BoundsOK, U!Init PROVE UpdateInv
<1>1. U!TypeOK
  BY DEF U!Init, U!TypeOK, U!Rows, U!Drifts
<1> QED
  BY <1>1 DEF U!Init, UpdateInv, U!UpdatesAreTold, U!ToldOnce, U!NothingMissed, PreviewAgrees,
     RowTells, ReadIsFresh, U!Between

LEMMA PollPc ==
    ASSUME U!TypeOK
    PROVE  /\ poll.pc = "idle" <=> poll = U!Between
           /\ poll.pc = "last" <=> poll \in U!Previewed
           /\ poll.pc \in {"clear", "notify"} <=> poll \in U!Telling
           /\ poll.pc = "mark" <=> poll \in U!Marking
           /\ poll.pc \in {"idle", "last", "clear", "notify", "mark"}
<1>1. U!Between.pc = "idle"
  BY DEF U!Between
<1>2. \A p \in U!Previewed : p.pc = "last"
  BY DEF U!Previewed
<1>3. \A p \in U!Telling : p.pc \in {"clear", "notify"}
  BY DEF U!Telling
<1>4. \A p \in U!Marking : p.pc = "mark"
  BY DEF U!Marking
<1> QED
  BY <1>1, <1>2, <1>3, <1>4 DEF U!TypeOK

LEMMA WorldMoves ==
    ASSUME UpdateInv, NEW s \in Services, NEW d \in Digests, U!Push(s, d) \/ U!Deploy(s, d)
    PROVE  UpdateInv'
<1>1. UNCHANGED <<stored, poll, told, faulty, again, missed>>
  BY DEF U!Push, U!Deploy
<1>2. running' \in [Services -> Digests] /\ registry' \in [Services -> Digests]
  BY DEF U!Push, U!Deploy, UpdateInv, U!UpdatesAreTold, U!TypeOK
<1> QED
  BY <1>1, <1>2 DEF UpdateInv, U!UpdatesAreTold, U!ToldOnce, U!NothingMissed, U!TypeOK, PreviewAgrees,
     U!ToNotify, RowTells, ReadIsFresh

LEMMA PreviewKeeps ==
    ASSUME UpdateInv, NEW answered \in SUBSET Services, U!Preview(answered)
    PROVE  UpdateInv'
<1>1. UNCHANGED <<running, registry, stored, told, faulty, again, missed>> /\ poll = U!Between
  BY DEF U!Preview
<1>2. U!TypeOK
  BY DEF UpdateInv, U!UpdatesAreTold
<1>3. poll' \in U!Previewed /\ poll'.pc = "last"
  BY <1>1, <1>2 DEF U!Preview, U!PollTo, U!Previewed, U!ConfirmedUnchanged, U!TypeOK, U!Drifts
<1>4. poll'.confirmed = poll'.same /\ \A s \in poll'.same : poll'.drift[s] = U!NoDrift
  BY DEF U!Preview, U!PollTo, U!ConfirmedUnchanged
<1>5. U!TypeOK'
  BY <1>1, <1>2, <1>3 DEF U!TypeOK
<1>6. poll.pc = "idle"
  BY <1>1 DEF U!Between
<1> QED
  BY <1>1, <1>3, <1>4, <1>5, <1>6 DEF UpdateInv, U!UpdatesAreTold, U!ToldOnce, U!NothingMissed,
     PreviewAgrees, RowTells, ReadIsFresh

LEMMA ReadLastKeeps ==
    ASSUME UpdateInv, NEW ok \in BOOLEAN, U!ReadLast(ok)
    PROVE  UpdateInv'
<1>1. UNCHANGED <<running, registry, stored, told, again, missed>> /\ poll.pc = "last"
  BY DEF U!ReadLast
<1>2. U!TypeOK
  BY DEF UpdateInv, U!UpdatesAreTold
<1>3. poll \in U!Previewed /\ poll # U!Between
  BY <1>1, <1>2, PollPc
<1>4. poll' \in U!Telling
  BY <1>2, <1>3 DEF U!ReadLast, U!PollTo, U!Previewed, U!Telling, U!TypeOK, U!Rows
<1>5. /\ poll'.pc = "clear" /\ poll'.todo = poll'.confirmed
      /\ poll'.confirmed = poll.confirmed /\ poll'.same = poll.same /\ poll'.drift = poll.drift
      /\ ok => poll'.last = stored
  BY DEF U!ReadLast, U!PollTo
<1>6. /\ ok => faulty' = faulty
      /\ ~ok => faulty' = Services
      /\ faulty \subseteq faulty' /\ faulty' \subseteq Services
  BY <1>2 DEF U!ReadLast, U!Blame, U!TypeOK
<1>7. U!TypeOK'
  BY <1>1, <1>2, <1>4, <1>6 DEF U!TypeOK
<1>8. PreviewAgrees'
  BY <1>3, <1>5 DEF UpdateInv, PreviewAgrees
<1>9. U!UpdatesAreTold'
  BY <1>1, <1>6, <1>7 DEF UpdateInv, U!UpdatesAreTold, U!ToldOnce, U!NothingMissed
<1>10. ASSUME NEW s \in Services \ faulty'
       PROVE  RowTells(s)' /\ ReadIsFresh(s)'
  BY <1>1, <1>5, <1>6 DEF UpdateInv, RowTells, ReadIsFresh
<1> QED
  BY <1>5, <1>8, <1>9, <1>10 DEF UpdateInv

LEMMA ClearKeeps ==
    ASSUME U!BoundsOK, UpdateInv, NEW s \in Services, NEW ok \in BOOLEAN, U!Clear(s, ok)
    PROVE  UpdateInv'
<1>1. UNCHANGED <<running, registry, again, missed>> /\ poll.pc = "clear" /\ s \in poll.todo
  BY DEF U!Clear
<1>2. U!TypeOK
  BY DEF UpdateInv, U!UpdatesAreTold
<1>3. poll \in U!Telling /\ poll # U!Between
  BY <1>1, <1>2, PollPc
<1>4. poll' \in U!Telling
  BY <1>2, <1>3 DEF U!Clear, U!PollTo, U!Telling
<1>5. /\ poll'.pc = "clear" /\ poll'.todo = poll.todo \ {s} /\ poll'.last = poll.last
      /\ poll'.confirmed = poll.confirmed /\ poll'.same = poll.same /\ poll'.drift = poll.drift
  BY <1>1, <1>3 DEF U!Clear, U!PollTo, U!Telling
<1>6. /\ faulty \subseteq faulty' /\ faulty' \subseteq Services
      /\ \A t \in Services \ {s} : stored'[t] = stored[t] /\ told'[t] = told[t]
      /\ told'[s] \in {U!NoDrift, told[s]}
      /\ s \in poll.same => told'[s] = U!NoDrift
      /\ s \notin poll.same => told'[s] = told[s]
      /\ s \notin faulty' => stored'[s] = IF U!Clears(s) THEN U!Cleared ELSE stored[s]
      /\ stored' \in U!Rows /\ told' \in U!Drifts
  BY <1>2 DEF U!Clear, U!Ok, U!Blame, U!TypeOK, U!Rows, U!Drifts
<1>7. U!TypeOK'
  BY <1>1, <1>2, <1>4, <1>6 DEF U!TypeOK
<1>8. PreviewAgrees' /\ poll.confirmed = poll.same /\ poll.todo \subseteq poll.confirmed
  BY <1>1, <1>3, <1>5 DEF UpdateInv, PreviewAgrees
<1>9. U!UpdatesAreTold'
  BY <1>1, <1>6, <1>7 DEF UpdateInv, U!UpdatesAreTold, U!ToldOnce, U!NothingMissed
<1>10. ASSUME NEW t \in Services \ faulty', t # s
       PROVE  RowTells(t)' /\ ReadIsFresh(t)'
  BY <1>1, <1>5, <1>6, <1>10 DEF UpdateInv, RowTells, ReadIsFresh
<1>11. ASSUME s \notin faulty'
       PROVE  RowTells(s)' /\ ReadIsFresh(s)'
  <2>1. stored[s] = poll.last[s] /\ RowTells(s)
    BY <1>1, <1>6, <1>11 DEF UpdateInv, ReadIsFresh
  <2>2. CASE s \in poll.same
    <3>1. stored'[s] \in {U!Absent, U!Cleared} /\ told'[s] = U!NoDrift
      BY <1>6, <1>11, <2>1, <2>2 DEF U!Clears
    <3> QED
      BY <3>1, <1>5, <1>8, <2>2 DEF RowTells, ReadIsFresh
  <2>3. CASE s \notin poll.same
    BY <2>3, <1>1, <1>8
  <2> QED
    BY <2>2, <2>3
<1> QED
  BY <1>5, <1>8, <1>9, <1>10, <1>11 DEF UpdateInv

LEMMA ClearedKeeps ==
    ASSUME U!BoundsOK, UpdateInv, U!Cleared2Notify
    PROVE  UpdateInv'
<1>1. UNCHANGED <<running, registry, stored, told, faulty, again>> /\ poll.pc = "clear" /\ poll.todo = {}
  BY DEF U!Cleared2Notify
<1>2. U!TypeOK
  BY DEF UpdateInv, U!UpdatesAreTold
<1>3. poll \in U!Telling /\ poll # U!Between
  BY <1>1, <1>2, PollPc
<1>4. poll' \in U!Telling
  BY <1>2, <1>3 DEF U!Cleared2Notify, U!PollTo, U!Telling
<1>5. /\ poll'.pc = "notify" /\ poll'.todo = {s \in Services : U!ToNotify(s)} /\ poll'.last = poll.last
      /\ poll'.confirmed = poll.confirmed /\ poll'.same = poll.same /\ poll'.drift = poll.drift
  BY <1>1, <1>3 DEF U!Cleared2Notify, U!PollTo, U!Telling
<1>6. ASSUME NEW s \in missed'
      PROVE  s \in faulty /\ s \in Services
  <2>1. CASE s \in missed
    BY <2>1, <1>2 DEF UpdateInv, U!UpdatesAreTold, U!NothingMissed, U!TypeOK
  <2>2. CASE s \notin missed
    <3>1. s \in Services /\ poll.drift[s] # U!NoDrift /\ ~U!ToNotify(s) /\ poll.drift[s] # told[s]
      BY <2>2, <1>6 DEF U!Cleared2Notify
    <3>2. poll.last[s] = poll.drift[s] /\ poll.drift[s] \in Digests
      BY <3>1, <1>3 DEF U!ToNotify, U!Telling, U!Drifts
    <3>3. s \notin poll.confirmed
      BY <3>1, <1>3 DEF UpdateInv, PreviewAgrees
    <3>4. s \notin faulty => poll.last[s] = stored[s] /\ RowTells(s)
      BY <3>1, <3>3, <1>1 DEF UpdateInv, ReadIsFresh
    <3> QED
      BY <3>1, <3>2, <3>4, <1>1 DEF RowTells, U!BoundsOK
  <2> QED
    BY <2>1, <2>2
<1>7. U!TypeOK'
  BY <1>1, <1>2, <1>4, <1>6 DEF U!TypeOK
<1>8. PreviewAgrees'
  BY <1>3, <1>5 DEF UpdateInv, PreviewAgrees
<1>9. U!UpdatesAreTold'
  BY <1>1, <1>6, <1>7 DEF UpdateInv, U!UpdatesAreTold, U!ToldOnce, U!NothingMissed
<1>10. ASSUME NEW s \in Services \ faulty'
       PROVE  RowTells(s)' /\ ReadIsFresh(s)'
  <2>1. s \in poll'.todo => s \notin poll.confirmed
    BY <1>3, <1>5 DEF UpdateInv, PreviewAgrees, U!ToNotify
  <2> QED
    BY <2>1, <1>1, <1>5 DEF UpdateInv, RowTells, ReadIsFresh
<1> QED
  BY <1>5, <1>8, <1>9, <1>10 DEF UpdateInv, U!ToNotify

LEMMA NotifyKeeps ==
    ASSUME U!BoundsOK, UpdateInv, NEW s \in Services, NEW recorded \in BOOLEAN, U!Notify(s, recorded)
    PROVE  UpdateInv'
<1>1. UNCHANGED <<running, registry, stored, faulty, missed>> /\ poll.pc = "notify" /\ s \in poll.todo
  BY DEF U!Notify
<1>2. U!TypeOK
  BY DEF UpdateInv, U!UpdatesAreTold
<1>3. poll \in U!Telling /\ poll # U!Between
  BY <1>1, <1>2, PollPc
<1>4. U!ToNotify(s) /\ poll.drift[s] \in Digests
  BY <1>1, <1>3 DEF UpdateInv, U!ToNotify, U!Telling, U!Drifts
<1>5. s \notin faulty => told[s] # poll.drift[s]
  BY <1>1, <1>4 DEF UpdateInv, RowTells, ReadIsFresh, U!ToNotify
<1>6. again' \subseteq faulty' /\ told' \in U!Drifts /\ again' \subseteq Services
  BY <1>1, <1>2, <1>4, <1>5 DEF U!Notify, UpdateInv, U!UpdatesAreTold, U!ToldOnce, U!TypeOK, U!Drifts
<1>7. CASE recorded
  <2>1. poll' \in U!Marking
    BY <1>3, <1>7 DEF U!Notify, U!Marks, U!PollTo, U!Telling, U!Marking
  <2>2. /\ poll'.pc = "mark" /\ poll'.todo = poll.todo \ {s} /\ poll'.last = poll.last /\ poll'.at = s
        /\ poll'.confirmed = poll.confirmed /\ poll'.same = poll.same /\ poll'.drift = poll.drift
    BY <1>7 DEF U!Notify, U!Marks, U!PollTo
  <2>3. told'[s] = poll.drift[s] /\ \A t \in Services \ {s} : told'[t] = told[t]
    BY <1>2, <1>7 DEF U!Notify, U!TypeOK, U!Drifts
  <2>4. U!TypeOK'
    BY <2>1, <1>1, <1>2, <1>6 DEF U!TypeOK
  <2>5. PreviewAgrees'
    BY <2>2, <2>3, <1>3, <1>4 DEF UpdateInv, PreviewAgrees, U!ToNotify
  <2>6. ASSUME NEW t \in Services \ faulty'
        PROVE  RowTells(t)' /\ ReadIsFresh(t)'
    BY <2>2, <2>3, <1>1, <1>4 DEF UpdateInv, RowTells, ReadIsFresh, U!ToNotify
  <2>7. \A t \in poll'.todo : U!ToNotify(t)'
    BY <2>2, <1>1 DEF UpdateInv, U!ToNotify
  <2> QED
    BY <2>4, <2>5, <2>6, <2>7, <1>1, <1>6 DEF UpdateInv, U!UpdatesAreTold, U!ToldOnce, U!NothingMissed
<1>8. CASE ~recorded
  <2>1. poll' \in U!Telling
    BY <1>3, <1>8 DEF U!Notify, U!Marks, U!PollTo, U!Telling
  <2>2. /\ poll'.pc = "notify" /\ poll'.todo = poll.todo \ {s} /\ poll'.last = poll.last
        /\ poll'.confirmed = poll.confirmed /\ poll'.same = poll.same /\ poll'.drift = poll.drift
    BY <1>1, <1>3, <1>8 DEF U!Notify, U!Marks, U!PollTo, U!Telling
  <2>3. told' = told
    BY <1>8 DEF U!Notify
  <2>4. U!TypeOK'
    BY <2>1, <1>1, <1>2, <1>6 DEF U!TypeOK
  <2>5. PreviewAgrees'
    BY <2>2, <1>3 DEF UpdateInv, PreviewAgrees
  <2>6. ASSUME NEW t \in Services \ faulty'
        PROVE  RowTells(t)' /\ ReadIsFresh(t)'
    BY <2>2, <2>3, <1>1 DEF UpdateInv, RowTells, ReadIsFresh
  <2>7. \A t \in poll'.todo : U!ToNotify(t)'
    BY <2>2, <1>1 DEF UpdateInv, U!ToNotify
  <2> QED
    BY <2>4, <2>5, <2>6, <2>7, <1>1, <1>6 DEF UpdateInv, U!UpdatesAreTold, U!ToldOnce, U!NothingMissed
<1> QED
  BY <1>7, <1>8

LEMMA SetLastKeeps ==
    ASSUME U!BoundsOK, UpdateInv, NEW ok \in BOOLEAN, U!SetLastNotified(ok)
    PROVE  UpdateInv'
<1>1. UNCHANGED <<running, registry, told, again, missed>> /\ poll.pc = "mark"
  BY DEF U!SetLastNotified
<1>2. U!TypeOK
  BY DEF UpdateInv, U!UpdatesAreTold
<1>3. poll \in U!Marking /\ poll # U!Between
  BY <1>1, <1>2, PollPc
<1>4. poll' \in U!Telling
  BY <1>3 DEF U!SetLastNotified, U!PollTo, U!Telling, U!Marking
<1>5. /\ poll'.pc = "notify" /\ poll'.todo = poll.todo /\ poll'.last = poll.last
      /\ poll'.confirmed = poll.confirmed /\ poll'.same = poll.same /\ poll'.drift = poll.drift
  BY DEF U!SetLastNotified, U!PollTo
<1>6. PICK s \in Services : s = poll.at
  BY <1>3 DEF U!Marking
<1>7. poll.drift[s] \in Digests /\ told[s] = poll.drift[s] /\ s \notin poll.todo
  BY <1>1, <1>3, <1>6 DEF UpdateInv, PreviewAgrees, U!Marking, U!Drifts
<1>8. /\ faulty \subseteq faulty' /\ faulty' \subseteq Services
      /\ \A t \in Services \ {s} : stored'[t] = stored[t]
      /\ s \notin faulty' => stored'[s] = poll.drift[s]
      /\ stored' \in U!Rows
  BY <1>2, <1>6, <1>7 DEF U!SetLastNotified, U!Ok, U!Blame, U!TypeOK, U!Rows
<1>9. U!TypeOK'
  BY <1>1, <1>2, <1>4, <1>8 DEF U!TypeOK
<1>10. PreviewAgrees'
  BY <1>3, <1>5 DEF UpdateInv, PreviewAgrees
<1>11. ASSUME NEW t \in Services \ faulty'
       PROVE  RowTells(t)' /\ ReadIsFresh(t)'
  BY <1>1, <1>5, <1>6, <1>7, <1>8 DEF UpdateInv, RowTells, ReadIsFresh, U!BoundsOK
<1>12. \A t \in poll'.todo : U!ToNotify(t)'
  BY <1>5, <1>1 DEF UpdateInv, U!ToNotify
<1> QED
  BY <1>1, <1>8, <1>9, <1>10, <1>11, <1>12 DEF UpdateInv, U!UpdatesAreTold, U!ToldOnce, U!NothingMissed

LEMMA PollEnds ==
    ASSUME U!BoundsOK, UpdateInv, U!EndPoll \/ U!Restart
    PROVE  UpdateInv'
<1>1. UNCHANGED <<running, registry, stored, told, again, missed>> /\ poll' = U!Between /\ poll # U!Between
  <2>1. U!EndPoll => poll.pc = "notify"
    BY DEF U!EndPoll
  <2> QED
    BY <2>1 DEF U!EndPoll, U!Restart, U!PollTo, U!Between
<1>2. U!TypeOK
  BY DEF UpdateInv, U!UpdatesAreTold
<1>3. /\ faulty \subseteq faulty' /\ faulty' \subseteq Services
      /\ poll.pc = "mark" => poll.at \in faulty'
  <2>1. poll.pc = "mark" => poll.at \in Services
    BY <1>2, PollPc DEF U!Marking
  <2> QED
    BY <2>1, <1>2 DEF U!EndPoll, U!Restart, U!TypeOK
<1>4. poll'.pc = "idle"
  BY <1>1 DEF U!Between
<1>5. U!TypeOK'
  BY <1>1, <1>2, <1>3 DEF U!TypeOK
<1>6. ASSUME NEW t \in Services \ faulty'
      PROVE  RowTells(t)' /\ ReadIsFresh(t)'
  BY <1>1, <1>3, <1>4 DEF UpdateInv, RowTells, ReadIsFresh
<1> QED
  BY <1>1, <1>3, <1>4, <1>5, <1>6 DEF UpdateInv, U!UpdatesAreTold, U!ToldOnce, U!NothingMissed,
     PreviewAgrees

(* The inductive invariant of the poller.                                  *)
THEOREM UpdateInvariance == ASSUME U!BoundsOK PROVE U!Spec => []UpdateInv
<1>1. U!Init => UpdateInv
  BY UpdateInit
<1>2. UpdateInv /\ [U!Next]_U!ivars => UpdateInv'
  <2> SUFFICES ASSUME UpdateInv, [U!Next]_U!ivars PROVE UpdateInv'
    OBVIOUS
  <2>1. CASE UNCHANGED U!ivars
    BY <2>1 DEF U!ivars, UpdateInv, U!UpdatesAreTold, U!ToldOnce, U!NothingMissed, U!TypeOK,
       PreviewAgrees, U!ToNotify, RowTells, ReadIsFresh
  <2>2. CASE \E s \in Services : \E d \in Digests : U!Push(s, d) \/ U!Deploy(s, d)
    BY <2>2, WorldMoves
  <2>3. CASE U!Step
    BY <2>3, PreviewKeeps, ReadLastKeeps, ClearKeeps, ClearedKeeps, NotifyKeeps, SetLastKeeps, PollEnds
       DEF U!Step
  <2>4. CASE U!Restart
    BY <2>4, PollEnds
  <2> QED
    BY <2>1, <2>2, <2>3, <2>4 DEF U!Next
<1> QED
  BY <1>1, <1>2, PTL DEF U!Spec

(* Whatever is pushed and deployed while a poll runs, and wherever it is   *)
(* cut off, a drift is told of and told of once, unless a statement about  *)
(* that service failed.                                                    *)
THEOREM UpdatesTold == ASSUME U!BoundsOK PROVE U!Spec => []U!UpdatesAreTold
<1>1. UpdateInv => U!UpdatesAreTold
  BY DEF UpdateInv
<1> QED
  BY <1>1, UpdateInvariance, PTL

-----------------------------------------------------------------------------
(***************************************************************************)
(* Stacks edited where they lie.  What is submitted is whole but for a cut *)
(* upload or a big file, what passed compose is what compose accepted, a   *)
(* request has replaced the file only once it ended, and a save alone with *)
(* the file holds what is there.                                           *)
(***************************************************************************)
(* The steps of a save.                                                      *)
LocalSteps == {"temp", "config", "backup", "rename"}
SshSteps == LocalSteps \cup {"copy", "cat"}
StepSet == IF eTarget.kind = "ssh" THEN SshSteps ELSE LocalSteps
After(pc) ==
    CASE pc = "temp" -> IF eTarget.kind = "ssh" THEN "copy" ELSE "config"
      [] pc = "copy" -> "cat"
      [] pc = "cat" -> "config"
      [] pc = "config" -> "backup"
      [] pc = "backup" -> "rename"
      [] pc = "rename" -> "done"

Known == eTarget.kind \in {"local", "ssh"}
Content == [v : {0} \cup Versions, part : {"whole", "begun", "none"}]
Calls == [pc : {"idle", "owner", "resolve", "up", "done"} \cup SshSteps, job : {"save", "redeploy"}, got : Content,
          content : Content, bak : Content, heard : BOOLEAN, reply : {"none", "ok", "error"}]
OpsInv == eOp \in [Requests -> Calls] /\ eFile \in Content /\ ePrev \in Content /\ eRunning \in Content
          /\ eTarget \in Targets
          /\ \A e \in Requests : eOp[e].pc \in SshSteps => eOp[e].pc \in StepSet /\ eOp[e].job = "save" /\ Known

(* What is submitted is whole but for what a cut upload or a big file made   *)
(* of it, and what passed compose it accepted.                               *)
Sound(c) == c.part = "whole" \/ (c.part = "begun" /\ (eCut \/ eTarget.big))
ContentInv ==
    /\ Sound(eFile) /\ E!AcceptedWhole(eFile) /\ E!AcceptedWhole(eRunning)
    /\ \A e \in Requests : eOp[e].pc \in {"owner", "resolve"} \cup SshSteps => Sound(eOp[e].content)
    /\ \A e \in Requests : eOp[e].pc \in {"backup", "rename"} => E!AcceptedWhole(eOp[e].content)

(* A request replaces the file in its last step, and says so if it is heard. *)
PlacedInv ==
    \A e \in ePlaced : eOp[e].pc = "done" /\ (eOp[e].heard => eOp[e].reply = "ok")

(* A save alone with the file: what it read or copied is what is there.      *)
AloneInv ==
    ~eOverlapped =>
        /\ \A e, f \in Requests : E!Saving(e) /\ E!Saving(f) => e = f
        /\ \A e \in Requests :
             /\ eTarget.kind # "ssh" /\ eOp[e].pc \in LocalSteps => eOp[e].got = E!Read(eFile)
             /\ eTarget.kind = "ssh" /\ eOp[e].pc \in {"cat", "config", "backup", "rename"} => eOp[e].bak = eFile
             /\ eOp[e].pc = "rename" => ePrev = E!Backup(e)

StackInv == E!BoundsOK /\ E!TypeOK /\ OpsInv /\ ContentInv /\ PlacedInv /\ AloneInv

LEMMA StepsAre == E!Range(E!Steps) = StepSet
  BY DEF E!Range, E!Steps, StepSet, SshSteps, LocalSteps

LEMMA FollowingIs == ASSUME NEW pc \in StepSet PROVE E!Following(pc) = After(pc)
<1>1. CASE eTarget.kind = "ssh"
  <2>1. E!Steps = <<"temp", "copy", "cat", "config", "backup", "rename">>
    BY <1>1 DEF E!Steps
  <2>2. DOMAIN E!Steps = 1 .. 6 /\ Len(E!Steps) = 6
    BY <2>1
  <2>3. pc \in SshSteps
    BY <1>1 DEF StepSet
  <2>4. PICK i \in 1 .. 6 : i = CHOOSE j \in DOMAIN E!Steps : E!Steps[j] = pc
    BY <2>1, <2>2, <2>3 DEF SshSteps, LocalSteps
  <2>5. E!Steps[i] = pc
    BY <2>1, <2>2, <2>3, <2>4 DEF SshSteps, LocalSteps
  <2>6. E!Following(pc) = IF i = 6 THEN "done" ELSE E!Steps[i + 1]
    BY <2>2, <2>4 DEF E!Following
  <2> QED
    BY <1>1, <2>1, <2>5, <2>6 DEF After
<1>2. CASE eTarget.kind # "ssh"
  <2>1. E!Steps = <<"temp", "config", "backup", "rename">>
    BY <1>2 DEF E!Steps
  <2>2. DOMAIN E!Steps = 1 .. 4 /\ Len(E!Steps) = 4
    BY <2>1
  <2>3. pc \in LocalSteps
    BY <1>2 DEF StepSet
  <2>4. PICK i \in 1 .. 4 : i = CHOOSE j \in DOMAIN E!Steps : E!Steps[j] = pc
    BY <2>1, <2>2, <2>3 DEF LocalSteps
  <2>5. E!Steps[i] = pc
    BY <2>1, <2>2, <2>3, <2>4 DEF LocalSteps
  <2>6. E!Following(pc) = IF i = 4 THEN "done" ELSE E!Steps[i + 1]
    BY <2>2, <2>4 DEF E!Following
  <2> QED
    BY <1>2, <2>1, <2>5, <2>6 DEF After
<1> QED
  BY <1>1, <1>2

LEMMA ContentsAre ==
    /\ \A v \in {0} \cup Versions : E!Whole(v) \in Content /\ E!Whole(v).part = "whole" /\ E!Whole(v).v = v
    /\ \A c \in Content : E!Begun(c) \in Content /\ E!Begun(c).part = "begun"
    /\ E!Nothing \in Content /\ E!NoOp \in Calls
<1>1. \A v \in {0} \cup Versions : E!Whole(v) \in Content /\ E!Whole(v).part = "whole" /\ E!Whole(v).v = v
  BY DEF Content, E!Whole
<1>2. \A c \in Content : E!Begun(c) \in Content /\ E!Begun(c).part = "begun"
  BY DEF Content, E!Begun
<1>3. E!Nothing \in Content
  BY DEF Content, E!Nothing
<1>4. E!NoOp \in Calls
  BY <1>3 DEF E!NoOp, Calls
<1> QED
  BY <1>1, <1>2, <1>3, <1>4

LEMMA StackInit == ASSUME E!BoundsOK, E!Init PROVE StackInv
<1>1. OpsInv
  BY ContentsAre DEF E!Init, OpsInv, E!NoOp, SshSteps, LocalSteps
<1>2. E!TypeOK
  <2>1. \A e \in Requests : eOp[e].pc = "idle"
    BY DEF E!Init, E!NoOp
  <2>2. eFile.v = 0 /\ ePrev.v = 0 /\ 0 \in 0 .. StackFaults
    BY DEF E!Init, E!Whole, E!Nothing, E!BoundsOK
  <2> QED
    BY <2>1, <2>2 DEF E!Init, E!TypeOK
<1>3. ContentInv
  BY DEF E!Init, ContentInv, Sound, E!AcceptedWhole, E!Whole, E!BoundsOK, E!NoOp, SshSteps, LocalSteps
<1>4. PlacedInv /\ AloneInv
  BY DEF E!Init, PlacedInv, AloneInv, E!Saving, E!NoOp, LocalSteps
<1> QED
  BY <1>1, <1>2, <1>3, <1>4 DEF StackInv

(* One request moves, and changes the file or its copy as a save only.       *)
Kept == eTarget' = eTarget /\ (eCut => eCut') /\ eCut' \in BOOLEAN /\ eOwned' \in BOOLEAN
        /\ eOverlapped' \in BOOLEAN /\ (eOverlapped => eOverlapped')
        /\ eFaults' \in 0 .. StackFaults /\ eTemps' \subseteq Requests
FilesSound == eFile' \in Content /\ ePrev' \in Content /\ eRunning' \in Content
              /\ Sound(eFile)' /\ E!AcceptedWhole(eFile)' /\ E!AcceptedWhole(eRunning)'
CallSound(e) ==
    /\ eOp[e].pc \in {"owner", "resolve"} \cup SshSteps => Sound(eOp[e].content)
    /\ eOp[e].pc \in {"backup", "rename"} => E!AcceptedWhole(eOp[e].content)
CallAlone(e) ==
    /\ eTarget.kind # "ssh" /\ eOp[e].pc \in LocalSteps => eOp[e].got = E!Read(eFile)
    /\ eTarget.kind = "ssh" /\ eOp[e].pc \in {"cat", "config", "backup", "rename"} => eOp[e].bak = eFile
    /\ eOp[e].pc = "rename" => ePrev = E!Backup(e)

LEMMA SoundStays ==
    ASSUME StackInv, Kept, NEW c
    PROVE  (Sound(c) => Sound(c)') /\ (E!AcceptedWhole(c) => E!AcceptedWhole(c)')
  BY DEF Kept, Sound, E!AcceptedWhole

LEMMA OpMoves ==
    ASSUME StackInv, NEW e \in Requests, NEW rec \in Calls, eOp' = [eOp EXCEPT ![e] = rec]
    PROVE  eOp' \in [Requests -> Calls] /\ eOp'[e] = rec /\ \A f \in Requests : f # e => eOp'[f] = eOp[f]
  BY DEF StackInv, OpsInv

LEMMA MovedKeeps ==
    ASSUME StackInv, Kept, FilesSound,
           NEW e \in Requests, NEW rec \in Calls, eOp' = [eOp EXCEPT ![e] = rec],
           rec.pc \in SshSteps => rec.pc \in StepSet /\ rec.job = "save" /\ Known,
           CallSound(e)',
           ePlaced' \subseteq ePlaced \cup {e}, e \in ePlaced' => rec.pc = "done" /\ (rec.heard => rec.reply = "ok"),
           ~eOverlapped' /\ E!Saving(e)' /\ ~E!Saving(e) => \A f \in Requests : ~E!Saving(f),
           ~eOverlapped' /\ (eFile' # eFile \/ ePrev' # ePrev) => E!Saving(e),
           ~eOverlapped' => CallAlone(e)'
    PROVE  StackInv'
<1>1. eOp' \in [Requests -> Calls] /\ eOp'[e] = rec /\ \A f \in Requests : f # e => eOp'[f] = eOp[f]
  BY OpMoves
<1>2. StepSet' = StepSet
  BY DEF Kept, StepSet
<1>3. OpsInv'
  BY <1>1, <1>2 DEF OpsInv, StackInv, FilesSound, Kept, Known
<1>4. E!TypeOK'
  <2>1. E!Range(E!Steps)' = StepSet'
    BY StepsAre DEF Kept, E!Steps, StepSet, E!Range
  <2>2. \A f \in Requests : eOp'[f].pc \in {"idle", "owner", "resolve", "up", "done"} \cup StepSet'
    BY <1>3 DEF OpsInv, Calls
  <2>3. ePlaced' \subseteq Requests
    BY DEF StackInv, E!TypeOK
  <2> QED
    BY <2>1, <2>2, <2>3 DEF E!TypeOK, Kept, FilesSound, Content
<1>5. ContentInv'
  <2>1. \A f \in Requests : CallSound(f)'
    <3>1. ASSUME NEW f \in Requests, f # e PROVE CallSound(f)'
      <4>1. eOp'[f] = eOp[f] /\ CallSound(f)
        BY <1>1, <3>1 DEF StackInv, ContentInv, CallSound
      <4> QED
        BY <4>1, SoundStays DEF CallSound
    <3> QED
      BY <3>1
  <2> QED
    BY <2>1 DEF ContentInv, CallSound, FilesSound
<1>6. PlacedInv'
  <2>1. \A f \in ePlaced : f \in Requests
    BY DEF StackInv, E!TypeOK
  <2> QED
    BY <1>1, <2>1 DEF StackInv, PlacedInv
<1>7. ASSUME ~eOverlapped' PROVE (\A f, g \in Requests : E!Saving(f)' /\ E!Saving(g)' => f = g)
  <2>1. \A f, g \in Requests : E!Saving(f) /\ E!Saving(g) => f = g
    BY <1>7 DEF StackInv, AloneInv, Kept
  <2>2. \A f \in Requests : f # e => (E!Saving(f)' <=> E!Saving(f))
    BY <1>1 DEF E!Saving
  <2> QED
    BY <1>7, <2>1, <2>2
<1>8. ASSUME ~eOverlapped', NEW f \in Requests, f # e PROVE CallAlone(f)'
  <2>1. eOp'[f] = eOp[f] /\ CallAlone(f)
    BY <1>1, <1>8 DEF StackInv, AloneInv, Kept, CallAlone
  <2>2. CASE E!Saving(f)
    <3>1. eFile' = eFile /\ ePrev' = ePrev
      BY <1>8, <2>2 DEF StackInv, AloneInv, Kept
    <3> QED
      BY <2>1, <3>1 DEF CallAlone, Kept, E!Backup, E!Read
  <2>3. CASE ~E!Saving(f)
    <3>1. eOp[f].pc \notin SshSteps
      BY <2>3 DEF StackInv, OpsInv, E!Saving, SshSteps, LocalSteps
    <3> QED
      BY <2>1, <3>1 DEF CallAlone, SshSteps, LocalSteps
  <2> QED
    BY <2>2, <2>3
<1>9. AloneInv'
  BY <1>7, <1>8 DEF AloneInv, CallAlone
<1> QED
  BY <1>3, <1>4, <1>5, <1>6, <1>9 DEF StackInv, E!BoundsOK

(* Nothing but the request moves.                                            *)
FileVars == <<eTarget, eOwned, eFile, ePrev, eTemps, eRunning, ePlaced, eCut>>

LEMMA StillFiles == ASSUME StackInv, UNCHANGED <<eFile, ePrev, eRunning, eTarget, eCut>> PROVE FilesSound
  BY DEF StackInv, OpsInv, ContentInv, FilesSound, Sound, E!AcceptedWhole

LEMMA FaultIs == ASSUME StackInv, E!Fault \/ eFaults' = eFaults PROVE eFaults' \in 0 .. StackFaults
  BY DEF StackInv, E!TypeOK, E!Fault, E!BoundsOK

LEMMA CallIs == ASSUME StackInv, NEW e \in Requests PROVE eOp[e] \in Calls
  BY DEF StackInv, OpsInv

(* A request that ends.                                                      *)
LEMMA EndKeeps ==
    ASSUME StackInv, Kept, FilesSound, NEW e \in Requests, NEW rec \in Calls, eOp' = [eOp EXCEPT ![e] = rec],
           rec.pc = "done", UNCHANGED <<eFile, ePrev>>,
           ePlaced' = ePlaced, e \notin ePlaced
    PROVE  StackInv'
<1>1. eOp'[e] = rec
  BY OpMoves
<1>2. CallSound(e)' /\ CallAlone(e)' /\ ~E!Saving(e)'
  BY <1>1 DEF CallSound, CallAlone, E!Saving, SshSteps, LocalSteps
<1>3. rec.pc \notin SshSteps
  BY DEF SshSteps, LocalSteps
<1> QED
  BY <1>2, <1>3, MovedKeeps

LEMMA ReplyIs ==
    ASSUME StackInv, NEW e \in Requests, NEW r \in {"none", "ok", "error"}, eOp' = E!Reply(e, r)
    PROVE  \E rec \in Calls : eOp' = [eOp EXCEPT ![e] = rec] /\ rec.pc = "done" /\ rec.reply = r
<1> DEFINE rec == [eOp[e] EXCEPT !.pc = "done", !.reply = r]
<1>1. rec \in Calls /\ rec.pc = "done" /\ rec.reply = r
  BY CallIs DEF Calls
<1>2. eOp' = [eOp EXCEPT ![e] = rec]
  BY DEF E!Reply, StackInv, OpsInv
<1> QED
  BY <1>1, <1>2

LEMMA NotPlaced == ASSUME StackInv, NEW e \in Requests, eOp[e].pc # "done" PROVE e \notin ePlaced
  BY DEF StackInv, PlacedInv

LEMMA AskKeeps ==
    ASSUME StackInv, NEW e \in Requests, NEW what \in {"save", "redeploy"}, NEW c, E!Ask(e, what, c)
    PROVE  StackInv'
<1> DEFINE rec == [E!NoOp EXCEPT !.pc = "owner", !.job = what, !.content = c]
<1>1. eOp[e].pc = "idle" /\ eOp' = [eOp EXCEPT ![e] = rec] /\ UNCHANGED FileVars /\ UNCHANGED <<eOverlapped, eFaults>>
  BY DEF E!Ask, FileVars
<1>2. c \in Content /\ Sound(c)
  <2>1. CASE c = E!Read(eFile)
    BY <2>1, ContentsAre DEF E!Read, StackInv, OpsInv, ContentInv, Sound
  <2>2. CASE \E v \in Versions : c = E!Whole(v)
    BY <2>2, ContentsAre DEF Sound
  <2> QED
    BY <2>1, <2>2 DEF E!Ask
<1>3. rec \in Calls /\ rec.pc = "owner" /\ rec.content = c
  BY <1>2, ContentsAre DEF Calls, E!NoOp
<1>4. Kept /\ FilesSound
  BY <1>1, StillFiles DEF Kept, FileVars, StackInv, E!TypeOK
<1>5. eOp'[e] = rec
  BY <1>1, <1>3, OpMoves
<1>6. CallSound(e)'
  BY <1>2, <1>3, <1>4, <1>5, SoundStays DEF CallSound
<1>7. CallAlone(e)' /\ ~E!Saving(e)' /\ rec.pc \notin SshSteps
  BY <1>3, <1>5 DEF CallAlone, E!Saving, SshSteps, LocalSteps
<1>8. e \notin ePlaced' /\ ePlaced' = ePlaced /\ eFile' = eFile /\ ePrev' = ePrev
  BY <1>1, NotPlaced DEF FileVars
<1> QED
  BY <1>1, <1>3, <1>4, <1>6, <1>7, <1>8, MovedKeeps

LEMMA OwnerKeeps ==
    ASSUME StackInv, NEW e \in Requests, E!managedByProject(e)
    PROVE  StackInv'
<1>1. eOp[e].pc = "owner" /\ UNCHANGED FileVars /\ UNCHANGED <<eOverlapped, eFaults>>
  BY DEF E!managedByProject, FileVars
<1>2. Kept /\ FilesSound /\ ePlaced' = ePlaced /\ e \notin ePlaced /\ UNCHANGED <<eFile, ePrev>>
  BY <1>1, StillFiles, NotPlaced DEF Kept, FileVars, StackInv, E!TypeOK
<1>3. CASE eOp' = E!Reply(e, "error")
  BY <1>2, <1>3, ReplyIs, EndKeeps
<1>4. CASE eOp' = [eOp EXCEPT ![e].pc = "resolve"]
  <2> DEFINE rec == [eOp[e] EXCEPT !.pc = "resolve"]
  <2>1. rec \in Calls /\ rec.pc = "resolve" /\ rec.content = eOp[e].content /\ eOp' = [eOp EXCEPT ![e] = rec]
    BY <1>4, CallIs DEF Calls, StackInv, OpsInv
  <2>2. eOp'[e] = rec
    BY <2>1, OpMoves
  <2>3. CallSound(e)'
    BY <1>1, <1>2, <2>1, <2>2, SoundStays DEF CallSound, StackInv, ContentInv
  <2>4. CallAlone(e)' /\ ~E!Saving(e)' /\ rec.pc \notin SshSteps
    BY <2>1, <2>2 DEF CallAlone, E!Saving, SshSteps, LocalSteps
  <2> QED
    BY <1>2, <2>1, <2>3, <2>4, MovedKeeps
<1> QED
  BY <1>3, <1>4 DEF E!managedByProject

LEMMA ResolveKeeps ==
    ASSUME StackInv, NEW e \in Requests, E!resolveStack(e)
    PROVE  StackInv'
<1>1. eOp[e].pc = "resolve" /\ UNCHANGED FileVars
  BY DEF E!resolveStack, FileVars
<1>2. FilesSound /\ ePlaced' = ePlaced /\ e \notin ePlaced /\ UNCHANGED <<eFile, ePrev>>
  BY <1>1, StillFiles, NotPlaced DEF FileVars
<1>3. Kept
  <2>1. eOverlapped' \in BOOLEAN /\ (eOverlapped => eOverlapped')
    BY DEF E!resolveStack, StackInv, E!TypeOK
  <2>2. eFaults' \in 0 .. StackFaults
    BY FaultIs DEF E!resolveStack
  <2> QED
    BY <1>1, <2>1, <2>2 DEF Kept, FileVars, StackInv, E!TypeOK
<1>4. CASE /\ eOp' = [eOp EXCEPT ![e].pc = "temp", ![e].got = E!Read(eFile)]
           /\ eOverlapped' = (eOverlapped \/ \E f \in Requests : E!Saving(f))
           /\ eOp[e].job = "save" /\ E!Editable
  <2> DEFINE rec == [eOp[e] EXCEPT !.pc = "temp", !.got = E!Read(eFile)]
  <2>1. E!Read(eFile) \in Content
    BY ContentsAre DEF E!Read, StackInv, OpsInv
  <2>2. rec \in Calls /\ eOp' = [eOp EXCEPT ![e] = rec]
    BY <1>4, <2>1, CallIs DEF Calls, StackInv, OpsInv, SshSteps, LocalSteps
  <2>3. rec.pc = "temp" /\ rec.content = eOp[e].content /\ rec.got = E!Read(eFile) /\ rec.job = "save"
    BY <1>4, CallIs DEF Calls
  <2>4. eOp'[e] = rec
    BY <2>2, OpMoves
  <2>5. CallSound(e)'
    BY <1>1, <1>3, <2>3, <2>4, SoundStays DEF CallSound, StackInv, ContentInv
  <2>6. CallAlone(e)'
    BY <1>1, <2>3, <2>4 DEF CallAlone, E!Read, FileVars
  <2>7. rec.pc \in StepSet /\ Known
    BY <1>4, <2>3 DEF StepSet, SshSteps, LocalSteps, Known, E!Editable
  <2>8. ~eOverlapped' => \A f \in Requests : ~E!Saving(f)
    BY <1>4
  <2> QED
    BY <1>2, <1>3, <2>2, <2>3, <2>5, <2>6, <2>7, <2>8, MovedKeeps
<1>5. CASE eOp' = [eOp EXCEPT ![e].pc = "up"] /\ eOp[e].job = "redeploy"
  <2> DEFINE rec == [eOp[e] EXCEPT !.pc = "up"]
  <2>1. rec \in Calls /\ rec.pc = "up" /\ rec.job = "redeploy" /\ eOp' = [eOp EXCEPT ![e] = rec]
    BY <1>5, CallIs DEF Calls, StackInv, OpsInv
  <2>2. eOp'[e] = rec
    BY <2>1, OpMoves
  <2>3. CallSound(e)' /\ CallAlone(e)' /\ ~E!Saving(e)' /\ rec.pc \notin SshSteps
    BY <2>1, <2>2 DEF CallSound, CallAlone, E!Saving, SshSteps, LocalSteps
  <2> QED
    BY <1>2, <1>3, <2>1, <2>3, MovedKeeps
<1>6. CASE eOp' = E!Reply(e, "error")
  BY <1>2, <1>3, <1>6, ReplyIs, EndKeeps
<1> QED
  BY <1>4, <1>5, <1>6 DEF E!resolveStack

(* A save goes from one step to the next.                                    *)
LEMMA InStep ==
    ASSUME StackInv, NEW e \in Requests, eOp[e].pc \in SshSteps
    PROVE  eOp[e].pc \in StepSet /\ eOp[e].job = "save" /\ Known /\ E!Saving(e) /\ e \notin ePlaced /\ Sound(eOp[e].content)
<1>1. eOp[e].pc \in StepSet /\ eOp[e].job = "save" /\ Known
  BY DEF StackInv, OpsInv
<1>2. E!Saving(e) /\ eOp[e].pc # "done"
  BY <1>1 DEF E!Saving, SshSteps, LocalSteps
<1>3. Sound(eOp[e].content)
  BY DEF StackInv, ContentInv
<1> QED
  BY <1>1, <1>2, <1>3, NotPlaced

Same(rec, old) == rec.got = old.got /\ rec.bak = old.bak /\ rec.heard = old.heard /\ rec.job = old.job

LEMMA GoIs ==
    ASSUME StackInv, NEW e \in Requests, eOp[e].pc \in SshSteps, E!Go(e)
    PROVE  \E rec \in Calls : /\ eOp' = [eOp EXCEPT ![e] = rec] /\ rec.pc = After(eOp[e].pc)
                              /\ rec.content = eOp[e].content /\ Same(rec, eOp[e])
                              /\ (rec.pc = "done" /\ rec.heard => rec.reply = "ok")
<1>1. E!Following(eOp[e].pc) = After(eOp[e].pc)
  BY InStep, FollowingIs
<1> DEFINE answer == IF After(eOp[e].pc) = "done" THEN E!Done(e) ELSE eOp[e].reply
           rec == [eOp[e] EXCEPT !.pc = After(eOp[e].pc), !.reply = answer]
<1>2. eOp[e] \in Calls
  BY CallIs
<1>3. After(eOp[e].pc) \in SshSteps \cup {"done"}
  BY DEF After, SshSteps, LocalSteps
<1>4. answer \in {"none", "ok", "error"}
  BY <1>2 DEF E!Done, Calls
<1>5. rec \in Calls
  BY <1>2, <1>3, <1>4 DEF Calls
<1>6. eOp' = [eOp EXCEPT ![e] = rec]
  BY <1>1 DEF E!Go, StackInv, OpsInv
<1>7. rec.pc = After(eOp[e].pc) /\ rec.content = eOp[e].content /\ Same(rec, eOp[e]) /\ rec.reply = answer
  BY <1>2 DEF Calls, Same
<1>8. rec.pc = "done" /\ rec.heard => rec.reply = "ok"
  BY <1>7 DEF Same, E!Done
<1> QED
  BY <1>5, <1>6, <1>7, <1>8

(* A step that leaves the file where it is.                                  *)
LEMMA StepOnKeeps ==
    ASSUME StackInv, Kept, NEW e \in Requests, eOp[e].pc \in SshSteps,
           NEW rec \in Calls, eOp' = [eOp EXCEPT ![e] = rec],
           rec.pc \in StepSet \cap SshSteps, rec.job = "save", CallSound(e)',
           ePrev' \in Content, UNCHANGED <<eFile, eRunning, ePlaced>>,
           ~eOverlapped' => CallAlone(e)'
    PROVE  StackInv'
<1>1. E!Saving(e) /\ e \notin ePlaced' /\ Known
  BY InStep
<1>2. FilesSound
  BY SoundStays DEF FilesSound, StackInv, OpsInv, ContentInv, Sound, E!AcceptedWhole
<1> QED
  BY <1>1, <1>2, MovedKeeps

StepKept == UNCHANGED <<eTarget, eOwned, eRunning, eOverlapped, eFaults>>

LEMMA TempKeeps ==
    ASSUME StackInv, NEW e \in Requests, eOp[e].pc = "temp", eTemps' = eTemps \cup {e}, E!Go(e),
           UNCHANGED <<eFile, ePrev, ePlaced, eCut>>, StepKept
    PROVE  StackInv'
<1>1. eOp[e].pc \in SshSteps
  BY DEF SshSteps, LocalSteps
<1>2. PICK rec \in Calls : eOp' = [eOp EXCEPT ![e] = rec] /\ rec.pc = After(eOp[e].pc)
                           /\ rec.content = eOp[e].content /\ Same(rec, eOp[e])
  BY <1>1, GoIs
<1>3. Kept
  BY DEF Kept, StackInv, E!TypeOK, StepKept
<1>4. rec.pc = IF eTarget.kind = "ssh" THEN "copy" ELSE "config"
  BY <1>2 DEF After
<1>5. rec.pc \in StepSet \cap SshSteps /\ rec.job = "save"
  BY <1>1, <1>2, <1>4, InStep DEF StepSet, SshSteps, LocalSteps, Same
<1>6. eOp'[e] = rec
  BY <1>2, OpMoves
<1>7. CallSound(e)'
  BY <1>1, <1>2, <1>3, <1>4, <1>6, InStep, SoundStays DEF CallSound
<1>8. ~eOverlapped' => CallAlone(e)'
  BY <1>1, <1>2, <1>4, <1>6 DEF CallAlone, StackInv, AloneInv, StepKept, E!Read, Same, LocalSteps
<1>9. ePrev' \in Content
  BY DEF StackInv, OpsInv
<1> QED
  BY <1>1, <1>2, <1>3, <1>5, <1>7, <1>8, <1>9, StepOnKeeps DEF StepKept

LEMMA CopyKeeps ==
    ASSUME StackInv, NEW e \in Requests, eOp[e].pc = "copy", eOp' = [eOp EXCEPT ![e].pc = "cat", ![e].bak = eFile],
           UNCHANGED <<eFile, ePrev, eTemps, ePlaced, eCut>>, StepKept
    PROVE  StackInv'
<1>1. eOp[e].pc \in SshSteps
  BY DEF SshSteps, LocalSteps
<1> DEFINE rec == [eOp[e] EXCEPT !.pc = "cat", !.bak = eFile]
<1>2. rec \in Calls /\ eOp' = [eOp EXCEPT ![e] = rec]
  BY CallIs DEF Calls, StackInv, OpsInv, SshSteps, LocalSteps
<1>3. rec.pc = "cat" /\ rec.bak = eFile /\ rec.content = eOp[e].content /\ rec.job = eOp[e].job
  BY CallIs DEF Calls
<1>4. Kept
  BY DEF Kept, StackInv, E!TypeOK, StepKept
<1>5. eTarget.kind = "ssh"
  BY <1>1, InStep DEF StepSet, LocalSteps
<1>6. rec.pc \in StepSet \cap SshSteps /\ rec.job = "save"
  BY <1>1, <1>3, <1>5, InStep DEF StepSet, SshSteps, LocalSteps
<1>7. eOp'[e] = rec
  BY <1>2, OpMoves
<1>8. CallSound(e)'
  BY <1>1, <1>3, <1>4, <1>7, InStep, SoundStays DEF CallSound
<1>9. CallAlone(e)'
  BY <1>3, <1>5, <1>7 DEF CallAlone, StepKept
<1>10. ePrev' \in Content
  BY DEF StackInv, OpsInv
<1> QED
  BY <1>1, <1>2, <1>4, <1>6, <1>8, <1>9, <1>10, StepOnKeeps DEF StepKept

LEMMA CatKeeps ==
    ASSUME StackInv, NEW e \in Requests, eOp[e].pc = "cat",
           \/ E!Go(e) /\ UNCHANGED eCut
           \/ /\ ~eOp[e].heard /\ eCut' = TRUE
              /\ eOp' = [eOp EXCEPT ![e].pc = "config", ![e].content = E!Begun(@)],
           UNCHANGED <<eFile, ePrev, eTemps, ePlaced>>, StepKept
    PROVE  StackInv'
<1>1. eOp[e].pc \in SshSteps
  BY DEF SshSteps, LocalSteps
<1>2. PICK rec \in Calls : /\ eOp' = [eOp EXCEPT ![e] = rec] /\ rec.pc = "config" /\ Same(rec, eOp[e])
                           /\ rec.content = eOp[e].content \/ (eCut' = TRUE /\ rec.content = E!Begun(eOp[e].content))
  <2>1. CASE E!Go(e)
    BY <1>1, <2>1, GoIs DEF After
  <2>2. CASE eCut' = TRUE /\ eOp' = [eOp EXCEPT ![e].pc = "config", ![e].content = E!Begun(@)]
    <3> DEFINE rec == [eOp[e] EXCEPT !.pc = "config", !.content = E!Begun(eOp[e].content)]
    <3>1. eOp[e] \in Calls /\ eOp[e].content \in Content /\ E!Begun(eOp[e].content) \in Content
      BY CallIs, ContentsAre DEF Calls
    <3>2. rec \in Calls /\ rec.pc = "config" /\ Same(rec, eOp[e]) /\ rec.content = E!Begun(eOp[e].content)
      BY <3>1 DEF Calls, Same, SshSteps, LocalSteps
    <3>3. eOp' = [eOp EXCEPT ![e] = rec]
      BY <2>2 DEF StackInv, OpsInv
    <3> QED
      BY <2>2, <3>2, <3>3
  <2> QED
    BY <2>1, <2>2
<1>3. Kept
  BY DEF Kept, StackInv, E!TypeOK, StepKept
<1>4. eTarget.kind = "ssh"
  BY <1>1, InStep DEF StepSet, LocalSteps
<1>5. rec.pc \in StepSet \cap SshSteps /\ rec.job = "save"
  BY <1>1, <1>2, <1>4, InStep DEF StepSet, SshSteps, LocalSteps, Same
<1>6. eOp'[e] = rec
  BY <1>2, OpMoves
<1>7. Sound(rec.content)'
  <2>1. CASE rec.content = eOp[e].content
    BY <1>1, <1>3, <2>1, InStep, SoundStays
  <2>2. CASE eCut' = TRUE /\ rec.content = E!Begun(eOp[e].content)
    BY <2>2, CallIs, ContentsAre DEF Sound, Calls
  <2> QED
    BY <1>2, <2>1, <2>2
<1>8. CallSound(e)'
  BY <1>2, <1>6, <1>7 DEF CallSound
<1>9. ~eOverlapped' => CallAlone(e)'
  BY <1>2, <1>4, <1>6 DEF CallAlone, StackInv, AloneInv, StepKept, Same
<1>10. ePrev' \in Content
  BY DEF StackInv, OpsInv
<1> QED
  BY <1>1, <1>2, <1>3, <1>5, <1>8, <1>9, <1>10, StepOnKeeps DEF StepKept

LEMMA ConfigKeeps ==
    ASSUME StackInv, NEW e \in Requests, eOp[e].pc = "config", E!Accepts(eOp[e].content), E!Go(e),
           UNCHANGED <<eFile, ePrev, eTemps, ePlaced, eCut>>, StepKept
    PROVE  StackInv'
<1>1. eOp[e].pc \in SshSteps
  BY DEF SshSteps, LocalSteps
<1>2. PICK rec \in Calls : eOp' = [eOp EXCEPT ![e] = rec] /\ rec.pc = After(eOp[e].pc)
                           /\ rec.content = eOp[e].content /\ Same(rec, eOp[e])
  BY <1>1, GoIs
<1>3. Kept
  BY DEF Kept, StackInv, E!TypeOK, StepKept
<1>4. rec.pc = "backup"
  BY <1>2 DEF After
<1>5. rec.pc \in StepSet \cap SshSteps /\ rec.job = "save"
  BY <1>1, <1>2, <1>4, InStep DEF StepSet, SshSteps, LocalSteps, Same
<1>6. eOp'[e] = rec
  BY <1>2, OpMoves
<1>7. Sound(eOp[e].content) /\ E!AcceptedWhole(eOp[e].content)
  BY <1>1, InStep DEF E!Accepts, Sound, E!AcceptedWhole
<1>8. CallSound(e)'
  BY <1>2, <1>3, <1>6, <1>7, SoundStays DEF CallSound
<1>9. ~eOverlapped' => CallAlone(e)'
  BY <1>1, <1>2, <1>4, <1>6 DEF CallAlone, StackInv, AloneInv, StepKept, E!Read, Same, LocalSteps
<1>10. ePrev' \in Content
  BY DEF StackInv, OpsInv
<1> QED
  BY <1>1, <1>2, <1>3, <1>5, <1>8, <1>9, <1>10, StepOnKeeps DEF StepKept

LEMMA BackupKeeps ==
    ASSUME StackInv, NEW e \in Requests, eOp[e].pc = "backup", ePrev' = E!Backup(e), E!Go(e),
           eTemps' \in {eTemps, eTemps \ {e}}, UNCHANGED <<eFile, ePlaced, eCut>>, StepKept
    PROVE  StackInv'
<1>1. eOp[e].pc \in SshSteps
  BY DEF SshSteps, LocalSteps
<1>2. PICK rec \in Calls : eOp' = [eOp EXCEPT ![e] = rec] /\ rec.pc = After(eOp[e].pc)
                           /\ rec.content = eOp[e].content /\ Same(rec, eOp[e])
  BY <1>1, GoIs
<1>3. Kept
  BY DEF Kept, StackInv, E!TypeOK, StepKept
<1>4. rec.pc = "rename"
  BY <1>2 DEF After
<1>5. rec.pc \in StepSet \cap SshSteps /\ rec.job = "save"
  BY <1>1, <1>2, <1>4, InStep DEF StepSet, SshSteps, LocalSteps, Same
<1>6. eOp'[e] = rec
  BY <1>2, OpMoves
<1>7. Sound(eOp[e].content) /\ E!AcceptedWhole(eOp[e].content)
  BY <1>1, InStep DEF StackInv, ContentInv
<1>8. CallSound(e)'
  BY <1>2, <1>3, <1>6, <1>7, SoundStays DEF CallSound
<1>9. ~eOverlapped' => CallAlone(e)'
  BY <1>1, <1>2, <1>4, <1>6 DEF CallAlone, StackInv, AloneInv, StepKept, E!Read, Same, LocalSteps, E!Backup
<1>10. ePrev' \in Content
  BY CallIs DEF E!Backup, Calls
<1> QED
  BY <1>1, <1>2, <1>3, <1>5, <1>8, <1>9, <1>10, StepOnKeeps DEF StepKept

LEMMA RenameKeeps ==
    ASSUME StackInv, NEW e \in Requests, eOp[e].pc = "rename", eFile' = eOp[e].content, ePlaced' = ePlaced \cup {e},
           E!Go(e), eTemps' = eTemps \ {e}, UNCHANGED <<ePrev, eCut>>, StepKept
    PROVE  StackInv'
<1>1. eOp[e].pc \in SshSteps
  BY DEF SshSteps, LocalSteps
<1>2. PICK rec \in Calls : eOp' = [eOp EXCEPT ![e] = rec] /\ rec.pc = After(eOp[e].pc)
                           /\ (rec.pc = "done" /\ rec.heard => rec.reply = "ok")
  BY <1>1, GoIs
<1>3. Kept
  BY DEF Kept, StackInv, E!TypeOK, StepKept
<1>4. rec.pc = "done" /\ rec.pc \notin SshSteps
  BY <1>2 DEF After, SshSteps, LocalSteps
<1>5. eOp'[e] = rec
  BY <1>2, OpMoves
<1>6. Sound(eOp[e].content) /\ E!AcceptedWhole(eOp[e].content) /\ eOp[e].content \in Content
  BY <1>1, InStep, CallIs DEF StackInv, ContentInv, Calls
<1>7. FilesSound
  <2>1. E!AcceptedWhole(eRunning)' /\ eRunning' \in Content /\ ePrev' \in Content
    BY <1>3, SoundStays DEF StackInv, ContentInv, OpsInv, StepKept, E!AcceptedWhole
  <2>2. Sound(eFile)' /\ E!AcceptedWhole(eFile)' /\ eFile' \in Content
    BY <1>3, <1>6, SoundStays DEF Sound, E!AcceptedWhole
  <2> QED
    BY <2>1, <2>2 DEF FilesSound
<1>8. CallSound(e)' /\ CallAlone(e)' /\ ~E!Saving(e)'
  BY <1>4, <1>5 DEF CallSound, CallAlone, E!Saving, SshSteps, LocalSteps
<1>9. E!Saving(e)
  BY <1>1, InStep
<1> QED
  BY <1>2, <1>3, <1>4, <1>7, <1>8, <1>9, MovedKeeps

LEMMA StepKeeps == ASSUME StackInv, NEW e \in Requests, E!Step(e) PROVE StackInv'
<1>1. StepKept
  BY DEF E!Step, StepKept
<1>2. CASE eOp[e].pc = "temp"
  BY <1>1, <1>2, TempKeeps DEF E!Step
<1>3. CASE eOp[e].pc = "copy"
  BY <1>1, <1>3, CopyKeeps DEF E!Step
<1>4. CASE eOp[e].pc = "cat"
  BY <1>1, <1>4, CatKeeps DEF E!Step
<1>5. CASE eOp[e].pc = "config"
  BY <1>1, <1>5, ConfigKeeps DEF E!Step
<1>6. CASE eOp[e].pc = "backup"
  BY <1>1, <1>6, BackupKeeps DEF E!Step
<1>7. CASE eOp[e].pc = "rename"
  BY <1>1, <1>7, RenameKeeps DEF E!Step
<1> QED
  BY <1>2, <1>3, <1>4, <1>5, <1>6, <1>7 DEF E!Step

LEMMA FailKeeps == ASSUME StackInv, NEW e \in Requests, E!StepFails(e) PROVE StackInv'
<1>1. eOp[e].pc \in SshSteps /\ eOp' = E!Reply(e, "error") /\ eTemps' = eTemps \ {e}
  BY StepsAre DEF E!StepFails, StepSet, SshSteps
<1>2. UNCHANGED <<eTarget, eOwned, eFile, ePrev, eRunning, ePlaced, eOverlapped, eCut>>
  BY DEF E!StepFails
<1>3. eFaults' \in 0 .. StackFaults
  BY FaultIs DEF E!StepFails
<1>4. Kept /\ FilesSound /\ e \notin ePlaced
  BY <1>1, <1>2, <1>3, StillFiles, InStep DEF Kept, StackInv, E!TypeOK
<1> QED
  BY <1>1, <1>2, <1>4, ReplyIs, EndKeeps

LEMMA UpKeeps == ASSUME StackInv, NEW e \in Requests, E!Up(e) PROVE StackInv'
<1>1. eOp[e].pc = "up" /\ UNCHANGED <<eTarget, eOwned, eFile, ePrev, eTemps, ePlaced, eOverlapped, eCut>>
  BY DEF E!Up
<1>2. eFaults' \in 0 .. StackFaults
  BY FaultIs DEF E!Up
<1>3. Kept /\ e \notin ePlaced
  BY <1>1, <1>2, NotPlaced DEF Kept, StackInv, E!TypeOK
<1>4. eRunning' \in {eFile, eRunning}
  BY DEF E!Up
<1>5. FilesSound
  BY <1>1, <1>4 DEF StackInv, OpsInv, ContentInv, FilesSound, Sound, E!AcceptedWhole
<1>6. E!Done(e) \in {"none", "ok", "error"} /\ (eOp' = E!Reply(e, E!Done(e)) \/ eOp' = E!Reply(e, "error"))
  BY CallIs DEF E!Done, Calls, E!Up
<1> QED
  BY <1>1, <1>3, <1>5, <1>6, ReplyIs, EndKeeps

(* A handler that leaves its script, or a request that was not yet placed.   *)
LEMMA GiveUpKeeps == ASSUME StackInv, NEW e \in Requests, E!GiveUp(e) PROVE StackInv'
<1>1. eOp[e].pc \in SshSteps \cup {"up"}
  BY StepsAre DEF E!GiveUp, StepSet, SshSteps
<1>2. UNCHANGED <<eTarget, eOwned, eFile, ePrev, eTemps, eRunning, ePlaced, eOverlapped, eCut>>
  BY DEF E!GiveUp
<1> DEFINE rec == [eOp[e] EXCEPT !.heard = FALSE, !.reply = "error"]
<1>3. rec \in Calls /\ eOp' = [eOp EXCEPT ![e] = rec]
  BY CallIs DEF E!GiveUp, Calls, StackInv, OpsInv
<1>4. /\ rec.pc = eOp[e].pc /\ rec.job = eOp[e].job /\ rec.content = eOp[e].content
      /\ rec.got = eOp[e].got /\ rec.bak = eOp[e].bak
  BY CallIs DEF Calls
<1>5. eFaults' \in 0 .. StackFaults
  BY FaultIs DEF E!GiveUp
<1>6. eOp[e].pc # "done"
  BY <1>1 DEF SshSteps, LocalSteps
<1>7. Kept /\ FilesSound /\ e \notin ePlaced
  BY <1>2, <1>5, <1>6, StillFiles, NotPlaced DEF Kept, StackInv, E!TypeOK
<1>8. eOp'[e] = rec
  BY <1>3, OpMoves
<1>9. CallSound(e) /\ (~eOverlapped => CallAlone(e))
  BY DEF StackInv, ContentInv, AloneInv, CallSound, CallAlone
<1>10. CallSound(e)'
  BY <1>4, <1>7, <1>8, <1>9, SoundStays DEF CallSound
<1>11. ~eOverlapped' => CallAlone(e)'
  BY <1>2, <1>4, <1>8, <1>9 DEF CallAlone, E!Backup, E!Read
<1>12. E!Saving(e)' <=> E!Saving(e)
  BY <1>4, <1>8 DEF E!Saving
<1>13. rec.pc \in SshSteps => rec.pc \in StepSet /\ rec.job = "save" /\ Known
  BY <1>4, InStep
<1> QED
  BY <1>2, <1>3, <1>7, <1>10, <1>11, <1>12, <1>13, MovedKeeps

(* The server is killed: a request stays as it was, loses its listener, or   *)
(* ends.                                                                     *)
Lost(e) == eOp'[e].heard = FALSE /\ eOp'[e].pc = eOp[e].pc /\ eOp'[e].pc # "done"
LEMMA KillIs ==
    ASSUME StackInv, E!Kill, NEW e \in Requests
    PROVE  /\ eOp'[e] \in Calls /\ eOp'[e].content = eOp[e].content /\ eOp'[e].got = eOp[e].got
           /\ eOp'[e].bak = eOp[e].bak /\ eOp'[e].job = eOp[e].job
           /\ eOp'[e] = eOp[e] \/ Lost(e) \/ (eOp'[e].pc = "done" /\ eOp[e].pc # "done")
<1>1. eOp[e] \in Calls
  BY CallIs
<1>2. CASE eOp[e].pc \in {"idle", "done"}
  <2>1. eOp[e].pc \notin E!Range(E!Steps) \cup {"up"}
    BY <1>2, StepsAre DEF StepSet, SshSteps, LocalSteps
  <2>2. eOp'[e] = eOp[e]
    BY <1>2, <2>1 DEF E!Kill
  <2> QED
    BY <1>1, <2>2
<1>3. CASE eOp[e].pc \notin {"idle", "done"} /\ eTarget.kind = "ssh" /\ eOp[e].pc \in E!Range(E!Steps) \cup {"up"}
  <2>1. eOp'[e] = [eOp[e] EXCEPT !.heard = FALSE, !.reply = "none"]
    BY <1>3 DEF E!Kill
  <2> QED
    BY <1>1, <1>3, <2>1 DEF Calls, Lost
<1>4. CASE eOp[e].pc \notin {"idle", "done"} /\ ~(eTarget.kind = "ssh" /\ eOp[e].pc \in E!Range(E!Steps) \cup {"up"})
  <2>1. eOp'[e] = [eOp[e] EXCEPT !.pc = "done"]
    BY <1>4 DEF E!Kill
  <2> QED
    BY <1>1, <1>4, <2>1 DEF Calls
<1> QED
  BY <1>2, <1>3, <1>4

LEMMA KillKeeps == ASSUME StackInv, E!Kill PROVE StackInv'
<1>1. UNCHANGED <<eTarget, eOwned, eFile, ePrev, eTemps, eRunning, ePlaced, eOverlapped, eCut>>
  BY DEF E!Kill
<1>2. eFaults' \in 0 .. StackFaults
  BY FaultIs DEF E!Kill
<1>3. Kept /\ FilesSound
  BY <1>1, <1>2, StillFiles DEF Kept, StackInv, E!TypeOK
<1>4. eOp' \in [Requests -> Calls]
  <2> DEFINE Killed(e) ==
        CASE eOp[e].pc \in {"idle", "done"} -> eOp[e]
          [] eTarget.kind = "ssh" /\ eOp[e].pc \in E!Range(E!Steps) \cup {"up"} ->
               [eOp[e] EXCEPT !.heard = FALSE, !.reply = "none"]
          [] OTHER -> [eOp[e] EXCEPT !.pc = "done"]
  <2>1. eOp' = [e \in Requests |-> Killed(e)]
    BY DEF E!Kill
  <2> HIDE DEF Killed
  <2>2. \A e \in Requests : Killed(e) \in Calls
    BY <2>1, KillIs
  <2> QED
    BY <2>1, <2>2
<1>5. \A e \in Requests : eOp'[e].pc = eOp[e].pc \/ eOp'[e].pc = "done"
  BY KillIs DEF Lost
<1>6. StepSet' = StepSet /\ E!Range(E!Steps)' = E!Range(E!Steps)
  BY <1>1 DEF StepSet, E!Range, E!Steps
<1>7. OpsInv'
  <2>1. ASSUME NEW e \in Requests, eOp'[e].pc \in SshSteps PROVE eOp'[e].pc \in StepSet' /\ eOp'[e].job = "save" /\ Known'
    <3>1. eOp'[e].pc = eOp[e].pc /\ eOp'[e].job = eOp[e].job
      BY <1>5, <2>1, KillIs DEF SshSteps, LocalSteps
    <3> QED
      BY <1>1, <1>6, <2>1, <3>1 DEF StackInv, OpsInv, Known
  <2> QED
    BY <1>1, <1>4, <2>1 DEF StackInv, OpsInv
<1>8. E!TypeOK'
  BY <1>1, <1>2, <1>5, <1>6 DEF StackInv, E!TypeOK
<1>9. ContentInv'
  <2>1. \A e \in Requests : CallSound(e)'
    <3>1. ASSUME NEW e \in Requests PROVE CallSound(e)'
      <4>1. CallSound(e) /\ eOp'[e].content = eOp[e].content
        BY KillIs DEF StackInv, ContentInv, CallSound
      <4>2. CASE eOp'[e].pc = eOp[e].pc
        BY <1>3, <4>1, <4>2, SoundStays DEF CallSound
      <4>3. CASE eOp'[e].pc = "done"
        BY <4>3 DEF CallSound, SshSteps, LocalSteps
      <4> QED
        BY <1>5, <4>2, <4>3
    <3> QED
      BY <3>1
  <2> QED
    BY <1>3, <2>1 DEF ContentInv, CallSound, FilesSound
<1>10. PlacedInv'
  <2>1. \A e \in ePlaced : eOp'[e] = eOp[e]
    BY KillIs DEF StackInv, PlacedInv, E!TypeOK, Lost
  <2> QED
    BY <1>1, <2>1 DEF StackInv, PlacedInv
<1>11. AloneInv'
  <2>1. \A e \in Requests : E!Saving(e)' => E!Saving(e)
    BY <1>5, KillIs DEF E!Saving
  <2>2. ASSUME ~eOverlapped, NEW e \in Requests PROVE CallAlone(e)'
    <3>1. CallAlone(e)
      BY <2>2 DEF StackInv, AloneInv, CallAlone
    <3>2. eOp'[e].got = eOp[e].got /\ eOp'[e].bak = eOp[e].bak
      BY KillIs
    <3>3. CASE eOp'[e].pc = eOp[e].pc
      BY <1>1, <3>1, <3>2, <3>3 DEF CallAlone, E!Backup, E!Read
    <3>4. CASE eOp'[e].pc = "done"
      BY <3>4 DEF CallAlone, LocalSteps
    <3> QED
      BY <1>5, <3>3, <3>4
  <2> QED
    BY <1>1, <2>1, <2>2 DEF StackInv, AloneInv, CallAlone
<1> QED
  BY <1>7, <1>8, <1>9, <1>10, <1>11 DEF StackInv, E!BoundsOK

LEMMA HostKeeps == ASSUME StackInv, E!HostEdits PROVE StackInv'
<1>1. PICK v \in Versions \ Rejected : eFile' = E!Whole(v)
  BY DEF E!HostEdits
<1>2. UNCHANGED <<eTarget, eOwned, ePrev, eTemps, eRunning, eOp, ePlaced, eCut>>
  BY DEF E!HostEdits
<1>3. eOverlapped' = (eOverlapped \/ \E e \in Requests : E!Saving(e)) /\ eFaults' \in 0 .. StackFaults
  BY FaultIs DEF E!HostEdits
<1>4. eFile' \in Content /\ eFile'.part = "whole" /\ eFile'.v = v
  BY <1>1, ContentsAre
<1>5. StepSet' = StepSet /\ E!Range(E!Steps)' = E!Range(E!Steps)
  BY <1>2 DEF StepSet, E!Range, E!Steps
<1>6. E!TypeOK' /\ OpsInv'
  BY <1>2, <1>3, <1>4, <1>5 DEF StackInv, E!TypeOK, OpsInv, Known
<1>7. ContentInv' /\ PlacedInv'
  BY <1>1, <1>2, <1>4 DEF StackInv, ContentInv, PlacedInv, Sound, E!AcceptedWhole
<1>8. AloneInv'
  <2>1. ASSUME ~eOverlapped', NEW e \in Requests PROVE CallAlone(e)' /\ ~E!Saving(e)'
    <3>1. ~E!Saving(e)
      BY <1>3, <2>1
    <3>2. eOp[e].pc \notin SshSteps
      BY <3>1, InStep
    <3> QED
      BY <1>2, <3>1, <3>2 DEF CallAlone, E!Saving, SshSteps, LocalSteps
  <2> QED
    BY <2>1 DEF AloneInv, CallAlone
<1> QED
  BY <1>6, <1>7, <1>8 DEF StackInv, E!BoundsOK

LEMMA ProjectKeeps == ASSUME StackInv, E!CreateProject PROVE StackInv'
<1>1. eOwned' = TRUE /\ UNCHANGED <<eTarget, eFile, ePrev, eTemps, eRunning, eOp, ePlaced, eOverlapped, eCut, eFaults>>
  BY DEF E!CreateProject
<1> QED
  BY <1>1 DEF StackInv, E!BoundsOK, E!TypeOK, OpsInv, ContentInv, PlacedInv, AloneInv, E!Steps,
     E!Range, StepSet,
              Sound, E!AcceptedWhole, E!Saving, E!Read, E!Backup, Known

LEMMA StackStep == ASSUME StackInv, [E!Next]_E!vars PROVE StackInv'
<1>1. CASE UNCHANGED E!vars
  BY <1>1 DEF E!vars, StackInv, E!BoundsOK, E!TypeOK, OpsInv, ContentInv, PlacedInv, AloneInv, E!Steps,
     E!Range, StepSet,
              Sound, E!AcceptedWhole, E!Saving, E!Read, E!Backup, Known
<1>2. CASE E!Next
  BY <1>2, AskKeeps, OwnerKeeps, ResolveKeeps, StepKeeps, FailKeeps, UpKeeps, GiveUpKeeps,
     KillKeeps, HostKeeps, ProjectKeeps DEF E!Next
<1> QED
  BY <1>1, <1>2

(* What the invariant says of the properties.                                *)
LEMMA StackEnough == ASSUME StackInv PROVE E!TypeOK /\ E!FileIsAccepted /\ E!RefusedIsNotApplied
  BY DEF StackInv, ContentInv, PlacedInv, E!FileIsAccepted, E!RefusedIsNotApplied

LEMMA StackReplaces == ASSUME StackInv, [E!Next]_E!vars PROVE E!KeepsReplaced
<1> SUFFICES ASSUME NEW e \in Requests, E!Replaces(e), ~eOverlapped, ~(eTarget.big /\ eTarget.kind = "local")
             PROVE  ePrev = eFile
  BY DEF E!KeepsReplaced
<1>1. eOp[e].pc = "rename" /\ Known
  BY InStep DEF E!Replaces, SshSteps, LocalSteps
<1>2. ePrev = E!Backup(e)
  BY <1>1 DEF StackInv, AloneInv
<1>3. CASE eTarget.kind = "ssh"
  BY <1>1, <1>2, <1>3 DEF StackInv, AloneInv, E!Backup
<1>4. CASE eTarget.kind # "ssh"
  <2>1. eOp[e].got = E!Read(eFile)
    BY <1>1, <1>4 DEF StackInv, AloneInv, LocalSteps
  <2> QED
    BY <1>1, <1>2, <1>4, <2>1 DEF E!Backup, E!Read, Known
<1> QED
  BY <1>3, <1>4

(* The invariant holds throughout, for every set of requests, contents and   *)
(* targets.                                                                  *)
THEOREM StackInvariance == ASSUME E!BoundsOK PROVE E!Spec => []StackInv
<1>1. E!Init => StackInv
  BY StackInit
<1>2. StackInv /\ [E!Next]_E!vars => StackInv'
  BY StackStep
<1> QED
  BY <1>1, <1>2, PTL DEF E!Spec

(* The stack's file is one compose accepted, whole unless an upload was cut, *)
(* a refused save changed nothing, and a save alone keeps what it replaces.  *)
THEOREM StackSound ==
    ASSUME E!BoundsOK
    PROVE  E!Spec => [](E!TypeOK /\ E!FileIsAccepted /\ E!RefusedIsNotApplied) /\ [][E!KeepsReplaced]_E!vars
<1>1. StackInv => E!TypeOK /\ E!FileIsAccepted /\ E!RefusedIsNotApplied
  BY StackEnough
<1>2. StackInv /\ [E!Next]_E!vars => [E!KeepsReplaced]_E!vars
  BY StackReplaces
<1> QED
  BY <1>1, <1>2, StackInvariance, PTL DEF E!Spec

-----------------------------------------------------------------------------
(***************************************************************************)
(* The purge of history.  The invariant relates what a run has counted to  *)
(* what it deleted, its policy to the one saved when it began, and the     *)
(* revisions on its list to the newer ones that no list names.             *)
(***************************************************************************)
(* What a purge, its tables and its counters hold.                           *)
EarlyAreas == {"events", "orphans", "retries", "deliveries", "audit", "trim"}
AfterOrphans == {"retries", "deliveries", "audit", "trim", "rows", "unlink", "orphaned", "sweep", "save"}
Policies == Submitted \cup Stored \cup {DefaultPolicy}
DeliveryRows == [event : DOMAIN Feed, age : 0 .. AgeCap, late : BOOLEAN]
TablesInv ==
    /\ rEvents \in [DOMAIN rEvents -> 0 .. AgeCap] /\ DOMAIN rEvents \subseteq DOMAIN Feed
    /\ rDeliveries \in [DOMAIN rDeliveries -> DeliveryRows] /\ DOMAIN rDeliveries \subseteq 1 .. MaxRows
    /\ rAudit \in [DOMAIN rAudit -> 0 .. AgeCap] /\ DOMAIN rAudit \subseteq 1 .. MaxRows
    /\ rRetries \subseteq DOMAIN Feed
    /\ rRevs \subseteq rFiles /\ rFiles \subseteq Snapshots
    /\ rGone \in [R!Areas -> Nat] /\ rPolicy \in Submitted \cup Stored
    /\ rRuns \in 0 .. PurgeRuns /\ rFaults \in 0 .. PurgeFaults
    /\ rLast.count = rLast.gone
RunType == [pc : {"idle", "rows", "unlink", "orphaned", "sweep", "save"} \cup EarlyAreas, policy : Policies,
            count : [R!Areas -> Nat], elapsed : {0, 1}, done : BOOLEAN, error : BOOLEAN,
            list : SUBSET Snapshots, trimmed : SUBSET Snapshots]

(* The newest revisions, which no list names.                                *)
KeptBefore(n) == {m \in rRevs \ rRun.list : m > n}

(* What a run has counted, what it deleted, and what it is about to.         *)
RunInv ==
    rRun.pc # "idle" =>
         /\ rRun.policy = R!Judged /\ R!Validate(R!Judged)
         /\ \A a \in R!Areas \ {"revisions"} : rRun.count[a] = rGone[a]
         /\ rRun.pc # "rows" => rRun.count["revisions"] = rGone["revisions"]
         /\ rRun.pc \in EarlyAreas => rRun.count["revisions"] = 0 /\ rRun.trimmed = {} /\ rRun.list = {}
         /\ rRun.pc = "rows" =>
              /\ rGone["revisions"] = Cardinality(rRun.trimmed)
              /\ rRun.list \subseteq rRevs /\ rRun.trimmed \cap rRevs = {}
              /\ \A n \in rRun.list : rRun.policy.keep > 0 /\ Cardinality(KeptBefore(n)) >= rRun.policy.keep
         /\ rRun.pc \in {"unlink", "sweep"} => rRun.list \cap rRevs = {}

(* What a run without an error has left behind it.                           *)
CleanDeliveries ==
    \A d \in DOMAIN rDeliveries : rDeliveries[d].late \/ rDeliveries[d].event \in DOMAIN rEvents
CleanInv ==
    ~rRun.error =>
         /\ rRun.pc \in AfterOrphans /\ rRun.policy.events > 0 => CleanDeliveries
         /\ rRun.pc \in AfterOrphans \ {"retries"} /\ rRun.policy.events > 0 => rRetries \subseteq DOMAIN rEvents
         /\ rRun.pc = "sweep" => rFiles \ rRevs \subseteq rRun.list
         /\ rRun.pc = "save" => rFiles \subseteq rRevs

PurgeInv == R!BoundsOK /\ TablesInv /\ rRun \in RunType /\ RunInv /\ CleanInv

LEMMA PurgeSizes == \A X : R!IsFiniteSet(X) = IsFiniteSet(X) /\ R!Cardinality(X) = Cardinality(X)
<1>1. \A X : R!IsFiniteSet(X) = IsFiniteSet(X)
  BY DEF R!IsFiniteSet, IsFiniteSet
<1> QED
  BY <1>1 DEF R!Cardinality, Cardinality

LEMMA LeastNumber ==
    ASSUME NEW T \in SUBSET Nat, T # {}
    PROVE  \E x \in T : \A y \in T : x <= y
<1>1. PICK x \in T : \A y \in T : ~(<<y, x>> \in OpToRel(<, Nat))
  BY WFMin, NatLessThanWellFounded
<1>2. \A y \in T : ~(y < x)
  BY <1>1 DEF OpToRel
<1>3. x \in Nat /\ \A y \in T : y \in Nat
  OBVIOUS
<1>4. \A y \in T : x <= y
  BY <1>2, <1>3
<1> QED
  BY <1>4

-----------------------------------------------------------------------------
(* The smaller of two numbers, and the least free id.                        *)
LEMMA TwoMin ==
    ASSUME NEW a \in Int, NEW b \in Int
    PROVE  R!Min({a, b}) \in {a, b} /\ R!Min({a, b}) <= a /\ R!Min({a, b}) <= b
<1>1. \E x \in {a, b} : \A y \in {a, b} : x <= y
  OBVIOUS
<1>2. R!Min({a, b}) \in {a, b} /\ \A y \in {a, b} : R!Min({a, b}) <= y
  BY <1>1 DEF R!Min
<1> QED
  BY <1>2

LEMMA TwoMax ==
    ASSUME NEW a \in Int, NEW b \in Int
    PROVE  R!Max({a, b}) \in {a, b}
<1>1. \E x \in {a, b} : \A y \in {a, b} : x >= y
  OBVIOUS
<1> QED
  BY <1>1 DEF R!Max

LEMMA FreeIs ==
    ASSUME NEW free \in SUBSET (1 .. MaxRows), free # {}
    PROVE  R!Min(free) \in free
<1>1. free \in SUBSET Nat
  OBVIOUS
<1>2. \E x \in free : \A y \in free : x <= y
  BY <1>1, LeastNumber
<1> QED
  BY <1>2 DEF R!Min

(* A short batch is all there was.                                           *)
LEMMA BatchIs ==
    ASSUME R!BoundsOK, NEW X, IsFiniteSet(X), NEW Y \in SUBSET X, R!Deleted(X, Y)
    PROVE  Cardinality(Y) \in Nat /\ (R!LastBatch(Cardinality(Y)) => Y = X)
<1>1. Cardinality(X) \in Nat /\ IsFiniteSet(Y) /\ Cardinality(Y) \in Nat
  BY FS_CardinalityType, FS_Subset
<1>2. Cardinality(Y) = R!Min({Batch, Cardinality(X)})
  BY PurgeSizes DEF R!Deleted
<1>3. Batch \in Nat
  BY DEF R!BoundsOK
<1>4. R!LastBatch(Cardinality(Y)) => Cardinality(Y) = Cardinality(X)
  BY <1>1, <1>2, <1>3, TwoMin DEF R!LastBatch
<1> QED
  BY <1>1, <1>4, FS_Subset

LEMMA FiniteTables ==
    ASSUME PurgeInv
    PROVE  /\ IsFiniteSet(DOMAIN rEvents) /\ IsFiniteSet(DOMAIN rDeliveries) /\ IsFiniteSet(DOMAIN rAudit)
           /\ IsFiniteSet(rRetries) /\ IsFiniteSet(rRevs) /\ IsFiniteSet(rRun.trimmed)
<1>1. IsFiniteSet(1 .. MaxRows)
  <2>1. 1 \in Int /\ MaxRows \in Int
    BY DEF PurgeInv, R!BoundsOK
  <2> QED
    BY <2>1, FS_Interval
<1>2. IsFiniteSet(Snapshots)
  BY PurgeSizes DEF PurgeInv, R!BoundsOK
<1>3. /\ DOMAIN rEvents \subseteq 1 .. MaxRows /\ DOMAIN rDeliveries \subseteq 1 .. MaxRows
      /\ DOMAIN rAudit \subseteq 1 .. MaxRows /\ rRetries \subseteq 1 .. MaxRows
      /\ rRevs \subseteq Snapshots /\ rRun.trimmed \subseteq Snapshots
  BY DEF PurgeInv, R!BoundsOK, TablesInv, RunType
<1> QED
  BY <1>1, <1>2, <1>3, FS_Subset

-----------------------------------------------------------------------------
LEMMA PurgeInit == ASSUME R!BoundsOK, R!Init PROVE PurgeInv
<1>1. rRun = R!Idle /\ R!Idle \in RunType /\ R!Idle.pc = "idle"
  BY DEF R!Init, R!Idle, RunType, R!Nothing, Policies
<1>2. RunInv /\ CleanInv
  BY <1>1 DEF RunInv, CleanInv, AfterOrphans
<1>3. TablesInv
  <2>1. rDeliveries \in [DOMAIN rDeliveries -> DeliveryRows] /\ DOMAIN rDeliveries \subseteq 1 .. MaxRows
    <3>1. \A e \in DOMAIN Feed : R!Max({0, Feed[e] - 1}) \in 0 .. AgeCap
      <4>1. TAKE e \in DOMAIN Feed
      <4>2. Feed[e] \in 0 .. AgeCap /\ AgeCap \in Nat
        BY DEF R!BoundsOK
      <4>3. R!Max({0, Feed[e] - 1}) \in {0, Feed[e] - 1} /\ R!Max({0, Feed[e] - 1}) >= 0
        <5>1. R!Max({0, Feed[e] - 1}) \in {0, Feed[e] - 1}
          BY <4>2, TwoMax
        <5>2. \E x \in {0, Feed[e] - 1} : \A y \in {0, Feed[e] - 1} : x >= y
          BY <4>2
        <5>3. \A y \in {0, Feed[e] - 1} : R!Max({0, Feed[e] - 1}) >= y
          BY <5>2 DEF R!Max
        <5> QED
          BY <5>1, <5>3
      <4> QED
        BY <4>2, <4>3
    <3> HIDE DEF R!Max
    <3> QED
      BY <3>1 DEF R!Init, DeliveryRows, R!BoundsOK
  <2>2. rLast.count = rLast.gone /\ rGone \in [R!Areas -> Nat]
    BY DEF R!Init, R!NoRun, R!Nothing
  <2>3. /\ rEvents \in [DOMAIN rEvents -> 0 .. AgeCap] /\ DOMAIN rEvents \subseteq DOMAIN Feed
        /\ rAudit \in [DOMAIN rAudit -> 0 .. AgeCap] /\ DOMAIN rAudit \subseteq 1 .. MaxRows
        /\ rRetries \subseteq DOMAIN Feed /\ rRevs \subseteq rFiles /\ rFiles \subseteq Snapshots
        /\ rPolicy \in Submitted \cup Stored /\ rRuns \in 0 .. PurgeRuns /\ rFaults \in 0 .. PurgeFaults
    BY DEF R!Init, R!BoundsOK
  <2> QED
    BY <2>1, <2>2, <2>3 DEF TablesInv
<1> QED
  BY <1>1, <1>2, <1>3 DEF PurgeInv

(* What the run does not take part in.                                       *)
LEMMA BesideKeeps ==
    ASSUME PurgeInv, TablesInv', UNCHANGED <<rRun, rAsked, rGone, rRevs, rFiles, rEvents, rRetries>>,
           CleanDeliveries => CleanDeliveries'
    PROVE  PurgeInv'
<1>1. RunInv'
  BY DEF PurgeInv, RunInv, R!Judged, R!Validate, R!DaysValid, KeptBefore
<1>2. CleanInv'
  BY DEF PurgeInv, CleanInv
<1> QED
  BY <1>1, <1>2 DEF PurgeInv, R!BoundsOK, R!Validate, R!DaysValid

LEMMA SetPolicyKeeps == ASSUME PurgeInv, NEW p \in Submitted, R!handleSetRetention(p) PROVE PurgeInv'
<1>1. rPolicy' = p /\ UNCHANGED <<R!tables, rRun, rLast, rAsked, rGone, rRuns, rFaults>>
  BY DEF R!handleSetRetention
<1>2. TablesInv'
  BY <1>1 DEF PurgeInv, TablesInv, R!tables
<1> QED
  BY <1>1, <1>2, BesideKeeps DEF R!tables, CleanDeliveries

LEMMA LookUpKeeps == ASSUME PurgeInv, NEW e \in DOMAIN Feed, R!LookUp(e) PROVE PurgeInv'
<1>1. UNCHANGED <<rPolicy, R!tables, rRun, rLast, rAsked, rGone, rRuns, rFaults>>
  BY DEF R!LookUp
<1>2. TablesInv'
  BY <1>1 DEF PurgeInv, TablesInv, R!tables
<1> QED
  BY <1>1, <1>2, BesideKeeps DEF R!tables, CleanDeliveries

LEMMA DeliveryKeeps == ASSUME PurgeInv, NEW e \in DOMAIN Feed, R!RecordAlertDelivery(e) PROVE PurgeInv'
<1> DEFINE free == (1 .. MaxRows) \ DOMAIN rDeliveries
           entry == [event |-> e, age |-> 0, late |-> e \notin DOMAIN rEvents]
<1>1. free # {} /\ rDeliveries' = R!Inserted(rDeliveries, R!Min(free), entry)
  BY DEF R!RecordAlertDelivery
<1>2. UNCHANGED <<rPolicy, rEvents, rRetries, rAudit, rRevs, rFiles, rRun, rLast, rAsked, rGone, rRuns, rFaults>>
  BY DEF R!RecordAlertDelivery
<1>3. PICK i \in free : i = R!Min(free)
  BY <1>1, FreeIs
<1>4. entry \in DeliveryRows /\ (entry.late \/ entry.event \in DOMAIN rEvents)
  <2>1. AgeCap \in Nat
    BY DEF PurgeInv, R!BoundsOK
  <2>2. CASE e \in DOMAIN rEvents
    <3>1. entry = [event |-> e, age |-> 0, late |-> FALSE]
      BY <2>2
    <3> QED
      BY <2>1, <2>2, <3>1 DEF DeliveryRows
  <2>3. CASE e \notin DOMAIN rEvents
    <3>1. entry = [event |-> e, age |-> 0, late |-> TRUE]
      BY <2>3
    <3> QED
      BY <2>1, <3>1 DEF DeliveryRows
  <2> QED
    BY <2>2, <2>3
<1> HIDE DEF entry
<1>5. /\ DOMAIN rDeliveries' = DOMAIN rDeliveries \cup {i} /\ rDeliveries'[i] = entry
      /\ rDeliveries' \in [DOMAIN rDeliveries' -> DeliveryRows]
      /\ \A d \in DOMAIN rDeliveries : rDeliveries'[d] = rDeliveries[d]
  BY <1>1, <1>3, <1>4 DEF R!Inserted, PurgeInv, TablesInv
<1>6. TablesInv'
  BY <1>2, <1>3, <1>5 DEF PurgeInv, TablesInv
<1>7. CleanDeliveries => CleanDeliveries'
  BY <1>2, <1>4, <1>5 DEF CleanDeliveries
<1> QED
  BY <1>2, <1>6, <1>7, BesideKeeps

LEMMA AgeKeeps == ASSUME PurgeInv, R!Tick PROVE PurgeInv'
<1>1. UNCHANGED <<rPolicy, rRetries, rRevs, rFiles, rLast, rAsked, rGone, rRuns, rFaults>>
  BY DEF R!Tick
<1>2. \A x \in 0 .. AgeCap : R!Min({x + 1, AgeCap}) \in 0 .. AgeCap
  <2>1. TAKE x \in 0 .. AgeCap
  <2>2. AgeCap \in Nat
    BY DEF PurgeInv, R!BoundsOK
  <2>3. PICK y \in Int : y = x + 1
    BY <2>2
  <2>4. R!Min({y, AgeCap}) \in {y, AgeCap} /\ R!Min({y, AgeCap}) <= AgeCap
    BY <2>2, TwoMin
  <2> QED
    BY <2>2, <2>3, <2>4
<1>3. /\ DOMAIN rEvents' = DOMAIN rEvents /\ rEvents' \in [DOMAIN rEvents -> 0 .. AgeCap]
      /\ DOMAIN rAudit' = DOMAIN rAudit /\ rAudit' \in [DOMAIN rAudit -> 0 .. AgeCap]
  BY <1>2 DEF R!Tick, R!Older, PurgeInv, TablesInv
<1>4. /\ DOMAIN rDeliveries' = DOMAIN rDeliveries /\ rDeliveries' \in [DOMAIN rDeliveries -> DeliveryRows]
      /\ \A d \in DOMAIN rDeliveries : /\ rDeliveries'[d].late = rDeliveries[d].late
                                       /\ rDeliveries'[d].event = rDeliveries[d].event
  <2>1. rDeliveries' = [d \in DOMAIN rDeliveries |-> [rDeliveries[d] EXCEPT !.age = R!Min({rDeliveries[d].age + 1, AgeCap})]]
    BY DEF R!Tick
  <2>2. \A d \in DOMAIN rDeliveries : rDeliveries[d] \in DeliveryRows
    BY DEF PurgeInv, TablesInv
  <2>3. \A d \in DOMAIN rDeliveries : R!Min({rDeliveries[d].age + 1, AgeCap}) \in 0 .. AgeCap
    BY <1>2, <2>2 DEF DeliveryRows
  <2> QED
    BY <2>1, <2>2, <2>3 DEF DeliveryRows
<1>5. TablesInv'
  BY <1>1, <1>3, <1>4 DEF PurgeInv, TablesInv
<1>6. CleanDeliveries => CleanDeliveries'
  BY <1>3, <1>4 DEF CleanDeliveries
<1>7. rRun' \in RunType /\ rRun' = [rRun EXCEPT !.elapsed = rRun'.elapsed]
  BY DEF R!Tick, PurgeInv, RunType
<1>8. /\ rRun'.pc = rRun.pc /\ rRun'.policy = rRun.policy /\ rRun'.count = rRun.count /\ rRun'.error = rRun.error
      /\ rRun'.list = rRun.list /\ rRun'.trimmed = rRun.trimmed
  BY <1>7 DEF PurgeInv, RunType
<1>9. RunInv'
  BY <1>1, <1>8 DEF PurgeInv, RunInv, R!Judged, R!Validate, R!DaysValid, KeptBefore
<1>10. CleanInv'
  BY <1>1, <1>3, <1>6, <1>8 DEF PurgeInv, CleanInv
<1> QED
  BY <1>5, <1>7, <1>9, <1>10 DEF PurgeInv, R!BoundsOK, R!Validate, R!DaysValid

-----------------------------------------------------------------------------
(* The run.                                                                  *)
LEMMA PurgeFaultIs == ASSUME PurgeInv, R!Fault \/ rFaults' = rFaults PROVE rFaults' \in 0 .. PurgeFaults
  BY DEF PurgeInv, R!BoundsOK, TablesInv, R!Fault

LEMMA RunIs ==
    ASSUME PurgeInv
    PROVE  /\ rRun \in RunType /\ rRun.count \in [R!Areas -> Nat] /\ rGone \in [R!Areas -> Nat]
           /\ rRun.list \subseteq Snapshots /\ rRun.trimmed \subseteq Snapshots
           /\ rRun.policy.events \in Int /\ rRun.policy.deliveries \in Int
           /\ rRun.policy.audit \in Int /\ rRun.policy.keep \in Int
  BY DEF PurgeInv, TablesInv, RunType, Policies, R!BoundsOK

LEMMA PurgeBoundsStay == ASSUME PurgeInv PROVE R!BoundsOK'
  BY DEF PurgeInv, R!BoundsOK, R!Validate, R!DaysValid

LEMMA PurgeBegins == ASSUME PurgeInv, R!Begin PROVE PurgeInv'
<1>1. /\ rRun.pc = "idle" /\ rRuns < PurgeRuns /\ rRuns' = rRuns + 1 /\ R!Usable
      /\ rRun' = [R!Idle EXCEPT !.pc = "events", !.policy = R!Effective]
      /\ rAsked' = rPolicy /\ rGone' = R!Nothing /\ UNCHANGED <<rPolicy, R!tables, rLast, rFaults>>
  BY DEF R!Begin
<1>2. R!Effective \in Policies
  BY DEF R!Effective, Policies, PurgeInv, TablesInv
<1>3. /\ rRun' \in RunType /\ rRun'.pc = "events" /\ rRun'.policy = R!Effective /\ rRun'.count = R!Nothing
      /\ rRun'.list = {} /\ rRun'.trimmed = {}
  BY <1>1, <1>2 DEF R!Idle, RunType, R!Nothing, EarlyAreas
<1>4. TablesInv'
  BY <1>1 DEF PurgeInv, TablesInv, R!tables, R!Nothing, R!BoundsOK
<1>5. R!Effective = R!Judged' /\ R!Validate(R!Judged)'
  <2>1. CASE rPolicy = R!Unset
    <3>1. R!Effective = DefaultPolicy /\ R!Judged' = DefaultPolicy
      BY <1>1, <2>1 DEF R!Effective, R!Judged
    <3> QED
      BY <3>1 DEF PurgeInv, R!BoundsOK, R!Validate, R!DaysValid
  <2>2. CASE rPolicy # R!Unset
    <3>1. R!Validate(rPolicy) /\ R!Effective = rPolicy /\ R!Judged' = rPolicy
      BY <1>1, <2>2 DEF R!Usable, R!Effective, R!Judged
    <3> QED
      BY <3>1 DEF R!Validate, R!DaysValid
  <2> QED
    BY <2>1, <2>2
<1>6. RunInv'
  BY <1>1, <1>3, <1>5 DEF RunInv, R!Nothing, R!Areas, EarlyAreas
<1>7. CleanInv'
  BY <1>3 DEF CleanInv, AfterOrphans
<1> QED
  BY <1>3, <1>4, <1>6, <1>7, PurgeBoundsStay DEF PurgeInv

(* A step before the revisions' turn.                                        *)
LEMMA EarlyKeeps ==
    ASSUME PurgeInv, TablesInv', CleanInv', rRun.pc \in EarlyAreas, rRun' \in RunType, rRun'.pc \in EarlyAreas,
           rRun'.policy = rRun.policy, rRun'.list = rRun.list, rRun'.trimmed = rRun.trimmed, rAsked' = rAsked,
           \A a \in R!Areas : rRun'.count[a] = rGone'[a], rRun'.count["revisions"] = rRun.count["revisions"]
    PROVE  PurgeInv'
<1>1. rRun.pc # "idle" /\ rRun'.pc \notin {"rows", "unlink", "sweep"}
  BY DEF EarlyAreas
<1>2. RunInv'
  BY <1>1 DEF PurgeInv, RunInv, R!Judged, R!Validate, R!DaysValid, R!Areas
<1> QED
  BY <1>2, PurgeBoundsStay DEF PurgeInv

LEMMA CountsAgree == ASSUME PurgeInv, rRun.pc # "idle", rRun.pc # "rows" PROVE \A a \in R!Areas : rRun.count[a] = rGone[a]
  BY DEF PurgeInv, RunInv, R!Areas

SameRun(x, y) == x.policy = y.policy /\ x.list = y.list /\ x.trimmed = y.trimmed /\ x.elapsed = y.elapsed

LEMMA CountedIs ==
    ASSUME PurgeInv, rRun.pc \in EarlyAreas, NEW area \in R!Areas \ {"revisions"}, NEW n \in Nat,
           NEW next \in EarlyAreas, R!Counted(area, n, next)
    PROVE  /\ rRun' \in RunType /\ SameRun(rRun', rRun) /\ rRun'.error = rRun.error
           /\ rRun'.pc = IF R!LastBatch(n) THEN next ELSE rRun.pc
           /\ rGone' \in [R!Areas -> Nat] /\ \A a \in R!Areas : rRun'.count[a] = rGone'[a]
           /\ rRun'.count["revisions"] = rRun.count["revisions"]
<1>1. \A a \in R!Areas : rRun.count[a] = rGone[a]
  BY CountsAgree DEF EarlyAreas
<1> DEFINE cnt == [rRun.count EXCEPT ![area] = @ + n]
           to == IF R!LastBatch(n) THEN next ELSE rRun.pc
<1>2. rRun' = [rRun EXCEPT !.count = cnt, !.pc = to]
  BY RunIs DEF R!Counted, RunType
<1>3. cnt \in [R!Areas -> Nat] /\ to \in EarlyAreas /\ cnt["revisions"] = rRun.count["revisions"]
  BY RunIs DEF R!Areas
<1>4. rGone' \in [R!Areas -> Nat] /\ \A a \in R!Areas : cnt[a] = rGone'[a]
  BY <1>1, RunIs DEF R!Counted
<1> HIDE DEF cnt, to
<1>5. rRun' \in RunType /\ SameRun(rRun', rRun) /\ rRun'.error = rRun.error /\ rRun'.pc = to /\ rRun'.count = cnt
  BY <1>2, <1>3, RunIs DEF RunType, SameRun
<1> QED
  BY <1>3, <1>4, <1>5 DEF to

LEMMA PcIs ==
    ASSUME PurgeInv, NEW next \in EarlyAreas, rRun' = [rRun EXCEPT !.pc = next]
    PROVE  /\ rRun' \in RunType /\ SameRun(rRun', rRun) /\ rRun'.error = rRun.error /\ rRun'.pc = next
           /\ rRun'.count = rRun.count
  BY RunIs DEF RunType, SameRun

LEMMA StoppedIs ==
    ASSUME PurgeInv, NEW next \in EarlyAreas \cup {"unlink", "save"}, R!Stopped(next)
    PROVE  /\ rRun' \in RunType /\ SameRun(rRun', rRun) /\ rRun'.error = TRUE /\ rRun'.pc = next
           /\ rRun'.count = rRun.count /\ rGone' = rGone /\ UNCHANGED R!tables /\ rFaults' \in 0 .. PurgeFaults
<1>1. rRun' = [rRun EXCEPT !.error = TRUE, !.pc = next] /\ rGone' = rGone /\ UNCHANGED R!tables
  BY DEF R!Stopped
<1>2. rFaults' \in 0 .. PurgeFaults
  BY PurgeFaultIs DEF R!Stopped
<1> QED
  BY <1>1, <1>2, RunIs DEF RunType, SameRun

LEMMA StopKeeps ==
    ASSUME PurgeInv, rRun.pc \in EarlyAreas, NEW next \in EarlyAreas, R!Stopped(next),
           UNCHANGED <<rPolicy, rLast, rSending, rAsked, rRuns>>
    PROVE  PurgeInv'
<1>1. /\ rRun' \in RunType /\ SameRun(rRun', rRun) /\ rRun'.error = TRUE /\ rRun'.pc = next
      /\ rRun'.count = rRun.count /\ rGone' = rGone /\ UNCHANGED R!tables /\ rFaults' \in 0 .. PurgeFaults
  BY StoppedIs
<1>2. TablesInv'
  BY <1>1 DEF PurgeInv, TablesInv, R!tables
<1>3. CleanInv'
  BY <1>1 DEF CleanInv
<1>4. \A a \in R!Areas : rRun'.count[a] = rGone'[a]
  BY <1>1, CountsAgree DEF EarlyAreas
<1> QED
  BY <1>1, <1>2, <1>3, <1>4, EarlyKeeps DEF SameRun

(* Rows that stay as they were.                                              *)
LEMMA RestrictIs ==
    ASSUME NEW V, NEW f, f \in [DOMAIN f -> V], NEW X \in SUBSET DOMAIN f
    PROVE  /\ R!Restrict(f, X) \in [X -> V] /\ DOMAIN R!Restrict(f, X) = X
           /\ \A x \in X : R!Restrict(f, X)[x] = f[x]
  BY DEF R!Restrict

Beside == UNCHANGED <<rPolicy, rLast, rSending, rAsked, rRuns>>

LEMMA EventsKeep ==
    ASSUME PurgeInv, rRun.pc = "events", NEW Y \in SUBSET R!OldEvents, R!Deleted(R!OldEvents, Y),
           rEvents' = R!Restrict(rEvents, DOMAIN rEvents \ Y), R!Counted("events", Cardinality(Y), "orphans"),
           UNCHANGED <<rDeliveries, rRetries, rAudit, rRevs, rFiles, rFaults>>, Beside
    PROVE  PurgeInv'
<1>1. Cardinality(Y) \in Nat /\ Y \subseteq DOMAIN rEvents
  BY FiniteTables, FS_Subset, BatchIs DEF R!OldEvents, PurgeInv
<1>2. /\ rRun' \in RunType /\ SameRun(rRun', rRun) /\ rRun'.error = rRun.error
      /\ rRun'.pc \in {"events", "orphans"} /\ rGone' \in [R!Areas -> Nat]
      /\ (\A a \in R!Areas : rRun'.count[a] = rGone'[a]) /\ rRun'.count["revisions"] = rRun.count["revisions"]
  BY <1>1, CountedIs DEF EarlyAreas, R!Areas
<1>3. rEvents' \in [DOMAIN rEvents' -> 0 .. AgeCap] /\ DOMAIN rEvents' \subseteq DOMAIN rEvents
  <2>1. rEvents \in [DOMAIN rEvents -> 0 .. AgeCap]
    BY DEF PurgeInv, TablesInv
  <2> QED
    BY <2>1, RestrictIs
<1>4. TablesInv'
  BY <1>2, <1>3 DEF PurgeInv, TablesInv, Beside
<1>5. CleanInv'
  BY <1>2 DEF CleanInv, AfterOrphans
<1> QED
  BY <1>2, <1>4, <1>5, EarlyKeeps DEF SameRun, Beside, EarlyAreas

LEMMA RemoveDeliveries ==
    ASSUME PurgeInv, NEW Y, rDeliveries' = R!Restrict(rDeliveries, DOMAIN rDeliveries \ Y), rEvents' = rEvents
    PROVE  /\ rDeliveries' \in [DOMAIN rDeliveries' -> DeliveryRows] /\ DOMAIN rDeliveries' = DOMAIN rDeliveries \ Y
           /\ \A d \in DOMAIN rDeliveries' : rDeliveries'[d] = rDeliveries[d]
           /\ CleanDeliveries => CleanDeliveries'
<1>1. rDeliveries \in [DOMAIN rDeliveries -> DeliveryRows]
  BY DEF PurgeInv, TablesInv
<1>2. /\ rDeliveries' \in [DOMAIN rDeliveries' -> DeliveryRows] /\ DOMAIN rDeliveries' = DOMAIN rDeliveries \ Y
      /\ \A d \in DOMAIN rDeliveries' : rDeliveries'[d] = rDeliveries[d]
  BY <1>1, RestrictIs
<1> QED
  BY <1>2 DEF CleanDeliveries

LEMMA OrphansKeep ==
    ASSUME PurgeInv, rRun.pc = "orphans", NEW Y \in SUBSET R!Orphans, R!Deleted(R!Orphans, Y),
           rDeliveries' = R!Restrict(rDeliveries, DOMAIN rDeliveries \ Y),
           R!Counted("deliveries", Cardinality(Y), "retries"),
           UNCHANGED <<rEvents, rRetries, rAudit, rRevs, rFiles, rFaults>>, Beside
    PROVE  PurgeInv'
<1>1. Cardinality(Y) \in Nat /\ (R!LastBatch(Cardinality(Y)) => Y = R!Orphans)
  BY FiniteTables, FS_Subset, BatchIs DEF R!Orphans, PurgeInv
<1>2. /\ rRun' \in RunType /\ SameRun(rRun', rRun) /\ rRun'.error = rRun.error
      /\ rRun'.pc = (IF R!LastBatch(Cardinality(Y)) THEN "retries" ELSE "orphans") /\ rGone' \in [R!Areas -> Nat]
      /\ (\A a \in R!Areas : rRun'.count[a] = rGone'[a]) /\ rRun'.count["revisions"] = rRun.count["revisions"]
  BY <1>1, CountedIs DEF EarlyAreas, R!Areas
<1>3. /\ rDeliveries' \in [DOMAIN rDeliveries' -> DeliveryRows] /\ DOMAIN rDeliveries' = DOMAIN rDeliveries \ Y
      /\ \A d \in DOMAIN rDeliveries' : rDeliveries'[d] = rDeliveries[d]
  BY RemoveDeliveries
<1>4. TablesInv'
  BY <1>2, <1>3 DEF PurgeInv, TablesInv, Beside
<1>5. CleanInv'
  <2>1. ASSUME rRun'.pc = "retries", rRun'.policy.events > 0 PROVE CleanDeliveries'
    <3>1. Y = R!Orphans /\ rRun.policy.events > 0
      BY <1>1, <1>2, <2>1 DEF SameRun
    <3> QED
      BY <1>3, <3>1 DEF CleanDeliveries, R!Orphans
  <2> QED
    BY <1>2, <2>1 DEF CleanInv, AfterOrphans
<1> QED
  BY <1>2, <1>4, <1>5, EarlyKeeps DEF SameRun, Beside, EarlyAreas

LEMMA RetriesKeep ==
    ASSUME PurgeInv, rRun.pc = "retries", NEW Y \in SUBSET R!LostRetries, R!Deleted(R!LostRetries, Y),
           rRetries' = rRetries \ Y,
           rRun' = [rRun EXCEPT !.pc = IF R!LastBatch(Cardinality(Y)) THEN "deliveries" ELSE @],
           UNCHANGED <<rEvents, rDeliveries, rAudit, rRevs, rFiles, rGone, rFaults>>, Beside
    PROVE  PurgeInv'
<1>1. Cardinality(Y) \in Nat /\ (R!LastBatch(Cardinality(Y)) => Y = R!LostRetries)
  BY FiniteTables, FS_Subset, BatchIs DEF R!LostRetries, PurgeInv
<1> DEFINE to == IF R!LastBatch(Cardinality(Y)) THEN "deliveries" ELSE "retries"
<1>2. /\ rRun' \in RunType /\ SameRun(rRun', rRun) /\ rRun'.error = rRun.error /\ rRun'.pc = to
      /\ rRun'.count = rRun.count
  <2>1. to \in EarlyAreas /\ rRun' = [rRun EXCEPT !.pc = to]
    BY RunIs DEF EarlyAreas, RunType
  <2> QED
    BY <2>1, PcIs
<1>3. \A a \in R!Areas : rRun'.count[a] = rGone'[a]
  BY <1>2, CountsAgree
<1>4. TablesInv'
  BY DEF PurgeInv, TablesInv, Beside
<1>5. CleanInv'
  <2>1. CleanDeliveries => CleanDeliveries'
    BY DEF CleanDeliveries
  <2>2. ASSUME rRun'.pc = "deliveries", rRun'.policy.events > 0 PROVE rRetries' \subseteq DOMAIN rEvents'
    <3>1. Y = R!LostRetries /\ rRun.policy.events > 0
      BY <1>1, <1>2, <2>2 DEF SameRun
    <3> QED
      BY <3>1 DEF R!LostRetries
  <2> QED
    BY <1>2, <2>1, <2>2 DEF CleanInv, AfterOrphans, PurgeInv, SameRun
<1> QED
  BY <1>2, <1>3, <1>4, <1>5, EarlyKeeps DEF SameRun, Beside, EarlyAreas

LEMMA DeliveriesKeep ==
    ASSUME PurgeInv, rRun.pc = "deliveries", NEW Y \in SUBSET R!OldDeliveries, R!Deleted(R!OldDeliveries, Y),
           rDeliveries' = R!Restrict(rDeliveries, DOMAIN rDeliveries \ Y),
           R!Counted("deliveries", Cardinality(Y), "audit"),
           UNCHANGED <<rEvents, rRetries, rAudit, rRevs, rFiles, rFaults>>, Beside
    PROVE  PurgeInv'
<1>1. Cardinality(Y) \in Nat
  BY FiniteTables, FS_Subset, BatchIs DEF R!OldDeliveries, PurgeInv
<1>2. /\ rRun' \in RunType /\ SameRun(rRun', rRun) /\ rRun'.error = rRun.error
      /\ rRun'.pc \in {"audit", "deliveries"} /\ rGone' \in [R!Areas -> Nat]
      /\ (\A a \in R!Areas : rRun'.count[a] = rGone'[a]) /\ rRun'.count["revisions"] = rRun.count["revisions"]
  BY <1>1, CountedIs DEF EarlyAreas, R!Areas
<1>3. /\ rDeliveries' \in [DOMAIN rDeliveries' -> DeliveryRows] /\ DOMAIN rDeliveries' = DOMAIN rDeliveries \ Y
      /\ CleanDeliveries => CleanDeliveries'
  BY RemoveDeliveries
<1>4. TablesInv'
  BY <1>2, <1>3 DEF PurgeInv, TablesInv, Beside
<1>5. CleanInv'
  BY <1>2, <1>3 DEF CleanInv, AfterOrphans, PurgeInv, SameRun
<1> QED
  BY <1>2, <1>4, <1>5, EarlyKeeps DEF SameRun, Beside, EarlyAreas

LEMMA AuditKeeps ==
    ASSUME PurgeInv, rRun.pc = "audit", NEW Y \in SUBSET R!OldAudit, R!Deleted(R!OldAudit, Y),
           rAudit' = R!Restrict(rAudit, DOMAIN rAudit \ Y), R!Counted("audit", Cardinality(Y), "trim"),
           UNCHANGED <<rEvents, rDeliveries, rRetries, rRevs, rFiles, rFaults>>, Beside
    PROVE  PurgeInv'
<1>1. Cardinality(Y) \in Nat
  BY FiniteTables, FS_Subset, BatchIs DEF R!OldAudit, PurgeInv
<1>2. /\ rRun' \in RunType /\ SameRun(rRun', rRun) /\ rRun'.error = rRun.error
      /\ rRun'.pc \in {"audit", "trim"} /\ rGone' \in [R!Areas -> Nat]
      /\ (\A a \in R!Areas : rRun'.count[a] = rGone'[a]) /\ rRun'.count["revisions"] = rRun.count["revisions"]
  BY <1>1, CountedIs DEF EarlyAreas, R!Areas
<1>3. rAudit' \in [DOMAIN rAudit' -> 0 .. AgeCap] /\ DOMAIN rAudit' \subseteq DOMAIN rAudit
  <2>1. rAudit \in [DOMAIN rAudit -> 0 .. AgeCap]
    BY DEF PurgeInv, TablesInv
  <2>2. PICK X \in SUBSET DOMAIN rAudit : X = DOMAIN rAudit \ Y
    OBVIOUS
  <2>3. R!Restrict(rAudit, X) \in [X -> 0 .. AgeCap] /\ DOMAIN R!Restrict(rAudit, X) = X
    BY <2>1, RestrictIs
  <2> QED
    BY <2>2, <2>3
<1>4. TablesInv'
  BY <1>2, <1>3 DEF PurgeInv, TablesInv, Beside
<1>5. CleanInv'
  BY <1>2 DEF CleanInv, AfterOrphans, PurgeInv, SameRun, CleanDeliveries
<1> QED
  BY <1>2, <1>4, <1>5, EarlyKeeps DEF SameRun, Beside, EarlyAreas

LEMMA PassKeeps == ASSUME PurgeInv, R!PassOver, Beside PROVE PurgeInv'
<1>1. PICK next \in {"deliveries", "audit", "trim"} :
        /\ rRun' = [rRun EXCEPT !.pc = next] /\ rRun.pc \in {"events", "deliveries", "audit"}
        /\ rRun.pc = "events" => rRun.policy.events = 0
  BY DEF R!PassOver
<1>2. UNCHANGED <<R!tables, rGone, rFaults>>
  BY DEF R!PassOver
<1>3. /\ rRun' \in RunType /\ SameRun(rRun', rRun) /\ rRun'.error = rRun.error /\ rRun'.pc = next
      /\ rRun'.count = rRun.count
  BY <1>1, PcIs DEF EarlyAreas
<1>4. TablesInv'
  BY <1>2 DEF PurgeInv, TablesInv, Beside, R!tables
<1>5. CleanInv'
  <2>1. CASE rRun.pc = "events"
    BY <1>1, <1>3, <2>1 DEF CleanInv, SameRun
  <2>2. CASE rRun.pc # "events"
    BY <1>1, <1>2, <1>3, <2>2 DEF CleanInv, AfterOrphans, PurgeInv, SameRun, CleanDeliveries, R!tables
  <2> QED
    BY <2>1, <2>2
<1>6. \A a \in R!Areas : rRun'.count[a] = rGone'[a]
  BY <1>1, <1>2, <1>3, CountsAgree
<1> QED
  BY <1>1, <1>3, <1>4, <1>5, <1>6, EarlyKeeps DEF SameRun, Beside, EarlyAreas

-----------------------------------------------------------------------------
(* Of the revisions behind the newest, each has as many newer ones that no   *)
(* list names: those newer than the newest of them.                          *)
LEMMA NewestAreKept ==
    ASSUME PurgeInv, NEW n \in R!Behind
    PROVE  /\ rRun.policy.keep > 0
           /\ Cardinality({m \in rRevs \ R!Behind : m > n}) >= rRun.policy.keep
<1> DEFINE Newer(g) == {m \in rRevs : m > g}
           G == {g \in R!Behind : g >= n}
           T == {Cardinality(Newer(g)) : g \in G}
           Rest == {m \in rRevs \ R!Behind : m > n}
<1>0. n \in Int /\ rRevs \subseteq Int /\ R!Behind \subseteq rRevs
  BY DEF R!Behind, PurgeInv, TablesInv, R!BoundsOK
<1>1. \A g \in R!Behind : g \in rRevs /\ g \in Int /\ rRun.policy.keep > 0 /\ Cardinality(Newer(g)) >= rRun.policy.keep
  BY PurgeSizes DEF R!Behind, PurgeInv, TablesInv, R!BoundsOK
<1>2. \A X \in SUBSET rRevs : IsFiniteSet(X) /\ Cardinality(X) \in Nat
  BY FiniteTables, FS_Subset, FS_CardinalityType
<1>3. T \in SUBSET Nat /\ T # {}
  <2>1. n \in G
    <3>1. n >= n
      BY <1>0
    <3> QED
      BY <3>1
  <2>2. \A g \in G : Cardinality(Newer(g)) \in Nat
    BY <1>2
  <2> QED
    BY <2>1, <2>2
<1>4. PICK t \in T : \A u \in T : t <= u
  BY <1>3, LeastNumber
<1>5. PICK g \in G : t = Cardinality(Newer(g))
  BY <1>4
<1>6. Newer(g) \subseteq Rest
  <2>0. rRevs \subseteq Int /\ g \in R!Behind /\ g \in Int /\ n \in Int /\ g >= n
    BY <1>0, <1>5
  <2> SUFFICES ASSUME NEW m \in rRevs, m > g, m \in R!Behind PROVE FALSE
    <3>1. \A m \in rRevs : m > g => m > n
      BY <2>0
    <3> QED
      BY <3>1
  <2>1. m \in G /\ m \in Int
    <3>1. m \in Int /\ m >= n
      BY <2>0
    <3> QED
      BY <3>1
  <2>2. Newer(m) \subseteq Newer(g) /\ m \in Newer(g) /\ m \notin Newer(m)
    <3>1. (\A x \in rRevs : x > m => x > g) /\ ~(m > m)
      BY <2>0, <2>1
    <3> QED
      BY <3>1
  <2>3. IsFiniteSet(Newer(g)) /\ Cardinality(Newer(g)) \in Nat /\ Cardinality(Newer(m)) \in Nat
    BY <1>2
  <2>4. Cardinality(Newer(m)) <= Cardinality(Newer(g)) /\ Cardinality(Newer(m)) # Cardinality(Newer(g))
    BY <2>2, <2>3, FS_Subset
  <2>5. Cardinality(Newer(g)) <= Cardinality(Newer(m))
    BY <1>4, <1>5, <2>1
  <2> QED
    BY <2>3, <2>4, <2>5
<1>7. Cardinality(Newer(g)) <= Cardinality(Rest) /\ Cardinality(Rest) \in Nat /\ Cardinality(Newer(g)) \in Nat
  BY <1>2, <1>6, FS_Subset
<1>8. rRun.policy.keep > 0 /\ Cardinality(Newer(g)) >= rRun.policy.keep /\ rRun.policy.keep \in Int
  BY <1>1, <1>5, RunIs
<1> QED
  BY <1>7, <1>8

(* A step of the revisions' turn or after it.                                *)
LEMMA RowsTurnKeeps ==
    ASSUME PurgeInv, TablesInv', CleanInv', rRun.pc # "idle", rRun' \in RunType, rRun'.pc = "rows",
           rRun'.policy = rRun.policy, rAsked' = rAsked,
           \A a \in R!Areas \ {"revisions"} : rRun'.count[a] = rGone'[a],
           rGone'["revisions"] = Cardinality(rRun'.trimmed), rRun'.list \subseteq rRevs', rRun'.trimmed \cap rRevs' = {},
           \A n \in rRun'.list : rRun.policy.keep > 0 /\ Cardinality({m \in rRevs' \ rRun'.list : m > n}) >= rRun.policy.keep
    PROVE  PurgeInv'
<1>1. RunInv'
  BY DEF PurgeInv, RunInv, R!Judged, R!Validate, R!DaysValid, KeptBefore, EarlyAreas
<1> QED
  BY <1>1, PurgeBoundsStay DEF PurgeInv

LEMMA LateKeeps ==
    ASSUME PurgeInv, TablesInv', CleanInv', rRun.pc # "idle", rRun' \in RunType,
           rRun'.pc \in {"unlink", "orphaned", "sweep", "save"}, rRun'.policy = rRun.policy, rAsked' = rAsked,
           \A a \in R!Areas : rRun'.count[a] = rGone'[a],
           rRun'.pc \in {"unlink", "sweep"} => rRun'.list \cap rRevs' = {}
    PROVE  PurgeInv'
<1>1. RunInv'
  BY DEF PurgeInv, RunInv, R!Judged, R!Validate, R!DaysValid, EarlyAreas, R!Areas
<1> QED
  BY <1>1, PurgeBoundsStay DEF PurgeInv

LEMMA TrimBegins ==
    ASSUME PurgeInv, rRun.pc = "trim", rRun' = [rRun EXCEPT !.pc = "rows", !.list = R!Behind],
           UNCHANGED <<R!tables, rGone, rFaults>>, Beside
    PROVE  PurgeInv'
<1>1. R!Behind \subseteq rRevs /\ R!Behind \subseteq Snapshots
  BY DEF R!Behind, PurgeInv, TablesInv
<1>2. /\ rRun' \in RunType /\ rRun'.pc = "rows" /\ rRun'.list = R!Behind /\ rRun'.trimmed = rRun.trimmed
      /\ rRun'.policy = rRun.policy /\ rRun'.count = rRun.count /\ rRun'.error = rRun.error
  BY <1>1, RunIs DEF RunType
<1>3. TablesInv'
  BY DEF PurgeInv, TablesInv, R!tables, Beside
<1>4. CleanInv'
  BY <1>2 DEF PurgeInv, CleanInv, AfterOrphans, CleanDeliveries, R!tables
<1>5. /\ rGone["revisions"] = 0 /\ rRun.trimmed = {}
      /\ \A a \in R!Areas \ {"revisions"} : rRun.count[a] = rGone[a]
  BY DEF PurgeInv, RunInv, EarlyAreas
<1>6. rGone'["revisions"] = Cardinality(rRun'.trimmed)
  BY <1>2, <1>5, FS_EmptySet
<1>7. rRevs' = rRevs
  BY DEF R!tables
<1>8. \A n \in rRun'.list : rRun.policy.keep > 0 /\ Cardinality({m \in rRevs' \ rRun'.list : m > n}) >= rRun.policy.keep
  BY <1>2, <1>7, NewestAreKept
<1> QED
  BY <1>1, <1>2, <1>3, <1>4, <1>5, <1>6, <1>7, <1>8, RowsTurnKeeps DEF Beside

LEMMA TrimRow ==
    ASSUME PurgeInv, rRun.pc = "rows", NEW n \in rRun.list, rRevs' = rRevs \ {n},
           rGone' = [rGone EXCEPT !["revisions"] = @ + 1],
           rRun' = [rRun EXCEPT !.list = @ \ {n}, !.trimmed = @ \cup {n}],
           UNCHANGED <<rEvents, rDeliveries, rRetries, rAudit, rFiles, rFaults>>, Beside
    PROVE  PurgeInv'
<1>1. /\ rGone["revisions"] = Cardinality(rRun.trimmed) /\ rRun.list \subseteq rRevs /\ rRun.trimmed \cap rRevs = {}
      /\ \A a \in R!Areas \ {"revisions"} : rRun.count[a] = rGone[a]
      /\ \A k \in rRun.list : rRun.policy.keep > 0 /\ Cardinality(KeptBefore(k)) >= rRun.policy.keep
  BY DEF PurgeInv, RunInv
<1>2. /\ rRun' \in RunType /\ rRun'.pc = "rows" /\ rRun'.list = rRun.list \ {n} /\ rRun'.trimmed = rRun.trimmed \cup {n}
      /\ rRun'.policy = rRun.policy /\ rRun'.count = rRun.count /\ rRun'.error = rRun.error
  BY RunIs DEF RunType
<1>3. /\ rGone' \in [R!Areas -> Nat] /\ rGone'["revisions"] = rGone["revisions"] + 1
      /\ \A a \in R!Areas \ {"revisions"} : rGone'[a] = rGone[a]
  BY RunIs DEF R!Areas
<1>4. TablesInv'
  BY <1>3 DEF PurgeInv, TablesInv, Beside
<1>5. CleanInv'
  BY <1>2 DEF PurgeInv, CleanInv, AfterOrphans, CleanDeliveries
<1>6. rGone'["revisions"] = Cardinality(rRun'.trimmed)
  <2>1. n \notin rRun.trimmed
    BY <1>1
  <2> QED
    BY <1>1, <1>2, <1>3, <2>1, FiniteTables, FS_AddElement
<1>7. rRun'.list \subseteq rRevs' /\ rRun'.trimmed \cap rRevs' = {}
  BY <1>1, <1>2
<1>8. \A k \in rRun'.list : rRun.policy.keep > 0 /\ Cardinality({m \in rRevs' \ rRun'.list : m > k}) >= rRun.policy.keep
  <2>1. rRevs' \ rRun'.list = rRevs \ rRun.list
    BY <1>1, <1>2
  <2> QED
    BY <1>1, <1>2, <2>1 DEF KeptBefore
<1>9. \A a \in R!Areas \ {"revisions"} : rRun'.count[a] = rGone'[a]
  BY <1>1, <1>2, <1>3
<1> QED
  BY <1>2, <1>4, <1>5, <1>6, <1>7, <1>8, <1>9, RowsTurnKeeps DEF Beside

LEMMA TrimEnds ==
    ASSUME PurgeInv, rRun.pc = "rows", NEW err \in BOOLEAN, rRun.error => err,
           rRun' = [rRun EXCEPT !.pc = "unlink", !.list = R!Refs, !.error = err,
                                !.count["revisions"] = Cardinality(rRun.trimmed)],
           UNCHANGED <<R!tables, rGone>>, rFaults' \in 0 .. PurgeFaults, Beside
    PROVE  PurgeInv'
<1>1. /\ rGone["revisions"] = Cardinality(rRun.trimmed) /\ rRun.trimmed \cap rRevs = {}
      /\ \A a \in R!Areas \ {"revisions"} : rRun.count[a] = rGone[a]
  BY DEF PurgeInv, RunInv
<1> DEFINE cnt == [rRun.count EXCEPT !["revisions"] = Cardinality(rRun.trimmed)]
<1>2. cnt \in [R!Areas -> Nat] /\ \A a \in R!Areas : cnt[a] = rGone[a]
  BY <1>1, RunIs DEF R!Areas
<1>3. rRun' = [rRun EXCEPT !.pc = "unlink", !.list = rRun.trimmed, !.error = err, !.count = cnt]
  BY RunIs DEF RunType, R!Refs
<1> HIDE DEF cnt
<1>4. /\ rRun' \in RunType /\ rRun'.pc = "unlink" /\ rRun'.list = rRun.trimmed /\ rRun'.policy = rRun.policy
      /\ rRun'.count = cnt /\ rRun'.error = err
  BY <1>2, <1>3, RunIs DEF RunType
<1>5. TablesInv'
  BY DEF PurgeInv, TablesInv, R!tables, Beside
<1>6. CleanInv'
  BY <1>4 DEF PurgeInv, CleanInv, AfterOrphans, CleanDeliveries, R!tables
<1>7. (\A a \in R!Areas : rRun'.count[a] = rGone'[a]) /\ rRun'.list \cap rRevs' = {}
  BY <1>1, <1>2, <1>4 DEF R!tables
<1> QED
  BY <1>4, <1>5, <1>6, <1>7, LateKeeps DEF Beside

LEMMA TrimKeeps == ASSUME PurgeInv, R!TrimRevisions, Beside PROVE PurgeInv'
<1>1. CASE /\ rRun.pc = "trim" /\ rRun' = [rRun EXCEPT !.pc = "rows", !.list = R!Behind]
           /\ UNCHANGED <<R!tables, rGone, rFaults>>
  BY <1>1, TrimBegins
<1>2. CASE /\ rRun.pc = "rows"
           /\ \E n \in rRun.list :
                /\ rRevs' = rRevs \ {n} /\ rGone' = [rGone EXCEPT !["revisions"] = @ + 1]
                /\ rRun' = [rRun EXCEPT !.list = @ \ {n}, !.trimmed = @ \cup {n}]
           /\ UNCHANGED <<rEvents, rDeliveries, rRetries, rAudit, rFiles, rFaults>>
  BY <1>2, TrimRow
<1>3. CASE /\ rRun.pc = "rows"
           /\ rRun' = [rRun EXCEPT !.pc = "unlink", !.list = R!Refs,
                                   !.count["revisions"] = Cardinality(rRun.trimmed)]
           /\ UNCHANGED <<R!tables, rGone, rFaults>>
  <2>1. PICK err \in BOOLEAN : err = rRun.error
    BY RunIs DEF RunType
  <2>2. rRun' = [rRun EXCEPT !.pc = "unlink", !.list = R!Refs, !.error = err,
                             !.count["revisions"] = Cardinality(rRun.trimmed)]
    BY <1>3, <2>1, RunIs DEF RunType
  <2>3. rFaults' \in 0 .. PurgeFaults
    BY <1>3, PurgeFaultIs
  <2> QED
    BY <1>3, <2>1, <2>2, <2>3, TrimEnds
<1>4. CASE rRun.pc = "trim" /\ R!Stopped("unlink")
  <2>1. /\ rRun' \in RunType /\ SameRun(rRun', rRun) /\ rRun'.error = TRUE /\ rRun'.pc = "unlink"
        /\ rRun'.count = rRun.count /\ rGone' = rGone /\ UNCHANGED R!tables /\ rFaults' \in 0 .. PurgeFaults
    BY <1>4, StoppedIs
  <2>2. TablesInv' /\ CleanInv'
    BY <2>1 DEF PurgeInv, TablesInv, R!tables, Beside, CleanInv
  <2>3. (\A a \in R!Areas : rRun'.count[a] = rGone'[a]) /\ rRun'.list = {}
    <3>1. \A a \in R!Areas : rRun.count[a] = rGone[a]
      BY <1>4, CountsAgree
    <3>2. rRun.list = {}
      BY <1>4 DEF PurgeInv, RunInv, EarlyAreas
    <3> QED
      BY <2>1, <3>1, <3>2 DEF SameRun
  <2> QED
    BY <1>4, <2>1, <2>2, <2>3, LateKeeps DEF SameRun, Beside
<1>5. CASE /\ rRun.pc = "rows"
           /\ rRun' = [rRun EXCEPT !.pc = "unlink", !.list = R!Refs, !.error = TRUE,
                                   !.count["revisions"] = Cardinality(rRun.trimmed)]
           /\ IF rRun.done THEN UNCHANGED rFaults ELSE R!Fault
           /\ UNCHANGED <<R!tables, rGone>>
  <2>1. rFaults' \in 0 .. PurgeFaults
    BY <1>5, PurgeFaultIs
  <2> QED
    BY <1>5, <2>1, TrimEnds
<1> QED
  BY <1>1, <1>2, <1>3, <1>4, <1>5, PurgeSizes DEF R!TrimRevisions

(* After the revisions' turn: the files.                                     *)
LEMMA FileGoes ==
    ASSUME PurgeInv, rRun.pc \in {"unlink", "sweep"}, NEW n \in rRun.list, rFiles' = rFiles \ {n},
           rRun' = [rRun EXCEPT !.list = @ \ {n}, !.count["files"] = @ + Cardinality(rFiles \cap {n})],
           rGone' = [rGone EXCEPT !["files"] = @ + Cardinality(rFiles \cap {n})],
           UNCHANGED <<rEvents, rDeliveries, rRetries, rAudit, rRevs, rFaults>>, Beside
    PROVE  PurgeInv'
<1> DEFINE k == Cardinality(rFiles \cap {n})
           cnt == [rRun.count EXCEPT !["files"] = @ + k]
<1>1. k \in Nat
  <2>1. rFiles \cap {n} \subseteq Snapshots /\ IsFiniteSet(Snapshots)
    BY PurgeSizes DEF PurgeInv, TablesInv, R!BoundsOK
  <2> QED
    BY <2>1, PurgeSizes, FS_Subset, FS_CardinalityType
<1>2. rRun' = [rRun EXCEPT !.list = rRun.list \ {n}, !.count = cnt] /\ rGone' = [rGone EXCEPT !["files"] = @ + k]
  BY RunIs DEF RunType
<1> HIDE DEF k
<1>3. \A a \in R!Areas : rRun.count[a] = rGone[a]
  BY CountsAgree
<1>4. /\ cnt \in [R!Areas -> Nat] /\ rGone' \in [R!Areas -> Nat] /\ \A a \in R!Areas : cnt[a] = rGone'[a]
  <2>1. rRun.count \in [R!Areas -> Nat] /\ rGone \in [R!Areas -> Nat] /\ "files" \in R!Areas
    BY RunIs DEF R!Areas
  <2> QED
    BY <1>1, <1>2, <1>3, <2>1
<1> HIDE DEF cnt
<1>5. /\ rRun' \in RunType /\ rRun'.pc = rRun.pc /\ rRun'.list = rRun.list \ {n} /\ rRun'.count = cnt
      /\ rRun'.policy = rRun.policy /\ rRun'.error = rRun.error
  BY <1>2, <1>4, RunIs DEF RunType
<1>6. rRun.list \cap rRevs = {}
  BY DEF PurgeInv, RunInv
<1>7. TablesInv'
  BY <1>4, <1>6 DEF PurgeInv, TablesInv, Beside
<1>8. CleanInv'
  BY <1>5 DEF PurgeInv, CleanInv, AfterOrphans, CleanDeliveries
<1> QED
  BY <1>4, <1>5, <1>6, <1>7, <1>8, LateKeeps DEF Beside

LEMMA FileStays ==
    ASSUME PurgeInv, rRun.pc \in {"unlink", "sweep"}, NEW n \in rRun.list, R!Fault,
           rRun' = [rRun EXCEPT !.list = @ \ {n}, !.error = @ \/ rRun.pc = "sweep"],
           UNCHANGED <<rEvents, rDeliveries, rRetries, rAudit, rRevs, rFiles, rGone>>, Beside
    PROVE  PurgeInv'
<1>1. PICK err \in BOOLEAN : err = (rRun.error \/ rRun.pc = "sweep")
  OBVIOUS
<1>2. rRun' = [rRun EXCEPT !.list = rRun.list \ {n}, !.error = err]
  BY <1>1, RunIs DEF RunType
<1>3. /\ rRun' \in RunType /\ rRun'.pc = rRun.pc /\ rRun'.list = rRun.list \ {n} /\ rRun'.count = rRun.count
      /\ rRun'.policy = rRun.policy /\ rRun'.error = err
  BY <1>2, RunIs DEF RunType
<1>4. TablesInv'
  BY PurgeFaultIs DEF PurgeInv, TablesInv, Beside
<1>5. CleanInv'
  <2>1. ~err => ~rRun.error /\ rRun.pc # "sweep"
    BY <1>1
  <2> QED
    BY <1>3, <2>1 DEF PurgeInv, CleanInv, AfterOrphans, CleanDeliveries
<1>6. (\A a \in R!Areas : rRun'.count[a] = rGone'[a]) /\ rRun'.list \cap rRevs' = {}
  <2>1. rRun.list \cap rRevs = {}
    BY DEF PurgeInv, RunInv
  <2> QED
    BY <1>3, <2>1, CountsAgree
<1> QED
  BY <1>3, <1>4, <1>5, <1>6, LateKeeps DEF Beside

(* The turn ends: nothing is left on its list.                               *)
LEMMA TurnEnds ==
    ASSUME PurgeInv, NEW next \in {"orphaned", "save"}, rRun' = [rRun EXCEPT !.pc = next],
           IF next = "orphaned" THEN rRun.pc = "unlink" ELSE rRun.pc = "sweep", rRun.list = {},
           UNCHANGED <<R!tables, rGone, rFaults>>, Beside
    PROVE  PurgeInv'
<1>1. /\ rRun' \in RunType /\ rRun'.pc = next /\ rRun'.list = {} /\ rRun'.count = rRun.count
      /\ rRun'.policy = rRun.policy /\ rRun'.error = rRun.error
  BY RunIs DEF RunType
<1>2. TablesInv'
  BY DEF PurgeInv, TablesInv, R!tables, Beside
<1>3. CleanInv'
  BY <1>1 DEF PurgeInv, CleanInv, AfterOrphans, CleanDeliveries, R!tables
<1>4. \A a \in R!Areas : rRun'.count[a] = rGone'[a]
  BY <1>1, CountsAgree
<1> QED
  BY <1>1, <1>2, <1>3, <1>4, LateKeeps DEF Beside

LEMMA FilesKeep == ASSUME PurgeInv, R!RemoveFiles, Beside PROVE PurgeInv'
<1>1. CASE /\ rRun.pc \in {"unlink", "sweep"}
           /\ \E n \in rRun.list :
                \/ /\ rFiles' = rFiles \ {n} /\ UNCHANGED rFaults
                   /\ rRun' = [rRun EXCEPT !.list = @ \ {n}, !.count["files"] = @ + Cardinality(rFiles \cap {n})]
                   /\ rGone' = [rGone EXCEPT !["files"] = @ + Cardinality(rFiles \cap {n})]
                \/ /\ R!Fault /\ UNCHANGED <<rFiles, rGone>>
                   /\ rRun' = [rRun EXCEPT !.list = @ \ {n}, !.error = @ \/ rRun.pc = "sweep"]
           /\ UNCHANGED <<rEvents, rDeliveries, rRetries, rAudit, rRevs>>
  <2>1. PICK n \in rRun.list :
                \/ /\ rFiles' = rFiles \ {n} /\ UNCHANGED rFaults
                   /\ rRun' = [rRun EXCEPT !.list = @ \ {n}, !.count["files"] = @ + Cardinality(rFiles \cap {n})]
                   /\ rGone' = [rGone EXCEPT !["files"] = @ + Cardinality(rFiles \cap {n})]
                \/ /\ R!Fault /\ UNCHANGED <<rFiles, rGone>>
                   /\ rRun' = [rRun EXCEPT !.list = @ \ {n}, !.error = @ \/ rRun.pc = "sweep"]
    BY <1>1
  <2> QED
    BY <1>1, <2>1, FileGoes, FileStays
<1>2. CASE /\ rRun.pc = "unlink" /\ rRun.list = {} /\ rRun' = [rRun EXCEPT !.pc = "orphaned"]
           /\ UNCHANGED <<R!tables, rGone, rFaults>>
  BY <1>2, TurnEnds
<1>3. CASE /\ rRun.pc = "sweep" /\ rRun.list = {} /\ rRun' = [rRun EXCEPT !.pc = "save"]
           /\ UNCHANGED <<R!tables, rGone, rFaults>>
  BY <1>3, TurnEnds
<1> QED
  BY <1>1, <1>2, <1>3, PurgeSizes DEF R!RemoveFiles

LEMMA SweepKeeps == ASSUME PurgeInv, R!sweepOrphanRevisionFiles, Beside PROVE PurgeInv'
<1>1. CASE /\ rRun.pc = "orphaned" /\ rRun' = [rRun EXCEPT !.pc = "sweep", !.list = rFiles \ rRevs]
           /\ UNCHANGED <<R!tables, rGone, rFaults>>
  <2>1. rFiles \ rRevs \subseteq Snapshots
    BY DEF PurgeInv, TablesInv
  <2>2. /\ rRun' \in RunType /\ rRun'.pc = "sweep" /\ rRun'.list = rFiles \ rRevs /\ rRun'.count = rRun.count
        /\ rRun'.policy = rRun.policy /\ rRun'.error = rRun.error
    BY <1>1, <2>1, RunIs DEF RunType
  <2>3. TablesInv'
    BY <1>1 DEF PurgeInv, TablesInv, R!tables, Beside
  <2>4. CleanInv'
    BY <1>1, <2>2 DEF PurgeInv, CleanInv, AfterOrphans, CleanDeliveries, R!tables
  <2>5. (\A a \in R!Areas : rRun'.count[a] = rGone'[a]) /\ rRun'.list \cap rRevs' = {}
    BY <1>1, <2>2, CountsAgree DEF R!tables
  <2> QED
    BY <1>1, <2>2, <2>3, <2>4, <2>5, LateKeeps DEF Beside
<1>2. CASE rRun.pc = "orphaned" /\ R!Stopped("save")
  <2>1. /\ rRun' \in RunType /\ SameRun(rRun', rRun) /\ rRun'.error = TRUE /\ rRun'.pc = "save"
        /\ rRun'.count = rRun.count /\ rGone' = rGone /\ UNCHANGED R!tables /\ rFaults' \in 0 .. PurgeFaults
    BY <1>2, StoppedIs
  <2>2. TablesInv' /\ CleanInv'
    BY <2>1 DEF PurgeInv, TablesInv, R!tables, Beside, CleanInv
  <2>3. \A a \in R!Areas : rRun'.count[a] = rGone'[a]
    BY <1>2, <2>1, CountsAgree
  <2> QED
    BY <1>2, <2>1, <2>2, <2>3, LateKeeps DEF SameRun, Beside
<1> QED
  BY <1>1, <1>2 DEF R!sweepOrphanRevisionFiles

LEMMA IdleKeeps ==
    ASSUME PurgeInv, TablesInv', rRun' = R!Idle
    PROVE  PurgeInv'
<1>1. R!Idle \in RunType /\ R!Idle.pc = "idle"
  BY DEF R!Idle, RunType, R!Nothing, Policies
<1>2. RunInv' /\ CleanInv'
  BY <1>1 DEF RunInv, CleanInv, AfterOrphans
<1> QED
  BY <1>1, <1>2, PurgeBoundsStay DEF PurgeInv, RunType, Policies

LEMMA RunRecorded == ASSUME PurgeInv, R!Record PROVE PurgeInv'
<1> DEFINE free == (1 .. MaxRows) \ DOMAIN rAudit
<1>1. /\ rRun.pc = "save" /\ rRun' = R!Idle
      /\ UNCHANGED <<rEvents, rDeliveries, rRetries, rRevs, rFiles, rGone, rPolicy, rRuns>>
      /\ rAudit' = rAudit \/ (free # {} /\ rAudit' = R!Inserted(rAudit, R!Min(free), 0))
  BY DEF R!Record, R!SaveRetentionRun
<1>2. rLast'.count = rLast'.gone /\ rFaults' \in 0 .. PurgeFaults
  <2>1. CASE rLast' = [count |-> rRun.count, gone |-> rGone, error |-> rRun.error] /\ UNCHANGED rFaults
    <3>1. \A a \in R!Areas : rRun.count[a] = rGone[a]
      BY <1>1, CountsAgree
    <3>2. rRun.count = rGone
      BY <3>1, RunIs
    <3>3. rLast'.count = rRun.count /\ rLast'.gone = rGone
      BY <2>1
    <3> QED
      BY <2>1, <3>2, <3>3, PurgeFaultIs
  <2>2. CASE UNCHANGED rLast /\ R!Fault
    BY <2>2, PurgeFaultIs DEF PurgeInv, TablesInv
  <2> QED
    BY <2>1, <2>2 DEF R!Record, R!SaveRetentionRun
<1>3. rAudit' \in [DOMAIN rAudit' -> 0 .. AgeCap] /\ DOMAIN rAudit' \subseteq 1 .. MaxRows
  <2>1. /\ rAudit \in [DOMAIN rAudit -> 0 .. AgeCap] /\ DOMAIN rAudit \subseteq 1 .. MaxRows
        /\ 0 \in 0 .. AgeCap
    BY DEF PurgeInv, TablesInv, R!BoundsOK
  <2>2. CASE rAudit' = rAudit
    BY <2>1, <2>2
  <2>3. CASE free # {} /\ rAudit' = R!Inserted(rAudit, R!Min(free), 0)
    <3>1. PICK i \in free : i = R!Min(free)
      BY <2>3, FreeIs
    <3> QED
      BY <2>1, <2>3, <3>1 DEF R!Inserted
  <2> QED
    BY <1>1, <2>2, <2>3
<1>4. TablesInv'
  BY <1>1, <1>2, <1>3 DEF PurgeInv, TablesInv
<1> QED
  BY <1>1, <1>4, IdleKeeps

LEMMA PurgeKilled == ASSUME PurgeInv, R!Kill PROVE PurgeInv'
<1>1. TablesInv'
  BY PurgeFaultIs DEF R!Kill, PurgeInv, TablesInv, R!tables
<1> QED
  BY <1>1, IdleKeeps DEF R!Kill

LEMMA RunExpires == ASSUME PurgeInv, R!Expire PROVE PurgeInv'
<1>1. rRun' = [rRun EXCEPT !.done = TRUE] /\ UNCHANGED <<rPolicy, R!tables, rLast, rAsked, rGone, rRuns, rFaults>>
  BY DEF R!Expire
<1>2. /\ rRun' \in RunType /\ rRun'.pc = rRun.pc /\ rRun'.policy = rRun.policy /\ rRun'.count = rRun.count
      /\ rRun'.error = rRun.error /\ rRun'.list = rRun.list /\ rRun'.trimmed = rRun.trimmed
  BY <1>1, RunIs DEF RunType
<1>3. TablesInv'
  BY <1>1 DEF PurgeInv, TablesInv, R!tables
<1>4. RunInv'
  BY <1>1, <1>2 DEF PurgeInv, RunInv, R!Judged, R!Validate, R!DaysValid, KeptBefore, R!tables
<1>5. CleanInv'
  BY <1>1, <1>2 DEF PurgeInv, CleanInv, CleanDeliveries, R!tables
<1> QED
  BY <1>2, <1>3, <1>4, <1>5, PurgeBoundsStay DEF PurgeInv

LEMMA AlertsKeep == ASSUME PurgeInv, R!PurgeAlertEvents, Beside PROVE PurgeInv'
<1>1. CASE /\ rRun.pc = "events"
           /\ \E Y \in SUBSET R!OldEvents :
                /\ R!Deleted(R!OldEvents, Y) /\ rEvents' = R!Restrict(rEvents, DOMAIN rEvents \ Y)
                /\ R!Counted("events", Cardinality(Y), "orphans")
           /\ UNCHANGED <<rDeliveries, rRetries, rAudit, rRevs, rFiles, rFaults>>
  BY <1>1, EventsKeep
<1>2. CASE /\ rRun.pc = "orphans"
           /\ \E Y \in SUBSET R!Orphans :
                /\ R!Deleted(R!Orphans, Y) /\ rDeliveries' = R!Restrict(rDeliveries, DOMAIN rDeliveries \ Y)
                /\ R!Counted("deliveries", Cardinality(Y), "retries")
           /\ UNCHANGED <<rEvents, rRetries, rAudit, rRevs, rFiles, rFaults>>
  BY <1>2, OrphansKeep
<1>3. CASE /\ rRun.pc = "retries"
           /\ \E Y \in SUBSET R!LostRetries :
                /\ R!Deleted(R!LostRetries, Y) /\ rRetries' = rRetries \ Y
                /\ rRun' = [rRun EXCEPT !.pc = IF R!LastBatch(Cardinality(Y)) THEN "deliveries" ELSE @]
           /\ UNCHANGED <<rEvents, rDeliveries, rAudit, rRevs, rFiles, rGone, rFaults>>
  BY <1>3, RetriesKeep
<1>4. CASE rRun.pc \in {"events", "orphans", "retries"} /\ R!Stopped("deliveries")
  BY <1>4, StopKeeps DEF EarlyAreas, Beside
<1> QED
  BY <1>1, <1>2, <1>3, <1>4, PurgeSizes DEF R!PurgeAlertEvents

LEMMA RunKeeps ==
    ASSUME PurgeInv, R!PurgeAlertDeliveries \/ R!PurgeAudit, Beside
    PROVE  PurgeInv'
<1>1. CASE /\ rRun.pc = "deliveries"
           /\ \E Y \in SUBSET R!OldDeliveries :
                /\ R!Deleted(R!OldDeliveries, Y) /\ rDeliveries' = R!Restrict(rDeliveries, DOMAIN rDeliveries \ Y)
                /\ R!Counted("deliveries", Cardinality(Y), "audit")
           /\ UNCHANGED <<rEvents, rRetries, rAudit, rRevs, rFiles, rFaults>>
  BY <1>1, DeliveriesKeep
<1>2. CASE rRun.pc = "deliveries" /\ R!Stopped("audit")
  BY <1>2, StopKeeps DEF EarlyAreas, Beside
<1>3. CASE /\ rRun.pc = "audit"
           /\ \E Y \in SUBSET R!OldAudit :
                /\ R!Deleted(R!OldAudit, Y) /\ rAudit' = R!Restrict(rAudit, DOMAIN rAudit \ Y)
                /\ R!Counted("audit", Cardinality(Y), "trim")
           /\ UNCHANGED <<rEvents, rDeliveries, rRetries, rRevs, rFiles, rFaults>>
  BY <1>3, AuditKeeps
<1>4. CASE rRun.pc = "audit" /\ R!Stopped("trim")
  BY <1>4, StopKeeps DEF EarlyAreas, Beside
<1> QED
  BY <1>1, <1>2, <1>3, <1>4, PurgeSizes DEF R!PurgeAlertDeliveries, R!PurgeAudit

LEMMA PurgeStep == ASSUME PurgeInv, [R!Next]_R!vars PROVE PurgeInv'
<1>1. CASE R!Purge
  BY <1>1, AlertsKeep, RunKeeps, PassKeeps, TrimKeeps, FilesKeep, SweepKeeps DEF R!Purge, Beside
<1>2. CASE UNCHANGED R!vars
  <2>1. UNCHANGED <<rRun, rAsked, rGone, rRevs, rFiles, rEvents, rRetries>> /\ TablesInv' /\ CleanDeliveries' = CleanDeliveries
    BY <1>2 DEF R!vars, PurgeInv, TablesInv, CleanDeliveries
  <2> QED
    BY <2>1, BesideKeeps
<1> QED
  BY <1>1, <1>2, SetPolicyKeeps, PurgeBegins, RunRecorded, RunExpires, PurgeKilled, AgeKeeps, LookUpKeeps,
     DeliveryKeeps DEF R!Next

-----------------------------------------------------------------------------
(* The properties.                                                           *)
LEMMA PurgeEnough == ASSUME PurgeInv PROVE R!TypeOK /\ R!RecordIsTrue /\ R!RowsHaveFiles /\ R!SweptClean
<1>1. R!TypeOK
  BY RunIs DEF PurgeInv, TablesInv, R!TypeOK
<1>2. R!SweptClean
  BY DEF PurgeInv, CleanInv, AfterOrphans, CleanDeliveries, R!SweptClean
<1> QED
  BY <1>1, <1>2 DEF PurgeInv, TablesInv, R!RecordIsTrue, R!RowsHaveFiles

(* A row that goes is past its days by now, when it was by then.             *)
LEMMA ExpiredIs ==
    ASSUME PurgeInv, NEW age \in 0 .. AgeCap, NEW days \in Int, R!Expired(age, days)
    PROVE  days > 0 /\ age > days
  BY DEF R!Expired, PurgeInv, RunType, R!BoundsOK

LEMMA JudgedIs ==
    ASSUME PurgeInv, rRun.pc # "idle"
    PROVE  /\ rRun.policy = R!Judged /\ R!Validate(R!Judged)
           /\ R!Judged.events \in Int /\ R!Judged.deliveries \in Int /\ R!Judged.audit \in Int /\ R!Judged.keep \in Int
<1>1. rRun.policy = R!Judged /\ R!Validate(R!Judged)
  BY DEF PurgeInv, RunInv
<1> QED
  BY <1>1, RunIs

(* Tables a step does not shrink.                                            *)
NothingGoes == /\ DOMAIN rEvents \subseteq DOMAIN rEvents' /\ DOMAIN rDeliveries \subseteq DOMAIN rDeliveries'
               /\ DOMAIN rAudit \subseteq DOMAIN rAudit' /\ rRevs \subseteq rRevs'
LEMMA GrowsIs == ASSUME NothingGoes PROVE R!RemovesOnlyOld
  BY DEF NothingGoes, R!RemovesOnlyOld
LEMMA TablesUnchanged == ASSUME UNCHANGED R!tables PROVE NothingGoes
  BY DEF R!tables, NothingGoes

LEMMA OldEventsGo ==
    ASSUME PurgeInv, rRun.pc = "events", NEW Y \in SUBSET R!OldEvents, rEvents' = R!Restrict(rEvents, DOMAIN rEvents \ Y),
           UNCHANGED <<rDeliveries, rAudit, rRevs>>
    PROVE  R!RemovesOnlyOld
<1>1. DOMAIN rEvents \ DOMAIN rEvents' \subseteq Y
  BY DEF R!Restrict
<1>2. \A e \in Y : R!Validate(R!Judged) /\ R!Judged.events > 0 /\ rEvents[e] > R!Judged.events
  <2>1. TAKE e \in Y
  <2>2. e \in DOMAIN rEvents /\ rEvents[e] \in 0 .. AgeCap /\ R!Expired(rEvents[e], rRun.policy.events)
    BY DEF R!OldEvents, PurgeInv, TablesInv
  <2> QED
    BY <2>2, JudgedIs, ExpiredIs
<1> QED
  BY <1>1, <1>2 DEF R!RemovesOnlyOld

LEMMA OrphansGo ==
    ASSUME PurgeInv, rRun.pc = "orphans", NEW Y \in SUBSET R!Orphans,
           rDeliveries' = R!Restrict(rDeliveries, DOMAIN rDeliveries \ Y), UNCHANGED <<rEvents, rAudit, rRevs>>
    PROVE  R!RemovesOnlyOld
<1>1. DOMAIN rDeliveries \ DOMAIN rDeliveries' \subseteq Y
  BY DEF R!Restrict
<1>2. \A d \in Y : R!Validate(R!Judged) /\ R!Judged.events > 0 /\ rDeliveries[d].event \notin DOMAIN rEvents
  BY JudgedIs DEF R!Orphans
<1> QED
  BY <1>1, <1>2 DEF R!RemovesOnlyOld

LEMMA OldDeliveriesGo ==
    ASSUME PurgeInv, rRun.pc = "deliveries", NEW Y \in SUBSET R!OldDeliveries,
           rDeliveries' = R!Restrict(rDeliveries, DOMAIN rDeliveries \ Y), UNCHANGED <<rEvents, rAudit, rRevs>>
    PROVE  R!RemovesOnlyOld
<1>1. DOMAIN rDeliveries \ DOMAIN rDeliveries' \subseteq Y
  BY DEF R!Restrict
<1>2. \A d \in Y : R!Validate(R!Judged) /\ R!Judged.deliveries > 0 /\ rDeliveries[d].age > R!Judged.deliveries
  <2>1. TAKE d \in Y
  <2>2. d \in DOMAIN rDeliveries /\ rDeliveries[d] \in DeliveryRows /\ R!Expired(rDeliveries[d].age, rRun.policy.deliveries)
    BY DEF R!OldDeliveries, PurgeInv, TablesInv
  <2>3. rDeliveries[d].age \in 0 .. AgeCap
    BY <2>2 DEF DeliveryRows
  <2> QED
    BY <2>2, <2>3, JudgedIs, ExpiredIs
<1> QED
  BY <1>1, <1>2 DEF R!RemovesOnlyOld

LEMMA OldAuditGoes ==
    ASSUME PurgeInv, rRun.pc = "audit", NEW Y \in SUBSET R!OldAudit, rAudit' = R!Restrict(rAudit, DOMAIN rAudit \ Y),
           UNCHANGED <<rEvents, rDeliveries, rRevs>>
    PROVE  R!RemovesOnlyOld
<1>1. DOMAIN rAudit \ DOMAIN rAudit' \subseteq Y
  BY DEF R!Restrict
<1>2. \A i \in Y : R!Validate(R!Judged) /\ R!Judged.audit >= MinAudit /\ rAudit[i] > R!Judged.audit
  <2>1. TAKE i \in Y
  <2>2. /\ i \in DOMAIN rAudit /\ rAudit[i] \in 0 .. AgeCap /\ R!Expired(rAudit[i], rRun.policy.audit)
        /\ rRun.policy.audit >= MinAudit
    BY DEF R!OldAudit, PurgeInv, TablesInv
  <2> QED
    BY <2>2, JudgedIs, ExpiredIs
<1> QED
  BY <1>1, <1>2 DEF R!RemovesOnlyOld

LEMMA RevisionGoes ==
    ASSUME PurgeInv, rRun.pc = "rows", NEW n \in rRun.list, rRevs' = rRevs \ {n},
           UNCHANGED <<rEvents, rDeliveries, rAudit>>
    PROVE  R!RemovesOnlyOld
<1>1. rRun.policy.keep > 0 /\ Cardinality(KeptBefore(n)) >= rRun.policy.keep
  BY DEF PurgeInv, RunInv
<1>2. KeptBefore(n) \subseteq {m \in rRevs' : m > n}
  BY DEF KeptBefore
<1>3. IsFiniteSet({m \in rRevs' : m > n})
  BY FiniteTables, FS_Subset
<1>4. /\ Cardinality(KeptBefore(n)) <= Cardinality({m \in rRevs' : m > n})
      /\ Cardinality(KeptBefore(n)) \in Nat /\ Cardinality({m \in rRevs' : m > n}) \in Nat
  BY <1>2, <1>3, FS_Subset, FS_CardinalityType
<1>5. rRun.policy = R!Judged /\ R!Validate(R!Judged) /\ R!Judged.keep \in Int
  BY JudgedIs
<1>6. R!Judged.keep >= MinKeep /\ MinKeep \in Nat
  BY <1>1, <1>5 DEF R!Validate, PurgeInv, R!BoundsOK
<1>7. R!Judged.keep > 0 /\ Cardinality({m \in rRevs' : m > n}) >= MinKeep
  BY <1>1, <1>4, <1>5, <1>6
<1> QED
  BY <1>5, <1>7, PurgeSizes DEF R!RemovesOnlyOld

LEMMA PurgeRemoves == ASSUME PurgeInv, R!Purge PROVE R!RemovesOnlyOld
<1>1. CASE R!PurgeAlertEvents
  <2>1. CASE rRun.pc = "events" /\ \E Y \in SUBSET R!OldEvents :
               rEvents' = R!Restrict(rEvents, DOMAIN rEvents \ Y) /\ UNCHANGED <<rDeliveries, rAudit, rRevs>>
    BY <2>1, OldEventsGo
  <2>2. CASE rRun.pc = "orphans" /\ \E Y \in SUBSET R!Orphans :
               rDeliveries' = R!Restrict(rDeliveries, DOMAIN rDeliveries \ Y) /\ UNCHANGED <<rEvents, rAudit, rRevs>>
    BY <2>2, OrphansGo
  <2>3. CASE UNCHANGED <<rEvents, rDeliveries, rAudit, rRevs>>
    BY <2>3, GrowsIs DEF NothingGoes
  <2> QED
    BY <1>1, <2>1, <2>2, <2>3 DEF R!PurgeAlertEvents, R!Stopped, R!tables
<1>2. CASE R!PurgeAlertDeliveries
  <2>1. CASE rRun.pc = "deliveries" /\ \E Y \in SUBSET R!OldDeliveries :
               rDeliveries' = R!Restrict(rDeliveries, DOMAIN rDeliveries \ Y) /\ UNCHANGED <<rEvents, rAudit, rRevs>>
    BY <2>1, OldDeliveriesGo
  <2> QED
    BY <1>2, <2>1, GrowsIs, TablesUnchanged DEF R!PurgeAlertDeliveries, R!Stopped
<1>3. CASE R!PurgeAudit
  <2>1. CASE rRun.pc = "audit" /\ \E Y \in SUBSET R!OldAudit :
               rAudit' = R!Restrict(rAudit, DOMAIN rAudit \ Y) /\ UNCHANGED <<rEvents, rDeliveries, rRevs>>
    BY <2>1, OldAuditGoes
  <2> QED
    BY <1>3, <2>1, GrowsIs, TablesUnchanged DEF R!PurgeAudit, R!Stopped
<1>4. CASE R!TrimRevisions
  <2>1. CASE rRun.pc = "rows" /\ \E n \in rRun.list : rRevs' = rRevs \ {n} /\ UNCHANGED <<rEvents, rDeliveries, rAudit>>
    BY <2>1, RevisionGoes
  <2> QED
    BY <1>4, <2>1, GrowsIs, TablesUnchanged DEF R!TrimRevisions, R!Stopped
<1>5. CASE R!PassOver \/ R!RemoveFiles \/ R!sweepOrphanRevisionFiles
  <2>1. NothingGoes
    BY <1>5 DEF R!PassOver, R!RemoveFiles, R!sweepOrphanRevisionFiles, R!Stopped, R!tables, NothingGoes
  <2> QED
    BY <2>1, GrowsIs
<1> QED
  BY <1>1, <1>2, <1>3, <1>4, <1>5 DEF R!Purge

LEMMA RemovesStep == ASSUME PurgeInv, [R!Next]_R!vars PROVE R!RemovesOnlyOld
<1>1. CASE R!Record
  <2>1. NothingGoes
    BY <1>1 DEF R!Record, R!SaveRetentionRun, R!Inserted, NothingGoes
  <2> QED
    BY <2>1, GrowsIs
<1>2. CASE R!Tick
  <2>1. NothingGoes
    BY <1>2 DEF R!Tick, R!Older, NothingGoes
  <2> QED
    BY <2>1, GrowsIs
<1>3. CASE \E e \in DOMAIN Feed : R!RecordAlertDelivery(e)
  <2>1. NothingGoes
    BY <1>3 DEF R!RecordAlertDelivery, R!Inserted, NothingGoes
  <2> QED
    BY <2>1, GrowsIs
<1>4. CASE R!Begin \/ R!Expire \/ R!Kill \/ UNCHANGED R!vars
  <2>1. UNCHANGED R!tables
    BY <1>4 DEF R!Begin, R!Expire, R!Kill, R!vars, R!tables
  <2> QED
    BY <2>1, TablesUnchanged, GrowsIs
<1>5. CASE \/ \E p \in Submitted : R!handleSetRetention(p)
           \/ \E e \in DOMAIN Feed : R!LookUp(e)
  <2>1. UNCHANGED R!tables
    BY <1>5 DEF R!handleSetRetention, R!LookUp
  <2> QED
    BY <2>1, TablesUnchanged, GrowsIs
<1> QED
  BY <1>1, <1>2, <1>3, <1>4, <1>5, PurgeRemoves DEF R!Next

(* The invariant holds throughout, for every policy, every table and every   *)
(* batch.                                                                    *)
THEOREM PurgeInvariance == ASSUME R!BoundsOK PROVE R!Spec => []PurgeInv
<1>1. R!Init => PurgeInv
  BY PurgeInit
<1>2. PurgeInv /\ [R!Next]_R!vars => PurgeInv'
  BY PurgeStep
<1> QED
  BY <1>1, <1>2, PTL DEF R!Spec

(* A purge deletes what the policy saved when it began says, and its record, *)
(* the snapshots and what it leaves are as they should be.                   *)
THEOREM PurgeSound ==
    ASSUME R!BoundsOK
    PROVE  R!Spec => /\ [](R!TypeOK /\ R!RecordIsTrue /\ R!RowsHaveFiles /\ R!SweptClean)
                     /\ [][R!RemovesOnlyOld]_R!vars
<1>1. PurgeInv => R!TypeOK /\ R!RecordIsTrue /\ R!RowsHaveFiles /\ R!SweptClean
  BY PurgeEnough
<1>2. PurgeInv /\ [R!Next]_R!vars => [R!RemovesOnlyOld]_R!vars
  BY RemovesStep
<1> QED
  BY <1>1, <1>2, PurgeInvariance, PTL DEF R!Spec

-----------------------------------------------------------------------------
(***************************************************************************)
(* The volumes of remote projects.  What is known of a project's volumes   *)
(* depends on where its operation stands: a snapshot has changed nothing,  *)
(* the volumes a copy is through with hold the files, and those an undo is *)
(* through with are as the saved copy has them, which is as they were.     *)
(* Others interfere through the shared helpers and by writing; a volume    *)
(* they wrote to or removed is dirty from then on.                         *)
(***************************************************************************)
FileVersions == [Files -> 0..D!Written]
SeedVolume == {D!Absent} \cup [there : {TRUE}, c : FileVersions, label : SUBSET Projects]
Saves == UNION {[d -> SeedVolume] : d \in SUBSET D!Vols}
SeedTallies == [op : Nat, user : Nat, write : Nat, fault : Nat, crash : Nat]

AtSnapshot == {"inspect", "save"}
AtSeed == {"create", "open", "copy"}
AtPut == {"put", "empty", "fill"}
Seeding == [pc : AtSnapshot \cup AtSeed \cup {"up", "undo"} \cup AtPut,
            kind : {"deploy", "restore"}, src : Sources, todo : SUBSET D!Vols,
            at : D!Vols \cup {D!Absent}, budget : Nat, touched : SUBSET D!Vols, snap : Saves,
            errs : SUBSET D!Vols]
Removing == [pc : {"close", "remove"}, at : D!Vols \cup {D!Absent}, todo : SUBSET D!Vols,
             errs : SUBSET D!Vols]

SeedReplies == {"none", "ok", "failed", "back", "stuck", "unchanged", "removed", "inuse"}

VolumesOK ==
    /\ vol \in [D!Vols -> SeedVolume]
    /\ helper \subseteq D!Vols /\ mounted \subseteq D!Vols
    /\ \A v \in helper \cup mounted : vol[v].there

HistoryOK ==
    /\ was \in [D!Vols -> SeedVolume] /\ shipped \in [D!Vols -> FileVersions]
    /\ dirty \subseteq D!Vols /\ browsing \subseteq D!Vols

TablesOK ==
    /\ op \in [Projects -> {D!Idle} \cup Seeding \cup Removing]
    /\ reply \in [Projects -> SeedReplies]
    /\ disk \in [Projects -> [now : Nat, left : Nat]]
    /\ spent \in SeedTallies

(* What the record of an operation says at each of its points.               *)
SeedStands(p) ==
    LET x == op[p] IN
    /\ x.pc # "idle" => x.todo \subseteq D!VolsOf(p) /\ reply[p] = "none"
    /\ x \in Seeding => DOMAIN x.snap \subseteq D!VolsOf(p)
    /\ x.pc \in AtSnapshot \cup AtSeed => x.touched \subseteq D!VolsOf(p)
    /\ x.pc \in {"save", "open", "copy", "empty", "fill"} => x.at \in x.todo
    /\ x.pc \in {"save", "open", "copy"} => x.at \in x.touched
    /\ x.pc \in {"empty", "fill"} => x.snap[x.at].there
    /\ x.pc = "remove" => x.at \in D!VolsOf(p)
    /\ x.pc = "up" => x.todo = {}
    /\ x.pc \in AtSnapshot \cup {"undo"} \cup AtPut => x.kind = "restore"
    /\ x.pc \in AtSnapshot => DOMAIN x.snap = D!VolsOf(p) \ x.todo
    /\ x.pc \in AtSeed \cup {"up", "undo"} \cup AtPut /\ x.kind = "restore" => DOMAIN x.snap = D!VolsOf(p)

(* The copy on disk and the budget left are the bound together.              *)
Spaced(p) ==
    /\ op[p] \in Seeding => disk[p].now + op[p].budget = MaxBytes
    /\ op[p] \in Seeding => (op[p].kind = "deploy" => disk[p].now = 0)
    /\ op[p] \notin Seeding => disk[p].now = 0

Alike(a, b) == a.there = b.there /\ D!Content(a) = D!Content(b)
Holding(a, src) == a.there /\ \A f \in Files : src[f] # 0 => a.c[f] = src[f]

(* What the volumes of a project hold while an operation is on its way,      *)
(* others' writes apart, and after it has answered.                          *)
SoundSeed(p) ==
    LET x == op[p] IN
    /\ x.pc \in AtSnapshot => \A v \in D!VolsOf(p) \ dirty : vol[v] = was[v]
    /\ x \in Seeding => \A v \in DOMAIN x.snap \ dirty : x.snap[v] = was[v]
    /\ x.pc \in AtSeed \cup {"up"} => \A v \in D!VolsOf(p) \ (x.todo \cup dirty) : Holding(vol[v], x.src)
    /\ x.pc \in AtPut => \A v \in D!VolsOf(p) \ (x.todo \cup x.errs \cup dirty) : Alike(vol[v], was[v])
    /\ reply[p] \in {"back", "unchanged"} => \A v \in D!VolsOf(p) \ dirty : Alike(vol[v], was[v])
    /\ reply[p] = "ok" => \A v \in D!VolsOf(p) \ dirty : Holding(vol[v], shipped[v])

(* The volumes whose helper an operation will close.                         *)
Holds(p) ==
    IF op[p].pc \in AtSnapshot \cup AtSeed THEN op[p].touched
    ELSE IF op[p].pc \in AtPut THEN D!VolsOf(p) ELSE {}
HelpersOwned == spent.crash = 0 => \A v \in helper : v \in browsing \/ \E p \in Projects : v \in Holds(p)
LeftBounded == \A p \in Projects : disk[p].left <= spent.crash * MaxBytes

DiskTo(p, n) == disk' = [disk EXCEPT ![p].now = n]

SeedInv ==
    /\ VolumesOK /\ HistoryOK /\ TablesOK
    /\ \A p \in Projects : SeedStands(p) /\ Spaced(p) /\ SoundSeed(p)
    /\ HelpersOwned /\ LeftBounded

LEMMA SpendCounts ==
    ASSUME TablesOK, NEW w \in {"op", "user", "write", "fault"}, NEW limit, D!Spend(w, limit)
    PROVE  spent' \in SeedTallies /\ spent'.crash = spent.crash
  BY DEF TablesOK, SeedTallies, D!Spend

LEMMA MaySpend ==
    ASSUME TablesOK, UNCHANGED spent \/ D!Spend("fault", SeedFaults)
    PROVE  spent' \in SeedTallies /\ spent'.crash = spent.crash
  BY SpendCounts DEF TablesOK

(* The volumes of two projects are different ones.                           *)
LEMMA VolumesApart ==
    ASSUME D!NamesApart, NEW p \in Projects, NEW q \in Projects, p # q
    PROVE  D!VolsOf(p) \cap D!VolsOf(q) = {}
  BY DEF D!NamesApart, D!VolsOf, D!SeedVolumeName

LEMMA VolsOfVols == ASSUME NEW p \in Projects PROVE D!VolsOf(p) \subseteq D!Vols
  BY DEF D!VolsOf, D!Vols

LEMMA SourceTyped == ASSUME D!BoundsOK, NEW src \in Sources PROVE src \in FileVersions
  BY DEF D!BoundsOK, FileVersions, D!Written

LEMMA EmptyTyped == D!Empty \in FileVersions
  BY DEF D!Empty, FileVersions, D!Written

LEMMA OverTyped ==
    ASSUME NEW c \in FileVersions, NEW src \in FileVersions, NEW some
    PROVE  D!Over(c, src, some) \in FileVersions
  BY DEF D!Over, FileVersions

(* What an operation's record is, whatever step it is at.                    *)
LEMMA RunningIs ==
    ASSUME TablesOK, NEW p \in Projects, op[p].pc \in AtSnapshot \cup AtSeed \cup {"up", "undo"} \cup AtPut
    PROVE  op[p] \in Seeding
<1>1. op[p] \in {D!Idle} \cup Seeding \cup Removing
  BY DEF TablesOK
<1>2. op[p] # D!Idle
  BY DEF D!Idle, AtSnapshot, AtSeed, AtPut
<1>3. op[p] \notin Removing
  BY DEF Removing, AtSnapshot, AtSeed, AtPut
<1> QED
  BY <1>1, <1>2, <1>3

LEMMA IdleIs ==
    ASSUME TablesOK, NEW p \in Projects
    PROVE  /\ op[p].pc = "idle" => op[p] = D!Idle /\ op[p] \notin Seeding
           /\ op[p].pc \in {"close", "remove"} => op[p] \in Removing /\ op[p] \notin Seeding
           /\ op[p] \in Seeding => op[p].pc \in AtSnapshot \cup AtSeed \cup {"up", "undo"} \cup AtPut
<1>1. op[p] \in {D!Idle} \cup Seeding \cup Removing
  BY DEF TablesOK
<1>2. op[p] = D!Idle => op[p].pc = "idle"
  BY DEF D!Idle
<1>3. op[p] \in Seeding => op[p].pc \in AtSnapshot \cup AtSeed \cup {"up", "undo"} \cup AtPut
  BY DEF Seeding
<1>4. op[p] \in Removing => op[p].pc \in {"close", "remove"}
  BY DEF Removing
<1> QED
  BY <1>1, <1>2, <1>3, <1>4 DEF AtSnapshot, AtSeed, AtPut

(* A project whose operation does not move, and whose volumes only others    *)
(* write to, is as sound as before.                                          *)
LEMMA Untouched ==
    ASSUME NEW q \in Projects, SeedStands(q), Spaced(q), SoundSeed(q),
           op'[q] = op[q], reply'[q] = reply[q], disk'[q].now = disk[q].now,
           \A v \in D!VolsOf(q) : /\ v \in dirty => v \in dirty'
                                  /\ v \notin dirty' => vol'[v] = vol[v] /\ was'[v] = was[v]
                                  /\ shipped'[v] = shipped[v]
    PROVE  SeedStands(q)' /\ Spaced(q)' /\ SoundSeed(q)'
<1>1. SeedStands(q)'
  BY DEF SeedStands
<1>2. Spaced(q)'
  BY DEF Spaced
<1>3. op[q].pc \in AtSnapshot => \A v \in D!VolsOf(q) \ dirty' : vol'[v] = was'[v]
  BY DEF SoundSeed
<1>4. op[q] \in Seeding => \A v \in DOMAIN op[q].snap \ dirty' : op[q].snap[v] = was'[v]
  BY DEF SoundSeed, SeedStands
<1>5. op[q].pc \in AtSeed \cup {"up"} =>
        \A v \in D!VolsOf(q) \ (op[q].todo \cup dirty') : Holding(vol'[v], op[q].src)
  BY DEF SoundSeed
<1>6. op[q].pc \in AtPut =>
        \A v \in D!VolsOf(q) \ (op[q].todo \cup op[q].errs \cup dirty') : Alike(vol'[v], was'[v])
  BY DEF SoundSeed
<1>7. reply[q] \in {"back", "unchanged"} => \A v \in D!VolsOf(q) \ dirty' : Alike(vol'[v], was'[v])
  BY DEF SoundSeed
<1>8. reply[q] = "ok" => \A v \in D!VolsOf(q) \ dirty' : Holding(vol'[v], shipped'[v])
  BY DEF SoundSeed
<1> QED
  BY <1>1, <1>2, <1>3, <1>4, <1>5, <1>6, <1>7, <1>8 DEF SoundSeed

(* The tables after a step of a project's operation.                         *)
LEMMA TablesMove ==
    ASSUME TablesOK, NEW p \in Projects, NEW y \in {D!Idle} \cup Seeding \cup Removing, D!OpTo(p, y),
           NEW r \in SeedReplies, (UNCHANGED reply /\ r = reply[p]) \/ D!ReplyTo(p, r),
           NEW n \in Nat, (UNCHANGED disk /\ n = disk[p].now) \/ DiskTo(p, n),
           spent' \in SeedTallies
    PROVE  /\ TablesOK'
           /\ op'[p] = y /\ reply'[p] = r /\ disk'[p].now = n /\ disk'[p].left = disk[p].left
           /\ \A q \in Projects \ {p} : op'[q] = op[q] /\ reply'[q] = reply[q] /\ disk'[q] = disk[q]
<1>1. op' \in [Projects -> {D!Idle} \cup Seeding \cup Removing] /\ op'[p] = y
      /\ \A q \in Projects \ {p} : op'[q] = op[q]
  BY DEF TablesOK, D!OpTo
<1>2. reply' \in [Projects -> SeedReplies] /\ reply'[p] = r /\ \A q \in Projects \ {p} : reply'[q] = reply[q]
  BY DEF TablesOK, D!ReplyTo
<1>3. /\ disk' \in [Projects -> [now : Nat, left : Nat]] /\ disk'[p].now = n /\ disk'[p].left = disk[p].left
      /\ \A q \in Projects \ {p} : disk'[q] = disk[q]
  <2>1. disk \in [Projects -> [now : Nat, left : Nat]]
    BY DEF TablesOK
  <2>2. disk[p] \in [now : Nat, left : Nat]
    BY <2>1
  <2>3. [disk[p] EXCEPT !.now = n] \in [now : Nat, left : Nat] /\ [disk[p] EXCEPT !.now = n].now = n
        /\ [disk[p] EXCEPT !.now = n].left = disk[p].left
    BY <2>2
  <2>4. CASE disk' = [disk EXCEPT ![p].now = n]
    BY <2>1, <2>3, <2>4
  <2>5. CASE UNCHANGED disk /\ n = disk[p].now
    BY <2>1, <2>5
  <2> QED
    BY <2>4, <2>5 DEF DiskTo
<1> QED
  BY <1>1, <1>2, <1>3 DEF TablesOK

LEMMA DiscardIs == ASSUME NEW p, disk' = D!Discard(p) PROVE DiskTo(p, 0) /\ 0 \in Nat
  BY DEF D!Discard, DiskTo

(* A step of one project's operation disturbs no other's.                    *)
LEMMA OwnStep ==
    ASSUME D!NamesApart, SeedInv, NEW p \in Projects,
           VolumesOK', HistoryOK', TablesOK',
           \A q \in Projects \ {p} : op'[q] = op[q] /\ reply'[q] = reply[q] /\ disk'[q] = disk[q],
           disk'[p].left = disk[p].left,
           \A v \in D!Vols \ D!VolsOf(p) : /\ vol'[v] = vol[v] /\ was'[v] = was[v] /\ shipped'[v] = shipped[v]
                                           /\ v \in dirty' <=> v \in dirty,
           SeedStands(p)', Spaced(p)', SoundSeed(p)',
           spent'.crash = spent.crash, UNCHANGED browsing,
           \A v \in helper' : (v \in helper /\ v \notin Holds(p)) \/ v \in browsing \/ v \in Holds(p)'
    PROVE  SeedInv'
<1>1. ASSUME NEW q \in Projects PROVE SeedStands(q)' /\ Spaced(q)' /\ SoundSeed(q)'
  <2>1. CASE q = p
    BY <2>1
  <2>2. CASE q # p
    <3>1. D!VolsOf(q) \subseteq D!Vols \ D!VolsOf(p)
      BY <2>2, VolumesApart, VolsOfVols
    <3>2. SeedStands(q) /\ Spaced(q) /\ SoundSeed(q)
      BY DEF SeedInv
    <3>3. op'[q] = op[q] /\ reply'[q] = reply[q] /\ disk'[q].now = disk[q].now
      BY <2>2
    <3> QED
      BY <3>1, <3>2, <3>3, Untouched
  <2> QED
    BY <2>1, <2>2
<1>2. HelpersOwned'
  <2> SUFFICES ASSUME spent'.crash = 0, NEW v \in helper' PROVE v \in browsing' \/ \E q \in Projects : v \in Holds(q)'
    BY DEF HelpersOwned
  <2>1. CASE v \in browsing
    BY <2>1
  <2>2. CASE v \in Holds(p)'
    BY <2>2
  <2>3. CASE v \in helper /\ v \notin Holds(p) /\ v \notin browsing
    <3>1. PICK q \in Projects : v \in Holds(q)
      BY <2>3 DEF SeedInv, HelpersOwned
    <3>2. q # p
      BY <2>3, <3>1
    <3>3. v \in Holds(q)'
      BY <3>1, <3>2 DEF Holds
    <3> QED
      BY <3>3
  <2> QED
    BY <2>1, <2>2, <2>3
<1>3. LeftBounded'
  BY DEF SeedInv, LeftBounded
<1> QED
  BY <1>1, <1>2, <1>3 DEF SeedInv

(* What other than an operation does: the volumes it writes to are dirty.    *)
LEMMA OthersStep ==
    ASSUME SeedInv, UNCHANGED <<op, reply, disk, was, shipped>>,
           VolumesOK', HistoryOK', spent' \in SeedTallies, spent'.crash = spent.crash,
           dirty \subseteq dirty', \A v \in D!Vols \ dirty' : vol'[v] = vol[v],
           \A v \in helper' : (v \in helper /\ (v \in browsing => v \in browsing')) \/ v \in browsing'
    PROVE  SeedInv'
<1>1. ASSUME NEW q \in Projects PROVE SeedStands(q)' /\ Spaced(q)' /\ SoundSeed(q)'
  <2>1. SeedStands(q) /\ Spaced(q) /\ SoundSeed(q)
    BY DEF SeedInv
  <2>2. D!VolsOf(q) \subseteq D!Vols
    BY VolsOfVols
  <2> QED
    BY <2>1, <2>2, Untouched
<1>2. TablesOK'
  BY DEF SeedInv, TablesOK
<1>3. HelpersOwned'
  BY DEF SeedInv, HelpersOwned, Holds
<1>4. LeftBounded'
  BY DEF SeedInv, LeftBounded
<1> QED
  BY <1>1, <1>2, <1>3, <1>4 DEF SeedInv

(* A volume its helper mounts.                                               *)
LEMMA MountedIs ==
    ASSUME VolumesOK, NEW v \in D!Vols
    PROVE  /\ D!Mounted(v) \in [D!Vols -> SeedVolume] /\ D!Mounted(v)[v].there
           /\ \A w \in D!Vols \ {v} : D!Mounted(v)[w] = vol[w]
           /\ vol[v].there => D!Mounted(v) = vol
           /\ \A w \in D!Vols : vol[w].there => D!Mounted(v)[w].there
<1>1. [there |-> TRUE, c |-> D!Empty, label |-> {}] \in SeedVolume
  BY EmptyTyped DEF SeedVolume
<1> QED
  BY <1>1 DEF VolumesOK, D!Mounted

LEMMA OpenHelperIs ==
    ASSUME VolumesOK, NEW v \in D!Vols, D!OpenHelper(v), UNCHANGED mounted
    PROVE  VolumesOK'
<1>1. helper' = helper \cup {v} /\ vol' = D!Mounted(v)
  BY DEF D!OpenHelper
<1>2. \A w \in helper' \cup mounted' : vol'[w].there
  BY <1>1, MountedIs DEF VolumesOK
<1> QED
  BY <1>1, <1>2, MountedIs DEF VolumesOK

LEMMA BrowseVolumeKeeps == ASSUME SeedInv, NEW v \in D!Vols, D!BrowseVolume(v) PROVE SeedInv'
<1>0. VolumesOK /\ HistoryOK /\ TablesOK
  BY DEF SeedInv
<1>1. spent' \in SeedTallies /\ spent'.crash = spent.crash
  BY <1>0, SpendCounts DEF D!BrowseVolume
<1>2. VolumesOK'
  BY <1>0, OpenHelperIs DEF D!BrowseVolume
<1>3. HistoryOK'
  BY <1>0 DEF HistoryOK, D!BrowseVolume
<1>4. \A w \in D!Vols \ dirty' : vol'[w] = vol[w]
  BY <1>0, MountedIs DEF D!BrowseVolume, D!OpenHelper
<1> QED
  BY <1>1, <1>2, <1>3, <1>4, OthersStep DEF D!BrowseVolume, D!OpenHelper

LEMMA CloseBrowserKeeps == ASSUME SeedInv, NEW v \in D!Vols, D!CloseBrowser(v) PROVE SeedInv'
<1>0. VolumesOK /\ HistoryOK /\ TablesOK
  BY DEF SeedInv
<1>1. spent' \in SeedTallies /\ spent'.crash = spent.crash
  BY <1>0, SpendCounts DEF D!CloseBrowser
<1>2. VolumesOK' /\ HistoryOK'
  BY <1>0 DEF HistoryOK, VolumesOK, D!CloseBrowser
<1> QED
  BY <1>1, <1>2, OthersStep DEF D!CloseBrowser

LEMMA RemoveVolumeKeeps == ASSUME SeedInv, NEW v \in D!Vols, D!RemoveVolume(v) PROVE SeedInv'
<1>0. VolumesOK /\ HistoryOK /\ TablesOK
  BY DEF SeedInv
<1>1. spent' \in SeedTallies /\ spent'.crash = spent.crash
  BY <1>0, SpendCounts DEF D!RemoveVolume
<1>2. VolumesOK' /\ HistoryOK'
  BY <1>0 DEF HistoryOK, VolumesOK, D!RemoveVolume, D!InUse, SeedVolume
<1>3. \A w \in D!Vols \ dirty' : vol'[w] = vol[w]
  BY <1>0 DEF D!RemoveVolume, VolumesOK
<1> QED
  BY <1>1, <1>2, <1>3, OthersStep DEF D!RemoveVolume

LEMMA ThereIs ==
    ASSUME NEW x \in SeedVolume, x.there
    PROVE  x \in [there : {TRUE}, c : FileVersions, label : SUBSET Projects] /\ x.c \in FileVersions
<1>1. D!Absent.there = FALSE
  BY DEF D!Absent
<1>2. x # D!Absent
  BY <1>1
<1> QED
  BY <1>2 DEF SeedVolume

(* New content for a volume that is there.                                   *)
LEMMA Refilled ==
    ASSUME VolumesOK, NEW v \in D!Vols, vol[v].there, NEW c \in FileVersions, UNCHANGED mounted,
           vol' = [vol EXCEPT ![v].c = c], helper' \subseteq helper
    PROVE  /\ VolumesOK' /\ vol'[v].there /\ vol'[v].c = c /\ vol'[v].label = vol[v].label
           /\ \A w \in D!Vols \ {v} : vol'[w] = vol[w]
<1>1. vol[v] \in [there : {TRUE}, c : FileVersions, label : SUBSET Projects]
  BY ThereIs DEF VolumesOK
<1>2. [vol[v] EXCEPT !.c = c] \in [there : {TRUE}, c : FileVersions, label : SUBSET Projects]
      /\ [vol[v] EXCEPT !.c = c].c = c /\ [vol[v] EXCEPT !.c = c].label = vol[v].label
  BY <1>1
<1>3. vol' = [vol EXCEPT ![v] = [vol[v] EXCEPT !.c = c]]
  OBVIOUS
<1>4. vol' \in [D!Vols -> SeedVolume] /\ vol'[v] = [vol[v] EXCEPT !.c = c] /\ \A w \in D!Vols \ {v} : vol'[w] = vol[w]
  BY <1>2, <1>3 DEF VolumesOK, SeedVolume
<1>5. \A w \in helper' \cup mounted' : vol'[w].there
  BY <1>2, <1>4 DEF VolumesOK
<1> QED
  BY <1>2, <1>4, <1>5 DEF VolumesOK

LEMMA ContainerWritesKeeps ==
    ASSUME SeedInv, NEW v \in D!Vols, NEW f \in Files, D!ContainerWrites(v, f) PROVE SeedInv'
<1>0. VolumesOK /\ HistoryOK /\ TablesOK
  BY DEF SeedInv
<1>1. spent' \in SeedTallies /\ spent'.crash = spent.crash
  BY <1>0, SpendCounts DEF D!ContainerWrites
<1>2. v \in mounted /\ vol[v].there
  BY <1>0 DEF D!ContainerWrites, VolumesOK
<1>3. vol[v].c \in FileVersions
  BY <1>0, <1>2, ThereIs DEF VolumesOK
<1>4. [vol[v].c EXCEPT ![f] = D!Written] \in FileVersions
  BY <1>3 DEF FileVersions, D!Written
<1>5. vol' = [vol EXCEPT ![v].c = [vol[v].c EXCEPT ![f] = D!Written]]
  BY DEF D!ContainerWrites
<1>6. VolumesOK' /\ \A w \in D!Vols \ {v} : vol'[w] = vol[w]
  BY <1>0, <1>2, <1>4, <1>5, Refilled DEF D!ContainerWrites
<1>7. HistoryOK'
  BY <1>0 DEF HistoryOK, D!ContainerWrites
<1> QED
  BY <1>1, <1>6, <1>7, OthersStep DEF D!ContainerWrites

LEMMA SeedCrashKeeps == ASSUME D!BoundsOK, SeedInv, D!Crash PROVE SeedInv'
<1>0. VolumesOK /\ HistoryOK /\ TablesOK
  BY DEF SeedInv
<1>1. /\ UNCHANGED <<vol, helper, mounted, shipped, was, dirty, browsing>>
      /\ op' = [p \in Projects |-> D!Idle] /\ reply' = [p \in Projects |-> "none"]
      /\ disk' = [p \in Projects |-> [now |-> 0, left |-> disk[p].left + disk[p].now]]
  BY DEF D!Crash
<1>2. spent \in SeedTallies /\ spent' \in SeedTallies /\ spent'.crash = spent.crash + 1
  BY <1>0 DEF D!Crash, D!Spend, TablesOK, SeedTallies
<1>3. \A p \in Projects : disk[p] \in [now : Nat, left : Nat]
  BY <1>0 DEF TablesOK
<1>4. TablesOK'
  <2>1. \A p \in Projects : disk[p].left + disk[p].now \in Nat
    BY <1>3
  <2>2. disk' \in [Projects -> [now : Nat, left : Nat]]
    BY <1>1, <2>1
  <2> QED
    BY <1>1, <1>2, <2>2 DEF TablesOK, SeedReplies
<1>5. VolumesOK' /\ HistoryOK'
  BY <1>0, <1>1 DEF VolumesOK, HistoryOK
<1>6. ASSUME NEW p \in Projects PROVE SeedStands(p)' /\ Spaced(p)' /\ SoundSeed(p)'
  <2>1. op'[p] = D!Idle /\ reply'[p] = "none" /\ disk'[p].now = 0
    BY <1>1
  <2>2. op'[p].pc = "idle" /\ op'[p] \notin Seeding
    BY <2>1, <1>4, IdleIs DEF D!Idle, Seeding, AtSnapshot, AtSeed, AtPut
  <2>3. SeedStands(p)'
    BY <2>2 DEF SeedStands, AtSnapshot, AtSeed, AtPut
  <2>4. SoundSeed(p)'
    BY <2>1, <2>2 DEF SoundSeed, AtSnapshot, AtSeed, AtPut
  <2>5. Spaced(p)'
    BY <2>1, <2>2 DEF Spaced
  <2> QED
    BY <2>3, <2>4, <2>5
<1>7. HelpersOwned'
  BY <1>2 DEF HelpersOwned, SeedTallies
<1>8. ASSUME NEW p \in Projects PROVE disk'[p].left <= spent'.crash * MaxBytes
  <2>1. disk[p].left <= spent.crash * MaxBytes /\ Spaced(p)
    BY DEF SeedInv, LeftBounded
  <2>2. disk[p].now <= MaxBytes
    <3>1. CASE op[p] \in Seeding
      <4>1. op[p].budget \in Nat
        BY <3>1 DEF Seeding
      <4> QED
        BY <1>3, <2>1, <3>1, <4>1 DEF Spaced, D!BoundsOK
    <3>2. CASE op[p] \notin Seeding
      BY <2>1, <3>2 DEF Spaced, D!BoundsOK
    <3> QED
      BY <3>1, <3>2
  <2>3. disk'[p].left = disk[p].left + disk[p].now
    BY <1>1
  <2>4. spent.crash \in Nat /\ MaxBytes \in Nat
    BY <1>2 DEF SeedTallies, D!BoundsOK
  <2>5. (spent.crash + 1) * MaxBytes = spent.crash * MaxBytes + MaxBytes
    BY <2>4
  <2>6. disk[p].left \in Nat /\ disk[p].now \in Nat /\ spent.crash * MaxBytes \in Nat
    BY <1>3, <2>4
  <2>7. disk[p].left + disk[p].now <= spent.crash * MaxBytes + MaxBytes
    BY <2>1, <2>2, <2>4, <2>6
  <2> QED
    BY <1>2, <2>3, <2>5, <2>7
<1> QED
  BY <1>4, <1>5, <1>6, <1>7, <1>8 DEF SeedInv, LeftBounded

LEMMA NothingSaved == [v \in {} |-> D!Absent] \in Saves
<1>1. [v \in {} |-> D!Absent] \in [{} -> SeedVolume]
  OBVIOUS
<1> QED
  BY <1>1 DEF Saves

LEMMA SavesWith ==
    ASSUME NEW s \in Saves, NEW v \in D!Vols, NEW x \in SeedVolume
    PROVE  /\ D!With(s, v, x) \in Saves /\ DOMAIN D!With(s, v, x) = DOMAIN s \cup {v}
           /\ D!With(s, v, x)[v] = x /\ \A w \in DOMAIN s \ {v} : D!With(s, v, x)[w] = s[w]
<1>1. PICK d \in SUBSET D!Vols : s \in [d -> SeedVolume]
  BY DEF Saves
<1>2. D!With(s, v, x) \in [d \cup {v} -> SeedVolume]
  BY <1>1 DEF D!With
<1>3. d \cup {v} \in SUBSET D!Vols
  OBVIOUS
<1>4. D!With(s, v, x) \in Saves
  BY <1>2, <1>3 DEF Saves
<1> QED
  BY <1>1, <1>4 DEF D!With

LEMMA SavesIs == ASSUME NEW s \in Saves, NEW v \in DOMAIN s PROVE s[v] \in SeedVolume
  BY DEF Saves

(* An operation that has ended holds nothing.                                *)
LEMMA SeedEnded ==
    ASSUME NEW p \in Projects, op'[p] = D!Idle, disk'[p].now = 0,
           reply'[p] \in {"back", "unchanged"} => \A v \in D!VolsOf(p) \ dirty' : Alike(vol'[v], was'[v]),
           reply'[p] = "ok" => \A v \in D!VolsOf(p) \ dirty' : Holding(vol'[v], shipped'[v])
    PROVE  SeedStands(p)' /\ Spaced(p)' /\ SoundSeed(p)' /\ Holds(p)' = {}
<1>1. op'[p].pc = "idle" /\ op'[p] \notin Seeding
  BY DEF D!Idle, Seeding, AtSnapshot, AtSeed, AtPut
<1>2. SeedStands(p)'
  BY <1>1 DEF SeedStands, AtSnapshot, AtSeed, AtPut
<1>3. SoundSeed(p)'
  BY <1>1 DEF SoundSeed, AtSnapshot, AtSeed, AtPut
<1>4. Spaced(p)' /\ Holds(p)' = {}
  BY <1>1 DEF Spaced, Holds, AtSnapshot, AtSeed, AtPut
<1> QED
  BY <1>2, <1>3, <1>4

LEMMA SeedStartKeeps ==
    ASSUME D!BoundsOK, D!NamesApart, SeedInv, NEW p \in Projects, NEW kind \in {"deploy", "restore"},
           NEW files \in Sources, D!Start(p, kind, files)
    PROVE  SeedInv'
<1> DEFINE y == [pc |-> IF kind = "restore" THEN "inspect" ELSE "create", kind |-> kind, src |-> files,
                 todo |-> D!VolsOf(p), at |-> D!Absent, budget |-> MaxBytes, touched |-> {},
                 snap |-> [v \in {} |-> D!Absent], errs |-> {}]
<1>0. VolumesOK /\ HistoryOK /\ TablesOK /\ Spaced(p) /\ D!VolsOf(p) \subseteq D!Vols
  BY VolsOfVols DEF SeedInv
<1>1. /\ op[p].pc = "idle" /\ D!OpTo(p, y) /\ D!ReplyTo(p, "none") /\ UNCHANGED <<vol, helper, mounted, disk, shipped, browsing>>
      /\ was' = [v \in D!Vols |-> IF v \in D!VolsOf(p) THEN vol[v] ELSE was[v]]
      /\ dirty' = dirty \ D!VolsOf(p)
  BY DEF D!Start
<1>2. spent' \in SeedTallies /\ spent'.crash = spent.crash
  BY <1>0, SpendCounts DEF D!Start
<1>3. y \in Seeding
  BY <1>0, NothingSaved DEF Seeding, AtSnapshot, AtSeed, D!BoundsOK
<1>4. disk[p].now = 0
  BY <1>0, <1>1, IdleIs DEF Spaced
<1>5. /\ TablesOK' /\ op'[p] = y /\ reply'[p] = "none" /\ disk'[p].now = 0 /\ disk'[p].left = disk[p].left
      /\ \A q \in Projects \ {p} : op'[q] = op[q] /\ reply'[q] = reply[q] /\ disk'[q] = disk[q]
  <2> HIDE DEF y
  <2>1. "none" \in SeedReplies /\ disk[p].now \in Nat
    BY <1>4 DEF SeedReplies
  <2> QED
    BY <1>0, <1>1, <1>2, <1>3, <1>4, <2>1, TablesMove
<1>6. y.pc \in {"inspect", "create"} /\ y.todo = D!VolsOf(p) /\ DOMAIN y.snap = {} /\ y.touched = {} /\ y.kind = kind
      /\ y.budget = MaxBytes /\ (y.pc = "inspect" <=> kind = "restore")
  OBVIOUS
<1> HIDE DEF y
<1>7. VolumesOK' /\ HistoryOK'
  BY <1>0, <1>1 DEF VolumesOK, HistoryOK
<1>8. SeedStands(p)'
  BY <1>3, <1>5, <1>6 DEF SeedStands, AtSnapshot, AtSeed, AtPut
<1>9. Spaced(p)'
  BY <1>3, <1>5, <1>6 DEF Spaced, D!BoundsOK
<1>10. SoundSeed(p)'
  BY <1>0, <1>1, <1>5, <1>6 DEF SoundSeed, AtSnapshot, AtSeed, AtPut
<1>11. \A v \in D!Vols \ D!VolsOf(p) : /\ vol'[v] = vol[v] /\ was'[v] = was[v] /\ shipped'[v] = shipped[v]
                                       /\ v \in dirty' <=> v \in dirty
  BY <1>1
<1>12. \A v \in helper' : v \in helper /\ v \notin Holds(p)
  BY <1>1 DEF Holds, AtSnapshot, AtSeed, AtPut
<1> QED
  BY <1>1, <1>2, <1>5, <1>7, <1>8, <1>9, <1>10, <1>11, <1>12, OwnStep

LEMMA SnapshotInspectKeeps ==
    ASSUME D!NamesApart, SeedInv, NEW p \in Projects, NEW v \in D!VolsOf(p), D!SnapshotInspect(p, v)
    PROVE  SeedInv'
<1> DEFINE x == op[p]
<1>0. VolumesOK /\ HistoryOK /\ TablesOK /\ SeedStands(p) /\ Spaced(p) /\ SoundSeed(p) /\ D!VolsOf(p) \subseteq D!Vols
  BY VolsOfVols DEF SeedInv
<1>1. x.pc = "inspect" /\ v \in x.todo /\ UNCHANGED <<mounted, disk, reply, shipped, was, dirty, browsing, spent>>
  BY DEF D!SnapshotInspect, D!FirstOf
<1>2. x \in Seeding /\ disk[p].now \in Nat /\ reply[p] \in SeedReplies /\ spent \in SeedTallies
  BY <1>0, <1>1, RunningIs DEF AtSnapshot, TablesOK
<1>3. CASE vol[v].there
  <2> DEFINE y == [x EXCEPT !.pc = "save", !.at = v, !.touched = @ \cup {v}]
  <2>1. D!OpenHelper(v) /\ D!OpTo(p, y) /\ vol' = vol /\ helper' = helper \cup {v}
    BY <1>0, <1>3, MountedIs DEF D!SnapshotInspect, D!OpenHelper
  <2>2. /\ y \in Seeding /\ y.pc = "save" /\ y.at = v /\ y.todo = x.todo /\ y.touched = x.touched \cup {v}
        /\ y.kind = x.kind /\ y.snap = x.snap /\ y.budget = x.budget
    BY <1>0, <1>2 DEF Seeding, AtSnapshot
  <2> HIDE DEF y
  <2>3. /\ TablesOK' /\ op'[p] = y /\ reply'[p] = reply[p] /\ disk'[p].now = disk[p].now /\ disk'[p].left = disk[p].left
        /\ \A q \in Projects \ {p} : op'[q] = op[q] /\ reply'[q] = reply[q] /\ disk'[q] = disk[q]
    BY <1>0, <1>1, <1>2, <2>1, <2>2, TablesMove
  <2>4. VolumesOK' /\ HistoryOK'
    BY <1>0, <1>1, <2>1, OpenHelperIs DEF HistoryOK
  <2>5. SeedStands(p)'
    BY <1>0, <1>1, <1>2, <2>2, <2>3 DEF SeedStands, AtSnapshot, AtSeed, AtPut
  <2>6. Spaced(p)'
    BY <1>0, <1>2, <2>2, <2>3 DEF Spaced
  <2>7. SoundSeed(p)'
    BY <1>0, <1>1, <1>2, <2>1, <2>2, <2>3 DEF SoundSeed, SeedStands, AtSnapshot, AtSeed, AtPut
  <2>8. \A w \in helper' : (w \in helper /\ w \notin Holds(p)) \/ w \in Holds(p)'
    BY <1>1, <2>1, <2>2, <2>3 DEF Holds, AtSnapshot
  <2> QED
    BY <1>1, <2>1, <2>3, <2>4, <2>5, <2>6, <2>7, <2>8, OwnStep
<1>4. CASE ~vol[v].there
  <2> DEFINE y == [x EXCEPT !.todo = @ \ {v}, !.snap = D!With(x.snap, v, D!Absent)]
  <2>1. D!OpTo(p, y) /\ UNCHANGED <<vol, helper>>
    BY <1>4 DEF D!SnapshotInspect
  <2>2. /\ D!With(x.snap, v, D!Absent) \in Saves /\ DOMAIN D!With(x.snap, v, D!Absent) = DOMAIN x.snap \cup {v}
        /\ D!With(x.snap, v, D!Absent)[v] = D!Absent
        /\ \A w \in DOMAIN x.snap \ {v} : D!With(x.snap, v, D!Absent)[w] = x.snap[w]
    <3>1. x.snap \in Saves /\ D!Absent \in SeedVolume /\ v \in D!Vols
      BY <1>0, <1>2 DEF Seeding, SeedVolume
    <3> QED
      BY <3>1, SavesWith
  <2>3. /\ y \in Seeding /\ y.pc = "inspect" /\ y.todo = x.todo \ {v} /\ y.touched = x.touched
        /\ y.kind = x.kind /\ y.snap = D!With(x.snap, v, D!Absent) /\ y.budget = x.budget
    BY <1>0, <1>1, <1>2, <2>2 DEF Seeding, AtSnapshot
  <2> HIDE DEF y
  <2>4. /\ TablesOK' /\ op'[p] = y /\ reply'[p] = reply[p] /\ disk'[p].now = disk[p].now /\ disk'[p].left = disk[p].left
        /\ \A q \in Projects \ {p} : op'[q] = op[q] /\ reply'[q] = reply[q] /\ disk'[q] = disk[q]
    BY <1>0, <1>1, <1>2, <2>1, <2>3, TablesMove
  <2>5. VolumesOK' /\ HistoryOK'
    BY <1>0, <1>1, <2>1 DEF HistoryOK, VolumesOK
  <2>6. SeedStands(p)'
    BY <1>0, <1>1, <1>2, <2>2, <2>3, <2>4 DEF SeedStands, AtSnapshot, AtSeed, AtPut
  <2>7. Spaced(p)'
    BY <1>0, <1>2, <2>3, <2>4 DEF Spaced
  <2>8. vol[v] = D!Absent
    BY <1>0, <1>4 DEF VolumesOK, SeedVolume
  <2>9. \A w \in DOMAIN y.snap \ dirty : y.snap[w] = was[w]
    BY <1>0, <1>1, <1>2, <2>2, <2>3, <2>8 DEF SoundSeed, AtSnapshot
  <2>10. SoundSeed(p)'
    BY <1>0, <1>1, <1>2, <2>1, <2>3, <2>4, <2>9 DEF SoundSeed, SeedStands, AtSnapshot, AtSeed, AtPut
  <2>11. \A w \in helper' : (w \in helper /\ w \notin Holds(p)) \/ w \in Holds(p)'
    BY <1>1, <2>1, <2>3, <2>4 DEF Holds, AtSnapshot
  <2> QED
    BY <1>1, <2>1, <2>4, <2>5, <2>6, <2>7, <2>10, <2>11, OwnStep
<1> QED
  BY <1>3, <1>4

LEMMA SizeNat == ASSUME D!BoundsOK, NEW c PROVE D!Size(c) \in Nat
<1>1. IsFiniteSet({f \in Files : c[f] # 0})
  BY FS_Subset, SizesAgree DEF D!BoundsOK
<1> QED
  BY <1>1, FS_CardinalityType, SizesAgree DEF D!Size

LEMMA RefuseKeeps ==
    ASSUME D!NamesApart, SeedInv, NEW p \in Projects, op[p].pc = "save", D!Refuse(p),
           UNCHANGED spent \/ D!Spend("fault", SeedFaults), UNCHANGED <<vol, mounted, shipped, was, dirty, browsing>>
    PROVE  SeedInv'
<1>0. VolumesOK /\ HistoryOK /\ TablesOK /\ SeedStands(p) /\ SoundSeed(p) /\ D!VolsOf(p) \subseteq D!Vols
  BY VolsOfVols DEF SeedInv
<1>1. spent' \in SeedTallies /\ spent'.crash = spent.crash
  BY <1>0, MaySpend
<1>2. /\ TablesOK' /\ op'[p] = D!Idle /\ reply'[p] = "unchanged" /\ disk'[p].now = 0 /\ disk'[p].left = disk[p].left
      /\ \A q \in Projects \ {p} : op'[q] = op[q] /\ reply'[q] = reply[q] /\ disk'[q] = disk[q]
  <2>1. /\ "unchanged" \in SeedReplies /\ D!Idle \in {D!Idle} \cup Seeding \cup Removing
        /\ D!OpTo(p, D!Idle) /\ D!ReplyTo(p, "unchanged") /\ DiskTo(p, 0) /\ 0 \in Nat
    BY DiscardIs DEF D!Refuse, SeedReplies
  <2> QED
    BY <1>0, <1>1, <2>1, TablesMove
<1>3. VolumesOK' /\ HistoryOK'
  BY <1>0 DEF HistoryOK, VolumesOK, D!Refuse, D!Close
<1>4. \A v \in D!VolsOf(p) \ dirty' : Alike(vol'[v], was'[v])
  BY <1>0 DEF SoundSeed, AtSnapshot, Alike
<1>5. SeedStands(p)' /\ Spaced(p)' /\ SoundSeed(p)' /\ Holds(p)' = {}
  BY <1>2, <1>4, SeedEnded
<1>6. \A v \in helper' : v \in helper /\ v \notin Holds(p)
  BY DEF D!Refuse, D!Close, Holds, AtSnapshot
<1> QED
  BY <1>1, <1>2, <1>3, <1>5, <1>6, OwnStep

LEMMA SaveVolumeKeeps ==
    ASSUME D!BoundsOK, D!NamesApart, SeedInv, NEW p \in Projects, D!SaveVolume(p)
    PROVE  SeedInv'
<1> DEFINE x == op[p]
           n == D!Size(vol[x.at].c)
           y == [x EXCEPT !.pc = "inspect", !.todo = @ \ {x.at}, !.budget = D!Left(x, n),
                          !.snap = D!With(x.snap, x.at, vol[x.at])]
<1>0. VolumesOK /\ HistoryOK /\ TablesOK /\ SeedStands(p) /\ Spaced(p) /\ SoundSeed(p) /\ D!VolsOf(p) \subseteq D!Vols
  BY VolsOfVols DEF SeedInv
<1>1. x.pc = "save" /\ UNCHANGED <<vol, mounted, shipped, was, dirty, browsing>>
  BY DEF D!SaveVolume
<1>2. CASE /\ n <= x.budget /\ disk' = [disk EXCEPT ![p].now = @ + n] /\ D!OpTo(p, y)
           /\ UNCHANGED <<helper, reply, spent>>
  <2>1. x \in Seeding /\ disk[p].now \in Nat /\ reply[p] \in SeedReplies /\ spent \in SeedTallies /\ n \in Nat
    BY <1>0, <1>1, RunningIs, SizeNat DEF AtSnapshot, TablesOK
  <2>2. x.at \in x.todo /\ x.at \in D!VolsOf(p) /\ vol[x.at] \in SeedVolume /\ x.snap \in Saves /\ x.budget \in Nat
    BY <1>0, <1>1, <2>1 DEF SeedStands, VolumesOK, Seeding
  <2>3. /\ D!With(x.snap, x.at, vol[x.at]) \in Saves /\ DOMAIN D!With(x.snap, x.at, vol[x.at]) = DOMAIN x.snap \cup {x.at}
        /\ D!With(x.snap, x.at, vol[x.at])[x.at] = vol[x.at]
        /\ \A w \in DOMAIN x.snap \ {x.at} : D!With(x.snap, x.at, vol[x.at])[w] = x.snap[w]
    BY <1>0, <2>2, SavesWith
  <2>4. D!Left(x, n) \in Nat /\ D!Left(x, n) = x.budget - n
    BY <1>2, <2>1, <2>2 DEF D!Left
  <2>5. /\ y \in Seeding /\ y.pc = "inspect" /\ y.todo = x.todo \ {x.at} /\ y.touched = x.touched
        /\ y.kind = x.kind /\ y.snap = D!With(x.snap, x.at, vol[x.at]) /\ y.budget = x.budget - n
    BY <2>1, <2>3, <2>4 DEF Seeding, AtSnapshot
  <2>6. DiskTo(p, disk[p].now + n) /\ disk[p].now + n \in Nat
    BY <1>2, <2>1 DEF DiskTo
  <2> HIDE DEF y, n
  <2>7. /\ TablesOK' /\ op'[p] = y /\ reply'[p] = reply[p] /\ disk'[p].now = disk[p].now + n /\ disk'[p].left = disk[p].left
        /\ \A q \in Projects \ {p} : op'[q] = op[q] /\ reply'[q] = reply[q] /\ disk'[q] = disk[q]
    BY <1>0, <1>2, <2>1, <2>5, <2>6, TablesMove
  <2>8. VolumesOK' /\ HistoryOK'
    BY <1>0, <1>1, <1>2 DEF HistoryOK, VolumesOK
  <2>9. SeedStands(p)'
    BY <1>0, <1>1, <2>1, <2>2, <2>3, <2>5, <2>7 DEF SeedStands, AtSnapshot, AtSeed, AtPut
  <2>10. Spaced(p)'
    <3>1. disk[p].now + x.budget = MaxBytes /\ x.kind = "restore"
      BY <1>0, <1>1, <2>1 DEF Spaced, SeedStands, AtSnapshot
    <3> QED
      BY <2>1, <2>2, <2>5, <2>7, <3>1 DEF Spaced
  <2>11. \A w \in DOMAIN y.snap \ dirty : y.snap[w] = was[w]
    BY <1>0, <1>1, <2>1, <2>2, <2>3, <2>5 DEF SoundSeed, AtSnapshot
  <2>12. SoundSeed(p)'
    BY <1>0, <1>1, <2>1, <2>5, <2>7, <2>11 DEF SoundSeed, SeedStands, AtSnapshot, AtSeed, AtPut
  <2>13. \A w \in helper' : (w \in helper /\ w \notin Holds(p)) \/ w \in Holds(p)'
    BY <1>1, <1>2, <2>5, <2>7 DEF Holds, AtSnapshot
  <2> QED
    BY <1>1, <1>2, <2>7, <2>8, <2>9, <2>10, <2>12, <2>13, OwnStep
<1>3. CASE D!Refuse(p) /\ (UNCHANGED spent \/ D!Spend("fault", SeedFaults))
  BY <1>1, <1>3, RefuseKeeps
<1> QED
  BY <1>2, <1>3 DEF D!SaveVolume

LEMMA SnapshottedKeeps == ASSUME D!NamesApart, SeedInv, NEW p \in Projects, D!Snapshotted(p) PROVE SeedInv'
<1> DEFINE x == op[p]
           y == [x EXCEPT !.pc = "create", !.todo = D!VolsOf(p), !.touched = {}]
<1>0. VolumesOK /\ HistoryOK /\ TablesOK /\ SeedStands(p) /\ Spaced(p) /\ SoundSeed(p) /\ D!VolsOf(p) \subseteq D!Vols
  BY VolsOfVols DEF SeedInv
<1>1. /\ x.pc = "inspect" /\ x.todo = {} /\ helper' = helper \ x.touched /\ D!OpTo(p, y)
      /\ UNCHANGED <<vol, mounted, disk, reply, shipped, was, dirty, browsing, spent>>
  BY DEF D!Snapshotted, D!Close
<1>2. x \in Seeding /\ disk[p].now \in Nat /\ reply[p] \in SeedReplies /\ spent \in SeedTallies
  BY <1>0, <1>1, RunningIs DEF AtSnapshot, TablesOK
<1>3. /\ y \in Seeding /\ y.pc = "create" /\ y.todo = D!VolsOf(p) /\ y.touched = {}
      /\ y.kind = x.kind /\ y.snap = x.snap /\ y.budget = x.budget
  BY <1>0, <1>2 DEF Seeding, AtSeed
<1> HIDE DEF y
<1>4. /\ TablesOK' /\ op'[p] = y /\ reply'[p] = reply[p] /\ disk'[p].now = disk[p].now /\ disk'[p].left = disk[p].left
      /\ \A q \in Projects \ {p} : op'[q] = op[q] /\ reply'[q] = reply[q] /\ disk'[q] = disk[q]
  BY <1>0, <1>1, <1>2, <1>3, TablesMove
<1>5. VolumesOK' /\ HistoryOK'
  BY <1>0, <1>1 DEF HistoryOK, VolumesOK
<1>6. SeedStands(p)'
  BY <1>0, <1>1, <1>2, <1>3, <1>4 DEF SeedStands, AtSnapshot, AtSeed, AtPut
<1>7. Spaced(p)'
  BY <1>0, <1>2, <1>3, <1>4 DEF Spaced
<1>8. SoundSeed(p)'
  BY <1>0, <1>1, <1>2, <1>3, <1>4 DEF SoundSeed, SeedStands, AtSnapshot, AtSeed, AtPut
<1>9. \A w \in helper' : w \in helper /\ w \notin Holds(p)
  BY <1>1 DEF Holds, AtSnapshot
<1> QED
  BY <1>1, <1>4, <1>5, <1>6, <1>7, <1>8, <1>9, OwnStep

(* A step of an operation that answers nothing and keeps what it saved.      *)
LEMMA GoesOn ==
    ASSUME SeedInv, NEW p \in Projects, op[p] \in Seeding, NEW y \in Seeding, D!OpTo(p, y),
           UNCHANGED <<reply, disk>>, y.kind = op[p].kind, y.budget = op[p].budget, spent' \in SeedTallies
    PROVE  /\ TablesOK' /\ Spaced(p)'
           /\ op'[p] = y /\ reply'[p] = "none" /\ disk'[p].left = disk[p].left
           /\ \A q \in Projects \ {p} : op'[q] = op[q] /\ reply'[q] = reply[q] /\ disk'[q] = disk[q]
<1>1. TablesOK /\ Spaced(p) /\ SeedStands(p)
  BY DEF SeedInv
<1>2. disk[p].now \in Nat /\ reply[p] \in SeedReplies
  BY <1>1 DEF TablesOK
<1>3. op[p].pc # "idle"
  BY <1>1, IdleIs
<1>4. reply[p] = "none"
  BY <1>1, <1>3 DEF SeedStands
<1>5. /\ TablesOK' /\ op'[p] = y /\ reply'[p] = reply[p] /\ disk'[p].now = disk[p].now /\ disk'[p].left = disk[p].left
      /\ \A q \in Projects \ {p} : op'[q] = op[q] /\ reply'[q] = reply[q] /\ disk'[q] = disk[q]
  BY <1>1, <1>2, TablesMove
<1> QED
  BY <1>1, <1>4, <1>5 DEF Spaced

(* The end of an operation.                                                  *)
LEMMA SeedEnds ==
    ASSUME SeedInv, NEW p \in Projects, NEW r \in SeedReplies, D!OpTo(p, D!Idle), D!ReplyTo(p, r),
           disk' = D!Discard(p) \/ (UNCHANGED disk /\ disk[p].now = 0), spent' \in SeedTallies
    PROVE  /\ TablesOK' /\ op'[p] = D!Idle /\ reply'[p] = r /\ disk'[p].now = 0 /\ disk'[p].left = disk[p].left
           /\ \A q \in Projects \ {p} : op'[q] = op[q] /\ reply'[q] = reply[q] /\ disk'[q] = disk[q]
<1>1. TablesOK /\ 0 \in Nat /\ D!Idle \in {D!Idle} \cup Seeding \cup Removing
  BY DEF SeedInv
<1>2. DiskTo(p, 0) \/ (UNCHANGED disk /\ 0 = disk[p].now)
  BY DiscardIs
<1> QED
  BY <1>1, <1>2, TablesMove

LEMMA PutInPlace ==
    ASSUME VolumesOK, NEW v \in D!Vols, NEW z \in SeedVolume, vol' = [vol EXCEPT ![v] = z],
           z.there \/ ~D!InUse(v), UNCHANGED <<helper, mounted>>
    PROVE  VolumesOK' /\ vol'[v] = z /\ \A w \in D!Vols \ {v} : vol'[w] = vol[w]
<1>1. vol' \in [D!Vols -> SeedVolume] /\ vol'[v] = z /\ \A w \in D!Vols \ {v} : vol'[w] = vol[w]
  BY DEF VolumesOK
<1>2. \A w \in helper' \cup mounted' : vol'[w].there
  BY <1>1 DEF VolumesOK, D!InUse
<1> QED
  BY <1>1, <1>2 DEF VolumesOK

LEMMA SeedCreateKeeps ==
    ASSUME D!NamesApart, SeedInv, NEW p \in Projects, NEW v \in D!VolsOf(p), D!SeedCreate(p, v)
    PROVE  SeedInv'
<1> DEFINE x == op[p]
           y == [x EXCEPT !.pc = "open", !.at = v, !.touched = @ \cup {v}]
           z == [there |-> TRUE, c |-> D!Empty, label |-> {p}]
<1>0. VolumesOK /\ HistoryOK /\ TablesOK /\ SeedStands(p) /\ SoundSeed(p) /\ D!VolsOf(p) \subseteq D!Vols
  BY VolsOfVols DEF SeedInv
<1>1. /\ x.pc = "create" /\ v \in x.todo /\ D!OpTo(p, y)
      /\ UNCHANGED <<helper, mounted, disk, reply, shipped, was, dirty, browsing, spent>>
  BY DEF D!SeedCreate, D!FirstOf
<1>2. x \in Seeding /\ spent' \in SeedTallies
  BY <1>0, <1>1, RunningIs DEF AtSeed, TablesOK
<1>3. /\ y \in Seeding /\ y.pc = "open" /\ y.at = v /\ y.todo = x.todo /\ y.touched = x.touched \cup {v}
      /\ y.kind = x.kind /\ y.snap = x.snap /\ y.budget = x.budget /\ y.src = x.src
  BY <1>0, <1>2 DEF Seeding, AtSeed
<1> HIDE DEF y
<1>4. /\ TablesOK' /\ Spaced(p)'
      /\ op'[p] = y /\ reply'[p] = "none" /\ disk'[p].left = disk[p].left
      /\ \A q \in Projects \ {p} : op'[q] = op[q] /\ reply'[q] = reply[q] /\ disk'[q] = disk[q]
  BY <1>1, <1>2, <1>3, GoesOn
<1>5. VolumesOK' /\ \A w \in D!Vols \ {v} : vol'[w] = vol[w]
  <2>1. CASE vol[v].there
    BY <1>0, <1>1, <2>1 DEF D!SeedCreate, VolumesOK
  <2>2. CASE ~vol[v].there
    <3>1. z \in SeedVolume /\ z.there
      BY EmptyTyped DEF SeedVolume
    <3>2. vol' = [vol EXCEPT ![v] = z]
      BY <2>2 DEF D!SeedCreate
    <3> HIDE DEF z
    <3> QED
      BY <1>0, <1>1, <3>1, <3>2, PutInPlace
  <2> QED
    BY <2>1, <2>2
<1>6. HistoryOK'
  BY <1>0, <1>1 DEF HistoryOK
<1>7. SeedStands(p)'
  BY <1>0, <1>1, <1>2, <1>3, <1>4 DEF SeedStands, AtSnapshot, AtSeed, AtPut
<1>8. SoundSeed(p)'
  BY <1>0, <1>1, <1>2, <1>3, <1>4, <1>5 DEF SoundSeed, AtSnapshot, AtSeed, AtPut
<1>9. \A w \in helper' : (w \in helper /\ w \notin Holds(p)) \/ w \in Holds(p)'
  BY <1>1, <1>3, <1>4 DEF Holds, AtSeed, AtSnapshot
<1> QED
  BY <1>0, <1>1, <1>4, <1>5, <1>6, <1>7, <1>8, <1>9, OwnStep

LEMMA SeedOpenKeeps == ASSUME D!NamesApart, SeedInv, NEW p \in Projects, D!SeedOpen(p) PROVE SeedInv'
<1> DEFINE x == op[p]
           y == [x EXCEPT !.pc = "copy"]
<1>0. VolumesOK /\ HistoryOK /\ TablesOK /\ SeedStands(p) /\ SoundSeed(p) /\ D!VolsOf(p) \subseteq D!Vols
  BY VolsOfVols DEF SeedInv
<1>1. /\ x.pc = "open" /\ D!OpenHelper(x.at) /\ D!OpTo(p, y)
      /\ UNCHANGED <<mounted, disk, reply, shipped, was, dirty, browsing, spent>>
  BY DEF D!SeedOpen
<1>2. x \in Seeding /\ spent' \in SeedTallies
  BY <1>0, <1>1, RunningIs DEF AtSeed, TablesOK
<1>3. /\ y \in Seeding /\ y.pc = "copy" /\ y.at = x.at /\ y.todo = x.todo /\ y.touched = x.touched
      /\ y.kind = x.kind /\ y.snap = x.snap /\ y.budget = x.budget /\ y.src = x.src
  BY <1>2 DEF Seeding, AtSeed
<1> HIDE DEF y
<1>4. /\ TablesOK' /\ Spaced(p)'
      /\ op'[p] = y /\ reply'[p] = "none" /\ disk'[p].left = disk[p].left
      /\ \A q \in Projects \ {p} : op'[q] = op[q] /\ reply'[q] = reply[q] /\ disk'[q] = disk[q]
  BY <1>1, <1>2, <1>3, GoesOn
<1>5. x.at \in x.todo /\ x.at \in x.touched /\ x.at \in D!VolsOf(p)
  BY <1>0, <1>1 DEF SeedStands
<1>6. VolumesOK' /\ helper' = helper \cup {x.at} /\ \A w \in D!Vols \ {x.at} : vol'[w] = vol[w]
  BY <1>0, <1>1, <1>5, OpenHelperIs, MountedIs DEF D!OpenHelper
<1>7. HistoryOK'
  BY <1>0, <1>1 DEF HistoryOK
<1>8. SeedStands(p)'
  BY <1>0, <1>1, <1>2, <1>3, <1>4 DEF SeedStands, AtSnapshot, AtSeed, AtPut
<1>9. SoundSeed(p)'
  BY <1>0, <1>1, <1>2, <1>3, <1>4, <1>5, <1>6 DEF SoundSeed, AtSnapshot, AtSeed, AtPut
<1>10. \A w \in helper' : (w \in helper /\ w \notin Holds(p)) \/ w \in Holds(p)'
  BY <1>1, <1>3, <1>4, <1>5, <1>6 DEF Holds, AtSeed, AtSnapshot
<1> QED
  BY <1>0, <1>1, <1>4, <1>5, <1>6, <1>7, <1>8, <1>9, <1>10, OwnStep

LEMMA SeedCopyKeeps == ASSUME D!BoundsOK, D!NamesApart, SeedInv, NEW p \in Projects, D!SeedCopy(p) PROVE SeedInv'
<1> DEFINE x == op[p]
           y == [x EXCEPT !.pc = "create", !.todo = @ \ {x.at}]
           c == D!Over(vol[x.at].c, x.src, Files)
<1>0. VolumesOK /\ HistoryOK /\ TablesOK /\ SeedStands(p) /\ SoundSeed(p) /\ D!VolsOf(p) \subseteq D!Vols
  BY VolsOfVols DEF SeedInv
<1>1. /\ x.pc = "copy" /\ x.at \in helper /\ vol' = [vol EXCEPT ![x.at].c = c] /\ D!OpTo(p, y)
      /\ UNCHANGED <<helper, mounted, disk, reply, shipped, was, dirty, browsing, spent>>
  BY DEF D!SeedCopy
<1>2. x \in Seeding /\ spent' \in SeedTallies
  BY <1>0, <1>1, RunningIs DEF AtSeed, TablesOK
<1>3. /\ y \in Seeding /\ y.pc = "create" /\ y.todo = x.todo \ {x.at} /\ y.touched = x.touched
      /\ y.kind = x.kind /\ y.snap = x.snap /\ y.budget = x.budget /\ y.src = x.src
  BY <1>2 DEF Seeding, AtSeed
<1> HIDE DEF y
<1>4. /\ TablesOK' /\ Spaced(p)'
      /\ op'[p] = y /\ reply'[p] = "none" /\ disk'[p].left = disk[p].left
      /\ \A q \in Projects \ {p} : op'[q] = op[q] /\ reply'[q] = reply[q] /\ disk'[q] = disk[q]
  BY <1>1, <1>2, <1>3, GoesOn
<1>5. x.at \in D!VolsOf(p) /\ vol[x.at].there /\ vol[x.at] \in SeedVolume
  BY <1>0, <1>1 DEF SeedStands, VolumesOK
<1>6. vol[x.at].c \in FileVersions /\ x.src \in FileVersions
  BY <1>2, <1>5, ThereIs, SourceTyped DEF Seeding
<1>7. c \in FileVersions /\ \A f \in Files : x.src[f] # 0 => c[f] = x.src[f]
  BY <1>6, OverTyped DEF D!Over
<1> HIDE DEF c
<1>8. VolumesOK' /\ vol'[x.at].there /\ vol'[x.at].c = c /\ \A w \in D!Vols \ {x.at} : vol'[w] = vol[w]
  BY <1>0, <1>1, <1>5, <1>7, Refilled
<1>9. HistoryOK'
  BY <1>0, <1>1 DEF HistoryOK
<1>10. SeedStands(p)'
  BY <1>0, <1>1, <1>2, <1>3, <1>4 DEF SeedStands, AtSnapshot, AtSeed, AtPut
<1>11. \A w \in D!VolsOf(p) \ (y.todo \cup dirty) : Holding(vol'[w], y.src)
  BY <1>0, <1>1, <1>3, <1>7, <1>8 DEF SoundSeed, AtSeed, Holding
<1>12. SoundSeed(p)'
  BY <1>0, <1>1, <1>2, <1>3, <1>4, <1>11 DEF SoundSeed, AtSnapshot, AtSeed, AtPut
<1>13. \A w \in helper' : (w \in helper /\ w \notin Holds(p)) \/ w \in Holds(p)'
  BY <1>1, <1>3, <1>4 DEF Holds, AtSeed, AtSnapshot
<1> QED
  BY <1>0, <1>1, <1>4, <1>5, <1>8, <1>9, <1>10, <1>12, <1>13, OwnStep

(* A restore that fails goes on to its undo.                                 *)
LEMMA TurnsBack ==
    ASSUME D!NamesApart, SeedInv, NEW p \in Projects, op[p] \in Seeding, op[p].pc \in {"copy", "up"},
           op[p].kind = "restore", D!OpTo(p, [op[p] EXCEPT !.pc = "undo"]), VolumesOK',
           spent' \in SeedTallies, spent'.crash = spent.crash,
           \A w \in D!Vols \ D!VolsOf(p) : vol'[w] = vol[w],
           \A w \in helper' : w \in helper /\ w \notin Holds(p),
           UNCHANGED <<reply, disk, shipped, was, dirty, browsing>>
    PROVE  SeedInv'
<1> DEFINE x == op[p]
           y == [x EXCEPT !.pc = "undo"]
<1>0. HistoryOK /\ TablesOK /\ SeedStands(p) /\ SoundSeed(p) /\ D!VolsOf(p) \subseteq D!Vols
  BY VolsOfVols DEF SeedInv
<1>1. /\ y \in Seeding /\ y.pc = "undo" /\ y.todo = x.todo
      /\ y.kind = x.kind /\ y.snap = x.snap /\ y.budget = x.budget
  BY DEF Seeding
<1> HIDE DEF y
<1>2. /\ TablesOK' /\ Spaced(p)'
      /\ op'[p] = y /\ reply'[p] = "none" /\ disk'[p].left = disk[p].left
      /\ \A q \in Projects \ {p} : op'[q] = op[q] /\ reply'[q] = reply[q] /\ disk'[q] = disk[q]
  <2>1. D!OpTo(p, y)
    BY DEF y
  <2> QED
    BY <1>1, <2>1, GoesOn
<1>3. HistoryOK'
  BY <1>0 DEF HistoryOK
<1>4. SeedStands(p)'
  BY <1>0, <1>1, <1>2 DEF SeedStands, AtSnapshot, AtSeed, AtPut
<1>5. SoundSeed(p)'
  BY <1>0, <1>1, <1>2 DEF SoundSeed, AtSnapshot, AtSeed, AtPut
<1> QED
  BY <1>0, <1>2, <1>3, <1>4, <1>5, OwnStep

(* A deploy that fails says so.                                              *)
LEMMA GivesUp ==
    ASSUME D!NamesApart, SeedInv, NEW p \in Projects, op[p] \in Seeding, op[p].kind # "restore",
           D!OpTo(p, D!Idle), D!ReplyTo(p, "failed"), VolumesOK',
           spent' \in SeedTallies, spent'.crash = spent.crash,
           \A w \in D!Vols \ D!VolsOf(p) : vol'[w] = vol[w],
           \A w \in helper' : w \in helper /\ w \notin Holds(p),
           UNCHANGED <<disk, shipped, was, dirty, browsing>>
    PROVE  SeedInv'
<1>0. HistoryOK /\ Spaced(p) /\ D!VolsOf(p) \subseteq D!Vols /\ op[p].kind \in {"deploy", "restore"}
  BY VolsOfVols DEF SeedInv, Seeding
<1>1. disk[p].now = 0 /\ "failed" \in SeedReplies
  BY <1>0 DEF Spaced, SeedReplies
<1>2. /\ TablesOK' /\ op'[p] = D!Idle /\ reply'[p] = "failed" /\ disk'[p].now = 0 /\ disk'[p].left = disk[p].left
      /\ \A q \in Projects \ {p} : op'[q] = op[q] /\ reply'[q] = reply[q] /\ disk'[q] = disk[q]
  BY <1>1, SeedEnds
<1>3. HistoryOK'
  BY <1>0 DEF HistoryOK
<1>4. SeedStands(p)' /\ Spaced(p)' /\ SoundSeed(p)'
  BY <1>2, SeedEnded
<1> QED
  BY <1>0, <1>2, <1>3, <1>4, OwnStep

LEMMA SeedFailsKeeps == ASSUME D!BoundsOK, D!NamesApart, SeedInv, NEW p \in Projects, D!SeedFails(p) PROVE SeedInv'
<1> DEFINE x == op[p]
<1>0. VolumesOK /\ HistoryOK /\ TablesOK /\ SeedStands(p) /\ SoundSeed(p) /\ D!VolsOf(p) \subseteq D!Vols
  BY VolsOfVols DEF SeedInv
<1>1. /\ x.pc = "copy" /\ helper' = helper \ x.touched /\ D!OpTo(p, D!AfterSeedError(x))
      /\ (IF x.kind = "restore" THEN UNCHANGED reply ELSE D!ReplyTo(p, "failed"))
      /\ UNCHANGED <<mounted, disk, shipped, was, dirty, browsing>>
  BY DEF D!SeedFails, D!Close
<1>2. UNCHANGED spent \/ D!Spend("fault", SeedFaults)
  BY DEF D!SeedFails
<1>3. spent' \in SeedTallies /\ spent'.crash = spent.crash
  BY <1>0, <1>2, MaySpend
<1>4. x \in Seeding /\ x.src \in FileVersions /\ x.at \in D!VolsOf(p)
  BY <1>0, <1>1, RunningIs, SourceTyped DEF AtSeed, Seeding, SeedStands
<1>5. VolumesOK' /\ \A w \in D!Vols \ D!VolsOf(p) : vol'[w] = vol[w]
  <2>1. PICK some \in SUBSET Files :
          vol' = IF vol[x.at].there THEN [vol EXCEPT ![x.at].c = D!Over(@, x.src, some)] ELSE vol
    BY DEF D!SeedFails
  <2>2. CASE ~vol[x.at].there
    BY <1>0, <1>1, <2>1, <2>2 DEF VolumesOK
  <2>3. CASE vol[x.at].there
    <3> DEFINE c == D!Over(vol[x.at].c, x.src, some)
    <3>1. vol[x.at] \in SeedVolume /\ x.at \in D!Vols
      BY <1>0, <1>4 DEF VolumesOK
    <3>2. vol[x.at].c \in FileVersions
      BY <2>3, <3>1, ThereIs
    <3>3. c \in FileVersions
      BY <1>4, <3>2, OverTyped
    <3>4. vol' = [vol EXCEPT ![x.at].c = c] /\ helper' \subseteq helper /\ UNCHANGED mounted
      BY <1>1, <2>1, <2>3
    <3> HIDE DEF c
    <3>5. VolumesOK' /\ \A w \in D!Vols \ {x.at} : vol'[w] = vol[w]
      BY <1>0, <2>3, <3>1, <3>3, <3>4, Refilled
    <3> QED
      BY <1>4, <3>5
  <2> QED
    BY <2>2, <2>3
<1>6. \A w \in helper' : w \in helper /\ w \notin Holds(p)
  BY <1>1 DEF Holds, AtSeed
<1>7. CASE x.kind = "restore"
  <2>1. D!OpTo(p, [x EXCEPT !.pc = "undo"]) /\ UNCHANGED reply
    BY <1>1, <1>7 DEF D!AfterSeedError
  <2> QED
    BY <1>1, <1>3, <1>4, <1>5, <1>6, <1>7, <2>1, TurnsBack
<1>8. CASE x.kind # "restore"
  <2>1. D!OpTo(p, D!Idle) /\ D!ReplyTo(p, "failed")
    BY <1>1, <1>8 DEF D!AfterSeedError
  <2> QED
    BY <1>1, <1>3, <1>4, <1>5, <1>6, <1>8, <2>1, GivesUp
<1> QED
  BY <1>7, <1>8

LEMMA SeededKeeps == ASSUME D!NamesApart, SeedInv, NEW p \in Projects, D!Seeded(p) PROVE SeedInv'
<1> DEFINE x == op[p]
           y == [x EXCEPT !.pc = "up"]
<1>0. VolumesOK /\ HistoryOK /\ TablesOK /\ SeedStands(p) /\ SoundSeed(p) /\ D!VolsOf(p) \subseteq D!Vols
  BY VolsOfVols DEF SeedInv
<1>1. /\ x.pc = "create" /\ x.todo = {} /\ helper' = helper \ x.touched /\ D!OpTo(p, y)
      /\ UNCHANGED <<vol, mounted, disk, reply, shipped, was, dirty, browsing, spent>>
  BY DEF D!Seeded, D!Close
<1>2. x \in Seeding /\ spent' \in SeedTallies
  BY <1>0, <1>1, RunningIs DEF AtSeed, TablesOK
<1>3. /\ y \in Seeding /\ y.pc = "up" /\ y.todo = {} /\ y.src = x.src
      /\ y.kind = x.kind /\ y.snap = x.snap /\ y.budget = x.budget
  BY <1>1, <1>2 DEF Seeding
<1> HIDE DEF y
<1>4. /\ TablesOK' /\ Spaced(p)'
      /\ op'[p] = y /\ reply'[p] = "none" /\ disk'[p].left = disk[p].left
      /\ \A q \in Projects \ {p} : op'[q] = op[q] /\ reply'[q] = reply[q] /\ disk'[q] = disk[q]
  BY <1>1, <1>2, <1>3, GoesOn
<1>5. VolumesOK' /\ HistoryOK'
  BY <1>0, <1>1 DEF HistoryOK, VolumesOK
<1>6. SeedStands(p)'
  BY <1>0, <1>1, <1>2, <1>3, <1>4 DEF SeedStands, AtSnapshot, AtSeed, AtPut
<1>7. SoundSeed(p)'
  BY <1>0, <1>1, <1>2, <1>3, <1>4 DEF SoundSeed, AtSnapshot, AtSeed, AtPut
<1>8. \A w \in helper' : w \in helper /\ w \notin Holds(p)
  BY <1>1 DEF Holds, AtSeed
<1> QED
  BY <1>1, <1>4, <1>5, <1>6, <1>7, <1>8, OwnStep

LEMMA UpSucceedsKeeps ==
    ASSUME D!BoundsOK, D!NamesApart, SeedInv, NEW p \in Projects, D!UpSucceeds(p) PROVE SeedInv'
<1> DEFINE x == op[p]
<1>0. VolumesOK /\ HistoryOK /\ TablesOK /\ SeedStands(p) /\ SoundSeed(p) /\ D!VolsOf(p) \subseteq D!Vols
  BY VolsOfVols DEF SeedInv
<1>1. /\ x.pc = "up" /\ mounted' = mounted \cup D!VolsOf(p) /\ (\A v \in D!VolsOf(p) : vol[v].there)
      /\ shipped' = [v \in D!Vols |-> IF v \in D!VolsOf(p) THEN x.src ELSE shipped[v]]
      /\ disk' = D!Discard(p) /\ D!ReplyTo(p, "ok") /\ D!OpTo(p, D!Idle)
      /\ UNCHANGED <<vol, helper, was, dirty, browsing, spent>>
  BY DEF D!UpSucceeds
<1>2. x \in Seeding /\ x.src \in FileVersions /\ x.todo = {} /\ spent' \in SeedTallies /\ "ok" \in SeedReplies
  BY <1>0, <1>1, RunningIs, SourceTyped DEF Seeding, SeedStands, TablesOK, SeedReplies
<1>3. /\ TablesOK' /\ op'[p] = D!Idle /\ reply'[p] = "ok" /\ disk'[p].now = 0 /\ disk'[p].left = disk[p].left
      /\ \A q \in Projects \ {p} : op'[q] = op[q] /\ reply'[q] = reply[q] /\ disk'[q] = disk[q]
  BY <1>1, <1>2, SeedEnds
<1>4. VolumesOK' /\ HistoryOK'
  BY <1>0, <1>1, <1>2 DEF HistoryOK, VolumesOK
<1>5. \A v \in D!VolsOf(p) \ dirty' : Holding(vol'[v], shipped'[v])
  BY <1>0, <1>1, <1>2 DEF SoundSeed
<1>6. SeedStands(p)' /\ Spaced(p)' /\ SoundSeed(p)'
  BY <1>3, <1>5, SeedEnded
<1>7. \A w \in helper' : w \in helper /\ w \notin Holds(p)
  BY <1>1 DEF Holds, AtSeed, AtSnapshot, AtPut
<1>8. \A v \in D!Vols \ D!VolsOf(p) : /\ vol'[v] = vol[v] /\ was'[v] = was[v] /\ shipped'[v] = shipped[v]
                                       /\ v \in dirty' <=> v \in dirty
  BY <1>1
<1> QED
  BY <1>1, <1>3, <1>4, <1>6, <1>7, <1>8, OwnStep

LEMMA UpFailsKeeps == ASSUME D!NamesApart, SeedInv, NEW p \in Projects, D!UpFails(p) PROVE SeedInv'
<1> DEFINE x == op[p]
<1>0. VolumesOK /\ TablesOK /\ D!VolsOf(p) \subseteq D!Vols
  BY VolsOfVols DEF SeedInv
<1>1. /\ x.pc = "up" /\ UNCHANGED <<vol, helper, disk, shipped, was, dirty, browsing>>
      /\ UNCHANGED spent \/ D!Spend("fault", SeedFaults)
  BY DEF D!UpFails
<1>2. spent' \in SeedTallies /\ spent'.crash = spent.crash
  BY <1>0, <1>1, MaySpend
<1>3. x \in Seeding
  BY <1>0, <1>1, RunningIs
<1>4. VolumesOK'
  <2>1. PICK some \in SUBSET D!VolsOf(p) : mounted' = mounted \cup {v \in some : vol[v].there}
    BY DEF D!UpFails
  <2> QED
    BY <1>0, <1>1, <2>1 DEF VolumesOK
<1>5. \A w \in helper' : w \in helper /\ w \notin Holds(p)
  BY <1>1 DEF Holds, AtSeed, AtSnapshot, AtPut
<1>6. CASE x.kind = "restore"
  <2>1. D!OpTo(p, [x EXCEPT !.pc = "undo"]) /\ UNCHANGED reply
    BY <1>6 DEF D!UpFails
  <2> QED
    BY <1>1, <1>2, <1>3, <1>4, <1>5, <1>6, <2>1, TurnsBack
<1>7. CASE x.kind # "restore"
  <2>1. D!OpTo(p, D!Idle) /\ D!ReplyTo(p, "failed")
    BY <1>7 DEF D!UpFails
  <2> QED
    BY <1>1, <1>2, <1>3, <1>4, <1>5, <1>7, <2>1, GivesUp
<1> QED
  BY <1>6, <1>7

(* A step of the undo: the volumes it is through with are as they were.      *)
LEMMA UndoStep ==
    ASSUME D!NamesApart, SeedInv, NEW p \in Projects, op[p] \in Seeding,
           op[p].pc \in AtPut \cup {"undo"}, NEW y \in Seeding, D!OpTo(p, y), y.pc \in AtPut,
           y.todo \subseteq D!VolsOf(p), y.pc \in {"empty", "fill"} => y.at \in y.todo /\ y.snap[y.at].there,
           y.kind = op[p].kind, y.budget = op[p].budget, y.snap = op[p].snap,
           VolumesOK', \A w \in D!Vols \ D!VolsOf(p) : vol'[w] = vol[w],
           \A w \in D!VolsOf(p) \ (y.todo \cup y.errs \cup dirty) : Alike(vol'[w], was[w]),
           \A w \in helper' : w \in helper \/ w \in D!VolsOf(p),
           spent' \in SeedTallies, spent'.crash = spent.crash,
           UNCHANGED <<disk, reply, shipped, was, dirty, browsing>>
    PROVE  SeedInv'
<1>0. HistoryOK /\ TablesOK /\ SeedStands(p) /\ SoundSeed(p) /\ D!VolsOf(p) \subseteq D!Vols
  BY VolsOfVols DEF SeedInv
<1>1. /\ TablesOK' /\ Spaced(p)'
      /\ op'[p] = y /\ reply'[p] = "none" /\ disk'[p].left = disk[p].left
      /\ \A q \in Projects \ {p} : op'[q] = op[q] /\ reply'[q] = reply[q] /\ disk'[q] = disk[q]
  BY GoesOn
<1>2. HistoryOK'
  BY <1>0 DEF HistoryOK
<1>3. SeedStands(p)'
  BY <1>0, <1>1 DEF SeedStands, AtSnapshot, AtSeed, AtPut
<1>4. SoundSeed(p)'
  BY <1>0, <1>1 DEF SoundSeed, AtSnapshot, AtSeed, AtPut
<1>5. \A w \in helper' : (w \in helper /\ w \notin Holds(p)) \/ w \in Holds(p)'
  <2>1. Holds(p)' = D!VolsOf(p)
    BY <1>1 DEF Holds, AtSnapshot, AtSeed, AtPut
  <2>2. Holds(p) \subseteq D!VolsOf(p)
    BY DEF Holds, AtSnapshot, AtSeed, AtPut
  <2> QED
    BY <2>1, <2>2
<1> QED
  BY <1>0, <1>1, <1>2, <1>3, <1>4, <1>5, OwnStep

LEMMA BeginUndoKeeps == ASSUME D!NamesApart, SeedInv, NEW p \in Projects, D!BeginUndo(p) PROVE SeedInv'
<1> DEFINE x == op[p]
           y == [x EXCEPT !.pc = "put", !.todo = D!VolsOf(p)]
<1>0. VolumesOK /\ HistoryOK /\ TablesOK /\ D!VolsOf(p) \subseteq D!Vols
  BY VolsOfVols DEF SeedInv
<1>1. x.pc = "undo" /\ UNCHANGED <<vol, mounted, shipped, was, dirty, browsing>>
  BY DEF D!BeginUndo
<1>2. x \in Seeding /\ spent \in SeedTallies
  BY <1>0, <1>1, RunningIs DEF TablesOK
<1>3. CASE helper' = D!Close(D!VolsOf(p)) /\ D!OpTo(p, y) /\ UNCHANGED <<disk, reply, spent>>
  <2>1. /\ y \in Seeding /\ y.pc = "put" /\ y.todo = D!VolsOf(p)
        /\ y.kind = x.kind /\ y.snap = x.snap /\ y.budget = x.budget
    BY <1>0, <1>2 DEF Seeding, AtPut
  <2> HIDE DEF y
  <2>2. VolumesOK' /\ helper' \subseteq helper
    BY <1>0, <1>1, <1>3 DEF VolumesOK, D!Close
  <2> QED
    BY <1>1, <1>2, <1>3, <2>1, <2>2, UndoStep DEF AtPut
<1>4. CASE /\ D!Spend("fault", SeedFaults) /\ disk' = D!Discard(p) /\ D!ReplyTo(p, "stuck") /\ D!OpTo(p, D!Idle)
           /\ UNCHANGED helper
  <2>1. spent' \in SeedTallies /\ spent'.crash = spent.crash /\ "stuck" \in SeedReplies
    BY <1>0, <1>4, SpendCounts DEF SeedReplies
  <2>2. /\ TablesOK' /\ op'[p] = D!Idle /\ reply'[p] = "stuck" /\ disk'[p].now = 0 /\ disk'[p].left = disk[p].left
        /\ \A q \in Projects \ {p} : op'[q] = op[q] /\ reply'[q] = reply[q] /\ disk'[q] = disk[q]
    BY <1>4, <2>1, SeedEnds
  <2>3. VolumesOK' /\ HistoryOK'
    BY <1>0, <1>1, <1>4 DEF HistoryOK, VolumesOK
  <2>4. SeedStands(p)' /\ Spaced(p)' /\ SoundSeed(p)'
    BY <2>2, SeedEnded
  <2>5. \A w \in helper' : w \in helper /\ w \notin Holds(p)
    BY <1>1, <1>4 DEF Holds, AtSeed, AtSnapshot, AtPut
  <2> QED
    BY <1>1, <1>4, <2>1, <2>2, <2>3, <2>4, <2>5, OwnStep
<1> QED
  BY <1>3, <1>4 DEF D!BeginUndo

LEMMA FailedIs ==
    ASSUME NEW x \in Seeding, NEW v \in D!Vols
    PROVE  /\ D!Failed(x, v) \in Seeding /\ D!Failed(x, v).pc = "put" /\ D!Failed(x, v).todo = x.todo \ {v}
           /\ D!Failed(x, v).errs = x.errs \cup {v} /\ D!Failed(x, v).kind = x.kind
           /\ D!Failed(x, v).budget = x.budget /\ D!Failed(x, v).snap = x.snap
  BY DEF D!Failed, Seeding, AtPut

LEMMA PutBackIs ==
    ASSUME NEW x \in Seeding, NEW v \in D!Vols
    PROVE  /\ D!PutBack(x, v) \in Seeding /\ D!PutBack(x, v).pc = "put" /\ D!PutBack(x, v).todo = x.todo \ {v}
           /\ D!PutBack(x, v).errs = x.errs /\ D!PutBack(x, v).kind = x.kind
           /\ D!PutBack(x, v).budget = x.budget /\ D!PutBack(x, v).snap = x.snap
  BY DEF D!PutBack, Seeding, AtPut

(* A volume the undo could not put back is reported.                         *)
LEMMA FailedKeeps ==
    ASSUME D!NamesApart, SeedInv, NEW p \in Projects, op[p].pc \in AtPut, NEW v \in D!VolsOf(p),
           D!OpTo(p, D!Failed(op[p], v)), spent' \in SeedTallies, spent'.crash = spent.crash,
           UNCHANGED <<vol, helper, mounted, disk, reply, shipped, was, dirty, browsing>>
    PROVE  SeedInv'
<1> DEFINE x == op[p]
           y == D!Failed(x, v)
<1>0. VolumesOK /\ TablesOK /\ SeedStands(p) /\ SoundSeed(p) /\ D!VolsOf(p) \subseteq D!Vols
  BY VolsOfVols DEF SeedInv
<1>1. x \in Seeding /\ x.todo \subseteq D!VolsOf(p)
  BY <1>0, RunningIs DEF SeedStands, AtPut
<1>2. /\ y \in Seeding /\ y.pc = "put" /\ y.todo = x.todo \ {v} /\ y.errs = x.errs \cup {v}
      /\ y.kind = x.kind /\ y.budget = x.budget /\ y.snap = x.snap
  BY <1>0, <1>1, FailedIs
<1> HIDE DEF y
<1>3. \A w \in D!VolsOf(p) \ (y.todo \cup y.errs \cup dirty) : Alike(vol'[w], was[w])
  BY <1>0, <1>2 DEF SoundSeed
<1>4. VolumesOK' /\ y.pc \in AtPut /\ y.todo \subseteq D!VolsOf(p)
  BY <1>0, <1>1, <1>2 DEF VolumesOK, AtPut
<1>5. D!OpTo(p, y)
  BY DEF y
<1> QED
  BY <1>1, <1>2, <1>3, <1>4, <1>5, UndoStep

(* One it has put back is as it was, unless others wrote to it.              *)
LEMMA PutBackKeeps ==
    ASSUME D!NamesApart, SeedInv, NEW p \in Projects, op[p].pc \in AtPut, NEW v \in D!VolsOf(p),
           D!OpTo(p, D!PutBack(op[p], v)), spent' \in SeedTallies, spent'.crash = spent.crash,
           VolumesOK', \A w \in D!Vols \ {v} : vol'[w] = vol[w], v \notin dirty => Alike(vol'[v], was[v]),
           UNCHANGED <<helper, disk, reply, shipped, was, dirty, browsing>>
    PROVE  SeedInv'
<1> DEFINE x == op[p]
           y == D!PutBack(x, v)
<1>0. TablesOK /\ SeedStands(p) /\ SoundSeed(p) /\ D!VolsOf(p) \subseteq D!Vols
  BY VolsOfVols DEF SeedInv
<1>1. x \in Seeding /\ x.todo \subseteq D!VolsOf(p)
  BY <1>0, RunningIs DEF SeedStands, AtPut
<1>2. /\ y \in Seeding /\ y.pc = "put" /\ y.todo = x.todo \ {v} /\ y.errs = x.errs
      /\ y.kind = x.kind /\ y.budget = x.budget /\ y.snap = x.snap
  BY <1>0, <1>1, PutBackIs
<1> HIDE DEF y
<1>3. \A w \in D!VolsOf(p) \ (y.todo \cup y.errs \cup dirty) : Alike(vol'[w], was[w])
  BY <1>0, <1>2 DEF SoundSeed
<1>4. y.pc \in AtPut /\ y.todo \subseteq D!VolsOf(p)
  BY <1>1, <1>2 DEF AtPut
<1>5. D!OpTo(p, y)
  BY DEF y
<1> QED
  BY <1>0, <1>1, <1>2, <1>3, <1>4, <1>5, UndoStep DEF AtPut

LEMMA UndoCreatedKeeps ==
    ASSUME D!NamesApart, SeedInv, NEW p \in Projects, NEW v \in D!VolsOf(p), D!UndoCreated(p, v)
    PROVE  SeedInv'
<1> DEFINE x == op[p]
<1>0. VolumesOK /\ TablesOK /\ SeedStands(p) /\ SoundSeed(p) /\ D!VolsOf(p) \subseteq D!Vols
  BY VolsOfVols DEF SeedInv
<1>1. /\ x.pc = "put" /\ ~x.snap[v].there
      /\ UNCHANGED <<helper, mounted, disk, reply, shipped, was, dirty, browsing, spent>>
  BY DEF D!UndoCreated
<1>2. spent' \in SeedTallies /\ spent'.crash = spent.crash /\ x.pc \in AtPut
  BY <1>0, <1>1 DEF TablesOK, AtPut
<1>3. CASE D!InUse(v)
  BY <1>1, <1>2, <1>3, FailedKeeps DEF D!UndoCreated
<1>4. CASE ~D!InUse(v)
  <2>1. vol' = [vol EXCEPT ![v] = D!Absent] /\ D!OpTo(p, D!PutBack(x, v)) /\ D!Absent \in SeedVolume
    BY <1>4 DEF D!UndoCreated, SeedVolume
  <2>2. VolumesOK' /\ vol'[v] = D!Absent /\ \A w \in D!Vols \ {v} : vol'[w] = vol[w]
    BY <1>0, <1>1, <1>4, <2>1, PutInPlace
  <2>3. x \in Seeding /\ v \in DOMAIN x.snap /\ x.snap \in Saves
    BY <1>0, <1>1, <1>2, RunningIs DEF SeedStands, AtPut, Seeding
  <2>4. x.snap[v] = D!Absent
    <3>1. x.snap[v] \in SeedVolume
      BY <2>3, SavesIs
    <3> QED
      BY <1>1, <3>1 DEF SeedVolume
  <2>5. v \notin dirty => was[v] = D!Absent
    BY <1>0, <2>3, <2>4 DEF SoundSeed
  <2>6. v \notin dirty => Alike(vol'[v], was[v])
    BY <2>2, <2>5 DEF Alike
  <2> QED
    BY <1>1, <1>2, <2>1, <2>2, <2>6, PutBackKeeps
<1> QED
  BY <1>3, <1>4

LEMMA UndoOpenKeeps ==
    ASSUME D!NamesApart, SeedInv, NEW p \in Projects, NEW v \in D!VolsOf(p), D!UndoOpen(p, v)
    PROVE  SeedInv'
<1> DEFINE x == op[p]
           y == [x EXCEPT !.pc = "empty", !.at = v]
<1>0. VolumesOK /\ TablesOK /\ SeedStands(p) /\ SoundSeed(p) /\ D!VolsOf(p) \subseteq D!Vols
  BY VolsOfVols DEF SeedInv
<1>1. /\ x.pc = "put" /\ v \in x.todo /\ x.snap[v].there /\ D!OpenHelper(v) /\ D!OpTo(p, y)
      /\ UNCHANGED <<mounted, disk, reply, shipped, was, dirty, browsing, spent>>
  BY DEF D!UndoOpen, D!FirstOf
<1>2. x \in Seeding /\ spent' \in SeedTallies /\ spent'.crash = spent.crash /\ x.todo \subseteq D!VolsOf(p)
  BY <1>0, <1>1, RunningIs DEF AtPut, TablesOK, SeedStands
<1>3. /\ y \in Seeding /\ y.pc = "empty" /\ y.at = v /\ y.todo = x.todo /\ y.errs = x.errs
      /\ y.kind = x.kind /\ y.budget = x.budget /\ y.snap = x.snap
  BY <1>0, <1>2 DEF Seeding, AtPut
<1> HIDE DEF y
<1>4. VolumesOK' /\ helper' = helper \cup {v} /\ \A w \in D!Vols \ {v} : vol'[w] = vol[w]
  BY <1>0, <1>1, OpenHelperIs, MountedIs DEF D!OpenHelper
<1>5. \A w \in D!VolsOf(p) \ (y.todo \cup y.errs \cup dirty) : Alike(vol'[w], was[w])
  BY <1>0, <1>1, <1>3, <1>4 DEF SoundSeed, AtPut
<1> QED
  BY <1>0, <1>1, <1>2, <1>3, <1>4, <1>5, UndoStep DEF AtPut

LEMMA UndoEmptyKeeps == ASSUME D!NamesApart, SeedInv, NEW p \in Projects, D!UndoEmpty(p) PROVE SeedInv'
<1> DEFINE x == op[p]
           y == [x EXCEPT !.pc = "fill"]
<1>0. VolumesOK /\ TablesOK /\ SeedStands(p) /\ SoundSeed(p) /\ D!VolsOf(p) \subseteq D!Vols
  BY VolsOfVols DEF SeedInv
<1>1. x.pc = "empty" /\ UNCHANGED <<helper, mounted, disk, reply, shipped, was, dirty, browsing, spent>>
  BY DEF D!UndoEmpty
<1>2. /\ x \in Seeding /\ spent' \in SeedTallies /\ spent'.crash = spent.crash /\ x.pc \in AtPut
      /\ x.todo \subseteq D!VolsOf(p) /\ x.at \in x.todo /\ x.at \in D!VolsOf(p) /\ x.snap[x.at].there
  BY <1>0, <1>1, RunningIs DEF AtPut, TablesOK, SeedStands
<1>3. CASE x.at \in helper
  <2>1. vol' = [vol EXCEPT ![x.at].c = D!Empty] /\ D!OpTo(p, y) /\ vol[x.at].there
    BY <1>0, <1>3 DEF D!UndoEmpty, VolumesOK
  <2>2. /\ y \in Seeding /\ y.pc = "fill" /\ y.at = x.at /\ y.todo = x.todo /\ y.errs = x.errs
        /\ y.kind = x.kind /\ y.budget = x.budget /\ y.snap = x.snap
    BY <1>2 DEF Seeding, AtPut
  <2> HIDE DEF y
  <2>3. VolumesOK' /\ \A w \in D!Vols \ {x.at} : vol'[w] = vol[w]
    BY <1>0, <1>1, <1>2, <2>1, Refilled, EmptyTyped
  <2>4. \A w \in D!VolsOf(p) \ (y.todo \cup y.errs \cup dirty) : Alike(vol'[w], was[w])
    BY <1>0, <1>2, <2>2, <2>3 DEF SoundSeed
  <2> QED
    BY <1>0, <1>1, <1>2, <2>1, <2>2, <2>3, <2>4, UndoStep DEF AtPut
<1>4. CASE x.at \notin helper
  BY <1>1, <1>2, <1>4, FailedKeeps DEF D!UndoEmpty
<1> QED
  BY <1>3, <1>4

LEMMA UndoFillKeeps == ASSUME D!NamesApart, SeedInv, NEW p \in Projects, D!UndoFill(p) PROVE SeedInv'
<1> DEFINE x == op[p]
           c == D!Over(D!Empty, x.snap[x.at].c, Files)
<1>0. VolumesOK /\ HistoryOK /\ TablesOK /\ SeedStands(p) /\ SoundSeed(p) /\ D!VolsOf(p) \subseteq D!Vols
  BY VolsOfVols DEF SeedInv
<1>1. x.pc = "fill" /\ UNCHANGED <<helper, mounted, disk, reply, shipped, was, dirty, browsing>>
  BY DEF D!UndoFill
<1>2. /\ x \in Seeding /\ x.pc \in AtPut /\ x.at \in D!VolsOf(p)
      /\ x.snap \in Saves /\ x.at \in DOMAIN x.snap
  BY <1>0, <1>1, RunningIs DEF AtPut, SeedStands, Seeding
<1>3. CASE /\ x.at \in helper /\ vol' = [vol EXCEPT ![x.at].c = c] /\ D!OpTo(p, D!PutBack(x, x.at)) /\ UNCHANGED spent
  <2>1. spent' \in SeedTallies /\ spent'.crash = spent.crash /\ vol[x.at].there
    BY <1>0, <1>3 DEF TablesOK, VolumesOK
  <2>2. x.snap[x.at].c \in FileVersions /\ x.snap[x.at].there /\ c = x.snap[x.at].c
    <3>1. x.snap[x.at] \in SeedVolume /\ x.snap[x.at].there
      BY <1>0, <1>1, <1>2, SavesIs DEF SeedStands
    <3>2. x.snap[x.at].c \in FileVersions
      BY <3>1, ThereIs
    <3>3. c = x.snap[x.at].c
      BY <3>2 DEF D!Over, D!Empty, FileVersions
    <3> QED
      BY <3>1, <3>2, <3>3
  <2> HIDE DEF c
  <2>3. VolumesOK' /\ vol'[x.at].there /\ vol'[x.at].c = c /\ \A w \in D!Vols \ {x.at} : vol'[w] = vol[w]
    BY <1>0, <1>1, <1>2, <1>3, <2>1, <2>2, Refilled
  <2>4. x.at \notin dirty => was[x.at] = x.snap[x.at]
    BY <1>0, <1>2 DEF SoundSeed
  <2>5. x.at \notin dirty => Alike(vol'[x.at], was[x.at])
    BY <2>2, <2>3, <2>4 DEF Alike, D!Content
  <2> QED
    BY <1>1, <1>2, <1>3, <2>1, <2>3, <2>5, PutBackKeeps
<1>4. CASE /\ UNCHANGED spent \/ D!Spend("fault", SeedFaults)
           /\ D!OpTo(p, D!Failed(x, x.at)) /\ UNCHANGED vol
  <2>1. spent' \in SeedTallies /\ spent'.crash = spent.crash
    BY <1>0, <1>4, MaySpend
  <2> QED
    BY <1>1, <1>2, <1>4, <2>1, FailedKeeps
<1> QED
  BY <1>3, <1>4 DEF D!UndoFill

LEMMA EndUndoKeeps == ASSUME D!NamesApart, SeedInv, NEW p \in Projects, D!EndUndo(p) PROVE SeedInv'
<1> DEFINE x == op[p]
           r == IF x.errs = {} THEN "back" ELSE "stuck"
<1>0. VolumesOK /\ HistoryOK /\ TablesOK /\ SoundSeed(p) /\ D!VolsOf(p) \subseteq D!Vols
  BY VolsOfVols DEF SeedInv
<1>1. /\ x.pc = "put" /\ x.todo = {} /\ helper' = helper \ D!VolsOf(p) /\ disk' = D!Discard(p)
      /\ D!ReplyTo(p, r) /\ D!OpTo(p, D!Idle) /\ UNCHANGED <<vol, mounted, shipped, was, dirty, browsing, spent>>
  BY DEF D!EndUndo, D!Close
<1>2. spent' \in SeedTallies /\ r \in SeedReplies /\ r \in {"back", "stuck"} /\ (r = "back" => x.errs = {})
  BY <1>0, <1>1 DEF TablesOK, SeedReplies
<1> HIDE DEF r
<1>3. /\ TablesOK' /\ op'[p] = D!Idle /\ reply'[p] = r /\ disk'[p].now = 0 /\ disk'[p].left = disk[p].left
      /\ \A q \in Projects \ {p} : op'[q] = op[q] /\ reply'[q] = reply[q] /\ disk'[q] = disk[q]
  BY <1>1, <1>2, SeedEnds
<1>4. VolumesOK' /\ HistoryOK'
  BY <1>0, <1>1 DEF HistoryOK, VolumesOK
<1>5. r = "back" => \A v \in D!VolsOf(p) \ dirty' : Alike(vol'[v], was'[v])
  BY <1>0, <1>1, <1>2 DEF SoundSeed, AtPut
<1>6. SeedStands(p)' /\ Spaced(p)' /\ SoundSeed(p)'
  BY <1>2, <1>3, <1>5, SeedEnded
<1>7. \A w \in helper' : w \in helper /\ w \notin Holds(p)
  BY <1>1 DEF Holds, AtSeed, AtSnapshot, AtPut
<1> QED
  BY <1>1, <1>3, <1>4, <1>6, <1>7, OwnStep

(* The removal of a project saves nothing and says nothing of its volumes.   *)
LEMMA RemovalStep ==
    ASSUME D!NamesApart, SeedInv, NEW p \in Projects, op[p].pc \in {"idle", "close", "remove"},
           NEW y \in Removing, D!OpTo(p, y), y.todo \subseteq D!VolsOf(p), y.pc = "remove" => y.at \in D!VolsOf(p),
           (UNCHANGED reply /\ reply[p] = "none") \/ D!ReplyTo(p, "none"),
           VolumesOK', \A w \in D!Vols \ D!VolsOf(p) : vol'[w] = vol[w] /\ shipped'[w] = shipped[w],
           shipped' \in [D!Vols -> FileVersions], helper' \subseteq helper,
           spent' \in SeedTallies, spent'.crash = spent.crash,
           UNCHANGED <<disk, was, dirty, browsing>>
    PROVE  SeedInv'
<1>0. HistoryOK /\ TablesOK /\ Spaced(p) /\ D!VolsOf(p) \subseteq D!Vols
  BY VolsOfVols DEF SeedInv
<1>1. disk[p].now = 0 /\ disk[p].now \in Nat /\ "none" \in SeedReplies
  BY <1>0, IdleIs DEF Spaced, SeedReplies
<1>2. /\ TablesOK' /\ op'[p] = y /\ reply'[p] = "none" /\ disk'[p].now = disk[p].now /\ disk'[p].left = disk[p].left
      /\ \A q \in Projects \ {p} : op'[q] = op[q] /\ reply'[q] = reply[q] /\ disk'[q] = disk[q]
  BY <1>0, <1>1, TablesMove
<1>3. HistoryOK'
  BY <1>0 DEF HistoryOK
<1>4. y.pc \in {"close", "remove"} /\ y \notin Seeding
  BY DEF Removing, Seeding, AtSnapshot, AtSeed, AtPut
<1>5. SeedStands(p)'
  BY <1>2, <1>4 DEF SeedStands, AtSnapshot, AtSeed, AtPut
<1>6. Spaced(p)'
  BY <1>1, <1>2, <1>4 DEF Spaced
<1>7. SoundSeed(p)'
  BY <1>2, <1>4 DEF SoundSeed, AtSnapshot, AtSeed, AtPut
<1>8. \A w \in helper' : w \in helper /\ w \notin Holds(p)
  BY DEF Holds, AtSeed, AtSnapshot, AtPut
<1> QED
  BY <1>0, <1>2, <1>3, <1>5, <1>6, <1>7, <1>8, OwnStep

LEMMA StartRemoveKeeps == ASSUME D!NamesApart, SeedInv, NEW p \in Projects, D!StartRemove(p) PROVE SeedInv'
<1> DEFINE y == [pc |-> "close", at |-> D!Absent, todo |-> {v \in D!VolsOf(p) : vol[v].there /\ p \in vol[v].label},
                 errs |-> {}]
<1>0. VolumesOK /\ HistoryOK /\ TablesOK /\ D!VolsOf(p) \subseteq D!Vols
  BY VolsOfVols DEF SeedInv
<1>1. /\ op[p].pc = "idle" /\ mounted' = mounted \ D!VolsOf(p) /\ D!OpTo(p, y) /\ D!ReplyTo(p, "none")
      /\ shipped' = [v \in D!Vols |-> IF v \in D!VolsOf(p) THEN D!Empty ELSE shipped[v]]
      /\ UNCHANGED <<vol, helper, disk, was, dirty, browsing>>
  BY DEF D!StartRemove
<1>2. spent' \in SeedTallies /\ spent'.crash = spent.crash
  BY <1>0, SpendCounts DEF D!StartRemove
<1>3. y \in Removing /\ y.todo \subseteq D!VolsOf(p) /\ y.pc = "close"
  BY <1>0 DEF Removing
<1> HIDE DEF y
<1>4. VolumesOK' /\ shipped' \in [D!Vols -> FileVersions] /\ \A w \in D!Vols \ D!VolsOf(p) : shipped'[w] = shipped[w]
  BY <1>0, <1>1, EmptyTyped DEF VolumesOK, HistoryOK
<1> QED
  BY <1>1, <1>2, <1>3, <1>4, RemovalStep

LEMMA RemoveCloseKeeps ==
    ASSUME D!NamesApart, SeedInv, NEW p \in Projects, NEW v \in D!VolsOf(p), D!RemoveClose(p, v)
    PROVE  SeedInv'
<1> DEFINE y == [op[p] EXCEPT !.pc = "remove", !.at = v]
<1>0. VolumesOK /\ HistoryOK /\ TablesOK /\ SeedStands(p) /\ D!VolsOf(p) \subseteq D!Vols
  BY VolsOfVols DEF SeedInv
<1>1. /\ op[p].pc = "close" /\ helper' \subseteq helper /\ D!OpTo(p, y)
      /\ UNCHANGED <<vol, mounted, disk, reply, shipped, was, dirty, browsing, spent>>
  BY DEF D!RemoveClose, D!Close
<1>2. /\ op[p] \in Removing /\ reply[p] = "none" /\ op[p].todo \subseteq D!VolsOf(p)
      /\ spent' \in SeedTallies /\ shipped' \in [D!Vols -> FileVersions]
  BY <1>0, <1>1, IdleIs DEF SeedStands, TablesOK, HistoryOK
<1>3. y \in Removing /\ y.todo = op[p].todo /\ y.at = v
  BY <1>0, <1>2 DEF Removing
<1> HIDE DEF y
<1>4. VolumesOK'
  BY <1>0, <1>1 DEF VolumesOK
<1> QED
  BY <1>1, <1>2, <1>3, <1>4, RemovalStep

LEMMA RemoveSeedKeeps == ASSUME D!NamesApart, SeedInv, NEW p \in Projects, D!RemoveSeed(p) PROVE SeedInv'
<1> DEFINE x == op[p]
           y == [x EXCEPT !.pc = "close", !.todo = @ \ {x.at}, !.errs = IF D!InUse(x.at) THEN @ \cup {x.at} ELSE @]
<1>0. VolumesOK /\ HistoryOK /\ TablesOK /\ SeedStands(p) /\ D!VolsOf(p) \subseteq D!Vols
  BY VolsOfVols DEF SeedInv
<1>1. /\ x.pc = "remove" /\ D!OpTo(p, y)
      /\ UNCHANGED <<helper, mounted, disk, reply, shipped, was, dirty, browsing, spent>>
  BY DEF D!RemoveSeed
<1>2. /\ x \in Removing /\ reply[p] = "none" /\ x.todo \subseteq D!VolsOf(p) /\ x.at \in D!VolsOf(p)
      /\ spent' \in SeedTallies /\ shipped' \in [D!Vols -> FileVersions]
  BY <1>0, <1>1, IdleIs DEF SeedStands, TablesOK, HistoryOK
<1>3. y \in Removing /\ y.todo = x.todo \ {x.at} /\ y.pc = "close"
  BY <1>0, <1>2 DEF Removing
<1> HIDE DEF y
<1>4. VolumesOK' /\ \A w \in D!Vols \ D!VolsOf(p) : vol'[w] = vol[w]
  <2>1. CASE D!InUse(x.at)
    BY <1>0, <1>1, <2>1 DEF D!RemoveSeed, VolumesOK
  <2>2. CASE ~D!InUse(x.at)
    <3>1. vol' = [vol EXCEPT ![x.at] = D!Absent] /\ D!Absent \in SeedVolume
      BY <2>2 DEF D!RemoveSeed, SeedVolume
    <3> QED
      BY <1>0, <1>1, <1>2, <2>2, <3>1, PutInPlace
  <2> QED
    BY <2>1, <2>2
<1> QED
  BY <1>1, <1>2, <1>3, <1>4, RemovalStep

LEMMA EndRemoveKeeps == ASSUME D!NamesApart, SeedInv, NEW p \in Projects, D!EndRemove(p) PROVE SeedInv'
<1> DEFINE r == IF op[p].errs = {} THEN "removed" ELSE "inuse"
<1>0. VolumesOK /\ HistoryOK /\ TablesOK /\ Spaced(p)
  BY DEF SeedInv
<1>1. /\ op[p].pc = "close" /\ D!ReplyTo(p, r) /\ D!OpTo(p, D!Idle)
      /\ UNCHANGED <<vol, helper, mounted, disk, shipped, was, dirty, browsing, spent>>
  BY DEF D!EndRemove
<1>2. spent' \in SeedTallies /\ r \in SeedReplies /\ r \in {"removed", "inuse"} /\ disk[p].now = 0
  BY <1>0, <1>1, IdleIs DEF TablesOK, SeedReplies, Spaced
<1> HIDE DEF r
<1>3. /\ TablesOK' /\ op'[p] = D!Idle /\ reply'[p] = r /\ disk'[p].now = 0 /\ disk'[p].left = disk[p].left
      /\ \A q \in Projects \ {p} : op'[q] = op[q] /\ reply'[q] = reply[q] /\ disk'[q] = disk[q]
  BY <1>1, <1>2, SeedEnds
<1>4. VolumesOK' /\ HistoryOK'
  BY <1>0, <1>1 DEF HistoryOK, VolumesOK
<1>5. SeedStands(p)' /\ Spaced(p)' /\ SoundSeed(p)'
  BY <1>2, <1>3, SeedEnded
<1>6. \A w \in helper' : w \in helper /\ w \notin Holds(p)
  BY <1>1 DEF Holds, AtSeed, AtSnapshot, AtPut
<1> QED
  BY <1>1, <1>3, <1>4, <1>5, <1>6, OwnStep

LEMMA SeedInit == ASSUME D!BoundsOK, D!Init PROVE SeedInv
<1>1. vol \in [D!Vols -> SeedVolume] /\ was = vol /\ shipped \in [D!Vols -> FileVersions]
  BY EmptyTyped DEF D!Init, SeedVolume
<1>2. VolumesOK /\ HistoryOK
  BY <1>1 DEF D!Init, VolumesOK, HistoryOK
<1>3. TablesOK
  BY DEF D!Init, TablesOK, SeedReplies, SeedTallies
<1>4. ASSUME NEW p \in Projects PROVE SeedStands(p) /\ Spaced(p) /\ SoundSeed(p) /\ disk[p].left = 0
  <2>1. op[p] = D!Idle /\ op[p].pc = "idle" /\ op[p] \notin Seeding /\ reply[p] = "none" /\ disk[p].now = 0
        /\ disk[p].left = 0
    BY <1>3, IdleIs DEF D!Init, D!Idle
  <2>2. SeedStands(p)
    BY <2>1 DEF SeedStands, AtSnapshot, AtSeed, AtPut
  <2>3. SoundSeed(p)
    BY <2>1 DEF SoundSeed, AtSnapshot, AtSeed, AtPut
  <2> QED
    BY <2>1, <2>2, <2>3 DEF Spaced
<1>5. HelpersOwned
  BY DEF D!Init, HelpersOwned
<1>6. LeftBounded
  <2>1. spent.crash = 0 /\ 0 * MaxBytes = 0
    BY DEF D!Init, D!BoundsOK
  <2> QED
    BY <1>4, <2>1 DEF LeftBounded
<1> QED
  BY <1>2, <1>3, <1>4, <1>5, <1>6 DEF SeedInv

LEMMA SeedStep == ASSUME D!BoundsOK, D!NamesApart, SeedInv, [D!Next]_D!svars PROVE SeedInv'
<1>1. CASE UNCHANGED D!svars
  <2>1. UNCHANGED <<vol, helper, mounted, op, disk, reply, shipped, was, dirty, browsing, spent>>
    BY <1>1 DEF D!svars
  <2>2. VolumesOK' /\ HistoryOK' /\ spent' \in SeedTallies
    BY <2>1 DEF SeedInv, VolumesOK, HistoryOK, TablesOK
  <2> QED
    BY <2>1, <2>2, OthersStep
<1>2. CASE D!Others
  BY <1>2, BrowseVolumeKeeps, CloseBrowserKeeps, RemoveVolumeKeeps, ContainerWritesKeeps, SeedCrashKeeps
     DEF D!Others
<1>3. ASSUME NEW p \in Projects, D!Step(p) PROVE SeedInv'
  <2>1. CASE \E kind \in {"deploy", "restore"}, files \in Sources : D!Start(p, kind, files)
    BY <2>1, SeedStartKeeps
  <2>2. CASE \E v \in D!VolsOf(p) : \/ D!SnapshotInspect(p, v) \/ D!SeedCreate(p, v) \/ D!UndoCreated(p, v)
                                    \/ D!UndoOpen(p, v) \/ D!RemoveClose(p, v)
    BY <2>2, SnapshotInspectKeeps, SeedCreateKeeps, UndoCreatedKeeps, UndoOpenKeeps, RemoveCloseKeeps
  <2>3. CASE D!SaveVolume(p) \/ D!Snapshotted(p) \/ D!SeedOpen(p) \/ D!SeedCopy(p) \/ D!SeedFails(p) \/ D!Seeded(p)
    BY <2>3, SaveVolumeKeeps, SnapshottedKeeps, SeedOpenKeeps, SeedCopyKeeps, SeedFailsKeeps, SeededKeeps
  <2>4. CASE D!UpSucceeds(p) \/ D!UpFails(p) \/ D!BeginUndo(p) \/ D!UndoEmpty(p) \/ D!UndoFill(p) \/ D!EndUndo(p)
    BY <2>4, UpSucceedsKeeps, UpFailsKeeps, BeginUndoKeeps, UndoEmptyKeeps, UndoFillKeeps, EndUndoKeeps
  <2>5. CASE D!StartRemove(p) \/ D!RemoveSeed(p) \/ D!EndRemove(p)
    BY <2>5, StartRemoveKeeps, RemoveSeedKeeps, EndRemoveKeeps
  <2> QED
    BY <1>3, <2>1, <2>2, <2>3, <2>4, <2>5 DEF D!Step
<1> QED
  BY <1>1, <1>2, <1>3 DEF D!Next

LEMMA SeedEnough ==
    ASSUME D!BoundsOK, SeedInv
    PROVE  D!TypeOK /\ D!PutBackIsTrue /\ D!SeededIsShipped /\ D!HelpersAreClosed /\ D!SnapshotIsBounded
<1>0. VolumesOK /\ HistoryOK /\ TablesOK /\ \A p \in Projects : Spaced(p) /\ SoundSeed(p)
  BY DEF SeedInv
<1>1. D!TypeOK
  <2>1. \A v \in D!Vols : vol[v].there => vol[v].c \in FileVersions /\ vol[v].label \subseteq Projects
    <3> SUFFICES ASSUME NEW v \in D!Vols, vol[v].there
                 PROVE  vol[v].c \in FileVersions /\ vol[v].label \subseteq Projects
      OBVIOUS
    <3>1. vol[v] \in SeedVolume
      BY <1>0 DEF VolumesOK
    <3>2. vol[v] \in [there : {TRUE}, c : FileVersions, label : SUBSET Projects]
      BY <3>1, ThereIs
    <3> QED
      BY <3>2
  <2>2. \A p \in Projects : op[p].pc \in {"idle", "inspect", "save", "create", "open", "copy", "up", "undo",
                                          "put", "empty", "fill", "close", "remove"}
    BY <1>0 DEF TablesOK, D!Idle, Seeding, Removing, AtSnapshot, AtSeed, AtPut
  <2> QED
    BY <1>0, <2>1, <2>2 DEF D!TypeOK, VolumesOK, HistoryOK, FileVersions
<1>2. D!PutBackIsTrue
  BY <1>0 DEF D!PutBackIsTrue, SoundSeed, Alike
<1>3. D!SeededIsShipped
  BY <1>0 DEF D!SeededIsShipped, SoundSeed, Holding, D!Content
<1>4. D!HelpersAreClosed
  <2> SUFFICES ASSUME spent.crash = 0, \A p \in Projects : op[p].pc = "idle", NEW v \in helper PROVE v \in browsing
    BY DEF D!HelpersAreClosed
  <2>1. \A p \in Projects : Holds(p) = {}
    BY DEF Holds, AtSnapshot, AtSeed, AtPut
  <2> QED
    BY <2>1 DEF SeedInv, HelpersOwned
<1>5. ASSUME NEW p \in Projects
      PROVE  /\ disk[p].now <= MaxBytes /\ disk[p].left <= spent.crash * MaxBytes
             /\ op[p].pc = "idle" => disk[p].now = 0
  <2>1. disk[p].left <= spent.crash * MaxBytes
    BY DEF SeedInv, LeftBounded
  <2>2. disk[p].now \in Nat /\ MaxBytes \in Nat
    BY <1>0 DEF TablesOK, D!BoundsOK
  <2>3. CASE op[p] \in Seeding
    <3>1. op[p].budget \in Nat /\ op[p].pc # "idle"
      BY <1>0, <2>3, IdleIs DEF Seeding
    <3> QED
      BY <1>0, <2>1, <2>2, <2>3, <3>1 DEF Spaced
  <2>4. CASE op[p] \notin Seeding
    BY <1>0, <2>1, <2>2, <2>4 DEF Spaced
  <2> QED
    BY <2>3, <2>4
<1> QED
  BY <1>1, <1>2, <1>3, <1>4, <1>5 DEF D!SnapshotIsBounded

(* The invariant holds throughout, however many projects there are, as long  *)
(* as no two of them share the names of their volumes.                       *)
THEOREM SeedInvariance == ASSUME D!BoundsOK, D!NamesApart PROVE D!Spec => []SeedInv
<1>1. D!Init => SeedInv
  BY SeedInit
<1>2. SeedInv /\ [D!Next]_D!svars => SeedInv'
  BY SeedStep
<1> QED
  BY <1>1, <1>2, PTL DEF D!Spec

(* A restore that says the volumes are as before is right, a deploy that     *)
(* succeeded has shipped every file, the helpers are closed on every way     *)
(* out, and what a restore saves is within its bound and gone at the end.    *)
THEOREM SeedsSound ==
    ASSUME D!BoundsOK, D!NamesApart
    PROVE  D!Spec => [](D!TypeOK /\ D!PutBackIsTrue /\ D!SeededIsShipped /\ D!HelpersAreClosed
                        /\ D!SnapshotIsBounded)
<1>1. SeedInv => D!TypeOK /\ D!PutBackIsTrue /\ D!SeededIsShipped /\ D!HelpersAreClosed
                 /\ D!SnapshotIsBounded
  BY SeedEnough
<1> QED
  BY <1>1, SeedInvariance, PTL

-----------------------------------------------------------------------------
(***************************************************************************)
(* The run's specification.  A behaviour of MCSpec is one of each          *)
(* component, the parts it has not chosen standing still.                  *)
(***************************************************************************)
LEMMA PartsBegin ==
    ASSUME MCInit PROVE Init /\ S!Init /\ C!Init /\ B!Init /\ U!Init /\ E!Init /\ R!Init /\ D!Init
  BY DEF MCInit

LEMMA PartsMove ==
    ASSUME [MCNext]_vars
    PROVE  /\ [Next]_wvars /\ [S!Next]_S!svars /\ [C!Next]_C!hvars
           /\ [B!Next]_B!bvars /\ [U!Next]_U!ivars /\ [E!Next]_E!vars /\ [R!Next]_R!vars
           /\ [D!Next]_D!svars
<1> USE DEF svars, cvars, bvars, uvars, evars, rvars, dvars
<1>1. UNCHANGED svars => UNCHANGED S!svars
  BY DEF S!svars
<1>2. UNCHANGED cvars => UNCHANGED C!hvars
  BY DEF C!hvars
<1>3. UNCHANGED bvars => UNCHANGED B!bvars
  BY DEF B!bvars
<1>4. UNCHANGED uvars => UNCHANGED U!ivars
  BY DEF U!ivars
<1>5. UNCHANGED evars => UNCHANGED E!vars
  BY DEF E!vars
<1>8. UNCHANGED rvars => UNCHANGED R!vars
  BY DEF R!vars
<1>9. UNCHANGED dvars => UNCHANGED D!svars
  BY DEF D!svars
<1> HIDE DEF svars, cvars, bvars, uvars, evars, rvars, dvars
<1>6. CASE UNCHANGED vars
  BY <1>1, <1>2, <1>3, <1>4, <1>5, <1>6, <1>8, <1>9 DEF vars
<1>7. CASE MCNext
  BY <1>1, <1>2, <1>3, <1>4, <1>5, <1>7, <1>8, <1>9 DEF MCNext
<1> QED
  BY <1>6, <1>7

(* However the instances of a run are chosen, its behaviours are behaviours *)
(* of the eight components (MCInit, MCNext).                                 *)
THEOREM RunsTheParts == MCSpec => Spec /\ S!Spec /\ C!Spec /\ B!Spec /\ U!Spec /\ E!Spec /\ R!Spec /\ D!Spec
<1>1. MCInit => Init /\ S!Init /\ C!Init /\ B!Init /\ U!Init /\ E!Init /\ R!Init /\ D!Init
  BY PartsBegin
<1>2. [MCNext]_vars => /\ [Next]_wvars /\ [S!Next]_S!svars /\ [C!Next]_C!hvars
                       /\ [B!Next]_B!bvars /\ [U!Next]_U!ivars /\ [E!Next]_E!vars /\ [R!Next]_R!vars
                       /\ [D!Next]_D!svars
  BY PartsMove
<1> QED
  BY <1>1, <1>2, PTL DEF MCSpec, Spec, S!Spec, C!Spec, B!Spec, U!Spec, E!Spec, R!Spec, D!Spec

(* A stream nobody cancelled is the one under its id, one replaced sends at *)
(* most one more frame per goroutine, and nothing follows its "end"         *)
(* (finish, writeSub, demuxLines).                                          *)
THEOREM StreamsStayOwned == MCSpec => []StreamsAreOwned
<1>1. S!Spec => []S!StreamsAreOwned
  BY StreamBounds, StreamsOwned
<1>2. S!StreamsAreOwned => StreamsAreOwned
  BY DEF StreamsAreOwned
<1> QED
  BY <1>1, <1>2, RunsTheParts, PTL

(* Racing callers leave one open connection, which follows the row of its   *)
(* host and its pin, and a pinned key was approved (Client, Disconnect,     *)
(* handleTrustHost).                                                        *)
THEOREM ConnectionsStayTrue == MCSpec => []ConnectionsFollowRows
<1>1. C!Spec => []C!ConnectionsFollowRows
  BY ClientBounds, ConnectionsTrue
<1>2. C!ConnectionsFollowRows => ConnectionsFollowRows
  BY DEF ConnectionsFollowRows
<1> QED
  BY <1>1, <1>2, RunsTheParts, PTL

(* A job's badge is about the newest run kept, a helper belongs to a run    *)
(* under way, and scheduled runs keep their distance (RecordBackupRun,      *)
(* RunBackupJob, DueBackupJobs).                                            *)
THEOREM RunsStayRecorded == MCSpec => []RunsAreRecorded
<1>1. B!Spec => []B!RunsAreRecorded
  BY JobBounds, RunsRecorded
<1>2. B!RunsAreRecorded => RunsAreRecorded
  BY DEF RunsAreRecorded
<1> QED
  BY <1>1, <1>2, RunsTheParts, PTL

(* An image update is told of, and once (pollImageUpdatesForProject,        *)
(* imageUpdatesToNotify).                                                   *)
THEOREM UpdatesStayTold == MCSpec => []UpdatesAreTold
<1>1. U!Spec => []U!UpdatesAreTold
  BY PollBounds, UpdatesTold
<1>2. U!UpdatesAreTold => UpdatesAreTold
  BY DEF UpdatesAreTold
<1> QED
  BY <1>1, <1>2, RunsTheParts, PTL

(* A stack's file is one compose accepted, a save that failed has changed   *)
(* nothing, and a save keeps what it replaces (StackWriteComposeFile,       *)
(* writeLocal, writeOverSSH).                                               *)
THEOREM StackStaysWhole == MCSpec => StackFileIsWhole
<1>1. E!Spec => [](E!TypeOK /\ E!FileIsAccepted /\ E!RefusedIsNotApplied) /\ [][E!KeepsReplaced]_E!vars
  BY StackBounds, StackSound
<1>2. [E!KeepsReplaced]_E!vars => [E!KeepsReplaced]_evars
  BY DEF E!vars, evars
<1>3. E!TypeOK /\ E!FileIsAccepted /\ E!RefusedIsNotApplied
      => (part = "stacks" => E!TypeOK /\ E!FileIsAccepted /\ E!RefusedIsNotApplied)
  OBVIOUS
<1> QED
  BY <1>1, <1>2, <1>3, RunsTheParts, PTL DEF StackFileIsWhole

(* A purge deletes what the saved policy says and nothing else; its record  *)
(* is what it deleted, a revision's row keeps its snapshot, and a purge     *)
(* without an error leaves nothing behind (runRetention, TrimRevisions,     *)
(* PurgeAlertEvents).                                                       *)
THEOREM PurgeStaysTrue == MCSpec => PurgeIsTrue
<1>1. R!Spec => /\ [](R!TypeOK /\ R!RecordIsTrue /\ R!RowsHaveFiles /\ R!SweptClean)
                /\ [][R!RemovesOnlyOld]_R!vars
  BY PurgeBounds, PurgeSound
<1>2. [R!RemovesOnlyOld]_R!vars => [R!RemovesOnlyOld]_rvars
  BY DEF R!vars, rvars
<1>3. R!TypeOK /\ R!RecordIsTrue /\ R!RowsHaveFiles /\ R!SweptClean
      => (part = "purge" => R!TypeOK /\ R!RecordIsTrue /\ R!RowsHaveFiles /\ R!SweptClean)
  OBVIOUS
<1> QED
  BY <1>1, <1>2, <1>3, RunsTheParts, PTL DEF PurgeIsTrue

(* A deploy that succeeded has shipped every file, a restore that says the  *)
(* volumes are as before is right, no helper is left behind, and what a     *)
(* restore saves is bounded and discarded (SeedProjectBinds, Restore,       *)
(* CloseVolumeBrowser, SnapshotSeedVolumes): for any number of projects     *)
(* whose slugs differ once sanitizeVolumeSlug has cut them.                 *)
THEOREM SeedsStayTrue == ASSUME D!NamesApart PROVE MCSpec => []SeedsAreTrue
<1>1. D!Spec => [](D!TypeOK /\ D!PutBackIsTrue /\ D!SeededIsShipped /\ D!HelpersAreClosed
                   /\ D!SnapshotIsBounded)
  BY SeedBounds, SeedsSound
<1>2. D!TypeOK /\ D!PutBackIsTrue /\ D!SeededIsShipped /\ D!HelpersAreClosed /\ D!SnapshotIsBounded
      => SeedsAreTrue
  BY DEF SeedsAreTrue
<1> QED
  BY <1>1, <1>2, RunsTheParts, PTL

=============================================================================
