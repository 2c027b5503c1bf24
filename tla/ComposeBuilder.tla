--------------------------- MODULE ComposeBuilder ---------------------------
(* The builder of new projects: resolveSeedFiles (api/template_handlers.go)  *)
(* and AssembleCompose (internal/templates). A selection names service       *)
(* blocks, each under a key and merging shared definitions (fragments). The  *)
(* fragments are read one at a time while others edit and delete them; the   *)
(* compose file is then put together in one go.                              *)
(* A name is the sequence of its parts between hyphens.                      *)
EXTENDS Naturals, Sequences, FiniteSets, SequencesExt

CONSTANTS
    FragIds,       \* ids of fragments
    Anchors,       \* YAML anchors a fragment can declare
    Blocks,        \* records [service, vols, vars]; vars: [key, default, gen]
    Keys,          \* service keys a client posts; << >> is a blank
    MaxInstances,  \* bound: services of a selection
    MaxEdits       \* bound: edits of fragments

(* The bounds are numbers and names are sequences.                           *)
IsName(n) == Len(n) \in Nat /\ n = [i \in 1..Len(n) |-> n[i]]
BoundsOK ==
    /\ MaxInstances \in Nat /\ MaxEdits \in Nat
    /\ \A n \in Keys : IsName(n)
    /\ \A b \in Blocks : IsName(b.service) /\ \A v \in b.vols : IsName(v)

Idle == [pc |-> "idle"]
NoRv == [v \in {} |-> ""]

VARIABLES
    frag,   \* compose_fragments: the anchors each stored fragment declares
    req,    \* where the request stands
    edits   \* history: edits of fragments so far

cvars == <<frag, req, edits>>

Instances == [block : Blocks, key : Keys, merge : SUBSET FragIds]

Init ==
    /\ frag \in [FragIds -> SUBSET Anchors]
    /\ req = Idle /\ edits = 0

(* handleUpdateComposeFragment and handleDeleteComposeFragment.              *)
UpdateFragment(f, anchors) ==
    /\ edits < MaxEdits /\ edits' = edits + 1
    /\ f \in DOMAIN frag /\ frag[f] # anchors
    /\ frag' = [frag EXCEPT ![f] = anchors]
    /\ UNCHANGED req

DeleteFragment(f) ==
    /\ edits < MaxEdits /\ edits' = edits + 1
    /\ f \in DOMAIN frag
    /\ frag' = [g \in DOMAIN frag \ {f} |-> frag[g]]
    /\ UNCHANGED req

-----------------------------------------------------------------------------
(* resolveSeedFiles. fragByKey holds every fragment met so far, so that one  *)
(* is read once and its anchors are those of the text that is written.       *)
Request(included, insts) ==
    /\ req.pc = "idle"
    /\ insts # << >>
    /\ req' = [pc |-> "resolve", included |-> included, todo |-> insts, merge |-> {},
               frags |-> [f \in {} |-> {}], placed |-> << >>, anchors |-> {}]
    /\ UNCHANGED <<frag, edits>>

Known(x, f) == f \in DOMAIN x.frags
AddFrag(x, f) == [x EXCEPT !.frags = [g \in DOMAIN x.frags \cup {f} |->
                                        IF g = f THEN frag[f] ELSE x.frags[g]]]

(* The fragments the client listed come first; any missing one is a 404.     *)
ReadIncluded(f) ==
    /\ req.pc = "resolve" /\ f \in req.included
    /\ req' = IF Known(req, f) THEN [req EXCEPT !.included = @ \ {f}]
              ELSE IF f \notin DOMAIN frag THEN Idle
              ELSE AddFrag([req EXCEPT !.included = @ \ {f}], f)
    /\ UNCHANGED <<frag, edits>>

NextInstance ==
    /\ req.pc = "resolve" /\ req.included = {} /\ req.todo # << >>
    /\ req' = [req EXCEPT !.pc = "merge", !.merge = Head(req.todo).merge, !.anchors = {}]
    /\ UNCHANGED <<frag, edits>>

(* A fragment an instance merges is emitted too, listed or not.              *)
MergeFrag(x, f) == IF Known(x, f) THEN x ELSE AddFrag(x, f)
AnchorsOf(x, f) == x.frags[f]

ReadMerge(f) ==
    /\ req.pc = "merge" /\ f \in req.merge
    /\ IF ~Known(req, f) /\ f \notin DOMAIN frag
         THEN req' = Idle
         ELSE LET y == MergeFrag([req EXCEPT !.merge = @ \ {f}], f) IN
              req' = [y EXCEPT !.anchors = @ \cup AnchorsOf(MergeFrag(req, f), f)]
    /\ UNCHANGED <<frag, edits>>

PlaceInstance ==
    /\ req.pc = "merge" /\ req.merge = {}
    /\ req' = [req EXCEPT !.pc = "resolve", !.todo = Tail(@),
                 !.placed = Append(@, [block |-> Head(req.todo).block, key |-> Head(req.todo).key,
                                       merges |-> req.anchors])]
    /\ UNCHANGED <<frag, edits>>

-----------------------------------------------------------------------------
(* ResolveVars: a blank value falls back to the default, then to a password  *)
(* where one is to be generated; later declarations of a key win.            *)
Value(v, given) ==
    IF v.key \in given THEN "given"
    ELSE IF v.default THEN "default" ELSE IF v.gen THEN "password" ELSE ""

ResolveVars(insts, given) ==
    FoldLeft(LAMBDA rv, in :
               [k \in DOMAIN rv \cup {v.key : v \in in.block.vars} |->
                  IF \E v \in in.block.vars : v.key = k
                    THEN Value(CHOOSE v \in in.block.vars : v.key = k, given) ELSE rv[k]],
             NoRv, insts)

(* Service keys: the posted one or the block's, made unique with -2, -3...   *)
(* mutant: the suffixed key is not looked up again.                          *)
FreeOnce(key, used) == IF key \notin used THEN key ELSE key \o <<2>>
Free(key, used) ==
    IF key \notin used THEN key
    ELSE key \o << CHOOSE n \in 2..Cardinality(used) + 2 :
                     /\ key \o <<n>> \notin used
                     /\ \A m \in 2..n - 1 : key \o <<m>> \in used >>

Asked(in) == IF in.key = << >> THEN in.block.service ELSE in.key
KeysOf(insts) ==
    LET ks[i \in DOMAIN insts] == Free(Asked(insts[i]), {ks[j] : j \in 1..i - 1})
    IN  ks

(* A named volume of more than one instance is renamed to <key>-<volume>.    *)
Uses(insts, v) == Cardinality({i \in DOMAIN insts : v \in insts[i].block.vols})
VolumeName(insts, key, v) == IF Uses(insts, v) > 1 THEN key \o v ELSE v

(* AssembleCompose, as a record: the definitions above services:, the        *)
(* services in order, and the top-level volumes.                             *)
AssembleCompose(insts, frags, rv) ==
    LET ks == KeysOf(insts)
        svc == [i \in DOMAIN insts |->
                  [key |-> ks[i], merges |-> insts[i].merges,
                   vols |-> [v \in insts[i].block.vols |-> VolumeName(insts, ks[i], v)]]]
    IN [defined |-> UNION {frags[f] : f \in DOMAIN frags}, services |-> svc, vars |-> rv,
        volumes |-> UNION {{svc[i].vols[v] : v \in DOMAIN svc[i].vols} : i \in DOMAIN svc}]

Assemble(given) ==
    /\ req.pc = "resolve" /\ req.included = {} /\ req.todo = << >>
    /\ req' = [pc |-> "done", insts |-> req.placed,
               file |-> AssembleCompose(req.placed, req.frags, ResolveVars(req.placed, given))]
    /\ UNCHANGED <<frag, edits>>

Next ==
    \/ \E f \in FragIds : DeleteFragment(f) \/ \E anchors \in SUBSET Anchors : UpdateFragment(f, anchors)
    \/ \E included \in SUBSET FragIds, n \in 1..MaxInstances :
         \E insts \in [1..n -> Instances] : Request(included, insts)
    \/ \E f \in FragIds : ReadIncluded(f) \/ ReadMerge(f)
    \/ NextInstance \/ PlaceInstance
    \/ \E given \in SUBSET UNION {{v.key : v \in b.vars} : b \in Blocks} : Assemble(given)

Spec == Init /\ [][Next]_cvars

-----------------------------------------------------------------------------
(* Fragments declare known anchors; the request is somewhere in its handler. *)
TypeOK ==
    /\ DOMAIN frag \subseteq FragIds /\ \A f \in DOMAIN frag : frag[f] \subseteq Anchors
    /\ req.pc \in {"idle", "resolve", "merge", "done"}
    /\ edits \in 0..MaxEdits

(* "Any fragment referenced by an instance merge is emitted too, so a        *)
(* <<: *anchor alias always resolves": also when the fragment was edited or  *)
(* deleted between two reads of the same request.                            *)
AliasesResolve ==
    req.pc = "done" => \A i \in DOMAIN req.file.services : req.file.services[i].merges \subseteq req.file.defined

(* No service is dropped: the services of the file are as many as were       *)
(* asked for, each under a key of its own, whatever keys the client posted.  *)
NoServiceDropped ==
    req.pc = "done" => /\ Len(req.file.services) = Len(req.insts)
                       /\ IsInjective([i \in DOMAIN req.file.services |-> req.file.services[i].key])

(* Clustered services - instances that use a volume of the same name - get   *)
(* a volume each, and every volume mounted is declared.                      *)
ClustersKeepTheirData ==
    req.pc = "done" =>
        LET s == req.file.services IN
        \A i, j \in DOMAIN s : \A v \in DOMAIN s[i].vols :
            /\ s[i].vols[v] \in req.file.volumes
            /\ i # j /\ v \in DOMAIN s[j].vols => s[i].vols[v] # s[j].vols[v]

(* Refuted: a volume "must be made unique per instance                       *)
(* (else clustered services would share - and corrupt - one volume)". A      *)
(* renamed volume can meet another block's volume of that very name.         *)
NoSharedVolumes ==
    req.pc = "done" =>
        LET s == req.file.services IN
        \A i, j \in DOMAIN s : \A v \in DOMAIN s[i].vols, w \in DOMAIN s[j].vols :
            i # j => s[i].vols[v] # s[j].vols[w]

(* Refuted: ResolveVars "errors if a non-generated                           *)
(* variable ends up empty and had no default".                               *)
NoEmptyVariable == req.pc = "done" => \A k \in DOMAIN req.file.vars : req.file.vars[k] # ""
=============================================================================
