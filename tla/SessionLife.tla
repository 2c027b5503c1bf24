---------------------------- MODULE SessionLife ----------------------------
(* What a connector session promises whoever revokes it: it is opened once,  *)
(* it ends once, and nothing brings an ended one back.  McpSessions          *)
(* implements this with three tables and statements that interleave.         *)
CONSTANT Sids        \* the ids of sessions

VARIABLE life        \* sid -> what has become of the session

Unborn == [s \in Sids |-> "unborn"]

Init == life = Unborn

(* An authorization code is redeemed, or a refresh token from before sessions *)
(* were tracked is rotated.                                                   *)
Open(s) ==
    /\ life[s] = "unborn"
    /\ life' = [life EXCEPT ![s] = "live"]

(* A revocation ends one session, a client's removal or a sweep several.      *)
End(S) ==
    /\ \A s \in S : life[s] = "live"
    /\ life' = [s \in Sids |-> IF s \in S THEN "dead" ELSE life[s]]

Next == (\E s \in Sids : Open(s)) \/ (\E S \in SUBSET Sids : End(S))

Spec == Init /\ [][Next]_life
=============================================================================
