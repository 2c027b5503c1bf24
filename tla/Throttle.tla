------------------------------ MODULE Throttle ------------------------------
(* The in-memory tables that meter sign-in: LoginLimiter's fixed windows       *)
(* (auth/ratelimit.go), the spent challenges (auth/challenge.go) and the open  *)
(* WebAuthn ceremonies (auth/webauthn.go).  Time is counted in ticks; an entry *)
(* holds the ticks it has left.  An entry past its time and an absent one are  *)
(* told apart by no caller, so the sweeps, bounded at 128 entries a call, are  *)
(* the ageing of the entries here.                                            *)
EXTENDS Naturals, FiniteSets

(* The window of a key that has none (LoginLimiter.attempts without it).       *)
NoWindow == [count |-> 0, left |-> 0]

Windows(Keys) == [Keys -> [count : Nat, left : Nat]]

(* LoginLimiter.Allow: it reads the budget and spends nothing.                 *)
Allow(windows, key, max) == windows[key].left = 0 \/ windows[key].count < max

(* LoginLimiter.Fail: the window is fixed, so only its first failure dates it. *)
Fail(windows, key, dur) ==
    [windows EXCEPT ![key] = IF @.left = 0 THEN [count |-> 1, left |-> dur]
                                           ELSE [count |-> @.count + 1, left |-> @.left]]

FailBoth(windows, key1, key2, dur) == Fail(Fail(windows, key1, dur), key2, dur)

(* LoginLimiter.Reset.                                                         *)
Reset(windows, key) == [windows EXCEPT ![key] = NoWindow]

(* One tick for every window: what time.Now().After(w.reset) will say.         *)
AgeWindows(windows) ==
    [k \in DOMAIN windows |->
        IF windows[k].left <= 1 THEN NoWindow ELSE [windows[k] EXCEPT !.left = @ - 1]]

(* One tick for a table of entries that only expire.                           *)
AgeTable(table) ==
    [x \in {y \in DOMAIN table : table[y] > 1} |-> table[x] - 1]

With(table, x, left) == [y \in DOMAIN table \cup {x} |-> IF y = x THEN left ELSE table[y]]

Without(table, x) == [y \in DOMAIN table \ {x} |-> table[y]]

(* spend that only records the challenge.                                      *)
UnspentAlways(spent, challenge) == TRUE

(* usedChallenges.spend, the answer: a challenge already spent and not expired *)
(* is refused.  The entry lives as long as the challenge it names.             *)
Unspent(spent, challenge) == challenge \notin DOMAIN spent

(* ceremonies.put, the answer: replacing a key is always allowed.              *)
HasRoom(open, key, limit) == key \in DOMAIN open \/ Cardinality(DOMAIN open) < limit
=============================================================================
