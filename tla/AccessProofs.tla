---------------------------- MODULE AccessProofs ----------------------------
(***************************************************************************)
(* What the ways in keep true for every number of requests, challenges,    *)
(* restarts and factors.  First signing in (SignIn): a code and a          *)
(* challenge are good for one attempt, a password change ends the older    *)
(* sessions, and the limiter's budget holds however requests interleave.   *)
(* Then the starts (StartUp): wherever one is cut short, no factor is      *)
(* lost, no code good twice and no later start blocked.  Then the second   *)
(* factors (Enrolment): a secret becomes one factor, and an account that   *)
(* has one keeps one.  Then the accounts (Accounts): an admin remains      *)
(* unless requests overlapped, and what the gate lets through is the union *)
(* of an account's grants.  Last, that the behaviours of MCAccess are      *)
(* behaviours of all four.                                                 *)
(***************************************************************************)
EXTENDS MCAccess, Sequences, FiniteSetTheorems, WellFoundedInduction, TLAPS

-----------------------------------------------------------------------------
(* Signing in.  An instance has its own copy of the operators of           *)
(* FiniteSets, and it is about the same sets.                              *)
LEMMA SizesAgree ==
    \A X : S!IsFiniteSet(X) = IsFiniteSet(X) /\ S!Cardinality(X) = Cardinality(X)
<1>1. \A X : S!IsFiniteSet(X) = IsFiniteSet(X)
  BY DEF S!IsFiniteSet, IsFiniteSet
<1>2. \A X : S!Cardinality(X) = Cardinality(X)
  BY <1>1 DEF S!Cardinality, Cardinality
<1> QED
  BY <1>1, <1>2

(* The requests that may still charge a key, by where they stand.            *)
SecondFactorPcs == {"spend", "code", "assertion", "burn"}
KeyPcs(k) ==
    IF k = "ip" THEN SecondFactorPcs \cup {"password"} ELSE IF k = "mfa" THEN SecondFactorPcs ELSE {"stepup"}
PassPcs(k) == IF k = "ip" THEN {"finish"} ELSE {"begin"}
At(pcs) == {r \in Requests : req[r].pc \in pcs}
WindowOK(w) == w.left = 0 => w.count = 0
Window == [count : Nat, left : Nat]
Spare == Budget + Cardinality(Requests) - 1
BudgetInv ==
    /\ \A k \in S!Keys : WindowOK(limiter[k]) /\ limiter[k].count + Cardinality(At(KeyPcs(k))) <= Spare
    /\ \A k \in S!PasskeyKeys : WindowOK(passkeys[k]) /\ passkeys[k].count + Cardinality(At(PassPcs(k))) <= Spare

(* A password change under way has moved the password and not yet the epoch. *)
Changing == {"drop", "bump"}
EpochInv ==
    /\ gen = [begun |-> gen.begun, done |-> gen.done] /\ account.epoch = gen.done
    /\ account.epoch + Cardinality(At(Changing)) <= account.pw
    /\ \A i \in DOMAIN issued : issued[i].gen = issued[i].epoch

(* A code that has signed in, or is about to, is not above the watermark.    *)
ByCode(x) == x.by[1] = "code"
CodeInv ==
    /\ \A i \in DOMAIN issued : ByCode(issued[i]) => issued[i].by[2] \in 0 .. account.last
    /\ \A r \in Requests : req[r].pc = "issue" /\ ByCode(req[r]) => req[r].by[2] \in 0 .. account.last
    /\ \A i \in DOMAIN issued, r \in Requests :
          req[r].pc = "issue" /\ ByCode(req[r]) => req[r].by # issued[i].by
    /\ \A r, q \in Requests :
          req[r].pc = "issue" /\ req[q].pc = "issue" /\ ByCode(req[r]) /\ req[r].by = req[q].by => r = q
    /\ S!CodeSignsInOnce

(* A challenge that has bought an attempt is in the table of spent ones as   *)
(* long as it lives.                                                         *)
TriesInv ==
    /\ tries \in [S!Ids -> Nat]
    /\ \A c \in DOMAIN challenges : challenges[c] \in Nat /\ c < nextId
    /\ \A c \in DOMAIN spent : spent[c] \in Nat
    /\ \A c \in S!Ids : tries[c] > 0 => c < nextId
    /\ \A c \in DOMAIN challenges : tries[c] > 0 => c \in DOMAIN spent /\ spent[c] >= challenges[c]
    /\ S!ChallengeBuysOneAttempt

RequestOK(x) ==
    /\ x.pc \in {"spend", "code", "assertion"} =>
         /\ x = [pc |-> x.pc, c |-> x.c, proof |-> x.proof] /\ x.c \in S!Ids /\ x.c < nextId
         /\ x.proof.kind = "code" => x.proof.value \in 1 .. MaxStep
         /\ x.proof.kind # "code" => x.proof.value \in 1 .. MaxSig
         /\ x.pc = "code" <=> x.pc # "spend" /\ x.proof.kind = "code"
    /\ x.pc = "burn" => x.code \in 1 .. MaxStep /\ x.gen = x.epoch
    /\ x.pc = "credential" => x.sig \in 1 .. MaxSig /\ x.gen = x.epoch /\ x.by \in {"passkey", "passwordless"}
    /\ x.pc = "finish" => x.sig \in 1 .. MaxSig
    /\ x.pc = "stepup" => x.then \in {"switch", "update"}
    /\ x.pc \in {"update", "drop", "bump"} => x = [pc |-> x.pc, own |-> x.own]
    /\ x.pc = "issue" => x.gen = x.epoch

RequestsInv ==
    /\ req = [r \in Requests |-> req[r]]
    /\ \A r \in Requests : RequestOK(req[r])
    /\ \A i \in DOMAIN issued : i < nextId

SignInv == S!BoundsOK /\ S!TypeOK /\ RequestsInv /\ BudgetInv /\ EpochInv /\ CodeInv /\ TriesInv

LEMMA Sizes ==
    ASSUME S!BoundsOK, NEW pcs
    PROVE  /\ IsFiniteSet(At(pcs)) /\ Cardinality(At(pcs)) \in Nat
           /\ Cardinality(Requests) \in Nat /\ Cardinality(At(pcs)) <= Cardinality(Requests)
<1>1. At(pcs) \subseteq Requests /\ IsFiniteSet(Requests)
  BY SizesAgree DEF At, S!BoundsOK
<1> QED
  BY <1>1, FS_Subset, FS_CardinalityType

(* Where the requests stand after one of them has moved.                     *)
LEMMA Moves ==
    ASSUME SignInv, NEW r \in Requests, NEW to, S!Goto(r, to)
    PROVE  /\ req' = [q \in Requests |-> req'[q]]
           /\ \A q \in Requests : req'[q] = IF q = r THEN to ELSE req[q]
           /\ \A pcs : At(pcs)' = IF to.pc \in pcs THEN At(pcs) \cup {r} ELSE At(pcs) \ {r}
<1>1. req = [q \in Requests |-> req[q]]
  BY DEF SignInv, RequestsInv
<1>2. req' = [q \in Requests |-> IF q = r THEN to ELSE req[q]]
  BY <1>1 DEF S!Goto
<1>3. \A q \in Requests : req'[q] = IF q = r THEN to ELSE req[q]
  BY <1>2
<1>4. req' = [q \in Requests |-> req'[q]]
  BY <1>2
<1> QED
  BY <1>3, <1>4 DEF At

LEMMA SizeMoves ==
    ASSUME SignInv, NEW r \in Requests, NEW to, S!Goto(r, to), NEW pcs
    PROVE  /\ Cardinality(At(pcs)') \in Nat /\ Cardinality(At(pcs)') <= Cardinality(Requests)
           /\ to.pc \in pcs /\ req[r].pc \in pcs => Cardinality(At(pcs)') = Cardinality(At(pcs))
           /\ to.pc \notin pcs /\ req[r].pc \notin pcs => Cardinality(At(pcs)') = Cardinality(At(pcs))
           /\ to.pc \in pcs /\ req[r].pc \notin pcs => Cardinality(At(pcs)') = Cardinality(At(pcs)) + 1
           /\ to.pc \notin pcs /\ req[r].pc \in pcs => Cardinality(At(pcs)') = Cardinality(At(pcs)) - 1
           /\ to.pc \notin pcs => Cardinality(At(pcs)') <= Cardinality(Requests) - 1
<1>1. S!BoundsOK /\ IsFiniteSet(Requests)
  BY SizesAgree DEF SignInv, S!BoundsOK
<1>2. At(pcs)' = IF to.pc \in pcs THEN At(pcs) \cup {r} ELSE At(pcs) \ {r}
  BY Moves
<1>3. IsFiniteSet(At(pcs)) /\ Cardinality(At(pcs)) \in Nat /\ Cardinality(Requests) \in Nat /\ At(pcs) \subseteq Requests
  BY <1>1, Sizes DEF At
<1>4. r \in At(pcs) <=> req[r].pc \in pcs
  BY DEF At
<1>5. Cardinality(At(pcs) \cup {r}) = IF r \in At(pcs) THEN Cardinality(At(pcs)) ELSE Cardinality(At(pcs)) + 1
  BY <1>3, FS_AddElement
<1>6. Cardinality(At(pcs) \ {r}) = IF r \in At(pcs) THEN Cardinality(At(pcs)) - 1 ELSE Cardinality(At(pcs))
  BY <1>3, FS_RemoveElement
<1>7. At(pcs)' \subseteq Requests /\ (to.pc \notin pcs => At(pcs)' \subseteq Requests \ {r})
  BY <1>2, <1>3
<1>8. IsFiniteSet(Requests \ {r}) /\ Cardinality(Requests \ {r}) = Cardinality(Requests) - 1
  BY <1>1, FS_RemoveElement
<1>9. IsFiniteSet(At(pcs)') /\ Cardinality(At(pcs)') \in Nat /\ Cardinality(At(pcs)') <= Cardinality(Requests)
  BY <1>1, <1>7, FS_Subset, FS_CardinalityType
<1>10. to.pc \notin pcs => Cardinality(At(pcs)') <= Cardinality(Requests \ {r})
  BY <1>7, <1>8, FS_Subset
<1>11. /\ to.pc \in pcs => Cardinality(At(pcs)') = Cardinality(At(pcs) \cup {r})
       /\ to.pc \notin pcs => Cardinality(At(pcs)') = Cardinality(At(pcs) \ {r})
  BY <1>2
<1> QED
  BY <1>4, <1>5, <1>6, <1>8, <1>9, <1>10, <1>11

(* What a step may do to a window and the requests that may charge it.       *)
Charges(w, v, from, to, pcs) ==
    \/ v = w /\ (to \in pcs => from \in pcs)
    \/ v = w /\ w.count < Budget
    \/ v.count <= w.count + 1 /\ from \in pcs /\ to \notin pcs
    \/ v.count = 0
    \/ v.count <= Budget /\ to \notin pcs

LEMMA WindowCharged ==
    ASSUME SignInv, NEW r \in Requests, NEW to, S!Goto(r, to), NEW pcs, NEW w \in Window, NEW v \in Window,
           w.count + Cardinality(At(pcs)) <= Spare, Charges(w, v, req[r].pc, to.pc, pcs)
    PROVE  v.count + Cardinality(At(pcs)') <= Spare
<1>1. /\ Cardinality(At(pcs)) \in Nat /\ Cardinality(Requests) \in Nat
      /\ Cardinality(At(pcs)) <= Cardinality(Requests)
  BY Sizes DEF SignInv
<1>2. Budget \in Nat \ {0} /\ w.count \in Nat /\ v.count \in Nat
  BY DEF SignInv, S!BoundsOK, Window
<1>3. PICK a, b, n : a = Cardinality(At(pcs)) /\ b = Cardinality(At(pcs)') /\ n = Cardinality(Requests)
  OBVIOUS
<1>4. /\ b \in Nat /\ b <= n
      /\ to.pc \in pcs /\ req[r].pc \in pcs => b = a
      /\ to.pc \notin pcs /\ req[r].pc \notin pcs => b = a
      /\ to.pc \notin pcs /\ req[r].pc \in pcs => b = a - 1
      /\ to.pc \notin pcs => b <= n - 1
  BY <1>3, SizeMoves
<1> QED
  BY <1>1, <1>2, <1>3, <1>4 DEF Charges, Spare

LEMMA AllowMeans ==
    ASSUME SignInv, NEW w \in Window, WindowOK(w), w.left = 0 \/ w.count < Budget
    PROVE  w.count < Budget
  BY DEF SignInv, S!BoundsOK, WindowOK, Window

LEMMA FailIs ==
    ASSUME NEW K, NEW ws \in S!Windows(K), NEW k \in K, WindowTicks \in Nat \ {0}, \A j \in K : WindowOK(ws[j])
    PROVE  LET vs == S!Fail(ws, k, WindowTicks)
           IN  /\ vs \in S!Windows(K) /\ \A j \in K : WindowOK(vs[j])
               /\ vs[k].count = ws[k].count + 1 /\ \A j \in K \ {k} : vs[j] = ws[j]
<1>1. PICK v : v = IF ws[k].left = 0 THEN [count |-> 1, left |-> WindowTicks]
                   ELSE [count |-> ws[k].count + 1, left |-> ws[k].left]
  OBVIOUS
<1>2. ws[k] \in [count : Nat, left : Nat] /\ WindowOK(ws[k])
  BY DEF S!Windows
<1>3. v \in [count : Nat, left : Nat] /\ v.left # 0 /\ v.count = ws[k].count + 1
  <2>1. CASE ws[k].left = 0
    BY <1>1, <1>2, <2>1 DEF WindowOK
  <2>2. CASE ws[k].left # 0
    BY <1>1, <1>2, <2>2
  <2> QED
    BY <2>1, <2>2
<1>4. S!Fail(ws, k, WindowTicks) = [ws EXCEPT ![k] = v]
  BY <1>1 DEF S!Fail
<1>5. /\ [ws EXCEPT ![k] = v] \in S!Windows(K)
      /\ \A j \in K : [ws EXCEPT ![k] = v][j] = IF j = k THEN v ELSE ws[j]
  BY <1>3 DEF S!Windows
<1> QED
  BY <1>3, <1>4, <1>5 DEF WindowOK

LEMMA ResetIs ==
    ASSUME NEW K, NEW ws \in S!Windows(K), NEW k \in K, \A j \in K : WindowOK(ws[j])
    PROVE  LET vs == S!Reset(ws, k)
           IN  /\ vs \in S!Windows(K) /\ \A j \in K : WindowOK(vs[j])
               /\ vs[k].count = 0 /\ \A j \in K \ {k} : vs[j] = ws[j]
<1>1. /\ S!Reset(ws, k) \in S!Windows(K)
      /\ \A j \in K : S!Reset(ws, k)[j] = IF j = k THEN [count |-> 0, left |-> 0] ELSE ws[j]
  BY DEF S!Windows, S!Reset, S!NoWindow
<1> QED
  BY <1>1 DEF WindowOK

LEMMA AgeIs ==
    ASSUME NEW K, NEW ws \in S!Windows(K), \A j \in K : WindowOK(ws[j])
    PROVE  LET vs == S!AgeWindows(ws)
           IN  vs \in S!Windows(K) /\ \A j \in K : WindowOK(vs[j]) /\ vs[j].count <= ws[j].count
<1>1. DOMAIN ws = K /\ \A j \in K : ws[j] \in [count : Nat, left : Nat]
  BY DEF S!Windows
<1>2. S!AgeWindows(ws) = [j \in K |-> IF ws[j].left <= 1 THEN S!NoWindow ELSE [ws[j] EXCEPT !.left = ws[j].left - 1]]
  BY <1>1 DEF S!AgeWindows
<1>3. ASSUME NEW j \in K
      PROVE  LET v == IF ws[j].left <= 1 THEN S!NoWindow ELSE [ws[j] EXCEPT !.left = ws[j].left - 1]
             IN  v \in [count : Nat, left : Nat] /\ WindowOK(v) /\ v.count <= ws[j].count
  <2>1. ws[j].count \in Nat /\ ws[j].left \in Nat
    BY <1>1
  <2>2. CASE ws[j].left <= 1
    BY <2>1, <2>2 DEF S!NoWindow, WindowOK
  <2>3. CASE ~(ws[j].left <= 1)
    BY <1>1, <2>1, <2>3 DEF WindowOK
  <2> QED
    BY <2>2, <2>3
<1> QED
  BY <1>2, <1>3 DEF S!Windows

WindowsFit ==
    /\ limiter \in S!Windows(S!Keys) /\ \A k \in S!Keys : WindowOK(limiter[k])
    /\ passkeys \in S!Windows(S!PasskeyKeys) /\ \A k \in S!PasskeyKeys : WindowOK(passkeys[k])

LEMMA WindowsAre ==
    ASSUME SignInv
    PROVE  /\ WindowsFit /\ (\A k \in S!Keys : limiter[k] \in Window)
           /\ \A k \in S!PasskeyKeys : passkeys[k] \in Window
           /\ WindowTicks \in Nat \ {0} /\ Budget \in Nat \ {0}
  BY DEF SignInv, S!BoundsOK, S!TypeOK, BudgetInv, WindowsFit, S!Windows, Window

LEMMA BudgetMoves ==
    ASSUME SignInv, NEW r \in Requests, NEW to, S!Goto(r, to), WindowsFit',
           \A k \in S!Keys : Charges(limiter[k], limiter'[k], req[r].pc, to.pc, KeyPcs(k)),
           \A k \in S!PasskeyKeys : Charges(passkeys[k], passkeys'[k], req[r].pc, to.pc, PassPcs(k))
    PROVE  BudgetInv'
<1>1. ASSUME NEW k \in S!Keys PROVE limiter'[k].count + Cardinality(At(KeyPcs(k))') <= Spare
  <2>1. PICK w, v, pcs : w = limiter[k] /\ v = limiter'[k] /\ pcs = KeyPcs(k)
    OBVIOUS
  <2>2. w \in Window /\ v \in Window
    BY <2>1, WindowsAre DEF WindowsFit, S!Windows, Window
  <2>3. w.count + Cardinality(At(pcs)) <= Spare
    BY <2>1 DEF SignInv, BudgetInv
  <2>4. Charges(w, v, req[r].pc, to.pc, pcs)
    BY <2>1
  <2>5. v.count + Cardinality(At(pcs)') <= Spare
    BY <2>2, <2>3, <2>4, WindowCharged
  <2> QED
    BY <2>1, <2>5
<1>2. ASSUME NEW k \in S!PasskeyKeys PROVE passkeys'[k].count + Cardinality(At(PassPcs(k))') <= Spare
  <2>1. PICK w, v, pcs : w = passkeys[k] /\ v = passkeys'[k] /\ pcs = PassPcs(k)
    OBVIOUS
  <2>2. w \in Window /\ v \in Window
    BY <2>1, WindowsAre DEF WindowsFit, S!Windows, Window
  <2>3. w.count + Cardinality(At(pcs)) <= Spare
    BY <2>1 DEF SignInv, BudgetInv
  <2>4. Charges(w, v, req[r].pc, to.pc, pcs)
    BY <2>1
  <2>5. v.count + Cardinality(At(pcs)') <= Spare
    BY <2>2, <2>3, <2>4, WindowCharged
  <2> QED
    BY <2>1, <2>5
<1> QED
  BY <1>1, <1>2 DEF BudgetInv, WindowsFit

LEMMA RequestsMove ==
    ASSUME SignInv, NEW r \in Requests, NEW to, S!Goto(r, to), RequestOK(to), nextId' \in Int, nextId' >= nextId,
           \A i \in DOMAIN issued' : i < nextId'
    PROVE  RequestsInv'
<1>1. req' = [q \in Requests |-> req'[q]] /\ \A q \in Requests : req'[q] = IF q = r THEN to ELSE req[q]
  BY Moves
<1>2. nextId \in Int
  BY DEF SignInv, S!BoundsOK, S!TypeOK
<1>3. ASSUME NEW q \in Requests PROVE RequestOK(req[q])'
  <2>1. PICK x : x = req'[q]
    OBVIOUS
  <2>2. RequestOK(x)
    BY <1>1, <2>1 DEF SignInv, RequestsInv
  <2>3. x.c \in S!Ids /\ x.c < nextId => x.c < nextId'
    BY <1>2 DEF SignInv, S!BoundsOK, S!Ids
  <2> QED
    BY <2>1, <2>2, <2>3 DEF RequestOK, S!Ids
<1> QED
  BY <1>1, <1>3 DEF RequestsInv

AccountType == [pw : 0 .. MaxPw, epoch : 0 .. MaxPw, last : 0 .. MaxStep, sign : 0 .. MaxSig, passwordless : BOOLEAN]

LEMMA EpochKept ==
    ASSUME SignInv, NEW r \in Requests, NEW to, S!Goto(r, to), to.pc \in Changing => req[r].pc \in Changing,
           account'.epoch = account.epoch, account'.pw = account.pw, gen' = gen,
           \A i \in DOMAIN issued' : issued'[i].gen = issued'[i].epoch
    PROVE  EpochInv'
<1>1. /\ Cardinality(At(Changing)) \in Nat /\ Cardinality(At(Changing)') \in Nat
      /\ Cardinality(At(Changing)') <= Cardinality(At(Changing))
  <2>1. PICK pcs : pcs = Changing
    OBVIOUS
  <2>2. Cardinality(At(pcs)) \in Nat
    BY Sizes DEF SignInv
  <2>3. Cardinality(At(pcs)') \in Nat /\ Cardinality(At(pcs)') <= Cardinality(At(pcs))
    BY <2>1, <2>2, SizeMoves
  <2> QED
    BY <2>1, <2>2, <2>3
<1>2. account.epoch \in Nat /\ account.pw \in Nat
  BY DEF SignInv, S!TypeOK, S!BoundsOK
<1> QED
  BY <1>1, <1>2 DEF SignInv, EpochInv

LEMMA CodeKept ==
    ASSUME SignInv, NEW r \in Requests, NEW to, S!Goto(r, to), to.pc = "issue" => ~ByCode(to),
           UNCHANGED issued, account'.last = account.last
    PROVE  CodeInv'
<1>1. \A q \in Requests : req'[q].pc = "issue" /\ ByCode(req'[q]) => q # r /\ req'[q] = req[q]
  BY Moves
<1>2. /\ \A i \in DOMAIN issued : ByCode(issued[i]) => issued[i].by[2] \in 0 .. account.last
      /\ \A q \in Requests : req[q].pc = "issue" /\ ByCode(req[q]) => req[q].by[2] \in 0 .. account.last
      /\ S!CodeSignsInOnce
  BY DEF SignInv, CodeInv
<1>3. /\ \A i \in DOMAIN issued, q \in Requests : req[q].pc = "issue" /\ ByCode(req[q]) => req[q].by # issued[i].by
      /\ \A p, q \in Requests :
            req[p].pc = "issue" /\ req[q].pc = "issue" /\ ByCode(req[p]) /\ req[p].by = req[q].by => p = q
  BY DEF SignInv, CodeInv
<1>4. \A p, q \in Requests :
         req'[p].pc = "issue" /\ req'[q].pc = "issue" /\ ByCode(req'[p]) /\ req'[p].by = req'[q].by => p = q
  BY <1>1, <1>3 DEF ByCode
<1>5. S!CodeSignsInOnce'
  BY <1>2 DEF S!CodeSignsInOnce
<1>6. \A q \in Requests : req'[q].pc = "issue" /\ ByCode(req'[q]) => req'[q].by[2] \in 0 .. account'.last
  BY <1>1, <1>2
<1>7. \A i \in DOMAIN issued', q \in Requests :
         req'[q].pc = "issue" /\ ByCode(req'[q]) => req'[q].by # issued'[i].by
  BY <1>1, <1>3
<1>8. \A i \in DOMAIN issued' : ByCode(issued'[i]) => issued'[i].by[2] \in 0 .. account'.last
  BY <1>2
<1> QED
  BY <1>4, <1>5, <1>6, <1>7, <1>8 DEF CodeInv, ByCode

LEMMA TriesKept ==
    ASSUME SignInv, UNCHANGED <<challenges, spent, tries>>, nextId' \in Nat, nextId' >= nextId
    PROVE  TriesInv'
<1>1. \A c \in S!Ids : c < nextId => c < nextId'
  BY DEF S!Ids, SignInv, S!TypeOK, S!BoundsOK
<1>2. DOMAIN challenges \subseteq S!Ids
  BY DEF SignInv, S!TypeOK
<1> QED
  BY <1>1, <1>2 DEF SignInv, TriesInv, S!ChallengeBuysOneAttempt

(* A step of one request that neither changes the password nor signs in with *)
(* a code nor touches the challenges.                                        *)
LEMMA RequestMoves ==
    ASSUME SignInv, NEW r \in Requests, NEW to, S!Goto(r, to), RequestOK(to),
           account' \in AccountType, account'.pw = account.pw, account'.epoch = account.epoch,
           account'.last = account.last, sessions' \subseteq sessions,
           nextId' \in 1 .. MaxIds + 1, nextId' >= nextId,
           UNCHANGED <<issued, challenges, spent, step, device, gen, tries, restarts>>,
           WindowsFit',
           \A k \in S!Keys : Charges(limiter[k], limiter'[k], req[r].pc, to.pc, KeyPcs(k)),
           \A k \in S!PasskeyKeys : Charges(passkeys[k], passkeys'[k], req[r].pc, to.pc, PassPcs(k)),
           to.pc \in Changing => req[r].pc \in Changing, to.pc = "issue" => ~ByCode(to)
    PROVE  SignInv'
<1>1. req' = [q \in Requests |-> req'[q]] /\ \A q \in Requests : req'[q] = IF q = r THEN to ELSE req[q]
  BY Moves
<1>2. nextId \in Nat /\ nextId' \in Nat /\ MaxIds \in Nat
  BY DEF SignInv, S!BoundsOK, S!TypeOK
<1>3. S!TypeOK'
  BY DEF SignInv, S!TypeOK, WindowsFit, AccountType
<1>4. \A i \in DOMAIN issued' : i < nextId'
  <2>1. \A i \in DOMAIN issued : i \in Nat /\ i < nextId
    BY <1>2 DEF SignInv, RequestsInv, S!TypeOK, S!Ids
  <2> QED
    BY <1>2, <2>1
<1>5. RequestsInv'
  BY <1>2, <1>4, RequestsMove
<1>6. BudgetInv'
  BY BudgetMoves
<1>7. EpochInv'
  BY EpochKept DEF SignInv, EpochInv
<1>8. CodeInv' /\ TriesInv'
  BY <1>2, CodeKept, TriesKept
<1> QED
  BY <1>3, <1>5, <1>6, <1>7, <1>8 DEF SignInv, S!BoundsOK

LimiterStep(from, to) ==
    /\ limiter' \in S!Windows(S!Keys)
    /\ \A k \in S!Keys : WindowOK(limiter'[k]) /\ Charges(limiter[k], limiter'[k], from, to, KeyPcs(k))
PasskeyStep(from, to) ==
    /\ passkeys' \in S!Windows(S!PasskeyKeys)
    /\ \A k \in S!PasskeyKeys : WindowOK(passkeys'[k]) /\ Charges(passkeys[k], passkeys'[k], from, to, PassPcs(k))

(* The step as most of them are: the row, the ids and the history stand.     *)
LEMMA RequestGoes ==
    ASSUME SignInv, NEW r \in Requests, NEW to, S!Goto(r, to), RequestOK(to),
           UNCHANGED <<account, sessions, nextId, issued, challenges, spent, step, device, gen, tries, restarts>>,
           LimiterStep(req[r].pc, to.pc), PasskeyStep(req[r].pc, to.pc),
           to.pc \in Changing => req[r].pc \in Changing, to.pc = "issue" => ~ByCode(to)
    PROVE  SignInv'
<1>1. account' \in AccountType /\ account' = account /\ nextId' \in 1 .. MaxIds + 1 /\ nextId' >= nextId
  BY DEF SignInv, S!TypeOK, AccountType, S!BoundsOK
<1>2. WindowsFit'
  BY DEF WindowsFit, LimiterStep, PasskeyStep
<1>3. /\ \A k \in S!Keys : Charges(limiter[k], limiter'[k], req[r].pc, to.pc, KeyPcs(k))
      /\ \A k \in S!PasskeyKeys : Charges(passkeys[k], passkeys'[k], req[r].pc, to.pc, PassPcs(k))
  BY DEF LimiterStep, PasskeyStep
<1> QED
  BY <1>1, <1>2, <1>3, RequestMoves

LEMMA LimiterStays ==
    ASSUME SignInv, UNCHANGED limiter, NEW from, NEW to,
           \A k \in S!Keys : to \in KeyPcs(k) => from \in KeyPcs(k) \/ S!Allow(limiter, k, Budget)
    PROVE  LimiterStep(from, to)
<1>1. ASSUME NEW k \in S!Keys PROVE Charges(limiter[k], limiter'[k], from, to, KeyPcs(k))
  <2>1. CASE to \in KeyPcs(k) => from \in KeyPcs(k)
    BY <2>1 DEF Charges
  <2>2. CASE S!Allow(limiter, k, Budget)
    <3>1. limiter[k] \in Window /\ WindowOK(limiter[k])
      BY WindowsAre DEF WindowsFit
    <3>2. limiter[k].count < Budget
      BY <2>2, <3>1, AllowMeans DEF S!Allow
    <3> QED
      BY <3>2 DEF Charges
  <2> QED
    BY <2>1, <2>2
<1> QED
  BY <1>1, WindowsAre DEF LimiterStep, WindowsFit

LEMMA PasskeysStay ==
    ASSUME SignInv, UNCHANGED passkeys, NEW from, NEW to,
           \A k \in S!PasskeyKeys : to \in PassPcs(k) => from \in PassPcs(k) \/ S!Allow(passkeys, k, Budget)
    PROVE  PasskeyStep(from, to)
<1>1. ASSUME NEW k \in S!PasskeyKeys PROVE Charges(passkeys[k], passkeys'[k], from, to, PassPcs(k))
  <2>1. CASE to \in PassPcs(k) => from \in PassPcs(k)
    BY <2>1 DEF Charges
  <2>2. CASE S!Allow(passkeys, k, Budget)
    <3>1. passkeys[k] \in Window /\ WindowOK(passkeys[k])
      BY WindowsAre DEF WindowsFit
    <3>2. passkeys[k].count < Budget
      BY <2>2, <3>1, AllowMeans DEF S!Allow
    <3> QED
      BY <3>2 DEF Charges
  <2> QED
    BY <2>1, <2>2
<1> QED
  BY <1>1, WindowsAre DEF PasskeyStep, WindowsFit

LEMMA LimiterFails ==
    ASSUME SignInv, NEW k \in S!Keys, NEW from \in KeyPcs(k), NEW to, \A j \in S!Keys : to \notin KeyPcs(j),
           limiter' = S!Fail(limiter, k, WindowTicks)
    PROVE  LimiterStep(from, to)
<1>1. /\ limiter' \in S!Windows(S!Keys) /\ \A j \in S!Keys : WindowOK(limiter'[j])
      /\ limiter'[k].count = limiter[k].count + 1 /\ \A j \in S!Keys \ {k} : limiter'[j] = limiter[j]
  BY WindowsAre, FailIs DEF WindowsFit
<1>2. limiter'[k].count <= limiter[k].count + 1
  BY <1>1, WindowsAre DEF Window
<1> QED
  BY <1>1, <1>2 DEF LimiterStep, Charges

LEMMA LimiterFailsBoth ==
    ASSUME SignInv, NEW from \in SecondFactorPcs, NEW to, \A j \in S!Keys : to \notin KeyPcs(j),
           limiter' = S!FailBoth(limiter, "ip", "mfa", WindowTicks)
    PROVE  LimiterStep(from, to)
<1>1. PICK ws : ws = S!Fail(limiter, "ip", WindowTicks)
  OBVIOUS
<1>2. /\ ws \in S!Windows(S!Keys) /\ \A j \in S!Keys : WindowOK(ws[j])
      /\ ws["ip"].count = limiter["ip"].count + 1 /\ \A j \in S!Keys \ {"ip"} : ws[j] = limiter[j]
  BY <1>1, WindowsAre, FailIs DEF WindowsFit, S!Keys
<1>3. limiter' = S!Fail(ws, "mfa", WindowTicks)
  BY <1>1 DEF S!FailBoth
<1>4. /\ limiter' \in S!Windows(S!Keys) /\ \A j \in S!Keys : WindowOK(limiter'[j])
      /\ limiter'["mfa"].count = ws["mfa"].count + 1 /\ \A j \in S!Keys \ {"mfa"} : limiter'[j] = ws[j]
  BY <1>2, <1>3, WindowsAre, FailIs DEF S!Keys
<1>5. /\ limiter'["ip"].count <= limiter["ip"].count + 1 /\ limiter'["mfa"].count <= limiter["mfa"].count + 1
      /\ limiter'["stepup"] = limiter["stepup"]
  BY <1>2, <1>4, WindowsAre DEF S!Keys, Window
<1>6. from \in KeyPcs("ip") /\ from \in KeyPcs("mfa")
  BY DEF KeyPcs
<1> QED
  BY <1>4, <1>5, <1>6 DEF LimiterStep, Charges, S!Keys

LEMMA LimiterResets ==
    ASSUME SignInv, NEW k \in S!Keys, NEW from, NEW to, \A j \in S!Keys : to \notin KeyPcs(j),
           limiter' = S!Reset(limiter, k)
    PROVE  LimiterStep(from, to)
<1>1. /\ limiter' \in S!Windows(S!Keys) /\ \A j \in S!Keys : WindowOK(limiter'[j])
      /\ limiter'[k].count = 0 /\ \A j \in S!Keys \ {k} : limiter'[j] = limiter[j]
  BY WindowsAre, ResetIs DEF WindowsFit
<1> QED
  BY <1>1 DEF LimiterStep, Charges

LEMMA LimiterResetsBoth ==
    ASSUME SignInv, NEW from, NEW to, \A j \in S!Keys : to \notin KeyPcs(j),
           limiter' = S!Reset(S!Reset(limiter, "ip"), "mfa")
    PROVE  LimiterStep(from, to)
<1>1. PICK ws : ws = S!Reset(limiter, "ip")
  OBVIOUS
<1>2. /\ ws \in S!Windows(S!Keys) /\ \A j \in S!Keys : WindowOK(ws[j])
      /\ ws["ip"].count = 0 /\ \A j \in S!Keys \ {"ip"} : ws[j] = limiter[j]
  BY <1>1, WindowsAre, ResetIs DEF WindowsFit, S!Keys
<1>3. limiter' = S!Reset(ws, "mfa")
  BY <1>1
<1>4. /\ limiter' \in S!Windows(S!Keys) /\ \A j \in S!Keys : WindowOK(limiter'[j])
      /\ limiter'["mfa"].count = 0 /\ \A j \in S!Keys \ {"mfa"} : limiter'[j] = ws[j]
  BY <1>2, <1>3, ResetIs DEF S!Keys
<1>5. limiter'["ip"].count = 0 /\ limiter'["mfa"].count = 0 /\ limiter'["stepup"] = limiter["stepup"]
  BY <1>2, <1>4 DEF S!Keys
<1> QED
  BY <1>4, <1>5 DEF LimiterStep, Charges, S!Keys

LEMMA PasskeyFails ==
    ASSUME SignInv, NEW k \in S!PasskeyKeys, NEW from \in PassPcs(k), NEW to, \A j \in S!PasskeyKeys : to \notin PassPcs(j),
           passkeys' = S!Fail(passkeys, k, WindowTicks)
    PROVE  PasskeyStep(from, to)
<1>1. /\ passkeys' \in S!Windows(S!PasskeyKeys) /\ \A j \in S!PasskeyKeys : WindowOK(passkeys'[j])
      /\ passkeys'[k].count = passkeys[k].count + 1 /\ \A j \in S!PasskeyKeys \ {k} : passkeys'[j] = passkeys[j]
  BY WindowsAre, FailIs DEF WindowsFit
<1>2. passkeys'[k].count <= passkeys[k].count + 1
  BY <1>1, WindowsAre DEF Window
<1> QED
  BY <1>1, <1>2 DEF PasskeyStep, Charges

LEMMA PasskeyResets ==
    ASSUME SignInv, NEW k \in S!PasskeyKeys, NEW from, NEW to, \A j \in S!PasskeyKeys : to \notin PassPcs(j),
           passkeys' = S!Reset(passkeys, k)
    PROVE  PasskeyStep(from, to)
<1>1. /\ passkeys' \in S!Windows(S!PasskeyKeys) /\ \A j \in S!PasskeyKeys : WindowOK(passkeys'[j])
      /\ passkeys'[k].count = 0 /\ \A j \in S!PasskeyKeys \ {k} : passkeys'[j] = passkeys[j]
  BY WindowsAre, ResetIs DEF WindowsFit
<1> QED
  BY <1>1 DEF PasskeyStep, Charges

(* Where no budget is held.                                                  *)
Free(pc) == (\A j \in S!Keys : pc \notin KeyPcs(j)) /\ \A j \in S!PasskeyKeys : pc \notin PassPcs(j)
LEMMA FreePcs ==
    /\ \A pc \in {"idle", "issue", "credential", "switch", "update", "drop", "bump", "reload", "revoke"} : Free(pc)
    /\ \A pc \in SecondFactorPcs \cup {"password", "stepup"} : \A j \in S!PasskeyKeys : pc \notin PassPcs(j)
    /\ \A pc \in {"begin", "finish"} : \A j \in S!Keys : pc \notin KeyPcs(j)
  BY DEF Free, KeyPcs, PassPcs, SecondFactorPcs

LEMMA LoginKeeps ==
    ASSUME SignInv, NEW r \in Requests, NEW pw, NEW exempt,
           S!LoginAllowed(r, pw, exempt) \/ S!LoginWrong(r) \/ S!LoginRight(r)
    PROVE  SignInv'
<1>1. UNCHANGED <<account, sessions, nextId, issued, challenges, spent, step, device, gen, tries, restarts>> /\ UNCHANGED passkeys
  BY DEF S!LoginAllowed, S!LoginWrong, S!LoginRight, S!tables, S!history
<1>2. CASE S!LoginAllowed(r, pw, exempt)
  <2>1. PICK to : to = [pc |-> "password", pw |-> pw, exempt |-> exempt]
    OBVIOUS
  <2>2. S!Goto(r, to) /\ to.pc = "password" /\ RequestOK(to)
    BY <1>2, <2>1 DEF S!LoginAllowed, RequestOK
  <2>3. LimiterStep(req[r].pc, to.pc)
    BY <1>2, <2>2, LimiterStays DEF S!LoginAllowed, S!tables, KeyPcs, SecondFactorPcs
  <2>4. PasskeyStep(req[r].pc, to.pc)
    BY <1>1, <2>2, PasskeysStay, FreePcs
  <2> QED
    BY <1>1, <2>2, <2>3, <2>4, RequestGoes DEF Changing
<1>3. CASE S!LoginWrong(r)
  <2>1. S!Goto(r, S!Idle) /\ S!Idle.pc = "idle" /\ RequestOK(S!Idle) /\ req[r].pc = "password"
    BY <1>3 DEF S!LoginWrong, S!Answer, S!Idle, RequestOK, S!AtPc
  <2>2. LimiterStep(req[r].pc, S!Idle.pc)
    <3>1. "ip" \in S!Keys /\ req[r].pc \in KeyPcs("ip")
      BY <2>1 DEF S!Keys, KeyPcs
    <3> QED
      BY <1>3, <2>1, <3>1, LimiterFails, FreePcs DEF S!LoginWrong, Free
  <2>3. PasskeyStep(req[r].pc, S!Idle.pc)
    BY <1>1, <2>1, PasskeysStay, FreePcs DEF Free
  <2> QED
    BY <1>1, <2>1, <2>2, <2>3, RequestGoes DEF Changing
<1>4. CASE S!LoginRight(r)
  <2>1. PICK to : to = [pc |-> "issue", epoch |-> account.epoch, gen |-> gen.done, by |-> <<"password", nextId>>]
    OBVIOUS
  <2>2. S!Goto(r, to) /\ to.pc = "issue" /\ to.by[1] # "code"
    BY <1>4, <2>1 DEF S!LoginRight, S!ToIssue
  <2>3. RequestOK(to)
    BY <2>1 DEF RequestOK, SignInv, EpochInv
  <2>4. LimiterStep(req[r].pc, to.pc)
    BY <1>4, <2>2, LimiterResets, FreePcs DEF S!LoginRight, Free, S!Keys
  <2>5. PasskeyStep(req[r].pc, to.pc)
    BY <1>1, <2>2, PasskeysStay, FreePcs DEF Free
  <2> QED
    BY <1>1, <2>2, <2>3, <2>4, <2>5, RequestGoes DEF Changing, ByCode
<1> QED
  BY <1>2, <1>3, <1>4

LEMMA SecondFactorKeeps ==
    ASSUME SignInv, NEW r \in Requests, NEW c, NEW proof, S!SecondFactorAllowed(r, c, proof),
           proof.kind = "code" => proof.value \in 1 .. MaxStep,
           proof.kind # "code" => proof.value \in 1 .. MaxSig
    PROVE  SignInv'
<1>1. UNCHANGED <<account, sessions, nextId, issued, challenges, spent, step, device, gen, tries, restarts>> /\ UNCHANGED <<limiter, passkeys>>
  BY DEF S!SecondFactorAllowed, S!tables, S!history
<1>2. PICK to : to = [pc |-> "spend", c |-> c, proof |-> proof]
  OBVIOUS
<1>3. S!Goto(r, to) /\ to.pc = "spend" /\ c \in S!Ids /\ c < nextId
  BY <1>2 DEF S!SecondFactorAllowed, SignInv, S!TypeOK, TriesInv
<1>4. RequestOK(to)
  BY <1>2, <1>3 DEF RequestOK
<1>5. LimiterStep(req[r].pc, to.pc)
  BY <1>1, <1>3, LimiterStays DEF S!SecondFactorAllowed, S!Keys, KeyPcs
<1>6. PasskeyStep(req[r].pc, to.pc)
  BY <1>1, <1>3, PasskeysStay, FreePcs DEF SecondFactorPcs
<1> QED
  BY <1>1, <1>3, <1>4, <1>5, <1>6, RequestGoes DEF Changing

(* The second factor is refused: both budgets pay.                           *)
LEMMA SecondFactorFails ==
    ASSUME SignInv, NEW r \in Requests, req[r].pc \in SecondFactorPcs,
           limiter' = S!FailBoth(limiter, "ip", "mfa", WindowTicks), S!Answer(r),
           UNCHANGED <<account, sessions, nextId, issued, challenges, spent, step, device, gen, tries, restarts>>, UNCHANGED passkeys
    PROVE  SignInv'
<1>1. S!Goto(r, S!Idle) /\ S!Idle.pc = "idle" /\ RequestOK(S!Idle)
  BY DEF S!Answer, S!Idle, RequestOK
<1>2. LimiterStep(req[r].pc, S!Idle.pc)
  BY <1>1, LimiterFailsBoth, FreePcs DEF Free
<1>3. PasskeyStep(req[r].pc, S!Idle.pc)
  BY <1>1, PasskeysStay, FreePcs DEF Free
<1> QED
  BY <1>1, <1>2, <1>3, RequestGoes DEF Changing

LEMMA MatchKeeps ==
    ASSUME SignInv, NEW r \in Requests, S!MatchCode(r)
    PROVE  SignInv'
<1>1. UNCHANGED <<account, sessions, nextId, issued, challenges, spent, step, device, gen, tries, restarts>> /\ UNCHANGED passkeys
  BY DEF S!MatchCode, S!history
<1>2. req[r].pc = "code" /\ req[r].pc \in SecondFactorPcs
  BY DEF S!MatchCode, S!AtPc, SecondFactorPcs
<1>3. CASE limiter' = S!FailBoth(limiter, "ip", "mfa", WindowTicks) /\ S!Answer(r)
  BY <1>1, <1>2, <1>3, SecondFactorFails
<1>4. CASE UNCHANGED limiter /\ S!Goto(r, [pc |-> "burn", code |-> req[r].proof.value, epoch |-> account.epoch, gen |-> gen.done])
  <2>1. PICK to : to = [pc |-> "burn", code |-> req[r].proof.value, epoch |-> account.epoch, gen |-> gen.done]
    OBVIOUS
  <2>2. req[r].proof.value \in 1 .. MaxStep
    BY <1>2 DEF SignInv, RequestsInv, RequestOK
  <2>3. S!Goto(r, to) /\ to.pc = "burn" /\ RequestOK(to)
    BY <1>4, <2>1, <2>2 DEF RequestOK, SignInv, EpochInv
  <2>4. LimiterStep(req[r].pc, to.pc)
    BY <1>2, <1>4, <2>3, LimiterStays DEF KeyPcs, SecondFactorPcs
  <2>5. PasskeyStep(req[r].pc, to.pc)
    BY <1>1, <2>3, PasskeysStay, FreePcs DEF SecondFactorPcs
  <2> QED
    BY <1>1, <2>3, <2>4, <2>5, RequestGoes DEF Changing
<1> QED
  BY <1>3, <1>4 DEF S!MatchCode

LEMMA AssertionKeeps ==
    ASSUME SignInv, NEW r \in Requests, S!TakeAssertion(r)
    PROVE  SignInv'
<1>1. UNCHANGED <<account, sessions, nextId, issued, challenges, spent, step, device, gen, tries, restarts>> /\ UNCHANGED passkeys
  BY DEF S!TakeAssertion, S!history
<1>2. req[r].pc = "assertion" /\ req[r].pc \in SecondFactorPcs
  BY DEF S!TakeAssertion, S!AtPc, SecondFactorPcs
<1>3. CASE limiter' = S!FailBoth(limiter, "ip", "mfa", WindowTicks) /\ S!Answer(r)
  BY <1>1, <1>2, <1>3, SecondFactorFails
<1>4. CASE UNCHANGED limiter /\ S!Goto(r, [pc |-> "credential", sig |-> req[r].proof.value, epoch |-> account.epoch,
                                         gen |-> gen.done, by |-> "passkey"])
  <2>1. PICK to : to = [pc |-> "credential", sig |-> req[r].proof.value, epoch |-> account.epoch,
                        gen |-> gen.done, by |-> "passkey"]
    OBVIOUS
  <2>2. req[r].proof.value \in 1 .. MaxSig
    BY <1>2 DEF SignInv, RequestsInv, RequestOK
  <2>3. S!Goto(r, to) /\ to.pc = "credential" /\ RequestOK(to)
    BY <1>4, <2>1, <2>2 DEF RequestOK, SignInv, EpochInv
  <2>4. LimiterStep(req[r].pc, to.pc)
    BY <1>4, <2>3, LimiterStays, FreePcs DEF Free
  <2>5. PasskeyStep(req[r].pc, to.pc)
    BY <1>1, <2>3, PasskeysStay, FreePcs DEF Free
  <2> QED
    BY <1>1, <2>3, <2>4, <2>5, RequestGoes DEF Changing
<1> QED
  BY <1>3, <1>4 DEF S!TakeAssertion

LEMMA CredentialKeeps ==
    ASSUME SignInv, NEW r \in Requests, S!StoreCredential(r)
    PROVE  SignInv'
<1>1. UNCHANGED <<sessions, nextId, issued, challenges, spent, step, device, gen, tries, restarts>>
  BY DEF S!StoreCredential, S!history
<1>2. /\ req[r].pc = "credential" /\ req[r].sig \in 1 .. MaxSig /\ req[r].gen = req[r].epoch
      /\ req[r].by \in {"passkey", "passwordless"}
  BY DEF S!StoreCredential, S!AtPc, SignInv, RequestsInv, RequestOK
<1>3. PICK to : to = [pc |-> "issue", epoch |-> req[r].epoch, gen |-> req[r].gen, by |-> <<req[r].by, req[r].sig>>]
  OBVIOUS
<1>4. S!Goto(r, to) /\ to.pc = "issue" /\ RequestOK(to) /\ ~ByCode(to)
  BY <1>2, <1>3 DEF S!StoreCredential, S!ToIssue, RequestOK, ByCode
<1>5. /\ account' \in AccountType /\ account'.pw = account.pw /\ account'.epoch = account.epoch
      /\ account'.last = account.last
  <2>1. account \in AccountType /\ req[r].sig \in 0 .. MaxSig
    BY <1>2 DEF SignInv, S!TypeOK, AccountType, S!BoundsOK
  <2> QED
    BY <2>1 DEF S!StoreCredential, AccountType
<1>6. LimiterStep(req[r].pc, to.pc) /\ PasskeyStep(req[r].pc, to.pc)
  <2>1. CASE limiter' = S!Reset(S!Reset(limiter, "ip"), "mfa") /\ UNCHANGED passkeys
    BY <1>4, <2>1, LimiterResetsBoth, PasskeysStay, FreePcs DEF Free
  <2>2. CASE passkeys' = S!Reset(passkeys, "ip") /\ UNCHANGED limiter
    BY <1>4, <2>2, PasskeyResets, LimiterStays, FreePcs DEF Free, S!PasskeyKeys
  <2> QED
    BY <2>1, <2>2 DEF S!StoreCredential
<1>7. WindowsFit'
  BY <1>6 DEF WindowsFit, LimiterStep, PasskeyStep
<1>8. /\ \A k \in S!Keys : Charges(limiter[k], limiter'[k], req[r].pc, to.pc, KeyPcs(k))
      /\ \A k \in S!PasskeyKeys : Charges(passkeys[k], passkeys'[k], req[r].pc, to.pc, PassPcs(k))
  BY <1>6 DEF LimiterStep, PasskeyStep
<1>9. nextId' \in 1 .. MaxIds + 1 /\ nextId' >= nextId /\ sessions' \subseteq sessions
  BY <1>1 DEF SignInv, S!TypeOK, S!BoundsOK
<1> QED
  BY <1>1, <1>4, <1>5, <1>7, <1>8, <1>9, RequestMoves DEF Changing

(* A request goes where it holds no budget, and the limiters stand.          *)
LEMMA FreeGoes ==
    ASSUME SignInv, NEW r \in Requests, NEW to, S!Goto(r, to), RequestOK(to), Free(to.pc),
           account' \in AccountType, account'.pw = account.pw, account'.epoch = account.epoch,
           account'.last = account.last, sessions' \subseteq sessions,
           UNCHANGED <<nextId, issued, challenges, spent, step, device, gen, tries, restarts, limiter, passkeys>>,
           to.pc \in Changing => req[r].pc \in Changing, to.pc = "issue" => ~ByCode(to)
    PROVE  SignInv'
<1>1. LimiterStep(req[r].pc, to.pc) /\ PasskeyStep(req[r].pc, to.pc)
  BY LimiterStays, PasskeysStay DEF Free
<1>2. WindowsFit'
  BY <1>1 DEF WindowsFit, LimiterStep, PasskeyStep
<1>3. /\ \A k \in S!Keys : Charges(limiter[k], limiter'[k], req[r].pc, to.pc, KeyPcs(k))
      /\ \A k \in S!PasskeyKeys : Charges(passkeys[k], passkeys'[k], req[r].pc, to.pc, PassPcs(k))
  BY <1>1 DEF LimiterStep, PasskeyStep
<1>4. nextId' \in 1 .. MaxIds + 1 /\ nextId' >= nextId
  BY DEF SignInv, S!TypeOK, S!BoundsOK
<1> QED
  BY <1>2, <1>3, <1>4, RequestMoves

LEMMA AccountIs == SignInv => account \in AccountType
  BY DEF SignInv, S!TypeOK, AccountType

LEMMA PasswordlessKeeps ==
    ASSUME SignInv, NEW r \in Requests, NEW id, NEW sig,
           \/ S!PasswordlessAllowed(r) \/ S!BeginPasswordless(r)
           \/ sig \in 1 .. MaxSig /\ S!PasswordlessFinishAllowed(r, id, sig)
           \/ S!FinishPasswordless(r)
    PROVE  SignInv'
<1>1. CASE S!PasswordlessAllowed(r)
  <2>1. PICK to : to = [pc |-> "begin"]
    OBVIOUS
  <2>2. UNCHANGED <<account, sessions, nextId, issued, challenges, spent, step, device, gen, tries, restarts>> /\ UNCHANGED <<limiter, passkeys>>
    BY <1>1 DEF S!PasswordlessAllowed, S!tables, S!history
  <2>3. S!Goto(r, to) /\ to.pc = "begin" /\ RequestOK(to)
    BY <1>1, <2>1 DEF S!PasswordlessAllowed, RequestOK
  <2>4. LimiterStep(req[r].pc, to.pc)
    BY <2>2, <2>3, LimiterStays, FreePcs
  <2>5. PasskeyStep(req[r].pc, to.pc)
    BY <1>1, <2>2, <2>3, PasskeysStay DEF S!PasswordlessAllowed, PassPcs, S!PasskeyKeys
  <2> QED
    BY <2>2, <2>3, <2>4, <2>5, RequestGoes DEF Changing
<1>2. CASE S!BeginPasswordless(r)
  <2>1. UNCHANGED <<account, sessions, issued, challenges, spent, step, device, gen, tries, restarts, limiter>>
    BY <1>2 DEF S!BeginPasswordless, S!history
  <2>2. S!Goto(r, S!Idle) /\ S!Idle.pc = "idle" /\ RequestOK(S!Idle) /\ req[r].pc = "begin"
    BY <1>2 DEF S!BeginPasswordless, S!Answer, S!Idle, RequestOK, S!AtPc
  <2>3. LimiterStep(req[r].pc, S!Idle.pc)
    BY <2>1, <2>2, LimiterStays, FreePcs DEF Free
  <2>4. PasskeyStep(req[r].pc, S!Idle.pc)
    <3>1. "begin" \in S!PasskeyKeys /\ req[r].pc \in PassPcs("begin")
      BY <2>2 DEF S!PasskeyKeys, PassPcs
    <3> QED
      BY <1>2, <2>2, <3>1, PasskeyFails, FreePcs DEF S!BeginPasswordless, Free
  <2>5. nextId' \in 1 .. MaxIds + 1 /\ nextId' >= nextId
    BY <1>2 DEF S!BeginPasswordless, SignInv, S!TypeOK, S!BoundsOK
  <2>6. WindowsFit'
    BY <2>3, <2>4 DEF WindowsFit, LimiterStep, PasskeyStep
  <2>7. /\ \A k \in S!Keys : Charges(limiter[k], limiter'[k], req[r].pc, S!Idle.pc, KeyPcs(k))
        /\ \A k \in S!PasskeyKeys : Charges(passkeys[k], passkeys'[k], req[r].pc, S!Idle.pc, PassPcs(k))
    BY <2>3, <2>4 DEF LimiterStep, PasskeyStep
  <2> QED
    BY <2>1, <2>2, <2>5, <2>6, <2>7, AccountIs, RequestMoves DEF Changing
<1>3. CASE sig \in 1 .. MaxSig /\ S!PasswordlessFinishAllowed(r, id, sig)
  <2>1. PICK to : to = [pc |-> "finish", id |-> id, sig |-> sig]
    OBVIOUS
  <2>2. UNCHANGED <<account, sessions, nextId, issued, challenges, spent, step, device, gen, tries, restarts>> /\ UNCHANGED <<limiter, passkeys>>
    BY <1>3 DEF S!PasswordlessFinishAllowed, S!tables, S!history
  <2>3. S!Goto(r, to) /\ to.pc = "finish" /\ RequestOK(to)
    BY <1>3, <2>1 DEF S!PasswordlessFinishAllowed, RequestOK
  <2>4. LimiterStep(req[r].pc, to.pc)
    BY <2>2, <2>3, LimiterStays, FreePcs
  <2>5. PasskeyStep(req[r].pc, to.pc)
    BY <1>3, <2>2, <2>3, PasskeysStay DEF S!PasswordlessFinishAllowed, PassPcs, S!PasskeyKeys
  <2> QED
    BY <2>2, <2>3, <2>4, <2>5, RequestGoes DEF Changing
<1>4. CASE S!FinishPasswordless(r)
  <2>1. UNCHANGED <<account, sessions, nextId, issued, challenges, spent, step, device, gen, tries, restarts>> /\ UNCHANGED limiter
    BY <1>4 DEF S!FinishPasswordless, S!history
  <2>2. req[r].pc = "finish" /\ req[r].sig \in 1 .. MaxSig
    BY <1>4 DEF S!FinishPasswordless, S!AtPc, SignInv, RequestsInv, RequestOK
  <2>3. CASE passkeys' = S!Fail(passkeys, "ip", WindowTicks) /\ S!Answer(r)
    <3>1. S!Goto(r, S!Idle) /\ S!Idle.pc = "idle" /\ RequestOK(S!Idle)
      BY <2>3 DEF S!Answer, S!Idle, RequestOK
    <3>2. LimiterStep(req[r].pc, S!Idle.pc)
      BY <2>1, <3>1, LimiterStays, FreePcs DEF Free
    <3>3. "ip" \in S!PasskeyKeys /\ req[r].pc \in PassPcs("ip")
      BY <2>2 DEF S!PasskeyKeys, PassPcs
    <3>4. PasskeyStep(req[r].pc, S!Idle.pc)
      BY <2>3, <3>1, <3>3, PasskeyFails, FreePcs DEF Free
    <3> QED
      BY <2>1, <3>1, <3>2, <3>4, RequestGoes DEF Changing
  <2>4. CASE /\ UNCHANGED passkeys
             /\ S!Goto(r, [pc |-> "credential", sig |-> req[r].sig, epoch |-> account.epoch,
                           gen |-> gen.done, by |-> "passwordless"])
    <3>1. PICK to : to = [pc |-> "credential", sig |-> req[r].sig, epoch |-> account.epoch,
                          gen |-> gen.done, by |-> "passwordless"]
      OBVIOUS
    <3>2. S!Goto(r, to) /\ to.pc = "credential" /\ RequestOK(to) /\ Free(to.pc)
      BY <2>2, <2>4, <3>1, FreePcs DEF RequestOK, SignInv, EpochInv
    <3> QED
      BY <2>1, <2>4, <3>2, AccountIs, FreeGoes DEF Changing
  <2> QED
    BY <1>4, <2>3, <2>4 DEF S!FinishPasswordless
<1> QED
  BY <1>1, <1>2, <1>3, <1>4

LEMMA StepUpKeeps ==
    ASSUME SignInv, NEW r \in Requests, NEW pw, NEW then \in {"switch", "update"},
           S!StepUpAllowed(r, pw, then) \/ S!StepUp(r)
    PROVE  SignInv'
<1>1. UNCHANGED <<account, sessions, nextId, issued, challenges, spent, step, device, gen, tries, restarts>> /\ UNCHANGED passkeys
  BY DEF S!StepUpAllowed, S!StepUp, S!tables, S!history
<1>2. CASE S!StepUpAllowed(r, pw, then)
  <2>1. PICK to : to = [pc |-> "stepup", pw |-> pw, then |-> then]
    OBVIOUS
  <2>2. S!Goto(r, to) /\ to.pc = "stepup" /\ RequestOK(to)
    BY <1>2, <2>1 DEF S!StepUpAllowed, RequestOK
  <2>3. LimiterStep(req[r].pc, to.pc)
    BY <1>2, <2>2, LimiterStays DEF S!StepUpAllowed, S!tables, S!Keys, KeyPcs, SecondFactorPcs
  <2>4. PasskeyStep(req[r].pc, to.pc)
    BY <1>1, <2>2, PasskeysStay, FreePcs
  <2> QED
    BY <1>1, <2>2, <2>3, <2>4, RequestGoes DEF Changing
<1>3. CASE S!StepUp(r)
  <2>1. req[r].pc = "stepup" /\ req[r].then \in {"switch", "update"}
    BY <1>3 DEF S!StepUp, S!AtPc, SignInv, RequestsInv, RequestOK
  <2>2. CASE limiter' = S!Fail(limiter, "stepup", WindowTicks) /\ S!Answer(r)
    <3>1. S!Goto(r, S!Idle) /\ S!Idle.pc = "idle" /\ RequestOK(S!Idle)
      BY <2>2 DEF S!Answer, S!Idle, RequestOK
    <3>2. "stepup" \in S!Keys /\ req[r].pc \in KeyPcs("stepup")
      BY <2>1 DEF S!Keys, KeyPcs
    <3>3. LimiterStep(req[r].pc, S!Idle.pc)
      BY <2>2, <3>1, <3>2, LimiterFails, FreePcs DEF Free
    <3>4. PasskeyStep(req[r].pc, S!Idle.pc)
      BY <1>1, <3>1, PasskeysStay, FreePcs DEF Free
    <3> QED
      BY <1>1, <3>1, <3>3, <3>4, RequestGoes DEF Changing
  <2>3. CASE limiter' = S!Reset(limiter, "stepup") /\ S!Goto(r, [pc |-> req[r].then, own |-> TRUE])
    <3>1. PICK to : to = [pc |-> req[r].then, own |-> TRUE]
      OBVIOUS
    <3>2. S!Goto(r, to) /\ to.pc \in {"switch", "update"} /\ RequestOK(to) /\ Free(to.pc)
      BY <2>1, <2>3, <3>1, FreePcs DEF RequestOK
    <3>3. LimiterStep(req[r].pc, to.pc)
      BY <2>3, <3>2, LimiterResets DEF Free, S!Keys
    <3>4. PasskeyStep(req[r].pc, to.pc)
      BY <1>1, <3>2, PasskeysStay DEF Free
    <3> QED
      BY <1>1, <3>2, <3>3, <3>4, RequestGoes DEF Changing
  <2> QED
    BY <1>3, <2>2, <2>3 DEF S!StepUp
<1> QED
  BY <1>2, <1>3

(* The steps of a request that hold no budget and leave the limiters alone.  *)
LEMMA FreeStepsKeep ==
    ASSUME SignInv, NEW r \in Requests, NEW s,
           \/ S!SetPasswordless(r) \/ S!ResetPassword(r) \/ S!DeleteUserSessions(r) \/ S!ReloadOwn(r)
           \/ S!ListOthers(r, s) \/ S!RevokeOthers(r)
    PROVE  SignInv'
<1>1. UNCHANGED <<nextId, issued, challenges, spent, step, device, gen, tries, restarts, limiter, passkeys>>
  BY DEF S!SetPasswordless, S!ResetPassword, S!DeleteUserSessions, S!ReloadOwn, S!ListOthers,
     S!RevokeOthers, S!tables, S!history
<1>2. CASE S!SetPasswordless(r)
  <2>1. S!Goto(r, S!Idle) /\ S!Idle.pc = "idle" /\ RequestOK(S!Idle) /\ Free(S!Idle.pc)
    BY <1>2, FreePcs DEF S!SetPasswordless, S!Answer, S!Idle, RequestOK
  <2>2. PICK on \in BOOLEAN : account' = [account EXCEPT !.passwordless = on]
    BY <1>2 DEF S!SetPasswordless
  <2>3. /\ account' \in AccountType /\ account'.pw = account.pw /\ account'.epoch = account.epoch
        /\ account'.last = account.last
    BY <2>2, AccountIs DEF AccountType
  <2>4. sessions' = sessions
    BY <1>2 DEF S!SetPasswordless
  <2> QED
    BY <1>1, <2>1, <2>3, <2>4, FreeGoes DEF Changing
<1>3. CASE S!ResetPassword(r)
  <2>1. PICK to : to = [pc |-> "update", own |-> FALSE]
    OBVIOUS
  <2>2. S!Goto(r, to) /\ to.pc = "update" /\ RequestOK(to) /\ Free(to.pc) /\ UNCHANGED <<account, sessions>>
    BY <1>3, <2>1, FreePcs DEF S!ResetPassword, RequestOK
  <2> QED
    BY <1>1, <2>2, AccountIs, FreeGoes DEF Changing
<1>4. CASE S!DeleteUserSessions(r)
  <2>1. PICK to : to = [req[r] EXCEPT !.pc = "bump"]
    OBVIOUS
  <2>2. req[r].pc = "drop" /\ req[r] = [pc |-> req[r].pc, own |-> req[r].own]
    BY <1>4 DEF S!DeleteUserSessions, S!AtPc, SignInv, RequestsInv, RequestOK
  <2>3. to = [pc |-> "bump", own |-> req[r].own]
    BY <2>1, <2>2
  <2>4. S!Goto(r, to) /\ to.pc = "bump" /\ RequestOK(to) /\ Free(to.pc) /\ UNCHANGED account /\ sessions' \subseteq sessions
    BY <1>4, <2>1, <2>3, FreePcs DEF S!DeleteUserSessions, RequestOK
  <2> QED
    BY <1>1, <2>2, <2>4, AccountIs, FreeGoes DEF Changing
<1>5. CASE S!ReloadOwn(r)
  <2>1. PICK to : to = [pc |-> "issue", epoch |-> account.epoch, gen |-> gen.done, by |-> <<"password", nextId>>]
    OBVIOUS
  <2>2. S!Goto(r, to) /\ to.pc = "issue" /\ ~ByCode(to) /\ Free(to.pc) /\ UNCHANGED <<account, sessions>>
    BY <1>5, <2>1, FreePcs DEF S!ReloadOwn, S!ToIssue, ByCode
  <2>3. RequestOK(to)
    BY <2>1 DEF RequestOK, SignInv, EpochInv
  <2> QED
    BY <1>1, <2>2, <2>3, AccountIs, FreeGoes DEF Changing
<1>6. CASE S!ListOthers(r, s)
  <2>1. PICK to : to = [pc |-> "revoke", others |-> sessions \ {s}]
    OBVIOUS
  <2>2. S!Goto(r, to) /\ to.pc = "revoke" /\ RequestOK(to) /\ Free(to.pc) /\ UNCHANGED <<account, sessions>>
    BY <1>6, <2>1, FreePcs DEF S!ListOthers, RequestOK
  <2> QED
    BY <1>1, <2>2, AccountIs, FreeGoes DEF Changing
<1>7. CASE S!RevokeOthers(r)
  <2>1. S!Goto(r, S!Idle) /\ S!Idle.pc = "idle" /\ RequestOK(S!Idle) /\ Free(S!Idle.pc)
    BY <1>7, FreePcs DEF S!RevokeOthers, S!Answer, S!Idle, RequestOK
  <2>2. UNCHANGED account /\ sessions' \subseteq sessions
    BY <1>7 DEF S!RevokeOthers
  <2> QED
    BY <1>1, <2>1, <2>2, AccountIs, FreeGoes DEF Changing
<1> QED
  BY <1>2, <1>3, <1>4, <1>5, <1>6, <1>7

(* The session's row and token: a code's session is the only one of it.      *)
LEMMA IssueKeeps ==
    ASSUME SignInv, NEW r \in Requests, S!IssueSession(r)
    PROVE  SignInv'
<1> DEFINE new == [epoch |-> req[r].epoch, gen |-> req[r].gen, by |-> req[r].by]
<1>2. /\ UNCHANGED <<account, challenges, limiter, passkeys, spent, step, device, gen, tries, restarts>>
      /\ S!Goto(r, S!Idle) /\ S!Idle.pc = "idle" /\ RequestOK(S!Idle) /\ Free(S!Idle.pc)
  BY FreePcs DEF S!IssueSession, S!tables, S!history, S!Answer, S!Idle, RequestOK
<1>3. req[r].pc = "issue" /\ req[r].gen = req[r].epoch /\ nextId \in S!Ids /\ nextId' = nextId + 1
  BY DEF S!IssueSession, S!AtPc, SignInv, RequestsInv, RequestOK, S!TypeOK, S!Ids, S!BoundsOK
<1>4. nextId \in Nat /\ nextId' \in 1 .. MaxIds + 1 /\ nextId' >= nextId /\ MaxIds \in Nat /\ nextId' \in Nat
  BY <1>3 DEF SignInv, S!TypeOK, S!BoundsOK, S!Ids
<1>5. /\ DOMAIN issued' = DOMAIN issued \cup {nextId} /\ issued'[nextId] = new
      /\ \A i \in DOMAIN issued : i # nextId /\ i \in Nat /\ i < nextId /\ issued'[i] = issued[i]
  <2>1. \A i \in DOMAIN issued : i # nextId /\ i \in Nat /\ i < nextId
    BY <1>4 DEF SignInv, RequestsInv, S!TypeOK, S!Ids
  <2> QED
    BY <2>1 DEF S!IssueSession
<1>6. new.gen = new.epoch /\ new.by = req[r].by
  BY <1>3
<1> HIDE DEF new
<1>7. S!TypeOK'
  <2>1. DOMAIN issued' \subseteq S!Ids
    BY <1>3, <1>5 DEF SignInv, S!TypeOK
  <2>2. sessions' \subseteq DOMAIN issued'
    BY <1>5 DEF SignInv, S!TypeOK, S!IssueSession
  <2> QED
    BY <1>2, <1>4, <2>1, <2>2 DEF SignInv, S!TypeOK
<1>8. RequestsInv'
  <2>1. \A i \in DOMAIN issued' : i < nextId'
    BY <1>3, <1>4, <1>5
  <2> QED
    BY <1>2, <1>4, <2>1, RequestsMove
<1>9. BudgetInv'
  <2>1. LimiterStep(req[r].pc, S!Idle.pc) /\ PasskeyStep(req[r].pc, S!Idle.pc)
    BY <1>2, LimiterStays, PasskeysStay DEF Free
  <2> QED
    BY <1>2, <2>1, BudgetMoves DEF WindowsFit, LimiterStep, PasskeyStep
<1>10. EpochInv'
  <2>1. \A i \in DOMAIN issued' : issued'[i].gen = issued'[i].epoch
    BY <1>5, <1>6 DEF SignInv, EpochInv
  <2> QED
    BY <1>2, <2>1, EpochKept DEF Changing
<1>11. CodeInv'
  <2>1. \A q \in Requests : req'[q].pc = "issue" => q # r /\ req'[q] = req[q]
    BY <1>2, Moves
  <2>2. /\ \A i \in DOMAIN issued : ByCode(issued[i]) => issued[i].by[2] \in 0 .. account.last
        /\ \A q \in Requests : req[q].pc = "issue" /\ ByCode(req[q]) => req[q].by[2] \in 0 .. account.last
        /\ S!CodeSignsInOnce
    BY DEF SignInv, CodeInv
  <2>3. /\ \A i \in DOMAIN issued, q \in Requests : req[q].pc = "issue" /\ ByCode(req[q]) => req[q].by # issued[i].by
        /\ \A p, q \in Requests :
              req[p].pc = "issue" /\ req[q].pc = "issue" /\ ByCode(req[p]) /\ req[p].by = req[q].by => p = q
    BY DEF SignInv, CodeInv
  <2>4. \A p, q \in Requests :
           req'[p].pc = "issue" /\ req'[q].pc = "issue" /\ ByCode(req'[p]) /\ req'[p].by = req'[q].by => p = q
    BY <2>1, <2>3 DEF ByCode
  <2>5. S!CodeSignsInOnce'
    <3>1. ASSUME NEW i \in DOMAIN issued', NEW j \in DOMAIN issued', issued'[i].by[1] = "code", issued'[i].by = issued'[j].by
          PROVE  i = j
      <4>1. CASE i = nextId /\ j # nextId
        BY <1>3, <1>5, <1>6, <2>3, <3>1, <4>1 DEF ByCode
      <4>2. CASE j = nextId /\ i # nextId
        BY <1>3, <1>5, <1>6, <2>3, <3>1, <4>2 DEF ByCode
      <4>3. CASE i # nextId /\ j # nextId
        BY <1>5, <2>2, <3>1, <4>3 DEF S!CodeSignsInOnce
      <4> QED
        BY <4>1, <4>2, <4>3
    <3> QED
      BY <3>1 DEF S!CodeSignsInOnce
  <2>6. \A q \in Requests : req'[q].pc = "issue" /\ ByCode(req'[q]) => req'[q].by[2] \in 0 .. account'.last
    BY <1>2, <2>1, <2>2
  <2>7. ASSUME NEW i \in DOMAIN issued', NEW q \in Requests, req'[q].pc = "issue", ByCode(req'[q])
        PROVE  req'[q].by # issued'[i].by
    <3>1. CASE i = nextId
      BY <1>3, <1>5, <1>6, <2>1, <2>3, <2>7, <3>1 DEF ByCode
    <3>2. CASE i # nextId
      BY <1>5, <2>1, <2>3, <2>7, <3>2
    <3> QED
      BY <3>1, <3>2
  <2>8. \A i \in DOMAIN issued' : ByCode(issued'[i]) => issued'[i].by[2] \in 0 .. account'.last
    BY <1>2, <1>3, <1>5, <1>6, <2>2 DEF ByCode
  <2> QED
    BY <2>4, <2>5, <2>6, <2>7, <2>8 DEF CodeInv, ByCode
<1>12. TriesInv'
  BY <1>2, <1>4, TriesKept
<1> QED
  BY <1>7, <1>8, <1>9, <1>10, <1>11, <1>12 DEF SignInv, S!BoundsOK

(* A right password buys a challenge, which has bought nothing yet.          *)
LEMMA ChallengeKeeps ==
    ASSUME SignInv, NEW r \in Requests, S!LoginChallenge(r)
    PROVE  SignInv'
<1>1. /\ UNCHANGED <<account, sessions, issued, limiter, passkeys, spent, step, device, gen, tries, restarts>>
      /\ S!Goto(r, S!Idle) /\ S!Idle.pc = "idle" /\ RequestOK(S!Idle) /\ Free(S!Idle.pc)
  BY FreePcs DEF S!LoginChallenge, S!tables, S!history, S!Answer, S!Idle, RequestOK
<1>2. nextId \in S!Ids /\ nextId' = nextId + 1 /\ nextId \in Nat /\ nextId' \in Nat /\ nextId' \in 1 .. MaxIds + 1
  BY DEF S!LoginChallenge, SignInv, S!TypeOK, S!Ids, S!BoundsOK
<1>3. /\ DOMAIN challenges' = DOMAIN challenges \cup {nextId} /\ challenges'[nextId] = ChallengeTicks
      /\ \A c \in DOMAIN challenges : c # nextId /\ c \in S!Ids /\ c < nextId /\ challenges'[c] = challenges[c]
  <2>1. \A c \in DOMAIN challenges : c # nextId /\ c \in S!Ids /\ c < nextId
    BY <1>2 DEF SignInv, TriesInv, S!TypeOK, S!Ids
  <2> QED
    BY <2>1 DEF S!LoginChallenge, S!With
<1>4. S!TypeOK'
  BY <1>1, <1>2, <1>3 DEF SignInv, S!TypeOK
<1>5. RequestsInv'
  <2>1. \A i \in DOMAIN issued' : i < nextId'
    BY <1>1, <1>2 DEF SignInv, RequestsInv, S!TypeOK, S!Ids
  <2> QED
    BY <1>1, <1>2, <2>1, RequestsMove
<1>6. BudgetInv'
  <2>1. LimiterStep(req[r].pc, S!Idle.pc) /\ PasskeyStep(req[r].pc, S!Idle.pc)
    BY <1>1, LimiterStays, PasskeysStay DEF Free
  <2> QED
    BY <1>1, <2>1, BudgetMoves DEF WindowsFit, LimiterStep, PasskeyStep
<1>7. EpochInv' /\ CodeInv'
  <2>1. \A i \in DOMAIN issued' : issued'[i].gen = issued'[i].epoch
    BY <1>1 DEF SignInv, EpochInv
  <2> QED
    BY <1>1, <2>1, EpochKept, CodeKept DEF Changing
<1>8. TriesInv'
  <2>1. tries[nextId] = 0
    <3>1. tries[nextId] \in Nat /\ (tries[nextId] > 0 => nextId < nextId)
      BY <1>2 DEF SignInv, TriesInv
    <3> QED
      BY <1>2, <3>1
  <2>2. \A c \in S!Ids : c < nextId => c < nextId'
    BY <1>2 DEF S!Ids
  <2>3. ChallengeTicks \in Nat
    BY DEF SignInv, S!BoundsOK
  <2>4. nextId < nextId'
    BY <1>2
  <2>5. /\ tries' \in [S!Ids -> Nat] /\ (\A c \in S!Ids : tries'[c] > 0 => c < nextId')
        /\ \A c \in DOMAIN spent' : spent'[c] \in Nat
    BY <1>1, <2>2 DEF SignInv, TriesInv
  <2>6. \A c \in DOMAIN challenges' : challenges'[c] \in Nat /\ c < nextId'
    BY <1>3, <2>2, <2>3, <2>4 DEF SignInv, TriesInv
  <2>7. \A c \in DOMAIN challenges' : tries'[c] > 0 => c \in DOMAIN spent' /\ spent'[c] >= challenges'[c]
    BY <1>1, <1>3, <2>1 DEF SignInv, TriesInv
  <2>8. S!ChallengeBuysOneAttempt'
    BY <1>1, <1>3, <2>1 DEF SignInv, TriesInv, S!ChallengeBuysOneAttempt
  <2> QED
    BY <2>5, <2>6, <2>7, <2>8 DEF TriesInv
<1> QED
  BY <1>4, <1>5, <1>6, <1>7, <1>8 DEF SignInv, S!BoundsOK

(* A challenge is spent before the answer is read.                           *)
LEMMA SpendKeeps ==
    ASSUME SignInv, NEW r \in Requests, S!SpendChallenge(r)
    PROVE  SignInv'
<1> DEFINE c == req[r].c
           pc == IF req[r].proof.kind = "code" THEN "code" ELSE "assertion"
<1>1. UNCHANGED <<account, sessions, nextId, issued, challenges, step, device, gen, restarts, passkeys>>
  BY DEF S!SpendChallenge
<1>2. /\ req[r].pc = "spend" /\ c \in S!Ids /\ c < nextId /\ req[r] = [pc |-> "spend", c |-> c, proof |-> req[r].proof]
      /\ req[r].proof.kind = "code" => req[r].proof.value \in 1 .. MaxStep
      /\ req[r].proof.kind # "code" => req[r].proof.value \in 1 .. MaxSig
  BY DEF S!SpendChallenge, S!AtPc, SignInv, RequestsInv, RequestOK
<1>3. CASE limiter' = S!FailBoth(limiter, "ip", "mfa", WindowTicks) /\ S!Answer(r) /\ UNCHANGED <<spent, tries>>
  BY <1>1, <1>2, <1>3, SecondFactorFails DEF SecondFactorPcs
<1>4. CASE /\ S!Unspent(spent, c) /\ spent' = (IF c \in DOMAIN challenges THEN S!With(spent, c, challenges[c]) ELSE spent)
           /\ tries' = [tries EXCEPT ![c] = @ + 1] /\ S!Goto(r, [req[r] EXCEPT !.pc = pc]) /\ UNCHANGED limiter
  <2>1. PICK to : to = [req[r] EXCEPT !.pc = pc]
    OBVIOUS
  <2>2. to = [pc |-> pc, c |-> c, proof |-> req[r].proof]
    BY <1>2, <2>1
  <2>3. S!Goto(r, to) /\ to.pc \in {"code", "assertion"}
    BY <1>4, <2>1, <2>2
  <2>4. RequestOK(to)
    <3>1. to.pc = pc /\ to.c = c /\ to.proof = req[r].proof /\ to = [pc |-> to.pc, c |-> to.c, proof |-> to.proof]
      BY <2>2
    <3>2. to.pc = "code" <=> to.proof.kind = "code"
      BY <3>1
    <3> HIDE DEF c, pc
    <3> QED
      BY <1>2, <2>3, <3>1, <3>2 DEF RequestOK
  <2>5. LimiterStep(req[r].pc, to.pc) /\ PasskeyStep(req[r].pc, to.pc)
    <3>1. LimiterStep(req[r].pc, to.pc)
      BY <1>2, <1>4, <2>3, LimiterStays DEF KeyPcs, SecondFactorPcs
    <3>2. PasskeyStep(req[r].pc, to.pc)
      BY <1>1, <2>3, PasskeysStay, FreePcs DEF SecondFactorPcs
    <3> QED
      BY <3>1, <3>2
  <2>6. BudgetInv'
    BY <2>3, <2>5, BudgetMoves DEF WindowsFit, LimiterStep, PasskeyStep
  <2>7. S!TypeOK'
    BY <1>1, <1>4 DEF SignInv, S!TypeOK
  <2>8. RequestsInv'
    <3>1. nextId' \in Int /\ nextId' >= nextId
      BY <1>1 DEF SignInv, S!TypeOK, S!BoundsOK
    <3>2. \A i \in DOMAIN issued' : i < nextId'
      BY <1>1 DEF SignInv, RequestsInv
    <3> QED
      BY <2>3, <2>4, <3>1, <3>2, RequestsMove
  <2>9. EpochInv' /\ CodeInv'
    <3>1. \A i \in DOMAIN issued' : issued'[i].gen = issued'[i].epoch
      BY <1>1 DEF SignInv, EpochInv
    <3> QED
      BY <1>1, <2>3, <3>1, EpochKept, CodeKept DEF Changing
  <2>10. TriesInv'
    <3>1. tries \in [S!Ids -> Nat] /\ c \notin DOMAIN spent
      BY <1>4 DEF SignInv, TriesInv, S!Unspent
    <3>2. tries' \in [S!Ids -> Nat] /\ tries'[c] = tries[c] + 1 /\ \A d \in S!Ids \ {c} : tries'[d] = tries[d]
      BY <1>2, <1>4, <3>1
    <3>3. c \in DOMAIN challenges => tries[c] = 0
      BY <1>2, <3>1 DEF SignInv, TriesInv
    <3>4. /\ \A d \in DOMAIN spent' : spent'[d] \in Nat
          /\ \A d \in DOMAIN spent : d \in DOMAIN spent' /\ spent'[d] = spent[d]
          /\ c \in DOMAIN challenges => c \in DOMAIN spent' /\ spent'[c] = challenges[c]
      <4>1. CASE c \in DOMAIN challenges
        <5>1. spent' = S!With(spent, c, challenges[c])
          BY <1>4, <4>1
        <5>2. DOMAIN spent' = DOMAIN spent \cup {c} /\ \A d \in DOMAIN spent' : spent'[d] = IF d = c THEN challenges[c] ELSE spent[d]
          BY <5>1 DEF S!With
        <5>3. challenges[c] \in Nat /\ \A d \in DOMAIN spent : spent[d] \in Nat
          BY <4>1 DEF SignInv, TriesInv
        <5> HIDE DEF c
        <5> QED
          BY <3>1, <5>2, <5>3
      <4>2. CASE c \notin DOMAIN challenges
        BY <1>4, <4>2 DEF SignInv, TriesInv
      <4> QED
        BY <4>1, <4>2
    <3>5. DOMAIN challenges \subseteq S!Ids
      BY DEF SignInv, S!TypeOK
    <3>6. \A d \in DOMAIN challenges : challenges[d] \in Nat /\ d < nextId
      BY DEF SignInv, TriesInv
    <3>7. \A d \in DOMAIN challenges : tries[d] > 0 => d \in DOMAIN spent /\ spent[d] >= challenges[d]
      BY DEF SignInv, TriesInv
    <3> HIDE DEF c, pc
    <3>8. \A d \in DOMAIN challenges' : tries'[d] > 0 => d \in DOMAIN spent' /\ spent'[d] >= challenges'[d]
      <4>1. ASSUME NEW d \in DOMAIN challenges, tries'[d] > 0
            PROVE  d \in DOMAIN spent' /\ spent'[d] >= challenges[d]
        <5>1. CASE d = c
          BY <3>4, <3>6, <4>1, <5>1
        <5>2. CASE d # c
          BY <3>2, <3>4, <3>5, <3>7, <4>1, <5>2
        <5> QED
          BY <5>1, <5>2
      <4> QED
        BY <1>1, <4>1
    <3>9. S!ChallengeBuysOneAttempt'
      <4>1. \A d \in DOMAIN challenges : tries[d] <= 1
        BY DEF SignInv, TriesInv, S!ChallengeBuysOneAttempt
      <4> QED
        BY <1>1, <3>2, <3>3, <3>5, <4>1 DEF S!ChallengeBuysOneAttempt
    <3>10. \A d \in S!Ids : tries'[d] > 0 => d < nextId'
      BY <1>1, <1>2, <3>2 DEF SignInv, TriesInv
    <3> QED
      BY <1>1, <3>2, <3>4, <3>6, <3>8, <3>9, <3>10 DEF TriesInv
  <2> QED
    BY <2>6, <2>7, <2>8, <2>9, <2>10 DEF SignInv, S!BoundsOK
<1> QED
  BY <1>3, <1>4 DEF S!SpendChallenge

(* A code moves the watermark or signs nobody in.                            *)
LEMMA BurnKeeps ==
    ASSUME SignInv, NEW r \in Requests, S!BurnCode(r)
    PROVE  SignInv'
<1>1. UNCHANGED <<sessions, nextId, issued, challenges, spent, step, device, gen, tries, restarts, passkeys>>
  BY DEF S!BurnCode, S!history
<1>2. req[r].pc = "burn" /\ req[r].code \in 1 .. MaxStep /\ req[r].gen = req[r].epoch
  BY DEF S!BurnCode, S!AtPc, SignInv, RequestsInv, RequestOK
<1>3. CASE limiter' = S!FailBoth(limiter, "ip", "mfa", WindowTicks) /\ S!Answer(r) /\ UNCHANGED account
  BY <1>1, <1>2, <1>3, SecondFactorFails DEF SecondFactorPcs
<1>4. CASE /\ account.last < req[r].code /\ account' = [account EXCEPT !.last = req[r].code]
           /\ limiter' = S!Reset(S!Reset(limiter, "ip"), "mfa")
           /\ S!Goto(r, [pc |-> "issue", epoch |-> req[r].epoch, gen |-> req[r].gen, by |-> <<"code", req[r].code>>])
  <2>1. PICK to : to = [pc |-> "issue", epoch |-> req[r].epoch, gen |-> req[r].gen, by |-> <<"code", req[r].code>>]
    OBVIOUS
  <2>2. S!Goto(r, to) /\ to.pc = "issue" /\ RequestOK(to) /\ to.by[1] = "code" /\ to.by[2] = req[r].code /\ Free(to.pc)
    BY <1>2, <1>4, <2>1, FreePcs DEF RequestOK
  <2>3. /\ account' \in AccountType /\ account'.pw = account.pw /\ account'.epoch = account.epoch
        /\ account'.last = req[r].code /\ account.last \in Nat /\ account'.last \in Nat
    <3>1. account \in AccountType /\ req[r].code \in 0 .. MaxStep
      BY <1>2, AccountIs DEF SignInv, S!BoundsOK
    <3> QED
      BY <1>4, <3>1 DEF AccountType
  <2>4. LimiterStep(req[r].pc, to.pc) /\ PasskeyStep(req[r].pc, to.pc)
    BY <1>1, <1>4, <2>2, LimiterResetsBoth, PasskeysStay DEF Free
  <2>5. BudgetInv'
    BY <2>2, <2>4, BudgetMoves DEF WindowsFit, LimiterStep, PasskeyStep
  <2>6. S!TypeOK'
    BY <1>1, <2>3, <2>4 DEF SignInv, S!TypeOK, AccountType, LimiterStep
  <2>7. RequestsInv'
    <3>1. nextId' \in Int /\ nextId' >= nextId
      BY <1>1 DEF SignInv, S!TypeOK, S!BoundsOK
    <3>2. \A i \in DOMAIN issued' : i < nextId'
      BY <1>1 DEF SignInv, RequestsInv
    <3> QED
      BY <2>2, <3>1, <3>2, RequestsMove
  <2>8. EpochInv'
    BY <1>1, <2>2, <2>3, EpochKept DEF Changing, SignInv, EpochInv
  <2>9. TriesInv'
    BY <1>1, TriesKept DEF SignInv, S!TypeOK, S!BoundsOK
  <2>10. CodeInv'
    <3>1. \A q \in Requests : req'[q] = IF q = r THEN to ELSE req[q]
      BY <2>2, Moves
    <3>2. /\ \A i \in DOMAIN issued : ByCode(issued[i]) => issued[i].by[2] \in 0 .. account.last
          /\ \A q \in Requests : req[q].pc = "issue" /\ ByCode(req[q]) => req[q].by[2] \in 0 .. account.last
          /\ S!CodeSignsInOnce
      BY DEF SignInv, CodeInv
    <3>3. /\ \A i \in DOMAIN issued, q \in Requests : req[q].pc = "issue" /\ ByCode(req[q]) => req[q].by # issued[i].by
          /\ \A p, q \in Requests :
                req[p].pc = "issue" /\ req[q].pc = "issue" /\ ByCode(req[p]) /\ req[p].by = req[q].by => p = q
      BY DEF SignInv, CodeInv
    <3>4. req[r].code \notin 0 .. account.last /\ req[r].code \in 0 .. account'.last
      BY <1>2, <1>4, <2>3 DEF SignInv, S!BoundsOK
    <3>5. ASSUME NEW by, by[2] \in 0 .. account.last PROVE by # to.by
      BY <2>2, <3>4, <3>5
    <3>6. \A i \in DOMAIN issued : issued[i].by # to.by
      BY <2>2, <3>2, <3>5 DEF ByCode
    <3>7. \A q \in Requests : q # r /\ req[q].pc = "issue" => req[q].by # to.by
      BY <2>2, <3>2, <3>5 DEF ByCode
    <3>8. \A p, q \in Requests :
             req'[p].pc = "issue" /\ req'[q].pc = "issue" /\ ByCode(req'[p]) /\ req'[p].by = req'[q].by => p = q
      <4>1. ASSUME NEW p \in Requests, NEW q \in Requests, req'[p].pc = "issue", req'[q].pc = "issue",
                   ByCode(req'[p]), req'[p].by = req'[q].by
            PROVE  p = q
        <5>1. CASE p = r /\ q # r
          BY <3>1, <3>7, <4>1, <5>1
        <5>2. CASE q = r /\ p # r
          BY <3>1, <3>7, <4>1, <5>2
        <5>3. CASE p # r /\ q # r
          BY <3>1, <3>3, <4>1, <5>3
        <5> QED
          BY <5>1, <5>2, <5>3
      <4> QED
        BY <4>1
    <3>9. ASSUME NEW q \in Requests, req'[q].pc = "issue", ByCode(req'[q])
          PROVE  req'[q].by[2] \in 0 .. account'.last /\ \A i \in DOMAIN issued' : req'[q].by # issued'[i].by
      <4>1. CASE q = r
        BY <1>1, <2>2, <3>1, <3>4, <3>6, <4>1
      <4>2. CASE q # r
        <5>1. req'[q] = req[q] /\ req[q].by[2] \in 0 .. account.last
          BY <3>1, <3>2, <3>9, <4>2
        <5>2. req[q].by[2] \in 0 .. account'.last
          BY <1>4, <2>3, <5>1
        <5> QED
          BY <1>1, <3>3, <3>9, <5>1, <5>2
      <4> QED
        BY <4>1, <4>2
    <3>10. \A i \in DOMAIN issued' : ByCode(issued'[i]) => issued'[i].by[2] \in 0 .. account'.last
      BY <1>1, <1>4, <2>3, <3>2
    <3>11. S!CodeSignsInOnce'
      BY <1>1, <3>2 DEF S!CodeSignsInOnce
    <3> QED
      BY <3>8, <3>9, <3>10, <3>11 DEF CodeInv, ByCode
  <2> QED
    BY <2>5, <2>6, <2>7, <2>8, <2>9, <2>10 DEF SignInv, S!BoundsOK
<1> QED
  BY <1>3, <1>4 DEF S!BurnCode, S!CounterMoves, S!Watermark, S!ToIssue

(* The password moves first, the epoch last.                                 *)
LEMMA UpdateKeeps ==
    ASSUME SignInv, NEW r \in Requests, S!UpdatePassword(r)
    PROVE  SignInv'
<1>1. UNCHANGED <<sessions, issued, challenges, limiter, passkeys, spent, step, device, nextId, tries, restarts>>
  BY DEF S!UpdatePassword, S!tables
<1>2. req[r].pc = "update" /\ req[r] = [pc |-> "update", own |-> req[r].own]
  BY DEF S!UpdatePassword, S!AtPc, SignInv, RequestsInv, RequestOK
<1>3. PICK to : to = [req[r] EXCEPT !.pc = "drop"]
  OBVIOUS
<1>4. to = [pc |-> "drop", own |-> req[r].own]
  BY <1>2, <1>3
<1>5. S!Goto(r, to) /\ to.pc = "drop" /\ RequestOK(to) /\ Free(to.pc)
  BY <1>3, <1>4, FreePcs DEF S!UpdatePassword, RequestOK
<1>6. /\ account' \in AccountType /\ account'.pw = account.pw + 1 /\ account'.epoch = account.epoch
      /\ account'.last = account.last /\ account.pw \in Nat /\ account.epoch \in Nat
  <2>1. account \in AccountType /\ account.pw \in Nat /\ account.pw < MaxPw /\ account.epoch \in Nat
    BY AccountIs DEF S!UpdatePassword, SignInv, S!BoundsOK, AccountType
  <2>2. account.pw + 1 \in 0 .. MaxPw
    BY <2>1 DEF SignInv, S!BoundsOK
  <2> QED
    BY <2>1, <2>2 DEF S!UpdatePassword, AccountType
<1>7. S!TypeOK'
  BY <1>1, <1>6 DEF SignInv, S!TypeOK, AccountType
<1>8. RequestsInv'
  <2>1. nextId' \in Int /\ nextId' >= nextId
    BY <1>1 DEF SignInv, S!TypeOK, S!BoundsOK
  <2>2. \A i \in DOMAIN issued' : i < nextId'
    BY <1>1 DEF SignInv, RequestsInv
  <2> QED
    BY <1>5, <2>1, <2>2, RequestsMove
<1>9. BudgetInv'
  <2>1. LimiterStep(req[r].pc, to.pc) /\ PasskeyStep(req[r].pc, to.pc)
    BY <1>1, <1>5, LimiterStays, PasskeysStay DEF Free
  <2> QED
    BY <1>5, <2>1, BudgetMoves DEF WindowsFit, LimiterStep, PasskeyStep
<1>10. EpochInv'
  <2>1. PICK pcs : pcs = Changing
    OBVIOUS
  <2>2. Cardinality(At(pcs)) \in Nat
    BY Sizes DEF SignInv
  <2>3. Cardinality(At(pcs)') = Cardinality(At(pcs)) + 1
    BY <1>2, <1>5, <2>1, SizeMoves DEF Changing
  <2>4. account.epoch + Cardinality(At(pcs)) <= account.pw /\ account.epoch = gen.done
    BY <2>1 DEF SignInv, EpochInv
  <2>5. gen' = [begun |-> gen.begun + 1, done |-> gen.done]
    <3>1. gen = [begun |-> gen.begun, done |-> gen.done] /\ gen' = [gen EXCEPT !.begun = gen.begun + 1]
      BY DEF SignInv, EpochInv, S!UpdatePassword
    <3> QED
      BY <3>1
  <2>6. account'.epoch + Cardinality(At(pcs)') <= account'.pw
    BY <1>6, <2>2, <2>3, <2>4
  <2> QED
    BY <1>1, <1>6, <2>1, <2>4, <2>5, <2>6 DEF SignInv, EpochInv
<1>11. CodeInv' /\ TriesInv'
  BY <1>1, <1>5, <1>6, CodeKept, TriesKept DEF SignInv, S!TypeOK, S!BoundsOK
<1> QED
  BY <1>7, <1>8, <1>9, <1>10, <1>11 DEF SignInv, S!BoundsOK

LEMMA BumpKeeps ==
    ASSUME SignInv, NEW r \in Requests, S!BumpSessionEpoch(r)
    PROVE  SignInv'
<1>1. UNCHANGED <<sessions, issued, challenges, limiter, passkeys, spent, step, device, nextId, tries, restarts>>
  BY DEF S!BumpSessionEpoch, S!tables
<1>2. req[r].pc = "bump"
  BY DEF S!BumpSessionEpoch, S!AtPc
<1>3. PICK to : to = IF req[r].own THEN [pc |-> "reload"] ELSE S!Idle
  OBVIOUS
<1>4. S!Goto(r, to) /\ to.pc \in {"reload", "idle"} /\ RequestOK(to) /\ Free(to.pc)
  <2>1. CASE req[r].own
    BY <1>3, <2>1, FreePcs DEF S!BumpSessionEpoch, RequestOK
  <2>2. CASE ~req[r].own
    BY <1>3, <2>2, FreePcs DEF S!BumpSessionEpoch, S!Answer, S!Idle, RequestOK
  <2> QED
    BY <2>1, <2>2
<1>5. PICK pcs : pcs = Changing
  OBVIOUS
<1>6. Cardinality(At(pcs)) \in Nat /\ Cardinality(At(pcs)') \in Nat /\ Cardinality(At(pcs)') = Cardinality(At(pcs)) - 1
  BY <1>2, <1>4, <1>5, Sizes, SizeMoves DEF Changing, SignInv
<1>7. account.epoch + Cardinality(At(pcs)) <= account.pw /\ account.epoch = gen.done
  BY <1>5 DEF SignInv, EpochInv
<1>8. /\ account' \in AccountType /\ account'.pw = account.pw /\ account'.epoch = account.epoch + 1
      /\ account'.last = account.last /\ account.pw \in Nat /\ account.epoch \in Nat
  <2>1. account \in AccountType /\ account.pw \in 0 .. MaxPw /\ account.epoch \in Nat /\ MaxPw \in Nat
    BY AccountIs DEF SignInv, S!BoundsOK, AccountType
  <2>2. account.epoch + 1 \in 0 .. MaxPw
    BY <1>6, <1>7, <2>1
  <2> QED
    BY <2>1, <2>2 DEF S!BumpSessionEpoch, AccountType
<1>9. S!TypeOK'
  BY <1>1, <1>8 DEF SignInv, S!TypeOK, AccountType
<1>10. RequestsInv'
  <2>1. nextId' \in Int /\ nextId' >= nextId
    BY <1>1 DEF SignInv, S!TypeOK, S!BoundsOK
  <2>2. \A i \in DOMAIN issued' : i < nextId'
    BY <1>1 DEF SignInv, RequestsInv
  <2> QED
    BY <1>4, <2>1, <2>2, RequestsMove
<1>11. BudgetInv'
  <2>1. LimiterStep(req[r].pc, to.pc) /\ PasskeyStep(req[r].pc, to.pc)
    BY <1>1, <1>4, LimiterStays, PasskeysStay DEF Free
  <2> QED
    BY <1>4, <2>1, BudgetMoves DEF WindowsFit, LimiterStep, PasskeyStep
<1>12. EpochInv'
  <2>2. gen' = [begun |-> gen.begun, done |-> gen.done + 1]
    <3>1. gen = [begun |-> gen.begun, done |-> gen.done] /\ gen' = [gen EXCEPT !.done = gen.done + 1]
      BY DEF SignInv, EpochInv, S!BumpSessionEpoch
    <3> QED
      BY <3>1
  <2>3. account'.epoch + Cardinality(At(pcs)') <= account'.pw
    BY <1>6, <1>7, <1>8
  <2> QED
    BY <1>1, <1>5, <1>7, <1>8, <2>2, <2>3 DEF SignInv, EpochInv
<1>13. CodeInv' /\ TriesInv'
  BY <1>1, <1>4, <1>8, CodeKept, TriesKept DEF SignInv, S!TypeOK, S!BoundsOK
<1> QED
  BY <1>9, <1>10, <1>11, <1>12, <1>13 DEF SignInv, S!BoundsOK

(* An expired token costs the address an attempt.                            *)
LEMMA UnparsedKeeps ==
    ASSUME SignInv, NEW r \in Requests, NEW c, S!SecondFactorUnparsed(r, c)
    PROVE  SignInv'
<1>1. UNCHANGED <<account, sessions, nextId, issued, challenges, spent, step, device, gen, tries, restarts, passkeys, req>>
  BY DEF S!SecondFactorUnparsed, S!history
<1>2. PICK to : to = req[r]
  OBVIOUS
<1>3. to.pc = "idle" /\ req[r].pc = "idle" /\ RequestOK(to) /\ Free(to.pc)
  BY <1>2, FreePcs DEF S!SecondFactorUnparsed, S!AtPc, SignInv, RequestsInv
<1>4. S!Goto(r, to)
  <2>1. req = [q \in Requests |-> req[q]]
    BY DEF SignInv, RequestsInv
  <2> QED
    BY <1>1, <1>2, <2>1 DEF S!Goto
<1>5. LimiterStep(req[r].pc, to.pc)
  <2>1. /\ limiter' \in S!Windows(S!Keys) /\ \A j \in S!Keys : WindowOK(limiter'[j])
        /\ limiter'["ip"].count = limiter["ip"].count + 1 /\ \A j \in S!Keys \ {"ip"} : limiter'[j] = limiter[j]
    BY WindowsAre, FailIs DEF WindowsFit, S!SecondFactorUnparsed, S!Keys
  <2>2. limiter["ip"] \in Window /\ WindowOK(limiter["ip"]) /\ Budget \in Nat
    BY WindowsAre DEF WindowsFit, S!Keys
  <2>3. limiter["ip"].count < Budget
    BY <2>2, AllowMeans DEF S!SecondFactorUnparsed, S!Allow
  <2>4. limiter'["ip"].count <= Budget
    BY <2>1, <2>2, <2>3 DEF Window
  <2> QED
    BY <1>3, <2>1, <2>4 DEF LimiterStep, Charges, Free
<1>6. PasskeyStep(req[r].pc, to.pc)
  BY <1>1, <1>3, PasskeysStay DEF Free
<1> QED
  BY <1>1, <1>3, <1>4, <1>5, <1>6, RequestGoes DEF Changing

(* Steps that no request makes.                                              *)
LEMMA QuietKeeps ==
    ASSUME SignInv, UNCHANGED <<account, issued, challenges, limiter, passkeys, spent, step, req, nextId, gen, tries, restarts>>,
           sessions' \subseteq sessions, device' \in 0 .. MaxSig
    PROVE  SignInv'
<1>1. S!TypeOK'
  BY DEF SignInv, S!TypeOK
<1>2. RequestsInv'
  <2>1. \A r \in Requests : RequestOK(req[r])'
    BY DEF SignInv, RequestsInv, RequestOK
  <2> QED
    BY <2>1 DEF SignInv, RequestsInv
<1>3. \A pcs : At(pcs)' = At(pcs)
  BY DEF At
<1>4. BudgetInv'
  BY <1>3 DEF SignInv, BudgetInv, WindowOK
<1>5. EpochInv'
  BY <1>3 DEF SignInv, EpochInv
<1>6. CodeInv'
  BY DEF SignInv, CodeInv, S!CodeSignsInOnce, ByCode
<1>7. TriesInv'
  BY DEF SignInv, TriesInv, S!ChallengeBuysOneAttempt
<1> QED
  BY <1>1, <1>2, <1>4, <1>5, <1>6, <1>7 DEF SignInv, S!BoundsOK

LEMMA QuietSteps ==
    ASSUME SignInv, NEW c, S!BeginPasskeyLogin(c) \/ S!DeleteSession(c) \/ S!Sign \/ UNCHANGED S!vars
    PROVE  SignInv'
<1>1. /\ UNCHANGED <<account, issued, challenges, limiter, passkeys, spent, step, req, nextId, gen, tries, restarts>>
      /\ sessions' \subseteq sessions
  BY DEF S!BeginPasskeyLogin, S!DeleteSession, S!Sign, S!tables, S!history, S!vars
<1>2. device' \in 0 .. MaxSig
  BY DEF S!BeginPasskeyLogin, S!DeleteSession, S!Sign, S!vars, SignInv, S!TypeOK, S!BoundsOK
<1> QED
  BY <1>1, <1>2, QuietKeeps

LEMMA TickKeeps ==
    ASSUME SignInv, S!Tick
    PROVE  SignInv'
<1>1. UNCHANGED <<account, sessions, issued, device, req, nextId, gen, tries, restarts>>
  BY DEF S!Tick, S!history
<1>2. \A pcs : At(pcs)' = At(pcs)
  BY <1>1 DEF At
<1>3. /\ limiter' \in S!Windows(S!Keys) /\ \A k \in S!Keys : WindowOK(limiter'[k]) /\ limiter'[k].count <= limiter[k].count
  BY WindowsAre, AgeIs DEF S!Tick, WindowsFit
<1>4. /\ passkeys' \in S!Windows(S!PasskeyKeys)
      /\ \A k \in S!PasskeyKeys : WindowOK(passkeys'[k]) /\ passkeys'[k].count <= passkeys[k].count
  BY WindowsAre, AgeIs DEF S!Tick, WindowsFit
<1>5. /\ DOMAIN challenges' = {c \in DOMAIN challenges : challenges[c] > 1}
      /\ \A c \in DOMAIN challenges' : challenges'[c] = challenges[c] - 1
      /\ DOMAIN spent' = {c \in DOMAIN spent : spent[c] > 1}
      /\ \A c \in DOMAIN spent' : spent'[c] = spent[c] - 1
  BY DEF S!Tick, S!AgeTable
<1>6. S!TypeOK'
  <2>1. step' \in 1 .. MaxStep
    BY DEF S!Tick, SignInv, S!TypeOK, S!BoundsOK
  <2>2. DOMAIN challenges' \subseteq S!Ids
    BY <1>5 DEF SignInv, S!TypeOK
  <2> QED
    BY <1>1, <1>3, <1>4, <2>1, <2>2 DEF SignInv, S!TypeOK
<1>7. RequestsInv'
  <2>1. \A r \in Requests : RequestOK(req[r])'
    BY <1>1 DEF SignInv, RequestsInv, RequestOK
  <2> QED
    BY <1>1, <2>1 DEF SignInv, RequestsInv
<1>8. BudgetInv'
  <2>1. ASSUME NEW k \in S!Keys PROVE limiter'[k].count + Cardinality(At(KeyPcs(k))') <= Spare
    <3>1. PICK pcs, w, v : pcs = KeyPcs(k) /\ w = limiter[k] /\ v = limiter'[k]
      OBVIOUS
    <3>2. w.count \in Nat /\ v.count \in Nat /\ v.count <= w.count
      BY <1>3, <3>1, WindowsAre DEF S!Windows, Window
    <3>3. Cardinality(At(pcs)) \in Nat /\ Cardinality(Requests) \in Nat /\ Budget \in Nat
      BY Sizes DEF SignInv, S!BoundsOK
    <3>4. w.count + Cardinality(At(pcs)) <= Spare
      BY <3>1 DEF SignInv, BudgetInv
    <3>5. v.count + Cardinality(At(pcs)') <= Spare
      BY <1>2, <3>2, <3>3, <3>4 DEF Spare
    <3> QED
      BY <3>1, <3>5
  <2>2. ASSUME NEW k \in S!PasskeyKeys PROVE passkeys'[k].count + Cardinality(At(PassPcs(k))') <= Spare
    <3>1. PICK pcs, w, v : pcs = PassPcs(k) /\ w = passkeys[k] /\ v = passkeys'[k]
      OBVIOUS
    <3>2. w.count \in Nat /\ v.count \in Nat /\ v.count <= w.count
      BY <1>4, <3>1, WindowsAre DEF S!Windows, Window
    <3>3. Cardinality(At(pcs)) \in Nat /\ Cardinality(Requests) \in Nat /\ Budget \in Nat
      BY Sizes DEF SignInv, S!BoundsOK
    <3>4. w.count + Cardinality(At(pcs)) <= Spare
      BY <3>1 DEF SignInv, BudgetInv
    <3>5. v.count + Cardinality(At(pcs)') <= Spare
      BY <1>2, <3>2, <3>3, <3>4 DEF Spare
    <3> QED
      BY <3>1, <3>5
  <2> QED
    BY <1>3, <1>4, <2>1, <2>2 DEF BudgetInv
<1>9. EpochInv'
  BY <1>1, <1>2 DEF SignInv, EpochInv
<1>10. CodeInv'
  BY <1>1 DEF SignInv, CodeInv, S!CodeSignsInOnce, ByCode
<1>11. TriesInv'
  <2>1. /\ \A c \in DOMAIN challenges : challenges[c] \in Nat /\ c < nextId
        /\ \A c \in DOMAIN spent : spent[c] \in Nat
        /\ \A c \in DOMAIN challenges : tries[c] > 0 => c \in DOMAIN spent /\ spent[c] >= challenges[c]
    BY DEF SignInv, TriesInv
  <2>2. /\ \A c \in DOMAIN challenges' : challenges'[c] \in Nat /\ c < nextId'
        /\ \A c \in DOMAIN spent' : spent'[c] \in Nat
    BY <1>1, <1>5, <2>1
  <2>3. \A c \in DOMAIN challenges' : tries'[c] > 0 => c \in DOMAIN spent' /\ spent'[c] >= challenges'[c]
    BY <1>1, <1>5, <2>1
  <2>4. S!ChallengeBuysOneAttempt'
    BY <1>1, <1>5 DEF SignInv, TriesInv, S!ChallengeBuysOneAttempt
  <2> QED
    BY <1>1, <2>2, <2>3, <2>4 DEF SignInv, TriesInv
<1> QED
  BY <1>6, <1>7, <1>8, <1>9, <1>10, <1>11 DEF SignInv, S!BoundsOK

(* Nobody is at work and no window is open: at the start and after a restart.*)
Cold == /\ S!BoundsOK /\ req = [r \in Requests |-> S!Idle]
        /\ limiter = [k \in S!Keys |-> S!NoWindow] /\ passkeys = [k \in S!PasskeyKeys |-> S!NoWindow]
Calm == /\ BudgetInv /\ limiter \in S!Windows(S!Keys) /\ passkeys \in S!Windows(S!PasskeyKeys)
        /\ Cardinality(At(Changing)) = 0
        /\ \A r \in Requests : req[r].pc = "idle" /\ RequestOK(req[r])

LEMMA Fresh == Cold => Calm
<1> SUFFICES ASSUME Cold PROVE Calm
  OBVIOUS
<1> USE DEF Cold
<1>1. \A r \in Requests : req[r].pc = "idle" /\ RequestOK(req[r])
  BY DEF S!Idle, RequestOK
<1>2. \A pcs : "idle" \notin pcs => Cardinality(At(pcs)) = 0
  <2>1. \A pcs : "idle" \notin pcs => At(pcs) = {}
    BY <1>1 DEF At
  <2> QED
    BY <2>1, FS_EmptySet
<1>3. /\ \A k \in S!Keys : limiter[k].count = 0 /\ WindowOK(limiter[k]) /\ "idle" \notin KeyPcs(k)
      /\ \A k \in S!PasskeyKeys : passkeys[k].count = 0 /\ WindowOK(passkeys[k]) /\ "idle" \notin PassPcs(k)
  BY DEF S!NoWindow, WindowOK, KeyPcs, PassPcs, SecondFactorPcs
<1>4. 0 <= Spare
  BY Sizes DEF S!BoundsOK, Spare
<1>5. BudgetInv
  BY <1>2, <1>3, <1>4 DEF BudgetInv
<1>6. limiter \in S!Windows(S!Keys) /\ passkeys \in S!Windows(S!PasskeyKeys)
  BY DEF S!NoWindow, S!Windows
<1> QED
  BY <1>1, <1>2, <1>5, <1>6 DEF Changing, Calm

LEMMA SignInit == S!BoundsOK /\ S!Init => SignInv
<1> SUFFICES ASSUME S!BoundsOK, S!Init PROVE SignInv
  OBVIOUS
<1>1. /\ BudgetInv /\ limiter \in S!Windows(S!Keys) /\ passkeys \in S!Windows(S!PasskeyKeys)
      /\ Cardinality(At(Changing)) = 0 /\ \A r \in Requests : req[r].pc = "idle" /\ RequestOK(req[r])
  BY Fresh DEF S!Init, Cold, Calm
<1>2. account \in AccountType
  BY DEF S!Init, AccountType, S!BoundsOK
<1>3. S!TypeOK
  BY <1>1, <1>2 DEF S!Init, S!TypeOK, AccountType, S!BoundsOK
<1>4. RequestsInv
  BY <1>1 DEF S!Init, RequestsInv
<1>5. EpochInv
  BY <1>1 DEF S!Init, EpochInv
<1>6. CodeInv
  BY <1>1 DEF S!Init, CodeInv, S!CodeSignsInOnce
<1>7. TriesInv
  BY DEF S!Init, TriesInv, S!ChallengeBuysOneAttempt
<1> QED
  BY <1>1, <1>3, <1>4, <1>5, <1>6, <1>7 DEF SignInv

(* A restart forgets the requests, the windows and the spent challenges.     *)
LEMMA RestartKeeps ==
    ASSUME SignInv, S!Restart
    PROVE  SignInv'
<1>1. UNCHANGED <<account, sessions, issued, challenges, step, device, nextId, gen>>
  BY DEF S!Restart
<1>2. /\ BudgetInv' /\ limiter' \in S!Windows(S!Keys) /\ passkeys' \in S!Windows(S!PasskeyKeys)
      /\ Cardinality(At(Changing)') = 0 /\ \A r \in Requests : req'[r].pc = "idle" /\ RequestOK(req[r])'
  <2>1. S!BoundsOK'
    BY DEF SignInv, S!BoundsOK
  <2>2. /\ req' = [r \in Requests |-> S!Idle]
        /\ limiter' = [k \in S!Keys |-> S!NoWindow] /\ passkeys' = [k \in S!PasskeyKeys |-> S!NoWindow]
    BY DEF S!Restart
  <2>3. Cold'
    BY <2>1, <2>2 DEF Cold
  <2>4. Calm'
    BY <2>3, Fresh, PTL
  <2> QED
    BY <2>4 DEF Calm
<1>3. S!TypeOK'
  <2>1. restarts' \in 0 .. MaxRestarts
    BY DEF S!Restart, SignInv, S!TypeOK, S!BoundsOK
  <2> QED
    BY <1>1, <1>2, <2>1 DEF SignInv, S!TypeOK
<1>4. RequestsInv'
  BY <1>1, <1>2 DEF S!Restart, SignInv, RequestsInv
<1>5. EpochInv'
  <2>1. Cardinality(At(Changing)) \in Nat /\ account.epoch \in Nat /\ account.pw \in Nat
    BY Sizes, AccountIs DEF SignInv, AccountType, S!BoundsOK
  <2> QED
    BY <1>1, <1>2, <2>1 DEF SignInv, EpochInv
<1>6. CodeInv'
  BY <1>1, <1>2 DEF SignInv, CodeInv, S!CodeSignsInOnce, ByCode
<1>7. TriesInv'
  <2>1. tries' = [i \in S!Ids |-> 0] /\ spent' = <<>> /\ DOMAIN challenges \subseteq S!Ids
    BY DEF S!Restart, SignInv, S!TypeOK
  <2> QED
    BY <1>1, <2>1 DEF SignInv, TriesInv, S!ChallengeBuysOneAttempt
<1> QED
  BY <1>2, <1>3, <1>4, <1>5, <1>6, <1>7 DEF SignInv, S!BoundsOK

LEMMA SignInNext ==
    ASSUME SignInv, S!Next
    PROVE  SignInv'
<1>1. ASSUME NEW r \in Requests, S!Arrive(r) PROVE SignInv'
  <2>1. CASE \E pw \in 0 .. MaxPw : S!LoginAllowed(r, pw, "localhost" \in offered)
    BY <2>1, LoginKeeps
  <2>2. CASE \E c \in DOMAIN challenges, code \in 1 .. MaxStep :
                S!SecondFactorAllowed(r, c, [kind |-> "code", value |-> code])
    <3>1. PICK c \in DOMAIN challenges, code \in 1 .. MaxStep :
             S!SecondFactorAllowed(r, c, [kind |-> "code", value |-> code])
      BY <2>2
    <3>2. PICK proof : proof = [kind |-> "code", value |-> code]
      OBVIOUS
    <3> QED
      BY <3>1, <3>2, SecondFactorKeeps
  <2>3. CASE \E c \in DOMAIN challenges, sig \in 1 .. device :
                S!SecondFactorAllowed(r, c, [kind |-> "assertion", value |-> sig])
    <3>1. PICK c \in DOMAIN challenges, sig \in 1 .. device :
             S!SecondFactorAllowed(r, c, [kind |-> "assertion", value |-> sig])
      BY <2>3
    <3>2. PICK proof : proof = [kind |-> "assertion", value |-> sig]
      OBVIOUS
    <3>3. sig \in 1 .. MaxSig
      BY DEF SignInv, S!TypeOK, S!BoundsOK
    <3> QED
      BY <3>1, <3>2, <3>3, SecondFactorKeeps
  <2>4. CASE \E c \in S!Ids : S!SecondFactorUnparsed(r, c)
    BY <2>4, UnparsedKeeps
  <2>5. CASE S!PasswordlessAllowed(r)
    BY <2>5, PasswordlessKeeps
  <2>6. CASE \E id \in S!Ids, sig \in 1 .. device : S!PasswordlessFinishAllowed(r, id, sig)
    <3>1. 1 .. device \subseteq 1 .. MaxSig
      BY DEF SignInv, S!TypeOK, S!BoundsOK
    <3> QED
      BY <2>6, <3>1, PasswordlessKeeps
  <2>7. CASE \E pw \in 0 .. MaxPw, then \in {"switch", "update"} \cap offered : S!StepUpAllowed(r, pw, then)
    BY <2>7, StepUpKeeps
  <2>8. CASE S!ResetPassword(r)
    BY <2>8, FreeStepsKeep
  <2>9. CASE \E s \in sessions : S!ListOthers(r, s)
    BY <2>9, FreeStepsKeep
  <2> QED
    BY <1>1, <2>1, <2>2, <2>3, <2>4, <2>5, <2>6, <2>7, <2>8, <2>9 DEF S!Arrive
<1>2. ASSUME NEW r \in Requests, S!RequestStep(r) PROVE SignInv'
  BY <1>2, IssueKeeps, LoginKeeps, ChallengeKeeps, SpendKeeps, MatchKeeps, BurnKeeps, AssertionKeeps,
     CredentialKeeps, PasswordlessKeeps, StepUpKeeps, FreeStepsKeep, UpdateKeeps, BumpKeeps DEF S!RequestStep
<1> QED
  BY <1>1, <1>2, QuietSteps, TickKeeps, RestartKeeps DEF S!Next

(* The inductive invariant of signing in.                                    *)
THEOREM SignInInvariance == S!BoundsOK /\ S!Spec => []SignInv
<1>1. ASSUME SignInv, [S!Next]_S!vars PROVE SignInv'
  BY <1>1, SignInNext, QuietSteps
<1> QED
  BY <1>1, SignInit, PTL DEF S!Spec

(* A code signs in once, a live challenge buys one attempt, a finished       *)
(* password change leaves no older session and the budget holds, for every   *)
(* number of requests in flight (SignInIsSound).                             *)
THEOREM SignInSound == S!BoundsOK /\ S!Spec => []S!SignInIsSound
<1>1. ASSUME SignInv PROVE S!SignInIsSound
  <2>1. S!TypeOK /\ S!CodeSignsInOnce /\ S!ChallengeBuysOneAttempt
    BY <1>1 DEF SignInv, CodeInv, TriesInv
  <2>2. S!PasswordChangeEndsOlder
    BY <1>1 DEF SignInv, EpochInv, S!PasswordChangeEndsOlder, S!Accepts
  <2>3. S!BudgetHolds
    <3>1. ASSUME NEW w \in Window, NEW pcs, w.count + Cardinality(At(pcs)) <= Spare PROVE w.count <= Spare
      BY <1>1, <3>1, Sizes DEF SignInv, S!BoundsOK, Spare, Window
    <3>2. \A k \in S!Keys : limiter[k].count <= Spare
      BY <1>1, <3>1, WindowsAre DEF SignInv, BudgetInv
    <3>3. \A k \in S!PasskeyKeys : passkeys[k].count <= Spare
      BY <1>1, <3>1, WindowsAre DEF SignInv, BudgetInv
    <3> QED
      BY <3>2, <3>3, SizesAgree DEF S!BudgetHolds, Spare
  <2> QED
    BY <2>1, <2>2, <2>3 DEF S!SignInIsSound
<1> QED
  BY <1>1, SignInInvariance, PTL

-----------------------------------------------------------------------------
(* Starting the server.                                                    *)

(* Where a process can stand, and what it has behind it there.               *)
Common == {"down", "move", "raise", "collapse", "drop", "index", "audit", "redact", "roles", "insert", "sections"}
ServerOnly == {"local", "jwt", "enc", "keys", "seal", "up"}
CliOnly == {"password", "sessions", "epoch", "done"}
Moved(p) == uPc[p] \notin {"down", "move"}
Single(p) == uPc[p] \notin {"down", "move", "raise", "collapse"}
Redacted(p) == uPc[p] \in {"roles", "insert", "sections"} \cup ServerOnly \cup CliOnly

StageInv ==
    /\ uPc \in [U!Procs -> Common \cup ServerOnly \cup CliOnly] /\ uTodo = [p \in U!Procs |-> uTodo[p]]
    /\ uPc["server"] \notin CliOnly /\ uPc["cli"] \notin ServerOnly
    /\ \A p \in U!Procs : uPc[p] # "down" => uStarts > 0

(* The rows of one authenticator: none twice once a process has collapsed    *)
(* them, all with one watermark before.                                      *)
RowType == [id : Nat \ {0}, app : BOOLEAN, counter : {0} \cup Codes]
Below(rows) == \E n \in Nat : \A f \in rows : f.id <= n
OneApp == \A f, g \in U!Apps(uFactors) : f = g
SameMark == \A f, g \in U!Apps(uFactors) : f.counter = g.counter
RowsInv ==
    /\ uFactors \subseteq RowType /\ Below(uFactors)
    /\ \A f, g \in uFactors : f.id = g.id => f = g
    /\ uIndex # "none" => uLegacy.state # "on" /\ OneApp
    /\ \A p \in U!Procs : /\ Moved(p) => uLegacy.state = "none"
                          /\ uPc[p] = "collapse" => SameMark
                          /\ Single(p) => OneApp

(* The authenticator and the passkeys of the older version are there.        *)
HadInv ==
    /\ uHad.app \in BOOLEAN /\ (uHad.app <=> uLegacy.state = "on" \/ U!Apps(uFactors) # {})
    /\ \A f \in uHad.passkeys : f \in uFactors /\ ~f.app

(* A code that was accepted is not above every watermark.                    *)
Covered(t) == (uLegacy.state = "on" /\ t <= uLegacy.counter) \/ \E f \in U!Apps(uFactors) : t <= f.counter
CodesInv ==
    /\ uCodes \in [Codes -> {0, 1}]
    /\ \A t \in Codes : uCodes[t] = 1 => Covered(t)

AuditInv ==
    \A p \in U!Procs :
        /\ uPc[p] = "redact" => /\ uTodo[p] \in Seq(Records)
                                /\ \A r \in U!Exposed : \E i \in 1 .. Len(uTodo[p]) : uTodo[p][i] = r
        /\ Redacted(p) => U!Exposed = {}

(* What is still to be sealed is plain, and stands in the list once.         *)
KeysInv ==
    /\ uKeys = [h \in TlsHosts |-> uKeys[h]] /\ U!KeysReadable
    /\ uSecrets.enc = 0 => \A h \in TlsHosts : uKeys[h] = <<>>
    /\ uPc["server"] \in {"keys", "seal"} => uSecrets.enc # 0
    /\ uPc["server"] = "seal" =>
         /\ uTodo["server"] \in Seq(TlsHosts)
         /\ \A i \in 1 .. Len(uTodo["server"]) : uKeys[uTodo["server"][i]] = <<>>
         /\ \A i, j \in 1 .. Len(uTodo["server"]) : uTodo["server"][i] = uTodo["server"][j] => i = j

(* No session is ahead of the account, and after a reset none is behind it.  *)
Reads == [pw : Nat, epoch : Nat, row : BOOLEAN]
UpToDate(s) == s.row /\ s.epoch = uAccount.epoch => s.pw = uAccount.pw
SessionInv ==
    /\ uAccount \in [pw : Nat, epoch : Nat] /\ uLogin \in Reads /\ uSession \in Reads
    /\ uLogin.epoch <= uAccount.epoch /\ uSession.epoch <= uAccount.epoch
    /\ uPc["cli"] = "done" => UpToDate(uLogin) /\ UpToDate(uSession)

StartInv ==
    /\ U!BoundsOK /\ U!TypeOK /\ ~uBlocked
    /\ StageInv /\ RowsInv /\ HadInv /\ CodesInv /\ AuditInv /\ KeysInv /\ SessionInv

-----------------------------------------------------------------------------
(* Finite sets of numbers, and the lists made of finite sets.                *)
LEMMA StartSizes ==
    \A X : U!IsFiniteSet(X) = IsFiniteSet(X) /\ U!Cardinality(X) = Cardinality(X)
<1>1. \A X : U!IsFiniteSet(X) = IsFiniteSet(X)
  BY DEF U!IsFiniteSet, IsFiniteSet
<1>2. \A X : U!Cardinality(X) = Cardinality(X)
  BY <1>1 DEF U!Cardinality, Cardinality
<1> QED
  BY <1>1, <1>2

LEMMA LeastNumber ==
    ASSUME NEW T \in SUBSET Nat, T # {}
    PROVE  \E x \in T : \A y \in T : x <= y
<1>1. PICK x \in T : \A y \in T : ~(<<y, x>> \in OpToRel(<, Nat))
  BY WFMin, NatLessThanWellFounded
<1>2. \A y \in T : ~(y < x)
  BY <1>1 DEF OpToRel
<1>3. x \in Nat /\ \A y \in T : y \in Nat
  OBVIOUS
<1>4. \A y \in T : x <= y
  BY <1>2, <1>3
<1> QED
  BY <1>4

(* A finite set of numbers has an upper bound: the smallest one without      *)
(* would have a smaller one without.                                         *)
LEMMA FiniteBelow ==
    ASSUME NEW Xs \in SUBSET Nat, IsFiniteSet(Xs)
    PROVE  \E n \in Nat : \A x \in Xs : x <= n
<1> DEFINE Bounded(X) == \E n \in Nat : \A x \in X : x <= n
           T == {k \in Nat : \E X \in SUBSET Nat : IsFiniteSet(X) /\ Cardinality(X) = k /\ ~Bounded(X)}
<1>1. ASSUME T # {} PROVE FALSE
  <2>1. PICK k \in T : \A j \in T : k <= j
    BY <1>1, LeastNumber
  <2>2. PICK X \in SUBSET Nat : IsFiniteSet(X) /\ Cardinality(X) = k /\ ~Bounded(X)
    BY <2>1
  <2>3. PICK x \in X : TRUE
    BY <2>2
  <2>4. IsFiniteSet(X \ {x}) /\ Cardinality(X \ {x}) = k - 1 /\ k \in Nat
    BY <2>2, <2>3, FS_RemoveElement
  <2>5. Cardinality(X \ {x}) \in Nat
    BY <2>4, FS_CardinalityType
  <2>6. Bounded(X \ {x})
    <3>1. ASSUME ~Bounded(X \ {x}) PROVE Cardinality(X \ {x}) \in T
      BY <2>2, <2>4, <2>5, <3>1
    <3>2. Cardinality(X \ {x}) \in T => FALSE
      BY <2>1, <2>4
    <3> QED
      BY <3>1, <3>2
  <2>7. PICK n \in Nat : \A y \in X \ {x} : y <= n
    BY <2>6
  <2>8. n + x \in Nat /\ \A y \in X : y <= n + x
    BY <2>7, <2>3
  <2> QED
    BY <2>2, <2>8
<1>2. Cardinality(Xs) \in Nat
  BY FS_CardinalityType
<1> QED
  BY <1>1, <1>2

LEMMA MaxIs ==
    ASSUME NEW N \in Nat, NEW X \in SUBSET (0 .. N), X # {}
    PROVE  U!Max(X) \in X /\ \A y \in X : y <= U!Max(X)
<1> DEFINE T == {N - x : x \in X}
<1>1. T \in SUBSET Nat /\ T # {}
  <2>1. \A x \in X : x \in 0 .. N /\ N - x \in Nat
    OBVIOUS
  <2>2. T # {}
    OBVIOUS
  <2> QED
    BY <2>1, <2>2
<1>2. PICK t \in T : \A y \in T : t <= y
  BY <1>1, LeastNumber
<1>3. PICK x \in X : t = N - x
  BY <1>2
<1>4. \A y \in X : y <= x
  <2>1. TAKE y \in X
  <2>2. N - y \in T
    OBVIOUS
  <2>3. x \in 0 .. N /\ y \in 0 .. N /\ N - x <= N - y
    BY <2>2, <1>2, <1>3
  <2> QED
    BY <2>3
<1> QED
  BY <1>3, <1>4 DEF U!Max

(* A list of a finite set names every member once.                           *)
LEMMA ListIs ==
    ASSUME NEW Xs, IsFiniteSet(Xs)
    PROVE  /\ U!ToList(Xs) \in Seq(Xs)
           /\ \A x \in Xs : \E i \in 1 .. Len(U!ToList(Xs)) : U!ToList(Xs)[i] = x
           /\ \A i, j \in 1 .. Len(U!ToList(Xs)) : U!ToList(Xs)[i] = U!ToList(Xs)[j] => i = j
<1> DEFINE n == Cardinality(Xs)
           f == U!ToList(Xs)
<1>1. n \in Nat /\ ExistsBijection(1 .. n, Xs)
  BY FS_CardinalityType
<1>2. PICK g \in [1 .. n -> Xs] : U!IsInjective(g)
  <2>1. PICK g : g \in Bijection(1 .. n, Xs)
    BY <1>1, Zenon DEF ExistsBijection
  <2> QED
    BY <2>1 DEF Bijection, Injection, IsInjective, U!IsInjective
<1>3. f \in [1 .. n -> Xs] /\ U!IsInjective(f)
  BY <1>2, StartSizes DEF U!ToList, U!SetToSeq
<1>4. f \in Seq(Xs) /\ Len(f) = n
  BY <1>1, <1>3
<1>5. f \in Injection(1 .. n, Xs)
  BY <1>3 DEF Injection, IsInjective, U!IsInjective
<1>6. IsFiniteSet(1 .. n) /\ Cardinality(1 .. n) = n
  BY <1>1, FS_Interval
<1>7. f \in Surjection(1 .. n, Xs)
  BY <1>1, <1>5, <1>6, FS_Injection, Zenon
<1>8. \A x \in Xs : \E i \in 1 .. n : f[i] = x
  BY <1>7 DEF Surjection
<1>9. \A i, j \in 1 .. n : f[i] = f[j] => i = j
  BY <1>3 DEF U!IsInjective
<1> QED
  BY <1>4, <1>8, <1>9

-----------------------------------------------------------------------------
(* Frames: what a step of one process leaves alone.                          *)
Stages == Common \cup ServerOnly \cup CliOnly

LEMMA StageStep ==
    ASSUME StartInv, NEW p \in U!Procs, NEW to \in Stages, U!Goto(p, to)
    PROVE  /\ uPc' \in [U!Procs -> Stages]
           /\ \A q \in U!Procs : uPc'[q] = IF q = p THEN to ELSE uPc[q]
<1>1. uPc \in [U!Procs -> Stages]
  BY DEF StartInv, StageInv, Stages
<1> QED
  BY <1>1 DEF U!Goto

LEMMA StageKept ==
    ASSUME StartInv, NEW p \in U!Procs, NEW to \in Stages, U!Goto(p, to),
           p = "server" => to \notin CliOnly, p = "cli" => to \notin ServerOnly,
           uStarts' \in Nat, uStarts' >= uStarts, uStarts' > 0,
           uTodo' = [q \in U!Procs |-> uTodo'[q]]
    PROVE  StageInv'
<1>1. /\ uPc' \in [U!Procs -> Stages]
      /\ \A q \in U!Procs : uPc'[q] = IF q = p THEN to ELSE uPc[q]
  BY StageStep
<1>2. uPc["server"] \notin CliOnly /\ uPc["cli"] \notin ServerOnly
  BY DEF StartInv, StageInv
<1>3. "server" \in U!Procs /\ "cli" \in U!Procs
  BY DEF U!Procs
<1>4. uPc'["server"] \notin CliOnly /\ uPc'["cli"] \notin ServerOnly
  BY <1>1, <1>2, <1>3
<1> QED
  BY <1>1, <1>4 DEF StageInv, Stages

(* A process that is under way has counted its start.                        *)
LEMMA Started ==
    ASSUME StartInv, NEW p \in U!Procs, uPc[p] # "down"
    PROVE  uStarts \in Nat /\ uStarts > 0
  BY DEF StartInv, StageInv, U!TypeOK, U!BoundsOK

LEMMA RowsKept ==
    ASSUME StartInv, NEW p \in U!Procs, NEW to \in Stages, U!Goto(p, to),
           UNCHANGED <<uLegacy, uFactors, uIndex, uHad, uCodes>>,
           Single(p) \/ to \in {"down", "move"}
    PROVE  RowsInv' /\ HadInv' /\ CodesInv'
<1>1. \A q \in U!Procs : uPc'[q] = IF q = p THEN to ELSE uPc[q]
  BY StageStep
<1>2. RowsInv /\ HadInv /\ CodesInv
  BY DEF StartInv
<1>3. /\ U!Apps(uFactors)' = U!Apps(uFactors) /\ OneApp' = OneApp /\ SameMark' = SameMark
      /\ Below(uFactors)' = Below(uFactors)
  BY DEF U!Apps, OneApp, SameMark, Below
<1>4. HadInv'
  BY <1>2, <1>3 DEF HadInv
<1>5. CodesInv'
  BY <1>2, <1>3 DEF CodesInv, Covered
<1>6. Single(p) => Moved(p) /\ OneApp /\ SameMark
  BY <1>2 DEF Single, Moved, RowsInv, OneApp, SameMark
<1>7. \A q \in U!Procs : /\ Moved(q)' => uLegacy.state = "none"
                         /\ uPc'[q] = "collapse" => SameMark
                         /\ Single(q)' => OneApp
  <2>1. TAKE q \in U!Procs
  <2>2. CASE q = p /\ to \in {"down", "move"}
    BY <2>2, <1>1 DEF Moved, Single
  <2>3. CASE q = p /\ Single(p)
    BY <2>3, <1>2, <1>6 DEF RowsInv
  <2>4. CASE q # p
    BY <2>4, <1>1, <1>2 DEF RowsInv, Moved, Single
  <2> QED
    BY <2>2, <2>3, <2>4
<1>8. RowsInv'
  BY <1>2, <1>3, <1>7 DEF RowsInv
<1> QED
  BY <1>4, <1>5, <1>8

LEMMA AuditKept ==
    ASSUME StartInv, NEW p \in U!Procs, NEW to \in Stages, U!Goto(p, to), UNCHANGED uAudit,
           \A q \in U!Procs : q # p => uTodo'[q] = uTodo[q],
           to # "redact", Redacted(p) \/ to \in {"down", "move", "raise", "collapse", "drop", "index", "audit"}
    PROVE  AuditInv'
<1>1. \A q \in U!Procs : uPc'[q] = IF q = p THEN to ELSE uPc[q]
  BY StageStep
<1>2. AuditInv /\ U!Exposed' = U!Exposed
  BY DEF StartInv, U!Exposed
<1>3. Redacted(p)' => U!Exposed = {}
  BY <1>1, <1>2 DEF Redacted, AuditInv, ServerOnly, CliOnly
<1>4. \A q \in U!Procs : q # p => Redacted(q)' = Redacted(q)
  BY <1>1 DEF Redacted
<1> QED
  BY <1>1, <1>2, <1>3, <1>4 DEF AuditInv

LEMMA KeysKept ==
    ASSUME StartInv, NEW p \in U!Procs, NEW to \in Stages, U!Goto(p, to), UNCHANGED <<uKeys, uSecrets>>,
           p = "server" => to \notin {"keys", "seal"}, p # "server" => uTodo'["server"] = uTodo["server"]
    PROVE  KeysInv'
<1>1. \A q \in U!Procs : uPc'[q] = IF q = p THEN to ELSE uPc[q]
  BY StageStep
<1>2. "server" \in U!Procs
  BY DEF U!Procs
<1> QED
  BY <1>1, <1>2 DEF StartInv, KeysInv, U!KeysReadable

LEMMA SessionKept ==
    ASSUME StartInv, NEW p \in U!Procs, NEW to \in Stages, U!Goto(p, to), UNCHANGED <<uAccount, uSession>>,
           uLogin' \in {uLogin, U!None}, p = "cli" => to # "done"
    PROVE  SessionInv'
<1>1. \A q \in U!Procs : uPc'[q] = IF q = p THEN to ELSE uPc[q]
  BY StageStep
<1>2. "cli" \in U!Procs
  BY DEF U!Procs
<1>3. SessionInv
  BY DEF StartInv
<1>4. U!None \in Reads /\ U!None.epoch = 0 /\ ~U!None.row
  BY DEF U!None, Reads
<1> QED
  BY <1>1, <1>2, <1>3, <1>4 DEF SessionInv, UpToDate, Reads

(* A step that only moves a process that has the rows behind it.             *)
LEMMA OnlyMoves ==
    ASSUME StartInv, NEW p \in U!Procs, NEW to \in Stages, U!Goto(p, to),
           p = "server" => to \notin CliOnly \cup {"keys", "seal"}, p = "cli" => to \notin ServerOnly \cup {"done"},
           UNCHANGED <<uLegacy, uFactors, uIndex, uHad, uCodes, uAudit, uKeys, uAccount, uSession>>,
           \A q \in U!Procs : q # p => uTodo'[q] = uTodo[q], uTodo' = [q \in U!Procs |-> uTodo'[q]],
           uLogin' \in {uLogin, U!None},
           Single(p) \/ to \in {"down", "move"},
           to # "redact", Redacted(p) \/ to \in {"down", "move", "raise", "collapse", "drop", "index", "audit"},
           uStarts' \in Nat, uStarts' >= uStarts, uStarts' > 0
    PROVE  /\ StageInv' /\ RowsInv' /\ HadInv' /\ CodesInv' /\ AuditInv' /\ SessionInv'
           /\ UNCHANGED uSecrets => KeysInv'
<1>1. StageInv' /\ RowsInv' /\ HadInv' /\ CodesInv' /\ AuditInv' /\ SessionInv'
  BY StageKept, RowsKept, AuditKept, SessionKept
<1>2. p # "server" => uTodo'["server"] = uTodo["server"]
  BY DEF U!Procs
<1> QED
  BY <1>1, <1>2, KeysKept

-----------------------------------------------------------------------------
(* The steps that touch neither factors, audit log nor keys.                 *)
LEMMA TodoIs ==
    ASSUME StartInv, NEW p \in U!Procs, NEW list, uTodo' = [uTodo EXCEPT ![p] = list]
    PROVE  /\ uTodo' = [q \in U!Procs |-> uTodo'[q]] /\ uTodo'[p] = list
           /\ \A q \in U!Procs : q # p => uTodo'[q] = uTodo[q]
  BY DEF StartInv, StageInv

LEMMA TodoStays ==
    ASSUME StartInv, UNCHANGED uTodo
    PROVE  uTodo' = [q \in U!Procs |-> uTodo'[q]] /\ \A q \in U!Procs : uTodo'[q] = uTodo[q]
  BY DEF StartInv, StageInv

LEMMA OpenKeeps ==
    ASSUME StartInv, NEW p \in U!Procs, U!Open(p)
    PROVE  StartInv'
<1>1. /\ U!Goto(p, "move") /\ uStarts' = uStarts + 1 /\ uStarts < MaxStarts
      /\ UNCHANGED <<uLegacy, uFactors, uIndex, uAudit, uRoles, uLocal, uSecrets, uKeys, uAccount, uLogin, uSession, uCodes,
                     uTodo, uHad, uBlocked, uFaults>>
  BY DEF U!Open, U!Goto, U!stored, U!signedIn
<1>2. uStarts \in Nat /\ uStarts' \in Nat /\ uStarts' >= uStarts /\ uStarts' > 0 /\ uStarts' \in 0 .. MaxStarts
  BY <1>1 DEF StartInv, U!TypeOK, U!BoundsOK
<1>3. U!TypeOK'
  BY <1>1, <1>2 DEF StartInv, U!TypeOK
<1>4. "move" \in Stages /\ "move" \notin CliOnly \cup ServerOnly \cup {"keys", "seal", "done"}
  BY DEF Stages, Common, CliOnly, ServerOnly
<1> QED
  BY <1>1, <1>2, <1>3, <1>4, OnlyMoves, TodoStays DEF StartInv, U!BoundsOK

LEMMA KillKeeps ==
    ASSUME StartInv, NEW p \in U!Procs, U!Kill(p)
    PROVE  StartInv'
<1>1. /\ U!Goto(p, "down") /\ uPc[p] # "down" /\ uFaults' = uFaults + 1 /\ uFaults < MaxFaults
      /\ UNCHANGED <<uLegacy, uFactors, uIndex, uAudit, uRoles, uLocal, uSecrets, uKeys, uAccount, uSession, uCodes,
                     uTodo, uHad, uBlocked, uStarts>>
      /\ uLogin' \in {uLogin, U!None}
  BY DEF U!Kill, U!stored
<1>2. uStarts \in Nat /\ uStarts > 0
  BY <1>1, Started
<1>3. U!TypeOK'
  BY <1>1 DEF StartInv, U!TypeOK, U!BoundsOK
<1>4. "down" \in Stages /\ "down" \notin CliOnly \cup ServerOnly \cup {"keys", "seal", "done"}
  BY DEF Stages, Common, CliOnly, ServerOnly
<1> QED
  BY <1>1, <1>2, <1>3, <1>4, OnlyMoves, TodoStays DEF StartInv, U!BoundsOK

LEMMA FailsKeeps ==
    ASSUME StartInv, NEW p \in U!Procs, U!Fails(p)
    PROVE  StartInv'
<1> DEFINE to == IF uPc[p] \in {"keys", "seal"} THEN "up" ELSE "down"
<1>1. /\ U!Goto(p, to) /\ uPc[p] # "down" /\ uFaults' = uFaults + 1 /\ uFaults < MaxFaults
      /\ UNCHANGED <<uLegacy, uFactors, uIndex, uAudit, uRoles, uLocal, uSecrets, uKeys, uAccount, uLogin, uSession, uCodes,
                     uTodo, uHad, uBlocked, uStarts>>
  BY DEF U!Fails, U!stored, U!signedIn
<1>2. uStarts \in Nat /\ uStarts > 0
  BY <1>1, Started
<1>3. U!TypeOK'
  BY <1>1 DEF StartInv, U!TypeOK, U!BoundsOK
<1>4. /\ to \in Stages /\ to \notin CliOnly \cup {"keys", "seal", "done"} /\ (p = "cli" => to \notin ServerOnly)
      /\ to # "redact" /\ (Single(p) \/ to \in {"down", "move"})
      /\ Redacted(p) \/ to \in {"down", "move", "raise", "collapse", "drop", "index", "audit"}
  BY DEF Stages, Common, CliOnly, ServerOnly, Single, Redacted, StartInv, StageInv
<1> HIDE DEF to
<1> QED
  BY <1>1, <1>2, <1>3, <1>4, OnlyMoves, TodoStays DEF StartInv, U!BoundsOK

LEMMA SeedKeeps ==
    ASSUME StartInv, NEW p \in U!Procs, U!seedBuiltinRoles(p)
    PROVE  StartInv'
<1>1. UNCHANGED <<uLegacy, uFactors, uIndex, uAudit, uLocal, uSecrets, uKeys, uAccount, uLogin, uSession, uCodes,
                  uHad, uBlocked, uStarts, uFaults>>
  BY DEF U!seedBuiltinRoles, U!signedIn, U!bounds
<1>2. /\ uPc[p] \in {"roles", "insert", "sections"}
      /\ \/ UNCHANGED uRoles
         \/ \E b : uRoles' = [uRoles EXCEPT ![b] = "bare"] \/ uRoles' = [uRoles EXCEPT ![b] = "whole"]
      /\ UNCHANGED uTodo \/ uTodo' = [uTodo EXCEPT ![p] = Tail(uTodo[p])]
  BY DEF U!seedBuiltinRoles
<1>3. uStarts \in Nat /\ uStarts > 0
  BY <1>2, Started
<1>4. U!TypeOK'
  BY <1>1, <1>2 DEF StartInv, U!TypeOK
<1>5. uTodo' = [q \in U!Procs |-> uTodo'[q]] /\ \A q \in U!Procs : q # p => uTodo'[q] = uTodo[q]
  BY <1>2, TodoIs, TodoStays
<1>6. Single(p) /\ Redacted(p)
  BY <1>2 DEF Single, Redacted
<1>7. ASSUME NEW to \in Stages, U!Goto(p, to), to # "redact",
             p = "server" => to \notin CliOnly \cup {"keys", "seal"}, p = "cli" => to \notin ServerOnly \cup {"done"}
      PROVE  StartInv'
  BY <1>1, <1>3, <1>4, <1>5, <1>6, <1>7, OnlyMoves DEF StartInv, U!BoundsOK
<1>8. PICK to \in {"local", "password", "insert", "sections", "down", "roles"} :
             /\ U!Goto(p, to)
             /\ to = "local" => p = "server"
             /\ to = "password" => p # "server"
  <2>1. uPc = [q \in U!Procs |-> uPc[q]]
    BY DEF StartInv, StageInv
  <2>2. UNCHANGED uPc => U!Goto(p, uPc[p])
    BY <2>1 DEF U!Goto
  <2> QED
    BY <2>2 DEF U!seedBuiltinRoles
<1>9. to \in Stages
  BY DEF Stages, Common, ServerOnly, CliOnly
<1> QED
  BY <1>7, <1>8, <1>9 DEF ServerOnly, CliOnly, U!Procs

LEMMA LocalHostKeeps ==
    ASSUME StartInv, U!EnsureLocalHost
    PROVE  StartInv'
<1>1. /\ uPc["server"] = "local" /\ uLocal' = TRUE /\ U!Goto("server", "jwt")
      /\ UNCHANGED <<uLegacy, uFactors, uIndex, uAudit, uRoles, uSecrets, uKeys, uAccount, uLogin, uSession, uCodes,
                     uTodo, uHad, uBlocked, uStarts, uFaults>>
  BY DEF U!EnsureLocalHost, U!signedIn, U!bounds
<1>2. "server" \in U!Procs /\ "jwt" \in Stages /\ "jwt" \notin CliOnly \cup {"keys", "seal", "done"}
  BY DEF U!Procs, Stages, CliOnly, ServerOnly
<1>3. uStarts \in Nat /\ uStarts > 0
  BY <1>1, <1>2, Started
<1>4. U!TypeOK'
  BY <1>1 DEF StartInv, U!TypeOK
<1>5. Single("server") /\ Redacted("server")
  BY <1>1 DEF Single, Redacted, ServerOnly
<1> QED
  BY <1>1, <1>2, <1>3, <1>4, <1>5, OnlyMoves, TodoStays DEF StartInv, U!BoundsOK

(* A secret that is stored stays: host keys are sealed with it.              *)
LEMMA SecretKeeps ==
    ASSUME StartInv, U!loadOrCreateSecret
    PROVE  StartInv'
<1>1. UNCHANGED <<uLegacy, uFactors, uIndex, uAudit, uRoles, uLocal, uKeys, uAccount, uLogin, uSession, uCodes,
                  uTodo, uHad, uBlocked, uStarts, uFaults>>
  BY DEF U!loadOrCreateSecret, U!signedIn, U!bounds
<1>2. "server" \in U!Procs /\ uPc["server"] \in {"jwt", "enc"}
  BY DEF U!Procs, U!loadOrCreateSecret
<1>3. uStarts \in Nat /\ uStarts > 0
  BY <1>2, Started
<1>4. Single("server") /\ Redacted("server")
  BY <1>2 DEF Single, Redacted, ServerOnly
<1>5. uSecrets \in [jwt : 0 .. uStarts, enc : 0 .. uStarts] /\ KeysInv
  BY DEF StartInv, U!TypeOK
<1>6. CASE uPc["server"] = "jwt"
  <2>1. uSecrets' = [uSecrets EXCEPT !.jwt = U!Loaded("jwt")] /\ U!Goto("server", "enc")
    BY <1>6 DEF U!loadOrCreateSecret
  <2>2. uSecrets' \in [jwt : 0 .. uStarts, enc : 0 .. uStarts] /\ uSecrets'.enc = uSecrets.enc
    BY <2>1, <1>3, <1>5 DEF U!Loaded
  <2>3. "enc" \in Stages /\ "enc" \notin CliOnly \cup {"keys", "seal", "done"}
    BY DEF Stages, CliOnly, ServerOnly
  <2>4. U!TypeOK'
    BY <1>1, <2>2 DEF StartInv, U!TypeOK
  <2>5. StageInv' /\ RowsInv' /\ HadInv' /\ CodesInv' /\ AuditInv' /\ SessionInv'
    BY <1>1, <1>2, <1>3, <1>4, <2>1, <2>3, OnlyMoves, TodoStays
  <2>6. uPc'["server"] = "enc"
    BY <2>1, <2>3, <1>2, StageStep
  <2>7. KeysInv'
    BY <1>1, <1>5, <2>2, <2>6 DEF KeysInv, U!KeysReadable
  <2> QED
    BY <1>1, <2>4, <2>5, <2>7 DEF StartInv, U!BoundsOK
<1>7. CASE uPc["server"] = "enc"
  <2>1. uSecrets' = [uSecrets EXCEPT !.enc = U!Loaded("enc")] /\ U!Goto("server", "keys")
    BY <1>7 DEF U!loadOrCreateSecret
  <2>2. /\ uSecrets' \in [jwt : 0 .. uStarts, enc : 0 .. uStarts] /\ uSecrets'.enc # 0
        /\ uSecrets.enc # 0 => uSecrets'.enc = uSecrets.enc
    BY <2>1, <1>3, <1>5 DEF U!Loaded
  <2>3. "keys" \in Stages /\ "keys" \notin CliOnly
    BY DEF Stages, CliOnly, ServerOnly
  <2>4. U!TypeOK'
    BY <1>1, <2>2 DEF StartInv, U!TypeOK
  <2>5. StageInv' /\ RowsInv' /\ HadInv' /\ CodesInv' /\ AuditInv' /\ SessionInv'
    BY <1>1, <1>2, <1>3, <1>4, <2>1, <2>3, StageKept, RowsKept, AuditKept, SessionKept, TodoStays
  <2>6. uPc'["server"] = "keys"
    BY <2>1, <2>3, <1>2, StageStep
  <2>7. KeysInv'
    BY <1>1, <1>5, <2>2, <2>6 DEF KeysInv, U!KeysReadable
  <2> QED
    BY <1>1, <2>4, <2>5, <2>7 DEF StartInv, U!BoundsOK
<1> QED
  BY <1>2, <1>6, <1>7

-----------------------------------------------------------------------------
(* The reset, and the sign-ins of the running server.                        *)
LEMMA ResetKeeps ==
    ASSUME StartInv, U!applyResetTo
    PROVE  StartInv'
<1>1. UNCHANGED <<uLegacy, uFactors, uIndex, uAudit, uRoles, uLocal, uSecrets, uKeys, uTodo, uLogin, uCodes,
                  uHad, uBlocked, uStarts, uFaults>>
  BY DEF U!applyResetTo, U!stored, U!bounds
<1>2. "cli" \in U!Procs /\ uPc["cli"] \in {"password", "sessions", "epoch"}
  BY DEF U!Procs, U!applyResetTo
<1>3. uStarts \in Nat /\ uStarts > 0 /\ U!TypeOK'
  <2>1. uStarts \in Nat /\ uStarts > 0
    BY <1>2, Started
  <2> QED
    BY <2>1, <1>1 DEF StartInv, U!TypeOK
<1>4. Single("cli") /\ Redacted("cli")
  BY <1>2 DEF Single, Redacted, CliOnly
<1>5. PICK to \in {"sessions", "epoch", "done"} : U!Goto("cli", to)
  BY DEF U!applyResetTo
<1>6. to \in Stages /\ to \notin ServerOnly /\ to # "redact" /\ to \notin {"keys", "seal"}
  BY DEF Stages, CliOnly, ServerOnly
<1>7. StageInv' /\ RowsInv' /\ HadInv' /\ CodesInv' /\ AuditInv' /\ KeysInv'
  BY <1>1, <1>2, <1>3, <1>4, <1>5, <1>6, StageKept, RowsKept, AuditKept, KeysKept, TodoStays
<1>8. uPc'["cli"] = to /\ SessionInv
  BY <1>2, <1>5, <1>6, StageStep DEF StartInv
<1>9. SessionInv'
  <2>1. CASE uPc["cli"] = "password"
    <3>1. uAccount' = [uAccount EXCEPT !.pw = uAccount.pw + 1] /\ UNCHANGED uSession /\ U!Goto("cli", "sessions")
      BY <2>1 DEF U!applyResetTo
    <3>2. uPc'["cli"] = "sessions"
      BY <3>1, <1>2, StageStep DEF Stages, CliOnly
    <3> QED
      BY <3>1, <3>2, <1>1, <1>8 DEF SessionInv, Reads
  <2>2. CASE uPc["cli"] = "sessions"
    <3>1. uSession' = [uSession EXCEPT !.row = FALSE] /\ UNCHANGED uAccount /\ U!Goto("cli", "epoch")
      BY <2>2 DEF U!applyResetTo
    <3>2. uPc'["cli"] = "epoch"
      BY <3>1, <1>2, StageStep DEF Stages, CliOnly
    <3> QED
      BY <3>1, <3>2, <1>1, <1>8 DEF SessionInv, Reads
  <2>3. CASE uPc["cli"] = "epoch"
    <3>1. uAccount' = [uAccount EXCEPT !.epoch = uAccount.epoch + 1] /\ UNCHANGED uSession
      BY <2>3 DEF U!applyResetTo, U!BumpSessionEpoch
    <3> QED
      BY <3>1, <1>1, <1>8 DEF SessionInv, Reads, UpToDate
  <2> QED
    BY <1>2, <2>1, <2>2, <2>3
<1> QED
  BY <1>1, <1>3, <1>7, <1>9 DEF StartInv, U!BoundsOK

LEMMA SignInKeeps ==
    ASSUME StartInv, U!ReadAccount \/ U!CreateSession
    PROVE  StartInv'
<1>1. UNCHANGED <<uPc, uLegacy, uFactors, uIndex, uAudit, uRoles, uLocal, uSecrets, uKeys, uTodo, uAccount, uCodes,
                  uHad, uBlocked, uStarts, uFaults>>
  BY DEF U!ReadAccount, U!CreateSession, U!stored, U!bounds
<1>2. SessionInv /\ U!None \in Reads /\ U!None.epoch = 0 /\ ~U!None.row
  BY DEF U!None, Reads, StartInv
<1>3. SessionInv'
  <2>1. CASE U!ReadAccount
    BY <2>1, <1>1, <1>2 DEF U!ReadAccount, SessionInv, UpToDate, Reads
  <2>2. CASE U!CreateSession
    BY <2>2, <1>1, <1>2 DEF U!CreateSession, SessionInv, UpToDate, Reads
  <2> QED
    BY <2>1, <2>2
<1>4. U!TypeOK' /\ StageInv' /\ U!BoundsOK'
  BY <1>1 DEF StartInv, U!TypeOK, StageInv, U!BoundsOK
<1>5. RowsInv' /\ HadInv' /\ CodesInv'
  BY <1>1 DEF StartInv, RowsInv, HadInv, CodesInv, Covered, Moved, Single, OneApp, SameMark, Below, U!Apps
<1>6. AuditInv' /\ KeysInv'
  BY <1>1 DEF StartInv, AuditInv, KeysInv, Redacted, U!Exposed, U!KeysReadable
<1> QED
  BY <1>1, <1>3, <1>4, <1>5, <1>6 DEF StartInv

(* The rows of the audit log: the list a process goes through has every      *)
(* record that is still exposed.                                             *)
LEMMA RedactKeeps ==
    ASSUME StartInv, NEW p \in U!Procs, U!redactWebhookAudit(p)
    PROVE  StartInv'
<1>1. UNCHANGED <<uLegacy, uFactors, uIndex, uRoles, uLocal, uSecrets, uKeys, uAccount, uLogin, uSession, uCodes,
                  uHad, uBlocked, uStarts, uFaults>>
  BY DEF U!redactWebhookAudit, U!signedIn, U!bounds
<1>2. uPc[p] \in {"audit", "redact"} /\ AuditInv /\ uAudit \in [Records -> {"url", "host"}]
  BY DEF U!redactWebhookAudit, StartInv, U!TypeOK
<1>3. uStarts \in Nat /\ uStarts > 0
  BY <1>2, Started
<1>4. Single(p)
  BY <1>2 DEF Single
<1>5. ASSUME NEW to \in {"redact", "roles"}, U!Goto(p, to), uAudit' \in [Records -> {"url", "host"}], AuditInv',
             uTodo' = [q \in U!Procs |-> uTodo'[q]], \A q \in U!Procs : q # p => uTodo'[q] = uTodo[q]
      PROVE  StartInv'
  <2>1. to \in Stages /\ to \notin ServerOnly \cup CliOnly \cup {"keys", "seal", "done"}
    BY DEF Stages, Common, ServerOnly, CliOnly
  <2>2. p # "server" => uTodo'["server"] = uTodo["server"]
    BY <1>5 DEF U!Procs
  <2>3. StageInv' /\ RowsInv' /\ HadInv' /\ CodesInv' /\ KeysInv' /\ SessionInv'
    BY <1>1, <1>3, <1>4, <1>5, <2>1, <2>2, StageKept, RowsKept, KeysKept, SessionKept
  <2>4. U!TypeOK'
    BY <1>1, <1>5 DEF StartInv, U!TypeOK
  <2> QED
    BY <1>1, <1>5, <2>3, <2>4 DEF StartInv, U!BoundsOK
<1>6. ASSUME uPc[p] = "audit", UNCHANGED uAudit, uTodo' = [uTodo EXCEPT ![p] = U!ToList(U!Exposed)],
             U!Goto(p, "redact")
      PROVE  StartInv'
  <2>1. IsFiniteSet(U!Exposed) /\ U!Exposed \subseteq Records
    BY StartSizes, FS_Subset DEF StartInv, U!BoundsOK, U!Exposed
  <2>2. /\ uTodo' = [q \in U!Procs |-> uTodo'[q]] /\ uTodo'[p] = U!ToList(U!Exposed)
        /\ \A q \in U!Procs : q # p => uTodo'[q] = uTodo[q]
    BY <1>6, TodoIs
  <2>3. /\ uTodo'[p] \in Seq(Records)
        /\ \A r \in U!Exposed : \E i \in 1 .. Len(uTodo'[p]) : uTodo'[p][i] = r
    BY <2>1, <2>2, ListIs
  <2>4. U!Exposed' = U!Exposed
    BY <1>6 DEF U!Exposed
  <2>5. \A q \in U!Procs : uPc'[q] = IF q = p THEN "redact" ELSE uPc[q]
    BY <1>6, StageStep DEF Stages, Common
  <2>6. ASSUME NEW q \in U!Procs
        PROVE  /\ uPc'[q] = "redact" => /\ uTodo'[q] \in Seq(Records)
                                        /\ \A r \in U!Exposed' : \E i \in 1 .. Len(uTodo'[q]) : uTodo'[q][i] = r
               /\ Redacted(q)' => U!Exposed' = {}
    <3>1. CASE q = p
      BY <3>1, <2>3, <2>4, <2>5 DEF Redacted, ServerOnly, CliOnly
    <3>2. CASE q # p
      BY <3>2, <1>2, <2>2, <2>4, <2>5 DEF AuditInv, Redacted
    <3> QED
      BY <3>1, <3>2
  <2>7. AuditInv'
    BY <2>6 DEF AuditInv
  <2> QED
    BY <1>2, <1>5, <1>6, <2>2, <2>7
<1>7. ASSUME uPc[p] = "redact", uTodo[p] # <<>>, uAudit' = [uAudit EXCEPT ![Head(uTodo[p])] = "host"],
             uTodo' = [uTodo EXCEPT ![p] = Tail(uTodo[p])], UNCHANGED uPc
      PROVE  StartInv'
  <2> DEFINE list == uTodo[p]
  <2>1. list \in Seq(Records) /\ list # <<>> /\ \A r \in U!Exposed : \E i \in 1 .. Len(list) : list[i] = r
    BY <1>2, <1>7 DEF AuditInv
  <2>2. /\ uTodo' = [q \in U!Procs |-> uTodo'[q]] /\ uTodo'[p] = Tail(list)
        /\ \A q \in U!Procs : q # p => uTodo'[q] = uTodo[q]
    BY <1>7, TodoIs
  <2>3. U!Exposed' = U!Exposed \ {Head(list)} /\ uAudit' \in [Records -> {"url", "host"}]
    <3>1. Head(list) \in Records
      BY <2>1
    <3> HIDE DEF list
    <3>2. uAudit' = [uAudit EXCEPT ![Head(list)] = "host"]
      BY <1>7 DEF list
    <3> QED
      BY <1>2, <3>1, <3>2 DEF U!Exposed
  <2>4. /\ Tail(list) \in Seq(Records) /\ Len(Tail(list)) = Len(list) - 1 /\ Head(list) = list[1]
        /\ Len(list) \in Nat /\ \A i \in 1 .. Len(list) - 1 : Tail(list)[i] = list[i + 1]
    BY <2>1
  <2>5. \A r \in U!Exposed' : \E i \in 1 .. Len(Tail(list)) : Tail(list)[i] = r
    <3>1. TAKE r \in U!Exposed'
    <3>2. PICK i \in 1 .. Len(list) : list[i] = r
      BY <2>1, <2>3
    <3>3. i # 1
      BY <3>2, <2>3, <2>4
    <3>4. i - 1 \in 1 .. Len(Tail(list)) /\ Tail(list)[i - 1] = r
      BY <3>2, <3>3, <2>4
    <3> QED
      BY <3>4
  <2>6. AuditInv'
    BY <1>2, <1>7, <2>2, <2>3, <2>4, <2>5 DEF AuditInv, Redacted
  <2>7. U!Goto(p, "redact")
    BY <1>7 DEF U!Goto, StartInv, StageInv
  <2> QED
    BY <1>5, <2>2, <2>3, <2>6, <2>7
<1>8. ASSUME uPc[p] = "redact", uTodo[p] = <<>>, UNCHANGED uAudit, uTodo' = [uTodo EXCEPT ![p] = Builtins],
             U!Goto(p, "roles")
      PROVE  StartInv'
  <2>1. U!Exposed = {} /\ U!Exposed' = U!Exposed
    BY <1>2, <1>8 DEF AuditInv, U!Exposed
  <2>2. uTodo' = [q \in U!Procs |-> uTodo'[q]] /\ \A q \in U!Procs : q # p => uTodo'[q] = uTodo[q]
    BY <1>8, TodoIs
  <2>3. \A q \in U!Procs : uPc'[q] = IF q = p THEN "roles" ELSE uPc[q]
    BY <1>8, StageStep DEF Stages, Common
  <2>4. AuditInv'
    BY <1>2, <2>1, <2>2, <2>3 DEF AuditInv, Redacted
  <2> QED
    BY <1>2, <1>5, <1>8, <2>2, <2>4
<1> QED
  BY <1>6, <1>7, <1>8 DEF U!redactWebhookAudit, U!ToRedact

(* The host keys: what is in the list of the server is plain, so a seal is   *)
(* the only one on its key.                                                  *)
LEMMA SealKeeps ==
    ASSUME StartInv, U!EncryptPlaintextHostKeys
    PROVE  StartInv'
<1>1. UNCHANGED <<uLegacy, uFactors, uIndex, uAudit, uRoles, uLocal, uSecrets, uAccount, uLogin, uSession, uCodes,
                  uHad, uBlocked, uStarts, uFaults>>
  BY DEF U!EncryptPlaintextHostKeys, U!signedIn, U!bounds
<1>2. "server" \in U!Procs /\ uPc["server"] \in {"keys", "seal"} /\ KeysInv /\ uSecrets.enc # 0
  BY DEF U!Procs, U!EncryptPlaintextHostKeys, StartInv, KeysInv
<1>3. uStarts \in Nat /\ uStarts > 0
  BY <1>2, Started
<1>4. Single("server") /\ Redacted("server")
  BY <1>2 DEF Single, Redacted, ServerOnly
<1>5. ASSUME NEW to \in {"seal", "up"}, U!Goto("server", to), KeysInv',
             uTodo' = [q \in U!Procs |-> uTodo'[q]], \A q \in U!Procs : q # "server" => uTodo'[q] = uTodo[q]
      PROVE  StartInv'
  <2>1. to \in Stages /\ to \notin CliOnly /\ to # "redact" /\ to # "done"
    BY DEF Stages, ServerOnly, CliOnly
  <2>2. StageInv' /\ RowsInv' /\ HadInv' /\ CodesInv' /\ AuditInv' /\ SessionInv'
    BY <1>1, <1>2, <1>3, <1>4, <1>5, <2>1, StageKept, RowsKept, AuditKept, SessionKept
  <2>3. U!TypeOK'
    BY <1>1 DEF StartInv, U!TypeOK
  <2> QED
    BY <1>1, <1>5, <2>2, <2>3 DEF StartInv, U!BoundsOK
<1>6. ASSUME uPc["server"] = "keys", uTodo' = [uTodo EXCEPT !["server"] = U!ToList(U!Plaintext)],
             U!Goto("server", "seal"), UNCHANGED uKeys
      PROVE  StartInv'
  <2>1. IsFiniteSet(U!Plaintext) /\ U!Plaintext \subseteq TlsHosts
    BY StartSizes, FS_Subset DEF StartInv, U!BoundsOK, U!Plaintext
  <2>2. \A h \in U!Plaintext : uKeys[h] = <<>>
    BY <1>2 DEF KeysInv, U!KeysReadable, U!Plaintext, U!Last
  <2>3. /\ uTodo' = [q \in U!Procs |-> uTodo'[q]] /\ uTodo'["server"] = U!ToList(U!Plaintext)
        /\ \A q \in U!Procs : q # "server" => uTodo'[q] = uTodo[q]
    BY <1>2, <1>6, TodoIs
  <2> DEFINE list == U!ToList(U!Plaintext)
  <2>4. /\ list \in Seq(U!Plaintext)
        /\ \A i, j \in 1 .. Len(list) : list[i] = list[j] => i = j
    BY <2>1, ListIs
  <2>5. list \in Seq(TlsHosts) /\ \A i \in 1 .. Len(list) : list[i] \in U!Plaintext
    BY <2>1, <2>4
  <2>6. uPc'["server"] = "seal"
    BY <1>2, <1>6, StageStep DEF Stages, ServerOnly
  <2>7. KeysInv'
    <3> HIDE DEF list
    <3>1. uTodo'["server"] = list
      BY <2>3 DEF list
    <3>2. /\ uKeys = [h \in TlsHosts |-> uKeys[h]] /\ U!KeysReadable' /\ uSecrets'.enc # 0 /\ uKeys' = uKeys
      BY <1>1, <1>2, <1>6 DEF KeysInv, U!KeysReadable
    <3>3. \A i \in 1 .. Len(list) : uKeys[list[i]] = <<>>
      BY <2>2, <2>5
    <3>4. \A i \in 1 .. Len(uTodo'["server"]) : uKeys'[uTodo'["server"][i]] = <<>>
      BY <3>1, <3>2, <3>3
    <3>5. \A i, j \in 1 .. Len(uTodo'["server"]) : uTodo'["server"][i] = uTodo'["server"][j] => i = j
      BY <3>1, <2>4
    <3>6. uTodo'["server"] \in Seq(TlsHosts)
      BY <3>1, <2>5
    <3> QED
      BY <3>2, <3>4, <3>5, <3>6, <2>6 DEF KeysInv
  <2> QED
    BY <1>5, <1>6, <2>3, <2>7
<1>7. ASSUME uPc["server"] = "seal", uTodo["server"] # <<>>,
             uKeys' = [uKeys EXCEPT ![Head(uTodo["server"])] = Append(uKeys[Head(uTodo["server"])], uSecrets.enc)],
             uTodo' = [uTodo EXCEPT !["server"] = Tail(uTodo["server"])], UNCHANGED uPc
      PROVE  StartInv'
  <2>1. PICK list : list = uTodo["server"]
    OBVIOUS
  <2>2. /\ list \in Seq(TlsHosts) /\ list # <<>>
        /\ \A i \in 1 .. Len(list) : uKeys[list[i]] = <<>>
        /\ \A i, j \in 1 .. Len(list) : list[i] = list[j] => i = j
    BY <1>2, <1>7, <2>1 DEF KeysInv
  <2>3. /\ uTodo' = [q \in U!Procs |-> uTodo'[q]] /\ uTodo'["server"] = Tail(list)
        /\ \A q \in U!Procs : q # "server" => uTodo'[q] = uTodo[q]
    BY <1>2, <1>7, <2>1, TodoIs
  <2>4. /\ Tail(list) \in Seq(TlsHosts) /\ Len(Tail(list)) = Len(list) - 1 /\ Head(list) = list[1]
        /\ Len(list) \in Nat \ {0} /\ \A i \in 1 .. Len(list) - 1 : Tail(list)[i] = list[i + 1]
    BY <2>2
  <2>5. PICK h \in TlsHosts : h = list[1] /\ uKeys[h] = <<>>
    BY <2>2, <2>4
  <2>6. Append(uKeys[h], uSecrets.enc) = <<uSecrets.enc>>
    BY <2>5
  <2>7. uKeys' = [uKeys EXCEPT ![h] = <<uSecrets.enc>>]
    BY <1>7, <2>1, <2>4, <2>5, <2>6
  <2>8. uKeys = [k \in TlsHosts |-> uKeys[k]]
    BY <1>2 DEF KeysInv
  <2>9. uKeys' = [k \in TlsHosts |-> uKeys'[k]] /\ \A k \in TlsHosts : uKeys'[k] = IF k = h THEN <<uSecrets.enc>> ELSE uKeys[k]
    BY <2>5, <2>7, <2>8
  <2>10. \A i \in 1 .. Len(Tail(list)) : Tail(list)[i] \in TlsHosts \ {h} /\ uKeys'[Tail(list)[i]] = <<>>
    <3>1. TAKE i \in 1 .. Len(Tail(list))
    <3>2. i + 1 \in 1 .. Len(list) /\ Tail(list)[i] = list[i + 1] /\ i + 1 # 1 /\ 1 \in 1 .. Len(list)
      BY <2>4
    <3>3. list[i + 1] # list[1] /\ list[i + 1] \in TlsHosts
      BY <3>2, <2>2
    <3> QED
      BY <3>2, <3>3, <2>2, <2>5, <2>9
  <2>11. \A i, j \in 1 .. Len(Tail(list)) : Tail(list)[i] = Tail(list)[j] => i = j
    <3>1. TAKE i, j \in 1 .. Len(Tail(list))
    <3>2. i + 1 \in 1 .. Len(list) /\ j + 1 \in 1 .. Len(list) /\ i \in Nat /\ j \in Nat
      BY <2>4
    <3>3. Tail(list)[i] = list[i + 1] /\ Tail(list)[j] = list[j + 1]
      BY <2>4
    <3>4. list[i + 1] = list[j + 1] => i + 1 = j + 1
      BY <3>2, <2>2
    <3> QED
      BY <3>2, <3>3, <3>4
  <2>12. U!KeysReadable' /\ uSecrets' = uSecrets
    BY <1>1, <1>2, <2>9 DEF KeysInv, U!KeysReadable
  <2>13. KeysInv'
    <3>1. uTodo'["server"] = Tail(list) /\ Tail(list) \in Seq(TlsHosts) /\ uSecrets'.enc # 0
      BY <1>2, <2>3, <2>4, <2>12
    <3>2. \A i \in 1 .. Len(uTodo'["server"]) : uKeys'[uTodo'["server"][i]] = <<>>
      BY <3>1, <2>10
    <3>3. \A i, j \in 1 .. Len(uTodo'["server"]) : uTodo'["server"][i] = uTodo'["server"][j] => i = j
      BY <3>1, <2>11
    <3> QED
      BY <3>1, <3>2, <3>3, <2>9, <2>12 DEF KeysInv
  <2>14. U!Goto("server", "seal")
    BY <1>7 DEF U!Goto, StartInv, StageInv
  <2> QED
    BY <1>5, <2>3, <2>13, <2>14
<1>8. ASSUME U!Goto("server", "up"), UNCHANGED <<uKeys, uTodo>>
      PROVE  StartInv'
  <2>1. uPc'["server"] = "up"
    BY <1>2, <1>8, StageStep DEF Stages, ServerOnly
  <2>2. KeysInv'
    BY <1>1, <1>2, <1>8, <2>1 DEF KeysInv, U!KeysReadable
  <2> QED
    BY <1>5, <1>8, <2>2, TodoStays
<1> QED
  BY <1>6, <1>7, <1>8 DEF U!EncryptPlaintextHostKeys

-----------------------------------------------------------------------------
(* The migration of the factors.                                             *)
LEMMA RowsChange ==
    ASSUME StartInv, NEW p \in U!Procs, uPc[p] # "down",
           NEW to \in {"raise", "collapse", "drop", "index", "audit"}, U!Goto(p, to),
           UNCHANGED <<uAudit, uRoles, uLocal, uSecrets, uKeys, uAccount, uLogin, uSession, uTodo, uHad, uBlocked, uStarts, uFaults>>,
           uLegacy' \in [state : {"none", "asked", "on"}, counter : {0} \cup Codes],
           uIndex' \in {"none", "old", "new"},
           RowsInv', HadInv', CodesInv'
    PROVE  StartInv'
<1>1. to \in Stages /\ to \notin CliOnly \cup ServerOnly \cup {"keys", "seal", "done", "redact"}
  BY DEF Stages, Common, CliOnly, ServerOnly
<1>2. uStarts \in Nat /\ uStarts > 0
  BY Started
<1>3. StageInv' /\ AuditInv' /\ KeysInv' /\ SessionInv'
  BY <1>1, <1>2, StageKept, AuditKept, KeysKept, SessionKept, TodoStays
<1>4. \A f \in uFactors' : f.id \in Nat \ {0} /\ f.app \in BOOLEAN /\ f.counter \in {0} \cup Codes
  BY DEF RowsInv, RowType
<1>5. U!TypeOK'
  BY <1>4 DEF StartInv, U!TypeOK
<1> QED
  BY <1>3, <1>5 DEF StartInv, U!BoundsOK

LEMMA MigrateKeeps ==
    ASSUME StartInv, NEW p \in U!Procs, U!migrateTOTPToFactors(p)
    PROVE  StartInv'
<1>1. RowsInv /\ HadInv /\ CodesInv /\ uLegacy \in [state : {"none", "asked", "on"}, counter : {0} \cup Codes]
  BY DEF StartInv, U!TypeOK
<1>2. ~(uIndex # "none" /\ uLegacy.state = "on" /\ U!Apps(uFactors) # {})
  BY <1>1 DEF RowsInv
<1>3. /\ uPc[p] = "move" /\ uFactors' = U!Moved(uFactors) /\ uLegacy' = U!Cleared /\ U!Goto(p, "raise")
      /\ UNCHANGED <<uIndex, uAudit, uRoles, uLocal, uSecrets, uKeys, uAccount, uLogin, uSession, uCodes, uTodo, uHad, uBlocked,
                     uStarts, uFaults>>
  BY <1>2 DEF U!migrateTOTPToFactors, U!signedIn, U!bounds
<1>4. \A q \in U!Procs : uPc'[q] = IF q = p THEN "raise" ELSE uPc[q]
  BY <1>3, StageStep DEF Stages, Common
<1>5. uLegacy'.state = "none" /\ uLegacy' \in [state : {"none", "asked", "on"}, counter : {0} \cup Codes]
  BY <1>3 DEF U!Cleared
<1>6. CASE uLegacy.state # "on"
  <2>1. uFactors' = uFactors
    BY <1>3, <1>6 DEF U!Moved
  <2>2. /\ U!Apps(uFactors)' = U!Apps(uFactors) /\ OneApp' = OneApp /\ SameMark' = SameMark
        /\ Below(uFactors)' = Below(uFactors)
    BY <2>1 DEF U!Apps, OneApp, SameMark, Below
  <2>3. RowsInv'
    BY <1>1, <1>3, <1>4, <1>5, <2>1, <2>2 DEF RowsInv, Moved, Single
  <2>4. HadInv'
    BY <1>1, <1>3, <1>5, <1>6, <2>1, <2>2 DEF HadInv
  <2>5. CodesInv'
    BY <1>1, <1>3, <1>5, <1>6, <2>1, <2>2 DEF CodesInv, Covered
  <2> QED
    BY <1>3, <1>5, <2>3, <2>4, <2>5, RowsChange DEF StartInv, U!TypeOK
<1>7. CASE uLegacy.state = "on"
  <2> DEFINE ids == {0} \cup {f.id : f \in uFactors}
  <2>1. PICK n \in Nat : \A f \in uFactors : f.id <= n
    BY <1>1 DEF RowsInv, Below
  <2>2. PICK X : X = ids
    OBVIOUS
  <2>3. X \in SUBSET (0 .. n) /\ X # {} /\ \A f \in uFactors : f.id \in X
    BY <1>1, <2>1, <2>2 DEF RowsInv, RowType
  <2>4. PICK m \in Nat : m = U!Max(ids) /\ \A f \in uFactors : f.id <= m
    <3>1. U!Max(X) \in X /\ \A y \in X : y <= U!Max(X)
      BY <2>3, MaxIs
    <3>2. \A x \in X : x \in Nat
      BY <2>3
    <3>3. U!Max(X) \in Nat
      BY <3>1, <3>2
    <3> QED
      BY <2>2, <2>3, <3>1, <3>3
  <2>5. PICK new : new = [id |-> 1 + m, app |-> TRUE, counter |-> uLegacy.counter]
    OBVIOUS
  <2>6. uFactors' = uFactors \cup {new}
    BY <1>3, <1>7, <2>4, <2>5 DEF U!Moved
  <2>7. new \in RowType /\ new.id = m + 1 /\ new.app /\ new.counter = uLegacy.counter /\ new \notin uFactors
    <3>1. uLegacy.counter \in {0} \cup Codes
      BY <1>1 DEF U!TypeOK
    <3>2. new.id = m + 1 /\ new.app = TRUE /\ new.counter = uLegacy.counter /\ m + 1 \in Nat \ {0}
      BY <2>4, <2>5
    <3>3. new \in RowType
      BY <2>5, <3>1, <3>2 DEF RowType
    <3>4. new \notin uFactors
      BY <2>4, <3>2
    <3> QED
      BY <3>2, <3>3, <3>4
  <2>8. U!Apps(uFactors)' = U!Apps(uFactors) \cup {new}
    BY <2>6, <2>7 DEF U!Apps
  <2>9. uIndex = "none" /\ \A q \in U!Procs : ~Moved(q) /\ ~Single(q) /\ uPc[q] # "collapse"
    BY <1>1, <1>7 DEF RowsInv, Moved, Single
  <2>10. Below(uFactors)'
    <3>1. \A f \in uFactors' : f.id <= m + 1
      BY <1>1, <2>4, <2>6, <2>7 DEF RowsInv, RowType
    <3>2. m + 1 \in Nat
      OBVIOUS
    <3> QED
      BY <3>1, <3>2 DEF Below
  <2>11. \A f, g \in uFactors' : f.id = g.id => f = g
    <3>1. \A f \in uFactors : f.id \in Nat /\ f.id <= m /\ f.id # new.id
      BY <1>1, <2>4, <2>7 DEF RowsInv, RowType
    <3>2. \A f, g \in uFactors : f.id = g.id => f = g
      BY <1>1 DEF RowsInv
    <3> QED
      BY <2>6, <3>1, <3>2
  <2>12. RowsInv'
    <3>1. uFactors' \subseteq RowType /\ uIndex' = "none" /\ uLegacy'.state = "none"
      BY <1>1, <1>3, <1>5, <2>6, <2>7, <2>9 DEF RowsInv
    <3>2. \A q \in U!Procs : ~Single(q)' /\ uPc'[q] # "collapse"
      BY <1>4, <2>9 DEF Single
    <3> QED
      BY <3>1, <3>2, <2>10, <2>11 DEF RowsInv
  <2>13. HadInv'
    BY <1>1, <1>3, <1>7, <2>6, <2>8 DEF HadInv
  <2>14. CodesInv'
    <3>1. ASSUME NEW t \in Codes, Covered(t) PROVE Covered(t)'
      BY <3>1, <2>7, <2>8 DEF Covered
    <3> QED
      BY <3>1, <1>1, <1>3 DEF CodesInv
  <2> QED
    BY <1>3, <1>5, <2>12, <2>13, <2>14, RowsChange DEF StartInv, U!TypeOK
<1> QED
  BY <1>6, <1>7

(* Raising the watermarks: every row keeps its id, passkeys stay as they     *)
(* are, and the authenticator's rows share the highest one.                  *)
LEMMA RaiseKeeps ==
    ASSUME StartInv, NEW p \in U!Procs, uPc[p] = "raise", uFactors' = U!Raised(uFactors), U!Goto(p, "collapse"),
           UNCHANGED <<uLegacy, uIndex, uAudit, uRoles, uLocal, uSecrets, uKeys, uAccount, uLogin, uSession, uCodes, uTodo, uHad,
                       uBlocked, uStarts, uFaults>>
    PROVE  StartInv'
<1>1. RowsInv /\ HadInv /\ CodesInv /\ uLegacy \in [state : {"none", "asked", "on"}, counter : {0} \cup Codes]
  BY DEF StartInv, U!TypeOK
<1>2. \A q \in U!Procs : uPc'[q] = IF q = p THEN "collapse" ELSE uPc[q]
  BY StageStep DEF Stages, Common
<1>3. PICK M : M = U!Max(U!Counters(uFactors))
  OBVIOUS
<1> DEFINE Up(f) == IF f.app THEN [f EXCEPT !.counter = M] ELSE f
<1>4. uFactors' = {Up(f) : f \in uFactors}
  BY <1>3 DEF U!Raised
<1>5. U!Apps(uFactors) # {} => M \in {0} \cup Codes /\ \A f \in U!Apps(uFactors) : f.counter <= M
  <2>1. SUFFICES ASSUME U!Apps(uFactors) # {}
                 PROVE  M \in {0} \cup Codes /\ \A f \in U!Apps(uFactors) : f.counter <= M
    OBVIOUS
  <2>2. PICK X : X = U!Counters(uFactors)
    OBVIOUS
  <2>3. X \subseteq {0} \cup Codes /\ X # {} /\ \A f \in U!Apps(uFactors) : f.counter \in X
    BY <1>1, <2>1, <2>2 DEF U!Counters, U!Apps, RowsInv, RowType
  <2>4. IsFiniteSet(Codes) /\ Codes \in SUBSET Nat
    BY StartSizes DEF StartInv, U!BoundsOK
  <2>5. PICK n \in Nat : \A x \in Codes : x <= n
    BY <2>4, FiniteBelow
  <2>6. X \in SUBSET (0 .. n)
    BY <2>3, <2>4, <2>5
  <2>7. U!Max(X) \in X /\ \A y \in X : y <= U!Max(X)
    BY <2>3, <2>6, MaxIs
  <2> QED
    BY <1>3, <2>2, <2>3, <2>7
<1>6. \A f \in uFactors : /\ Up(f) \in RowType /\ Up(f).id = f.id /\ Up(f).app = f.app
                          /\ f.app => Up(f).counter = M
                          /\ ~f.app => Up(f) = f
  <2>1. TAKE f \in uFactors
  <2>2. f \in RowType
    BY <1>1 DEF RowsInv
  <2>3. CASE f.app
    <3>1. M \in {0} \cup Codes
      BY <1>5, <2>3 DEF U!Apps
    <3> QED
      BY <2>2, <2>3, <3>1 DEF RowType
  <2>4. CASE ~f.app
    BY <2>2, <2>4
  <2> QED
    BY <2>3, <2>4
<1> HIDE DEF Up
<1>7. U!Apps(uFactors)' = {Up(f) : f \in U!Apps(uFactors)}
  BY <1>4, <1>6 DEF U!Apps
<1>8. SameMark' /\ (OneApp => OneApp')
  <2>1. \A g \in U!Apps(uFactors)' : g.counter = M
    BY <1>6, <1>7 DEF U!Apps
  <2> QED
    BY <1>7, <2>1 DEF SameMark, OneApp
<1>9. Below(uFactors)'
  <2>1. PICK n \in Nat : \A f \in uFactors : f.id <= n
    BY <1>1 DEF RowsInv, Below
  <2>2. \A g \in uFactors' : g.id <= n
    BY <1>4, <1>6, <2>1
  <2> QED
    BY <2>2 DEF Below
<1>10. uFactors' \subseteq RowType /\ \A f, g \in uFactors' : f.id = g.id => f = g
  BY <1>1, <1>4, <1>6 DEF RowsInv
<1>11. RowsInv'
  BY <1>1, <1>2, <1>8, <1>9, <1>10 DEF RowsInv, Moved, Single
<1>12. HadInv'
  <2>1. U!Apps(uFactors)' # {} <=> U!Apps(uFactors) # {}
    BY <1>7
  <2>2. \A f \in uHad.passkeys : f \in uFactors'
    BY <1>1, <1>4, <1>6 DEF HadInv
  <2> QED
    BY <1>1, <2>1, <2>2 DEF HadInv
<1>13. CodesInv'
  <2>1. ASSUME NEW t \in Codes, NEW f \in U!Apps(uFactors), t <= f.counter
        PROVE  Up(f) \in U!Apps(uFactors)' /\ t <= Up(f).counter
    <3>1. f \in uFactors /\ f.app /\ f.counter <= M /\ M \in {0} \cup Codes /\ f.counter \in {0} \cup Codes
      BY <1>1, <1>5 DEF U!Apps, RowsInv, RowType
    <3>2. Codes \subseteq Nat
      BY DEF StartInv, U!BoundsOK
    <3> QED
      BY <1>6, <1>7, <2>1, <3>1, <3>2
  <2>2. ASSUME NEW t \in Codes, Covered(t) PROVE Covered(t)'
    BY <2>1, <2>2 DEF Covered
  <2> QED
    BY <1>1, <2>2 DEF CodesInv
<1> QED
  BY <1>1, <1>11, <1>12, <1>13, RowsChange DEF StartInv, U!TypeOK

(* Collapsing: the oldest row of the authenticator stays, with the watermark *)
(* they all have.                                                            *)
LEMMA CollapseKeeps ==
    ASSUME StartInv, NEW p \in U!Procs, uPc[p] = "collapse", uFactors' = U!Collapsed(uFactors), U!Goto(p, "drop"),
           UNCHANGED <<uLegacy, uIndex, uAudit, uRoles, uLocal, uSecrets, uKeys, uAccount, uLogin, uSession, uCodes, uTodo, uHad,
                       uBlocked, uStarts, uFaults>>
    PROVE  StartInv'
<1>1. RowsInv /\ HadInv /\ CodesInv /\ uLegacy \in [state : {"none", "asked", "on"}, counter : {0} \cup Codes]
  BY DEF StartInv, U!TypeOK
<1>2. \A q \in U!Procs : uPc'[q] = IF q = p THEN "drop" ELSE uPc[q]
  BY StageStep DEF Stages, Common
<1>3. uFactors' \subseteq uFactors /\ \A f \in uFactors : ~f.app => f \in uFactors'
  BY DEF U!Collapsed
<1>4. OneApp'
  <2>1. \A f, g \in U!Apps(uFactors)' : f.id \in Nat /\ g.id \in Nat /\ f.id <= g.id /\ f \in uFactors /\ g \in uFactors
    BY <1>1, <1>3 DEF U!Apps, U!Collapsed, RowsInv, RowType
  <2>2. \A f, g \in U!Apps(uFactors)' : f.id = g.id /\ f \in uFactors /\ g \in uFactors
    BY <2>1
  <2> QED
    BY <1>1, <2>2 DEF OneApp, RowsInv
<1>5. U!Apps(uFactors) # {} => U!Apps(uFactors)' # {}
  <2>1. SUFFICES ASSUME U!Apps(uFactors) # {} PROVE U!Apps(uFactors)' # {}
    OBVIOUS
  <2> DEFINE ids == {f.id : f \in U!Apps(uFactors)}
  <2>2. ids \in SUBSET Nat /\ ids # {}
    BY <1>1, <2>1 DEF U!Apps, RowsInv, RowType
  <2>3. PICK i \in ids : \A j \in ids : i <= j
    BY <2>2, LeastNumber
  <2>4. PICK f \in U!Apps(uFactors) : f.id = i
    BY <2>3
  <2>5. \A g \in U!Apps(uFactors) : f.id <= g.id
    BY <2>3, <2>4
  <2>6. f \in U!Apps(uFactors)'
    BY <2>4, <2>5 DEF U!Apps, U!Collapsed
  <2> QED
    BY <2>6
<1>6. SameMark /\ SameMark' /\ U!Apps(uFactors)' \subseteq U!Apps(uFactors)
  BY <1>1, <1>3, <1>4 DEF RowsInv, SameMark, OneApp, U!Apps
<1>7. Below(uFactors)'
  BY <1>1, <1>3 DEF RowsInv, Below
<1>8. uFactors' \subseteq RowType /\ \A f, g \in uFactors' : f.id = g.id => f = g
  BY <1>1, <1>3 DEF RowsInv
<1>9. RowsInv'
  BY <1>1, <1>2, <1>4, <1>6, <1>7, <1>8 DEF RowsInv, Moved, Single
<1>10. HadInv'
  BY <1>1, <1>3, <1>5, <1>6 DEF HadInv
<1>11. CodesInv'
  <2>1. ASSUME NEW t \in Codes, Covered(t) PROVE Covered(t)'
    <3>1. CASE uLegacy.state = "on" /\ t <= uLegacy.counter
      BY <3>1 DEF Covered
    <3>2. CASE \E f \in U!Apps(uFactors) : t <= f.counter
      <4>1. PICK f \in U!Apps(uFactors) : t <= f.counter
        BY <3>2
      <4>2. PICK g \in U!Apps(uFactors)' : TRUE
        BY <1>5, <4>1
      <4>3. t <= g.counter
        BY <1>6, <4>1, <4>2 DEF SameMark
      <4> QED
        BY <4>3 DEF Covered
    <3> QED
      BY <2>1, <3>1, <3>2 DEF Covered
  <2> QED
    BY <1>1, <2>1 DEF CodesInv
<1> QED
  BY <1>1, <1>9, <1>10, <1>11, RowsChange DEF StartInv, U!TypeOK

(* One row at most has no two.                                               *)
LEMMA OneRow ==
    ASSUME NEW Xs, \A f, g \in Xs : f = g
    PROVE  IsFiniteSet(Xs) /\ Cardinality(Xs) = IF Xs = {} THEN 0 ELSE 1
<1>1. CASE Xs = {}
  BY <1>1, FS_EmptySet
<1>2. CASE Xs # {}
  <2>1. PICK f \in Xs : TRUE
    BY <1>2
  <2>2. Xs = {f}
    BY <2>1
  <2> QED
    BY <2>2, FS_Singleton
<1> QED
  BY <1>1, <1>2

LEMMA EnforceKeeps ==
    ASSUME StartInv, NEW p \in U!Procs, U!enforceOneFactorPerSecret(p)
    PROVE  StartInv'
<1>1. UNCHANGED <<uLegacy, uAudit, uRoles, uLocal, uSecrets, uKeys, uAccount, uLogin, uSession, uCodes, uTodo, uHad, uStarts, uFaults>>
  BY DEF U!enforceOneFactorPerSecret, U!signedIn, U!bounds
<1>2. CASE uPc[p] = "raise"
  BY <1>1, <1>2, RaiseKeeps DEF U!enforceOneFactorPerSecret
<1>3. CASE uPc[p] = "collapse"
  BY <1>1, <1>3, CollapseKeeps DEF U!enforceOneFactorPerSecret
<1>4. CASE uPc[p] \in {"drop", "index"}
  <2>1. RowsInv /\ HadInv /\ CodesInv /\ OneApp /\ uLegacy.state = "none" /\ uIndex \in {"none", "old", "new"}
    BY <1>4 DEF StartInv, RowsInv, Single, Moved, U!TypeOK
  <2>2. Cardinality(U!Apps(uFactors)) \in {0, 1}
    BY <2>1, OneRow DEF OneApp
  <2>3. ~(U!Cardinality(U!Apps(uFactors)) > 1)
    BY <2>2, StartSizes
  <2>4. PICK to \in {"index", "audit"} :
           U!Goto(p, to) /\ uIndex' \in {"none", "new", uIndex} /\ UNCHANGED <<uFactors, uBlocked>>
    BY <1>4, <2>3 DEF U!enforceOneFactorPerSecret
  <2>5. \A q \in U!Procs : uPc'[q] = IF q = p THEN to ELSE uPc[q]
    BY <2>4, StageStep DEF Stages, Common
  <2>6. /\ U!Apps(uFactors)' = U!Apps(uFactors) /\ OneApp' = OneApp /\ SameMark' = SameMark
        /\ Below(uFactors)' = Below(uFactors)
    BY <2>4 DEF U!Apps, OneApp, SameMark, Below
  <2>7. RowsInv'
    BY <1>1, <2>1, <2>4, <2>5, <2>6 DEF RowsInv, Moved, Single
  <2>8. HadInv' /\ CodesInv'
    BY <1>1, <2>1, <2>4, <2>6 DEF HadInv, CodesInv, Covered
  <2> QED
    BY <1>1, <1>4, <2>1, <2>4, <2>7, <2>8, RowsChange DEF StartInv, U!TypeOK
<1> QED
  BY <1>2, <1>3, <1>4 DEF U!enforceOneFactorPerSecret

(* A code is burnt on the only row there is, so it was above every mark.     *)
LEMMA BurnsOnce ==
    ASSUME StartInv, NEW f \in uFactors, NEW t \in Codes, U!BurnFactorCounter(f, t)
    PROVE  StartInv'
<1>1. /\ uPc["server"] = "up" /\ f.app /\ t > f.counter
      /\ uFactors' = (uFactors \ {f}) \cup {[f EXCEPT !.counter = t]}
      /\ uCodes' = [uCodes EXCEPT ![t] = uCodes[t] + 1]
      /\ UNCHANGED <<uPc, uLegacy, uIndex, uAudit, uRoles, uLocal, uSecrets, uKeys, uTodo, uAccount, uLogin, uSession, uHad,
                     uBlocked, uStarts, uFaults>>
  BY DEF U!BurnFactorCounter, U!bounds
<1>2. RowsInv /\ HadInv /\ CodesInv /\ "server" \in U!Procs
  BY DEF StartInv, U!Procs
<1>3. uLegacy.state = "none" /\ OneApp
  BY <1>1, <1>2 DEF RowsInv, Moved, Single
<1>4. f \in RowType /\ t \in Nat /\ f.counter \in Nat /\ t \in {0} \cup Codes
  <2>1. Codes \subseteq Nat
    BY DEF StartInv, U!BoundsOK
  <2>2. f \in RowType
    BY <1>2 DEF RowsInv
  <2>3. f.counter \in {0} \cup Codes
    BY DEF StartInv, U!TypeOK
  <2>4. f.counter \in Nat
    <3>1. \A c \in {0} \cup Codes : c \in Nat
      BY <2>1
    <3> QED
      BY <2>3, <3>1
  <2> QED
    BY <2>1, <2>2, <2>4
<1>5. PICK new : new = [f EXCEPT !.counter = t]
  OBVIOUS
<1>6. new \in RowType /\ new.id = f.id /\ new.app /\ new.counter = t
  BY <1>1, <1>4, <1>5 DEF RowType
<1>7. uFactors' = (uFactors \ {f}) \cup {new}
  BY <1>1, <1>5
<1>8. U!Apps(uFactors) = {f} /\ U!Apps(uFactors)' = {new}
  BY <1>1, <1>3, <1>6, <1>7 DEF U!Apps, OneApp
<1>9. OneApp' /\ SameMark'
  BY <1>8 DEF OneApp, SameMark
<1>10. Below(uFactors)'
  <2>1. PICK n \in Nat : \A g \in uFactors : g.id <= n
    BY <1>2 DEF RowsInv, Below
  <2>2. \A g \in uFactors' : g.id <= n
    BY <2>1, <1>6, <1>7
  <2> QED
    BY <2>2 DEF Below
<1>11. uFactors' \subseteq RowType /\ \A g, h \in uFactors' : g.id = h.id => g = h
  BY <1>2, <1>6, <1>7 DEF RowsInv
<1>12. RowsInv'
  BY <1>1, <1>2, <1>3, <1>9, <1>10, <1>11 DEF RowsInv, Moved, Single
<1>13. HadInv'
  BY <1>1, <1>2, <1>7, <1>8 DEF HadInv
<1>14. CodesInv'
  <2>1. uCodes[t] = 0
    BY <1>1, <1>2, <1>3, <1>4, <1>8 DEF CodesInv, Covered
  <2>2. uCodes' \in [Codes -> {0, 1}] /\ \A s \in Codes : uCodes'[s] = IF s = t THEN 1 ELSE uCodes[s]
    BY <1>1, <1>2, <2>1 DEF CodesInv
  <2>3. ASSUME NEW s \in Codes, uCodes'[s] = 1 PROVE s <= t
    <3>1. s \in Nat
      BY DEF StartInv, U!BoundsOK
    <3>2. CASE s = t
      BY <3>1, <3>2
    <3>3. CASE s # t
      <4>1. s <= f.counter
        BY <1>2, <1>3, <1>8, <2>2, <2>3, <3>3 DEF CodesInv, Covered
      <4> QED
        BY <1>1, <1>4, <3>1, <4>1
    <3> QED
      BY <3>2, <3>3
  <2> QED
    BY <1>6, <1>8, <2>2, <2>3 DEF CodesInv, Covered
<1>15. \A g \in uFactors' : g.id \in Nat \ {0} /\ g.app \in BOOLEAN /\ g.counter \in {0} \cup Codes
  BY <1>11 DEF RowType
<1>16. U!TypeOK'
  BY <1>1, <1>15 DEF StartInv, U!TypeOK
<1>17. StageInv' /\ AuditInv' /\ KeysInv' /\ SessionInv'
  BY <1>1 DEF StartInv, StageInv, AuditInv, KeysInv, SessionInv, Redacted, UpToDate, U!Exposed,
     U!KeysReadable
<1> QED
  BY <1>1, <1>12, <1>13, <1>14, <1>16, <1>17 DEF StartInv, U!BoundsOK

-----------------------------------------------------------------------------
LEMMA StartInit == U!BoundsOK /\ U!Init => StartInv
<1> SUFFICES ASSUME U!BoundsOK, U!Init PROVE StartInv
  OBVIOUS
<1>1. PICK db \in Databases :
        /\ uLegacy = db.legacy /\ uFactors = db.factors /\ uIndex = db.index
        /\ uHad = [app |-> db.legacy.state = "on" \/ U!Apps(db.factors) # {},
                   passkeys |-> db.factors \ U!Apps(db.factors)]
        /\ uCodes = [t \in Codes |-> IF t \in U!Counters(db.factors) \cup {db.legacy.counter} THEN 1 ELSE 0]
  BY DEF U!Init
<1>2. U!DatabaseOK(db) /\ Codes \subseteq Nat \ {0}
  BY DEF U!BoundsOK
<1>3. /\ uLegacy \in [state : {"none", "asked", "on"}, counter : {0} \cup Codes] /\ uIndex \in {"none", "old", "new"}
      /\ uFactors \subseteq RowType /\ IsFiniteSet(uFactors)
      /\ \A f, g \in uFactors : f.id = g.id => f = g
      /\ uIndex # "none" => uLegacy.state # "on" /\ OneApp
      /\ uLegacy.state # "on" => uLegacy.counter = 0
  BY <1>1, <1>2, StartSizes DEF U!DatabaseOK, RowType, OneApp
<1>4. \A p \in U!Procs : uPc[p] = "down"
  BY DEF U!Init
<1>5. Below(uFactors)
  <2> DEFINE ids == {f.id : f \in uFactors}
  <2>1. ids \in SUBSET Nat
    BY <1>3 DEF RowType
  <2>2. IsFiniteSet(ids)
    <3> DEFINE m == [f \in uFactors |-> f.id]
    <3>1. m \in Surjection(uFactors, ids)
      BY DEF Surjection
    <3> QED
      BY <1>3, <3>1, FS_Surjection, Zenon
  <2>3. PICK n \in Nat : \A x \in ids : x <= n
    BY <2>1, <2>2, FiniteBelow
  <2> QED
    BY <2>3 DEF Below
<1>6. RowsInv
  BY <1>3, <1>4, <1>5 DEF RowsInv, Moved, Single
<1>7. HadInv
  BY <1>1 DEF HadInv, U!Apps
<1>8. CodesInv
  <2>1. uCodes \in [Codes -> {0, 1}]
    BY <1>1
  <2>2. ASSUME NEW t \in Codes, uCodes[t] = 1 PROVE Covered(t)
    <3>1. t \in U!Counters(uFactors) \/ t = uLegacy.counter
      BY <1>1, <2>2
    <3>2. t \in Nat /\ t # 0
      BY <1>2
    <3>3. CASE t \in U!Counters(uFactors)
      BY <3>2, <3>3 DEF U!Counters, Covered
    <3>4. CASE t = uLegacy.counter
      BY <3>2, <3>4, <1>3 DEF Covered
    <3> QED
      BY <3>1, <3>3, <3>4
  <2> QED
    BY <2>1, <2>2 DEF CodesInv
<1>9. \A f \in uFactors : f.id \in Nat \ {0} /\ f.app \in BOOLEAN /\ f.counter \in {0} \cup Codes
  BY <1>3 DEF RowType
<1>10. uStarts = 0 /\ uFaults = 0 /\ ~uBlocked /\ 0 \in 0 .. MaxStarts /\ 0 \in 0 .. MaxFaults
  BY DEF U!Init, U!BoundsOK
<1>11. U!TypeOK
  <2>1. /\ uAudit \in [Records -> {"url", "host"}] /\ uLocal \in BOOLEAN /\ uBlocked \in BOOLEAN
        /\ uRoles \in [U!Range(Builtins) -> {"absent", "bare", "whole"}]
    BY DEF U!Init
  <2>2. uSecrets \in [jwt : 0 .. uStarts, enc : 0 .. uStarts]
    BY <1>10 DEF U!Init
  <2> QED
    BY <1>3, <1>9, <1>10, <2>1, <2>2 DEF U!TypeOK
<1>12. StageInv
  BY <1>4 DEF StageInv, U!Init, Common, ServerOnly, CliOnly, U!Procs
<1>13. AuditInv
  BY <1>4 DEF AuditInv, Redacted, ServerOnly, CliOnly
<1>14. KeysInv
  BY <1>4 DEF KeysInv, U!Init, U!KeysReadable, U!Procs
<1>15. SessionInv
  BY <1>4 DEF SessionInv, U!Init, U!None, Reads, U!Procs
<1> QED
  BY <1>6, <1>7, <1>8, <1>10, <1>11, <1>12, <1>13, <1>14, <1>15 DEF StartInv

LEMMA StartStutters ==
    ASSUME StartInv, UNCHANGED U!vars
    PROVE  StartInv'
<1>1. UNCHANGED <<uPc, uLegacy, uFactors, uIndex, uAudit, uRoles, uLocal, uSecrets, uKeys, uTodo, uAccount, uLogin, uSession,
                  uCodes, uHad, uBlocked, uStarts, uFaults>>
  BY DEF U!vars
<1>2. U!BoundsOK' /\ U!TypeOK' /\ ~uBlocked' /\ StageInv'
  BY <1>1 DEF StartInv, U!TypeOK, StageInv, U!BoundsOK
<1>3. RowsInv' /\ HadInv' /\ CodesInv'
  BY <1>1 DEF StartInv, RowsInv, HadInv, CodesInv, Covered, Moved, Single, OneApp, SameMark, Below, U!Apps
<1>4. AuditInv' /\ KeysInv' /\ SessionInv'
  BY <1>1 DEF StartInv, AuditInv, KeysInv, SessionInv, UpToDate, Redacted, U!Exposed, U!KeysReadable
<1> QED
  BY <1>2, <1>3, <1>4 DEF StartInv

(* The inductive invariant of the starts: the rows of the factors by what    *)
(* each process has behind it, where the watermarks are, and what is still   *)
(* in the list of a loop that was not finished.                              *)
THEOREM StartInvariance == U!BoundsOK /\ U!Spec => []StartInv
<1>1. ASSUME StartInv, [U!Next]_U!vars PROVE StartInv'
  <2>1. CASE U!Next
    BY <1>1, <2>1, OpenKeeps, MigrateKeeps, EnforceKeeps, RedactKeeps, SeedKeeps, KillKeeps, FailsKeeps,
       LocalHostKeeps, SecretKeeps, SealKeeps, BurnsOnce, SignInKeeps, ResetKeeps DEF U!Next
  <2> QED
    BY <1>1, <2>1, StartStutters
<1> QED
  BY <1>1, StartInit, PTL DEF U!Spec

(* Wherever the server or the reset command is killed and whichever of their *)
(* statements fails, whatever rows the older version left: no later start is *)
(* blocked, no factor is lost and no code good twice, host keys can be read, *)
(* a finished reset ends the older sessions and a running server's audit log *)
(* is redacted (StartsAreSafe).                                              *)
THEOREM StartsSafe == U!BoundsOK /\ U!Spec => []U!StartsAreSafe
<1>1. ASSUME StartInv PROVE U!StartsAreSafe
  <2>1. U!TypeOK /\ U!NothingBlocksAStart /\ U!KeysReadable
    BY <1>1 DEF StartInv, KeysInv, U!NothingBlocksAStart
  <2>2. U!NoCodeTwice
    BY <1>1 DEF StartInv, CodesInv, U!NoCodeTwice
  <2>3. U!FactorsSurvive
    <3>1. RowsInv /\ HadInv /\ "server" \in U!Procs
      BY <1>1 DEF StartInv, U!Procs
    <3>2. ASSUME uPc["server"] = "up"
          PROVE  uLegacy.state = "none" /\ U!Cardinality(U!Apps(uFactors)) = IF uHad.app THEN 1 ELSE 0
      <4>1. uLegacy.state = "none" /\ OneApp
        BY <3>1, <3>2 DEF RowsInv, Moved, Single
      <4>2. Cardinality(U!Apps(uFactors)) = IF U!Apps(uFactors) = {} THEN 0 ELSE 1
        BY <4>1, OneRow DEF OneApp
      <4> QED
        BY <3>1, <4>1, <4>2, StartSizes DEF HadInv
    <3> QED
      BY <3>1, <3>2 DEF HadInv, U!FactorsSurvive
  <2>4. U!ResetEndsSessions
    BY <1>1 DEF StartInv, SessionInv, UpToDate, U!ResetEndsSessions, U!Accepted
  <2>5. U!AuditIsRedacted
    BY <1>1 DEF StartInv, AuditInv, Redacted, ServerOnly, U!AuditIsRedacted, U!Procs
  <2> QED
    BY <2>1, <2>2, <2>3, <2>4, <2>5 DEF U!StartsAreSafe
<1> QED
  BY <1>1, StartInvariance, PTL

-----------------------------------------------------------------------------
(* Pairing second factors.                                                 *)

LEMMA EnrolSizes ==
    \A X : E!IsFiniteSet(X) = IsFiniteSet(X) /\ E!Cardinality(X) = Cardinality(X)
<1>1. \A X : E!IsFiniteSet(X) = IsFiniteSet(X)
  BY DEF E!IsFiniteSet, IsFiniteSet
<1>2. \A X : E!Cardinality(X) = Cardinality(X)
  BY <1>1 DEF E!Cardinality, Cardinality
<1> QED
  BY <1>1, <1>2

(* Secrets are handed out in order, and each is in one place: the pending    *)
(* enrolment and the requests confirming it, the ceremony or the one request *)
(* that took it, or a row.                                                   *)
Confirming == {"confirm", "pair"}
Taken == {"body", "create"}
Holding == {"pair", "create"}
Secret(r) == freq[r].secret
SecretsInOrder ==
    /\ (pending.secret = 0 => pending = E!None) /\ (ceremony.secret = 0 => ceremony = E!None)
    /\ pending.secret < nextSecret /\ ceremony.secret < nextSecret
    /\ \A f \in factors : f.secret < nextSecret
    /\ \A r \in Pairing : Secret(r) < nextSecret
    /\ \A r \in Pairing : freq[r].pc \in Confirming \cup Taken => Secret(r) # 0
SecretsApart ==
    /\ pending.secret # 0 => /\ pending.secret # ceremony.secret
                             /\ \A f \in factors : f.secret # pending.secret
    /\ ceremony.secret # 0 => \A f \in factors : f.secret # ceremony.secret
    /\ \A r \in Pairing : freq[r].pc \in Confirming => Secret(r) # ceremony.secret
    /\ \A r \in Pairing : freq[r].pc \in Taken =>
          /\ Secret(r) # pending.secret /\ Secret(r) # ceremony.secret
          /\ \A f \in factors : f.secret # Secret(r)
          /\ \A q \in Pairing : freq[q].pc \in Confirming \cup Taken /\ q # r => Secret(q) # Secret(r)

(* A confirmation that asked for no password and still has the pending       *)
(* secret is of an account that has gained no factor since.                  *)
StillFirst ==
    \A r \in Pairing : freq[r].pc \in Confirming /\ Secret(r) = pending.secret /\ ~freq[r].stepUp => factors = {}

(* The factors and the pairings that have counted them.                      *)
Counted == {r \in Pairing : freq[r].pc \in Holding}
CapInv == /\ IsFiniteSet(factors) /\ Cardinality(factors) + Cardinality(Counted) <= MaxFactors - 1 + Cardinality(Pairing)

EnrolInv ==
    /\ E!BoundsOK /\ E!TypeOK /\ SecretsInOrder /\ SecretsApart /\ StillFirst /\ CapInv
    /\ E!LaterFactorsAreProved /\ E!OneFactorPerSecret

LEMMA EnrolInit == ASSUME E!BoundsOK, E!Init PROVE EnrolInv
<1>1. Counted = {} /\ IsFiniteSet({}) /\ Cardinality({}) = 0 /\ Cardinality(Pairing) \in Nat
  BY FS_EmptySet, FS_CardinalityType, EnrolSizes DEF E!Init, E!Ready, Counted, Holding, E!BoundsOK
<1>2. CapInv
  BY <1>1 DEF CapInv, E!Init, E!BoundsOK
<1>3. E!TypeOK
  BY DEF E!Init, E!None, E!Ready, E!BoundsOK, E!TypeOK, E!Requesting
<1> QED
  BY <1>2, <1>3 DEF E!Init, E!None, E!Ready, EnrolInv, SecretsInOrder, SecretsApart, StillFirst,
     E!LaterFactorsAreProved,
     E!OneFactorPerSecret, Confirming, Taken, Secret

(* What a request becomes.                                                   *)
FreqType == [pc : E!Requesting, secret : 0 .. MaxSecrets, stepUp : BOOLEAN]

LEMMA PairingMoves ==
    ASSUME EnrolInv, NEW r \in Pairing, NEW to \in FreqType, freq' = [freq EXCEPT ![r] = to]
    PROVE  /\ freq' \in [Pairing -> FreqType] /\ freq'[r] = to
           /\ \A q \in Pairing : q # r => freq'[q] = freq[q]
  BY DEF EnrolInv, E!TypeOK, FreqType

LEMMA CountedMoves ==
    ASSUME EnrolInv, NEW r \in Pairing, NEW to \in FreqType, freq' = [freq EXCEPT ![r] = to]
    PROVE  /\ Cardinality(Counted) \in Nat /\ Cardinality(Counted') \in Nat /\ Cardinality(Pairing) \in Nat
           /\ Cardinality(Counted') <= Cardinality(Pairing)
           /\ to.pc \notin Holding => /\ Cardinality(Counted') <= Cardinality(Counted)
                                      /\ freq[r].pc \in Holding => Cardinality(Counted') = Cardinality(Counted) - 1
<1>1. /\ freq'[r] = to /\ \A q \in Pairing : q # r => freq'[q] = freq[q]
  BY PairingMoves
<1>2. Counted \subseteq Pairing /\ Counted' \subseteq Pairing /\ IsFiniteSet(Pairing)
  BY EnrolSizes DEF Counted, EnrolInv, E!BoundsOK
<1>3. IsFiniteSet(Counted) /\ IsFiniteSet(Counted')
  BY <1>2, FS_Subset
<1>4. /\ Cardinality(Counted) \in Nat /\ Cardinality(Counted') \in Nat /\ Cardinality(Pairing) \in Nat
      /\ Cardinality(Counted') <= Cardinality(Pairing)
  BY <1>2, <1>3, FS_CardinalityType, FS_Subset
<1>5. ASSUME to.pc \notin Holding
      PROVE  Cardinality(Counted') = IF freq[r].pc \in Holding THEN Cardinality(Counted) - 1 ELSE Cardinality(Counted)
  <2>1. Counted' = Counted \ {r}
    BY <1>1, <1>5 DEF Counted
  <2>2. CASE freq[r].pc \in Holding
    BY <1>3, <2>1, <2>2, FS_RemoveElement DEF Counted
  <2>3. CASE freq[r].pc \notin Holding
    BY <2>1, <2>3 DEF Counted
  <2> QED
    BY <2>2, <2>3
<1>6. ASSUME to.pc \notin Holding
      PROVE  /\ Cardinality(Counted') <= Cardinality(Counted)
             /\ freq[r].pc \in Holding => Cardinality(Counted') = Cardinality(Counted) - 1
  BY <1>4, <1>5, <1>6
<1> QED
  BY <1>4, <1>6

(* A request that has nothing counted, or that ends, leaves the cap alone.   *)
LEMMA CapKept ==
    ASSUME EnrolInv, NEW r \in Pairing, NEW to \in FreqType, freq' = [freq EXCEPT ![r] = to],
           to.pc \notin Holding, UNCHANGED factors
    PROVE  CapInv'
<1>1. /\ Cardinality(Counted) \in Nat /\ Cardinality(Pairing) \in Nat
      /\ Cardinality(Counted') <= Cardinality(Counted) /\ Cardinality(Counted') \in Nat
  BY CountedMoves
<1>2. Cardinality(factors) \in Nat
  BY FS_CardinalityType DEF EnrolInv, CapInv
<1> QED
  BY <1>1, <1>2 DEF EnrolInv, CapInv, E!BoundsOK

LEMMA CapAtCount ==
    ASSUME EnrolInv, NEW r \in Pairing, NEW to \in FreqType, freq' = [freq EXCEPT ![r] = to],
           ~E!Full, UNCHANGED factors
    PROVE  CapInv'
<1>1. /\ Cardinality(Counted') \in Nat /\ Cardinality(Pairing) \in Nat
      /\ Cardinality(Counted') <= Cardinality(Pairing)
  BY CountedMoves
<1>2. Cardinality(factors) \in Nat
  BY FS_CardinalityType DEF EnrolInv, CapInv
<1>3. Cardinality(factors) <= MaxFactors - 1
  BY <1>2, EnrolSizes DEF E!Full, E!CountFactors, EnrolInv, E!BoundsOK
<1> QED
  BY <1>1, <1>2, <1>3 DEF EnrolInv, CapInv, E!BoundsOK

LEMMA CapAtInsert ==
    ASSUME EnrolInv, NEW r \in Pairing, freq' = [freq EXCEPT ![r] = E!Ready], freq[r].pc \in Holding,
           NEW f, factors' = factors \cup {f}
    PROVE  CapInv'
<1>1. E!Ready \in FreqType /\ E!Ready.pc \notin Holding
  BY DEF E!Ready, FreqType, E!Requesting, Holding, EnrolInv, E!BoundsOK
<1>2. /\ Cardinality(Counted) \in Nat /\ Cardinality(Pairing) \in Nat
      /\ Cardinality(Counted') = Cardinality(Counted) - 1
  BY <1>1, CountedMoves
<1>3. Cardinality(factors) \in Nat /\ IsFiniteSet(factors')
      /\ Cardinality(factors') \in Nat /\ Cardinality(factors') <= Cardinality(factors) + 1
  <2>1. IsFiniteSet(factors) /\ Cardinality(factors) \in Nat
    BY FS_CardinalityType DEF EnrolInv, CapInv
  <2>2. /\ IsFiniteSet(factors \cup {f})
        /\ \/ Cardinality(factors \cup {f}) = Cardinality(factors)
           \/ Cardinality(factors \cup {f}) = Cardinality(factors) + 1
    BY <2>1, FS_AddElement
  <2> QED
    BY <2>1, <2>2
<1>4. Cardinality(factors) + Cardinality(Counted) <= MaxFactors - 1 + Cardinality(Pairing) /\ MaxFactors \in Nat
  BY DEF EnrolInv, CapInv, E!BoundsOK
<1>5. Cardinality(factors') + Cardinality(Counted') <= MaxFactors - 1 + Cardinality(Pairing)
  BY <1>2, <1>3, <1>4
<1> QED
  BY <1>3, <1>5 DEF CapInv

-----------------------------------------------------------------------------
(* One lemma for each group of actions.                                      *)
LEMMA SetupKeeps ==
    ASSUME EnrolInv, NEW r \in Pairing,
           E!TOTPSetup(r) \/ E!PasskeyRegisterBegin(r) \/ \E f \in factors : E!ProveRemoval(r, f)
    PROVE  EnrolInv'
<1>1. PICK to \in FreqType : /\ to.pc \in {"enrol", "register", "remove"} /\ to.secret < nextSecret
                             /\ freq' = [freq EXCEPT ![r] = to]
  <2>1. CASE E!TOTPSetup(r)
    <3>1. PICK to : to = [pc |-> "enrol", secret |-> 0, stepUp |-> E!MFAEnabled]
      OBVIOUS
    <3>2. to \in FreqType /\ to.pc = "enrol" /\ to.secret = 0 /\ 0 < nextSecret
      BY <3>1 DEF FreqType, E!Requesting, E!MFAEnabled, EnrolInv, E!BoundsOK, E!TypeOK
    <3>3. freq' = [freq EXCEPT ![r] = to]
      BY <2>1, <3>1 DEF E!TOTPSetup, E!Move
    <3> QED
      BY <3>2, <3>3
  <2>2. CASE E!PasskeyRegisterBegin(r)
    <3>1. PICK to : to = [pc |-> "register", secret |-> 0, stepUp |-> E!MFAEnabled]
      OBVIOUS
    <3>2. to \in FreqType /\ to.pc = "register" /\ to.secret = 0 /\ 0 < nextSecret
      BY <3>1 DEF FreqType, E!Requesting, E!MFAEnabled, EnrolInv, E!BoundsOK, E!TypeOK
    <3>3. freq' = [freq EXCEPT ![r] = to]
      BY <2>2, <3>1 DEF E!PasskeyRegisterBegin, E!Move
    <3> QED
      BY <3>2, <3>3
  <2>3. ASSUME NEW f \in factors, E!ProveRemoval(r, f)
        PROVE  \E to \in FreqType : /\ to.pc \in {"enrol", "register", "remove"} /\ to.secret < nextSecret
                                    /\ freq' = [freq EXCEPT ![r] = to]
    <3>1. f.secret \in 0 .. MaxSecrets /\ f.secret < nextSecret
      BY DEF EnrolInv, E!TypeOK, E!BoundsOK, SecretsInOrder
    <3>2. [pc |-> "remove", secret |-> f.secret, stepUp |-> TRUE] \in FreqType
      BY <3>1 DEF FreqType, E!Requesting
    <3> QED
      BY <2>3, <3>1, <3>2 DEF E!ProveRemoval, E!Move
  <2> QED
    BY <2>1, <2>2, <2>3
<1>2. UNCHANGED <<factors, pending, ceremony, nextSecret>>
  BY DEF E!TOTPSetup, E!PasskeyRegisterBegin, E!ProveRemoval
<1>3. /\ freq' \in [Pairing -> FreqType] /\ freq'[r] = to
      /\ \A q \in Pairing : q # r => freq'[q] = freq[q]
  BY <1>1, PairingMoves
<1>4. CapInv'
  BY <1>1, <1>2, CapKept DEF Holding
<1>5. E!TypeOK'
  BY <1>2, <1>3 DEF EnrolInv, E!TypeOK, FreqType
<1>6. SecretsInOrder' /\ StillFirst'
  BY <1>1, <1>2, <1>3 DEF EnrolInv, SecretsInOrder, StillFirst, Confirming, Taken, Secret
<1>7. SecretsApart'
  BY <1>1, <1>2, <1>3 DEF EnrolInv, SecretsApart, Confirming, Taken, Secret
<1> QED
  BY <1>2, <1>4, <1>5, <1>6, <1>7 DEF EnrolInv, E!LaterFactorsAreProved, E!OneFactorPerSecret
LEMMA ReadyIs == ASSUME E!BoundsOK PROVE E!Ready \in FreqType /\ E!Ready.pc = "idle" /\ E!Ready.secret = 0
  BY DEF E!Ready, FreqType, E!Requesting, E!BoundsOK

LEMMA EnrollingKeeps ==
    ASSUME EnrolInv, NEW r \in Pairing, E!BeginTOTPEnrollment(r) \/ E!BeginPasskeyRegistration(r)
    PROVE  EnrolInv'
<1>1. E!Ready \in FreqType /\ E!Ready.pc = "idle" /\ E!Ready.secret = 0
  BY ReadyIs DEF EnrolInv
<1>2. freq' = [freq EXCEPT ![r] = E!Ready] /\ UNCHANGED factors
  BY DEF E!BeginTOTPEnrollment, E!BeginPasskeyRegistration, E!Done
<1>3. /\ freq' \in [Pairing -> FreqType] /\ freq'[r] = E!Ready
      /\ \A q \in Pairing : q # r => freq'[q] = freq[q]
  BY <1>1, <1>2, PairingMoves
<1>4. CapInv'
  BY <1>1, <1>2, CapKept DEF Holding
<1>5. nextSecret \in Nat \ {0} /\ MaxSecrets \in Nat /\ freq[r].stepUp \in BOOLEAN
  BY DEF EnrolInv, E!TypeOK, E!BoundsOK
<1>6. /\ \A f \in factors : f.secret \in Nat /\ f.secret < nextSecret
      /\ \A q \in Pairing : Secret(q) \in Nat /\ Secret(q) < nextSecret
      /\ pending.secret \in Nat /\ pending.secret < nextSecret
      /\ ceremony.secret \in Nat /\ ceremony.secret < nextSecret
  BY DEF EnrolInv, E!TypeOK, E!BoundsOK, SecretsInOrder, Secret
<1>7. CASE UNCHANGED <<pending, ceremony, nextSecret>>
  <2>1. E!TypeOK'
    BY <1>2, <1>3, <1>7 DEF EnrolInv, E!TypeOK, FreqType
  <2>2. SecretsInOrder' /\ StillFirst'
    BY <1>1, <1>2, <1>3, <1>5, <1>7 DEF EnrolInv, SecretsInOrder, StillFirst, Confirming, Taken, Secret
  <2>3. SecretsApart'
    BY <1>1, <1>2, <1>3, <1>7 DEF EnrolInv, SecretsApart, Confirming, Taken, Secret
  <2> QED
    BY <1>2, <1>4, <2>1, <2>2, <2>3 DEF EnrolInv, E!LaterFactorsAreProved, E!OneFactorPerSecret
<1>8. ASSUME NEW new, new = [secret |-> nextSecret, stepUp |-> freq[r].stepUp], nextSecret <= MaxSecrets,
             nextSecret' = nextSecret + 1,
             \/ pending' = new /\ UNCHANGED ceremony
             \/ ceremony' = new /\ UNCHANGED pending
      PROVE  EnrolInv'
  <2>1. new \in [secret : 0 .. MaxSecrets, stepUp : BOOLEAN] /\ new.secret = nextSecret
    BY <1>5, <1>8
  <2>2. E!TypeOK'
    BY <1>2, <1>3, <1>5, <1>8, <2>1 DEF EnrolInv, E!TypeOK, FreqType
  <2>3. SecretsInOrder'
    BY <1>1, <1>2, <1>3, <1>5, <1>6, <1>8, <2>1 DEF EnrolInv, SecretsInOrder, Confirming, Taken, Secret
  <2>4. StillFirst'
    BY <1>1, <1>2, <1>3, <1>5, <1>6, <1>8, <2>1 DEF EnrolInv, StillFirst, Confirming, Secret
  <2>5. SecretsApart'
    <3>1. CASE pending' = new /\ UNCHANGED ceremony
      BY <1>1, <1>2, <1>3, <1>5, <1>6, <2>1, <3>1 DEF EnrolInv, SecretsApart, Confirming, Taken, Secret
    <3>2. CASE ceremony' = new /\ UNCHANGED pending
      BY <1>1, <1>2, <1>3, <1>5, <1>6, <2>1, <3>2 DEF EnrolInv, SecretsApart, Confirming, Taken, Secret
    <3> QED
      BY <1>8, <3>1, <3>2
  <2> QED
    BY <1>2, <1>4, <2>2, <2>3, <2>4, <2>5 DEF EnrolInv, E!LaterFactorsAreProved, E!OneFactorPerSecret
<1> QED
  BY <1>7, <1>8 DEF E!BeginTOTPEnrollment, E!BeginPasskeyRegistration

LEMMA ConfirmKeeps ==
    ASSUME EnrolInv, NEW r \in Pairing, E!ConfirmTOTPEnrollment(r)
    PROVE  EnrolInv'
<1>1. PICK to : to = [pc |-> "confirm", secret |-> pending.secret, stepUp |-> pending.stepUp]
  OBVIOUS
<1>2. /\ to \in FreqType /\ to.pc = "confirm" /\ to.secret = pending.secret /\ to.stepUp = pending.stepUp
      /\ pending.secret # 0
  BY <1>1 DEF FreqType, E!Requesting, EnrolInv, E!TypeOK, E!BoundsOK, E!ConfirmTOTPEnrollment,
     SecretsInOrder
<1>3. freq' = [freq EXCEPT ![r] = to] /\ UNCHANGED <<factors, pending, ceremony, nextSecret>>
  BY <1>1 DEF E!ConfirmTOTPEnrollment, E!Move
<1>4. /\ freq' \in [Pairing -> FreqType] /\ freq'[r] = to
      /\ \A q \in Pairing : q # r => freq'[q] = freq[q]
  BY <1>2, <1>3, PairingMoves
<1>5. CapInv'
  BY <1>2, <1>3, CapKept DEF Holding
<1>6. E!TypeOK'
  BY <1>3, <1>4 DEF EnrolInv, E!TypeOK, FreqType
<1>7. ~to.stepUp => factors = {}
  BY <1>2 DEF E!ConfirmTOTPEnrollment, E!StaleEnrolment, E!MFAEnabled
<1>8. SecretsInOrder' /\ StillFirst'
  BY <1>2, <1>3, <1>4, <1>7 DEF EnrolInv, SecretsInOrder, StillFirst, Confirming, Taken, Secret
<1>9. SecretsApart'
  BY <1>2, <1>3, <1>4 DEF EnrolInv, SecretsApart, Confirming, Taken, Secret
<1> QED
  BY <1>3, <1>5, <1>6, <1>8, <1>9 DEF EnrolInv, E!LaterFactorsAreProved, E!OneFactorPerSecret

(* The two counts: a request goes on with what it has, or ends.              *)
LEMMA CountKeeps ==
    ASSUME EnrolInv, NEW r \in Pairing, E!ConfirmCount(r) \/ E!FinishCount(r)
    PROVE  EnrolInv'
<1>1. E!Ready \in FreqType /\ E!Ready.pc = "idle" /\ E!Ready.secret = 0
  BY ReadyIs DEF EnrolInv
<1>2. PICK to \in FreqType :
        /\ freq' = [freq EXCEPT ![r] = to] /\ to.secret < nextSecret
        /\ \/ to = E!Ready
           \/ /\ to.secret = freq[r].secret /\ to.stepUp = freq[r].stepUp /\ ~E!Full
              /\ \/ freq[r].pc = "confirm" /\ to.pc = "pair"
                 \/ freq[r].pc = "body" /\ to.pc = "create"
  <2>1. /\ freq[r].secret \in 0 .. MaxSecrets /\ freq[r].stepUp \in BOOLEAN /\ freq[r].secret < nextSecret
        /\ 0 < nextSecret
    BY DEF EnrolInv, E!TypeOK, E!BoundsOK, SecretsInOrder, Secret
  <2>2. PICK a, b : /\ a = [pc |-> "pair", secret |-> freq[r].secret, stepUp |-> freq[r].stepUp]
                    /\ b = [pc |-> "create", secret |-> freq[r].secret, stepUp |-> freq[r].stepUp]
    OBVIOUS
  <2>3. /\ a \in FreqType /\ a.pc = "pair" /\ a.secret = freq[r].secret /\ a.stepUp = freq[r].stepUp
        /\ b \in FreqType /\ b.pc = "create" /\ b.secret = freq[r].secret /\ b.stepUp = freq[r].stepUp
    BY <2>1, <2>2 DEF FreqType, E!Requesting
  <2>4. CASE E!Full
    BY <1>1, <2>1, <2>4 DEF E!ConfirmCount, E!FinishCount, E!Done
  <2>5. CASE ~E!Full
    BY <2>1, <2>2, <2>3, <2>5 DEF E!ConfirmCount, E!FinishCount, E!Move, E!At
  <2> QED
    BY <2>4, <2>5
<1>3. UNCHANGED <<factors, pending, ceremony, nextSecret>>
  BY DEF E!ConfirmCount, E!FinishCount
<1>4. /\ freq' \in [Pairing -> FreqType] /\ freq'[r] = to
      /\ \A q \in Pairing : q # r => freq'[q] = freq[q]
  BY <1>2, PairingMoves
<1>5. CapInv'
  BY <1>1, <1>2, <1>3, CapKept, CapAtCount DEF Holding
<1>6. E!TypeOK'
  BY <1>3, <1>4 DEF EnrolInv, E!TypeOK, FreqType
<1>7. SecretsInOrder' /\ StillFirst'
  BY <1>1, <1>2, <1>3, <1>4 DEF EnrolInv, SecretsInOrder, StillFirst, Confirming, Taken, Secret
<1>8. SecretsApart'
  BY <1>1, <1>2, <1>3, <1>4 DEF EnrolInv, SecretsApart, Confirming, Taken, Secret
<1> QED
  BY <1>3, <1>5, <1>6, <1>7, <1>8 DEF EnrolInv, E!LaterFactorsAreProved, E!OneFactorPerSecret

LEMMA FinishKeeps ==
    ASSUME EnrolInv, E!CeremonyExpires \/ \E r \in Pairing : E!FinishPasskeyRegistration(r)
    PROVE  EnrolInv'
<1>1. ceremony' = E!None /\ UNCHANGED <<factors, pending, nextSecret>>
  BY DEF E!CeremonyExpires, E!FinishPasskeyRegistration
<1>2. E!None \in [secret : 0 .. MaxSecrets, stepUp : BOOLEAN] /\ E!None.secret = 0
  BY DEF E!None, EnrolInv, E!BoundsOK
<1>3. ceremony # E!None /\ ceremony.secret # 0 /\ ceremony.secret \in 0 .. MaxSecrets /\ 0 < nextSecret
  BY DEF E!CeremonyExpires, E!FinishPasskeyRegistration, EnrolInv, E!TypeOK, E!BoundsOK, SecretsInOrder
<1>4. CASE UNCHANGED freq
  <2>1. E!TypeOK' /\ CapInv'
    BY <1>1, <1>2, <1>4 DEF EnrolInv, E!TypeOK, CapInv, Counted
  <2>2. SecretsInOrder' /\ StillFirst'
    BY <1>1, <1>2, <1>3, <1>4 DEF EnrolInv, SecretsInOrder, StillFirst, Confirming, Taken, Secret
  <2>3. SecretsApart'
    BY <1>1, <1>2, <1>4 DEF EnrolInv, SecretsApart, SecretsInOrder, Confirming, Taken, Secret
  <2> QED
    BY <1>1, <2>1, <2>2, <2>3 DEF EnrolInv, E!LaterFactorsAreProved, E!OneFactorPerSecret
<1>5. ASSUME NEW r \in Pairing, E!Move(r, "body", ceremony.secret, ceremony.stepUp), E!At(r, "idle")
      PROVE  EnrolInv'
  <2>1. PICK to : to = [pc |-> "body", secret |-> ceremony.secret, stepUp |-> ceremony.stepUp]
    OBVIOUS
  <2>2. to \in FreqType /\ to.pc = "body" /\ to.secret = ceremony.secret
    BY <2>1 DEF FreqType, E!Requesting, EnrolInv, E!TypeOK
  <2>3. freq' = [freq EXCEPT ![r] = to]
    BY <1>5, <2>1 DEF E!Move
  <2>4. /\ freq' \in [Pairing -> FreqType] /\ freq'[r] = to
        /\ \A q \in Pairing : q # r => freq'[q] = freq[q]
    BY <2>2, <2>3, PairingMoves
  <2>5. CapInv'
    BY <1>1, <2>2, <2>3, CapKept DEF Holding
  <2>6. E!TypeOK'
    BY <1>1, <1>2, <2>4 DEF EnrolInv, E!TypeOK, FreqType
  <2>7. SecretsInOrder' /\ StillFirst'
    BY <1>1, <1>2, <1>3, <2>2, <2>4 DEF EnrolInv, SecretsInOrder, StillFirst, Confirming, Taken, Secret
  <2>8. SecretsApart'
    BY <1>1, <1>2, <1>3, <2>2, <2>4 DEF EnrolInv, SecretsApart, SecretsInOrder, Confirming, Taken, Secret
  <2> QED
    BY <1>1, <2>5, <2>6, <2>7, <2>8 DEF EnrolInv, E!LaterFactorsAreProved, E!OneFactorPerSecret
<1> QED
  BY <1>4, <1>5 DEF E!CeremonyExpires, E!FinishPasskeyRegistration

(* A pairing that inserts: its secret is nobody else's.                      *)
LEMMA InsertKeeps ==
    ASSUME EnrolInv, NEW r \in Pairing, freq[r].pc \in Holding, freq' = [freq EXCEPT ![r] = E!Ready],
           NEW kind \in {"totp", "webauthn"}, NEW f, f = E!Row(Secret(r), kind, freq[r].stepUp),
           factors' = factors \cup {f}, pending' = E!None, UNCHANGED <<ceremony, nextSecret>>,
           freq[r].pc = "pair" => Secret(r) = pending.secret,
           freq[r].pc = "create" => freq[r].stepUp \/ factors = {}
    PROVE  EnrolInv'
<1>1. E!Ready \in FreqType /\ E!Ready.pc = "idle" /\ E!Ready.secret = 0
  BY ReadyIs DEF EnrolInv
<1>2. /\ freq' \in [Pairing -> FreqType] /\ freq'[r] = E!Ready
      /\ \A q \in Pairing : q # r => freq'[q] = freq[q]
  BY <1>1, PairingMoves
<1>3. E!None \in [secret : 0 .. MaxSecrets, stepUp : BOOLEAN] /\ E!None.secret = 0
  BY DEF E!None, EnrolInv, E!BoundsOK
<1>4. /\ Secret(r) \in 1 .. MaxSecrets /\ Secret(r) < nextSecret /\ Secret(r) # 0 /\ 0 < nextSecret
      /\ freq[r].stepUp \in BOOLEAN
  BY DEF EnrolInv, E!TypeOK, E!BoundsOK, SecretsInOrder, Secret, Holding, Confirming, Taken
<1>5. f.secret = Secret(r) /\ f.proved = freq[r].stepUp /\ f.alone = (factors = {}) /\ f.kind = kind
  BY DEF E!Row
<1>6. f \in [secret : 1 .. MaxSecrets, kind : {"totp", "webauthn"}, alone : BOOLEAN, proved : BOOLEAN]
  BY <1>4 DEF E!Row
<1>7. CapInv'
  BY CapAtInsert
<1>8. E!TypeOK'
  BY <1>2, <1>3, <1>6 DEF EnrolInv, E!TypeOK, FreqType
<1>9. \A g \in factors : g.secret # Secret(r)
  BY <1>4 DEF EnrolInv, SecretsApart, Holding, Taken
<1>10. E!OneFactorPerSecret'
  BY <1>5, <1>9 DEF EnrolInv, E!OneFactorPerSecret
<1>11. f.alone \/ f.proved
  BY <1>5 DEF EnrolInv, StillFirst, Holding, Confirming
<1>12. E!LaterFactorsAreProved'
  BY <1>11 DEF EnrolInv, E!LaterFactorsAreProved
<1>13. SecretsInOrder'
  BY <1>1, <1>2, <1>3, <1>4, <1>5 DEF EnrolInv, SecretsInOrder, Confirming, Taken, Secret
<1>14. StillFirst'
  BY <1>1, <1>2, <1>3 DEF EnrolInv, SecretsInOrder, StillFirst, Confirming, Taken, Secret
<1>15. Secret(r) # ceremony.secret
  BY <1>4 DEF EnrolInv, SecretsApart, Holding, Taken, Confirming
<1>16. \A q \in Pairing : q # r /\ freq[q].pc \in Taken => Secret(q) # Secret(r)
  BY DEF EnrolInv, SecretsApart, Holding, Taken, Confirming
<1>17. SecretsApart'
  BY <1>1, <1>2, <1>3, <1>5, <1>15, <1>16 DEF EnrolInv, SecretsInOrder, SecretsApart, Confirming,
     Taken, Secret
<1> QED
  BY <1>7, <1>8, <1>10, <1>12, <1>13, <1>14, <1>17 DEF EnrolInv

(* A request that ends and leaves the rest as it was.                        *)
LEMMA EndKeeps ==
    ASSUME EnrolInv, NEW r \in Pairing, freq' = [freq EXCEPT ![r] = E!Ready],
           UNCHANGED <<factors, pending, ceremony, nextSecret>>
    PROVE  EnrolInv'
<1>1. E!Ready \in FreqType /\ E!Ready.pc = "idle" /\ E!Ready.secret = 0 /\ 0 < nextSecret
  BY ReadyIs DEF EnrolInv, E!TypeOK
<1>2. /\ freq' \in [Pairing -> FreqType] /\ freq'[r] = E!Ready
      /\ \A q \in Pairing : q # r => freq'[q] = freq[q]
  BY <1>1, PairingMoves
<1>3. CapInv'
  BY <1>1, CapKept DEF Holding
<1>4. E!TypeOK'
  BY <1>2 DEF EnrolInv, E!TypeOK, FreqType
<1>5. SecretsInOrder' /\ StillFirst'
  BY <1>1, <1>2 DEF EnrolInv, SecretsInOrder, StillFirst, Confirming, Taken, Secret
<1>6. SecretsApart'
  BY <1>1, <1>2 DEF EnrolInv, SecretsApart, Confirming, Taken, Secret
<1> QED
  BY <1>3, <1>4, <1>5, <1>6 DEF EnrolInv, E!LaterFactorsAreProved, E!OneFactorPerSecret

LEMMA PairingKeeps ==
    ASSUME EnrolInv, NEW r \in Pairing, E!PairPendingFactor(r) \/ E!CreateFactor(r)
    PROVE  EnrolInv'
<1>1. CASE UNCHANGED <<factors, pending>>
  BY <1>1, EndKeeps DEF E!PairPendingFactor, E!CreateFactor, E!Done
<1>2. CASE E!PairPendingFactor(r) /\ E!Claims(freq[r].secret) /\ pending' = E!None
  <2>1. PICK f : f = E!Row(Secret(r), "totp", freq[r].stepUp)
    OBVIOUS
  <2>2. factors' = factors \cup {f} \/ UNCHANGED <<factors, pending>>
    BY <1>2, <2>1 DEF E!PairPendingFactor, Secret
  <2>3. freq[r].pc = "pair" /\ Secret(r) = pending.secret
    BY <1>2 DEF E!PairPendingFactor, E!At, E!Claims, Secret
  <2> QED
    BY <1>1, <1>2, <2>1, <2>2, <2>3, InsertKeeps DEF E!PairPendingFactor, E!Done, Holding
<1>3. CASE E!CreateFactor(r) /\ E!MayCreate(freq[r].stepUp)
  <2>1. PICK f : f = E!Row(Secret(r), "webauthn", freq[r].stepUp)
    OBVIOUS
  <2>2. (factors' = factors \cup {f} /\ pending' = E!None) \/ UNCHANGED <<factors, pending>>
    BY <1>3, <2>1 DEF E!CreateFactor, Secret
  <2>3. freq[r].pc = "create" /\ (freq[r].stepUp \/ factors = {})
    BY <1>3 DEF E!CreateFactor, E!At, E!MayCreate
  <2> QED
    BY <1>1, <1>3, <2>1, <2>2, <2>3, InsertKeeps DEF E!CreateFactor, E!Done, Holding
<1> QED
  BY <1>1, <1>2, <1>3 DEF E!PairPendingFactor, E!CreateFactor

(* A removal leaves a factor: the rows that go have one secret, so they are  *)
(* one row, and there were more.                                             *)
LEMMA Remains ==
    ASSUME EnrolInv, NEW s, E!MayDelete
    PROVE  {f \in factors : f.secret # s} # {}
<1> SUFFICES ASSUME \A f \in factors : f.secret = s PROVE FALSE
  OBVIOUS
<1>1. \A f, g \in factors : f = g
  BY DEF EnrolInv, E!OneFactorPerSecret
<1>2. CASE factors = {}
  BY <1>2, FS_EmptySet, EnrolSizes DEF E!MayDelete, E!CountFactors
<1>3. CASE \E f \in factors : factors = {f}
  <2>1. Cardinality(factors) = 1
    BY <1>3, FS_Singleton
  <2> QED
    BY <2>1, EnrolSizes DEF E!MayDelete, E!CountFactors
<1> QED
  BY <1>1, <1>2, <1>3

LEMMA DeleteKeeps ==
    ASSUME EnrolInv, NEW r \in Pairing, E!DeleteFactor(r)
    PROVE  EnrolInv'
<1>1. E!Ready \in FreqType /\ E!Ready.pc = "idle" /\ E!Ready.secret = 0 /\ 0 < nextSecret
  BY ReadyIs DEF EnrolInv, E!TypeOK
<1>2. /\ freq' = [freq EXCEPT ![r] = E!Ready] /\ UNCHANGED <<pending, ceremony, nextSecret>>
      /\ factors' \subseteq factors
  BY DEF E!DeleteFactor, E!Done
<1>3. /\ freq' \in [Pairing -> FreqType] /\ freq'[r] = E!Ready
      /\ \A q \in Pairing : q # r => freq'[q] = freq[q]
  BY <1>1, <1>2, PairingMoves
<1>4. CapInv'
  <2>1. /\ Cardinality(Counted) \in Nat /\ Cardinality(Pairing) \in Nat
        /\ Cardinality(Counted') <= Cardinality(Counted) /\ Cardinality(Counted') \in Nat
    BY <1>1, <1>2, CountedMoves DEF Holding
  <2>2. /\ IsFiniteSet(factors') /\ Cardinality(factors') <= Cardinality(factors)
        /\ Cardinality(factors') \in Nat /\ Cardinality(factors) \in Nat
    BY <1>2, FS_Subset, FS_CardinalityType DEF EnrolInv, CapInv
  <2>3. Cardinality(factors) + Cardinality(Counted) <= MaxFactors - 1 + Cardinality(Pairing) /\ MaxFactors \in Nat
    BY DEF EnrolInv, CapInv, E!BoundsOK
  <2>4. Cardinality(factors') + Cardinality(Counted') <= MaxFactors - 1 + Cardinality(Pairing)
    BY <2>1, <2>2, <2>3
  <2> QED
    BY <2>2, <2>4 DEF CapInv
<1>5. E!TypeOK'
  BY <1>2, <1>3 DEF EnrolInv, E!TypeOK, FreqType
<1>6. SecretsInOrder'
  BY <1>1, <1>2, <1>3 DEF EnrolInv, SecretsInOrder, Confirming, Taken, Secret
<1>7. StillFirst'
  BY <1>1, <1>2, <1>3 DEF EnrolInv, StillFirst, Confirming, Secret
<1>8. SecretsApart'
  BY <1>1, <1>2, <1>3 DEF EnrolInv, SecretsApart, Confirming, Taken, Secret
<1> QED
  BY <1>2, <1>4, <1>5, <1>6, <1>7, <1>8 DEF EnrolInv, E!LaterFactorsAreProved, E!OneFactorPerSecret

LEMMA EnrolNext == ASSUME EnrolInv, [E!Next]_E!evars PROVE EnrolInv'
<1>1. CASE UNCHANGED E!evars
  BY <1>1 DEF E!evars, EnrolInv, E!TypeOK, CapInv, Counted, SecretsInOrder, SecretsApart, StillFirst,
     E!LaterFactorsAreProved, E!OneFactorPerSecret, Secret
<1>2. CASE E!Next
  BY <1>2, SetupKeeps, EnrollingKeeps, ConfirmKeeps, CountKeeps, FinishKeeps, PairingKeeps, DeleteKeeps
     DEF E!Next, E!Step
<1> QED
  BY <1>1, <1>2

LEMMA EnrolEnough == ASSUME EnrolInv PROVE E!TypeOK /\ E!OneFactorPerSecret /\ E!LaterFactorsAreProved /\ E!CapHolds
<1>1. Cardinality(Counted) \in Nat /\ Cardinality(Pairing) \in Nat /\ Cardinality(factors) \in Nat
  <2>1. Counted \subseteq Pairing
    BY DEF Counted
  <2> QED
    BY <2>1, FS_Subset, FS_CardinalityType, EnrolSizes DEF EnrolInv, CapInv, E!BoundsOK
<1>2. Cardinality(factors) + Cardinality(Counted) <= MaxFactors - 1 + Cardinality(Pairing) /\ MaxFactors \in Nat
  BY DEF EnrolInv, CapInv, E!BoundsOK
<1>3. E!CapHolds
  BY <1>1, <1>2, EnrolSizes DEF E!CapHolds, E!CountFactors
<1> QED
  BY <1>3 DEF EnrolInv

(* handleDeleteFactor's DELETE and every other statement: no step takes the  *)
(* last factor of an account.                                                *)
LEMMA StepProtects == ASSUME EnrolInv, [E!Next]_E!evars PROVE [E!StaysProtected]_E!evars
<1>1. CASE UNCHANGED E!evars
  BY <1>1
<1>2. CASE E!Next
  <2>1. \A r \in Pairing : E!DeleteFactor(r) => E!StaysProtected
    BY Remains DEF E!DeleteFactor, E!StaysProtected
  <2>2. (\E r \in Pairing : E!DeleteFactor(r)) \/ factors \subseteq factors'
    BY <1>2 DEF E!Next, E!Step, E!TOTPSetup, E!BeginTOTPEnrollment, E!ConfirmTOTPEnrollment,
       E!ConfirmCount, E!PairPendingFactor,
       E!PasskeyRegisterBegin, E!BeginPasskeyRegistration, E!FinishPasskeyRegistration, E!FinishCount, E!CreateFactor,
       E!ProveRemoval, E!CeremonyExpires
  <2> QED
    BY <2>1, <2>2 DEF E!StaysProtected
<1> QED
  BY <1>1, <1>2

(* However pairings, registrations and removals interleave, a secret is in   *)
(* one place and the pairings that have counted leave room for one another   *)
(* (PairPendingFactor, FinishPasskeyRegistration, DeleteFactor).             *)
THEOREM EnrolInvariance == E!BoundsOK /\ E!Spec => []EnrolInv
<1>1. E!BoundsOK /\ E!Init => EnrolInv
  BY EnrolInit
<1>2. EnrolInv /\ [E!Next]_E!evars => EnrolInv'
  BY EnrolNext
<1> QED
  BY <1>1, <1>2, PTL DEF E!Spec

(* An enrolment makes one factor, a later one needs the password proved, the *)
(* cap holds up to the pairings under way, and a protected account is never  *)
(* left bare (confirmCurrentPassword, CountFactors, PairPendingFactor,       *)
(* DeleteFactor).                                                            *)
THEOREM FactorsSound ==
    E!BoundsOK /\ E!Spec => /\ [](E!TypeOK /\ E!OneFactorPerSecret /\ E!LaterFactorsAreProved /\ E!CapHolds)
                            /\ E!ProtectedStaysProtected
<1>1. EnrolInv => E!TypeOK /\ E!OneFactorPerSecret /\ E!LaterFactorsAreProved /\ E!CapHolds
  BY EnrolEnough
<1>2. EnrolInv /\ [E!Next]_E!evars => [E!StaysProtected]_E!evars
  BY StepProtects
<1> QED
  BY <1>1, <1>2, EnrolInvariance, PTL DEF E!Spec, E!ProtectedStaysProtected

-----------------------------------------------------------------------------
(* Accounts, roles and what they grant.                                    *)

LEMMA AccountSizes ==
    \A X : A!IsFiniteSet(X) = IsFiniteSet(X) /\ A!Cardinality(X) = Cardinality(X)
<1>1. \A X : A!IsFiniteSet(X) = IsFiniteSet(X)
  BY DEF A!IsFiniteSet, IsFiniteSet
<1>2. \A X : A!Cardinality(X) = Cardinality(X)
  BY <1>1 DEF A!Cardinality, Cardinality
<1> QED
  BY <1>1, <1>2

(* What a request holds, by where it stands.                                 *)
UserRow == [role : {"admin", "user"}, readOnly : BOOLEAN, sections : SUBSET Sections, source : {"local", "ldap"}]
Held ==
    {A!Free} \cup [pc : {"first", "delete"}, user : Users]
    \cup [pc : {"access"}, user : Users, body : ThreeBodies, ids : SUBSET Roles]
    \cup [pc : {"clear", "lookup"}, user : Users, ids : SUBSET Roles]
    \cup [pc : {"insert"}, user : Users, id : Roles, ids : SUBSET Roles]
    \cup [pc : {"hosts"}, id : Roles, hosts : SUBSET Hosts]
    \cup [pc : {"unassign", "drop"}, id : Roles]
    \cup [pc : {"directory"}, user : Users, was : SUBSET UserRow]
    \cup [pc : {"sync"}, user : Users, want : SUBSET Roles]
HeldInv == users \in [DOMAIN users -> UserRow] /\ areq \in [Requests -> Held] /\ offer \in AccountWays

(* Setup makes an account of an empty table only.                            *)
SetupInv == made <= 1 /\ (users = <<>> => made = 0)

(* Without an overlap one request is open, and what it read still holds: the *)
(* admin it counted besides the one it takes, the row it writes back, the    *)
(* role it assigns, the role that is deleted and no fallback.                *)
Open(r) == areq[r].pc # "idle"
OneOpen == \A q, r \in Requests : Open(q) /\ Open(r) => q = r
Demotes(r) == areq[r].pc = "delete" \/ (areq[r].pc = "access" /\ areq[r].body.role # "admin")
StillTrue(r) ==
    /\ Demotes(r) => \E u \in A!Admins : u # areq[r].user
    /\ areq[r].pc = "directory" => A!Admins # {}
    /\ areq[r].pc = "directory" => \A x \in areq[r].was :
          /\ areq[r].was = {x}
          /\ areq[r].user \in DOMAIN users /\ users[areq[r].user].role = x.role
    /\ areq[r].pc = "insert" => areq[r].id \in roles
    /\ areq[r].pc \in {"unassign", "drop"} => areq[r].id \notin fallback
    /\ areq[r].pc = "drop" => \A p \in userRoles : p[2] # areq[r].id
AloneInv ==
    ~busy => /\ OneOpen /\ \A r \in Requests : StillTrue(r)
             /\ users # <<>> => A!Admins # {}
             /\ \A p \in userRoles : p[2] \in roles

AccountInv == A!BoundsOK /\ A!TypeOK /\ HeldInv /\ SetupInv /\ AloneInv

LEMMA EmptyIs == ASSUME NEW D, NEW R, NEW f \in [D -> R] PROVE f = <<>> <=> D = {}
<1>1. <<>> = [x \in {} |-> x]
  OBVIOUS
<1> QED
  BY <1>1

LEMMA AccountInit == ASSUME A!BoundsOK, A!Init PROVE AccountInv
<1>1. users \in [DOMAIN users -> UserRow] /\ DOMAIN users = {}
  BY DEF A!Init
<1>2. A!TypeOK
  BY <1>1 DEF A!Init, A!TypeOK, A!NoRow, A!Access
<1>3. HeldInv
  BY <1>1 DEF A!Init, HeldInv, Held
<1>4. SetupInv
  BY DEF A!Init, SetupInv
<1>5. AloneInv
  BY DEF A!Init, AloneInv, OneOpen, Open, StillTrue, Demotes, A!Free
<1> QED
  BY <1>2, <1>3, <1>4, <1>5 DEF AccountInv

(* What a request holds.                                                     *)
LEMMA HeldIs ==
    ASSUME AccountInv, NEW r \in Requests
    PROVE  /\ areq[r] \in Held
           /\ areq[r].pc \in {"first", "delete", "access", "clear", "lookup", "insert", "directory", "sync"}
                => areq[r].user \in Users
           /\ areq[r].pc = "access" => areq[r].body \in ThreeBodies
           /\ areq[r].pc \in {"access", "clear", "lookup", "insert"} => areq[r].ids \subseteq Roles
           /\ areq[r].pc \in {"insert", "hosts", "unassign", "drop"} => areq[r].id \in Roles
           /\ areq[r].pc = "hosts" => areq[r].hosts \subseteq Hosts
           /\ areq[r].pc = "directory" => areq[r].was \subseteq UserRow
           /\ areq[r].pc = "sync" => areq[r].want \subseteq Roles
<1>1. areq[r] \in Held
  BY DEF AccountInv, HeldInv
<1> QED
  BY <1>1 DEF Held, A!Free

(* What To does, and what no overlap says of the others.                     *)
LEMMA AdminMoves ==
    ASSUME AccountInv, NEW r \in Requests, NEW rec \in Held, A!To(r, rec)
    PROVE  /\ areq' \in [Requests -> Held] /\ areq'[r] = rec
           /\ \A q \in Requests : q # r => areq'[q] = areq[q]
           /\ offer' \in AccountWays /\ busy' \in BOOLEAN
           /\ ~busy' => ~busy /\ (rec.pc # "idle" => \A q \in Requests : q # r => areq[q].pc = "idle")
  BY DEF AccountInv, HeldInv, A!TypeOK, A!To

LEMMA StillKept ==
    ASSUME AccountInv, NEW q \in Requests, StillTrue(q), areq'[q] = areq[q],
           \A u \in DOMAIN users : u \in DOMAIN users' /\ users'[u] = users[u],
           roles \subseteq roles', fallback' = fallback, userRoles' \subseteq userRoles
    PROVE  StillTrue(q)'
<1>1. Demotes(q)' = Demotes(q)
  BY DEF Demotes
<1>2. A!Admins \subseteq A!Admins'
  BY DEF A!Admins
<1>3. Demotes(q)' => \E u \in A!Admins' : u # areq'[q].user
  BY <1>1, <1>2 DEF StillTrue
<1> QED
  BY <1>2, <1>3 DEF StillTrue

Grows == /\ \A u \in DOMAIN users : u \in DOMAIN users' /\ users'[u] = users[u]
         /\ roles \subseteq roles' /\ fallback' = fallback /\ userRoles' \subseteq userRoles
Settled == /\ users # <<>> => A!Admins # {}
           /\ \A p \in userRoles : p[2] \in roles
Typed == A!TypeOK /\ users \in [DOMAIN users -> UserRow]

LEMMA ToKeeps ==
    ASSUME AccountInv, NEW r \in Requests, NEW rec \in Held, A!To(r, rec),
           Typed', SetupInv',
           areq[r].pc = "idle" /\ rec.pc = "idle" => Grows,
           ~busy /\ ~busy' => StillTrue(r)' /\ Settled'
    PROVE  AccountInv'
<1>1. HeldInv'
  BY AdminMoves DEF HeldInv, Typed
<1>2. ASSUME ~busy', NEW q \in Requests, q # r PROVE StillTrue(q)'
  <2>1. ~busy /\ areq'[q] = areq[q] /\ areq'[r] = rec
    BY <1>2, AdminMoves
  <2>2. CASE areq[q].pc = "idle"
    BY <2>1, <2>2 DEF StillTrue, Demotes
  <2>3. CASE areq[q].pc # "idle"
    <3>1. rec.pc = "idle" /\ areq[r].pc = "idle"
      BY <1>2, <2>1, <2>3, AdminMoves DEF AccountInv, AloneInv, OneOpen, Open
    <3> QED
      BY <2>1, <3>1, StillKept DEF Grows, AccountInv, AloneInv
  <2> QED
    BY <2>2, <2>3
<1>3. ASSUME ~busy' PROVE OneOpen'
  BY <1>3, AdminMoves DEF AccountInv, AloneInv, OneOpen, Open
<1>4. AloneInv'
  BY <1>2, <1>3, AdminMoves DEF AloneInv, Settled
<1> QED
  BY <1>1, <1>4 DEF AccountInv, Typed, A!BoundsOK

(* A step that leaves the accounts alone, and one that leaves the roles.     *)
UserVars == <<users, made>>
RoleVars == <<roles, roleRows, userRoles, disabled, fallback>>

LEMMA UsersAlone ==
    ASSUME AccountInv, UNCHANGED UserVars
    PROVE  /\ A!Admins' = A!Admins /\ SetupInv' /\ users' \in [DOMAIN users' -> UserRow] /\ made' \in Nat
           /\ ~busy => (users' # <<>> => A!Admins' # {})
  BY DEF UserVars, AccountInv, A!Admins, SetupInv, HeldInv, A!TypeOK, AloneInv

LEMMA OfferIs == ASSUME AccountInv PROVE offer.roles \subseteq Roles /\ offer.lanes \subseteq Requests
  BY DEF AccountInv, A!BoundsOK, HeldInv

(* A request that only moves: an arrival's guard, a lookup, an end.          *)
LEMMA MoveKeeps ==
    ASSUME AccountInv, NEW r \in Requests, NEW rec \in Held, A!To(r, rec),
           UNCHANGED UserVars, UNCHANGED RoleVars,
           ~busy => (StillTrue(r)' \/ rec.pc = "idle")
    PROVE  AccountInv'
<1>1. Typed'
  <2>1. UNCHANGED <<users, roles, roleRows, userRoles, disabled, fallback, made>> /\ busy' \in BOOLEAN
    BY AdminMoves DEF UserVars, RoleVars
  <2> QED
    BY <2>1 DEF AccountInv, HeldInv, Typed, A!TypeOK
<1>2. rec.pc = "idle" => StillTrue(r)'
  BY AdminMoves DEF StillTrue, Demotes
<1>3. Grows
  BY DEF Grows, UserVars, RoleVars
<1>4. ~busy => Settled'
  BY UsersAlone DEF Settled, RoleVars, AccountInv, AloneInv
<1> QED
  BY <1>1, <1>2, <1>3, <1>4, UsersAlone, ToKeeps

LEMMA FreeIs == A!Free \in Held /\ A!Free.pc = "idle"
  BY DEF Held, A!Free

(* Who is not the last admin leaves another one.                             *)
LEMMA Another ==
    ASSUME AccountInv, NEW u \in Users, ~A!LastAdmin(u), A!Admins # {}
    PROVE  \E v \in A!Admins : v # u
<1>1. IsFiniteSet(Users) /\ A!Admins \subseteq Users
  BY AccountSizes DEF AccountInv, A!BoundsOK, A!TypeOK, A!Admins
<1>2. SUFFICES ASSUME \A v \in A!Admins : v = u PROVE FALSE
  OBVIOUS
<1>3. A!Admins = {u}
  BY <1>2
<1>4. Cardinality({u}) = 1
  BY FS_Singleton
<1> QED
  BY <1>3, <1>4, AccountSizes DEF A!LastAdmin

LEMMA FirstRunKeeps ==
    ASSUME AccountInv, NEW r \in Requests, NEW u \in Users, A!Setup(r, u)
    PROVE  AccountInv'
<1> DEFINE rec == [pc |-> "first", user |-> u]
<1>1. rec \in Held
  BY DEF Held
<1>2. A!To(r, rec) /\ UNCHANGED UserVars /\ UNCHANGED RoleVars
  BY DEF A!Setup, UserVars, RoleVars
<1>3. areq'[r] = rec
  BY <1>1, <1>2, AdminMoves
<1>4. StillTrue(r)'
  BY <1>3 DEF StillTrue, Demotes
<1> QED
  BY <1>1, <1>2, <1>4, MoveKeeps

LEMMA AskKeeps ==
    ASSUME AccountInv, NEW r \in Requests, NEW u \in Users, A!LDAPLogin(r, u)
    PROVE  AccountInv'
<1> DEFINE was == IF u \in DOMAIN users THEN {users[u]} ELSE {}
           rec == [pc |-> "directory", user |-> u, was |-> was]
<1>1. was \subseteq UserRow
  BY DEF AccountInv, HeldInv
<1>2. rec \in Held
  BY <1>1 DEF Held
<1>3. A!To(r, rec) /\ UNCHANGED UserVars /\ UNCHANGED RoleVars
  BY DEF A!LDAPLogin, UserVars, RoleVars
<1>4. areq'[r] = rec
  BY <1>2, <1>3, AdminMoves
<1>5. \A x \in was : was = {x} /\ u \in DOMAIN users /\ users[u].role = x.role
  OBVIOUS
<1>6. A!Admins' # {}
  BY <1>3, UsersAlone DEF A!LDAPLogin
<1>7. StillTrue(r)'
  BY <1>3, <1>4, <1>5, <1>6 DEF StillTrue, Demotes, UserVars
<1> QED
  BY <1>2, <1>3, <1>7, MoveKeeps

LEMMA EditKeeps ==
    ASSUME AccountInv, NEW r \in Requests, NEW u \in Users, NEW body \in ThreeBodies, NEW ids \in SUBSET offer.roles,
           A!UpdateUser(r, u, body, ids)
    PROVE  AccountInv'
<1> DEFINE rec == [pc |-> "access", user |-> u, body |-> body, ids |-> ids]
<1>1. rec \in Held
  BY OfferIs DEF Held
<1>2. A!To(r, rec) /\ UNCHANGED UserVars /\ UNCHANGED RoleVars
  BY DEF A!UpdateUser, UserVars, RoleVars
<1>3. areq'[r] = rec /\ A!Admins' = A!Admins
  BY <1>1, <1>2, AdminMoves, UsersAlone
<1>4. ASSUME ~busy, body.role # "admin" PROVE \E v \in A!Admins : v # u
  <2>1. u \in DOMAIN users /\ ~A!LastAdmin(u)
    BY <1>4 DEF A!UpdateUser
  <2>2. users # <<>>
    BY <2>1
  <2> QED
    BY <1>4, <2>1, <2>2, Another DEF AccountInv, AloneInv
<1>5. ~busy => StillTrue(r)'
  BY <1>3, <1>4 DEF StillTrue, Demotes
<1> QED
  BY <1>1, <1>2, <1>5, MoveKeeps

LEMMA GuardKeeps ==
    ASSUME AccountInv, NEW r \in Requests, NEW me \in Users, NEW u \in Users, A!DeleteUserGuard(r, me, u)
    PROVE  AccountInv'
<1> DEFINE rec == [pc |-> "delete", user |-> u]
<1>1. rec \in Held
  BY DEF Held
<1>2. A!To(r, rec) /\ UNCHANGED UserVars /\ UNCHANGED RoleVars
  BY DEF A!DeleteUserGuard, UserVars, RoleVars
<1>3. areq'[r] = rec /\ A!Admins' = A!Admins
  BY <1>1, <1>2, AdminMoves, UsersAlone
<1>4. \E v \in A!Admins : v # u
  BY DEF A!DeleteUserGuard
<1>5. StillTrue(r)'
  BY <1>3, <1>4 DEF StillTrue, Demotes
<1> QED
  BY <1>1, <1>2, <1>5, MoveKeeps

LEMMA DeleteRoleKeeps ==
    ASSUME AccountInv, NEW r \in Requests, NEW id \in offer.roles, A!DeleteRole(r, id)
    PROVE  AccountInv'
<1> DEFINE rec == [pc |-> "unassign", id |-> id]
<1>1. rec \in Held
  BY OfferIs DEF Held
<1>2. A!To(r, rec) /\ UNCHANGED UserVars /\ UNCHANGED RoleVars
  BY DEF A!DeleteRole, UserVars, RoleVars
<1>3. areq'[r] = rec
  BY <1>1, <1>2, AdminMoves
<1>4. StillTrue(r)'
  BY <1>2, <1>3 DEF StillTrue, Demotes, A!DeleteRole, A!Deletable, RoleVars
<1> QED
  BY <1>1, <1>2, <1>4, MoveKeeps

LEMMA LookupKeeps ==
    ASSUME AccountInv, NEW r \in Requests, A!LookupRole(r)
    PROVE  AccountInv'
<1>1. UNCHANGED UserVars /\ UNCHANGED RoleVars /\ areq[r].pc = "lookup"
  BY DEF A!LookupRole, UserVars, RoleVars, A!Stands
<1>2. areq[r] \in [pc : {"clear", "lookup"}, user : Users, ids : SUBSET Roles]
  BY <1>1, HeldIs DEF Held, A!Free
<1>3. CASE areq[r].ids = {}
  BY <1>1, <1>3, FreeIs, MoveKeeps DEF A!LookupRole, A!End
<1>4. CASE areq[r].ids # {}
  <2>1. PICK id \in areq[r].ids :
          IF id \in roles
            THEN A!To(r, [pc |-> "insert", user |-> areq[r].user, id |-> id, ids |-> areq[r].ids \ {id}])
            ELSE A!To(r, [areq[r] EXCEPT !.ids = @ \ {id}])
    BY <1>4 DEF A!LookupRole
  <2>2. CASE id \in roles
    <3> DEFINE rec == [pc |-> "insert", user |-> areq[r].user, id |-> id, ids |-> areq[r].ids \ {id}]
    <3>1. rec \in Held
      BY <1>2 DEF Held
    <3>2. A!To(r, rec)
      BY <2>1, <2>2
    <3>3. areq'[r] = rec
      BY <3>1, <3>2, AdminMoves
    <3>4. StillTrue(r)'
      BY <1>1, <2>2, <3>3 DEF StillTrue, Demotes, RoleVars
    <3> QED
      BY <1>1, <3>1, <3>2, <3>4, MoveKeeps
  <2>3. CASE id \notin roles
    <3> DEFINE rec == [areq[r] EXCEPT !.ids = @ \ {id}]
    <3>1. rec \in Held /\ rec.pc = "lookup"
      BY <1>1, <1>2 DEF Held
    <3>2. A!To(r, rec)
      BY <2>1, <2>3
    <3>3. areq'[r] = rec
      BY <3>1, <3>2, AdminMoves
    <3>4. StillTrue(r)'
      BY <3>1, <3>3 DEF StillTrue, Demotes
    <3> QED
      BY <1>1, <3>1, <3>2, <3>4, MoveKeeps
  <2> QED
    BY <2>2, <2>3
<1> QED
  BY <1>3, <1>4

LEMMA SyncKeeps ==
    ASSUME AccountInv, NEW r \in Requests, A!SyncRoles(r)
    PROVE  AccountInv'
<1> DEFINE valid == A!SyncedRoles(areq[r].want)
           rec == [pc |-> "clear", user |-> areq[r].user, ids |-> valid]
<1>1. UNCHANGED UserVars /\ UNCHANGED RoleVars /\ areq[r].pc = "sync"
  BY DEF A!SyncRoles, UserVars, RoleVars, A!Stands
<1>2. areq[r].user \in Users /\ valid \subseteq Roles
  BY <1>1, HeldIs DEF A!SyncedRoles, AccountInv, A!TypeOK
<1>3. rec \in Held
  BY <1>2 DEF Held
<1>4. A!To(r, A!Free) \/ A!To(r, rec)
  BY DEF A!SyncRoles, A!End
<1>5. CASE A!To(r, A!Free)
  BY <1>1, <1>5, FreeIs, MoveKeeps
<1>6. CASE A!To(r, rec)
  <2>1. areq'[r] = rec
    BY <1>3, <1>6, AdminMoves
  <2>2. StillTrue(r)'
    BY <2>1 DEF StillTrue, Demotes
  <2> QED
    BY <1>1, <1>3, <1>6, <2>2, MoveKeeps
<1> QED
  BY <1>4, <1>5, <1>6

(* A request that ends or goes on having written accounts only.              *)
LEMMA AccountsWritten ==
    ASSUME AccountInv, NEW r \in Requests, NEW rec \in Held, A!To(r, rec), UNCHANGED RoleVars,
           users' \in [DOMAIN users' -> UserRow], DOMAIN users' \subseteq Users, made' \in Nat, SetupInv',
           areq[r].pc = "idle" => \A u \in DOMAIN users : u \in DOMAIN users' /\ users'[u] = users[u],
           rec.pc \in {"idle", "clear", "sync"},
           ~busy => (users' # <<>> => A!Admins' # {})
    PROVE  AccountInv'
<1>1. Typed'
  <2>1. UNCHANGED <<roles, roleRows, userRoles, disabled, fallback>> /\ busy' \in BOOLEAN
    BY AdminMoves DEF RoleVars
  <2> QED
    BY <2>1 DEF AccountInv, Typed, A!TypeOK, UserRow
<1>2. StillTrue(r)'
  BY AdminMoves DEF StillTrue, Demotes
<1>3. areq[r].pc = "idle" => Grows
  BY DEF Grows, RoleVars
<1>4. ~busy => Settled'
  BY DEF Settled, RoleVars, AccountInv, AloneInv
<1> QED
  BY <1>1, <1>2, <1>3, <1>4, ToKeeps

(* An account that is not there yet.                                         *)
LEMMA PutIs ==
    ASSUME AccountInv, NEW u \in Users, NEW row \in UserRow, u \notin DOMAIN users, users' = A!Put(users, u, row)
    PROVE  /\ users' \in [DOMAIN users' -> UserRow] /\ DOMAIN users' = DOMAIN users \cup {u} /\ users' # <<>>
           /\ users'[u] = row /\ \A v \in DOMAIN users : users'[v] = users[v]
           /\ A!Admins \subseteq A!Admins' /\ (row.role = "admin" => A!Admins' # {})
<1>1. users \in [DOMAIN users -> UserRow]
  BY DEF AccountInv, HeldInv
<1>2. /\ users' \in [DOMAIN users' -> UserRow] /\ DOMAIN users' = DOMAIN users \cup {u}
      /\ users'[u] = row /\ \A v \in DOMAIN users : users'[v] = users[v]
  BY <1>1 DEF A!Put
<1>3. users' # <<>>
  BY <1>2
<1>4. A!Admins \subseteq A!Admins' /\ (row.role = "admin" => u \in A!Admins')
  BY <1>2 DEF A!Admins
<1> QED
  BY <1>2, <1>3, <1>4

LEMMA FirstKeeps ==
    ASSUME AccountInv, NEW r \in Requests, A!CreateFirstUser(r)
    PROVE  AccountInv'
<1> DEFINE row == A!Account("admin", FALSE, {}, "local")
<1>1. A!To(r, A!Free) /\ UNCHANGED RoleVars /\ areq[r].pc = "first"
  BY DEF A!CreateFirstUser, A!End, RoleVars, A!Stands
<1>2. areq[r].user \in Users /\ row \in UserRow /\ row.role = "admin"
  BY <1>1, HeldIs DEF A!Account, UserRow
<1>3. CASE A!NoUsers
  <2>1. users = <<>> /\ users' = A!Put(users, areq[r].user, row) /\ made' = made + 1
    BY <1>3 DEF A!CreateFirstUser, A!NoUsers
  <2>2. made = 0 /\ DOMAIN users = {}
    BY <2>1 DEF AccountInv, SetupInv
  <2>3. /\ users' \in [DOMAIN users' -> UserRow] /\ DOMAIN users' = {areq[r].user} /\ users' # <<>> /\ A!Admins' # {}
    BY <1>2, <2>1, <2>2, PutIs
  <2>4. made' = 1
    BY <2>1, <2>2
  <2>5. SetupInv' /\ made' \in Nat
    BY <2>3, <2>4 DEF SetupInv
  <2> QED
    BY <1>1, <1>2, <2>3, <2>5, FreeIs, AccountsWritten
<1>4. CASE ~A!NoUsers
  BY <1>1, <1>4, FreeIs, MoveKeeps DEF A!CreateFirstUser, UserVars
<1> QED
  BY <1>3, <1>4

LEMMA CreateKeeps ==
    ASSUME AccountInv, NEW r \in Requests, NEW u \in Users, NEW body \in ThreeBodies, A!CreateAccount(r, u, body)
    PROVE  AccountInv'
<1> DEFINE row == A!Account(body.role, body.readOnly, body.sections, "local")
<1>1. A!To(r, A!Free) /\ UNCHANGED RoleVars /\ made' = made /\ u \notin DOMAIN users /\ users' = A!Put(users, u, row)
      /\ A!Admins # {}
  BY DEF A!CreateAccount, A!End, RoleVars
<1>2. row \in UserRow
  BY DEF A!Account, UserRow, AccountInv, A!BoundsOK
<1>3. /\ users' \in [DOMAIN users' -> UserRow] /\ DOMAIN users' = DOMAIN users \cup {u} /\ users' # <<>>
      /\ \A v \in DOMAIN users : users'[v] = users[v]
      /\ A!Admins \subseteq A!Admins'
  BY <1>1, <1>2, PutIs
<1>4. SetupInv' /\ made' \in Nat /\ DOMAIN users' \subseteq Users
  BY <1>1, <1>3 DEF SetupInv, AccountInv, A!TypeOK
<1> QED
  BY <1>1, <1>3, <1>4, FreeIs, AccountsWritten

(* An UPDATE that finds its row or does nothing.                             *)
LEMMA WithAccessIs ==
    ASSUME AccountInv, NEW u \in Users, NEW body, body.role \in {"admin", "user"}, body.readOnly \in BOOLEAN,
           body.sections \subseteq Sections, users' = A!WithAccess(u, body)
    PROVE  /\ users' \in [DOMAIN users' -> UserRow] /\ DOMAIN users' = DOMAIN users
           /\ (users' = <<>> <=> users = <<>>)
           /\ \A v \in DOMAIN users : users'[v].role = IF v = u THEN body.role ELSE users[v].role
<1>1. users \in [DOMAIN users -> UserRow]
  BY DEF AccountInv, HeldInv
<1>2. CASE u \notin DOMAIN users
  BY <1>1, <1>2 DEF A!WithAccess
<1>3. CASE u \in DOMAIN users
  <2> DEFINE row == A!Account(body.role, body.readOnly, body.sections, users[u].source)
  <2>1. users' = [users EXCEPT ![u] = row]
    BY <1>3 DEF A!WithAccess
  <2>2. row \in UserRow /\ row.role = body.role
    BY <1>1, <1>3 DEF A!Account, UserRow
  <2>3. users' \in [DOMAIN users -> UserRow] /\ DOMAIN users' = DOMAIN users
    BY <1>1, <2>1, <2>2
  <2>4. \A v \in DOMAIN users : users'[v] = IF v = u THEN row ELSE users[v]
    BY <1>1, <2>1
  <2>5. users' = <<>> <=> users = <<>>
    BY <1>1, <2>3, EmptyIs
  <2> QED
    BY <2>2, <2>3, <2>4, <2>5
<1> QED
  BY <1>2, <1>3

LEMMA AccessKeeps ==
    ASSUME AccountInv, NEW r \in Requests, A!UpdateUserAccess(r)
    PROVE  AccountInv'
<1> DEFINE u == areq[r].user
           body == areq[r].body
           rec == [pc |-> "clear", user |-> u, ids |-> areq[r].ids]
<1>1. /\ A!To(r, rec) /\ UNCHANGED RoleVars /\ areq[r].pc = "access" /\ made' = made
      /\ users' = A!WithAccess(u, body)
  BY DEF A!UpdateUserAccess, RoleVars, A!Stands
<1>2. u \in Users /\ body \in ThreeBodies /\ areq[r].ids \subseteq Roles
  BY <1>1, HeldIs
<1>3. rec \in Held /\ rec.pc = "clear"
  BY <1>2 DEF Held
<1>4. body.role \in {"admin", "user"} /\ body.readOnly \in BOOLEAN /\ body.sections \subseteq Sections
  BY <1>2 DEF AccountInv, A!BoundsOK
<1> HIDE DEF u, body
<1>5. /\ users' \in [DOMAIN users' -> UserRow] /\ DOMAIN users' = DOMAIN users
      /\ (users' = <<>> <=> users = <<>>)
      /\ \A v \in DOMAIN users : users'[v].role = IF v = u THEN body.role ELSE users[v].role
  BY <1>1, <1>2, <1>4, WithAccessIs
<1>6. SetupInv' /\ made' \in Nat /\ DOMAIN users' \subseteq Users
  BY <1>1, <1>5 DEF SetupInv, AccountInv, A!TypeOK
<1>7. ASSUME ~busy, users' # <<>> PROVE A!Admins' # {}
  <2>1. CASE body.role = "admin"
    <3>1. PICK v \in A!Admins : TRUE
      BY <1>5, <1>7 DEF AccountInv, AloneInv
    <3>2. v \in A!Admins'
      BY <1>5, <2>1, <3>1 DEF A!Admins
    <3> QED
      BY <3>2
  <2>2. CASE body.role # "admin"
    <3>1. PICK v \in A!Admins : v # u
      BY <1>1, <1>7, <2>2 DEF AccountInv, AloneInv, StillTrue, Demotes, u, body
    <3>2. v \in A!Admins'
      BY <1>5, <3>1 DEF A!Admins
    <3> QED
      BY <3>2
  <2> QED
    BY <2>1, <2>2
<1> QED
  BY <1>1, <1>3, <1>5, <1>6, <1>7, AccountsWritten

LEMMA DropKeeps ==
    ASSUME AccountInv, NEW r \in Requests, A!DeleteUser(r)
    PROVE  AccountInv'
<1> DEFINE u == areq[r].user
<1>1. /\ A!To(r, A!Free) /\ UNCHANGED RoleVars /\ areq[r].pc = "delete"
      /\ users' = A!Drop(users, u) /\ made' = IF DOMAIN users' = {} THEN 0 ELSE made
  BY DEF A!DeleteUser, A!End, RoleVars, A!Stands
<1>2. /\ users' \in [DOMAIN users' -> UserRow] /\ DOMAIN users' = DOMAIN users \ {u}
      /\ \A v \in DOMAIN users' : users'[v] = users[v]
  BY <1>1 DEF A!Drop, AccountInv, HeldInv
<1>3. users' = <<>> <=> DOMAIN users' = {}
  BY <1>2, EmptyIs
<1>4. SetupInv' /\ made' \in Nat /\ DOMAIN users' \subseteq Users
  BY <1>1, <1>2, <1>3 DEF SetupInv, AccountInv, A!TypeOK
<1>5. ASSUME ~busy PROVE A!Admins' # {}
  <2>1. PICK v \in A!Admins : v # u
    BY <1>1, <1>5 DEF AccountInv, AloneInv, StillTrue, Demotes
  <2>2. v \in A!Admins'
    BY <1>2, <2>1 DEF A!Admins
  <2> QED
    BY <2>2
<1> QED
  BY <1>1, <1>2, <1>4, <1>5, FreeIs, AccountsWritten

LEMMA DirectoryKeeps ==
    ASSUME AccountInv, NEW r \in Requests, NEW admin \in BOOLEAN, NEW secs \in SUBSET Sections,
           NEW want \in SUBSET offer.roles, A!ldapLogin(r, admin, secs, want)
    PROVE  AccountInv'
<1> DEFINE u == areq[r].user
           was == areq[r].was
           rec == [pc |-> "sync", user |-> u, want |-> want]
           new == A!Account(IF admin THEN "admin" ELSE "user", FALSE, secs, "ldap")
<1>1. UNCHANGED RoleVars /\ areq[r].pc = "directory" /\ made' = made
  BY DEF A!ldapLogin, RoleVars, A!Stands
<1>2. u \in Users /\ was \subseteq UserRow
  BY <1>1, HeldIs
<1>3. rec \in Held /\ rec.pc = "sync"
  BY <1>2, OfferIs DEF Held
<1>4. new \in UserRow
  BY DEF A!Account, UserRow
<1>5. CASE was = {} /\ u \in DOMAIN users
  <2>1. users' = users /\ A!To(r, A!Free)
    BY <1>5 DEF A!ldapLogin, A!End
  <2> QED
    BY <1>1, <2>1, FreeIs, MoveKeeps DEF UserVars
<1>6. CASE was = {} /\ u \notin DOMAIN users
  <2>1. users' = A!Put(users, u, new) /\ A!To(r, rec)
    BY <1>6 DEF A!ldapLogin
  <2>2. /\ users' \in [DOMAIN users' -> UserRow] /\ DOMAIN users' = DOMAIN users \cup {u} /\ users' # <<>>
        /\ A!Admins \subseteq A!Admins'
    BY <1>2, <1>4, <1>6, <2>1, PutIs
  <2>3. SetupInv' /\ made' \in Nat /\ DOMAIN users' \subseteq Users
    BY <1>1, <1>2, <2>2 DEF SetupInv, AccountInv, A!TypeOK
  <2>4. ~busy => A!Admins' # {}
    BY <1>1, <2>2 DEF AccountInv, AloneInv, StillTrue
  <2> QED
    BY <1>1, <1>3, <2>1, <2>2, <2>3, <2>4, AccountsWritten
<1>7. CASE was # {}
  <2> DEFINE row == CHOOSE x \in was : TRUE
             to == A!Account(A!KeptRole(row, admin), row.readOnly, secs, "ldap")
  <2>1. row \in was /\ row \in UserRow
    BY <1>2, <1>7
  <2>2. A!To(r, rec) /\ users' = IF row.sections = secs THEN users ELSE A!WithAccess(u, to)
    BY <1>7 DEF A!ldapLogin
  <2>3. CASE row.sections = secs
    <3>1. areq'[r] = rec
      BY <1>3, <2>2, AdminMoves
    <3>2. StillTrue(r)'
      BY <3>1 DEF StillTrue, Demotes
    <3> QED
      BY <1>1, <1>3, <2>2, <2>3, <3>2, MoveKeeps DEF UserVars
  <2>4. CASE row.sections # secs
    <3>1. to.role = row.role /\ to.role \in {"admin", "user"} /\ to.readOnly \in BOOLEAN /\ to.sections \subseteq Sections
      BY <2>1 DEF A!Account, A!KeptRole, UserRow
    <3>2. users' = A!WithAccess(u, to)
      BY <2>2, <2>4
    <3>3. /\ users' \in [DOMAIN users' -> UserRow] /\ DOMAIN users' = DOMAIN users
          /\ (users' = <<>> <=> users = <<>>)
          /\ \A v \in DOMAIN users : users'[v].role = IF v = u THEN row.role ELSE users[v].role
      <4> HIDE DEF to, row, u
      <4> QED
        BY <1>2, <3>1, <3>2, WithAccessIs
    <3>4. SetupInv' /\ made' \in Nat /\ DOMAIN users' \subseteq Users
      BY <1>1, <3>3 DEF SetupInv, AccountInv, A!TypeOK
    <3>5. ASSUME ~busy, users' # <<>> PROVE A!Admins' # {}
      <4>1. u \in DOMAIN users /\ users[u].role = row.role
        BY <1>1, <2>1, <3>5 DEF AccountInv, AloneInv, StillTrue
      <4>2. A!Admins' = A!Admins
        BY <3>3, <4>1 DEF A!Admins
      <4> QED
        BY <3>3, <3>5, <4>2 DEF AccountInv, AloneInv
    <3> QED
      BY <1>1, <1>3, <2>2, <3>3, <3>4, <3>5, AccountsWritten
  <2> QED
    BY <2>3, <2>4
<1> QED
  BY <1>5, <1>6, <1>7

(* A request that ends or goes on having written roles only.                 *)
LEMMA RolesWritten ==
    ASSUME AccountInv, NEW r \in Requests, NEW rec \in Held, A!To(r, rec), UNCHANGED UserVars,
           roles' \subseteq Roles, userRoles' \subseteq Users \X Roles, UNCHANGED <<disabled, fallback>>,
           roleRows' \in [Roles -> [sections : [Sections -> A!Access], hosts : SUBSET Hosts]],
           areq[r].pc = "idle" /\ rec.pc = "idle" => roles \subseteq roles' /\ userRoles' \subseteq userRoles,
           ~busy => StillTrue(r)' /\ \A p \in userRoles' : p[2] \in roles'
    PROVE  AccountInv'
<1>1. Typed'
  <2>1. users' = users /\ made' = made /\ busy' \in BOOLEAN
    BY AdminMoves DEF UserVars
  <2> QED
    BY <2>1 DEF AccountInv, HeldInv, Typed, A!TypeOK
<1>2. areq[r].pc = "idle" /\ rec.pc = "idle" => Grows
  BY DEF Grows, UserVars
<1>3. ~busy => Settled'
  BY UsersAlone DEF Settled
<1> QED
  BY <1>1, <1>2, <1>3, UsersAlone, ToKeeps

LEMMA ClearKeeps ==
    ASSUME AccountInv, NEW r \in Requests, A!ClearUserRoles(r)
    PROVE  AccountInv'
<1> DEFINE rec == [areq[r] EXCEPT !.pc = "lookup"]
<1>1. /\ A!To(r, rec) /\ UNCHANGED UserVars /\ UNCHANGED <<roles, roleRows, disabled, fallback>>
      /\ areq[r].pc = "clear" /\ userRoles' \subseteq userRoles
  BY DEF A!ClearUserRoles, UserVars, A!Stands
<1>2. areq[r] \in [pc : {"clear", "lookup"}, user : Users, ids : SUBSET Roles]
  BY <1>1, HeldIs DEF Held, A!Free
<1>3. rec \in Held /\ rec.pc = "lookup"
  BY <1>2 DEF Held
<1>4. areq'[r] = rec
  BY <1>1, <1>3, AdminMoves
<1>5. StillTrue(r)'
  BY <1>3, <1>4 DEF StillTrue, Demotes
<1>6. ~busy => \A p \in userRoles' : p[2] \in roles'
  BY <1>1 DEF AccountInv, AloneInv
<1> QED
  BY <1>1, <1>3, <1>5, <1>6, RolesWritten DEF AccountInv, A!TypeOK

LEMMA AssignKeeps ==
    ASSUME AccountInv, NEW r \in Requests, A!InsertUserRole(r)
    PROVE  AccountInv'
<1> DEFINE rec == [pc |-> "lookup", user |-> areq[r].user, ids |-> areq[r].ids]
<1>1. /\ A!To(r, rec) /\ UNCHANGED UserVars /\ UNCHANGED <<roles, roleRows, disabled, fallback>>
      /\ areq[r].pc = "insert" /\ userRoles' = userRoles \cup {<<areq[r].user, areq[r].id>>}
  BY DEF A!InsertUserRole, UserVars, A!Stands
<1>2. areq[r].user \in Users /\ areq[r].id \in Roles /\ areq[r].ids \subseteq Roles
  BY <1>1, HeldIs
<1>3. rec \in Held /\ rec.pc = "lookup"
  BY <1>2 DEF Held
<1>4. areq'[r] = rec
  BY <1>1, <1>3, AdminMoves
<1>5. StillTrue(r)'
  BY <1>3, <1>4 DEF StillTrue, Demotes
<1>6. ~busy => \A p \in userRoles' : p[2] \in roles'
  BY <1>1 DEF AccountInv, AloneInv, StillTrue
<1> QED
  BY <1>1, <1>2, <1>3, <1>5, <1>6, RolesWritten DEF AccountInv, A!TypeOK

LEMMA CreateRoleKeeps ==
    ASSUME AccountInv, NEW r \in Requests, NEW id \in offer.roles, NEW edit \in TwoEdits, A!CreateRole(r, id, edit)
    PROVE  AccountInv'
<1>1. /\ A!To(r, A!Free) /\ UNCHANGED UserVars /\ UNCHANGED <<userRoles, disabled, fallback>>
      /\ roles' = roles \cup {id} /\ roleRows' = [roleRows EXCEPT ![id] = edit]
  BY DEF A!CreateRole, UserVars, A!End
<1>2. id \in Roles /\ edit \in [sections : [Sections -> A!Access], hosts : SUBSET Hosts]
  BY OfferIs DEF AccountInv, A!BoundsOK
<1>3. roleRows' \in [Roles -> [sections : [Sections -> A!Access], hosts : SUBSET Hosts]]
  BY <1>1, <1>2 DEF AccountInv, A!TypeOK
<1>4. StillTrue(r)'
  BY <1>1, FreeIs, AdminMoves DEF StillTrue, Demotes
<1>5. ~busy => \A p \in userRoles' : p[2] \in roles'
  BY <1>1 DEF AccountInv, AloneInv
<1> QED
  BY <1>1, <1>2, <1>3, <1>4, <1>5, FreeIs, RolesWritten DEF AccountInv, A!TypeOK

LEMMA UpdateRoleKeeps ==
    ASSUME AccountInv, NEW r \in Requests, NEW id \in offer.roles, NEW edit \in TwoEdits, A!UpdateRole(r, id, edit)
    PROVE  AccountInv'
<1> DEFINE rec == [pc |-> "hosts", id |-> id, hosts |-> edit.hosts]
<1>1. /\ A!To(r, rec) /\ UNCHANGED UserVars /\ UNCHANGED <<roles, userRoles, disabled, fallback>>
      /\ roleRows' = [roleRows EXCEPT ![id].sections = edit.sections]
  BY DEF A!UpdateRole, UserVars
<1>2. id \in Roles /\ edit \in [sections : [Sections -> A!Access], hosts : SUBSET Hosts]
  BY OfferIs DEF AccountInv, A!BoundsOK
<1>3. roleRows' \in [Roles -> [sections : [Sections -> A!Access], hosts : SUBSET Hosts]]
  BY <1>1, <1>2 DEF AccountInv, A!TypeOK
<1>4. rec \in Held /\ rec.pc = "hosts"
  BY <1>2 DEF Held
<1>5. StillTrue(r)'
  BY <1>1, <1>4, AdminMoves DEF StillTrue, Demotes
<1>6. ~busy => \A p \in userRoles' : p[2] \in roles'
  BY <1>1 DEF AccountInv, AloneInv
<1> QED
  BY <1>1, <1>3, <1>4, <1>5, <1>6, RolesWritten DEF AccountInv, A!TypeOK

LEMMA HostsKeeps ==
    ASSUME AccountInv, NEW r \in Requests, A!ReplaceRoleHosts(r)
    PROVE  AccountInv'
<1>1. /\ A!To(r, A!Free) /\ UNCHANGED UserVars /\ UNCHANGED <<roles, userRoles, disabled, fallback>>
      /\ areq[r].pc = "hosts" /\ roleRows' = [roleRows EXCEPT ![areq[r].id].hosts = areq[r].hosts]
  BY DEF A!ReplaceRoleHosts, UserVars, A!End, A!Stands
<1>2. areq[r].id \in Roles /\ areq[r].hosts \subseteq Hosts
  BY <1>1, HeldIs
<1>3. roleRows' \in [Roles -> [sections : [Sections -> A!Access], hosts : SUBSET Hosts]]
  BY <1>1, <1>2 DEF AccountInv, A!TypeOK
<1>4. StillTrue(r)'
  BY <1>1, FreeIs, AdminMoves DEF StillTrue, Demotes
<1>5. ~busy => \A p \in userRoles' : p[2] \in roles'
  BY <1>1 DEF AccountInv, AloneInv
<1> QED
  BY <1>1, <1>3, <1>4, <1>5, FreeIs, RolesWritten DEF AccountInv, A!TypeOK

LEMMA UnassignKeeps ==
    ASSUME AccountInv, NEW r \in Requests, A!UnassignRole(r)
    PROVE  AccountInv'
<1> DEFINE rec == [areq[r] EXCEPT !.pc = "drop"]
<1>1. /\ A!To(r, rec) /\ UNCHANGED UserVars /\ UNCHANGED <<roles, roleRows, disabled, fallback>>
      /\ areq[r].pc = "unassign" /\ userRoles' = {p \in userRoles : p[2] # areq[r].id}
  BY DEF A!UnassignRole, UserVars, A!Stands
<1>2. areq[r] \in [pc : {"unassign", "drop"}, id : Roles]
  BY <1>1, HeldIs DEF Held, A!Free
<1>3. rec \in Held /\ rec.pc = "drop" /\ rec.id = areq[r].id
  BY <1>2 DEF Held
<1>4. areq'[r] = rec
  BY <1>1, <1>3, AdminMoves
<1>5. ASSUME ~busy PROVE StillTrue(r)' /\ \A p \in userRoles' : p[2] \in roles'
  <2>1. areq[r].id \notin fallback /\ \A p \in userRoles : p[2] \in roles
    BY <1>1, <1>5 DEF AccountInv, AloneInv, StillTrue
  <2>2. \A p \in userRoles' : p[2] # areq[r].id /\ p \in userRoles
    BY <1>1
  <2> QED
    BY <1>1, <1>3, <1>4, <2>1, <2>2 DEF StillTrue, Demotes
<1> QED
  BY <1>1, <1>3, <1>5, RolesWritten DEF AccountInv, A!TypeOK

LEMMA DropRoleKeeps ==
    ASSUME AccountInv, NEW r \in Requests, A!DropRole(r)
    PROVE  AccountInv'
<1>1. /\ A!To(r, A!Free) /\ UNCHANGED UserVars /\ UNCHANGED <<userRoles, disabled, fallback>>
      /\ areq[r].pc = "drop" /\ roles' = roles \ {areq[r].id}
      /\ roleRows' = [roleRows EXCEPT ![areq[r].id].hosts = {}]
  BY DEF A!DropRole, UserVars, A!End, A!Stands
<1>2. areq[r].id \in Roles
  BY <1>1, HeldIs
<1>3. roleRows' \in [Roles -> [sections : [Sections -> A!Access], hosts : SUBSET Hosts]]
  BY <1>1, <1>2 DEF AccountInv, A!TypeOK
<1>4. StillTrue(r)'
  BY <1>1, FreeIs, AdminMoves DEF StillTrue, Demotes
<1>5. ~busy => \A p \in userRoles' : p[2] \in roles'
  BY <1>1 DEF AccountInv, AloneInv, StillTrue
<1> QED
  BY <1>1, <1>3, <1>4, <1>5, FreeIs, RolesWritten DEF AccountInv, A!TypeOK

(* The settings are written at once: no request is open, or they overlap.    *)
LEMMA SettingKeeps ==
    ASSUME AccountInv, A!AtOnce, UNCHANGED <<users, roles, roleRows, userRoles, areq, offer, made>>,
           disabled' \subseteq Sections, fallback' \subseteq Roles
    PROVE  AccountInv'
<1>1. busy' \in BOOLEAN /\ (~busy' => ~busy /\ \A q \in Requests : areq[q].pc = "idle")
  BY DEF A!AtOnce, AccountInv, A!TypeOK
<1>2. A!TypeOK' /\ HeldInv' /\ SetupInv' /\ A!Admins' = A!Admins
  BY <1>1 DEF AccountInv, A!TypeOK, HeldInv, SetupInv, A!Admins
<1>3. AloneInv'
  BY <1>1, <1>2 DEF AccountInv, AloneInv, StillTrue, Demotes, OneOpen, Open
<1> QED
  BY <1>2, <1>3 DEF AccountInv, A!BoundsOK

LEMMA ArrivalKeeps == ASSUME AccountInv, NEW r \in Requests, A!Arrival(r) PROVE AccountInv'
  BY FirstRunKeeps, AskKeeps, CreateKeeps, EditKeeps, GuardKeeps, CreateRoleKeeps, UpdateRoleKeeps,
     DeleteRoleKeeps DEF A!Arrival

LEMMA WorkKeeps == ASSUME AccountInv, NEW r \in Requests, A!Work(r) PROVE AccountInv'
  BY FirstKeeps, AccessKeeps, ClearKeeps, LookupKeeps, AssignKeeps, DropKeeps, HostsKeeps, UnassignKeeps,
     DropRoleKeeps, DirectoryKeeps, SyncKeeps DEF A!Work

LEMMA AccountNext == ASSUME AccountInv, [A!Next]_A!avars PROVE AccountInv'
<1>1. CASE UNCHANGED A!avars
  <2>1. A!TypeOK' /\ HeldInv' /\ SetupInv' /\ AloneInv'
    BY <1>1 DEF A!avars, AccountInv, A!TypeOK, HeldInv, SetupInv, AloneInv, StillTrue, Demotes,
       OneOpen, Open, A!Admins
  <2> QED
    BY <2>1 DEF AccountInv, A!BoundsOK
<1>2. CASE \E r \in offer.lanes : A!Arrival(r) \/ A!Work(r)
  BY <1>2, OfferIs, ArrivalKeeps, WorkKeeps
<1>3. CASE \E id \in offer.roles : A!SetLDAP(id)
  BY <1>3, OfferIs, SettingKeeps DEF A!SetLDAP, AccountInv, A!TypeOK
<1>4. CASE \E off \in SUBSET Sections : A!SetSettings(off)
  BY <1>4, SettingKeeps DEF A!SetSettings, AccountInv, A!TypeOK
<1> QED
  BY <1>1, <1>2, <1>3, <1>4 DEF A!Next

(* syncRoles adds the fallback exactly when a wanted role is missing.        *)
LEMMA SyncsWell == ASSUME AccountInv PROVE A!FallbackStandsIn
<1>1. SUFFICES ASSUME NEW want \in SUBSET Roles
               PROVE  /\ A!SyncedRoles(want) \subseteq roles
                      /\ want \subseteq roles => A!SyncedRoles(want) = want
                      /\ want \cap roles \subseteq A!SyncedRoles(want)
  BY DEF A!FallbackStandsIn
<1>2. Cardinality(want) \in Nat
  BY FS_Subset, FS_CardinalityType, AccountSizes DEF AccountInv, A!BoundsOK
<1>3. ASSUME want \subseteq roles PROVE A!SyncedRoles(want) = want
  <2>1. want \cap roles = want
    BY <1>3
  <2>2. ~(Cardinality(want) < Cardinality(want))
    BY <1>2
  <2> QED
    BY <2>1, <2>2, AccountSizes DEF A!SyncedRoles
<1> QED
  BY <1>3 DEF A!SyncedRoles

LEMMA AccountEnough ==
    ASSUME AccountInv
    PROVE  A!TypeOK /\ A!SetupHappensOnce /\ A!AdminRemains /\ A!DeletedRoleGrantsNothing /\ A!FallbackStandsIn
<1>1. made > 0 => users # <<>>
  BY DEF AccountInv, SetupInv, A!TypeOK
<1>2. A!AdminRemains
  BY <1>1 DEF AccountInv, AloneInv, A!AdminRemains
<1> QED
  BY <1>2, SyncsWell DEF AccountInv, SetupInv, AloneInv, A!SetupHappensOnce, A!DeletedRoleGrantsNothing

(* A role leaves its table in DropRole alone, and it is not the fallback.    *)
LEMMA StepKeepsFallback == ASSUME AccountInv, [A!Next]_A!avars PROVE [A!KeepsFallback]_A!avars
<1>1. CASE UNCHANGED A!avars
  BY <1>1
<1>2. CASE \E r \in offer.lanes : A!DropRole(r)
  <2>1. PICK r \in Requests : A!DropRole(r)
    BY <1>2, OfferIs
  <2>2. ~busy' => ~busy
    BY <2>1, FreeIs, AdminMoves DEF A!DropRole, A!End
  <2>3. ~busy => areq[r].id \notin fallback
    BY <2>1 DEF A!DropRole, A!Stands, AccountInv, AloneInv, StillTrue
  <2> QED
    BY <2>1, <2>2, <2>3 DEF A!DropRole, A!KeepsFallback
<1>3. CASE A!Next /\ ~(\E r \in offer.lanes : A!DropRole(r))
  <2>1. ASSUME NEW r \in offer.lanes, A!Arrival(r) PROVE roles \subseteq roles'
    BY <2>1 DEF A!Arrival, A!Setup, A!LDAPLogin, A!CreateAccount, A!UpdateUser, A!DeleteUserGuard,
       A!CreateRole, A!UpdateRole,
       A!DeleteRole
  <2>2. ASSUME NEW r \in offer.lanes, A!Work(r), ~A!DropRole(r) PROVE roles' = roles
    BY <2>2 DEF A!Work, A!CreateFirstUser, A!UpdateUserAccess, A!ClearUserRoles, A!LookupRole,
       A!InsertUserRole, A!DeleteUser,
       A!ReplaceRoleHosts, A!UnassignRole, A!ldapLogin, A!SyncRoles
  <2>3. roles \subseteq roles'
    BY <1>3, <2>1, <2>2 DEF A!Next, A!SetLDAP, A!SetSettings
  <2> QED
    BY <2>3 DEF A!KeepsFallback
<1> QED
  BY <1>1, <1>2, <1>3

(* UpdateUserAccess and a directory login are all that rewrite an account,   *)
(* and the login writes back the role the account has.                       *)
LEMMA StepPromotes == ASSUME AccountInv, [A!Next]_A!avars PROVE [~busy' => A!PromotesAsAsked]_A!avars
<1>1. CASE UNCHANGED A!avars
  BY <1>1
<1>2. ASSUME NEW r \in Requests, A!UpdateUserAccess(r) PROVE A!PromotesAsAsked
  <2> DEFINE u == areq[r].user
             body == areq[r].body
  <2>1. areq[r].pc = "access" /\ users' = A!WithAccess(u, body)
    BY <1>2 DEF A!UpdateUserAccess, A!Stands
  <2>2. u \in Users /\ body \in ThreeBodies
    BY <2>1, HeldIs
  <2>3. body.role \in {"admin", "user"} /\ body.readOnly \in BOOLEAN /\ body.sections \subseteq Sections
    BY <2>2 DEF AccountInv, A!BoundsOK
  <2>4. \A v \in DOMAIN users : users'[v].role = IF v = u THEN body.role ELSE users[v].role
    <3> HIDE DEF u, body
    <3> QED
      BY <2>1, <2>2, <2>3, WithAccessIs
  <2>5. ASSUME NEW v \in Users, A!Promoted(v) PROVE A!Asked(v)
    <3>1. v = u /\ body.role = "admin"
      BY <2>4, <2>5 DEF A!Promoted
    <3> QED
      BY <2>1, <3>1 DEF A!Asked, A!Stands
  <2> QED
    BY <2>5 DEF A!PromotesAsAsked
<1>3. ASSUME NEW r \in Requests, NEW admin \in BOOLEAN, NEW secs \in SUBSET Sections, NEW want \in SUBSET offer.roles,
             A!ldapLogin(r, admin, secs, want), ~busy'
      PROVE  \A v \in Users : ~A!Promoted(v)
  <2> DEFINE u == areq[r].user
             was == areq[r].was
             row == CHOOSE x \in was : TRUE
             to == A!Account(A!KeptRole(row, admin), row.readOnly, secs, "ldap")
  <2>1. areq[r].pc = "directory"
    BY <1>3 DEF A!ldapLogin, A!Stands
  <2>2. ~busy
    BY <1>3 DEF A!ldapLogin, A!To, A!End
  <2>3. u \in Users /\ was \subseteq UserRow
    BY <2>1, HeldIs
  <2>4. CASE was = {}
    <3>1. \A v \in DOMAIN users : users'[v] = users[v]
      BY <1>3, <2>4 DEF A!ldapLogin, A!Put
    <3> QED
      BY <3>1 DEF A!Promoted
  <2>5. CASE was # {}
    <3>1. row \in was /\ row \in UserRow
      BY <2>3, <2>5
    <3>2. u \in DOMAIN users /\ users[u].role = row.role
      BY <2>1, <2>2, <3>1 DEF AccountInv, AloneInv, StillTrue
    <3>3. users' = users \/ users' = A!WithAccess(u, to)
      BY <1>3, <2>5 DEF A!ldapLogin
    <3>4. to.role = row.role /\ to.role \in {"admin", "user"} /\ to.readOnly \in BOOLEAN /\ to.sections \subseteq Sections
      BY <3>1 DEF A!Account, A!KeptRole, UserRow
    <3>5. \A v \in DOMAIN users : users'[v].role = users[v].role
      <4> HIDE DEF to, row, u
      <4> QED
        BY <2>3, <3>2, <3>3, <3>4, WithAccessIs
    <3> QED
      BY <3>5 DEF A!Promoted
  <2> QED
    BY <2>4, <2>5
<1>4. CASE A!Next
  <2>1. CASE \E r \in Requests : A!UpdateUserAccess(r)
    BY <1>2, <2>1
  <2>2. CASE \E r \in Requests, admin \in BOOLEAN, secs \in SUBSET Sections, want \in SUBSET offer.roles :
                A!ldapLogin(r, admin, secs, want)
    BY <1>3, <2>2 DEF A!PromotesAsAsked
  <2>3. CASE \A v \in DOMAIN users : v \in DOMAIN users' => users'[v] = users[v]
    BY <2>3 DEF A!PromotesAsAsked, A!Promoted
  <2>4. \/ \E r \in Requests : A!UpdateUserAccess(r)
        \/ \E r \in Requests, admin \in BOOLEAN, secs \in SUBSET Sections, want \in SUBSET offer.roles :
              A!ldapLogin(r, admin, secs, want)
        \/ \A v \in DOMAIN users : v \in DOMAIN users' => users'[v] = users[v]
    <3>1. ASSUME NEW r \in Requests, A!CreateFirstUser(r) \/ A!DeleteUser(r) \/ \E u \in Users, body \in ThreeBodies : A!CreateAccount(r, u, body)
          PROVE  \A v \in DOMAIN users : v \in DOMAIN users' => users'[v] = users[v]
      <4>1. CASE A!CreateFirstUser(r)
        <5>1. CASE A!NoUsers
          BY <5>1 DEF A!NoUsers
        <5>2. CASE ~A!NoUsers
          BY <4>1, <5>2 DEF A!CreateFirstUser
        <5> QED
          BY <5>1, <5>2
      <4>2. CASE A!DeleteUser(r)
        BY <4>2 DEF A!DeleteUser, A!Drop
      <4>3. CASE \E u \in Users, body \in ThreeBodies : A!CreateAccount(r, u, body)
        BY <4>3 DEF A!CreateAccount, A!Put
      <4> QED
        BY <3>1, <4>1, <4>2, <4>3
    <3>2. \/ users' = users
          \/ \E r \in offer.lanes : A!CreateFirstUser(r) \/ A!DeleteUser(r) \/ \E u \in Users, body \in ThreeBodies : A!CreateAccount(r, u, body)
          \/ \E r \in offer.lanes : A!UpdateUserAccess(r)
          \/ \E r \in offer.lanes, admin \in BOOLEAN, secs \in SUBSET Sections, want \in SUBSET offer.roles :
                A!ldapLogin(r, admin, secs, want)
      BY <1>4 DEF A!Next, A!Arrival, A!Work, A!Setup, A!LDAPLogin, A!UpdateUser, A!DeleteUserGuard,
         A!CreateRole,
         A!UpdateRole, A!DeleteRole, A!ClearUserRoles, A!LookupRole, A!InsertUserRole,
         A!ReplaceRoleHosts, A!UnassignRole, A!DropRole, A!SyncRoles, A!SetLDAP, A!SetSettings
    <3> QED
      BY <3>1, <3>2, OfferIs
  <2> QED
    BY <2>1, <2>2, <2>3, <2>4
<1> QED
  BY <1>1, <1>4

(* EffectiveGrants adds one row after the other, starting with the account's *)
(* own sections; whatever the order, the sum is the union.                   *)
Own(u, s) == IF s \in users[u].sections THEN A!AddGrant(A!NoGrant, TRUE, {}) ELSE A!NoGrant
AddRow(s, id, g) == A!AddGrant(g, roleRows[id].sections[s] = "write", roleRows[id].hosts)
Pick(x) == CHOOSE e \in x : TRUE
Rounds(f, u, s) ==
    [x \in SUBSET A!RowsOf(u, s) |-> IF x = {} THEN Own(u, s) ELSE AddRow(s, Pick(x), f[x \ {Pick(x)}])]
Rounded(u, s) == CHOOSE f : f = Rounds(f, u, s)
Total(u, s, x) ==
    [granted |-> s \in users[u].sections \/ x # {},
     write   |-> s \in users[u].sections \/ \E id \in x : roleRows[id].sections[s] = "write",
     all     |-> s \in users[u].sections \/ \E id \in x : roleRows[id].hosts = {},
     hosts   |-> UNION {roleRows[id].hosts : id \in x}]
Totals(u, s) == [x \in SUBSET A!RowsOf(u, s) |-> Total(u, s, x)]

LEMMA GrantIsSum ==
    ASSUME NEW u, NEW s
    PROVE  A!EffectiveGrant(u, s) =
             IF s \in disabled THEN A!NoGrant
             ELSE [Rounded(u, s)[A!RowsOf(u, s)] EXCEPT !.write = @ /\ ~users[u].readOnly]
  BY Zenon DEF A!EffectiveGrant, A!FoldSet, A!MapThenFoldSet, Own, AddRow, Pick, Rounds, Rounded

LEMMA TotalEmpty == ASSUME NEW u, NEW s PROVE Total(u, s, {}) = Own(u, s)
<1>1. UNION {roleRows[id].hosts : id \in {}} = {}
  OBVIOUS
<1> QED
  BY <1>1 DEF Total, Own, A!AddGrant, A!NoGrant

LEMMA TotalAdds ==
    ASSUME NEW u, NEW s, NEW x, NEW e \in x
    PROVE  Total(u, s, x) = AddRow(s, e, Total(u, s, x \ {e}))
<1>1. x # {} /\ x = (x \ {e}) \cup {e}
  OBVIOUS
<1>2. UNION {roleRows[id].hosts : id \in x} = (UNION {roleRows[id].hosts : id \in x \ {e}}) \cup roleRows[e].hosts
  <2> DEFINE Scope(X) == UNION {roleRows[id].hosts : id \in X}
             y == x \ {e}
  <2>1. \A h : h \in Scope(x) <=> \E id \in x : h \in roleRows[id].hosts
    OBVIOUS
  <2>2. \A h : h \in Scope(y) <=> \E id \in y : h \in roleRows[id].hosts
    OBVIOUS
  <2>3. \A h : (\E id \in x : h \in roleRows[id].hosts)
                 <=> (\E id \in y : h \in roleRows[id].hosts) \/ h \in roleRows[e].hosts
    BY <1>1
  <2>4. Scope(x) = Scope(y) \cup roleRows[e].hosts
    <3> HIDE DEF Scope, y
    <3> QED
      BY <2>1, <2>2, <2>3
  <2> QED
    BY <2>4
<1>3. (\E id \in x : roleRows[id].hosts = {}) <=> (\E id \in x \ {e} : roleRows[id].hosts = {}) \/ roleRows[e].hosts = {}
  BY <1>1
<1>4. (\E id \in x : roleRows[id].sections[s] = "write")
        <=> (\E id \in x \ {e} : roleRows[id].sections[s] = "write") \/ roleRows[e].sections[s] = "write"
  BY <1>1
<1> QED
  BY <1>1, <1>2, <1>3, <1>4 DEF Total, AddRow, A!AddGrant

LEMMA TotalsRound == ASSUME NEW u, NEW s PROVE Totals(u, s) = Rounds(Totals(u, s), u, s)
<1>1. ASSUME NEW x \in SUBSET A!RowsOf(u, s)
      PROVE  Total(u, s, x) = IF x = {} THEN Own(u, s) ELSE AddRow(s, Pick(x), Totals(u, s)[x \ {Pick(x)}])
  <2>1. CASE x = {}
    BY <2>1, TotalEmpty
  <2>2. CASE x # {}
    <3>1. Pick(x) \in x
      BY <2>2 DEF Pick
    <3>2. Totals(u, s)[x \ {Pick(x)}] = Total(u, s, x \ {Pick(x)})
      BY DEF Totals
    <3> QED
      BY <2>2, <3>1, <3>2, TotalAdds
  <2> QED
    BY <2>1, <2>2
<1> QED
  BY <1>1 DEF Totals, Rounds

LEMMA RoundedRounds ==
    ASSUME NEW u, NEW s, NEW x \in SUBSET A!RowsOf(u, s)
    PROVE  Rounded(u, s)[x] = IF x = {} THEN Own(u, s) ELSE AddRow(s, Pick(x), Rounded(u, s)[x \ {Pick(x)}])
<1>1. \E f : f = Rounds(f, u, s)
  BY TotalsRound
<1>2. Rounded(u, s) = Rounds(Rounded(u, s), u, s)
  BY <1>1, Zenon DEF Rounded
<1>3. \A f : Rounds(f, u, s)[x] = IF x = {} THEN Own(u, s) ELSE AddRow(s, Pick(x), f[x \ {Pick(x)}])
  BY DEF Rounds
<1> QED
  BY <1>2, <1>3

(* The sum is the union: a smallest set of rows where they differ has a row  *)
(* less than itself where they differ too.                                   *)
LEMMA RoundedIs ==
    ASSUME NEW u, NEW s, IsFiniteSet(A!RowsOf(u, s)), NEW x \in SUBSET A!RowsOf(u, s)
    PROVE  Rounded(u, s)[x] = Total(u, s, x)
<1> DEFINE Off(y) == Rounded(u, s)[y] # Total(u, s, y)
           OffSizes == {n \in Nat : \E y \in SUBSET A!RowsOf(u, s) : Cardinality(y) = n /\ Off(y)}
<1>1. \A y \in SUBSET A!RowsOf(u, s) : IsFiniteSet(y) /\ Cardinality(y) \in Nat
  BY FS_Subset, FS_CardinalityType
<1>2. SUFFICES ASSUME Off(x) PROVE FALSE
  OBVIOUS
<1>3. OffSizes # {} /\ OffSizes \subseteq Nat
  BY <1>1, <1>2
<1>4. PICK n \in OffSizes : \A m \in OffSizes : ~(<<m, n>> \in OpToRel(<, Nat))
  <2> HIDE DEF OffSizes
  <2> QED
    BY <1>3, WFMin, NatLessThanWellFounded
<1>5. PICK y \in SUBSET A!RowsOf(u, s) : Cardinality(y) = n /\ Off(y)
  BY <1>4
<1>6. y # {}
  <2>1. Rounded(u, s)[{}] = Own(u, s)
    BY RoundedRounds
  <2> QED
    BY <1>5, <2>1, TotalEmpty
<1> DEFINE e == Pick(y)
           z == y \ {e}
<1>7. e \in y
  BY <1>6 DEF Pick
<1>8. Rounded(u, s)[y] = AddRow(s, e, Rounded(u, s)[z])
  <2>1. Rounded(u, s)[y] = IF y = {} THEN Own(u, s) ELSE AddRow(s, Pick(y), Rounded(u, s)[y \ {Pick(y)}])
    BY RoundedRounds
  <2> QED
    BY <1>6, <2>1
<1>9. Total(u, s, y) = AddRow(s, e, Total(u, s, z))
  BY <1>7, TotalAdds
<1>10. Off(z)
  BY <1>5, <1>8, <1>9
<1>11. z \in SUBSET A!RowsOf(u, s) /\ Cardinality(z) = Cardinality(y) - 1
  BY <1>1, <1>7, FS_RemoveElement
<1>12. Cardinality(z) \in Nat /\ n \in Nat
  BY <1>1, <1>4, <1>11
<1>13. Cardinality(z) \in OffSizes
  <2>1. \A y1 \in SUBSET A!RowsOf(u, s) : Off(y1) /\ Cardinality(y1) \in Nat => Cardinality(y1) \in OffSizes
    OBVIOUS
  <2> HIDE DEF OffSizes, Off, z
  <2> QED
    BY <1>10, <1>11, <1>12, <2>1
<1>14. Cardinality(z) < n
  BY <1>5, <1>11, <1>12
<1> QED
  BY <1>4, <1>12, <1>13, <1>14 DEF OpToRel

(* A grant, field by field.                                                  *)
LEMMA GrantIs ==
    ASSUME AccountInv, NEW u, NEW s
    PROVE  LET g == A!EffectiveGrant(u, s)
               own == s \in users[u].sections
           IN /\ s \in disabled => ~g.granted /\ ~g.write /\ ~g.all /\ g.hosts = {}
              /\ s \notin disabled =>
                   /\ g.granted <=> own \/ A!RowsOf(u, s) # {}
                   /\ g.write <=> ~users[u].readOnly
                                  /\ (own \/ \E id \in A!RowsOf(u, s) : roleRows[id].sections[s] = "write")
                   /\ g.all <=> own \/ \E id \in A!RowsOf(u, s) : roleRows[id].hosts = {}
                   /\ g.hosts = UNION {roleRows[id].hosts : id \in A!RowsOf(u, s)}
<1>1. IsFiniteSet(A!RowsOf(u, s))
  <2>1. A!RowsOf(u, s) \subseteq Roles
    BY DEF A!RowsOf
  <2> QED
    BY <2>1, FS_Subset, AccountSizes DEF AccountInv, A!BoundsOK
<1>2. Rounded(u, s)[A!RowsOf(u, s)] = Total(u, s, A!RowsOf(u, s))
  BY <1>1, RoundedIs
<1>3. CASE s \in disabled
  BY <1>3, GrantIsSum DEF A!NoGrant
<1>4. CASE s \notin disabled
  <2>1. A!EffectiveGrant(u, s) = [Total(u, s, A!RowsOf(u, s)) EXCEPT !.write = @ /\ ~users[u].readOnly]
    BY <1>2, <1>4, GrantIsSum
  <2> QED
    BY <1>4, <2>1 DEF Total
<1> QED
  BY <1>3, <1>4

(* checkAccess is the union of the sources.                                  *)
LEMMA SourcesAre ==
    ASSUME NEW u, NEW s
    PROVE  /\ A!Sources(u, s) # {} <=> s \in users[u].sections \/ A!RowsOf(u, s) # {}
           /\ (\E x \in A!Sources(u, s) : x.write)
                <=> s \in users[u].sections \/ \E id \in A!RowsOf(u, s) : roleRows[id].sections[s] = "write"
           /\ \A host \in Hosts : (\E x \in A!Sources(u, s) : host \in x.hosts)
                <=> \/ s \in users[u].sections
                    \/ \E id \in A!RowsOf(u, s) : roleRows[id].hosts = {} \/ host \in roleRows[id].hosts
<1> DEFINE Role(id) == [write |-> roleRows[id].sections[s] = "write",
                        hosts |-> IF roleRows[id].hosts = {} THEN Hosts ELSE roleRows[id].hosts]
           Self == [write |-> TRUE, hosts |-> Hosts]
<1>1. \A x : x \in A!Sources(u, s) <=> (s \in users[u].sections /\ x = Self) \/ \E id \in A!RowsOf(u, s) : x = Role(id)
  BY DEF A!Sources
<1>2. Self.write /\ Self.hosts = Hosts
  OBVIOUS
<1>3. \A id : /\ Role(id).write <=> roleRows[id].sections[s] = "write"
              /\ Role(id).hosts = IF roleRows[id].hosts = {} THEN Hosts ELSE roleRows[id].hosts
  OBVIOUS
<1> HIDE DEF Role, Self
<1>4. A!Sources(u, s) # {} <=> s \in users[u].sections \/ A!RowsOf(u, s) # {}
  BY <1>1
<1>5. (\E x \in A!Sources(u, s) : x.write)
        <=> s \in users[u].sections \/ \E id \in A!RowsOf(u, s) : roleRows[id].sections[s] = "write"
  BY <1>1, <1>2, <1>3
<1>6. ASSUME NEW host \in Hosts
      PROVE  (\E x \in A!Sources(u, s) : host \in x.hosts)
                <=> \/ s \in users[u].sections
                    \/ \E id \in A!RowsOf(u, s) : roleRows[id].hosts = {} \/ host \in roleRows[id].hosts
  BY <1>1, <1>2, <1>3
<1> QED
  BY <1>4, <1>5, <1>6

LEMMA PermitsUnion == ASSUME AccountInv PROVE A!PermitsIsTheUnion
<1>1. SUFFICES ASSUME NEW u \in DOMAIN users, NEW s \in Sections, NEW write \in BOOLEAN,
                      NEW host \in Hosts \cup {"local"}
               PROVE  A!Permits(u, s, write, host) <=>
                        \/ users[u].role = "admin"
                        \/ /\ s \notin disabled
                           /\ A!Sources(u, s) # {}
                           /\ write => ~users[u].readOnly /\ \E x \in A!Sources(u, s) : x.write
                           /\ host # "local" => \E x \in A!Sources(u, s) : host \in x.hosts
  BY DEF A!PermitsIsTheUnion
<1>2. PICK g : g = A!EffectiveGrant(u, s)
  OBVIOUS
<1>3. A!Permits(u, s, write, host)
        <=> \/ users[u].role = "admin"
            \/ g.granted /\ (write => g.write) /\ (host = "local" \/ g.all \/ host \in g.hosts)
  BY <1>2 DEF A!Permits
<1>4. CASE s \in disabled
  <2>1. ~g.granted
    BY <1>2, <1>4, GrantIs
  <2> QED
    BY <1>3, <1>4, <2>1
<1>5. CASE s \notin disabled
  <2>1. /\ g.granted <=> A!Sources(u, s) # {}
        /\ g.write <=> ~users[u].readOnly /\ \E x \in A!Sources(u, s) : x.write
    BY <1>2, <1>5, GrantIs, SourcesAre
  <2>2. ASSUME host # "local"
        PROVE  g.all \/ host \in g.hosts <=> \E x \in A!Sources(u, s) : host \in x.hosts
    <3>1. /\ g.all <=> s \in users[u].sections \/ \E id \in A!RowsOf(u, s) : roleRows[id].hosts = {}
          /\ g.hosts = UNION {roleRows[id].hosts : id \in A!RowsOf(u, s)}
      BY <1>2, <1>5, GrantIs
    <3>2. host \in g.hosts <=> \E id \in A!RowsOf(u, s) : host \in roleRows[id].hosts
      BY <3>1
    <3> QED
      BY <2>2, <3>1, <3>2, SourcesAre
  <2> QED
    BY <1>3, <1>5, <2>1, <2>2
<1> QED
  BY <1>4, <1>5

(* A grant with a host is a grant, and of a section that is not disabled.    *)
LEMMA GrantOpens ==
    ASSUME AccountInv, NEW u, NEW s, NEW g, g = A!EffectiveGrant(u, s)
    PROVE  /\ g.granted => s \notin disabled
           /\ \A host \in g.hosts : g.granted
<1>1. CASE s \in disabled
  BY <1>1, GrantIs
<1>2. CASE s \notin disabled
  <2>1. g.granted <=> s \in users[u].sections \/ A!RowsOf(u, s) # {}
    BY <1>2, GrantIs
  <2>2. g.hosts = UNION {roleRows[id].hosts : id \in A!RowsOf(u, s)}
    BY <1>2, GrantIs
  <2> QED
    BY <1>2, <2>1, <2>2
<1> QED
  BY <1>1, <1>2

LEMMA ReachIs ==
    ASSUME AccountInv, NEW u, NEW host \in Hosts
    PROVE  host \in A!ReachableHosts(u)
             <=> \E s \in Sections : LET g == A!EffectiveGrant(u, s) IN g.granted /\ (g.all \/ host \in g.hosts)
<1> DEFINE G(s) == A!EffectiveGrant(u, s)
           grants == {G(s) : s \in Sections}
<1>1. A!ReachableHosts(u) = IF \E g \in grants : g.granted /\ g.all THEN Hosts ELSE UNION {g.hosts : g \in grants}
  BY DEF A!ReachableHosts
<1>2. \A s : \A h \in G(s).hosts : G(s).granted
  BY GrantOpens
<1> HIDE DEF G
<1>3. (\E g \in grants : g.granted /\ g.all) <=> \E s \in Sections : G(s).granted /\ G(s).all
  OBVIOUS
<1>4. host \in UNION {g.hosts : g \in grants} <=> \E s \in Sections : host \in G(s).hosts
  OBVIOUS
<1>5. host \in A!ReachableHosts(u) <=> \E s \in Sections : G(s).granted /\ (G(s).all \/ host \in G(s).hosts)
  BY <1>1, <1>2, <1>3, <1>4
<1> QED
  BY <1>5 DEF G

LEMMA ServedIsVisible == ASSUME AccountInv PROVE A!NamedHostIsVisible
<1>1. SUFFICES ASSUME NEW u \in DOMAIN users, NEW area \in Areas, NEW method \in {"read", "change"}, NEW host \in Hosts,
                      A!Serves(u, area, method, host)
               PROVE  A!Visible(u, host)
  BY DEF A!NamedHostIsVisible
<1>2. PICK write \in BOOLEAN : write = A!isWriteRequest(method)
  <2>1. A!isWriteRequest(method) \in BOOLEAN
    BY DEF A!isWriteRequest
  <2> QED
    BY <2>1, Zenon
<1>3. PICK section : section = A!sectionForRequest(area, write)
  OBVIOUS
<1>4. section \in Sections \cup {"", "admin"} /\ host # "local"
  BY <1>2, <1>3 DEF AccountInv, A!BoundsOK
<1>5. CASE section = ""
  BY <1>1, <1>2, <1>3, <1>5 DEF A!Serves, A!callerCanReachHost
<1>6. CASE section = "admin"
  BY <1>1, <1>2, <1>3, <1>6 DEF A!Serves, A!Visible
<1>7. CASE section \notin {"", "admin"}
  <2>1. A!Permits(u, section, write, host)
    BY <1>1, <1>2, <1>3, <1>7 DEF A!Serves
  <2>2. CASE users[u].role = "admin"
    BY <2>2 DEF A!Visible
  <2>3. CASE users[u].role # "admin"
    <3>1. PICK g : g = A!EffectiveGrant(u, section)
      OBVIOUS
    <3>2. g.granted /\ (g.all \/ host \in g.hosts)
      BY <1>4, <2>1, <2>3, <3>1 DEF A!Permits
    <3> QED
      BY <1>4, <1>7, <3>1, <3>2, ReachIs DEF A!Visible
  <2> QED
    BY <2>2, <2>3
<1> QED
  BY <1>5, <1>6, <1>7

LEMMA SeenIsUsable == ASSUME AccountInv PROVE A!VisibleIsUsable
<1>1. SUFFICES ASSUME NEW u \in DOMAIN users, NEW host \in Hosts, A!Visible(u, host), users[u].role # "admin"
               PROVE  \E s \in A!Menu(u) : A!Permits(u, s, FALSE, host)
  BY DEF A!VisibleIsUsable
<1>2. host \in A!ReachableHosts(u)
  BY <1>1 DEF A!Visible, AccountInv, A!BoundsOK
<1>3. PICK s \in Sections : LET g == A!EffectiveGrant(u, s) IN g.granted /\ (g.all \/ host \in g.hosts)
  BY <1>2, ReachIs
<1>4. PICK g : g = A!EffectiveGrant(u, s)
  OBVIOUS
<1>5. g.granted /\ (g.all \/ host \in g.hosts) /\ s \notin disabled
  BY <1>3, <1>4, GrantOpens
<1>6. s \in A!Menu(u)
  BY <1>1, <1>4, <1>5 DEF A!Menu
<1>7. A!Permits(u, s, FALSE, host)
  BY <1>4, <1>5 DEF A!Permits
<1> QED
  BY <1>6, <1>7

LEMMA MenuIsGate == ASSUME AccountInv PROVE A!MenuMatchesGate
<1>1. SUFFICES ASSUME NEW u \in DOMAIN users, users[u].role # "admin"
               PROVE  A!Menu(u) = {s \in Sections : A!Permits(u, s, FALSE, "local")}
  BY DEF A!MenuMatchesGate
<1>2. ASSUME NEW s \in Sections PROVE s \in A!Menu(u) <=> A!Permits(u, s, FALSE, "local")
  <2>1. PICK g : g = A!EffectiveGrant(u, s)
    OBVIOUS
  <2>2. s \in A!Menu(u) <=> s \notin disabled /\ g.granted
    BY <1>1, <2>1 DEF A!Menu
  <2>3. A!Permits(u, s, FALSE, "local") <=> g.granted
    BY <1>1, <2>1 DEF A!Permits
  <2> QED
    BY <2>1, <2>2, <2>3, GrantOpens
<1>3. A!Menu(u) \subseteq Sections
  BY DEF A!Menu
<1> QED
  BY <1>2, <1>3

LEMMA GrantsExplained == ASSUME AccountInv PROVE A!AccessExplained
<1>1. SUFFICES ASSUME ~busy, NEW u \in DOMAIN users, NEW s \in A!Menu(u), users[u].role # "admin"
               PROVE  A!Provenance(u, s) # {}
  BY DEF A!AccessExplained
<1>2. PICK g : g = A!EffectiveGrant(u, s)
  OBVIOUS
<1>3. s \notin disabled /\ g.granted
  BY <1>1, <1>2 DEF A!Menu
<1>4. s \in users[u].sections \/ A!RowsOf(u, s) # {}
  BY <1>2, <1>3, GrantIs
<1>5. CASE s \in users[u].sections
  <2>1. 0 \in A!Provenance(u, s)
    BY <1>5 DEF A!Provenance
  <2> QED
    BY <2>1
<1>6. CASE A!RowsOf(u, s) # {}
  <2>1. PICK id \in A!RowsOf(u, s) : TRUE
    BY <1>6
  <2>2. <<u, id>> \in userRoles /\ roleRows[id].sections[s] # "none"
    BY <2>1 DEF A!RowsOf
  <2>3. id \in roles
    BY <1>1, <2>2 DEF AccountInv, AloneInv
  <2> QED
    BY <2>2, <2>3 DEF A!Provenance
<1> QED
  BY <1>4, <1>5, <1>6

(* However administrators' requests and directory logins interleave, setup   *)
(* makes one account of an empty table, and as long as no two requests       *)
(* overlapped what the open one read still holds (CreateFirstUser,           *)
(* handleUpdateUser, DeleteRole, ldapLogin).                                 *)
THEOREM AccountInvariance == A!BoundsOK /\ A!Spec => []AccountInv
<1>1. A!BoundsOK /\ A!Init => AccountInv
  BY AccountInit
<1>2. AccountInv /\ [A!Next]_A!avars => AccountInv'
  BY AccountNext
<1> QED
  BY <1>1, <1>2, PTL DEF A!Spec

(* Setup happens once; unless requests overlapped an admin remains, a        *)
(* deleted role is assigned to nobody, the fallback is never deleted and a   *)
(* directory login promotes nobody (CreateFirstUser, handleUpdateUser,       *)
(* DeleteRole, ldapLogin, syncRoles).                                        *)
THEOREM AccountsSafe ==
    A!BoundsOK /\ A!Spec =>
        /\ [](A!TypeOK /\ A!SetupHappensOnce /\ A!AdminRemains /\ A!DeletedRoleGrantsNothing /\ A!FallbackStandsIn)
        /\ A!FallbackExists /\ A!PromotionIsAsked
<1>1. AccountInv => A!TypeOK /\ A!SetupHappensOnce /\ A!AdminRemains /\ A!DeletedRoleGrantsNothing /\ A!FallbackStandsIn
  BY AccountEnough
<1>2. AccountInv /\ [A!Next]_A!avars => [A!KeepsFallback]_A!avars /\ [~busy' => A!PromotesAsAsked]_A!avars
  BY StepKeepsFallback, StepPromotes
<1> QED
  BY <1>1, <1>2, AccountInvariance, PTL DEF A!Spec, A!FallbackExists, A!PromotionIsAsked

(* The gate permits the union of an account's grants, serves no host the     *)
(* caller does not see, and the menu, the host lists and the profile page    *)
(* agree with it (checkAccess, EffectiveGrants, ReachableHosts,              *)
(* effectiveSections, handleMyAccess).                                       *)
THEOREM GrantsSound ==
    A!BoundsOK /\ A!Spec =>
        [](A!PermitsIsTheUnion /\ A!NamedHostIsVisible /\ A!VisibleIsUsable /\ A!MenuMatchesGate /\ A!AccessExplained)
<1>1. AccountInv =>
        A!PermitsIsTheUnion /\ A!NamedHostIsVisible /\ A!VisibleIsUsable /\ A!MenuMatchesGate /\ A!AccessExplained
  BY PermitsUnion, ServedIsVisible, SeenIsUsable, MenuIsGate, GrantsExplained
<1> QED
  BY <1>1, AccountInvariance, PTL

-----------------------------------------------------------------------------
(* The run's specification.                                                *)

LEMMA PartsMove == ASSUME [Next]_vars PROVE [S!Next]_S!vars /\ [E!Next]_E!evars /\ [A!Next]_A!avars /\ [U!Next]_U!vars
<1>1. UNCHANGED svars => UNCHANGED S!vars
  BY DEF svars, S!vars
<1>2. UNCHANGED evars => UNCHANGED E!evars
  BY DEF evars, E!evars
<1>3. UNCHANGED avars => UNCHANGED A!avars
  BY DEF avars, A!avars
<1>4. UNCHANGED uvars => UNCHANGED U!vars
  BY DEF uvars, U!vars
<1>5. CASE UNCHANGED vars
  BY <1>1, <1>2, <1>3, <1>4, <1>5 DEF vars
<1>6. CASE Next
  BY <1>1, <1>2, <1>3, <1>4, <1>6 DEF Next
<1> QED
  BY <1>5, <1>6

(* Whatever part a run chooses, its behaviours are behaviours of SignIn, of *)
(* Enrolment, of Accounts and of StartUp (Init, Next of MCAccess).          *)
THEOREM RunsTheParts == Spec => S!Spec /\ E!Spec /\ A!Spec /\ U!Spec
<1>1. Init => S!Init /\ E!Init /\ A!Init /\ U!Init
  BY DEF Init
<1>2. [Next]_vars => [S!Next]_S!vars /\ [E!Next]_E!evars /\ [A!Next]_A!avars /\ [U!Next]_U!vars
  BY PartsMove
<1> QED
  BY <1>1, <1>2, PTL DEF Spec, S!Spec, E!Spec, A!Spec, U!Spec

(* A code signs in once, a live challenge buys one attempt, a password      *)
(* change leaves no older session and the limiter's budget holds, however   *)
(* requests, password changes and a restart interleave (consumeTOTP, spend, *)
(* SetPassword, Allow).                                                     *)
THEOREM SignInStaysSound == Spec => []SignInIsSound
<1>1. S!Spec => []S!SignInIsSound
  BY SignInBounds, SignInSound, PTL
<1>2. S!SignInIsSound => SignInIsSound
  BY DEF SignInIsSound
<1> QED
  BY <1>1, <1>2, RunsTheParts, PTL

(* However pairings and removals interleave, an enrolment makes one factor, *)
(* only a proved password adds one to a protected account, the cap holds up *)
(* to the pairings that had counted already, and a protected account is     *)
(* never left bare (PairPendingFactor, DeleteFactor).                       *)
THEOREM FactorsStaySound == Spec => FactorsAreSound
<1> DEFINE Sound == E!TypeOK /\ E!OneFactorPerSecret /\ E!LaterFactorsAreProved /\ E!CapHolds
<1>1. E!Spec => []Sound /\ [][E!StaysProtected]_E!evars
  BY EnrolBounds, FactorsSound, PTL DEF E!ProtectedStaysProtected
<1>2. Sound => (part = "enrolment" => Sound)
  OBVIOUS
<1>3. [E!StaysProtected]_E!evars => [E!StaysProtected]_evars
  BY DEF evars, E!evars
<1> QED
  BY <1>1, <1>2, <1>3, RunsTheParts, PTL DEF FactorsAreSound

(* Concurrent setups make one account; unless requests overlapped, an admin *)
(* remains, a deleted role is assigned to nobody, the directory's fallback  *)
(* exists and stands in for missing roles only, and a directory login       *)
(* promotes nobody (CreateFirstUser, handleUpdateUser, DeleteRole,          *)
(* ldapLogin).                                                              *)
THEOREM AdminsStay == Spec => AdminsRemain
<1> DEFINE Safe == A!TypeOK /\ A!SetupHappensOnce /\ A!AdminRemains
                   /\ A!DeletedRoleGrantsNothing /\ A!FallbackStandsIn
<1>1. A!Spec => []Safe /\ [][A!KeepsFallback]_A!avars /\ [][~busy' => A!PromotesAsAsked]_A!avars
  BY AccountBounds, AccountsSafe, PTL DEF A!FallbackExists, A!PromotionIsAsked
<1>2. Safe => (part = "accounts" => Safe)
  OBVIOUS
<1>3. /\ [A!KeepsFallback]_A!avars => [A!KeepsFallback]_avars
      /\ [~busy' => A!PromotesAsAsked]_A!avars => [~busy' => A!PromotesAsAsked]_avars
  BY DEF avars, A!avars
<1> QED
  BY <1>1, <1>2, <1>3, RunsTheParts, PTL DEF AdminsRemain

(* The gate permits the union of an account's grants, capped; the hosts it  *)
(* serves are visible, the visible ones usable, and the menu and the        *)
(* profile page show what the gate lets through (checkAccess,               *)
(* ReachableHosts, effectiveSections, handleMyAccess).                      *)
THEOREM GrantsStayAgreed == Spec => []GrantsAgree
<1>1. A!Spec => [](A!PermitsIsTheUnion /\ A!NamedHostIsVisible /\ A!VisibleIsUsable
                   /\ A!MenuMatchesGate /\ A!AccessExplained)
  BY AccountBounds, GrantsSound, PTL
<1>2. A!PermitsIsTheUnion /\ A!NamedHostIsVisible /\ A!VisibleIsUsable /\ A!MenuMatchesGate /\ A!AccessExplained
        => GrantsAgree
  BY DEF GrantsAgree
<1> QED
  BY <1>1, <1>2, RunsTheParts, PTL

(* Wherever a start or a reset is cut short, no later start fails, no       *)
(* factor is lost and no code valid twice, host keys stay readable, and a   *)
(* running server's audit log is redacted (migrateTOTPToFactors,            *)
(* enforceOneFactorPerSecret, EncryptPlaintextHostKeys, applyResetTo,       *)
(* redactWebhookAudit).                                                     *)
THEOREM StartsStaySafe == Spec => []StartsAreSafe
<1>1. U!Spec => []U!StartsAreSafe
  BY StartBounds, StartsSafe, PTL
<1>2. U!StartsAreSafe => StartsAreSafe
  BY DEF StartsAreSafe
<1> QED
  BY <1>1, <1>2, RunsTheParts, PTL

=============================================================================
