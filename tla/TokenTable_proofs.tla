-------------------------- MODULE TokenTable_proofs ---------------------------
(***************************************************************************)
(* Proofs about the table of enrollment tokens, for any number of tokens   *)
(* and any width of durations, whatever ttl a request carries.             *)
(***************************************************************************)
EXTENDS TokenTable, TLAPS

USE TokenAssumption

\* int64 multiplication yields an int64, so that what is compared with the
\* maximum is a number, if not the one that was asked for.
LEMMA WrapIsDuration == \A n \in Int : Wrap(n) \in Durations
<1> SUFFICES ASSUME NEW n \in Int PROVE Wrap(n) \in Durations
  OBVIOUS
<1>1. Half \in Int /\ 2 * Half > 0
  OBVIOUS
<1> DEFINE d == 2 * Half  r == (n + Half) % d
<1>2. d \in Nat \ {0} /\ n + Half \in Int
  BY <1>1
<1> HIDE DEF d
<1>3. r \in 0 .. d - 1
  BY <1>2
<1>4. QED BY <1>1, <1>3 DEF Wrap, Durations, d

LEMMA LifetimeIsDuration == \A n \in Durations : Lifetime(n) \in Durations
<1> SUFFICES ASSUME NEW n \in Durations PROVE Lifetime(n) \in Durations
  OBVIOUS
<1>1. n \in Int /\ n * Second \in Int
  BY DEF Durations
<1>2. Default \in Durations
  BY DEF Durations
<1>3. QED BY <1>1, <1>2, WrapIsDuration DEF Lifetime

LEMMA FloorInRange == \A n \in Int : n <= Cap + Skew => Floor(n) \in -Gone .. Cap + Skew
  BY DEF Floor

LEMMA InsertKeepsType ==
  ASSUME TypeOK, NEW t \in Tokens, NEW n \in Int, n <= Cap, Insert(t, n)
  PROVE  TypeOK'
<1>1. PICK off \in -Skew .. Skew : left' = [left EXCEPT ![t] = Floor(n + off)]
  BY DEF Insert
<1>2. n + off \in Int /\ n + off <= Cap + Skew
  OBVIOUS
<1>3. Floor(n + off) \in -Gone .. Cap + Skew
  BY <1>2, FloorInRange
<1>4. left' \in [Tokens -> -Gone .. Cap + Skew]
  BY <1>1, <1>3 DEF TypeOK
<1>5. QED BY <1>4 DEF TypeOK, Insert

LEMMA Typed == Init => TypeOK
  BY DEF Init, TypeOK

LEMMA TypeKept == TypeOK /\ [Next]_vars => TypeOK'
<1> SUFFICES ASSUME TypeOK, [Next]_vars PROVE TypeOK'
  OBVIOUS
<1>1. CASE Tick
  <2>1. \A t \in Tokens : Floor(left[t] - 1) \in -Gone .. Cap + Skew
    BY FloorInRange DEF TypeOK
  <2>2. left' \in [Tokens -> -Gone .. Cap + Skew]
    BY <1>1, <2>1 DEF Tick, TypeOK
  <2>3. QED BY <1>1, <2>2 DEF Tick, TypeOK
<1>2. ASSUME NEW t \in Tokens, NEW n \in Durations, IssueByAPI(t, n) PROVE TypeOK'
  <2>1. Lifetime(n) \in Int
    BY LifetimeIsDuration DEF Durations
  <2>2. QED BY <1>2, <2>1, InsertKeepsType DEF IssueByAPI
<1>3. ASSUME NEW t \in Tokens, NEW n \in Durations, IssueByCLI(t, n) PROVE TypeOK'
  <2>1. n \in Int
    BY DEF Durations
  <2>2. QED BY <1>3, <2>1, InsertKeepsType DEF IssueByCLI
<1>4. ASSUME NEW t \in Tokens, Revoke(t) \/ Claim(t) PROVE TypeOK'
  BY <1>4 DEF Revoke, Claim, Claimable, TypeOK
<1>5. CASE UNCHANGED vars
  BY <1>5 DEF vars, TypeOK
<1>6. QED BY <1>1, <1>2, <1>3, <1>4, <1>5 DEF Next

-----------------------------------------------------------------------------
(***************************************************************************)
(* The theorems.                                                           *)
(***************************************************************************)

\* No token outlives maxTokenTTL by more than the skew of its issuer's clock:
\* neither handleIssueToken, whose product wraps around, nor runTokenIssue writes
\* an expires_at beyond it.
THEOREM TableTypeCorrect == Spec => []TypeOK
  BY Typed, TypeKept, PTL DEF Spec

\* List, ListActive and the query of `token list` return by default exactly the
\* tokens that Enroll's UPDATE would claim.
THEOREM ListsAlwaysAgree == Spec => []ListsAgree
<1>1. TypeOK => ListsAgree
  <2> SUFFICES ASSUME TypeOK PROVE ListsAgree
    OBVIOUS
  <2> DEFINE claimable == {t \in Tokens : Claimable(t)}
  <2>1. List(FALSE, FALSE) = claimable
    BY DEF TypeOK, List, Claimable
  <2>2. ListActive = claimable
    BY DEF TypeOK, ListActive, Claimable
  <2>3. CliList(FALSE, FALSE) = claimable
    BY DEF TypeOK, CliList, Claimable
  <2>4. QED BY <2>1, <2>2, <2>3 DEF ListsAgree
<1>2. QED BY <1>1, TableTypeCorrect, PTL

-----------------------------------------------------------------------------
(***************************************************************************)
(* Every step on the table is a step in the life of a token.               *)
(***************************************************************************)

\* The life of one token after a step, read off its row.
LEMMA LivesOfNext ==
  ASSUME NEW t \in Tokens
  PROVE  /\ Lives'[t] = "none" <=> t \notin rows'
         /\ Lives'[t] = "spent" <=> t \in rows' \cap used'
         /\ Lives'[t] = "void" <=> t \in rows' \ used' /\ ~Claimable(t)'
         /\ Lives'[t] = "good" <=> Claimable(t)'
  BY DEF Lives, Claimable

\* A step after which every token is as it was, or void and good before, is the
\* end of those that are void now.
LEMMA SomeBecomeVoid ==
  ASSUME \A t \in Tokens : Lives'[t] = Lives[t] \/ (Lives[t] = "good" /\ Lives'[t] = "void")
  PROVE  Life!Next
<1> DEFINE lost == {t \in Tokens : Lives[t] = "good" /\ Lives'[t] = "void"}
<1>1. Lives' = [t \in Tokens |-> Lives'[t]]
  BY DEF Lives
<1>2. Lives' = [t \in Tokens |-> IF t \in lost THEN "void" ELSE Lives[t]]
  BY <1>1
<1>3. Life!Void(lost)
  BY <1>2 DEF Life!Void
<1>4. QED
  BY <1>3 DEF Life!Next

\* A step that changes the life of one token only.
LEMMA OneChanges ==
  ASSUME NEW t \in Tokens, NEW l, Lives'[t] = l,
         \A u \in Tokens \ {t} : Lives'[u] = Lives[u]
  PROVE  Lives' = [Lives EXCEPT ![t] = l]
<1>1. Lives = [u \in Tokens |-> Lives[u]] /\ Lives' = [u \in Tokens |-> Lives'[u]]
  BY DEF Lives
<1>2. QED
  BY <1>1

\* Only rows are claimed, so that a new one starts unused.
UsedHaveRows == used \subseteq rows

LEMMA UsedStep == UsedHaveRows /\ [Next]_vars => UsedHaveRows'
  BY DEF UsedHaveRows, Next, vars, Tick, Revoke, Claim, Claimable, IssueByAPI, IssueByCLI,
         Insert

LEMMA Unused == Spec => []UsedHaveRows
<1>1. Init => UsedHaveRows
  BY DEF Init, UsedHaveRows
<1>2. QED
  BY <1>1, UsedStep, PTL DEF Spec

LEMMA LifeStep == TypeOK /\ UsedHaveRows /\ [Next]_vars => [Life!Next]_Lives
<1> SUFFICES ASSUME TypeOK, UsedHaveRows, [Next]_vars PROVE [Life!Next]_Lives
  OBVIOUS
<1>1. CASE Tick
  <2> SUFFICES ASSUME NEW u \in Tokens
               PROVE  Lives'[u] = Lives[u] \/ (Lives[u] = "good" /\ Lives'[u] = "void")
    BY SomeBecomeVoid
  <2>1. UNCHANGED <<rows, used, revoked>>
    BY <1>1 DEF Tick
  <2>2. Claimable(u)' => Claimable(u)
    <3>1. left[u] \in Int /\ left'[u] = IF u \in rows THEN Floor(left[u] - 1) ELSE left[u]
      BY <1>1 DEF Tick, TypeOK
    <3>2. left'[u] > 0 => left[u] > 0
      BY <3>1 DEF Floor
    <3>3. QED
      BY <2>1, <3>2 DEF Claimable
  <2>3. QED
    BY <2>1, <2>2 DEF Lives, Claimable
<1>2. ASSUME NEW t \in Tokens, NEW n \in Int, Insert(t, n) PROVE Life!Next
  <2>1. Lives[t] = "none" /\ Lives'[t] \in {"good", "void", "spent"}
    BY <1>2 DEF Insert, Lives
  <2>2. t \notin used => Lives'[t] \in {"good", "void"}
    BY <1>2, <2>1, LivesOfNext DEF Insert
  <2>3. \A u \in Tokens \ {t} : Lives'[u] = Lives[u]
    BY <1>2 DEF Insert, Lives, Claimable, TypeOK
  <2>4. Lives' = [Lives EXCEPT ![t] = Lives'[t]]
    BY <2>3, OneChanges
  <2>5. t \notin used
    BY <1>2 DEF Insert, UsedHaveRows
  <2>6. Life!Issue(t)
    BY <2>1, <2>2, <2>4, <2>5 DEF Life!Issue
  <2>7. QED
    BY <2>6 DEF Life!Next
<1>3. ASSUME NEW t \in Tokens, Revoke(t) PROVE Life!Next
  BY <1>3, SomeBecomeVoid DEF Revoke, Lives, Claimable
<1>4. ASSUME NEW t \in Tokens, Claim(t) PROVE Life!Next
  <2>1. Lives[t] = "good" /\ Lives'[t] = "spent"
    BY <1>4 DEF Claim, Lives, Claimable
  <2>2. \A u \in Tokens \ {t} : Lives'[u] = Lives[u]
    BY <1>4 DEF Claim, Lives, Claimable
  <2>3. Life!Spend(t)
    BY <2>1, <2>2, OneChanges DEF Life!Spend
  <2>4. QED
    BY <2>3 DEF Life!Next
<1>5. CASE UNCHANGED vars
  BY <1>5 DEF vars, Lives, Claimable
<1>6. ASSUME NEW n \in Durations PROVE n \in Int /\ Lifetime(n) \in Int
  BY LifetimeIsDuration DEF Durations
<1>7. QED
  BY <1>1, <1>2, <1>3, <1>4, <1>5, <1>6 DEF Next, IssueByAPI, IssueByCLI

\* The table implements TokenLife: no statement on enrollment_tokens, and no
\* passing of time, makes a token that Enroll would refuse good again, and none
\* is claimed that was not good.
THEOREM TableKeepsTokenLife == Spec => LifeKept
<1>1. Init => Life!Init
  BY DEF Init, Life!Init, Lives
<1>2. QED
  BY <1>1, LifeStep, Unused, TableTypeCorrect, PTL DEF Spec, LifeKept, Life!Spec

\* No statement on enrollment_tokens, and no passing of time, makes a token that
\* Enroll would refuse claimable again.
THEOREM DeadTokensStayDead == Spec => DeadStaysDead
<1> DEFINE Kept == \A t \in Tokens : t \in rows /\ ~Claimable(t) => ~Claimable(t)'
<1>1. [Life!Next]_Lives => Kept
  <2> SUFFICES ASSUME [Life!Next]_Lives, NEW t \in Tokens, t \in rows, ~Claimable(t)
               PROVE  ~Claimable(t)'
    OBVIOUS
  <2>1. Lives[t] \in {"spent", "void"}
    BY DEF Lives, Claimable
  <2>2. Lives'[t] = Lives[t]
    <3>1. Lives = [u \in Tokens |-> Lives[u]]
      BY DEF Lives
    <3>2. ASSUME NEW u \in Tokens, Life!Issue(u) \/ Life!Spend(u) PROVE Lives'[t] = Lives[t]
      BY <2>1, <3>1, <3>2 DEF Life!Issue, Life!Spend
    <3>3. ASSUME NEW lost \in SUBSET Tokens, Life!Void(lost) PROVE Lives'[t] = Lives[t]
      BY <2>1, <3>3 DEF Life!Void
    <3>4. QED
      BY <3>2, <3>3 DEF Life!Next
  <2>3. QED
    BY <2>1, <2>2, LivesOfNext
<1>2. Kept => [Kept]_vars
  OBVIOUS
<1>3. QED
  BY <1>1, <1>2, LifeStep, Unused, TableTypeCorrect, PTL DEF Spec, DeadStaysDead
=============================================================================
