-------------------------- MODULE Enrollment_proofs ---------------------------
(***************************************************************************)
(* Enrollment's safety properties for any number of concurrent calls,      *)
(* tokens and machines.                                                    *)
(***************************************************************************)
EXTENDS Enrollment, TLAPS

\* The call wrote its host's row.
Upserted(c) == pc[c] \in {"mark", "record", "done"}

\* What a call past the claim, and past the upsert, may rely on.
Positions ==
  \A c \in Calls :
    /\ PastClaim(c) => tok[c] \in used
    /\ pc[c] = "mark" => tok[c] # None
    /\ pc[c] = "idle" => tok[c] = None
    /\ pc[c] \in {"idle", "claim", "resolve"} => hid[c] = None
    /\ Upserted(c) => row[hid[c]] # Absent
    /\ Upserted(c) /\ hid[c] \notin moved => row[hid[c]] = machine[c]
    /\ pc[c] = "done" => c \in identities

\* The unique index on (machine_id, org_id).
UniqueMachine ==
  \A g, h \in Calls : row[g] \in Machines /\ row[g] = row[h] => g = h

IInv == TypeOK /\ SingleUse /\ TokenTraceable /\ Positions /\ UniqueMachine

USE DistinctAssumption

\* Types are kept by every step.
LEMMA TypeStep == ASSUME TypeOK, [Next]_vars PROVE TypeOK'
<1> USE DEF TypeOK, Goto, vars, tokenVars, callVars
<1>1. ASSUME NEW t \in Tokens, IssueToken(t) \/ Revoke(t) \/ Expire(t) PROVE TypeOK'
  BY <1>1 DEF IssueToken, Revoke, Expire
<1>2. ASSUME NEW c \in Calls, NEW t \in Tokens, NEW m \in Machines \cup {NoMachine},
             Begin(c, t, m)
      PROVE  TypeOK'
  BY <1>2 DEF Begin
<1>3. ASSUME NEW c \in Calls, NEW k \in Calls, NEW m \in Machines \cup {NoMachine},
             BeginRenewal(c, k, m)
      PROVE  TypeOK'
  BY <1>3 DEF BeginRenewal
<1>4. ASSUME NEW c \in Calls, Claim(c) PROVE TypeOK'
  BY <1>4 DEF Claim
<1>5. ASSUME NEW c \in Calls, Resolve(c) PROVE TypeOK'
  BY <1>5 DEF Resolve, Matching
<1>6. ASSUME NEW c \in Calls, Sign(c) \/ Refuse(c) PROVE TypeOK'
  BY <1>6 DEF Sign, Refuse
<1>7. ASSUME NEW c \in Calls, Upsert(c) PROVE TypeOK'
  BY <1>7 DEF Upsert
<1>8. ASSUME NEW c \in Calls, Mark(c) \/ Record(c) PROVE TypeOK'
  BY <1>8 DEF Mark, Record
<1>9. ASSUME Crash PROVE TypeOK'
  BY <1>9 DEF Crash
<1>10. QED
  BY <1>1, <1>2, <1>3, <1>4, <1>5, <1>6, <1>7, <1>8, <1>9 DEF Next, Enroll
\* The conjuncts about calls and rows, together: they need each other.
Rest == SingleUse /\ TokenTraceable /\ Positions /\ UniqueMachine

\* Steps of the operator, of the clock and of a crash.
LEMMA OutsideStep ==
  ASSUME IInv, (\E t \in Tokens : IssueToken(t) \/ Revoke(t) \/ Expire(t)) \/ Crash
  PROVE  Rest'
<1> USE DEF IInv, TypeOK, Rest, PastClaim, Upserted
<1>1. ASSUME NEW t \in Tokens, IssueToken(t) \/ Revoke(t) \/ Expire(t) PROVE Rest'
  BY <1>1 DEF IssueToken, Revoke, Expire, callVars, SingleUse, TokenTraceable, Positions,
              UniqueMachine
<1>2. CASE Crash
  <2>1. SingleUse' /\ UniqueMachine'
    BY <1>2 DEF Crash, SingleUse, UniqueMachine
  <2>2. TokenTraceable'
    BY <1>2 DEF Crash, tokenVars, TokenTraceable
  <2>3. Positions'
    BY <1>2 DEF Crash, tokenVars, Positions
  <2>4. QED
    BY <2>1, <2>2, <2>3
<1>3. QED
  BY <1>1, <1>2

\* Steps that only move a call on, or start it.
LEMMA QuietStep ==
  ASSUME IInv, NEW c \in Calls,
         \/ \E t \in Tokens, m \in Machines \cup {NoMachine} : Begin(c, t, m)
         \/ \E k \in Calls, m \in Machines \cup {NoMachine} : BeginRenewal(c, k, m)
         \/ Resolve(c) \/ Sign(c) \/ Refuse(c)
  PROVE  Rest'
<1> USE DEF IInv, TypeOK, Rest, PastClaim, Upserted, Goto
<1>1. ASSUME NEW t \in Tokens, NEW m \in Machines \cup {NoMachine}, Begin(c, t, m)
      PROVE  Rest'
  <2>1. TokenTraceable'
    \* a token's claimer is not the idle call, whose hid is None
    <3> SUFFICES ASSUME NEW u \in Tokens, usedBy[u] # None
                 PROVE  /\ u \in used /\ row[usedBy[u]] # Absent
                        /\ \E d \in Calls : tok'[d] = u /\ hid[d] = usedBy[u]
      BY <1>1 DEF Begin, tokenVars, TokenTraceable
    <3>1. PICK d \in Calls : tok[d] = u /\ hid[d] = usedBy[u]
      BY DEF TokenTraceable
    <3>2. d # c
      BY <1>1, <3>1 DEF Begin, Positions
    <3>3. QED
      BY <1>1, <3>1, <3>2 DEF Begin, TokenTraceable
  <2>2. QED
    BY <1>1, <2>1 DEF Begin, tokenVars, SingleUse, Positions, UniqueMachine
<1>2. ASSUME NEW k \in Calls, NEW m \in Machines \cup {NoMachine}, BeginRenewal(c, k, m)
      PROVE  Rest'
  <2>1. tok[c] = None
    BY <1>2 DEF BeginRenewal, Positions
  <2>2. QED
    BY <1>2, <2>1 DEF BeginRenewal, tokenVars, SingleUse, TokenTraceable, Positions,
                      UniqueMachine
<1>3. CASE Resolve(c)
  <2>1. TokenTraceable'
    BY <1>3 DEF Resolve, tokenVars, TokenTraceable, Positions
  <2>2. QED
    BY <1>3, <2>1 DEF Resolve, tokenVars, SingleUse, Positions, UniqueMachine
<1>4. CASE Sign(c) \/ Refuse(c)
  BY <1>4 DEF Sign, Refuse, tokenVars, SingleUse, TokenTraceable, Positions, UniqueMachine
<1>5. QED
  BY <1>1, <1>2, <1>3, <1>4
\* The atomic claim: the token was unused, so no other call is past it.
LEMMA ClaimStep == ASSUME IInv, NEW c \in Calls, Claim(c) PROVE Rest'
<1> USE DEF IInv, TypeOK, Rest, PastClaim, Upserted, Goto, Claim
<1>1. \A d \in Calls : PastClaim(d) => tok[d] # tok[c]
  BY DEF Positions
<1>2. SingleUse'
  BY <1>1 DEF SingleUse
<1>3. TokenTraceable'
  BY DEF TokenTraceable
<1>4. Positions'
  BY DEF Positions
<1>5. UniqueMachine'
  BY DEF UniqueMachine
<1>6. QED
  BY <1>2, <1>3, <1>4, <1>5

\* The upsert: the index keeps machine_ids unique, and a host whose machine_id
\* changes is noted in moved, for all the calls that wrote it before.
LEMMA UpsertStep == ASSUME IInv, NEW c \in Calls, Upsert(c) PROVE Rest'
<1> USE DEF IInv, TypeOK, Rest, PastClaim, Upserted, Goto, Upsert
<1>1. hid[c] \in Calls
  OBVIOUS
<1>2. \A g \in Calls : row[g] # Absent => row'[g] # Absent
  BY <1>1
<1>3. SingleUse'
  BY DEF SingleUse, tokenVars
<1>4. TokenTraceable'
  BY <1>1, <1>2 DEF TokenTraceable, tokenVars
<1>5. Positions'
  <2> SUFFICES ASSUME NEW d \in Calls
               PROVE  (/\ PastClaim(d) => tok[d] \in used
                       /\ pc[d] = "mark" => tok[d] # None
                       /\ pc[d] = "idle" => tok[d] = None
                       /\ pc[d] \in {"idle", "claim", "resolve"} => hid[d] = None
                       /\ Upserted(d) => row[hid[d]] # Absent
                       /\ Upserted(d) /\ hid[d] \notin moved => row[hid[d]] = machine[d]
                       /\ pc[d] = "done" => d \in identities)'
    BY DEF Positions
  <2>1. CASE d = c
    BY <1>1, <2>1 DEF Positions, tokenVars
  <2>2. CASE d # c
    <3>1. Upserted(d)' => Upserted(d) /\ hid[d] \in Calls
      BY <2>2
    <3>2. CASE hid[d] = hid[c]
      BY <1>1, <2>2, <3>1, <3>2 DEF Positions, tokenVars
    <3>3. CASE hid[d] # hid[c]
      BY <1>1, <2>2, <3>1, <3>3 DEF Positions, tokenVars
    <3>4. QED
      BY <3>2, <3>3
  <2>3. QED
    BY <2>1, <2>2
<1>6. UniqueMachine'
  BY <1>1 DEF UniqueMachine, Matching
<1>7. QED
  BY <1>3, <1>4, <1>5, <1>6

\* The last two statements.
LEMMA RecordStep == ASSUME IInv, NEW c \in Calls, Mark(c) \/ Record(c) PROVE Rest'
<1> USE DEF IInv, TypeOK, Rest, PastClaim, Upserted, Goto
<1>1. CASE Mark(c)
  <2>1. tok[c] \in Tokens /\ tok[c] \in used /\ row[hid[c]] # Absent
    BY <1>1 DEF Mark, Positions
  <2>2. TokenTraceable'
    BY <1>1, <2>1 DEF Mark, TokenTraceable
  <2>3. QED
    BY <1>1, <2>2 DEF Mark, SingleUse, Positions, UniqueMachine
<1>2. CASE Record(c)
  BY <1>2 DEF Record, tokenVars, SingleUse, TokenTraceable, Positions, UniqueMachine
<1>3. QED
  BY <1>1, <1>2

\* IInv is inductive.
LEMMA Inductive == IInv /\ [Next]_vars => IInv'
<1> SUFFICES ASSUME IInv, [Next]_vars PROVE IInv'
  OBVIOUS
<1>1. TypeOK'
  BY TypeStep DEF IInv
<1>2. CASE \E c \in Calls : Enroll(c)
  <2>1. Rest'
    BY <1>2, QuietStep, ClaimStep, UpsertStep, RecordStep DEF Enroll
  <2>2. QED
    BY <1>1, <2>1 DEF IInv, Rest
<1>3. CASE (\E t \in Tokens : IssueToken(t) \/ Revoke(t) \/ Expire(t)) \/ Crash
  BY <1>1, <1>3, OutsideStep DEF IInv, Rest
<1>4. CASE UNCHANGED vars
  BY <1>1, <1>4 DEF IInv, vars, tokenVars, callVars, SingleUse, TokenTraceable, Positions,
     UniqueMachine, PastClaim, Upserted
<1>5. QED
  BY <1>2, <1>3, <1>4 DEF Next

LEMMA Invariance == Spec => []IInv
<1>1. Init => IInv
  BY DEF Init, IInv, TypeOK, SingleUse, TokenTraceable, Positions, UniqueMachine,
         PastClaim, Upserted
<1>2. QED
  BY <1>1, Inductive, PTL DEF Spec

\* Types of the tables and of the calls.
THEOREM TypeCorrect == Spec => []TypeOK
  BY Invariance, PTL DEF IInv

\* An enrollment token lets at most one call through.
THEOREM TokensAreSingleUse == Spec => []SingleUse
  BY Invariance, PTL DEF IInv

\* used_by_host_id tells the truth.
THEOREM TokensAreTraceable == Spec => []TokenTraceable
  BY Invariance, PTL DEF IInv

\* Every certificate handed out has its host, its identity and its token on record.
THEOREM CertificatesAreBacked == Spec => []CertificateBacked
<1>1. IInv => CertificateBacked
  BY DEF IInv, TypeOK, Positions, PastClaim, Upserted, CertificateBacked
<1>2. QED
  BY <1>1, Invariance, PTL

\* Concurrent enrollments of one machine cannot end with two host_ids.
THEOREM HostIDsAreStable == Spec => []StableHostID
<1>1. IInv => StableHostID
  BY DEF IInv, TypeOK, Positions, UniqueMachine, Upserted, StableHostID
<1>2. QED
  BY <1>1, Invariance, PTL

-----------------------------------------------------------------------------
(***************************************************************************)
(* Enrollments and the operator keep TokenLife.                            *)
(***************************************************************************)

\* A step that spares the columns of the tokens spares their lives.
LEMMA TokensSpared == ASSUME UNCHANGED <<issued, used, revoked, expired>> PROVE Lives' = Lives
  BY DEF Lives

\* A step that changes the life of one token only.
LEMMA OneChanges ==
  ASSUME NEW t \in Tokens, NEW l, Lives'[t] = l,
         \A u \in Tokens \ {t} : Lives'[u] = Lives[u]
  PROVE  Lives' = [Lives EXCEPT ![t] = l]
<1>1. Lives = [u \in Tokens |-> Lives[u]] /\ Lives' = [u \in Tokens |-> Lives'[u]]
  BY DEF Lives
<1>2. QED
  BY <1>1

\* A token loses its life by one column.
LEMMA OneBecomesVoid ==
  ASSUME NEW t \in Tokens, Lives'[t] = Lives[t] \/ (Lives[t] = "good" /\ Lives'[t] = "void"),
         \A u \in Tokens \ {t} : Lives'[u] = Lives[u]
  PROVE  [Life!Next]_Lives
<1>1. Lives = [u \in Tokens |-> Lives[u]] /\ Lives' = [u \in Tokens |-> Lives'[u]]
  BY DEF Lives
<1>2. CASE Lives'[t] = Lives[t]
  BY <1>1, <1>2
<1>3. CASE Lives[t] = "good" /\ Lives'[t] = "void"
  <2>1. Life!Void({t})
    BY <1>1, <1>3 DEF Life!Void
  <2>2. QED
    BY <2>1 DEF Life!Next
<1>4. QED
  BY <1>2, <1>3

LEMMA LifeStep == TypeOK /\ [Next]_vars => [Life!Next]_Lives
<1> SUFFICES ASSUME TypeOK, [Next]_vars PROVE [Life!Next]_Lives
  OBVIOUS
<1>1. ASSUME NEW t \in Tokens, IssueToken(t) PROVE Life!Next
  <2>1. Lives[t] = "none" /\ Lives'[t] = "good"
    BY <1>1 DEF IssueToken, Lives, TypeOK
  <2>2. \A u \in Tokens \ {t} : Lives'[u] = Lives[u]
    BY <1>1 DEF IssueToken, Lives
  <2>3. Life!Issue(t)
    BY <2>1, <2>2, OneChanges DEF Life!Issue
  <2>4. QED
    BY <2>3 DEF Life!Next
<1>2. ASSUME NEW t \in Tokens, Revoke(t) \/ Expire(t) PROVE [Life!Next]_Lives
  <2>1. \A u \in Tokens \ {t} : Lives'[u] = Lives[u]
    BY <1>2 DEF Revoke, Expire, Lives
  <2>2. Lives'[t] = Lives[t] \/ (Lives[t] = "good" /\ Lives'[t] = "void")
    BY <1>2 DEF Revoke, Expire, Lives
  <2>3. QED
    BY <2>1, <2>2, OneBecomesVoid
<1>3. ASSUME NEW c \in Calls, Claim(c) PROVE Life!Next
  <2>1. tok[c] \in issued /\ tok[c] \in Tokens
    BY <1>3 DEF Claim, TypeOK
  <2>2. Lives[tok[c]] = "good" /\ Lives'[tok[c]] = "spent"
    BY <1>3, <2>1 DEF Claim, Lives
  <2>3. \A u \in Tokens \ {tok[c]} : Lives'[u] = Lives[u]
    BY <1>3, <2>1 DEF Claim, Lives
  <2>4. Life!Spend(tok[c])
    BY <2>1, <2>2, <2>3, OneChanges DEF Life!Spend
  <2>5. QED
    BY <2>1, <2>4 DEF Life!Next
<1>4. ASSUME NEW c \in Calls, Enroll(c), ~Claim(c) PROVE Lives' = Lives
  BY <1>4, TokensSpared DEF Enroll, Begin, BeginRenewal, Resolve, Sign, Upsert, Mark,
     Record, Refuse, tokenVars
<1>5. CASE Crash
  BY <1>5, TokensSpared DEF Crash, tokenVars
<1>6. CASE UNCHANGED vars
  BY <1>6, TokensSpared DEF vars, tokenVars
<1>7. QED
  BY <1>1, <1>2, <1>3, <1>4, <1>5, <1>6 DEF Next

\* Enroll's claim and the operator's commands implement TokenLife, whatever calls
\* race, fail after their claim committed, or die with the server.
THEOREM EnrollmentKeepsTokenLife == Spec => LifeKept
<1>1. Init => Life!Init
  BY DEF Init, Life!Init, Lives
<1>2. QED
  BY <1>1, LifeStep, TypeCorrect, PTL DEF Spec, LifeKept, Life!Spec
=============================================================================
