------------------------------ MODULE TokenTable ------------------------------
(***************************************************************************)
(* Enrollment tokens as operators see them: issued over the REST API       *)
(* (handleIssueToken) or the CLI (runTokenIssue), listed by both, revoked, *)
(* and claimed by Enroll.  Here the data counts: the lifetime of a token   *)
(* is a signed machine integer of nanoseconds, and four WHERE clauses      *)
(* decide from the same columns which tokens are still good.               *)
(*                                                                         *)
(* Time is relative: left is expires_at - NOW(), on the database's clock,  *)
(* by which those clauses decide.  The issuer computes expires_at on its   *)
(* own clock, the server's or that of the CLI's machine, which is off by   *)
(* up to Skew.  Left out is the STATUS column that `token list` prints: it *)
(* compares expires_at with the CLI's clock, after the query.              *)
(***************************************************************************)
EXTENDS Integers

CONSTANTS Tokens,
          Half,      \* durations are integers in -Half .. Half - 1 (2^63)
          Second,    \* time.Second as a duration
          Default,   \* defaultTokenTTL
          Cap,       \* maxTokenTTL, 24 h
          Skew,      \* bound: how far an issuer's clock is from the database's
          Gone       \* nothing further past than this is told apart

ASSUME TokenAssumption ==
  /\ {Half, Second, Default, Cap, Skew, Gone} \subseteq Nat
  /\ 0 < Second /\ Default <= Cap /\ Cap < Half

VARIABLES
  left,     \* expires_at - NOW(), per row
  rows,     \* tokens with a row
  used, revoked   \* tokens with used_at, with revoked_at

vars == <<left, rows, used, revoked>>

Durations == -Half .. Half - 1

TypeOK ==
  /\ left \in [Tokens -> -Gone .. Cap + Skew]
  /\ rows \subseteq Tokens
  /\ used \subseteq Tokens /\ revoked \subseteq Tokens

Init ==
  /\ left = [t \in Tokens |-> -Gone]
  /\ rows = {} /\ used = {} /\ revoked = {}

-----------------------------------------------------------------------------
(***************************************************************************)
(* Issuing.                                                                *)
(***************************************************************************)

\* int64 multiplication.
Wrap(n) == ((n + Half) % (2 * Half)) - Half

Floor(n) == IF n < -Gone THEN -Gone ELSE n

\* The duration handleIssueToken computes from ttl_seconds.
Lifetime(secs) == IF secs > 0 THEN Wrap(secs * Second) ELSE Default

\* expires_at is the issuer's time.Now() plus the lifetime.
Insert(t, ttl) ==
  /\ t \notin rows
  /\ \E off \in -Skew .. Skew : left' = [left EXCEPT ![t] = Floor(ttl + off)]
  /\ rows' = rows \cup {t}
  /\ UNCHANGED <<used, revoked>>

\* Mutant: the limit is not tested.
IssueUncapped(t, secs) == Insert(t, Lifetime(secs))

\* POST /v1/tokens; a refused request changes nothing.
IssueByAPI(t, secs) ==
  /\ Lifetime(secs) <= Cap
  /\ Insert(t, Lifetime(secs))

\* `token issue --ttl d`: any duration up to the limit, also a negative one.
IssueByCLI(t, d) ==
  /\ d <= Cap
  /\ Insert(t, d)

(***************************************************************************)
(* Rows change.                                                            *)
(***************************************************************************)

\* Revoke, by the API or the CLI; used and expired tokens can be revoked too.
Revoke(t) ==
  /\ t \in rows \ revoked /\ revoked' = revoked \cup {t}
  /\ UNCHANGED <<left, rows, used>>

Claimable(t) == t \in rows \ (used \cup revoked) /\ left[t] > 0

\* Mutant: the UPDATE does not test expires_at.
ClaimExpired(t) ==
  /\ t \in rows \ (used \cup revoked) /\ used' = used \cup {t}
  /\ UNCHANGED <<left, rows, revoked>>

\* The UPDATE of Enroll.
Claim(t) ==
  /\ Claimable(t) /\ used' = used \cup {t}
  /\ UNCHANGED <<left, rows, revoked>>

Tick ==
  /\ left' = [t \in Tokens |-> IF t \in rows THEN Floor(left[t] - 1) ELSE left[t]]
  /\ UNCHANGED <<rows, used, revoked>>

(***************************************************************************)
(* Listing.                                                                *)
(***************************************************************************)

\* TokenStore.List, behind GET /v1/tokens?include=...
List(includeExpired, includeRevoked) ==
  {t \in rows \ used :
     (includeExpired \/ left[t] > 0) /\ (includeRevoked \/ t \notin revoked)}

ListActive == {t \in rows : t \notin used /\ t \notin revoked /\ left[t] > 0}

\* Mutant: the boundary belongs to the active tokens.
CliListInclusive(includeUsed, includeExpired) ==
  {t \in rows \ revoked :
     (includeUsed \/ t \notin used) /\ (includeExpired \/ left[t] >= 0)}

\* `token list`: the query of runTokenList.
CliList(includeUsed, includeExpired) ==
  {t \in rows \ revoked :
     (includeUsed \/ t \notin used) /\ (includeExpired \/ left[t] > 0)}

-----------------------------------------------------------------------------
Next ==
  \/ Tick
  \/ \E t \in Tokens :
       \/ Revoke(t) \/ Claim(t)
       \/ \E n \in Durations : IssueByAPI(t, n) \/ IssueByCLI(t, n)

Spec == Init /\ [][Next]_vars

-----------------------------------------------------------------------------
(***************************************************************************)
(* Properties.                                                             *)
(***************************************************************************)

\* What the API and the CLI list by default, and ListActive, are exactly the
\* tokens an agent could enroll with at that moment: four copies of a WHERE
\* clause that say the same of every row, whichever way it came to be.
ListsAgree ==
  LET claimable == {t \in Tokens : Claimable(t)}
  IN  List(FALSE, FALSE) = claimable /\ ListActive = claimable /\ CliList(FALSE, FALSE) = claimable

\* The life of a token as the WHERE clause of Enroll sees it.
Lives == [t \in Tokens |-> CASE t \notin rows -> "none"
                             [] t \in rows \cap used -> "spent"
                             [] t \in rows \ used /\ ~Claimable(t) -> "void"
                             [] OTHER -> "good"]

\* Every sequence of issuing (over the API and the CLI), revoking, claiming and
\* waiting is a life that TokenLife allows: a token is claimed once at most, and
\* one that was used, revoked or expired never becomes good again.  (TypeOK says
\* that no token lives longer than the limit and the skew, however the product
\* wrapped around.)
Life == INSTANCE TokenLife WITH life <- Lives
LifeKept == Life!Spec

\* In particular, a row that is not claimable never becomes claimable.
DeadStaysDead ==
  [][\A t \in Tokens : t \in rows /\ ~Claimable(t) => ~Claimable(t)']_vars
=============================================================================
