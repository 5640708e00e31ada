------------------------------ MODULE Enrollment ------------------------------
(***************************************************************************)
(* The Enroll RPC (internal/enrollment/service.go) with the tables it      *)
(* writes: enrollment_tokens, hosts and agent_identities.                  *)
(*                                                                         *)
(* Enroll runs five statements against the database, each a transaction of *)
(* its own: claim the token, look the machine up, upsert the host, note    *)
(* the host on the token, insert the identity.  Calls run concurrently,    *)
(* any statement may fail, and one that is reported as failed may have     *)
(* been committed (the caller's context was cancelled).                    *)
(*                                                                         *)
(* One organisation is modelled.  A call generates at most one ULID, which *)
(* is unique: the call itself stands for it, and for the certificate that  *)
(* is signed in it.                                                        *)
(***************************************************************************)
EXTENDS Naturals

CONSTANTS Calls, Tokens, Machines,
          None,        \* no token (renewal), no host
          NoMachine,   \* a host that reports no machine_id (NULL)
          Absent       \* no row

ASSUME DistinctAssumption ==
  /\ None \notin Calls \cup Tokens
  /\ Machines \cap {NoMachine, Absent} = {} /\ NoMachine # Absent

VARIABLES
  issued, used, revoked, expired,  \* sets of tokens, by the columns of their rows
  usedBy,      \* enrollment_tokens.used_by_host_id
  row,         \* hosts: host_id -> machine_id, Absent when there is no row
  identities,  \* certificates with a row in agent_identities
  pc,          \* next statement of a call, or how it ended
  tok,         \* the token a call presents, None when it presents a certificate
  machine,     \* the machine_id in its host_info
  hid,         \* the host_id resolved for it
  moved        \* hosts whose row changed its machine_id (history)

tokenVars == <<issued, used, revoked, expired, usedBy>>
callVars == <<pc, tok, machine, hid>>
vars == <<tokenVars, callVars, row, identities, moved>>

TypeOK ==
  /\ issued \subseteq Tokens /\ used \subseteq issued
  /\ revoked \subseteq issued /\ expired \subseteq issued
  /\ usedBy \in [Tokens -> Calls \cup {None}]
  /\ row \in [Calls -> Machines \cup {NoMachine, Absent}]
  /\ identities \subseteq Calls
  /\ pc \in [Calls -> {"idle", "claim", "resolve", "sign", "upsert", "mark", "record",
                       "done", "refused", "crashed"}]
  /\ tok \in [Calls -> Tokens \cup {None}]
  /\ machine \in [Calls -> Machines \cup {NoMachine}]
  /\ hid \in [Calls -> Calls \cup {None}]
  /\ moved \subseteq Calls
  /\ \A c \in Calls : pc[c] \in {"sign", "upsert", "mark", "record", "done"} => hid[c] # None
  /\ \A c \in Calls : pc[c] = "claim" => tok[c] \in issued

Init ==
  /\ issued = {} /\ used = {} /\ revoked = {} /\ expired = {}
  /\ usedBy = [t \in Tokens |-> None]
  /\ row = [c \in Calls |-> Absent]
  /\ identities = {} /\ moved = {}
  /\ pc = [c \in Calls |-> "idle"]
  /\ tok = [c \in Calls |-> None]
  /\ machine = [c \in Calls |-> NoMachine]
  /\ hid = [c \in Calls |-> None]

Goto(c, p) == pc' = [pc EXCEPT ![c] = p]

-----------------------------------------------------------------------------
(***************************************************************************)
(* The operator and the clock.                                             *)
(***************************************************************************)
IssueToken(t) ==
  /\ t \notin issued /\ issued' = issued \cup {t}
  /\ UNCHANGED <<used, revoked, expired, usedBy, callVars, row, identities, moved>>

\* Revoke looks at revoked_at only: a used token can be revoked as well.
Revoke(t) ==
  /\ t \in issued \ revoked /\ revoked' = revoked \cup {t}
  /\ UNCHANGED <<issued, used, expired, usedBy, callVars, row, identities, moved>>

Expire(t) ==
  /\ t \in issued \ expired /\ expired' = expired \cup {t}
  /\ UNCHANGED <<issued, used, revoked, usedBy, callVars, row, identities, moved>>

(***************************************************************************)
(* Enroll.                                                                 *)
(***************************************************************************)

\* A first enrollment, with a token that was issued at some time.
Begin(c, t, m) ==
  /\ pc[c] = "idle" /\ t \in issued
  /\ tok' = [tok EXCEPT ![c] = t]
  /\ machine' = [machine EXCEPT ![c] = m]
  /\ Goto(c, "claim")
  /\ UNCHANGED <<tokenVars, hid, row, identities, moved>>

\* A renewal over mTLS with the certificate of an earlier call, whose CN is the
\* host_id; the host's row is there, so the org lookup succeeds or the database
\* fails (Refuse).  The machine_id is whatever host_info says now.
BeginRenewal(c, k, m) ==
  /\ pc[c] = "idle" /\ pc[k] = "done"
  /\ machine' = [machine EXCEPT ![c] = m]
  /\ hid' = [hid EXCEPT ![c] = hid[k]]
  /\ Goto(c, "sign")
  /\ UNCHANGED <<tokenVars, tok, row, identities, moved>>

\* Mutant: the claim does not test used_at.
ClaimAgain(c) ==
  /\ pc[c] = "claim"
  /\ tok[c] \notin revoked \cup expired
  /\ used' = used \cup {tok[c]}
  /\ Goto(c, "resolve") \/ Goto(c, "refused")
  /\ UNCHANGED <<issued, revoked, expired, usedBy, tok, machine, hid, row, identities, moved>>

\* Mutant: the claim does not test revoked_at.
ClaimRevoked(c) ==
  /\ pc[c] = "claim"
  /\ tok[c] \notin used \cup expired
  /\ used' = used \cup {tok[c]}
  /\ Goto(c, "resolve") \/ Goto(c, "refused")
  /\ UNCHANGED <<issued, revoked, expired, usedBy, tok, machine, hid, row, identities, moved>>

\* UPDATE ... SET used_at WHERE unused, unrevoked and unexpired RETURNING.
Claim(c) ==
  /\ pc[c] = "claim"
  /\ tok[c] \notin used \cup revoked \cup expired
  /\ used' = used \cup {tok[c]}
  /\ Goto(c, "resolve") \/ Goto(c, "refused")
  /\ UNCHANGED <<issued, revoked, expired, usedBy, tok, machine, hid, row, identities, moved>>

\* The rows SELECT id FROM hosts WHERE machine_id would find for a call.
Matching(c) == {h \in Calls : row[h] \in Machines /\ row[h] = machine[c]}

\* resolveHostID: the machine's host, or a new one; an error of the SELECT
\* counts as "no existing host".
Resolve(c) ==
  /\ pc[c] = "resolve"
  /\ \E h \in Matching(c) \cup {c} : hid' = [hid EXCEPT ![c] = h]
  /\ Goto(c, "sign")
  /\ UNCHANGED <<tokenVars, tok, machine, row, identities, moved>>

\* ca.IssueClient accepts the CSR (it writes nothing).
Sign(c) ==
  /\ pc[c] = "sign"
  /\ Goto(c, "upsert")
  /\ UNCHANGED <<tokenVars, tok, machine, hid, row, identities, moved>>

\* Mutant: hosts without the unique index on (machine_id, org_id).
UpsertUnindexed(c) ==
  /\ pc[c] = "upsert"
  /\ row' = [row EXCEPT ![hid[c]] = machine[c]]
  /\ moved' = moved \cup {h \in {hid[c]} : row[h] \notin {Absent, machine[c]}}
  /\ Goto(c, IF tok[c] = None THEN "record" ELSE "mark") \/ Goto(c, "refused")
  /\ UNCHANGED <<tokenVars, tok, machine, hid, identities>>

\* INSERT ... ON CONFLICT (id) DO UPDATE: the unique index on the machine_id is
\* not a conflict it handles, so another host's machine_id is an error (Refuse).
Upsert(c) ==
  /\ pc[c] = "upsert"
  /\ Matching(c) \subseteq {hid[c]}
  /\ row' = [row EXCEPT ![hid[c]] = machine[c]]
  /\ moved' = moved \cup {h \in {hid[c]} : row[h] \notin {Absent, machine[c]}}
  /\ Goto(c, IF tok[c] = None THEN "record" ELSE "mark") \/ Goto(c, "refused")
  /\ UNCHANGED <<tokenVars, tok, machine, hid, identities>>

\* Mutant: the token is credited to the id generated for the call.
MarkGenerated(c) ==
  /\ pc[c] = "mark"
  /\ usedBy' \in {usedBy, [usedBy EXCEPT ![tok[c]] = c]}
  /\ Goto(c, "record")
  /\ UNCHANGED <<issued, used, revoked, expired, tok, machine, hid, row, identities, moved>>

\* SET used_by_host_id; its failure is logged and ignored.  (The column's foreign
\* key finds the row that Upsert has written: no host is ever deleted.)
Mark(c) ==
  /\ pc[c] = "mark"
  /\ usedBy' \in {usedBy, [usedBy EXCEPT ![tok[c]] = hid[c]]}
  /\ Goto(c, "record")
  /\ UNCHANGED <<issued, used, revoked, expired, tok, machine, hid, row, identities, moved>>

\* Mutant: a failed INSERT of the identity is logged and ignored.
RecordBestEffort(c) ==
  /\ pc[c] = "record"
  /\ identities' \in {identities, identities \cup {c}}
  /\ Goto(c, "done")
  /\ UNCHANGED <<tokenVars, tok, machine, hid, row, moved>>

\* INSERT of the identity, then the response with the certificate.
Record(c) ==
  /\ pc[c] = "record"
  /\ identities' = identities \cup {c}
  /\ Goto(c, "done") \/ Goto(c, "refused")
  /\ UNCHANGED <<tokenVars, tok, machine, hid, row, moved>>

\* An error answer with nothing written by the failing step: no such token,
\* CSR rejected, unique violation, database error.
Refuse(c) ==
  /\ pc[c] \in {"claim", "sign", "upsert", "record"}
  /\ Goto(c, "refused")
  /\ UNCHANGED <<tokenVars, tok, machine, hid, row, identities, moved>>

\* The server dies in the middle of its calls; rows stay.
Crash ==
  /\ \E c \in Calls : pc[c] \notin {"idle", "done", "refused", "crashed"}
  /\ pc' = [c \in Calls |-> IF pc[c] \in {"idle", "done", "refused"} THEN pc[c] ELSE "crashed"]
  /\ UNCHANGED <<tokenVars, tok, machine, hid, row, identities, moved>>

-----------------------------------------------------------------------------
Enroll(c) ==
  \/ \E m \in Machines \cup {NoMachine} :
       (\E t \in Tokens : Begin(c, t, m)) \/ (\E k \in Calls : BeginRenewal(c, k, m))
  \/ Claim(c) \/ Resolve(c) \/ Sign(c) \/ Upsert(c) \/ Mark(c) \/ Record(c) \/ Refuse(c)

Next ==
  \/ \E t \in Tokens : IssueToken(t) \/ Revoke(t) \/ Expire(t)
  \/ \E c \in Calls : Enroll(c)
  \/ Crash

Spec == Init /\ [][Next]_vars

-----------------------------------------------------------------------------
(***************************************************************************)
(* Properties.                                                             *)
(***************************************************************************)
PastClaim(c) ==
  tok[c] # None /\ pc[c] \in {"resolve", "sign", "upsert", "mark", "record", "done"}

\* A token lets one call through, however many present it at the same time and
\* whatever became of the one that claimed it.
SingleUse ==
  \A c, d \in Calls : PastClaim(c) /\ PastClaim(d) /\ tok[c] = tok[d] => c = d

\* Every certificate an agent holds is on record: its host has a row, its
\* identity has a row, and a token that paid for it is used.
CertificateBacked ==
  \A c \in Calls :
    pc[c] = "done" =>
      /\ row[hid[c]] # Absent /\ c \in identities
      /\ tok[c] # None => tok[c] \in used

\* used_by_host_id, when set, names the host that the one call that claimed the
\* token enrolled, and that host exists.
TokenTraceable ==
  \A t \in Tokens :
    usedBy[t] # None =>
      /\ t \in used /\ row[usedBy[t]] # Absent
      /\ \E c \in Calls : tok[c] = t /\ hid[c] = usedBy[t]

\* Two machines never share a host row's machine_id, and two enrollments of one
\* machine end with the same host_id - even concurrent ones, of which the unique
\* index refuses all but one - as long as no renewal changed the machine_id of
\* the hosts concerned.
StableHostID ==
  \A c, d \in Calls :
    /\ pc[c] = "done" /\ pc[d] = "done"
    /\ machine[c] \in Machines /\ machine[c] = machine[d]
    /\ hid[c] \notin moved /\ hid[d] \notin moved
    => hid[c] = hid[d]

\* The life of a token as the WHERE clause of Claim sees it.
Lives == [t \in Tokens |-> CASE t \notin issued -> "none"
                             [] t \in used -> "spent"
                             [] t \in (issued \cap (revoked \cup expired)) \ used -> "void"
                             [] OTHER -> "good"]

\* However calls race for a token, fail after its claim or die, what they do to
\* enrollment_tokens is a life that TokenLife allows, as it is for the operator's
\* commands and lists in TokenTable: the two models agree on the table they share.
Life == INSTANCE TokenLife WITH life <- Lives
LifeKept == Life!Spec
=============================================================================
