----------------------------- MODULE RateLimiter ------------------------------
(***************************************************************************)
(* The rate limiter of the command broker (internal/command/ratelimit.go): *)
(* one bucket per host, a counter that is valid until its reset time, both *)
(* read and written under the mutex.  Time is discrete and relative: kept  *)
(* is how far away the reset of a bucket is, and how many commands of the  *)
(* last window were admitted how long ago.  One server process is          *)
(* modelled; the buckets are gone when it restarts.                        *)
(***************************************************************************)
EXTENDS Integers

CONSTANTS HostIDs,  \* host_ids that commands name, whether or not such a host exists
          Max,      \* maxCommandsPerWindow
          Window    \* windowDuration

ASSUME LimiterAssumption == Max \in Nat \ {0} /\ Window \in Nat \ {0}

VARIABLES
  count,    \* hostBucket.count, 0 when the host has no bucket
  left,     \* hostBucket.reset - now, -1 when that is past
  passed,   \* passed[h][a]: commands of h admitted at most a units ago (history)
  verdict   \* the last answer for a host at this instant

limiterVars == <<count, left, passed, verdict>>

Ages == 0 .. Window

LimiterTypeOK ==
  /\ count \in [HostIDs -> Nat]
  /\ left \in [HostIDs -> -1 .. Window]
  /\ passed \in [HostIDs -> [Ages -> Nat]]
  /\ verdict \in [HostIDs -> {"none", "ok", "refused"}]

LimiterInit ==
  /\ count = [h \in HostIDs |-> 0]
  /\ left = [h \in HostIDs |-> -1]
  /\ passed = [h \in HostIDs |-> [a \in Ages |-> 0]]
  /\ verdict = [h \in HostIDs |-> "none"]

-----------------------------------------------------------------------------
\* now.After(b.reset): a bucket still counts at the very instant of its reset.
Over(h) == left[h] < 0

Admit(h) ==
  /\ passed' = [passed EXCEPT ![h] = [a \in Ages |-> @[a] + 1]]
  /\ verdict' = [verdict EXCEPT ![h] = "ok"]

Renew(h) ==
  /\ count' = [count EXCEPT ![h] = 1]
  /\ left' = [left EXCEPT ![h] = Window]
  /\ Admit(h)

Refuse(h) ==
  /\ verdict' = [verdict EXCEPT ![h] = "refused"]
  /\ UNCHANGED <<count, left, passed>>

\* Mutant: every admitted command pushes the reset away.
AllowSliding(h) ==
  \/ Over(h) /\ Renew(h)
  \/ ~Over(h) /\ count[h] >= Max /\ Refuse(h)
  \/ ~Over(h) /\ count[h] < Max /\ Admit(h)
     /\ count' = [count EXCEPT ![h] = @ + 1] /\ left' = [left EXCEPT ![h] = Window]

\* Mutant: a bucket at its limit is renewed at once.
AllowEarly(h) ==
  \/ (Over(h) \/ count[h] = Max) /\ Renew(h)
  \/ ~Over(h) /\ count[h] < Max /\ Admit(h) /\ UNCHANGED left
     /\ count' = [count EXCEPT ![h] = @ + 1]

\* RateLimiter.Allow.
Allow(h) ==
  \/ Over(h) /\ Renew(h)
  \/ ~Over(h) /\ count[h] >= Max /\ Refuse(h)
  \/ ~Over(h) /\ count[h] < Max /\ Admit(h) /\ UNCHANGED left
     /\ count' = [count EXCEPT ![h] = @ + 1]

Tick ==
  /\ left' = [h \in HostIDs |-> IF Over(h) THEN -1 ELSE left[h] - 1]
  /\ passed' = [h \in HostIDs |-> [a \in Ages |-> IF a = 0 THEN 0 ELSE passed[h][a - 1]]]
  /\ verdict' = [h \in HostIDs |-> "none"]
  /\ UNCHANGED count

LimiterNext == Tick \/ \E h \in HostIDs : Allow(h)

LimiterSpec == LimiterInit /\ [][LimiterNext]_limiterVars

-----------------------------------------------------------------------------
(***************************************************************************)
(* Properties.                                                             *)
(***************************************************************************)
\* Any stretch of time as long as the window, wherever it starts, sees at most
\* twice the limit pass, although the window that is counted in is not the one
\* that is looked at.
TwiceTheLimit == \A h \in HostIDs : passed[h][Window] <= 2 * Max

\* A command is refused only if the limit was really used up by commands of
\* that very host during the last window: neither another host's commands nor
\* an old bucket nor repeated refusals ever shut a host out.
RefusalJustified ==
  \A h \in HostIDs : verdict[h] = "refused" => passed[h][Window] >= Max
=============================================================================
