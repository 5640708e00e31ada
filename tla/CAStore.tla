------------------------------- MODULE CAStore --------------------------------
(***************************************************************************)
(* The certificate authority (internal/ca/ca.go): root and server key      *)
(* pairs in four files of data_dir/ca, generated on the first start and    *)
(* loaded on every later one, and the client certificates it signs.        *)
(*                                                                         *)
(* Generating draws new keys: a generation is numbered by the start that   *)
(* drew it.  A file holds a generation, or is truncated: the process may   *)
(* die between two writes and inside one.                                  *)
(***************************************************************************)
EXTENDS Naturals

CONSTANTS Agents,
          MaxStarts   \* bound: starts of the server

ASSUME StartsAssumption == MaxStarts \in Nat

Files == {"root.key", "root.crt", "server.key", "server.crt"}

\* The order in which generate writes them.
Order == <<"root.key", "root.crt", "server.key", "server.crt">>

Missing == 0
Truncated == MaxStarts + 1
Generations == 1 .. MaxStarts

VARIABLES
  disk,     \* content of the files
  starts,   \* starts so far; the generation a start draws
  pc,       \* "down", "start", "writing", "serving", "failed"
  next,     \* index in Order of the file being written
  open,     \* the file was opened for writing: it exists and is empty
  key,      \* CA.rootKey of the running process: its generation
  cert,     \* CA.rootCert
  srv,      \* CA.serverTLS, signed by the root of that generation
  bundle,   \* the root an agent was given when it enrolled, Missing before
  client    \* the root that signed the agent's certificate

vars == <<disk, starts, pc, next, open, key, cert, srv, bundle, client>>
mem == <<key, cert, srv>>
agents == <<bundle, client>>

TypeOK ==
  /\ disk \in [Files -> {Missing, Truncated} \cup Generations]
  /\ starts \in 0 .. MaxStarts
  /\ pc \in {"down", "start", "writing", "serving", "failed"}
  /\ next \in 1 .. 5 /\ open \in BOOLEAN
  /\ {key, cert, srv} \subseteq {Missing} \cup Generations
  /\ bundle \in [Agents -> {Missing} \cup Generations]
  /\ client \in [Agents -> {Missing} \cup Generations]

Init ==
  /\ disk = [f \in Files |-> Missing]
  /\ starts = 0 /\ pc = "down" /\ next = 1 /\ open = FALSE
  /\ key = Missing /\ cert = Missing /\ srv = Missing
  /\ bundle = [a \in Agents |-> Missing] /\ client = [a \in Agents |-> Missing]

-----------------------------------------------------------------------------
Start ==
  /\ pc \in {"down", "failed"} /\ starts < MaxStarts
  /\ starts' = starts + 1
  /\ pc' = "start"
  /\ UNCHANGED <<disk, next, open, mem, agents>>

\* Mutant: New generates on every start.
GenerateAlways ==
  /\ pc = "start"
  /\ pc' = "writing" /\ next' = 1 /\ open' = FALSE
  /\ key' = starts /\ cert' = starts /\ srv' = starts
  /\ UNCHANGED <<disk, starts, agents>>

\* New: no root.key, so generate draws a root and a server pair ...
Generate ==
  /\ pc = "start" /\ disk["root.key"] = Missing
  /\ pc' = "writing" /\ next' = 1 /\ open' = FALSE
  /\ key' = starts /\ cert' = starts /\ srv' = starts
  /\ UNCHANGED <<disk, starts, agents>>

\* ... and writes the files one after the other: os.WriteFile opens or creates
\* the file empty, then fills it.
OpenFile ==
  /\ pc = "writing" /\ next <= 4 /\ ~open
  /\ disk' = [disk EXCEPT ![Order[next]] = Truncated]
  /\ open' = TRUE
  /\ UNCHANGED <<starts, pc, next, mem, agents>>

FillFile ==
  /\ pc = "writing" /\ open
  /\ disk' = [disk EXCEPT ![Order[next]] = key]
  /\ open' = FALSE /\ next' = next + 1
  /\ UNCHANGED <<starts, pc, mem, agents>>

Generated ==
  /\ pc = "writing" /\ next = 5
  /\ pc' = "serving"
  /\ UNCHANGED <<disk, starts, next, open, mem, agents>>

\* What load can parse and pair: every file whole, and the server's certificate
\* and key belonging together.  The root's are not compared.
Loadable ==
  /\ \A f \in Files : disk[f] \in Generations
  /\ disk["server.crt"] = disk["server.key"]

\* Mutant: an unreadable root certificate is replaced by a new self-signed one.
LoadRepairing ==
  /\ pc = "start" /\ disk["root.key"] # Missing
  /\ IF disk["root.key"] \in Generations
       THEN /\ pc' = "serving"
            /\ key' = disk["root.key"]
            /\ cert' = IF disk["root.crt"] \in Generations THEN disk["root.crt"] ELSE starts
            /\ srv' = IF disk["server.crt"] \in Generations THEN disk["server.crt"] ELSE starts
       ELSE pc' = "failed" /\ UNCHANGED mem
  /\ UNCHANGED <<disk, starts, next, open, agents>>

\* New: root.key is there, so load, or fail and exit.
Load ==
  /\ pc = "start" /\ disk["root.key"] # Missing
  /\ IF Loadable
       THEN /\ pc' = "serving"
            /\ key' = disk["root.key"] /\ cert' = disk["root.crt"] /\ srv' = disk["server.crt"]
       ELSE pc' = "failed" /\ UNCHANGED mem
  /\ UNCHANGED <<disk, starts, next, open, agents>>

\* IssueClient signs with the root key; Enroll returns it with RootBundlePEM.
IssueClient(a) ==
  /\ pc = "serving"
  /\ client' = [client EXCEPT ![a] = key]
  /\ bundle' = [bundle EXCEPT ![a] = cert]
  /\ UNCHANGED <<disk, starts, pc, next, open, mem>>

\* The server stops or dies, or a write fails and generate gives up: its memory
\* is gone.
Stop ==
  /\ pc \in {"start", "writing", "serving"}
  /\ pc' = "down" /\ open' = FALSE
  /\ key' = Missing /\ cert' = Missing /\ srv' = Missing
  /\ UNCHANGED <<disk, starts, next, agents>>

Next ==
  \/ Start \/ Generate \/ OpenFile \/ FillFile \/ Generated \/ Load \/ Stop
  \/ \E a \in Agents : IssueClient(a)

Spec == Init /\ [][Next]_vars

-----------------------------------------------------------------------------
(***************************************************************************)
(* Properties.                                                             *)
(***************************************************************************)

\* An agent that enrolled once is at home with every later process, however
\* often the server died and whenever: its bundle verifies the certificate the
\* server shows, and its own verifies against the server's root.
TrustSurvives ==
  \A a \in Agents :
    pc = "serving" /\ bundle[a] # Missing => bundle[a] = srv /\ client[a] = cert

\* A process that serves signs with the key of the root certificate it hands
\* out, although load compares the two with nothing.
RootPairMatches == pc = "serving" => key = cert /\ srv = cert

\* The root that is chosen: by the root key on disk, as soon as it is whole.
Chosen == IF disk["root.key"] \in Generations THEN disk["root.key"] ELSE Missing

InUse == IF pc = "serving" THEN {key, cert, srv} ELSE {}

\* Four files, written one by one by processes that may die anywhere, are as good as
\* one root that is chosen once: no start draws another, none serves with a mixture
\* of two, and no agent gets anything before the root can be read again.
Trust == INSTANCE TrustRoot
           WITH root <- Chosen, serves <- InUse,
                given <- [a \in Agents |-> {bundle[a], client[a]} \ {Missing}],
                Roots <- Generations, None <- Missing
TrustKept == Trust!Spec

\* "New loads existing CA material from dataDir/ca/ or generates fresh material"
\* (ca.go): a start finds one or makes the other.  After a crash while the files
\* were written it does neither, and fails on every start from then on.
StartSucceeds == pc # "failed"
=============================================================================
