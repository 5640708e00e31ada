---------------------------- MODULE CAStore_proofs ----------------------------
(***************************************************************************)
(* Proofs about the certificate authority, for any agents and any number   *)
(* of starts.                                                              *)
(*                                                                         *)
(* Neither RootPairMatches nor TrustSurvives is inductive: what load reads *)
(* depends on what was written by processes that died.  The invariant that *)
(* carries over is that at most one generation is ever on disk - root.key  *)
(* is the first file to exist, and nothing is generated once it does - and *)
(* that agents only ever got material of that generation.                  *)
(***************************************************************************)
EXTENDS CAStore, TLAPS

Whole(f) == disk[f] \in Generations

\* All whole files hold one generation, and root.key was created first.
OneGeneration ==
  /\ \A f, g \in Files : Whole(f) /\ Whole(g) => disk[f] = disk[g]
  /\ disk["root.key"] = Missing => \A f \in Files : disk[f] = Missing

\* What a process holds while it writes or serves is of the generation on disk.
MemoryMatches ==
  /\ pc = "start" => starts \in Generations
  /\ pc \in {"writing", "serving"} =>
       /\ key \in Generations /\ cert = key /\ srv = key
       /\ \A f \in Files : Whole(f) => disk[f] = key
  /\ pc = "writing" /\ (open \/ next > 1) => disk["root.key"] # Missing
  /\ open => pc = "writing" /\ next <= 4
  /\ pc = "serving" => disk["root.key"] # Missing

\* Agents hold the generation on disk; nobody has anything before a process serves.
AgentsMatch ==
  \A a \in Agents :
    bundle[a] # Missing =>
      /\ pc # "writing" /\ disk["root.key"] # Missing
      /\ client[a] = bundle[a] /\ bundle[a] \in Generations
      /\ \A f \in Files : Whole(f) => disk[f] = bundle[a]
      /\ pc = "serving" => bundle[a] = key

IInv == TypeOK /\ OneGeneration /\ MemoryMatches /\ AgentsMatch

LEMMA FilesAre == /\ "root.key" \in Files /\ Order[1] = "root.key"
                  /\ \A n \in 1 .. 4 : Order[n] \in Files /\ (n > 1 => Order[n] # "root.key")
<1>1. \A n \in 1 .. 4 : n = 1 \/ n = 2 \/ n = 3 \/ n = 4
  OBVIOUS
<1>2. QED BY <1>1 DEF Files, Order

LEMMA Markers == /\ Missing \notin Generations /\ Truncated \notin Generations
                 /\ Missing # Truncated /\ Generations \subseteq Nat
  BY StartsAssumption DEF Missing, Truncated, Generations

LEMMA Initially == Init => IInv
<1> SUFFICES ASSUME Init PROVE IInv
  OBVIOUS
<1> USE Markers, FilesAre, StartsAssumption DEF Init
<1>1. TypeOK
  <2>1. 0 \in 0 .. MaxStarts /\ 1 \in 1 .. 5
    OBVIOUS
  <2>2. QED BY <2>1 DEF TypeOK
<1>2. OneGeneration
  BY DEF OneGeneration, Whole
<1>3. MemoryMatches
  BY DEF MemoryMatches
<1>4. AgentsMatch
  BY DEF AgentsMatch
<1>5. QED BY <1>1, <1>2, <1>3, <1>4 DEF IInv

LEMMA Inductive == IInv /\ [Next]_vars => IInv'
<1> SUFFICES ASSUME IInv, [Next]_vars PROVE IInv'
  OBVIOUS
<1> USE Markers, FilesAre, StartsAssumption
<1>1. CASE Start
  <2>1. TypeOK'
    BY <1>1 DEF IInv, Start, TypeOK, mem, agents
  <2>2. starts' \in Generations
    BY <1>1 DEF IInv, Start, TypeOK, Generations
  <2>3. QED
    BY <1>1, <2>1, <2>2 DEF IInv, Start, OneGeneration, MemoryMatches, AgentsMatch, Whole, mem, agents
<1>2. CASE Generate
  <2>1. TypeOK'
    <3>1. starts \in Generations /\ 1 \in 1 .. 5
      BY <1>2 DEF IInv, Generate, MemoryMatches
    <3>2. {key', cert', srv'} \subseteq {Missing} \cup Generations
      BY <1>2, <3>1 DEF Generate
    <3>3. QED BY <1>2, <3>1, <3>2 DEF IInv, Generate, TypeOK, agents
  <2>2. OneGeneration' /\ MemoryMatches'
    BY <1>2 DEF IInv, Generate, OneGeneration, MemoryMatches, Whole, agents
  <2>3. AgentsMatch'
    BY <1>2 DEF IInv, Generate, AgentsMatch, agents
  <2>4. QED BY <2>1, <2>2, <2>3 DEF IInv
<1>3. CASE OpenFile
  <2> DEFINE f0 == Order[next]
  <2>1. f0 \in Files /\ next \in 1 .. 4 /\ (next = 1 => f0 = "root.key") /\ (next > 1 => f0 # "root.key")
    BY <1>3 DEF OpenFile, IInv, TypeOK
  <2>2. disk' = [disk EXCEPT ![f0] = Truncated] /\ disk \in [Files -> {Missing, Truncated} \cup Generations]
    BY <1>3 DEF OpenFile, IInv, TypeOK
  <2> HIDE DEF f0
  <2>3. \A f \in Files : disk'[f] = IF f = f0 THEN Truncated ELSE disk[f]
    BY <2>1, <2>2
  <2>4. disk'["root.key"] # Missing
    BY <1>3, <2>1, <2>3 DEF OpenFile, IInv, MemoryMatches
  <2>5. TypeOK'
    BY <1>3, <2>1, <2>2 DEF OpenFile, IInv, TypeOK, mem, agents
  <2>6. OneGeneration'
    BY <2>3, <2>4 DEF IInv, OneGeneration, Whole
  <2>7. MemoryMatches'
    BY <1>3, <2>1, <2>3, <2>4 DEF OpenFile, IInv, MemoryMatches, Whole, mem, agents
  <2>8. AgentsMatch'
    BY <1>3 DEF OpenFile, IInv, AgentsMatch, agents
  <2>9. QED BY <2>5, <2>6, <2>7, <2>8 DEF IInv
<1>4. CASE FillFile
  <2> DEFINE f0 == Order[next]
  <2>1. f0 \in Files /\ next \in 1 .. 4 /\ key \in Generations
    BY <1>4 DEF FillFile, IInv, TypeOK, MemoryMatches
  <2>2. disk' = [disk EXCEPT ![f0] = key] /\ disk \in [Files -> {Missing, Truncated} \cup Generations]
    BY <1>4 DEF FillFile, IInv, TypeOK
  <2> HIDE DEF f0
  <2>3. \A f \in Files : disk'[f] = IF f = f0 THEN key ELSE disk[f]
    BY <2>1, <2>2
  <2>4. disk'["root.key"] # Missing
    BY <1>4, <2>1, <2>3 DEF FillFile, IInv, MemoryMatches
  <2>5. TypeOK'
    <3>1. next' \in 1 .. 5
      BY <1>4, <2>1 DEF FillFile
    <3>2. disk' \in [Files -> {Missing, Truncated} \cup Generations]
      BY <2>1, <2>2
    <3>3. QED BY <1>4, <3>1, <3>2 DEF FillFile, IInv, TypeOK, mem, agents
  <2>6. OneGeneration'
    BY <1>4, <2>3, <2>4 DEF FillFile, IInv, OneGeneration, MemoryMatches, Whole
  <2>7. MemoryMatches'
    BY <1>4, <2>3, <2>4 DEF FillFile, IInv, MemoryMatches, Whole, mem, agents
  <2>8. AgentsMatch'
    BY <1>4 DEF FillFile, IInv, AgentsMatch, agents
  <2>9. QED BY <2>5, <2>6, <2>7, <2>8 DEF IInv
<1>5. CASE Generated
  <2>1. TypeOK' /\ OneGeneration'
    BY <1>5 DEF Generated, IInv, TypeOK, OneGeneration, Whole, mem, agents
  <2>2. MemoryMatches'
    BY <1>5 DEF Generated, IInv, TypeOK, MemoryMatches, Whole, mem, agents
  <2>3. AgentsMatch'
    BY <1>5 DEF Generated, IInv, AgentsMatch, agents
  <2>4. QED BY <2>1, <2>2, <2>3 DEF IInv
<1>6. CASE Load
  <2>1. CASE Loadable
    <3>1. \A f \in Files : Whole(f) /\ disk[f] = disk["root.key"]
      BY <2>1 DEF Loadable, IInv, OneGeneration, Whole
    <3>2. key' \in Generations /\ cert' = key' /\ srv' = key' /\ key' = disk["root.key"]
      BY <1>6, <2>1, <3>1 DEF Load, Whole, Files
    <3>3. TypeOK' /\ OneGeneration'
      BY <1>6, <2>1, <3>2 DEF Load, IInv, TypeOK, OneGeneration, Whole, agents
    <3>4. MemoryMatches'
      BY <1>6, <2>1, <3>1, <3>2 DEF Load, IInv, MemoryMatches, Whole
    <3>5. AgentsMatch'
      BY <1>6, <2>1, <3>1, <3>2 DEF Load, IInv, AgentsMatch, Whole, agents
    <3>6. QED BY <3>3, <3>4, <3>5 DEF IInv
  <2>2. CASE ~Loadable
    <3>1. TypeOK' /\ OneGeneration'
      BY <1>6, <2>2 DEF Load, IInv, TypeOK, OneGeneration, Whole, mem, agents
    <3>2. MemoryMatches' /\ AgentsMatch'
      BY <1>6, <2>2 DEF Load, IInv, MemoryMatches, AgentsMatch, Whole, mem, agents
    <3>3. QED BY <3>1, <3>2 DEF IInv
  <2>3. QED BY <2>1, <2>2
<1>7. ASSUME NEW a \in Agents, IssueClient(a) PROVE IInv'
  <2>1. TypeOK'
    BY <1>7 DEF IssueClient, IInv, TypeOK, MemoryMatches, mem
  <2>2. OneGeneration' /\ MemoryMatches'
    BY <1>7 DEF IssueClient, IInv, OneGeneration, MemoryMatches, Whole, mem
  <2>3. ASSUME NEW b \in Agents
        PROVE  /\ bundle'[b] = IF b = a THEN cert ELSE bundle[b]
               /\ client'[b] = IF b = a THEN key ELSE client[b]
    BY <1>7 DEF IssueClient, IInv, TypeOK
  <2>4. AgentsMatch'
    BY <1>7, <2>3 DEF IssueClient, IInv, MemoryMatches, AgentsMatch, Whole, mem
  <2>5. QED BY <2>1, <2>2, <2>4 DEF IInv
<1>8. CASE Stop
  <2>1. TypeOK' /\ OneGeneration'
    BY <1>8 DEF Stop, IInv, TypeOK, OneGeneration, Whole, agents
  <2>2. MemoryMatches' /\ AgentsMatch'
    BY <1>8 DEF Stop, IInv, MemoryMatches, AgentsMatch, Whole, agents
  <2>3. QED BY <2>1, <2>2 DEF IInv
<1>9. CASE UNCHANGED vars
  BY <1>9 DEF vars, mem, agents, IInv, TypeOK, OneGeneration, MemoryMatches, AgentsMatch, Whole
<1>10. QED
  BY <1>1, <1>2, <1>3, <1>4, <1>5, <1>6, <1>7, <1>8, <1>9 DEF Next

LEMMA Invariance == Spec => []IInv
  BY Initially, Inductive, PTL DEF Spec

-----------------------------------------------------------------------------
(***************************************************************************)
(* The theorems.                                                           *)
(***************************************************************************)

\* Files, memory and agents hold what they can hold: no process serves with a
\* file that New did not read to its end.
THEOREM CATypeCorrect == Spec => []TypeOK
<1>1. IInv => TypeOK
  BY DEF IInv
<1>2. QED BY <1>1, Invariance, PTL

\* A serving process signs with the key of the root certificate it hands out,
\* and shows a server certificate of that root, although load compares neither.
THEOREM RootAlwaysMatches == Spec => []RootPairMatches
<1>1. IInv => RootPairMatches
  BY DEF IInv, MemoryMatches, RootPairMatches
<1>2. QED BY <1>1, Invariance, PTL

\* What an agent was given when it enrolled verifies with every later process,
\* wherever the server died while New wrote the files.
THEOREM TrustAlwaysSurvives == Spec => []TrustSurvives
<1>1. IInv => TrustSurvives
  BY DEF IInv, MemoryMatches, AgentsMatch, TrustSurvives
<1>2. QED BY <1>1, Invariance, PTL

-----------------------------------------------------------------------------
(***************************************************************************)
(* The four files are as good as one root, chosen once.                    *)
(***************************************************************************)

\* How far root.key is when the process is at a file: it is chosen by the write
\* that fills it, and whoever serves can read it.
RootWritten ==
  /\ pc = "writing" /\ next = 1 => disk["root.key"] = IF open THEN Truncated ELSE Missing
  /\ pc = "writing" /\ next > 1 => Whole("root.key")
  /\ pc = "serving" => Whole("root.key")

LEMMA RootStep == IInv /\ RootWritten /\ [Next]_vars => RootWritten'
<1> SUFFICES ASSUME IInv, RootWritten, [Next]_vars PROVE RootWritten'
  OBVIOUS
<1> USE Markers, FilesAre
<1>1. CASE Start \/ Stop \/ Generated \/ Generate \/ UNCHANGED vars
  BY <1>1 DEF Start, Stop, Generated, Generate, vars, RootWritten, Whole
<1>2. ASSUME NEW f \in Files, NEW x, disk' = [disk EXCEPT ![f] = x]
      PROVE  disk'["root.key"] = IF f = "root.key" THEN x ELSE disk["root.key"]
  BY <1>2 DEF IInv, TypeOK
<1>3. CASE OpenFile
  <2>1. Order[next] \in Files /\ next \in 1 .. 4 /\ (next > 1 => Order[next] # "root.key")
    BY <1>3 DEF OpenFile, IInv, TypeOK
  <2>2. disk'["root.key"] = IF Order[next] = "root.key" THEN Truncated ELSE disk["root.key"]
    BY <1>2, <1>3, <2>1 DEF OpenFile
  <2>3. QED
    BY <1>3, <2>1, <2>2 DEF OpenFile, RootWritten, Whole
<1>4. CASE FillFile
  <2>1. /\ Order[next] \in Files /\ next \in 1 .. 4 /\ key \in Generations
        /\ next > 1 => Order[next] # "root.key"
    BY <1>4 DEF FillFile, IInv, TypeOK, MemoryMatches
  <2>2. disk'["root.key"] = IF Order[next] = "root.key" THEN key ELSE disk["root.key"]
    BY <1>2, <1>4, <2>1 DEF FillFile
  <2>3. next' > 1 /\ Whole("root.key")'
    BY <1>4, <2>1, <2>2 DEF FillFile, RootWritten, Whole
  <2>4. QED
    BY <1>4, <2>3 DEF FillFile, RootWritten
<1>5. CASE Load
  BY <1>5 DEF Load, Loadable, RootWritten, Whole
<1>6. CASE \E a \in Agents : IssueClient(a)
  BY <1>6 DEF IssueClient, RootWritten, Whole
<1>7. QED
  BY <1>1, <1>3, <1>4, <1>5, <1>6 DEF Next

LEMMA RootIsWritten == Spec => []RootWritten
<1>1. Init => RootWritten
  BY DEF Init, RootWritten
<1>2. QED
  BY <1>1, RootStep, Invariance, PTL DEF Spec

\* What an agent holds is of one root, and of that in use.
Given == [a \in Agents |-> {bundle[a], client[a]} \ {Missing}]

LEMMA TrustStep ==
  ASSUME IInv, RootWritten, IInv', RootWritten', [Next]_vars
  PROVE  [Trust!Next]_(Trust!vars)
<1> USE Markers, FilesAre
<1>1. CASE Start \/ Generate \/ UNCHANGED vars
  BY <1>1 DEF Start, Generate, vars, Chosen, InUse, agents, Trust!vars
<1>2. CASE Stop
  <2>1. UNCHANGED <<disk, bundle, client>> /\ InUse' = {}
    BY <1>2 DEF Stop, agents, InUse
  <2>2. Trust!End
    BY <2>1 DEF Trust!End, Chosen
  <2>3. QED BY <2>2 DEF Trust!Next
<1>3. CASE (Load /\ Loadable) \/ Generated
  <2>1. UNCHANGED <<disk, bundle, client>> /\ pc' = "serving"
    BY <1>3 DEF Load, Generated, agents
  <2>2. InUse' = {Chosen'} /\ Chosen' # Missing
    <3>1. /\ disk'["root.key"] \in Generations /\ disk'["root.key"] = key'
          /\ cert' = key' /\ srv' = key'
      BY <2>1 DEF RootWritten, IInv, MemoryMatches, Whole
    <3>2. QED BY <2>1, <3>1 DEF InUse, Chosen
  <2>3. Chosen' = Chosen
    BY <2>1 DEF Chosen
  <2>4. Trust!Serve
    BY <2>1, <2>2, <2>3 DEF Trust!Serve
  <2>5. QED BY <2>4 DEF Trust!Next
<1>4. CASE Load /\ ~Loadable
  BY <1>4 DEF Load, mem, agents, Chosen, InUse, Trust!vars
<1>5. CASE OpenFile
  <2>1. Chosen' = Chosen
    <3>1. /\ Order[next] \in Files /\ next \in 1 .. 4
          /\ next = 1 <=> Order[next] = "root.key"
      BY <1>5 DEF OpenFile, IInv, TypeOK
    <3>2. disk'["root.key"] = IF next = 1 THEN Truncated ELSE disk["root.key"]
      BY <1>5, <3>1 DEF OpenFile, IInv, TypeOK
    <3>3. next = 1 => disk["root.key"] = Missing
      BY <1>5 DEF OpenFile, RootWritten
    <3>4. QED BY <3>2, <3>3 DEF Chosen
  <2>2. QED
    BY <1>5, <2>1 DEF OpenFile, InUse, agents, Trust!vars
<1>6. CASE FillFile
  <2>1. InUse' = InUse /\ UNCHANGED <<bundle, client>>
    BY <1>6 DEF FillFile, InUse, agents
  <2>2. /\ Order[next] \in Files /\ next \in 1 .. 4 /\ key \in Generations
        /\ next > 1 => Order[next] # "root.key"
    BY <1>6 DEF FillFile, IInv, TypeOK, MemoryMatches
  <2>3. disk'["root.key"] = IF next = 1 THEN key ELSE disk["root.key"]
    BY <1>6, <2>2 DEF FillFile, IInv, TypeOK
  <2>4. CASE next = 1
    <3>1. Chosen = Missing /\ Chosen' \in Generations
      BY <1>6, <2>2, <2>3, <2>4 DEF FillFile, RootWritten, Chosen
    <3>2. Trust!Choose
      BY <2>1, <3>1 DEF Trust!Choose
    <3>3. QED BY <3>2 DEF Trust!Next
  <2>5. CASE next # 1
    BY <2>1, <2>3, <2>5 DEF Chosen, Trust!vars
  <2>6. QED BY <2>4, <2>5
<1>7. ASSUME NEW a \in Agents, IssueClient(a) PROVE Trust!Next
  <2>1. /\ pc = "serving" /\ InUse = {key} /\ key # Missing /\ cert = key
        /\ InUse' = InUse /\ Chosen' = Chosen
    BY <1>7 DEF IssueClient, InUse, Chosen, mem, IInv, MemoryMatches
  <2>2. \A b \in Agents : /\ bundle'[b] = IF b = a THEN key ELSE bundle[b]
                          /\ client'[b] = IF b = a THEN key ELSE client[b]
    BY <1>7, <2>1 DEF IssueClient, IInv, TypeOK
  <2>3. Given' = [Given EXCEPT ![a] = InUse]
    <3>1. \A b \in Agents : {bundle'[b], client'[b]} \ {Missing}
            = IF b = a THEN {key} ELSE {bundle[b], client[b]} \ {Missing}
      BY <2>1, <2>2
    <3>2. QED BY <2>1, <3>1 DEF Given
  <2>4. Trust!Give(a)
    BY <2>1, <2>3 DEF Trust!Give, Given
  <2>5. QED BY <2>4 DEF Trust!Next
<1>8. QED
  BY <1>1, <1>2, <1>3, <1>4, <1>5, <1>6, <1>7 DEF Next

\* The authority implements TrustRoot: a root is chosen when root.key is whole,
\* before anybody is served, and from then on keys, certificates and bundles of
\* every process are of that root, wherever the server died before.
THEOREM CAImplementsTrustRoot == Spec => TrustKept
<1>1. Init => Trust!Init
  BY Markers, FilesAre DEF Init, Trust!Init, Chosen, InUse
<1>2. QED
  BY <1>1, TrustStep, Invariance, RootIsWritten, PTL DEF Spec, TrustKept, Trust!Spec
=============================================================================
