----------------------- MODULE BuddyBootstrapProofs -----------------------
(***************************************************************************)
(* For any number of commands, kills, removals of the lock and failing     *)
(* steps: only verified binaries run, and the lock is truthful.            *)
(***************************************************************************)
EXTENDS BuddyBootstrap, TLAPS

Steps == {"looking", "hashing", "removing", "looking again", "fetching", "verifying", "renaming",
          "chmod", "discarding", "ready", "running", "releasing", "failing"}

\* A command that is past its check of the cached file.
Checked(c) == at[c] \in {"looking again", "fetching", "verifying", "renaming", "chmod", "ready"}

\* Once a command is past its check, no bad file can appear: what is renamed
\* into place was verified.
CacheInv ==
    /\ \A c \in Commands : at[c] = "renaming" => part[c] = "good"
    /\ \A c \in Commands : Checked(c) => binary.content # "bad"
    /\ \A c \in Commands : at[c] \in {"chmod", "ready"} => binary.content # "empty"

BootstrapInv == BootstrapTypeOK /\ CacheInv /\ OnlyVerifiedRuns /\ LockIsTruthful

USE DEF vars, budgets, Ended, Contents

\* The initial states satisfy the invariant.
LEMMA BootstrapInit == Init => BootstrapInv
<1> SUFFICES ASSUME Init PROVE BootstrapInv
  OBVIOUS
<1>1. BootstrapTypeOK
  BY BoundsAssumption DEF Init, BootstrapTypeOK
<1>2. CacheInv /\ OnlyVerifiedRuns
  BY DEF Init, CacheInv, Checked, OnlyVerifiedRuns
<1>3. LockIsTruthful
  BY NoCommandAssumption DEF Init, LockIsTruthful, Inside
<1> QED BY <1>1, <1>2, <1>3 DEF BootstrapInv

\* What one command does, as far as the invariant is concerned.
CommandStep(c) ==
    \/ Acquire(c) \/ Look(c) \/ onDiskSha(c) \/ RemoveCached(c) \/ LookAgain(c)
    \/ Fetch(c) \/ Verify(c) \/ Rename(c) \/ Chmod(c) \/ Discard(c)
    \/ Spawn(c) \/ ChildExits(c) \/ Release(c)
    \/ Fail(c) \/ BreakOff(c) \/ Kill(c)

USE DEF CommandStep

\* A budget that is not spent may be drawn upon.
LEMMA Draw == ASSUME NEW m \in Nat, NEW n \in 0 .. m, n < m PROVE n + 1 \in 0 .. m
OBVIOUS

\* The types, and the file that is checked, are kept.
LEMMA CommandKeeps ==
    ASSUME BootstrapTypeOK, CacheInv, OnlyVerifiedRuns, NEW c \in Commands, CommandStep(c)
    PROVE  BootstrapTypeOK' /\ CacheInv' /\ OnlyVerifiedRuns'
<1> USE BoundsAssumption DEF BootstrapTypeOK, CacheInv, Checked, OnlyVerifiedRuns, GoTo, hasCachedBinary
<1>1. CASE Acquire(c)
  <2>1. BootstrapTypeOK'
    <3>1. at' \in [Commands -> Ended \cup Steps]
      BY <1>1 DEF Acquire, Steps
    <3>2. ran' \in [Commands -> {"none", "bad", "good"}] /\ part' \in [Commands -> {"none", "bad", "good"}]
      BY <1>1 DEF Acquire
    <3>3. kills' \in 0 .. MaxKills /\ removals' \in 0 .. MaxRemovals /\ faults' \in 0 .. MaxFaults
      BY <1>1 DEF Acquire
    <3>4. \A d \in Commands :
              part'[d] # "none" => at'[d] \in {"verifying", "renaming", "discarding", "killed"}
      BY <1>1 DEF Acquire
    <3>5. lock' \in Commands \cup {NoCommand} /\ binary' \in [content : Contents, x : BOOLEAN]
      BY <1>1 DEF Acquire
    <3> QED BY <3>1, <3>2, <3>3, <3>4, <3>5 DEF Steps
  <2>2. CacheInv'
    <3>1. UNCHANGED <<binary, part>> /\ \E step \in {"looking", "failed"} : at' = [at EXCEPT ![c] = step]
      BY <1>1 DEF Acquire
    <3> QED BY <3>1
  <2>3. OnlyVerifiedRuns'
    BY <1>1 DEF Acquire
  <2> QED BY <2>1, <2>2, <2>3
<1>2. CASE Look(c)
  BY <1>2 DEF Look
<1>3. CASE onDiskSha(c)
  <2>1. BootstrapTypeOK'
    BY <1>3 DEF onDiskSha
  <2>2. CacheInv'
    BY <1>3 DEF onDiskSha
  <2>3. OnlyVerifiedRuns'
    BY <1>3 DEF onDiskSha
  <2> QED BY <2>1, <2>2, <2>3
<1>4. CASE RemoveCached(c)
  <2>1. BootstrapTypeOK'
    BY <1>4 DEF RemoveCached
  <2>2. CacheInv'
    BY <1>4 DEF RemoveCached
  <2>3. OnlyVerifiedRuns'
    BY <1>4 DEF RemoveCached
  <2> QED BY <2>1, <2>2, <2>3
<1>5. CASE LookAgain(c)
  <2>1. BootstrapTypeOK'
    BY <1>5 DEF LookAgain
  <2>2. CacheInv'
    BY <1>5 DEF LookAgain
  <2>3. OnlyVerifiedRuns'
    BY <1>5 DEF LookAgain
  <2> QED BY <2>1, <2>2, <2>3
<1>6. CASE Fetch(c)
  BY <1>6 DEF Fetch
<1>7. CASE Verify(c)
  <2>1. BootstrapTypeOK'
    BY <1>7 DEF Verify
  <2>2. CacheInv'
    BY <1>7 DEF Verify
  <2>3. OnlyVerifiedRuns'
    BY <1>7 DEF Verify
  <2> QED BY <2>1, <2>2, <2>3
<1>8. CASE Rename(c)
  <2>1. BootstrapTypeOK'
    BY <1>8 DEF Rename
  <2>2. CacheInv'
    BY <1>8 DEF Rename
  <2>3. OnlyVerifiedRuns'
    BY <1>8 DEF Rename
  <2> QED BY <2>1, <2>2, <2>3
<1>9. CASE Chmod(c)
  <2>1. UNCHANGED <<lock, part, ran, budgets>>
    BY <1>9 DEF Chmod
  <2>2. \/ at' = [at EXCEPT ![c] = "ready"] /\ binary' = [binary EXCEPT !.x = TRUE]
        \/ at' = [at EXCEPT ![c] = "discarding"] /\ UNCHANGED binary
    BY <1>9 DEF Chmod
  <2>3. at[c] = "chmod" /\ part[c] = "none"
    BY <1>9 DEF Chmod
  <2>4. BootstrapTypeOK'
    BY <2>1, <2>2, <2>3
  <2>5. CacheInv'
    BY <2>1, <2>2, <2>3
  <2> QED BY <2>1, <2>4, <2>5
<1>10. CASE Discard(c)
  <2>1. BootstrapTypeOK'
    BY <1>10 DEF Discard
  <2>2. CacheInv'
    BY <1>10 DEF Discard
  <2>3. OnlyVerifiedRuns'
    BY <1>10 DEF Discard
  <2> QED BY <2>1, <2>2, <2>3
<1>11. CASE Spawn(c)
  <2>1. BootstrapTypeOK'
    <3>1. at' \in [Commands -> Ended \cup Steps]
      BY <1>11 DEF Spawn, Steps
    <3>2. ran' \in [Commands -> {"none", "bad", "good"}] /\ part' \in [Commands -> {"none", "bad", "good"}]
      <4>1. binary.content \in {"none", "good"}
        BY <1>11 DEF Spawn
      <4>2. UNCHANGED part /\ (UNCHANGED ran \/ ran' = [ran EXCEPT ![c] = binary.content])
        BY <1>11 DEF Spawn
      <4>3. ran \in [Commands -> {"none", "bad", "good"}] /\ part \in [Commands -> {"none", "bad", "good"}]
        OBVIOUS
      <4>4. CASE ran' = [ran EXCEPT ![c] = binary.content]
        BY <4>1, <4>2, <4>3, <4>4
      <4> QED BY <4>2, <4>3, <4>4
    <3>3. kills' \in 0 .. MaxKills /\ removals' \in 0 .. MaxRemovals /\ faults' \in 0 .. MaxFaults
      BY <1>11 DEF Spawn
    <3>4. \A d \in Commands :
              part'[d] # "none" => at'[d] \in {"verifying", "renaming", "discarding", "killed"}
      BY <1>11 DEF Spawn
    <3>5. lock' \in Commands \cup {NoCommand} /\ binary' \in [content : Contents, x : BOOLEAN]
      BY <1>11 DEF Spawn
    <3> QED BY <3>1, <3>2, <3>3, <3>4, <3>5 DEF Steps
  <2>2. CacheInv'
    BY <1>11 DEF Spawn
  <2>3. OnlyVerifiedRuns'
    BY <1>11 DEF Spawn
  <2> QED BY <2>1, <2>2, <2>3
<1>12. CASE ChildExits(c)
  BY <1>12 DEF ChildExits
<1>13. CASE Release(c)
  BY <1>13 DEF Release, RemoveLock
<1>14. CASE Fail(c)
  <2>1. BootstrapTypeOK'
    <3>1. at' \in [Commands -> Ended \cup Steps]
      BY <1>14 DEF Fail, Steps
    <3>2. ran' \in [Commands -> {"none", "bad", "good"}] /\ part' \in [Commands -> {"none", "bad", "good"}]
      BY <1>14 DEF Fail
    <3>3. kills' \in 0 .. MaxKills /\ removals' \in 0 .. MaxRemovals /\ faults' \in 0 .. MaxFaults
      <4>1. faults \in 0 .. MaxFaults /\ faults < MaxFaults /\ faults' = faults + 1 /\ UNCHANGED <<kills, removals>>
        BY <1>14 DEF Fail
      <4> QED BY <4>1, Draw
    <3>4. \A d \in Commands :
              part'[d] # "none" => at'[d] \in {"verifying", "renaming", "discarding", "killed"}
      BY <1>14 DEF Fail
    <3>5. lock' \in Commands \cup {NoCommand} /\ binary' \in [content : Contents, x : BOOLEAN]
      BY <1>14 DEF Fail
    <3> QED BY <3>1, <3>2, <3>3, <3>4, <3>5 DEF Steps
  <2>2. CacheInv'
    BY <1>14 DEF Fail
  <2>3. OnlyVerifiedRuns'
    BY <1>14 DEF Fail
  <2> QED BY <2>1, <2>2, <2>3
<1>15. CASE BreakOff(c)
  <2>1. BootstrapTypeOK'
    <3>1. at' \in [Commands -> Ended \cup Steps]
      BY <1>15 DEF BreakOff, Steps
    <3>2. ran' \in [Commands -> {"none", "bad", "good"}] /\ part' \in [Commands -> {"none", "bad", "good"}]
      BY <1>15 DEF BreakOff
    <3>3. kills' \in 0 .. MaxKills /\ removals' \in 0 .. MaxRemovals /\ faults' \in 0 .. MaxFaults
      <4>1. faults \in 0 .. MaxFaults /\ faults < MaxFaults /\ faults' = faults + 1 /\ UNCHANGED <<kills, removals>>
        BY <1>15 DEF BreakOff
      <4> QED BY <4>1, Draw
    <3>4. \A d \in Commands :
              part'[d] # "none" => at'[d] \in {"verifying", "renaming", "discarding", "killed"}
      BY <1>15 DEF BreakOff
    <3>5. lock' \in Commands \cup {NoCommand} /\ binary' \in [content : Contents, x : BOOLEAN]
      BY <1>15 DEF BreakOff
    <3> QED BY <3>1, <3>2, <3>3, <3>4, <3>5 DEF Steps
  <2>2. CacheInv'
    BY <1>15 DEF BreakOff
  <2>3. OnlyVerifiedRuns'
    BY <1>15 DEF BreakOff
  <2> QED BY <2>1, <2>2, <2>3
<1>16. CASE Kill(c)
  <2>1. BootstrapTypeOK'
    <3>1. at' \in [Commands -> Ended \cup Steps]
      BY <1>16 DEF Kill, Inside, Steps
    <3>2. ran' \in [Commands -> {"none", "bad", "good"}] /\ part' \in [Commands -> {"none", "bad", "good"}]
      BY <1>16 DEF Kill, Inside
    <3>3. kills' \in 0 .. MaxKills /\ removals' \in 0 .. MaxRemovals /\ faults' \in 0 .. MaxFaults
      <4>1. kills \in 0 .. MaxKills /\ kills < MaxKills /\ kills' = kills + 1 /\ UNCHANGED <<removals, faults>>
        BY <1>16 DEF Kill
      <4> QED BY <4>1, Draw
    <3>4. \A d \in Commands :
              part'[d] # "none" => at'[d] \in {"verifying", "renaming", "discarding", "killed"}
      BY <1>16 DEF Kill, Inside
    <3>5. lock' \in Commands \cup {NoCommand} /\ binary' \in [content : Contents, x : BOOLEAN]
      BY <1>16 DEF Kill
    <3> QED BY <3>1, <3>2, <3>3, <3>4, <3>5 DEF Steps
  <2>2. CacheInv'
    BY <1>16 DEF Kill, Inside
  <2>3. OnlyVerifiedRuns'
    BY <1>16 DEF Kill
  <2> QED BY <2>1, <2>2, <2>3
<1> QED BY <1>1, <1>2, <1>3, <1>4, <1>5, <1>6, <1>7, <1>8,
           <1>9, <1>10, <1>11, <1>12, <1>13, <1>14, <1>15, <1>16

\* The lock stays truthful.
LEMMA LockKept ==
    ASSUME BootstrapTypeOK, LockIsTruthful, NEW c \in Commands, CommandStep(c)
    PROVE  LockIsTruthful'
<1> SUFFICES ASSUME removals' = 0, NEW d \in Commands
             PROVE  /\ Inside(d)' => lock' = d
                    /\ lock' = d => Inside(d)' \/ at'[d] = "killed"
  BY DEF LockIsTruthful
<1>1. removals = 0
  BY DEF Acquire, Look, onDiskSha, RemoveCached, LookAgain, Fetch, Verify, Rename, Chmod, Discard,
     Spawn, ChildExits, Release, Fail, BreakOff, Kill
<1>2. CASE Acquire(c)
  BY <1>1, <1>2, NoCommandAssumption DEF Acquire, GoTo, LockIsTruthful, Inside, BootstrapTypeOK
<1>3. CASE Release(c)
  BY <1>1, <1>3, NoCommandAssumption DEF Release, RemoveLock, GoTo, LockIsTruthful, Inside, BootstrapTypeOK
<1>4. CASE Kill(c)
  BY <1>1, <1>4 DEF Kill, GoTo, LockIsTruthful, Inside, BootstrapTypeOK
<1>5. CASE ~ (Acquire(c) \/ Release(c) \/ Kill(c))
  <2>1. lock' = lock /\ at[c] \in Steps /\ \E s \in Steps : at' = [at EXCEPT ![c] = s]
    BY <1>5 DEF Look, onDiskSha, RemoveCached, LookAgain, Fetch, Verify, Rename, Chmod, Discard,
       Spawn, ChildExits, Fail, BreakOff, GoTo, Steps
  <2> QED BY <1>1, <2>1 DEF LockIsTruthful, Inside, BootstrapTypeOK, Steps
<1> QED BY <1>2, <1>3, <1>4, <1>5

\* Every reachable state satisfies the invariant.
LEMMA BootstrapInvariant == Spec => []BootstrapInv
<1>1. ASSUME BootstrapInv, [Next]_vars PROVE BootstrapInv'
  <2>1. CASE \E c \in Commands : CommandStep(c)
    BY <1>1, <2>1, CommandKeeps, LockKept DEF BootstrapInv
  <2>2. CASE RemoveStale \/ RemoveLive
    <3>1. UNCHANGED <<binary, at, part, ran, kills, faults>> /\ lock' = NoCommand
      BY <2>2 DEF RemoveStale, RemoveLive, RemoveLock
    <3>5. removals' \in 0 .. MaxRemovals /\ (removals' = 0 => removals = 0 /\ RemoveStale)
      <4>1. removals \in 0 .. MaxRemovals
        BY <1>1 DEF BootstrapInv, BootstrapTypeOK
      <4>2. CASE RemoveStale
        BY <4>1, <4>2 DEF RemoveStale
      <4>3. CASE removals < MaxRemovals /\ removals' = removals + 1
        BY <4>1, <4>3, BoundsAssumption
      <4> QED BY <2>2, <4>2, <4>3 DEF RemoveLive
    <3>2. BootstrapTypeOK'
      BY <1>1, <3>1, <3>5 DEF BootstrapInv, BootstrapTypeOK
    <3>3. CacheInv' /\ OnlyVerifiedRuns'
      BY <1>1, <3>1 DEF BootstrapInv, CacheInv, OnlyVerifiedRuns, Checked
    <3>4. LockIsTruthful'
      BY <1>1, <3>1, <3>5, NoCommandAssumption DEF BootstrapInv, LockIsTruthful, RemoveStale, Inside
    <3> QED BY <3>2, <3>3, <3>4 DEF BootstrapInv
  <2>3. CASE UNCHANGED vars
    BY <1>1, <2>3 DEF BootstrapInv, BootstrapTypeOK, CacheInv, OnlyVerifiedRuns, LockIsTruthful,
       Checked, Inside
  <2> QED BY <1>1, <2>1, <2>2, <2>3 DEF Next
<1> QED BY <1>1, BootstrapInit, PTL DEF Spec

\* No interleaving of commands, kills and removals of the lock executes a
\* binary whose hash was not checked.
THEOREM OnlyVerifiedBinariesRun == Spec => []OnlyVerifiedRuns
BY BootstrapInvariant, PTL DEF BootstrapInv

\* Commands exclude each other, and a failure leaves no lock behind.
THEOREM LockStaysTruthful == Spec => []LockIsTruthful
BY BootstrapInvariant, PTL DEF BootstrapInv

\* The variables have their types, and only a killed command leaves a .part
\* file behind.
THEOREM BootstrapTypes == Spec => []BootstrapTypeOK
BY BootstrapInvariant, PTL DEF BootstrapInv
=============================================================================
