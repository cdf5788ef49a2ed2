-------------------------- MODULE BuddyBootstrap --------------------------
(***************************************************************************)
(* The buddy skill brings its binary (skills/buddy-skill/src): commands    *)
(* "setup" and "start" of one version of the skill share a cache directory *)
(* and its setup.lock, check or download clawgard-buddy, and run it.       *)
(*                                                                         *)
(* One step per file operation or request, on a POSIX system.  A file is   *)
(* what its hash says of it: "good" has the compiled-in hash.  A command   *)
(* may be killed anywhere, Ctrl-C included, and a human may remove the     *)
(* lock, as the README tells him to when it is stale.  Cosign is not       *)
(* available in this version, and left out.                                *)
(***************************************************************************)
EXTENDS Naturals

CONSTANTS
    Commands,    \* runs of setup and start
    NoCommand,
    MaxKills, MaxRemovals, MaxFaults   \* bounds on kills, on removals of the lock of
                                       \* a command that is alive, and on faults

ASSUME NoCommandAssumption == NoCommand \notin Commands
ASSUME BoundsAssumption == MaxKills \in Nat /\ MaxRemovals \in Nat /\ MaxFaults \in Nat

VARIABLES
    lock,      \* the command whose setup.lock is there, or NoCommand
    binary,    \* the cached binary: its content and whether it is executable
    at,        \* at[c]: the step of command c
    part,      \* part[c]: the .part file of c, whose name is its own
    ran,       \* ran[c]: history, what c has executed
    kills, removals, faults

vars == <<lock, binary, at, part, ran, kills, removals, faults>>
budgets == <<kills, removals, faults>>

Contents == {"none", "empty", "bad", "good"}

\* An earlier command may have left a binary, which may be damaged since.
Init ==
    /\ lock = NoCommand
    /\ \E content \in Contents : binary = [content |-> content, x |-> content # "none"]
    /\ at   = [c \in Commands |-> "idle"]
    /\ part = [c \in Commands |-> "none"]
    /\ ran  = [c \in Commands |-> "none"]
    /\ kills = 0 /\ removals = 0 /\ faults = 0

GoTo(c, step) == at' = [at EXCEPT ![c] = step]

Ended == {"idle", "failed", "done", "killed"}

\* c is between the creation and the removal of its lock.
Inside(c) == at[c] \notin Ended

-----------------------------------------------------------------------------
(* bootstrapBinary.                                                        *)

\* open with "wx" fails when the file exists.
Acquire(c) ==
    /\ at[c] = "idle"
    /\ IF lock = NoCommand THEN lock' = c /\ GoTo(c, "looking")
                           ELSE GoTo(c, "failed") /\ UNCHANGED lock
    /\ UNCHANGED <<binary, part, ran, budgets>>

hasCachedBinary == binary.content \notin {"none", "empty"}

\* A file that is not there, or empty, is not hashed.
Look(c) ==
    /\ at[c] = "looking"
    /\ GoTo(c, IF hasCachedBinary THEN "hashing" ELSE "looking again")
    /\ UNCHANGED <<lock, binary, part, ran, budgets>>

onDiskSha(c) ==
    /\ at[c] = "hashing"
    /\ GoTo(c, CASE binary.content = "none" -> "failing"
                 [] binary.content = "good" -> "looking again"
                 [] OTHER -> "removing")
    /\ UNCHANGED <<lock, binary, part, ran, budgets>>

\* rm with force, of whatever is there by now.
RemoveCached(c) ==
    /\ at[c] = "removing"
    /\ binary' = [binary EXCEPT !.content = "none"]
    /\ GoTo(c, "looking again")
    /\ UNCHANGED <<lock, part, ran, budgets>>

LookAgain(c) ==
    /\ at[c] = "looking again"
    /\ GoTo(c, IF hasCachedBinary THEN "ready" ELSE "fetching")
    /\ UNCHANGED <<lock, binary, part, ran, budgets>>

-----------------------------------------------------------------------------
(* downloadAndVerify.                                                      *)

\* The server may send something else.  The stream is hashed as it is written.
Fetch(c) ==
    /\ at[c] = "fetching"
    /\ \E content \in {"bad", "good"} : part' = [part EXCEPT ![c] = content]
    /\ GoTo(c, "verifying")
    /\ UNCHANGED <<lock, binary, ran, budgets>>

\* Mutant: the .part file stays when the hash is wrong.
DiscardNothing(c) ==
    /\ at[c] = "discarding"
    /\ GoTo(c, "failing")
    /\ UNCHANGED <<lock, binary, part, ran, budgets>>

\* Mutant: the hash is computed and not compared.
VerifyNothing(c) ==
    /\ at[c] = "verifying"
    /\ GoTo(c, "renaming")
    /\ UNCHANGED <<lock, binary, part, ran, budgets>>

\* assertHashesMatch.
Verify(c) ==
    /\ at[c] = "verifying"
    /\ GoTo(c, IF part[c] = "good" THEN "renaming" ELSE "discarding")
    /\ UNCHANGED <<lock, binary, part, ran, budgets>>

\* The .part file has mode 0600.
Rename(c) ==
    /\ at[c] = "renaming"
    /\ binary' = [content |-> part[c], x |-> FALSE]
    /\ part'   = [part EXCEPT ![c] = "none"]
    /\ GoTo(c, "chmod")
    /\ UNCHANGED <<lock, ran, budgets>>

\* chmod 0755 of the file that has the name by now, if there is one.
Chmod(c) ==
    /\ at[c] = "chmod"
    /\ IF binary.content = "none"
       THEN GoTo(c, "discarding") /\ UNCHANGED binary
       ELSE GoTo(c, "ready") /\ binary' = [binary EXCEPT !.x = TRUE]
    /\ UNCHANGED <<lock, part, ran, budgets>>

\* The catch block of downloadAndVerify.
Discard(c) ==
    /\ at[c] = "discarding"
    /\ part' = [part EXCEPT ![c] = "none"]
    /\ GoTo(c, "failing")
    /\ UNCHANGED <<lock, binary, ran, budgets>>

-----------------------------------------------------------------------------
(* runSetup and runStart: run the binary and, in any case, release.        *)

\* The spawn fails when there is no file or it may not be executed.
Spawn(c) ==
    /\ at[c] = "ready"
    /\ IF binary.content # "none" /\ binary.x
       THEN GoTo(c, "running") /\ ran' = [ran EXCEPT ![c] = binary.content]
       ELSE GoTo(c, "failing") /\ UNCHANGED ran
    /\ UNCHANGED <<lock, binary, part, budgets>>

\* "start" runs as long as the daemon.
ChildExits(c) ==
    /\ at[c] = "running"
    /\ GoTo(c, "releasing")
    /\ UNCHANGED <<lock, binary, part, ran, budgets>>

\* rm of setup.lock, whoever has created the one that is there.
RemoveLock == lock' = NoCommand

\* Mutant: an error leaves the lock.
ReleaseSuccessOnly(c) ==
    /\ at[c] \in {"releasing", "failing"}
    /\ IF at[c] = "releasing" THEN RemoveLock ELSE UNCHANGED lock
    /\ GoTo(c, IF at[c] = "releasing" THEN "done" ELSE "failed")
    /\ UNCHANGED <<binary, part, ran, budgets>>

\* release, and the catch block of bootstrapBinary.
Release(c) ==
    /\ at[c] \in {"releasing", "failing"}
    /\ RemoveLock
    /\ GoTo(c, IF at[c] = "releasing" THEN "done" ELSE "failed")
    /\ UNCHANGED <<binary, part, ran, budgets>>

-----------------------------------------------------------------------------
(* What goes wrong.                                                        *)

\* A file operation or the request fails.  Inside the try block of
\* downloadAndVerify the .part file is discarded.
Fail(c) ==
    /\ faults < MaxFaults /\ faults' = faults + 1
    /\ \/ at[c] \in {"hashing", "removing", "fetching"} /\ GoTo(c, "failing")
       \/ at[c] \in {"renaming", "chmod"} /\ GoTo(c, "discarding")
    /\ UNCHANGED <<lock, binary, part, ran, kills, removals>>

\* The stream breaks off, or the disk is full.
BreakOff(c) ==
    /\ faults < MaxFaults /\ faults' = faults + 1
    /\ at[c] = "fetching"
    /\ part' = [part EXCEPT ![c] = "bad"]
    /\ GoTo(c, "discarding")
    /\ UNCHANGED <<lock, binary, ran, kills, removals>>

\* There is no handler of signals, and finally does not run.
Kill(c) ==
    /\ kills < MaxKills /\ kills' = kills + 1
    /\ Inside(c)
    /\ GoTo(c, "killed")
    /\ UNCHANGED <<lock, binary, part, ran, removals, faults>>

\* A human removes the lock that a killed command has left.
RemoveStale ==
    /\ \E c \in Commands : lock = c /\ at[c] = "killed"
    /\ RemoveLock
    /\ UNCHANGED <<binary, at, part, ran, budgets>>

\* He takes the lock of a command that is alive for a stale one.
RemoveLive ==
    /\ removals < MaxRemovals /\ removals' = removals + 1
    /\ \E c \in Commands : lock = c /\ at[c] # "killed"
    /\ RemoveLock
    /\ UNCHANGED <<binary, at, part, ran, kills, faults>>

-----------------------------------------------------------------------------

Next ==
    \/ \E c \in Commands :
           \/ Acquire(c) \/ Look(c) \/ onDiskSha(c) \/ RemoveCached(c) \/ LookAgain(c)
           \/ Fetch(c) \/ Verify(c) \/ Rename(c) \/ Chmod(c) \/ Discard(c)
           \/ Spawn(c) \/ ChildExits(c) \/ Release(c)
           \/ Fail(c) \/ BreakOff(c) \/ Kill(c)
    \/ RemoveStale \/ RemoveLive

Spec == Init /\ [][Next]_vars

-----------------------------------------------------------------------------

BootstrapTypeOK ==
    /\ lock \in Commands \cup {NoCommand}
    /\ binary \in [content : Contents, x : BOOLEAN]
    /\ at \in [Commands -> Ended \cup {"looking", "hashing", "removing", "looking again", "fetching",
                                     "verifying", "renaming", "chmod", "discarding", "ready",
                                     "running", "releasing", "failing"}]
    /\ part \in [Commands -> {"none", "bad", "good"}]
    /\ ran \in [Commands -> {"none", "bad", "good"}]
    /\ kills \in 0 .. MaxKills /\ removals \in 0 .. MaxRemovals /\ faults \in 0 .. MaxFaults
    /\ \A c \in Commands :
           part[c] # "none" => at[c] \in {"verifying", "renaming", "discarding", "killed"}

\* No binary is executed whose hash was not checked, although the check and
\* the execution are apart: also when the file was bad before, and when a lock
\* that was removed by hand lets commands check, remove, replace and run the
\* file all at once.
OnlyVerifiedRuns == \A c \in Commands : ran[c] \in {"none", "good"}

\* As long as nobody removes the lock of a command that is alive, it is there
\* exactly while the command that has created it is at work, or since that one
\* was killed; so commands exclude each other and a failure leaves no lock.
LockIsTruthful ==
    removals = 0 =>
        \A c \in Commands : /\ Inside(c) => lock = c
                            /\ lock = c => Inside(c) \/ at[c] = "killed"

\* README of the skill: after a command died, remove the lock and retry.  So
\* a command that has the lock and the binary can run it.
RetryRuns == \A c \in Commands : at[c] = "ready" => binary.content # "none" /\ binary.x
=============================================================================
