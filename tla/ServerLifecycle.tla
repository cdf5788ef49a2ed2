-------------------------- MODULE ServerLifecycle --------------------------
(***************************************************************************)
(* Processes of clawgard-server over one database, from the migrations to  *)
(* their end (server/internal/server/server.go, cmd/clawgard-server), and  *)
(* what only lives in one of them: the states of browser logins            *)
(* (api/auth_callback.go).  The registry, which is lost in the same way,   *)
(* is in module Relay.                                                     *)
(*                                                                         *)
(* A login stands for the random state and verifier of its StartFlow.      *)
(* The identity provider is external: it gives a login one code, and takes *)
(* a code once.                                                            *)
(***************************************************************************)
EXTENDS Migrations

CONSTANTS
    Servers,    \* the processes that run "serve"; the others run "migrate"
    Logins,     \* visits of GET /auth/login
    Callbacks,  \* visits of GET /auth/callback
    NoProc, NoLogin

ASSUME ServersAssumption == Servers \subseteq Procs
ASSUME NoneAssumption == NoProc \notin Procs /\ NoLogin \notin Logins

VARIABLES
    states,   \* states[p]: the memoryStateStore of p, by login
    login,    \* login[l]: how far the browser is
    home,     \* home[l]: the process that sent it to the identity provider
    old,      \* the logins that started more than ten minutes ago
    lost,     \* history: the logins whose process ended
    spent,    \* the logins whose code the identity provider has taken
    call      \* call[c]: a callback

loginVars == <<states, login, home, old, lost, spent, call>>
vars == <<schemaVars, proc, faults, loginVars>>

NoCall == [at |-> "idle", proc |-> NoProc, login |-> NoLogin]

Init ==
    /\ bodies = {} /\ recorded = {}
    /\ proc   = [p \in Procs |-> [at |-> "off", file |-> 0]]
    /\ faults = 0
    /\ states = [p \in Procs |-> {}]
    /\ login  = [l \in Logins |-> "idle"]
    /\ home   = [l \in Logins |-> NoProc]
    /\ old = {} /\ lost = {} /\ spent = {}
    /\ call   = [c \in Callbacks |-> NoCall]

-----------------------------------------------------------------------------
(* A process.                                                              *)

Start(p) ==
    /\ proc[p].at = "off"
    /\ GoTo(p, "creating", 0)
    /\ UNCHANGED <<schemaVars, faults, loginVars>>

MigrateStep(p) == Migrate(p) /\ UNCHANGED loginVars

\* The rest of New, to the listener, with a state store that is empty.  The
\* command "migrate" ends here.
Listen(p) ==
    /\ proc[p].at = "migrated"
    /\ GoTo(p, IF p \in Servers THEN "serving" ELSE "done", 0)
    /\ UNCHANGED <<schemaVars, faults, loginVars>>

\* What is in the memory of p goes with it.
MemoryIsLost(p) ==
    /\ states' = [states EXCEPT ![p] = {}]
    /\ lost'   = lost \cup {l \in Logins : home[l] = p}
    /\ call'   = [c \in Callbacks |-> IF call[c].proc = p /\ call[c].at \in {"taking", "exchanging"}
                                      THEN [call[c] EXCEPT !.at = "cut"] ELSE call[c]]
    /\ UNCHANGED <<login, home, old, spent>>

\* SIGTERM: Shutdown closes the listener, and Serve returns at once.
Terminate(p) ==
    /\ proc[p].at = "serving" /\ Fault
    /\ GoTo(p, "stopping", 0)
    /\ UNCHANGED <<schemaVars, loginVars>>

\* Run returns without waiting for Shutdown: main prints that the server shut
\* down cleanly and ends, and the requests that are running end with it.
RunReturns(p) ==
    /\ proc[p].at = "stopping"
    /\ Exit(p) /\ MemoryIsLost(p)
    /\ UNCHANGED <<schemaVars, faults>>

Crash(p) ==
    /\ proc[p].at \in {"migrated", "serving"} /\ Fault
    /\ Exit(p) /\ MemoryIsLost(p)
    /\ UNCHANGED schemaVars

Process(p) == Start(p) \/ MigrateStep(p) \/ Listen(p) \/ Terminate(p) \/ RunReturns(p) \/ Crash(p)

-----------------------------------------------------------------------------
(* A login.                                                                *)

Serving(p) == proc[p].at = "serving"

\* Mutant: the store holds one state.
PutOnly(p, l) == states' = [states EXCEPT ![p] = {l}]

Put(p, l) == states' = [states EXCEPT ![p] = @ \cup {l}]

\* Login and StartFlow: a new state is stored and the browser sent away.
Login(l, p) ==
    /\ login[l] = "idle" /\ Serving(p)
    /\ Put(p, l)
    /\ login'  = [login EXCEPT ![l] = "sent"]
    /\ home'   = [home EXCEPT ![l] = p]
    /\ UNCHANGED <<schemaVars, proc, faults, old, lost, spent, call>>

\* The provider sends the browser back, with a code (external).
Authorize(l) ==
    /\ login[l] = "sent"
    /\ login' = [login EXCEPT ![l] = "coded"]
    /\ UNCHANGED <<schemaVars, proc, faults, states, home, old, lost, spent, call>>

GrowOld(l) ==
    /\ login[l] # "idle" /\ l \notin old
    /\ old' = old \cup {l}
    /\ UNCHANGED <<schemaVars, proc, faults, states, login, home, lost, spent, call>>

\* The browser calls back, again when it reloads, and whatever process the
\* load balancer chooses.
CallBack(c, l, p) ==
    /\ call[c].at = "idle" /\ login[l] = "coded" /\ Serving(p)
    /\ call' = [call EXCEPT ![c] = [at |-> "taking", proc |-> p, login |-> l]]
    /\ UNCHANGED <<schemaVars, proc, faults, states, login, home, old, lost, spent>>

Answer(c, at_) == call' = [call EXCEPT ![c].at = at_]

Found(c)  == call[c].login \in states[call[c].proc]
InTime(c) == call[c].login \notin old

\* Mutant: Take leaves the state where it is.
RemoveNot(c) == UNCHANGED states

Remove(c) == states' = [states EXCEPT ![call[c].proc] = @ \ {call[c].login}]

\* Callback's Take, under the mutex of the store.
Take(c) ==
    /\ call[c].at = "taking"
    /\ Remove(c)
    /\ Answer(c, IF Found(c) /\ InTime(c) THEN "exchanging" ELSE "refused")
    /\ UNCHANGED <<schemaVars, proc, faults, login, home, old, lost, spent>>

\* exchangeCode, and the session cookie when the provider takes the code.
Exchange(c) ==
    /\ call[c].at = "exchanging"
    /\ \/ /\ call[c].login \notin spent
          /\ spent' = spent \cup {call[c].login}
          /\ Answer(c, "session")
          /\ UNCHANGED faults
       \/ /\ call[c].login \in spent
          /\ Answer(c, "failed")
          /\ UNCHANGED <<spent, faults>>
       \/ /\ Fault
          /\ spent' \in {spent, spent \cup {call[c].login}}
          /\ Answer(c, "failed")
    /\ UNCHANGED <<schemaVars, proc, states, login, home, old, lost>>

Browser ==
    \/ \E l \in Logins, p \in Servers : Login(l, p)
    \/ \E l \in Logins : Authorize(l) \/ GrowOld(l)
    \/ \E c \in Callbacks, l \in Logins, p \in Servers : CallBack(c, l, p)
    \/ \E c \in Callbacks : Take(c) \/ Exchange(c)

-----------------------------------------------------------------------------

Next == (\E p \in Procs : Process(p)) \/ Browser

Spec == Init /\ [][Next]_vars

\* A process that is at work goes on, and one that has ended is started again
\* by whatever runs the container (external).
Fairness ==
    \A p \in Procs :
        WF_vars(\/ Start(p) \/ Listen(p) \/ RunReturns(p)
                \/ MigrateOn(p) /\ UNCHANGED loginVars)

FairSpec == Spec /\ Fairness

-----------------------------------------------------------------------------

PastTake == {"exchanging", "session", "failed"}

LifecycleTypeOK ==
    /\ bodies \subseteq Files /\ recorded \subseteq Files
    /\ proc \in [Procs -> [at : Migrating \cup {"off", "migrated", "serving", "stopping", "done"},
                           file : 0 .. NFiles + 1]]
    /\ faults \in 0 .. MaxFaults
    /\ states \in [Procs -> SUBSET Logins]
    /\ login \in [Logins -> {"idle", "sent", "coded"}]
    /\ home \in [Logins -> Procs \cup {NoProc}]
    /\ old \subseteq Logins /\ lost \subseteq Logins /\ spent \subseteq Logins
    /\ call \in [Callbacks -> [at : PastTake \cup {"idle", "taking", "refused", "cut"},
                               proc : Procs \cup {NoProc}, login : Logins \cup {NoLogin}]]

\* However many processes migrate at once, and wherever they are stopped, a
\* file is recorded exactly when its tables exist, files are applied in order,
\* and a server only serves when all of them are.
SchemaIsWhole ==
    /\ recorded = bodies
    /\ \A f \in recorded : 1 .. f \subseteq recorded
    /\ \A p \in Procs :
           proc[p].at \in {"migrated", "serving", "stopping", "done"} => recorded = Files

\* Processes that fail over each other's migrations do not do so for ever:
\* when faults cease and what has ended is started again, every server serves.
ServersComeUp == \A p \in Servers : []<>Serving(p)

\* A state lets one callback through to the provider, also when the browser
\* repeats it, and on whatever replica or after whatever restart it arrives.
OneExchangePerState ==
    \A c, d \in Callbacks :
        call[c].login = call[d].login /\ {call[c].at, call[d].at} \subseteq PastTake => c = d

\* A callback is told "invalid or expired state" for a cause: the login is too
\* old, another callback took its state, or the process that stored it has
\* ended or is another one.
RefusedForCause ==
    \A c \in Callbacks :
        LET l == call[c].login
        IN call[c].at = "refused" =>
               \/ l \in old \cup lost
               \/ call[c].proc # home[l]
               \/ \E d \in Callbacks : call[d].login = l /\ call[d].at \in PastTake \cup {"cut"}
=============================================================================
