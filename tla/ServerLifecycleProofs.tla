----------------------- MODULE ServerLifecycleProofs -----------------------
(***************************************************************************)
(* For any number of processes, migration files, faults, logins and        *)
(* callbacks: the schema stays whole, a state is exchanged once, and a     *)
(* callback is refused for a cause.                                        *)
(***************************************************************************)
EXTENDS ServerLifecycle, TLAPS

-----------------------------------------------------------------------------
(* The schema.  The login variables play no part in it.                    *)

AtFile == {"applying", "recording", "committing"}
Through == {"migrated", "serving", "stopping", "done"}

\* A process has seen every file before its own in the table of files.
ProcInv(p) ==
    /\ proc[p].at \in AtFile => proc[p].file \in Files
    /\ proc[p].at = "checking" => proc[p].file \in 1 .. NFiles + 1
    /\ proc[p].at \in AtFile \cup {"checking"} =>
           \A f \in Files : f < proc[p].file => f \in recorded
    /\ proc[p].at \in Through => Files \subseteq recorded

SchemaInv ==
    /\ proc \in [Procs -> [at : Migrating \cup {"off", "migrated", "serving", "stopping", "done"},
                           file : 0 .. NFiles + 1]]
    /\ recorded \subseteq Files
    /\ recorded = bodies
    /\ \A f \in recorded, g \in Files : g < f => g \in recorded
    /\ \A p \in Procs : ProcInv(p)

\* Initially there is no table and no process.
LEMMA SchemaInit == Init => SchemaInv
BY FilesAssumption DEF Init, SchemaInv, ProcInv, AtFile, Through

\* A process that goes somewhere it may go while no file is recorded.
LEMMA GoToKeeps ==
    ASSUME SchemaInv, UNCHANGED schemaVars, NEW p \in Procs,
           NEW at \in Migrating \cup {"off", "migrated", "serving", "stopping", "done"},
           NEW file \in 0 .. NFiles + 1, GoTo(p, at, file),
           at \in AtFile => file \in Files,
           at = "checking" => file \in 1 .. NFiles + 1,
           at \in AtFile \cup {"checking"} => \A f \in Files : f < file => f \in recorded,
           at \in Through => Files \subseteq recorded
    PROVE  SchemaInv'
<1> DEFINE step == [at |-> at, file |-> file]
<1>1. step \in [at : Migrating \cup {"off", "migrated", "serving", "stopping", "done"}, file : 0 .. NFiles + 1]
  OBVIOUS
<1>2. proc' = [proc EXCEPT ![p] = step] /\ step.at = at /\ step.file = file
  BY DEF GoTo
<1>3. recorded' = recorded /\ bodies' = bodies
  BY DEF schemaVars
<1> HIDE DEF step
<1>4. proc' \in [Procs -> [at : Migrating \cup {"off", "migrated", "serving", "stopping", "done"},
                           file : 0 .. NFiles + 1]]
  BY <1>1, <1>2 DEF SchemaInv
<1>5. ASSUME NEW q \in Procs PROVE ProcInv(q)'
  <2>1. CASE q = p
    BY <1>2, <1>3, <2>1 DEF SchemaInv, ProcInv
  <2>2. CASE q # p
    <3>1. proc'[q] = proc[q]
      BY <1>2, <2>2 DEF SchemaInv
    <3> QED BY <1>3, <3>1 DEF SchemaInv, ProcInv
  <2> QED BY <2>1, <2>2
<1> QED BY <1>3, <1>4, <1>5 DEF SchemaInv

\* A process that stops.
LEMMA ExitKeeps ==
    ASSUME SchemaInv, UNCHANGED schemaVars, NEW p \in Procs, Exit(p)
    PROVE  SchemaInv'
<1>1. GoTo(p, "off", 0) /\ 0 \in 0 .. NFiles + 1
  BY FilesAssumption DEF Exit
<1>2. "off" \notin AtFile \cup {"checking"} \cup Through
  BY DEF AtFile, Through
<1> QED BY <1>1, <1>2, GoToKeeps

\* A commit records the next file, the earlier ones being recorded.
LEMMA CommitKeeps ==
    ASSUME SchemaInv, NEW p \in Procs, proc[p].at = "committing",
           Committed(proc[p].file),
           GoTo(p, "checking", proc[p].file + 1) \/ Exit(p)
    PROVE  SchemaInv'
<1> DEFINE f == proc[p].file
<1>1. f \in Files /\ \A g \in Files : g < f => g \in recorded
  BY DEF SchemaInv, ProcInv, AtFile
<1>2. recorded' = recorded \cup {f} /\ bodies' = bodies \cup {f}
  BY DEF Committed
<1>3. PICK step \in [at : {"off", "checking"}, file : 0 .. NFiles + 1] :
          /\ proc' = [proc EXCEPT ![p] = step]
          /\ step.at = "checking" => step.file = f + 1
  <2>1. f + 1 \in 0 .. NFiles + 1 /\ 0 \in 0 .. NFiles + 1
    BY <1>1, FilesAssumption DEF Files
  <2>2. [at |-> "checking", file |-> f + 1] \in [at : {"off", "checking"}, file : 0 .. NFiles + 1]
    BY <2>1
  <2>3. [at |-> "off", file |-> 0] \in [at : {"off", "checking"}, file : 0 .. NFiles + 1]
    BY <2>1
  <2>4. CASE GoTo(p, "checking", f + 1)
    BY <2>2, <2>4 DEF GoTo
  <2>5. CASE Exit(p)
    BY <2>3, <2>5 DEF GoTo, Exit
  <2> QED BY <2>4, <2>5
<1> HIDE DEF f
<1>4. proc' \in [Procs -> [at : Migrating \cup {"off", "migrated", "serving", "stopping", "done"},
                           file : 0 .. NFiles + 1]]
  BY <1>3 DEF SchemaInv, Migrating
<1>5. ASSUME NEW q \in Procs PROVE ProcInv(q)'
  <2>1. CASE q = p
    <3>1. proc'[q] = step
      BY <1>3, <2>1 DEF SchemaInv
    <3>2. step.at = "off" \/ (step.at = "checking" /\ step.file = f + 1)
      BY <1>3
    <3>3. \A g \in Files : g < f + 1 => g \in recorded'
      BY <1>1, <1>2 DEF Files
    <3>4. f + 1 \in 1 .. NFiles + 1
      BY <1>1, FilesAssumption DEF Files
    <3> QED BY <3>1, <3>2, <3>3, <3>4 DEF ProcInv, AtFile, Through
  <2>2. CASE q # p
    <3>1. proc'[q] = proc[q]
      BY <1>3, <2>2 DEF SchemaInv
    <3> QED BY <1>2, <3>1 DEF SchemaInv, ProcInv
  <2> QED BY <2>1, <2>2
<1>6. \A h \in recorded', g \in Files : g < h => g \in recorded'
  BY <1>1, <1>2 DEF SchemaInv
<1> QED BY <1>1, <1>2, <1>4, <1>5, <1>6 DEF SchemaInv

\* One step of Migrate.
LEMMA MigrateKeeps ==
    ASSUME SchemaInv, NEW p \in Procs, Migrate(p)
    PROVE  SchemaInv'
<1> DEFINE f == proc[p].file
<1>1. CASE CreateLedger(p)
  <2>1. GoTo(p, "checking", 1) /\ UNCHANGED schemaVars
    BY <1>1 DEF CreateLedger
  <2>2. 1 \in 0 .. NFiles + 1 /\ 1 \in 1 .. NFiles + 1 /\ \A g \in Files : ~ (g < 1)
    BY FilesAssumption DEF Files
  <2> QED BY <2>1, <2>2, GoToKeeps DEF Migrating, AtFile, Through
<1>2. CASE Check(p)
  <2>1. proc[p].at = "checking" /\ UNCHANGED schemaVars
    BY <1>2 DEF Check
  <2>2. f \in 1 .. NFiles + 1 /\ \A g \in Files : g < f => g \in recorded
    BY <2>1 DEF SchemaInv, ProcInv
  <2>3. CASE f > NFiles /\ GoTo(p, "migrated", 0)
    <3>1. Files \subseteq recorded /\ 0 \in 0 .. NFiles + 1
      BY <2>2, <2>3, FilesAssumption DEF Files
    <3> QED BY <2>1, <2>3, <3>1, GoToKeeps DEF Migrating, AtFile, Through
  <2>4. CASE f \in recorded /\ GoTo(p, "checking", f + 1)
    <3>1. f \in Files
      BY <2>4 DEF SchemaInv
    <3>2. f + 1 \in 0 .. NFiles + 1 /\ f + 1 \in 1 .. NFiles + 1
      BY <3>1, FilesAssumption DEF Files
    <3>3. \A g \in Files : g < f + 1 => g \in recorded
      BY <2>2, <2>4, <3>1 DEF Files
    <3> QED BY <2>1, <2>4, <3>2, <3>3, GoToKeeps DEF Migrating, AtFile, Through
  <2>5. CASE f \in Files \ recorded /\ GoTo(p, "applying", f)
    <3>1. f \in 0 .. NFiles + 1
      BY <2>2, FilesAssumption
    <3> QED BY <2>1, <2>2, <2>5, <3>1, GoToKeeps DEF Migrating, AtFile, Through
  <2> QED BY <1>2, <2>3, <2>4, <2>5 DEF Check
<1>3. CASE Apply(p) \/ Record(p)
  <2>1. proc[p].at \in AtFile /\ UNCHANGED schemaVars
    BY <1>3 DEF Apply, Record, AtFile
  <2>2. f \in Files /\ (\A g \in Files : g < f => g \in recorded) /\ f \in 0 .. NFiles + 1
    BY <2>1, FilesAssumption DEF SchemaInv, ProcInv, Files
  <2>3. CASE Exit(p)
    BY <2>1, <2>3, ExitKeeps
  <2>4. CASE GoTo(p, "recording", f) \/ GoTo(p, "committing", f)
    BY <2>1, <2>2, <2>4, GoToKeeps DEF Migrating, AtFile, Through
  <2> QED BY <1>3, <2>3, <2>4 DEF Apply, Record
<1>4. CASE Commit(p) \/ CommitUnconfirmed(p)
  BY <1>4, CommitKeeps DEF Commit, CommitUnconfirmed
<1>5. CASE Abort(p)
  BY <1>5, ExitKeeps DEF Abort
<1> QED BY <1>1, <1>2, <1>3, <1>4, <1>5 DEF Migrate, MigrateOn

\* Every step keeps the schema whole.
LEMMA SchemaStep ==
    ASSUME SchemaInv, [Next]_vars
    PROVE  SchemaInv'
<1>1. CASE Browser \/ UNCHANGED vars
  <2>1. UNCHANGED <<schemaVars, proc>>
    BY <1>1 DEF Browser, Login, Authorize, GrowOld, CallBack, Take, Exchange, vars
  <2> QED BY <2>1 DEF SchemaInv, ProcInv, schemaVars
<1>2. ASSUME NEW p \in Procs, Process(p)
      PROVE  SchemaInv'
  <2>1. CASE Start(p)
    <3>1. GoTo(p, "creating", 0) /\ UNCHANGED schemaVars /\ 0 \in 0 .. NFiles + 1
      BY <2>1, FilesAssumption DEF Start
    <3> QED BY <3>1, GoToKeeps DEF Migrating, AtFile, Through
  <2>2. CASE MigrateStep(p)
    BY <2>2, MigrateKeeps DEF MigrateStep
  <2>3. CASE Listen(p) \/ Terminate(p)
    <3>1. proc[p].at \in Through /\ UNCHANGED schemaVars /\ 0 \in 0 .. NFiles + 1
      BY <2>3, FilesAssumption DEF Listen, Terminate, Through
    <3>2. Files \subseteq recorded
      BY <3>1 DEF SchemaInv, ProcInv
    <3>3. PICK at \in {"serving", "stopping", "done"} : GoTo(p, at, 0)
      BY <2>3 DEF Listen, Terminate
    <3> QED BY <3>1, <3>2, <3>3, GoToKeeps DEF AtFile
  <2>4. CASE RunReturns(p) \/ Crash(p)
    BY <2>4, ExitKeeps DEF RunReturns, Crash
  <2> QED BY <1>2, <2>1, <2>2, <2>3, <2>4 DEF Process
<1> QED BY <1>1, <1>2 DEF Next

\* Concurrent and interrupted migrations leave a schema that is a prefix of
\* the files, with nothing half applied, and a server serves on all of it.
THEOREM SchemaStaysWhole == Spec => []SchemaIsWhole
<1>1. SchemaInv => SchemaIsWhole
  <2> SUFFICES ASSUME SchemaInv PROVE SchemaIsWhole
    OBVIOUS
  <2>1. ASSUME NEW f \in recorded PROVE 1 .. f \subseteq recorded
    BY FilesAssumption DEF SchemaInv, Files
  <2>2. ASSUME NEW p \in Procs, proc[p].at \in Through PROVE recorded = Files
    BY <2>2 DEF SchemaInv, ProcInv
  <2> QED BY <2>1, <2>2 DEF SchemaIsWhole, SchemaInv, Through
<1> QED BY <1>1, SchemaInit, SchemaStep, PTL DEF Spec

-----------------------------------------------------------------------------
(* Logins.                                                                 *)

Took(d, l) == call[d].login = l /\ call[d].at \in PastTake \cup {"cut"}

LoginTypes ==
    /\ states \in [Procs -> SUBSET Logins]
    /\ login \in [Logins -> {"idle", "sent", "coded"}]
    /\ home \in [Logins -> Procs \cup {NoProc}]
    /\ old \subseteq Logins /\ lost \subseteq Logins /\ spent \subseteq Logins
    /\ call \in [Callbacks -> [at : PastTake \cup {"idle", "taking", "refused", "cut"},
                               proc : Procs \cup {NoProc}, login : Logins \cup {NoLogin}]]

\* A state is where its login started, until a callback takes it.
StatesAtHome ==
    \A l \in Logins, p \in Procs : l \in states[p] => home[l] = p /\ login[l] # "idle"

CallsAreOfLogins ==
    \A c \in Callbacks : call[c].at # "idle" =>
        call[c].login \in Logins /\ call[c].proc \in Procs /\ login[call[c].login] # "idle"

TakenIsGone ==
    \A c \in Callbacks, p \in Procs : call[c].at \in PastTake => call[c].login \notin states[p]

StatesAreAccounted ==
    \A l \in Logins : login[l] # "idle" =>
        /\ home[l] \in Procs
        /\ l \in states[home[l]] \/ l \in old \cup lost \/ \E d \in Callbacks : Took(d, l)

Refusals ==
    \A c \in Callbacks : call[c].at = "refused" =>
        \/ call[c].login \in old \cup lost
        \/ call[c].proc # home[call[c].login]
        \/ \E d \in Callbacks : Took(d, call[c].login)

LoginInv ==
    /\ LoginTypes /\ StatesAtHome /\ CallsAreOfLogins /\ TakenIsGone
    /\ OneExchangePerState /\ StatesAreAccounted /\ Refusals

\* Initially nobody logs in.
LEMMA LoginInit == Init => LoginInv
BY DEF Init, NoCall, LoginInv, LoginTypes, StatesAtHome, CallsAreOfLogins, TakenIsGone,
   OneExchangePerState, StatesAreAccounted, Refusals, PastTake

\* A step outside the logins that loses no memory.
LEMMA LoginKept == ASSUME LoginInv, UNCHANGED loginVars PROVE LoginInv'
BY DEF loginVars, LoginInv, LoginTypes, StatesAtHome, CallsAreOfLogins, TakenIsGone,
   OneExchangePerState, StatesAreAccounted, Refusals, Took

\* A process that ends takes its states and its callbacks along.
LEMMA LoginLost ==
    ASSUME LoginInv, NEW p \in Procs, MemoryIsLost(p)
    PROVE  LoginInv'
<1>1. /\ states' = [states EXCEPT ![p] = {}]
      /\ lost' = lost \cup {l \in Logins : home[l] = p}
      /\ UNCHANGED <<login, home, old, spent>>
  BY DEF MemoryIsLost
<1>2. call' \in [Callbacks -> [at : PastTake \cup {"idle", "taking", "refused", "cut"},
                              proc : Procs \cup {NoProc}, login : Logins \cup {NoLogin}]]
  BY DEF MemoryIsLost, LoginInv, LoginTypes
<1>3. ASSUME NEW c \in Callbacks
      PROVE  /\ call'[c].login = call[c].login /\ call'[c].proc = call[c].proc
             /\ \/ call'[c].at = call[c].at
                \/ call'[c].at = "cut" /\ call[c].at \in {"taking", "exchanging"}
  <2>1. call'[c] = IF call[c].proc = p /\ call[c].at \in {"taking", "exchanging"}
                   THEN [call[c] EXCEPT !.at = "cut"] ELSE call[c]
    BY DEF MemoryIsLost
  <2> QED BY <2>1 DEF LoginInv, LoginTypes
<1>4. \A c \in Callbacks, l \in Logins : Took(c, l) => Took(c, l)'
  BY <1>3 DEF Took, PastTake
<1> USE DEF LoginInv
<1>5. LoginTypes'
  BY <1>1, <1>2 DEF LoginTypes
<1>6. StatesAtHome'
  BY <1>1 DEF StatesAtHome, LoginTypes
<1>7. CallsAreOfLogins'
  BY <1>1, <1>3 DEF CallsAreOfLogins
<1>8. TakenIsGone'
  BY <1>1, <1>3 DEF TakenIsGone, LoginTypes, PastTake
<1>9. OneExchangePerState'
  <2> SUFFICES ASSUME NEW c \in Callbacks, NEW d \in Callbacks,
                      call'[c].login = call'[d].login,
                      call'[c].at \in PastTake, call'[d].at \in PastTake
               PROVE  c = d
    BY DEF OneExchangePerState
  <2>1. call[c].at \in PastTake /\ call[d].at \in PastTake /\ call[c].login = call[d].login
    BY <1>3 DEF PastTake
  <2> QED BY <2>1 DEF OneExchangePerState
<1>10. StatesAreAccounted'
  BY <1>1, <1>4 DEF StatesAreAccounted, LoginTypes
<1>11. Refusals'
  <2> SUFFICES ASSUME NEW c \in Callbacks, call'[c].at = "refused"
               PROVE  \/ call'[c].login \in old' \cup lost'
                      \/ call'[c].proc # home'[call'[c].login]
                      \/ \E d \in Callbacks : Took(d, call[c].login)'
    BY DEF Refusals, Took
  <2>1. call[c].at = "refused" /\ call[c].login \in Logins
    BY <1>3 DEF CallsAreOfLogins
  <2> QED BY <1>1, <1>3, <1>4, <2>1 DEF Refusals
<1> QED BY <1>5, <1>6, <1>7, <1>8, <1>9, <1>10, <1>11

\* One visit of /auth/login, of the provider, or the passing of time.
LEMMA LoginStep ==
    ASSUME LoginInv, NEW l \in Logins,
           Authorize(l) \/ GrowOld(l) \/ \E p \in Servers : Login(l, p)
    PROVE  LoginInv'
<1> USE DEF LoginInv
<1>1. CASE Authorize(l)
  BY <1>1 DEF Authorize, LoginTypes, StatesAtHome, CallsAreOfLogins, TakenIsGone,
     OneExchangePerState, StatesAreAccounted, Refusals, Took
<1>2. CASE GrowOld(l)
  BY <1>2 DEF GrowOld, LoginTypes, StatesAtHome, CallsAreOfLogins, TakenIsGone,
     OneExchangePerState, StatesAreAccounted, Refusals, Took
<1>3. CASE \E p \in Servers : Login(l, p)
  <2>1. PICK p \in Servers : Login(l, p)
    BY <1>3
  <2>2. /\ login[l] = "idle" /\ p \in Procs
        /\ states' = [states EXCEPT ![p] = @ \cup {l}]
        /\ login' = [login EXCEPT ![l] = "sent"]
        /\ home' = [home EXCEPT ![l] = p]
        /\ UNCHANGED <<old, lost, spent, call>>
    BY <2>1, ServersAssumption DEF Login, Put
  <2>3. LoginTypes'
    BY <2>2 DEF LoginTypes
  <2>4. StatesAtHome'
    BY <2>2 DEF StatesAtHome, LoginTypes
  <2>5. CallsAreOfLogins' /\ \A c \in Callbacks : call[c].at # "idle" => call[c].login # l
    BY <2>2 DEF CallsAreOfLogins, LoginTypes
  <2>6. TakenIsGone'
    BY <2>2, <2>5 DEF TakenIsGone, LoginTypes, PastTake
  <2>7. OneExchangePerState'
    BY <2>2 DEF OneExchangePerState
  <2>8. StatesAreAccounted'
    BY <2>2 DEF StatesAreAccounted, LoginTypes, Took
  <2>9. Refusals'
    BY <2>2, <2>5 DEF Refusals, CallsAreOfLogins, LoginTypes, Took
  <2> QED BY <2>3, <2>4, <2>5, <2>6, <2>7, <2>8, <2>9
<1> QED BY <1>1, <1>2, <1>3

\* A new callback.
LEMMA CallBackKeeps ==
    ASSUME LoginInv, NEW c \in Callbacks, NEW l \in Logins, NEW p \in Servers, CallBack(c, l, p)
    PROVE  LoginInv'
<1> DEFINE rec == [at |-> "taking", proc |-> p, login |-> l]
<1>1. /\ call' = [call EXCEPT ![c] = rec] /\ rec.at = "taking" /\ rec.login = l /\ rec.proc = p
      /\ rec \in [at : PastTake \cup {"idle", "taking", "refused", "cut"},
                  proc : Procs \cup {NoProc}, login : Logins \cup {NoLogin}]
      /\ p \in Procs
  BY ServersAssumption DEF CallBack
<1>2. call[c].at = "idle" /\ login[l] = "coded" /\ UNCHANGED <<states, login, home, old, lost, spent>>
  BY DEF CallBack
<1> HIDE DEF rec
<1> USE DEF LoginInv
<1>3. \A d \in Callbacks : d # c => call'[d] = call[d]
  BY <1>1 DEF LoginTypes
<1>4. call'[c] = rec
  BY <1>1 DEF LoginTypes
<1>5. \A d \in Callbacks, k \in Logins : Took(d, k) => Took(d, k)'
  BY <1>2, <1>3 DEF Took, PastTake
<1>6. LoginTypes'
  BY <1>1, <1>2 DEF LoginTypes
<1>7. StatesAtHome'
  BY <1>2 DEF StatesAtHome
<1>8. CallsAreOfLogins'
  BY <1>1, <1>2, <1>3, <1>4 DEF CallsAreOfLogins
<1>9. TakenIsGone' /\ OneExchangePerState'
  BY <1>1, <1>2, <1>3, <1>4 DEF TakenIsGone, OneExchangePerState, PastTake
<1>10. StatesAreAccounted'
  BY <1>2, <1>5 DEF StatesAreAccounted
<1>11. Refusals'
  BY <1>1, <1>2, <1>3, <1>4, <1>5 DEF Refusals, CallsAreOfLogins
<1> QED BY <1>6, <1>7, <1>8, <1>9, <1>10, <1>11

\* A callback takes its state, or is refused.
LEMMA TakeKeeps ==
    ASSUME LoginInv, NEW c \in Callbacks, Take(c)
    PROVE  LoginInv'
<1> DEFINE l == call[c].login
           p == call[c].proc
           at == IF Found(c) /\ InTime(c) THEN "exchanging" ELSE "refused"
<1>1. /\ call[c].at = "taking"
      /\ call' = [call EXCEPT ![c].at = at]
      /\ states' = [states EXCEPT ![p] = @ \ {l}]
      /\ UNCHANGED <<login, home, old, lost, spent>>
  BY DEF Take, Remove, Answer
<1> USE DEF LoginInv
<1>2. l \in Logins /\ p \in Procs /\ login[l] # "idle" /\ home[l] \in Procs
  BY <1>1 DEF CallsAreOfLogins, StatesAreAccounted
<1>3. \/ at = "exchanging" /\ l \in states[p]
      \/ at = "refused" /\ (l \in old \/ l \notin states[p])
  BY DEF Found, InTime
<1> HIDE DEF at
<1>4. \A d \in Callbacks : d # c => call'[d] = call[d]
  BY <1>1 DEF LoginTypes
<1>5. call'[c].at = at /\ call'[c].login = l /\ call'[c].proc = p
  BY <1>1 DEF LoginTypes
<1> HIDE DEF l, p
<1>6. \A d \in Callbacks, k \in Logins : Took(d, k) => Took(d, k)'
  BY <1>1, <1>4 DEF Took, PastTake
<1>7. LoginTypes'
  BY <1>1, <1>3 DEF LoginTypes, PastTake
<1>8. StatesAtHome'
  BY <1>1 DEF StatesAtHome, LoginTypes
<1>9. CallsAreOfLogins'
  BY <1>1, <1>2, <1>4, <1>5 DEF CallsAreOfLogins
<1>10. at = "exchanging" => \A q \in Procs : l \notin states'[q]
  BY <1>1, <1>2, <1>3 DEF StatesAtHome, LoginTypes
<1>11. TakenIsGone'
  BY <1>1, <1>3, <1>4, <1>5, <1>10 DEF TakenIsGone, PastTake, LoginTypes
<1>12. at = "exchanging" => \A d \in Callbacks \ {c} : call[d].login = l => call[d].at \notin PastTake
  BY <1>2, <1>3 DEF TakenIsGone
<1>13. OneExchangePerState'
  BY <1>3, <1>4, <1>5, <1>12 DEF OneExchangePerState, PastTake
<1>14. at = "exchanging" => call'[c].login = l /\ call'[c].at \in PastTake
  BY <1>5 DEF PastTake
<1>15. StatesAreAccounted'
  <2> SUFFICES ASSUME NEW k \in Logins, login[k] # "idle"
               PROVE  k \in states'[home[k]] \/ k \in old \cup lost \/ \E d \in Callbacks : Took(d, k)'
    BY <1>1 DEF StatesAreAccounted
  <2>1. CASE k # l
    BY <1>1, <1>6, <2>1 DEF StatesAreAccounted, LoginTypes
  <2>2. CASE k = l
    <3>1. CASE at = "exchanging"
      BY <1>14, <2>2, <3>1 DEF Took
    <3>2. CASE l \in old
      BY <2>2, <3>2
    <3>3. CASE l \notin states[p]
      BY <1>1, <1>6, <2>2, <3>3 DEF StatesAreAccounted, LoginTypes
    <3> QED BY <1>3, <3>1, <3>2, <3>3
  <2> QED BY <2>1, <2>2
<1>16. Refusals'
  <2> SUFFICES ASSUME NEW d \in Callbacks, call'[d].at = "refused"
               PROVE  \/ call'[d].login \in old \cup lost
                      \/ call'[d].proc # home[call'[d].login]
                      \/ \E e \in Callbacks : call'[e].login = call'[d].login /\ call'[e].at \in PastTake \cup {"cut"}
    BY <1>1 DEF Refusals, Took
  <2>1. CASE d # c
    BY <1>4, <1>6, <2>1 DEF Refusals, CallsAreOfLogins, Took
  <2>2. CASE d = c
    <3>1. l \in old \/ l \notin states[p]
      BY <1>3, <1>5, <2>2
    <3>2. CASE l \in old
      BY <1>5, <2>2, <3>2
    <3>3. CASE l \notin states[p] /\ p = home[l]
      <4>1. l \in old \cup lost \/ \E e \in Callbacks : Took(e, l)
        BY <1>2, <3>3 DEF StatesAreAccounted
      <4> QED BY <1>2, <1>5, <1>6, <2>2, <4>1 DEF Took
    <3> QED BY <1>5, <2>2, <3>1, <3>2, <3>3
  <2> QED BY <2>1, <2>2
<1> QED BY <1>7, <1>8, <1>9, <1>11, <1>13, <1>15, <1>16

\* A callback is answered by the provider.
LEMMA ExchangeKeeps ==
    ASSUME LoginInv, NEW c \in Callbacks, Exchange(c)
    PROVE  LoginInv'
<1>1. PICK at \in {"session", "failed"} : call' = [call EXCEPT ![c].at = at]
  BY DEF Exchange, Answer
<1>2. /\ call[c].at = "exchanging" /\ UNCHANGED <<states, login, home, old, lost>>
      /\ spent' \in {spent, spent \cup {call[c].login}}
  BY DEF Exchange
<1> USE DEF LoginInv
<1>3. \A d \in Callbacks : d # c => call'[d] = call[d]
  BY <1>1 DEF LoginTypes
<1>4. call'[c].at = at /\ call'[c].login = call[c].login /\ call'[c].proc = call[c].proc
  BY <1>1 DEF LoginTypes
<1>5. \A d \in Callbacks, k \in Logins : Took(d, k) => Took(d, k)'
  BY <1>3, <1>4 DEF Took, PastTake
<1>6. LoginTypes'
  BY <1>1, <1>2 DEF LoginTypes, CallsAreOfLogins, PastTake
<1>7. StatesAtHome' /\ CallsAreOfLogins'
  BY <1>2, <1>3, <1>4 DEF StatesAtHome, CallsAreOfLogins
<1>8. TakenIsGone' /\ OneExchangePerState'
  BY <1>2, <1>3, <1>4 DEF TakenIsGone, OneExchangePerState, PastTake
<1>9. StatesAreAccounted'
  BY <1>2, <1>5 DEF StatesAreAccounted
<1>10. Refusals'
  <2> SUFFICES ASSUME NEW d \in Callbacks, call'[d].at = "refused"
               PROVE  \/ call'[d].login \in old \cup lost
                      \/ call'[d].proc # home[call'[d].login]
                      \/ \E e \in Callbacks : call'[e].login = call'[d].login /\ call'[e].at \in PastTake \cup {"cut"}
    BY <1>2 DEF Refusals, Took
  <2>1. d # c
    BY <1>4
  <2> QED BY <1>3, <1>5, <2>1 DEF Refusals, CallsAreOfLogins, Took
<1> QED BY <1>6, <1>7, <1>8, <1>9, <1>10

\* Every reachable state satisfies the invariant of the logins.
LEMMA LoginInvariant == Spec => []LoginInv
<1>1. ASSUME LoginInv, [Next]_vars PROVE LoginInv'
  <2>1. CASE UNCHANGED loginVars
    BY <1>1, <2>1, LoginKept
  <2>2. ASSUME NEW p \in Procs, Process(p) PROVE LoginInv'
    BY <1>1, <2>1, <2>2, LoginLost DEF Process, Start, MigrateStep, Listen, Terminate, RunReturns, Crash
  <2>3. CASE Browser
    BY <1>1, <2>3, LoginStep, CallBackKeeps, TakeKeeps, ExchangeKeeps DEF Browser
  <2> QED BY <1>1, <2>1, <2>2, <2>3 DEF Next, vars
<1> QED BY <1>1, LoginInit, PTL DEF Spec

\* A state is exchanged once, whatever the browsers, replicas and restarts do.
THEOREM StatesAreSpentOnce == Spec => []OneExchangePerState
BY LoginInvariant, PTL DEF LoginInv

\* A callback whose state is fresh and on the process it asks is not refused.
THEOREM RefusalsHaveCauses == Spec => []RefusedForCause
<1>1. LoginInv => RefusedForCause
  BY DEF LoginInv, Refusals, Took, RefusedForCause
<1> QED BY <1>1, LoginInvariant, PTL

\* The variables of ServerLifecycle have their types.
THEOREM LifecycleTypes == Spec => []LifecycleTypeOK
<1>1. Init => faults \in 0 .. MaxFaults
  BY FaultsAssumption DEF Init
<1>2. ASSUME faults \in 0 .. MaxFaults, [Next]_vars PROVE (faults \in 0 .. MaxFaults)'
  BY <1>2, FaultsAssumption DEF Next, Process, Start, MigrateStep, Migrate, MigrateOn, CreateLedger, Check,
     Apply, Record, Commit, CommitUnconfirmed, Abort, Listen, Terminate, RunReturns, Crash, Fault,
     Browser, Login, Authorize, GrowOld, CallBack, Take, Exchange, vars
<1>3. Spec => [](faults \in 0 .. MaxFaults)
  BY <1>1, <1>2, PTL DEF Spec
<1>4. SchemaInv /\ LoginInv /\ faults \in 0 .. MaxFaults => LifecycleTypeOK
  BY DEF SchemaInv, LoginInv, LoginTypes, LifecycleTypeOK
<1>5. Spec => []SchemaInv
  BY SchemaInit, SchemaStep, PTL DEF Spec
<1> QED BY <1>3, <1>4, <1>5, LoginInvariant, PTL
=============================================================================
