----------------------------- MODULE Directory -----------------------------
(***************************************************************************)
(* Who may use which buddy, while administrators change it: the admin API  *)
(* (server/internal/api/admin.go) behind its middleware (middleware.go),   *)
(* the API-key check of a buddy that connects (buddy_ws.go), the access    *)
(* check of a question (hatchling.go), and the paged listing of threads.   *)
(*                                                                         *)
(* One step per SQL statement or registry call.  A key is the number of    *)
(* its issue: auth.GenerateAPIKey never returns one twice.  Any statement  *)
(* may fail, which ends its request with a 500.  Refusals with different   *)
(* statuses are told apart in comments only.                               *)
(***************************************************************************)
EXTENDS Buddies, FiniteSets, Functions

CONSTANTS
    AdminEmails,  \* CLAWGARD_ADMIN_EMAILS
    DevAdmin,     \* admin@clawgard.test, who presents the dev admin key
    Credentials,  \* what a caller of the admin API may present
    Bodies,       \* ACLs that clients send
    NoBuddy, NoConn, NoEmail,   \* stand for none of them
    Conns,        \* attempts of daemons to connect
    Opens,        \* POST /v1/threads requests, and the threads they open
    Asker,        \* Asker[o]: the email in the token of o
    Walks,        \* clients that page through GET /v1/admin/threads
    Filters,      \* the hatchlingEmail they may give, NoEmail for none
    PageSize,     \* their pageSize
    MaxKeys       \* bound on the keys that are issued

\* A credential is the email that the session cookie resolves to, if it has
\* a valid one, and a bearer token: the dev admin key or the token of a user.
Bearers == {"none", "devkey", "jwt"}

ASSUME CredentialsAssumption ==
    Credentials \subseteq [session : Emails \cup {NoEmail}, bearer : Bearers]
ASSUME NoneAssumption == NoBuddy \notin Ids /\ NoConn \notin Conns /\ NoEmail \notin Emails
ASSUME AdminsAssumption == AdminEmails \subseteq Emails /\ DevAdmin \in Emails
ASSUME BodiesAssumption == Bodies \subseteq AclBodies
ASSUME AskerAssumption == Asker \in [Opens -> Emails]
ASSUME FiltersAssumption == Filters \subseteq Emails \cup {NoEmail}
ASSUME PagesAssumption == PageSize \in Nat \ {0} /\ MaxKeys \in Nat

VARIABLES
    keys,    \* how many keys were issued
    conn,    \* conn[c]: an attempt to connect, then the connection
    entry,   \* entry[b]: the connection the registry has for b
    open,    \* open[o]: a request to open a thread
    born,    \* born[o]: the created_at of its row, 0 before
    shown,   \* the threads whose rows are committed
    clock,   \* the database's clock
    walk     \* walk[w]: a client that pages through the threads

threadVars == <<born, shown, clock>>
vars == <<rows, keys, conn, entry, open, threadVars, walk>>

-----------------------------------------------------------------------------

\* The locals of a handler are gone when it returns.
IdleConn == [at |-> "idle", key |-> 0, buddy |-> NoBuddy]
OverConn == [IdleConn EXCEPT !.at = "over"]
IdleOpen == [at |-> "idle", target |-> NoBuddy]
IdleWalk == [at |-> "idle", page |-> 1, email |-> NoEmail, seen |-> {}, due |-> {}]

Init ==
    /\ rows  = [b \in Ids |-> NoRow]
    /\ keys  = 0
    /\ conn  = [c \in Conns |-> IdleConn]
    /\ entry = [b \in Ids |-> NoConn]
    /\ open  = [o \in Opens |-> IdleOpen]
    /\ born  = [o \in Opens |-> 0]
    /\ shown = {}
    /\ clock = 1
    /\ walk  = [w \in Walks |-> IdleWalk]

-----------------------------------------------------------------------------
(* The admin API.  Each handler runs one statement, so it is one step; one *)
(* that is refused or fails changes nothing.                               *)

\* AdminMiddlewareWithSession, as server.New builds it: with no admin groups
\* a user's token is always refused (hasAnyGroup).  NoEmail: no identity.
AdminCaller(cred) ==
    IF cred.session \in AdminEmails THEN cred.session
    ELSE IF cred.bearer = "devkey" THEN DevAdmin
    ELSE NoEmail

IsAdmin(cred) == AdminCaller(cred) # NoEmail

WithDefault(acl_) == [acl_ EXCEPT !.mode = IF @ = "missing" THEN "public" ELSE @]

adminCreateBuddy(cred, b, name_, acl_) ==
    /\ IsAdmin(cred) /\ keys < MaxKeys
    /\ keys' = keys + 1
    /\ BuddiesCreate(b, name_, AdminCaller(cred), keys', WithDefault(acl_))
    /\ UNCHANGED <<conn, entry, open, threadVars, walk>>

adminUpdateBuddy(cred, b, acl_) ==
    /\ IsAdmin(cred)
    /\ BuddiesUpdate(b, acl_)
    /\ UNCHANGED <<keys, conn, entry, open, threadVars, walk>>

adminRotateBuddyKey(cred, b) ==
    /\ IsAdmin(cred) /\ keys < MaxKeys
    /\ keys' = keys + 1
    /\ BuddiesUpdateAPIKeyHash(b, keys')
    /\ UNCHANGED <<conn, entry, open, threadVars, walk>>

adminDeleteBuddy(cred, b) ==
    /\ IsAdmin(cred)
    /\ BuddiesDelete(b)
    /\ UNCHANGED <<keys, conn, entry, open, threadVars, walk>>

\* The roles that GET /v1/me gives to the email of a session.
Roles(e) ==
    {"hatchling"} \cup {r \in {"admin"} : e \in AdminEmails}
                  \cup {r \in {"buddy_owner"} : HasBuddiesOwnedBy(e)}

Admin ==
    \E cred \in Credentials, b \in Ids :
        \/ \E name \in Names, acl \in Bodies : adminCreateBuddy(cred, b, name, acl)
        \/ \E acl \in Bodies : adminUpdateBuddy(cred, b, acl)
        \/ adminRotateBuddyKey(cred, b)
        \/ adminDeleteBuddy(cred, b)

-----------------------------------------------------------------------------
(* GET /v1/buddy/connect: ListAll and a slow comparison with every hash,   *)
(* then Accept and RegisterBuddy.  The registry is what module Registry    *)
(* promises of it: the newest connection has the entry.                    *)

\* A daemon presents any key that was ever issued.
Dial(c) ==
    /\ conn[c].at = "idle"
    /\ \E k \in 1 .. keys : conn' = [conn EXCEPT ![c].at = "dialled", ![c].key = k]
    /\ UNCHANGED <<rows, keys, entry, open, threadVars, walk>>

\* Mutant: every row is scanned, deleted or not.
lookupEver(c) ==
    /\ conn[c].at = "dialled"
    /\ \/ \E b \in ListAllEver :
              /\ rows[b].key = conn[c].key
              /\ conn' = [conn EXCEPT ![c] = [at |-> "known", key |-> 0, buddy |-> b]]
       \/ conn' = [conn EXCEPT ![c] = OverConn]
    /\ UNCHANGED <<rows, keys, entry, open, threadVars, walk>>

\* 401 when no live row has the key, or the statement fails.
lookupBuddyByAPIKey(c) ==
    /\ conn[c].at = "dialled"
    /\ \/ \E b \in ListAll :
              /\ rows[b].key = conn[c].key
              /\ conn' = [conn EXCEPT ![c] = [at |-> "known", key |-> 0, buddy |-> b]]
       \/ conn' = [conn EXCEPT ![c] = OverConn]
    /\ UNCHANGED <<rows, keys, entry, open, threadVars, walk>>

Serve(c) ==
    /\ conn[c].at = "known"
    /\ \/ /\ conn'  = [conn EXCEPT ![c].at = "serving"]
          /\ entry' = [entry EXCEPT ![conn[c].buddy] = c]
       \/ conn' = [conn EXCEPT ![c] = OverConn] /\ UNCHANGED entry
    /\ UNCHANGED <<rows, keys, open, threadVars, walk>>

EndConn(c) ==
    /\ conn[c].at = "serving"
    /\ conn'  = [conn EXCEPT ![c] = OverConn]
    /\ entry' = [b \in Ids |-> IF entry[b] = c THEN NoConn ELSE entry[b]]
    /\ UNCHANGED <<rows, keys, open, threadVars, walk>>

Connection(c) == Dial(c) \/ lookupBuddyByAPIKey(c) \/ Serve(c) \/ EndConn(c)

-----------------------------------------------------------------------------
(* POST /v1/threads: GetByID and aclAllows, Online, Threads.Open; what     *)
(* comes after is in module Relay.                                         *)

Step(o, at_) == open' = [open EXCEPT ![o].at = at_]
End(o, at_)  == open' = [open EXCEPT ![o] = [at |-> at_, target |-> NoBuddy]]

\* A hatchling knows the ids of buddies from an earlier listing.
Ask(o, b) ==
    /\ open[o].at = "idle" /\ Exists(b)
    /\ open' = [open EXCEPT ![o] = [at |-> "sent", target |-> b]]
    /\ UNCHANGED <<rows, keys, conn, entry, threadVars, walk>>

\* Mutant: the access rule is left to the listing.
GetByIDOnly(o) ==
    /\ open[o].at = "sent"
    /\ \/ Live(open[o].target) /\ Step(o, "allowed")
       \/ End(o, "refused")
    /\ UNCHANGED <<rows, keys, conn, entry, threadVars, walk>>

MayAsk(o) ==
    LET b == open[o].target IN b \in ListAll /\ aclAllows(rows[b].acl, Asker[o])

\* 404 for a deleted buddy, 403 for one that refuses the caller, or a 500.
GetByID(o) ==
    /\ open[o].at = "sent"
    /\ \/ MayAsk(o) /\ Step(o, "allowed")
       \/ End(o, "refused")
    /\ UNCHANGED <<rows, keys, conn, entry, threadVars, walk>>

\* 503 when the buddy is offline.  The INSERT takes its created_at, NOW(),
\* which it may share with others.
Online(o) ==
    /\ open[o].at = "allowed"
    /\ \/ /\ entry[open[o].target] # NoConn
          /\ clock' \in {clock, clock + 1}
          /\ born'  = [born EXCEPT ![o] = clock']
          /\ Step(o, "inserting")
       \/ /\ entry[open[o].target] = NoConn
          /\ End(o, "refused")
          /\ UNCHANGED <<born, clock>>
    /\ UNCHANGED <<rows, keys, conn, entry, shown, walk>>

\* The row is committed, maybe after one that is younger.
OpenThread(o) ==
    /\ open[o].at = "inserting"
    /\ \/ End(o, "opened") /\ shown' = shown \cup {o}
       \/ End(o, "refused") /\ UNCHANGED shown
    /\ UNCHANGED <<rows, keys, conn, entry, born, clock, walk>>

OpenRequest(o) == (\E b \in Ids : Ask(o, b)) \/ GetByID(o) \/ Online(o) \/ OpenThread(o)

-----------------------------------------------------------------------------
(* GET /v1/admin/threads.  Its total, the result of a CountWithFilter that *)
(* runs before ListWithFilter, is only shown.                              *)

\* buildFilterClause with a hatchlingEmail, or without.
Matching(email) == {o \in shown : email = NoEmail \/ Asker[o] = email}

\* ORDER BY created_at DESC: the positions a query may give to the rows of S.
\* Nothing breaks ties, so two queries may order rows of one time differently.
Orders(S) ==
    {pos \in Bijection(S, 0 .. Cardinality(S) - 1) :
        \A u, v \in S : born[u] > born[v] => pos[u] < pos[v]}

\* Mutant: pages are counted from zero.
PageOfFromZero(page, pos) ==
    {o \in DOMAIN pos : page * PageSize <= pos[o] /\ pos[o] < (page + 1) * PageSize}

\* LIMIT and OFFSET as parseThreadFilter sets them.
PageOf(page, pos) ==
    {o \in DOMAIN pos : (page - 1) * PageSize <= pos[o] /\ pos[o] < page * PageSize}

\* due is a history variable: what the walk has to show.
StartWalk(w, email_) ==
    /\ walk[w].at = "idle"
    /\ walk' = [walk EXCEPT ![w].at = "paging", ![w].email = email_,
                            ![w].due = Matching(email_)]
    /\ UNCHANGED <<rows, keys, conn, entry, open, threadVars>>

\* The client asks for the next page until one is not full.
ListWithFilter(w) ==
    /\ walk[w].at = "paging"
    /\ \E pos \in Orders(Matching(walk[w].email)) :
           LET items == PageOf(walk[w].page, pos)
           IN walk' = [walk EXCEPT
                  ![w].at   = IF Cardinality(items) < PageSize THEN "done" ELSE "paging",
                  ![w].page = @ + 1,
                  ![w].seen = @ \cup items]
    /\ UNCHANGED <<rows, keys, conn, entry, open, threadVars>>

Listing(w) ==
    \/ \E email \in Filters : StartWalk(w, email)
    \/ ListWithFilter(w)

-----------------------------------------------------------------------------

Next ==
    \/ Admin
    \/ \E c \in Conns : Connection(c)
    \/ \E o \in Opens : OpenRequest(o)
    \/ \E w \in Walks : Listing(w)

Spec == Init /\ [][Next]_vars

-----------------------------------------------------------------------------

TypeOK ==
    /\ rows  \in [Ids -> Rows \cup {NoRow}]
    /\ keys  \in 0 .. MaxKeys
    /\ conn  \in [Conns -> [at : {"idle", "dialled", "known", "serving", "over"},
                            key : Nat, buddy : Ids \cup {NoBuddy}]]
    /\ entry \in [Ids -> Conns \cup {NoConn}]
    /\ open  \in [Opens -> [at : {"idle", "sent", "allowed", "inserting", "opened", "refused"},
                            target : Ids \cup {NoBuddy}]]
    /\ born  \in [Opens -> Nat]
    /\ shown \in SUBSET Opens
    /\ clock \in Nat
    /\ walk  \in [Walks -> [at : {"idle", "paging", "done"}, page : Nat,
                            email : Emails \cup {NoEmail},
                            seen : SUBSET Opens, due : SUBSET Opens]]

\* The two places that decide over access agree, whatever ACL an administrator
\* has stored: whoever finds a buddy in the listing and may not ask it is the
\* owner of that buddy, whom the dashboard calls an owner too; and whom
\* aclAllows lets ask a buddy can find it there.  They differ in one case: a
\* buddy of mode "group" that names no group is open to tokens with an empty
\* group, and hidden from them.
AskableIsListed ==
    \A b \in ListAll, e \in Emails :
        LET acl == rows[b].acl IN
        /\ b \in ListForCaller(e) =>
               \/ aclAllows(acl, e)
               \/ rows[b].owner = e /\ "buddy_owner" \in Roles(e)
        /\ aclAllows(acl, e) =>
               \/ b \in ListForCaller(e)
               \/ acl.mode = "group" /\ acl.group = Null /\ Null \in GroupsOf[e]

\* Whatever credentials are presented, every buddy belongs to an administrator.
OwnersAreAdmins ==
    \A b \in Ids : Exists(b) => rows[b].owner \in AdminEmails \cup {DevAdmin}

KeyLive(k) == \E b \in ListAll : rows[b].key = k

\* A daemon that dials with a key that was rotated away, or whose buddy is
\* deleted, never gets to serve: the list of rows it is compared with is read
\* after it dialled.
OldKeysAreDead ==
    \A c \in Conns :
        [](conn[c].at = "dialled" /\ ~ KeyLive(conn[c].key) => [](conn[c].at # "serving"))

\* A question sent after its buddy was deleted or has stopped to accept the
\* caller opens no thread, unless access is given again meanwhile.
RevocationIsFinal ==
    \A o \in Opens :
        []((open[o].at = "sent" /\ [](~ MayAsk(o))) => [](open[o].at # "opened"))

\* Paging through the threads misses none that existed at the start, however
\* many are opened meanwhile: they only push the others to later pages.  The
\* exception are threads of one created_at, which may change places between
\* two pages.
WalkMissesNothing ==
    \A w \in Walks : walk[w].at = "done" =>
        \A o \in walk[w].due \ walk[w].seen :
            \E u \in Matching(walk[w].email) \ {o} : born[u] = born[o]
=============================================================================
