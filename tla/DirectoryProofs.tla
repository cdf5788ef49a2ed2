-------------------------- MODULE DirectoryProofs --------------------------
(***************************************************************************)
(* For any number of buddies, keys, connections, requests and readers: the *)
(* two access rules agree, only administrators own buddies, neither a dead *)
(* key nor a revoked access is good for anything later, and a client that  *)
(* pages through the threads misses none but for those of one created_at.  *)
(***************************************************************************)
EXTENDS Directory, FunctionTheorems, FiniteSetTheorems, TLAPS

\* A handler that got as far as using its buddy has one, and a daemon dials
\* with a key that was issued.
InStep ==
    /\ \A c \in Conns :
           /\ conn[c].at = "dialled" => conn[c].key \in 1 .. keys
           /\ conn[c].at \in {"known", "serving"} => conn[c].buddy \in Ids
    /\ \A o \in Opens : open[o].at \in {"sent", "allowed", "inserting"} => open[o].target \in Ids

DirectoryInv == TypeOK /\ InStep /\ OwnersAreAdmins

USE DEF vars, threadVars

-----------------------------------------------------------------------------
(* The invariant.                                                          *)

\* The initial state satisfies the invariant.
LEMMA DirectoryInit == Init => DirectoryInv
BY PagesAssumption DEF Init, DirectoryInv, TypeOK, InStep, OwnersAreAdmins, Exists,
   IdleConn, IdleOpen, IdleWalk

\* Only an administrator passes the middleware.
LEMMA CallersAreAdmins ==
    ASSUME NEW cred \in Credentials, IsAdmin(cred)
    PROVE  AdminCaller(cred) \in AdminEmails \cup {DevAdmin}
BY DEF IsAdmin, AdminCaller

\* What an administrator stores is a row of the table.
LEMMA AdminStep ==
    ASSUME DirectoryInv, Admin
    PROVE  DirectoryInv'
<1> USE DEF DirectoryInv, TypeOK, InStep, OwnersAreAdmins
<1>1. PICK cred \in Credentials, b \in Ids :
          \/ \E name \in Names, acl \in Bodies : adminCreateBuddy(cred, b, name, acl)
          \/ \E acl \in Bodies : adminUpdateBuddy(cred, b, acl)
          \/ adminRotateBuddyKey(cred, b)
          \/ adminDeleteBuddy(cred, b)
  BY DEF Admin
<1>2. CASE \E name \in Names, acl \in Bodies : adminCreateBuddy(cred, b, name, acl)
  <2>1. PICK name \in Names, acl \in Bodies : adminCreateBuddy(cred, b, name, acl)
    BY <1>2
  <2> DEFINE row == [name |-> name, owner |-> AdminCaller(cred), key |-> keys + 1, deleted |-> FALSE,
                     acl |-> Stored([WithDefault(acl) EXCEPT !.users = IF WithDefault(acl).hasUsers THEN @ ELSE {}])]
  <2>2. AdminCaller(cred) \in AdminEmails \cup {DevAdmin}
    BY <2>1, CallersAreAdmins DEF adminCreateBuddy
  <2>3. row.acl \in RowAcls
    BY <2>1, BodiesAssumption DEF adminCreateBuddy, BuddiesCreate, CreatePossible, WithDefault,
       Stored, RowAcls, AclBodies, Modes
  <2>4. row \in Rows
    BY <2>2, <2>3, AdminsAssumption DEF Rows
  <2>5. rows' = [rows EXCEPT ![b] = row]
    BY <2>1 DEF adminCreateBuddy, BuddiesCreate
  <2>6. keys' = keys + 1 /\ keys' \in 0 .. MaxKeys
    BY <2>1, PagesAssumption DEF adminCreateBuddy
  <2>7. UNCHANGED <<conn, entry, open, threadVars, walk>>
    BY <2>1 DEF adminCreateBuddy
  <2>8. row.owner \in AdminEmails \cup {DevAdmin}
    BY <2>2
  <2>9. OwnersAreAdmins'
    BY <2>5, <2>8 DEF Exists
  <2>10. TypeOK'
    BY <2>4, <2>5, <2>6, <2>7
  <2>11. InStep'
    BY <2>6, <2>7
  <2> QED BY <2>9, <2>10, <2>11
<1>3. CASE \E acl \in Bodies : adminUpdateBuddy(cred, b, acl)
  <2>1. PICK acl \in Bodies : adminUpdateBuddy(cred, b, acl)
    BY <1>3
  <2>2. Stored(acl) \in RowAcls
    BY <2>1, BodiesAssumption DEF adminUpdateBuddy, BuddiesUpdate, UpdatePossible, Stored, RowAcls,
       AclBodies
  <2>3. rows[b] \in Rows /\ rows' = [rows EXCEPT ![b] = [rows[b] EXCEPT !.acl = Stored(acl)]]
    BY <2>1 DEF adminUpdateBuddy, BuddiesUpdate, Live, Exists
  <2>4. [rows[b] EXCEPT !.acl = Stored(acl)] \in Rows
    BY <2>2, <2>3 DEF Rows
  <2>5. OwnersAreAdmins'
    BY <2>1, <2>3 DEF Exists, Rows, Live, adminUpdateBuddy, BuddiesUpdate
  <2> QED BY <2>1, <2>3, <2>4, <2>5 DEF adminUpdateBuddy
<1>4. CASE adminRotateBuddyKey(cred, b)
  <2>1. rows[b] \in Rows /\ rows' = [rows EXCEPT ![b] = [rows[b] EXCEPT !.key = keys']]
    BY <1>4 DEF adminRotateBuddyKey, BuddiesUpdateAPIKeyHash, Live, Exists
  <2>2. keys' = keys + 1 /\ keys' \in 0 .. MaxKeys
    BY <1>4, PagesAssumption DEF adminRotateBuddyKey
  <2>3. [rows[b] EXCEPT !.key = keys'] \in Rows
    BY <2>1, <2>2 DEF Rows
  <2>4. OwnersAreAdmins'
    BY <1>4, <2>1 DEF Exists, Rows, Live, adminRotateBuddyKey, BuddiesUpdateAPIKeyHash
  <2>5. UNCHANGED <<conn, entry, open, threadVars, walk>>
    BY <1>4 DEF adminRotateBuddyKey
  <2> QED BY <2>1, <2>2, <2>3, <2>4, <2>5
<1>5. CASE adminDeleteBuddy(cred, b)
  <2>1. rows[b] \in Rows /\ rows' = [rows EXCEPT ![b] = [rows[b] EXCEPT !.deleted = TRUE]]
    BY <1>5 DEF adminDeleteBuddy, BuddiesDelete, Live, Exists
  <2>2. [rows[b] EXCEPT !.deleted = TRUE] \in Rows
    BY <2>1 DEF Rows
  <2>3. OwnersAreAdmins'
    BY <1>5, <2>1 DEF Exists, Rows, Live, adminDeleteBuddy, BuddiesDelete
  <2> QED BY <1>5, <2>1, <2>2, <2>3 DEF adminDeleteBuddy
<1> QED BY <1>1, <1>2, <1>3, <1>4, <1>5

\* Connections, questions and listings keep the table as it is.
LEMMA TableKept ==
    ASSUME \/ \E c \in Conns : Connection(c)
           \/ \E o \in Opens : OpenRequest(o)
           \/ \E w \in Walks : Listing(w)
    PROVE  UNCHANGED <<rows, keys>>
BY DEF Connection, Dial, lookupBuddyByAPIKey, Serve, EndConn, OpenRequest, Ask, GetByID, Online,
   OpenThread, Listing, StartWalk, ListWithFilter

LEMMA OtherStep ==
    ASSUME DirectoryInv,
           \/ \E c \in Conns : Connection(c)
           \/ \E o \in Opens : OpenRequest(o)
           \/ \E w \in Walks : Listing(w)
    PROVE  DirectoryInv'
<1>1. UNCHANGED <<rows, keys>> /\ OwnersAreAdmins'
  BY TableKept DEF DirectoryInv, OwnersAreAdmins, Exists
<1> SUFFICES TypeOK' /\ InStep'
  BY <1>1 DEF DirectoryInv
<1> USE <1>1 DEF DirectoryInv, TypeOK, InStep
<1>2. CASE \E c \in Conns : Connection(c)
  <2>1. PICK c \in Conns : Connection(c)
    BY <1>2
  <2>2. UNCHANGED <<open, threadVars, walk>>
    BY <2>1 DEF Connection, Dial, lookupBuddyByAPIKey, Serve, EndConn
  <2>3. CASE Dial(c)
    <3>1. PICK k \in 1 .. keys : conn' = [conn EXCEPT ![c].at = "dialled", ![c].key = k]
      BY <2>3 DEF Dial
    <3>2. k \in Nat /\ UNCHANGED entry
      BY <2>3 DEF Dial
    <3> DEFINE rec == [conn[c] EXCEPT !.at = "dialled", !.key = k]
    <3>3. rec \in [at : {"idle", "dialled", "known", "serving", "over"}, key : Nat, buddy : Ids \cup {NoBuddy}]
      BY <3>2
    <3>4. conn' = [conn EXCEPT ![c] = rec]
      BY <3>1
    <3>5. rec.at = "dialled" /\ rec.key = k
      OBVIOUS
    <3> HIDE DEF rec
    <3>6. TypeOK'
      BY <2>2, <3>2, <3>3, <3>4
    <3>7. InStep'
      BY <2>2, <3>4, <3>5
    <3> QED BY <3>6, <3>7
  <2>4. CASE lookupBuddyByAPIKey(c)
    <3>1. UNCHANGED entry
      BY <2>4 DEF lookupBuddyByAPIKey
    <3>2. CASE \E b \in Ids : conn' = [conn EXCEPT ![c] = [at |-> "known", key |-> 0, buddy |-> b]]
      BY <2>2, <3>1, <3>2
    <3>3. CASE conn' = [conn EXCEPT ![c] = OverConn]
      BY <2>2, <3>1, <3>3 DEF OverConn, IdleConn
    <3> QED BY <2>4, <3>2, <3>3 DEF lookupBuddyByAPIKey, ListAll
  <2>5. CASE Serve(c)
    <3>1. CASE conn' = [conn EXCEPT ![c].at = "serving"] /\ entry' = [entry EXCEPT ![conn[c].buddy] = c]
      BY <2>2, <2>5, <3>1 DEF Serve
    <3>2. CASE conn' = [conn EXCEPT ![c] = OverConn] /\ UNCHANGED entry
      BY <2>2, <3>2 DEF OverConn, IdleConn
    <3> QED BY <2>5, <3>1, <3>2 DEF Serve
  <2>6. CASE EndConn(c)
    BY <2>2, <2>6 DEF EndConn, OverConn, IdleConn
  <2> QED BY <2>1, <2>3, <2>4, <2>5, <2>6 DEF Connection
<1>3. CASE \E o \in Opens : OpenRequest(o)
  <2>1. PICK o \in Opens : OpenRequest(o)
    BY <1>3
  <2>2. UNCHANGED <<conn, entry, walk>>
    BY <2>1 DEF OpenRequest, Ask, GetByID, Online, OpenThread
  <2>3. CASE \E b \in Ids : Ask(o, b)
    BY <2>2, <2>3 DEF Ask
  <2>4. CASE GetByID(o)
    <3>1. CASE Step(o, "allowed")
      BY <2>2, <2>4, <3>1 DEF GetByID, Step
    <3>2. CASE End(o, "refused")
      BY <2>2, <2>4, <3>2 DEF GetByID, End
    <3> QED BY <2>4, <3>1, <3>2 DEF GetByID
  <2>5. CASE Online(o)
    <3>1. CASE Step(o, "inserting")
      <4>1. open' = [open EXCEPT ![o].at = "inserting"] /\ UNCHANGED shown
        BY <2>5, <3>1 DEF Online, Step
      <4>2. clock' \in Nat /\ born' \in [Opens -> Nat]
        BY <2>5, <3>1 DEF Online, Step
      <4>3. open' \in [Opens -> [at : {"idle", "sent", "allowed", "inserting", "opened", "refused"},
                               target : Ids \cup {NoBuddy}]]
        BY <4>1
      <4>5. TypeOK'
        BY <2>2, <4>1, <4>2, <4>3
      <4>4. InStep'
        BY <2>2, <2>5, <4>1 DEF Online
      <4> QED BY <4>4, <4>5
    <3>2. CASE End(o, "refused")
      BY <2>2, <2>5, <3>2 DEF Online, Step, End
    <3> QED BY <2>5, <3>1, <3>2 DEF Online
  <2>6. CASE OpenThread(o)
    <3>1. CASE End(o, "opened") /\ shown' = shown \cup {o}
      BY <2>2, <2>6, <3>1 DEF OpenThread, End
    <3>2. CASE End(o, "refused") /\ UNCHANGED shown
      BY <2>2, <2>6, <3>2 DEF OpenThread, End
    <3> QED BY <2>6, <3>1, <3>2 DEF OpenThread
  <2> QED BY <2>1, <2>3, <2>4, <2>5, <2>6 DEF OpenRequest
<1>4. CASE \E w \in Walks : Listing(w)
  <2>1. PICK w \in Walks : Listing(w)
    BY <1>4
  <2>2. UNCHANGED <<conn, entry, open, threadVars>>
    BY <2>1 DEF Listing, StartWalk, ListWithFilter
  <2>3. CASE \E email \in Filters : StartWalk(w, email)
    <3>1. PICK email \in Filters : StartWalk(w, email)
      BY <2>3
    <3>2. email \in Emails \cup {NoEmail} /\ Matching(email) \in SUBSET Opens
      BY FiltersAssumption DEF Matching
    <3>3. walk' = [walk EXCEPT ![w].at = "paging", ![w].email = email, ![w].due = Matching(email)]
      BY <3>1 DEF StartWalk
    <3> DEFINE rec == [walk[w] EXCEPT !.at = "paging", !.email = email, !.due = Matching(email)]
    <3>4. rec \in [at : {"idle", "paging", "done"}, page : Nat, email : Emails \cup {NoEmail},
                  seen : SUBSET Opens, due : SUBSET Opens]
      BY <3>2
    <3>5. walk' = [walk EXCEPT ![w] = rec]
      BY <3>3
    <3> HIDE DEF rec
    <3> QED BY <2>2, <3>4, <3>5
  <2>4. CASE ListWithFilter(w)
    <3>0. PICK pos \in Orders(Matching(walk[w].email)) :
              LET items == PageOf(walk[w].page, pos)
              IN walk' = [walk EXCEPT
                     ![w].at   = IF Cardinality(items) < PageSize THEN "done" ELSE "paging",
                     ![w].page = @ + 1,
                     ![w].seen = @ \cup items]
      BY <2>4 DEF ListWithFilter
    <3> DEFINE items == PageOf(walk[w].page, pos)
               next  == IF Cardinality(items) < PageSize THEN "done" ELSE "paging"
    <3>1. items \in SUBSET Opens
      <4>1. DOMAIN pos = Matching(walk[w].email)
        BY DEF Orders, Bijection, Injection
      <4> QED BY <4>1 DEF PageOf, Matching
    <3>2. next \in {"paging", "done"}
      OBVIOUS
    <3>3. walk' = [walk EXCEPT ![w].at = next, ![w].page = walk[w].page + 1,
                               ![w].seen = walk[w].seen \cup items]
      BY <3>0
    <3> HIDE DEF items, next
    <3> QED BY <2>2, <3>1, <3>2, <3>3
  <2> QED BY <2>1, <2>3, <2>4 DEF Listing
<1> QED BY <1>2, <1>3, <1>4

\* Every reachable state satisfies the invariant.
LEMMA DirectoryInvariant == Spec => []DirectoryInv
<1>1. DirectoryInv /\ UNCHANGED vars => DirectoryInv'
  BY DEF DirectoryInv, TypeOK, InStep, OwnersAreAdmins, Exists
<1>2. DirectoryInv /\ [Next]_vars => DirectoryInv'
  BY <1>1, AdminStep, OtherStep DEF Next
<1> QED BY <1>2, DirectoryInit, PTL DEF Spec

-----------------------------------------------------------------------------
(* What it gives.                                                          *)

\* The variables of Directory have their types.
THEOREM DirectoryTypes == Spec => []TypeOK
BY DirectoryInvariant, PTL DEF DirectoryInv

\* No request gets past the middleware of the admin API, and so none creates
\* a buddy, without the credentials of an administrator.
THEOREM AdminsOwnBuddies == Spec => []OwnersAreAdmins
BY DirectoryInvariant, PTL DEF DirectoryInv

\* ListForCaller (SQL) and aclAllows (Go) agree on every row that the admin
\* API can store, for any groups in any token, up to the owner of the buddy, who
\* sees it always, and a group mode without a group, which SQL hides from a
\* token with an empty group and Go opens to it.
THEOREM AccessRulesAgree == Spec => []AskableIsListed
<1>1. DirectoryInv => AskableIsListed
  <2> SUFFICES ASSUME DirectoryInv, NEW b \in ListAll, NEW e \in Emails
               PROVE  LET acl == rows[b].acl IN
                      /\ b \in ListForCaller(e) =>
                             \/ aclAllows(acl, e)
                             \/ rows[b].owner = e /\ "buddy_owner" \in Roles(e)
                      /\ aclAllows(acl, e) =>
                             \/ b \in ListForCaller(e)
                             \/ acl.mode = "group" /\ acl.group = Null /\ Null \in GroupsOf[e]
    BY DEF AskableIsListed
  <2> DEFINE acl == rows[b].acl
  <2>1. b \in Ids /\ Live(b)
    BY DEF ListAll
  <2>2. acl.mode \in Modes
    BY <2>1 DEF DirectoryInv, TypeOK, Live, Exists, Rows, RowAcls
  <2> HIDE DEF acl
  <2>3. VisibleTo(acl, e) => aclAllows(acl, e)
    BY <2>2 DEF aclAllows, VisibleTo, Modes
  <2>4. aclAllows(acl, e) =>
            VisibleTo(acl, e) \/ (acl.mode = "group" /\ acl.group = Null /\ Null \in GroupsOf[e])
    BY <2>2 DEF aclAllows, VisibleTo, Modes
  <2>5. b \in ListForCaller(e) <=> VisibleTo(acl, e) \/ rows[b].owner = e
    BY <2>1 DEF ListForCaller, acl
  <2>6. rows[b].owner = e => "buddy_owner" \in Roles(e)
    BY <2>1 DEF Roles, HasBuddiesOwnedBy
  <2> QED BY <2>3, <2>4, <2>5, <2>6 DEF acl
<1> QED BY <1>1, DirectoryInvariant, PTL

-----------------------------------------------------------------------------
(* A key that is dead when a daemon dials with it never gets it served.    *)

Doomed(c) ==
    \/ conn[c].at = "dialled" /\ ~ KeyLive(conn[c].key)
    \/ conn[c].at = "over"

\* Keys are issued upwards, so a key that was issued and is dead stays dead.
LEMMA DeadStaysDead ==
    ASSUME DirectoryInv, [Next]_vars, NEW k \in 1 .. keys, ~ KeyLive(k)
    PROVE  ~ KeyLive(k)'
<1> USE DEF DirectoryInv, TypeOK, KeyLive, ListAll, Live, Exists
<1>1. CASE Admin
  <2>1. PICK cred \in Credentials, b \in Ids :
            \/ \E name \in Names, acl \in Bodies : adminCreateBuddy(cred, b, name, acl)
            \/ \E acl \in Bodies : adminUpdateBuddy(cred, b, acl)
            \/ adminRotateBuddyKey(cred, b)
            \/ adminDeleteBuddy(cred, b)
    BY <1>1 DEF Admin
  <2>2. CASE \E name \in Names, acl \in Bodies : adminCreateBuddy(cred, b, name, acl)
    BY <2>2 DEF adminCreateBuddy, BuddiesCreate
  <2>3. CASE \E acl \in Bodies : adminUpdateBuddy(cred, b, acl)
    BY <2>3 DEF adminUpdateBuddy, BuddiesUpdate, Rows
  <2>4. CASE adminRotateBuddyKey(cred, b)
    BY <2>4 DEF adminRotateBuddyKey, BuddiesUpdateAPIKeyHash, Rows
  <2>5. CASE adminDeleteBuddy(cred, b)
    BY <2>5 DEF adminDeleteBuddy, BuddiesDelete, Rows
  <2> QED BY <2>1, <2>2, <2>3, <2>4, <2>5
<1>2. CASE UNCHANGED rows
  BY <1>2
<1>3. CASE \E c \in Conns : Connection(c)
  BY <1>2, <1>3 DEF Connection, Dial, lookupBuddyByAPIKey, Serve, EndConn
<1>4. CASE \E o \in Opens : OpenRequest(o)
  BY <1>2, <1>4 DEF OpenRequest, Ask, GetByID, Online, OpenThread
<1>5. CASE \E w \in Walks : Listing(w)
  BY <1>2, <1>5 DEF Listing, StartWalk, ListWithFilter
<1> QED BY <1>1, <1>2, <1>3, <1>4, <1>5 DEF Next

\* A doomed attempt stays doomed.
LEMMA DoomedStays ==
    ASSUME DirectoryInv, [Next]_vars, NEW c \in Conns, Doomed(c)
    PROVE  Doomed(c)'
<1>1. CASE UNCHANGED conn
  <2>1. conn[c].at = "dialled" => conn[c].key \in 1 .. keys
    BY DEF DirectoryInv, InStep
  <2>2. conn[c].at = "dialled" => ~ KeyLive(conn[c].key)'
    <3> SUFFICES ASSUME conn[c].at = "dialled" PROVE ~ KeyLive(conn[c].key)'
      OBVIOUS
    <3>1. ~ KeyLive(conn[c].key)
      BY DEF Doomed
    <3>2. \A k \in 1 .. keys : ~ KeyLive(k) => ~ KeyLive(k)'
      BY DeadStaysDead
    <3> QED BY <1>1, <2>1, <3>1, <3>2
  <2> QED BY <1>1, <2>2 DEF Doomed, KeyLive
<1>2. CASE \E d \in Conns : Connection(d)
  <2>1. PICK d \in Conns : Connection(d)
    BY <1>2
  <2>2. UNCHANGED rows
    BY <2>1 DEF Connection, Dial, lookupBuddyByAPIKey, Serve, EndConn
  <2>3. CASE d # c
    <3>1. conn'[c] = conn[c]
      BY <2>1, <2>3 DEF Connection, Dial, lookupBuddyByAPIKey, Serve, EndConn, DirectoryInv, TypeOK
    <3> QED BY <2>2, <3>1 DEF Doomed, KeyLive, ListAll, Live, Exists
  <2>4. CASE d = c
    <3>1. CASE lookupBuddyByAPIKey(c)
      <4>1. conn[c].at = "dialled" /\ ~ KeyLive(conn[c].key)
        BY <3>1 DEF Doomed, lookupBuddyByAPIKey
      <4>2. conn' = [conn EXCEPT ![c] = OverConn]
        BY <3>1, <4>1 DEF lookupBuddyByAPIKey, KeyLive
      <4> QED BY <4>2 DEF Doomed, OverConn, IdleConn, DirectoryInv, TypeOK
    <3>2. ~ (Dial(c) \/ Serve(c) \/ EndConn(c))
      BY DEF Doomed, Dial, Serve, EndConn
    <3> QED BY <2>1, <2>4, <3>1, <3>2 DEF Connection
  <2> QED BY <2>3, <2>4
<1>3. CASE Admin
  BY <1>1, <1>3 DEF Admin, adminCreateBuddy, adminUpdateBuddy, adminRotateBuddyKey, adminDeleteBuddy
<1>4. CASE \E o \in Opens : OpenRequest(o)
  BY <1>1, <1>4 DEF OpenRequest, Ask, GetByID, Online, OpenThread
<1>5. CASE \E w \in Walks : Listing(w)
  BY <1>1, <1>5 DEF Listing, StartWalk, ListWithFilter
<1> QED BY <1>1, <1>2, <1>3, <1>4, <1>5 DEF Next

\* A daemon that dials with a dead key is never served.
THEOREM DeadKeysStayDead == Spec => OldKeysAreDead
<1> SUFFICES ASSUME NEW c \in Conns
             PROVE  Spec => [](conn[c].at = "dialled" /\ ~ KeyLive(conn[c].key)
                                   => [](conn[c].at # "serving"))
  BY DEF OldKeysAreDead
<1>1. conn[c].at = "dialled" /\ ~ KeyLive(conn[c].key) => Doomed(c)
  BY DEF Doomed
<1>2. Doomed(c) => conn[c].at # "serving"
  BY DEF Doomed
<1>3. DirectoryInv /\ [Next]_vars /\ Doomed(c) => Doomed(c)'
  BY DoomedStays
<1> QED BY <1>1, <1>2, <1>3, DirectoryInvariant, PTL DEF Spec

-----------------------------------------------------------------------------
(* A question sent when it may not be asked opens no thread.               *)

Waiting(o) == open[o].at \in {"sent", "refused"}

\* As long as the caller is not admitted, the question gets no further.
LEMMA WaitingStays ==
    ASSUME DirectoryInv, [Next]_vars, NEW o \in Opens, Waiting(o), ~ MayAsk(o)
    PROVE  Waiting(o)'
<1>1. CASE UNCHANGED open
  BY <1>1 DEF Waiting
<1>2. CASE \E p \in Opens : OpenRequest(p)
  <2>1. PICK p \in Opens : OpenRequest(p)
    BY <1>2
  <2> USE DEF Waiting, DirectoryInv, TypeOK
  <2>2. CASE \E b \in Ids : Ask(p, b)
    BY <2>2 DEF Ask
  <2>3. CASE GetByID(p)
    BY <2>3 DEF GetByID, Step, End
  <2>4. CASE Online(p)
    BY <2>4 DEF Online, Step, End
  <2>5. CASE OpenThread(p)
    BY <2>5 DEF OpenThread, Step, End
  <2> QED BY <2>1, <2>2, <2>3, <2>4, <2>5 DEF OpenRequest
<1>3. CASE Admin
  BY <1>1, <1>3 DEF Admin, adminCreateBuddy, adminUpdateBuddy, adminRotateBuddyKey, adminDeleteBuddy
<1>4. CASE \E c \in Conns : Connection(c)
  BY <1>1, <1>4 DEF Connection, Dial, lookupBuddyByAPIKey, Serve, EndConn
<1>5. CASE \E w \in Walks : Listing(w)
  BY <1>1, <1>5 DEF Listing, StartWalk, ListWithFilter
<1> QED BY <1>1, <1>2, <1>3, <1>4, <1>5 DEF Next

\* A deleted buddy, and one that no longer admits the caller, is asked nothing.
THEOREM RevocationHolds == Spec => RevocationIsFinal
<1> SUFFICES ASSUME NEW o \in Opens
             PROVE  Spec => []((open[o].at = "sent" /\ [](~ MayAsk(o))) => [](open[o].at # "opened"))
  BY DEF RevocationIsFinal
<1>1. open[o].at = "sent" => Waiting(o)
  BY DEF Waiting
<1>2. Waiting(o) => open[o].at # "opened"
  BY DEF Waiting
<1>3. DirectoryInv /\ [Next]_vars /\ Waiting(o) /\ ~ MayAsk(o) => Waiting(o)'
  BY WaitingStays
<1> QED BY <1>1, <1>2, <1>3, DirectoryInvariant, PTL DEF Spec

-----------------------------------------------------------------------------
(* Pages.  The rank of a thread is the number of younger ones in a listing *)
(* and only grows.  A thread that shares its time with no other has its    *)
(* rank for position, whatever order a query chooses among ties; and a     *)
(* page that threads follow is full.                                       *)

\* A listed thread is not born again, and there are finitely many.
BirthInv ==
    /\ \A o \in shown : open[o].at = "opened"
    /\ IsFiniteSet(shown)

LEMMA BirthInvStep ==
    ASSUME TypeOK, BirthInv, [Next]_vars
    PROVE  /\ BirthInv'
           /\ shown \subseteq shown'
           /\ \A o \in shown : born'[o] = born[o]
<1> USE DEF TypeOK, BirthInv
<1>1. CASE Admin \/ (\E c \in Conns : Connection(c)) \/ UNCHANGED vars
           \/ \E w \in Walks : Listing(w)
  <2>1. UNCHANGED <<open, threadVars>>
    BY <1>1 DEF Admin, adminCreateBuddy, adminUpdateBuddy, adminRotateBuddyKey, adminDeleteBuddy,
       Connection, Dial, lookupBuddyByAPIKey, Serve, EndConn, Listing, StartWalk, ListWithFilter
  <2> QED BY <2>1
<1>2. ASSUME NEW o \in Opens, (\E b \in Ids : Ask(o, b)) \/ GetByID(o)
      PROVE  /\ BirthInv' /\ UNCHANGED threadVars
  <2>1. /\ UNCHANGED threadVars
        /\ o \notin shown /\ open'[o].at # "inserting"
        /\ \A u \in Opens \ {o} : open'[u] = open[u]
    BY <1>2 DEF Ask, GetByID, Step, End
  <2> QED BY <2>1
<1>4. ASSUME NEW o \in Opens, Online(o)
      PROVE  /\ BirthInv' /\ shown' = shown
             /\ \A u \in shown : born'[u] = born[u]
  <2>1. o \notin shown /\ shown' = shown
    BY <1>4 DEF Online
  <2>2. \A u \in Opens \ {o} : open'[u] = open[u] /\ born'[u] = born[u]
    BY <1>4 DEF Online, Step, End
  <2> QED BY <2>1, <2>2
<1>5. ASSUME NEW o \in Opens, OpenThread(o)
      PROVE  /\ BirthInv' /\ shown \subseteq shown' /\ born' = born
  <2>1. open[o].at = "inserting" /\ o \notin shown /\ UNCHANGED <<born, clock>>
    BY <1>5 DEF OpenThread
  <2>2. CASE End(o, "opened") /\ shown' = shown \cup {o}
    <3>1. open'[o].at = "opened" /\ \A u \in Opens \ {o} : open'[u] = open[u]
      BY <2>2 DEF End
    <3>2. IsFiniteSet(shown')
      BY <2>2, FS_AddElement
    <3> QED BY <2>1, <2>2, <3>1, <3>2
  <2>3. CASE End(o, "refused") /\ UNCHANGED shown
    <3>1. open'[o].at = "refused" /\ \A u \in Opens \ {o} : open'[u] = open[u]
      BY <2>3 DEF End
    <3>2. shown' = shown
      BY <2>3
    <3> QED BY <2>1, <3>1, <3>2
  <2> QED BY <1>5, <2>2, <2>3 DEF OpenThread
<1> QED BY <1>1, <1>2, <1>4, <1>5 DEF Next, OpenRequest

LEMMA BirthInvAlways == Spec => []BirthInv
<1>1. Init => BirthInv
  BY FS_EmptySet DEF Init, BirthInv, IdleOpen
<1> QED BY <1>1, BirthInvStep, DirectoryTypes, PTL DEF Spec

\* How many threads of a listing are younger, and whether another is as old.
Rank(o, S) == Cardinality({u \in S : born[u] > born[o]})
Tied(o, S) == \E u \in S \ {o} : born[u] = born[o]

\* The rank of a thread in a listing is a number: the listing is finite.
LEMMA RanksAreNatural ==
    ASSUME BirthInv, NEW S \in SUBSET shown, NEW o \in S
    PROVE  Rank(o, S) \in Nat
<1> DEFINE U == {x \in S : born[x] > born[o]}
<1>1. U \in SUBSET shown
  OBVIOUS
<1> HIDE DEF U
<1>2. Cardinality(U) \in Nat
  BY <1>1, FS_Subset, FS_CardinalityType DEF BirthInv
<1> QED BY <1>2 DEF Rank, U

\* The positions of a query leave no gap.
LEMMA PositionsAreFilled ==
    ASSUME NEW S, IsFiniteSet(S), NEW pos \in Orders(S), NEW lo \in Nat, NEW n \in Nat,
           lo + n <= Cardinality(S)
    PROVE  Cardinality({u \in S : lo <= pos[u] /\ pos[u] < lo + n}) = n
<1> DEFINE P == {u \in S : lo <= pos[u] /\ pos[u] < lo + n}
           J == lo .. (lo + n - 1)
           f == [u \in P |-> pos[u]]
<1>1. Cardinality(S) \in Nat
  BY FS_CardinalityType
<1>2. /\ pos \in [S -> 0 .. Cardinality(S) - 1]
      /\ \A u, v \in S : pos[u] = pos[v] => u = v
      /\ \A k \in 0 .. Cardinality(S) - 1 : \E u \in S : pos[u] = k
  <2>1. /\ pos \in Injection(S, 0 .. Cardinality(S) - 1)
        /\ pos \in Surjection(S, 0 .. Cardinality(S) - 1)
    BY DEF Orders, Bijection
  <2>2. pos \in [S -> 0 .. Cardinality(S) - 1] /\ \A u, v \in S : pos[u] = pos[v] => u = v
    BY <2>1 DEF Injection, IsInjective
  <2>3. \A k \in 0 .. Cardinality(S) - 1 : \E u \in S : pos[u] = k
    BY <2>1 DEF Surjection
  <2> QED BY <2>2, <2>3
<1>3. f \in [P -> J]
  BY <1>1, <1>2
<1>4. ASSUME NEW u \in P, NEW v \in P, f[u] = f[v]
      PROVE  u = v
  BY <1>2, <1>4
<1>5. ASSUME NEW k \in J
      PROVE  \E u \in P : f[u] = k
  <2>1. k \in 0 .. Cardinality(S) - 1 /\ lo <= k /\ k < lo + n
    BY <1>1
  <2>2. PICK u \in S : pos[u] = k
    BY <1>2, <2>1
  <2> QED BY <2>1, <2>2
<1>6. P \in SUBSET S
  OBVIOUS
<1>7. Cardinality(J) = n
  BY FS_Interval
<1> HIDE DEF P, J, f
<1>8. f \in Injection(P, J) /\ f \in Surjection(P, J)
  BY <1>3, <1>4, <1>5, Fun_IsInj, Fun_IsSurj
<1>9. IsFiniteSet(P)
  BY <1>6, FS_Subset
<1>10. Cardinality(J) = Cardinality(P)
  BY <1>8, <1>9, FS_Surjection
<1> QED BY <1>7, <1>10 DEF P

\* A thread that shares its time with no other has its rank for position.
LEMMA PositionIsRank ==
    ASSUME TypeOK, NEW S \in SUBSET Opens, IsFiniteSet(S), NEW pos \in Orders(S),
           NEW o \in S, ~ Tied(o, S)
    PROVE  pos[o] = Rank(o, S)
<1>1. Cardinality(S) \in Nat
  BY FS_CardinalityType
<1>2. /\ pos \in [S -> 0 .. Cardinality(S) - 1]
      /\ \A u, v \in S : born[u] > born[v] => pos[u] < pos[v]
  BY DEF Orders, Bijection, Injection
<1>3. ASSUME NEW u \in S
      PROVE  born[u] > born[o] <=> 0 <= pos[u] /\ pos[u] < 0 + pos[o]
  <2>1. born[u] \in Nat /\ born[o] \in Nat /\ pos[u] \in Nat /\ pos[o] \in Nat
    BY <1>1, <1>2 DEF TypeOK
  <2>2. u = o \/ born[u] # born[o]
    BY DEF Tied
  <2>3. CASE u = o
    BY <2>1, <2>3
  <2>4. CASE born[u] > born[o]
    BY <1>2, <2>1, <2>4
  <2>5. CASE born[o] > born[u]
    BY <1>2, <2>1, <2>5
  <2> QED BY <2>1, <2>2, <2>3, <2>4, <2>5
<1>4. {u \in S : born[u] > born[o]} = {u \in S : 0 <= pos[u] /\ pos[u] < 0 + pos[o]}
  BY <1>3
<1>5. pos[o] \in Nat /\ 0 + pos[o] <= Cardinality(S)
  BY <1>1, <1>2
<1> QED BY <1>4, <1>5, PositionsAreFilled DEF Rank

\* A page that is followed by a thread is full.
LEMMA PagesAreFull ==
    ASSUME NEW S, IsFiniteSet(S), NEW pos \in Orders(S), NEW o \in S,
           NEW lo \in Nat, NEW n \in Nat, ~ (pos[o] < lo + n)
    PROVE  Cardinality({u \in S : lo <= pos[u] /\ pos[u] < lo + n}) = n
<1>1. Cardinality(S) \in Nat /\ pos[o] \in 0 .. Cardinality(S) - 1
  BY FS_CardinalityType DEF Orders, Bijection, Injection
<1>2. lo + n <= Cardinality(S)
  BY <1>1
<1> QED BY <1>2, PositionsAreFilled

\* Threads that are listed later only push a thread to a later page.
LEMMA RanksGrow ==
    ASSUME TypeOK, BirthInv', NEW S \in SUBSET shown, NEW T \in SUBSET shown', S \subseteq T,
           \A u \in S : born'[u] = born[u], NEW o \in S
    PROVE  Rank(o, S) <= Cardinality({u \in T : born'[u] > born'[o]})
<1> DEFINE U == {u \in S : born[u] > born[o]}
           V == {u \in T : born'[u] > born'[o]}
<1>1. U \in SUBSET V /\ V \in SUBSET shown'
  OBVIOUS
<1>2. IsFiniteSet(V)
  BY <1>1, FS_Subset DEF BirthInv
<1> HIDE DEF U, V
<1>3. Cardinality(U) <= Cardinality(V)
  BY <1>1, <1>2, FS_Subset
<1> QED BY <1>3 DEF Rank, U, V

\* A client has seen what it has to show, up to the page it asks for next and
\* except for threads that share their time with another.
WalkPages(w) ==
    LET S == Matching(walk[w].email) IN
    /\ walk[w].page > 0
    /\ walk[w].at = "idle" => walk[w].page = 1
    /\ walk[w].due \subseteq S
    /\ walk[w].at = "paging" =>
           \A o \in walk[w].due :
               Rank(o, S) < (walk[w].page - 1) * PageSize => o \in walk[w].seen \/ Tied(o, S)

WalkIsOver(w) ==
    walk[w].at = "done" =>
        \A o \in walk[w].due \ walk[w].seen : Tied(o, Matching(walk[w].email))

WalkInv == \A w \in Walks : WalkPages(w) /\ WalkIsOver(w)

\* What a listing shows stays in it, a thread in it only moves back, and one
\* that shares its time goes on to share it.
LEMMA ListingGrows ==
    ASSUME TypeOK, BirthInv, [Next]_vars, NEW e, NEW o \in Matching(e)
    PROVE  /\ Matching(e) \subseteq Matching(e)'
           /\ Rank(o, Matching(e)) <= Rank(o, Matching(e))'
           /\ Rank(o, Matching(e)) \in Nat /\ Rank(o, Matching(e))' \in Nat
           /\ Tied(o, Matching(e)) => Tied(o, Matching(e))'
<1> DEFINE S == Matching(e)
           T == Matching(e)'
           V == {u \in T : born'[u] > born'[o]}
           U == {u \in S : born[u] > born[o]}
<1>1. BirthInv' /\ shown \subseteq shown' /\ \A u \in shown : born'[u] = born[u]
  BY BirthInvStep
<1>2. S \in SUBSET shown /\ T \in SUBSET shown' /\ S \subseteq T
  BY <1>1 DEF Matching
<1>3. Rank(o, Matching(e))' = Cardinality(V) /\ Rank(o, Matching(e)) = Cardinality(U)
  BY DEF Rank
<1>4. IsFiniteSet(V) /\ IsFiniteSet(U)
  <2>1. V \in SUBSET shown' /\ U \in SUBSET shown
    BY <1>2
  <2> HIDE DEF V, U
  <2> QED BY <1>1, <2>1, FS_Subset DEF BirthInv
<1>5. Cardinality(V) \in Nat /\ Cardinality(U) \in Nat
  <2> HIDE DEF V, U
  <2> QED BY <1>4, FS_CardinalityType
<1>6. Rank(o, S) <= Cardinality(V)
  <2>1. \A u \in S : born'[u] = born[u]
    BY <1>1, <1>2
  <2>2. o \in S
    OBVIOUS
  <2> HIDE DEF S, T
  <2>3. Rank(o, S) <= Cardinality({u \in T : born'[u] > born'[o]})
    BY <1>1, <1>2, <2>1, <2>2, RanksGrow
  <2> QED BY <2>3
<1>7. Tied(o, Matching(e)) => Tied(o, Matching(e))'
  BY <1>1, <1>2 DEF Tied
<1> QED BY <1>2, <1>3, <1>5, <1>6, <1>7

\* A walk that is not served in this step stays good.
LEMMA WalkKept ==
    ASSUME TypeOK, BirthInv, [Next]_vars, WalkInv, NEW w \in Walks, walk'[w] = walk[w]
    PROVE  WalkPages(w)' /\ WalkIsOver(w)'
<1>0. PICK e \in Emails \cup {NoEmail} : e = walk[w].email
  BY DEF TypeOK
<1>1. WalkPages(w) /\ WalkIsOver(w)
  BY DEF WalkInv
<1>2. walk[w].page \in Nat /\ PageSize \in Nat /\ walk[w].page > 0
  BY <1>1, PagesAssumption DEF TypeOK, WalkPages
<1>3. (walk[w].page - 1) * PageSize \in Nat
  BY <1>2
<1>4. Matching(walk[w].email)' = Matching(e)'
  BY <1>0 DEF Matching
<1>5. ASSUME NEW o \in walk[w].due
      PROVE  /\ o \in Matching(e)'
             /\ Rank(o, Matching(e)) <= Rank(o, Matching(e))'
             /\ Rank(o, Matching(e)) \in Nat /\ Rank(o, Matching(e))' \in Nat
             /\ Tied(o, Matching(e)) => Tied(o, Matching(e))'
  <2>1. o \in Matching(e)
    BY <1>0, <1>1 DEF WalkPages
  <2> QED BY <2>1, ListingGrows
<1>6. ASSUME walk[w].at = "paging", NEW o \in walk[w].due,
             Rank(o, Matching(e))' < (walk[w].page - 1) * PageSize
      PROVE  o \in walk[w].seen \/ Tied(o, Matching(e))'
  <2>1. Rank(o, Matching(e)) < (walk[w].page - 1) * PageSize
    BY <1>3, <1>5, <1>6
  <2>2. o \in walk[w].seen \/ Tied(o, Matching(e))
    BY <1>0, <1>1, <1>6, <2>1 DEF WalkPages
  <2> QED BY <1>5, <2>2
<1>7. ASSUME walk[w].at = "done", NEW o \in walk[w].due \ walk[w].seen
      PROVE  Tied(o, Matching(e))'
  BY <1>0, <1>1, <1>5, <1>7 DEF WalkIsOver
<1>8. WalkPages(w)'
  BY <1>0, <1>1, <1>4, <1>5, <1>6 DEF WalkPages
<1>9. WalkIsOver(w)'
  BY <1>0, <1>4, <1>7 DEF WalkIsOver
<1> QED BY <1>8, <1>9

\* A walk that starts has no page behind it.
LEMMA WalkStarts ==
    ASSUME TypeOK, BirthInv, WalkInv, NEW w \in Walks, NEW email \in Filters, StartWalk(w, email)
    PROVE  WalkPages(w)' /\ WalkIsOver(w)'
<1>1. /\ walk'[w].at = "paging" /\ walk'[w].page = walk[w].page
      /\ walk'[w].email = email /\ walk'[w].due = Matching(email)
  BY DEF StartWalk, TypeOK
<1>2. walk[w].page = 1
  BY DEF StartWalk, WalkInv, WalkPages
<1>3. born' = born /\ shown' = shown
  BY DEF StartWalk
<1>4. \A o \in Matching(email) : ~ (Rank(o, Matching(email)) < (1 - 1) * PageSize)
  <2>1. (1 - 1) * PageSize = 0
    BY PagesAssumption
  <2>2. Matching(email) \in SUBSET shown
    BY DEF Matching
  <2>3. \A o \in Matching(email) : Rank(o, Matching(email)) \in Nat
    BY <2>2, RanksAreNatural
  <2> QED BY <2>1, <2>3
<1>5. WalkPages(w)'
  BY <1>1, <1>2, <1>3, <1>4 DEF WalkPages, Matching, Rank
<1> QED BY <1>1, <1>5 DEF WalkIsOver

\* A page that is served is all that lay between the last and the next one,
\* and when it is not full no thread comes after it.
LEMMA WalkServed ==
    ASSUME TypeOK, BirthInv, WalkInv, NEW w \in Walks, ListWithFilter(w)
    PROVE  WalkPages(w)' /\ WalkIsOver(w)'
<1>1. PICK e \in Emails \cup {NoEmail} : e = walk[w].email
  BY DEF TypeOK
<1> DEFINE S == Matching(e)
           page == walk[w].page
           lo == (page - 1) * PageSize
           hi == page * PageSize
<1>2. page \in Nat \ {0} /\ PageSize \in Nat \ {0} /\ walk[w].at = "paging"
  BY PagesAssumption DEF ListWithFilter, WalkInv, WalkPages, TypeOK
<1>3. lo \in Nat /\ hi \in Nat /\ hi = lo + PageSize
  BY <1>2
<1>4. PICK pos \in Orders(S) :
          LET items == PageOf(page, pos)
          IN walk' = [walk EXCEPT
                 ![w].at   = IF Cardinality(items) < PageSize THEN "done" ELSE "paging",
                 ![w].page = @ + 1,
                 ![w].seen = @ \cup items]
  BY <1>1 DEF ListWithFilter
<1> DEFINE items == PageOf(page, pos)
<1>5. /\ walk'[w].page = page + 1 /\ walk'[w].seen = walk[w].seen \cup items
      /\ walk'[w].due = walk[w].due /\ walk'[w].email = e
      /\ walk'[w].at = IF Cardinality(items) < PageSize THEN "done" ELSE "paging"
  BY <1>1, <1>4 DEF TypeOK
<1>6. born' = born /\ shown' = shown
  BY DEF ListWithFilter
<1>7. S \in SUBSET shown /\ S \in SUBSET Opens /\ IsFiniteSet(S)
  <2>1. S \in SUBSET shown
    BY DEF Matching
  <2> HIDE DEF S
  <2> QED BY <2>1, FS_Subset DEF BirthInv, TypeOK
<1>8. walk[w].due \subseteq S
      /\ \A o \in walk[w].due : Rank(o, S) < lo => o \in walk[w].seen \/ Tied(o, S)
  BY <1>1, <1>2 DEF WalkInv, WalkPages
<1>9. \A o \in S : Rank(o, S) \in Nat
  BY <1>7, RanksAreNatural
<1>10. items = {o \in S : lo <= pos[o] /\ pos[o] < lo + PageSize}
  <2>1. DOMAIN pos = S
    BY DEF Orders, Bijection, Injection
  <2> QED BY <1>3, <2>1 DEF PageOf
<1>11. S' = S /\ \A o \in S : Rank(o, S)' = Rank(o, S) /\ (Tied(o, S)' <=> Tied(o, S))
  BY <1>6 DEF Rank, Tied, Matching
<1>12. Matching(walk[w].email)' = S
  BY <1>5, <1>6 DEF Matching
<1>13. \A o \in S : /\ Cardinality({u \in S : born'[u] > born'[o]}) = Rank(o, S)
                    /\ (\E u \in S \ {o} : born'[u] = born'[o]) <=> Tied(o, S)
  BY <1>6 DEF Rank, Tied
<1> HIDE DEF S, items, lo, hi, page
<1>14. ASSUME NEW o \in walk[w].due, Rank(o, S) < hi, ~ Tied(o, S)
       PROVE  o \in walk'[w].seen
  <2>1. CASE Rank(o, S) < lo
    BY <1>5, <1>8, <1>14, <2>1
  <2>2. CASE ~ (Rank(o, S) < lo)
    <3>1. o \in S /\ pos[o] = Rank(o, S)
      BY <1>7, <1>8, <1>14, PositionIsRank
    <3>2. o \in items
      BY <1>3, <1>9, <1>10, <1>14, <2>2, <3>1
    <3> QED BY <1>5, <3>2
  <2> QED BY <2>1, <2>2
<1>15. ASSUME NEW o \in walk[w].due, walk'[w].at = "done", ~ Tied(o, S)
       PROVE  o \in walk'[w].seen
  <2>1. o \in S /\ PageSize \in Nat /\ pos[o] = Rank(o, S)
    BY <1>2, <1>7, <1>8, <1>15, PositionIsRank
  <2>2. Cardinality(items) < PageSize
    BY <1>5, <1>15
  <2>3. pos[o] < lo + PageSize
    <3>1. ASSUME ~ (pos[o] < lo + PageSize) PROVE Cardinality(items) = PageSize
      BY <1>3, <1>7, <1>10, <2>1, <3>1, PagesAreFull
    <3> QED BY <2>1, <2>2, <3>1
  <2> QED BY <1>3, <1>14, <1>15, <2>1, <2>3
<1>16. WalkPages(w)'
  <2>1. walk'[w].page \in Nat /\ walk'[w].page > 0 /\ walk'[w].at # "idle"
    BY <1>2, <1>5
  <2>2. (walk'[w].page - 1) * PageSize = hi
    <3>1. walk'[w].page - 1 = page
      BY <1>2, <1>5
    <3> QED BY <3>1 DEF hi
  <2> QED BY <1>5, <1>8, <1>12, <1>13, <1>14, <2>1, <2>2 DEF WalkPages, Rank, Tied
<1>17. WalkIsOver(w)'
  BY <1>5, <1>8, <1>12, <1>13, <1>15 DEF WalkIsOver, Tied
<1> QED BY <1>16, <1>17

LEMMA WalkStep ==
    ASSUME TypeOK, BirthInv, WalkInv, [Next]_vars
    PROVE  WalkInv'
<1> SUFFICES ASSUME NEW w \in Walks
             PROVE  WalkPages(w)' /\ WalkIsOver(w)'
  BY DEF WalkInv
<1>1. CASE walk'[w] = walk[w]
  BY <1>1, WalkKept
<1>2. CASE \E email \in Filters : StartWalk(w, email)
  BY <1>2, WalkStarts
<1>3. CASE ListWithFilter(w)
  BY <1>3, WalkServed
<1>4. ASSUME NEW v \in Walks, v # w, Listing(v)
      PROVE  walk'[w] = walk[w]
  BY <1>4 DEF Listing, StartWalk, ListWithFilter, TypeOK
<1>5. CASE \/ Admin \/ (\E c \in Conns : Connection(c)) \/ (\E o \in Opens : OpenRequest(o))
           \/ UNCHANGED vars
  <2>1. walk' = walk
    BY <1>5 DEF Admin, adminCreateBuddy, adminUpdateBuddy, adminRotateBuddyKey, adminDeleteBuddy,
       Connection, Dial, lookupBuddyByAPIKey, Serve, EndConn, OpenRequest, Ask, GetByID, Online,
       OpenThread
  <2> QED BY <1>1, <2>1
<1> QED BY <1>1, <1>2, <1>3, <1>4, <1>5 DEF Next, Listing

\* A client that pages through the threads by LIMIT and OFFSET, a page at a
\* time until one is not full, has seen every thread that was listed when it
\* began and that shares its created_at with no other of the listing, for any
\* page size, any filter and any number of threads that are opened between two
\* pages, in whatever order their rows are committed and ties are broken.
THEOREM WalksMissNothing == Spec => []WalkMissesNothing
<1>1. Init => WalkInv
  BY DEF Init, WalkInv, WalkPages, WalkIsOver, IdleWalk
<1>2. WalkInv => WalkMissesNothing
  BY DEF WalkInv, WalkIsOver, WalkMissesNothing, Tied
<1> QED BY <1>1, <1>2, WalkStep, BirthInvAlways, DirectoryTypes, PTL DEF Spec
=============================================================================
