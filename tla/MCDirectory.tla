---------------------------- MODULE MCDirectory ----------------------------
(***************************************************************************)
(* Finite instances of Directory: an administrator and two users, one in a *)
(* group and one whose token has an empty group, two buddies and threads   *)
(* of both users.                                                          *)
(***************************************************************************)
EXTENDS Directory, TLC

CONSTANTS root, dev, ann, bob, eng, b1, b2, n1, o1, o2, o3

MCEmails == {root, dev, ann, bob}
MCGroupsOf == [e \in MCEmails |-> CASE e = ann -> {eng} [] e = bob -> {Null} [] OTHER -> {}]
MCAsker == [o \in Opens |-> IF o = o2 THEN bob ELSE ann]

MCCredentials == {[session |-> root,    bearer |-> "none"],
                  [session |-> ann,     bearer |-> "jwt"]}

Body(mode_, group_, users_, hasUsers_) ==
    [mode |-> mode_, group |-> group_, users |-> users_, hasUsers |-> hasUsers_]

MCFilters == {NoEmail, ann}

MCBodies == {Body("missing", Null, {}, FALSE), Body("users", Null, {bob}, TRUE),
             Body("group", eng, {}, TRUE), Body("group", Null, {}, TRUE),
             Body("public", Null, {}, FALSE), Body("other", Null, {}, TRUE)}

\* Two instances in one.  Access takes two opening requests, with all that
\* administrators may do, and no client that pages; paging takes three, to one
\* buddy that stays open to all.  The states of their common part and of each
\* are explored, not those that belong to neither.
AccessOnly ==
    /\ \A w \in Walks : walk[w] = IdleWalk
    /\ open[o3] = IdleOpen

PagingOnly ==
    /\ keys <= 1 /\ b2 \notin ListAll
    /\ \A b \in ListAll :
           /\ rows[b].name = n1 /\ rows[b].acl.mode = "public"
           /\ rows[b].acl.users = {} /\ rows[b].owner = root

Instances == AccessOnly \/ PagingOnly
=============================================================================
