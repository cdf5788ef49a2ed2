------------------------------ MODULE Buddies ------------------------------
(***************************************************************************)
(* The buddies table (server/internal/store/buddies.go over migration      *)
(* 0001_init.sql), one operator per statement, and the two rules that say  *)
(* who may use a buddy: the WHERE clause of ListForCaller and aclAllows in *)
(* api/hatchling.go.                                                       *)
(*                                                                         *)
(* A key stands for its bcrypt hash.  The description and last_seen_at are *)
(* only ever shown, and are left out.                                      *)
(***************************************************************************)
EXTENDS Naturals

CONSTANTS
    Ids,       \* UUIDs of buddies
    Names,     \* their names
    Emails,    \* people
    Groups,    \* SSO groups
    GroupsOf,  \* GroupsOf[e]: the groups in the token of e
    Null,      \* no group: NULL in the table, the empty string in Go and in a token
    NoRow      \* the value of rows[b] before b is created

Modes == {"public", "group", "users"}

\* What a client may send as an ACL: the mode may be missing, or be one that
\* the CHECK of the table refuses, and the users may be missing.
AclBodies == [mode : Modes \cup {"missing", "other"}, group : Groups \cup {Null},
              users : SUBSET Emails, hasUsers : BOOLEAN]

\* What the table can hold.  acl_users is NOT NULL; an empty acl_group_id is
\* stored as NULL (nullable).
RowAcls == [mode : Modes, group : Groups \cup {Null}, users : SUBSET Emails]

Stored(acl) == [mode |-> acl.mode, group |-> acl.group, users |-> acl.users]

Rows == [name : Names, acl : RowAcls, owner : Emails, key : Nat, deleted : BOOLEAN]

ASSUME GroupsAssumption == GroupsOf \in [Emails -> SUBSET (Groups \cup {Null})]
ASSUME NoRowAssumption == NoRow \notin Rows

VARIABLE rows   \* rows[b]: the row of b, deleted ones included

Exists(b) == rows[b] # NoRow
Live(b)   == Exists(b) /\ ~ rows[b].deleted

-----------------------------------------------------------------------------
(* The statements that change the table.  Each refuses to run when the     *)
(* database or its WHERE clause does.                                      *)

\* Mutant: the table has no CHECK on the mode.
CreatePossibleAnyMode(name, acl) == \A b \in Ids : Exists(b) => rows[b].name # name

\* The name is UNIQUE over all rows, the deleted ones included.
CreatePossible(name, acl) ==
    /\ \A b \in Ids : Exists(b) => rows[b].name # name
    /\ acl.mode \in Modes

\* Create stores no users when none are given.
BuddiesCreate(b, name_, owner_, key_, acl_) ==
    /\ ~ Exists(b) /\ CreatePossible(name_, acl_)
    /\ rows' = [rows EXCEPT ![b] =
           [name |-> name_, owner |-> owner_, key |-> key_, deleted |-> FALSE,
            acl |-> Stored([acl_ EXCEPT !.users = IF acl_.hasUsers THEN @ ELSE {}])]]

\* Update hands a nil slice of users to the database, as NULL.
UpdatePossible(acl) == acl.mode \in Modes /\ acl.hasUsers

BuddiesUpdate(b, acl_) ==
    /\ Live(b) /\ UpdatePossible(acl_)
    /\ rows' = [rows EXCEPT ![b].acl = Stored(acl_)]

BuddiesUpdateAPIKeyHash(b, key_) ==
    /\ Live(b)
    /\ rows' = [rows EXCEPT ![b].key = key_]

BuddiesDelete(b) ==
    /\ Live(b)
    /\ rows' = [rows EXCEPT ![b].deleted = TRUE]

-----------------------------------------------------------------------------
(* The statements that read it, and the two rules.                         *)

\* ListAll: also what lookupBuddyByAPIKey and HasBuddiesOwnedBy scan.
ListAll == {b \in Ids : Live(b)}

\* Mutant: the deleted rows are listed too.
ListAllEver == {b \in Ids : Exists(b)}

\* A NULL group equals nothing.
VisibleTo(acl, e) ==
    \/ acl.mode = "public"
    \/ acl.mode = "users" /\ e \in acl.users
    \/ acl.mode = "group" /\ acl.group \in GroupsOf[e] \ {Null}

\* Mutant: the clause for groups is missing.
ListForCallerNoGroups(e) ==
    {b \in Ids : Live(b) /\ (\/ rows[b].acl.mode = "public"
                             \/ rows[b].acl.mode = "users" /\ e \in rows[b].acl.users
                             \/ rows[b].owner = e)}

ListForCaller(e) == {b \in Ids : Live(b) /\ (VisibleTo(rows[b].acl, e) \/ rows[b].owner = e)}

\* scanBuddy reads a NULL group as the empty one, which equals an empty group
\* in a token.  The owner is not considered.
aclAllows(acl, e) ==
    CASE acl.mode = "public" -> TRUE
      [] acl.mode = "users"  -> e \in acl.users
      [] acl.mode = "group"  -> \E g \in GroupsOf[e] : g = acl.group
      [] OTHER               -> FALSE

HasBuddiesOwnedBy(e) == \E b \in ListAll : rows[b].owner = e
=============================================================================
