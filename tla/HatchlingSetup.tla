--------------------------- MODULE HatchlingSetup ---------------------------
(***************************************************************************)
(* The hatchling skill on disk: config.json, one token file per relay      *)
(* alias, and the token file of an older version that is migrated; and the *)
(* device-code login (skills/hatchling-skill/src/setup.ts, lib/config.ts,  *)
(* lib/oidc.ts against server/internal/api/oidc_device.go) that fills them.*)
(*                                                                         *)
(* Each command is a process.  Nothing locks the files: a command takes    *)
(* one step per file operation or statement of the relay, and any other    *)
(* command may run between two of its steps.  writeFileSync truncates and  *)
(* then writes.                                                            *)
(*                                                                         *)
(* A profile is reduced to its presence: config.json is a set of aliases.  *)
(* A token is named by the setup it was issued to.                         *)
(***************************************************************************)
EXTENDS Naturals

CONSTANTS
    Setups,     \* runs of clawgard-hatchling-setup, one login each
    Readers,    \* runs of list or ask, which only call resolveConfig
    Removers,   \* runs of setup --remove-relay
    Aliases,    \* relay aliases
    AliasOf,    \* AliasOf[p]: the alias that command p is about
    Default,    \* the alias that the old token file is migrated to
    NoFile,     \* the file does not exist
    Empty,      \* it was truncated and not yet written
    Garbled,    \* two writes overlap
    Legacy,     \* the token of the older version
    MaxKills,   \* bound on killed commands
    MaxFaults   \* bound on failed requests

Commands == Setups \cup Readers \cup Removers
Unusable == {NoFile, Empty, Garbled}

ASSUME CommandsAssumption ==
    /\ Setups \cap Readers = {}
    /\ (Setups \cup Readers) \cap Removers = {}
    /\ AliasOf \in [Commands -> Aliases]
    /\ Default \in Aliases
ASSUME FilesAssumption ==
    /\ NoFile # Empty /\ NoFile # Garbled /\ Empty # Garbled
    /\ Unusable \cap Commands = {}
    /\ Legacy \notin Commands \cup Unusable
ASSUME FaultsAssumption == MaxKills \in Nat /\ MaxFaults \in Nat

VARIABLES
    config,    \* config.json: a set of aliases, or unusable
    token,     \* token[a]: tokens/a.token
    legacy,    \* hatchling.token exists
    pc,        \* pc[p]: next step of command p, or how it ended
    read,      \* read[p]: the aliases p read from config.json, with its change
    linked,    \* commands whose open token file still is the one on disk
    code,      \* code[p]: the device_codes row of login p
    approvals, \* logins that their user has approved
    expired,   \* logins whose code has passed expires_at
    kills, faults

fileVars  == <<config, token, legacy>>
loginVars == <<code, approvals, expired>>
vars == <<fileVars, pc, read, linked, loginVars, kills, faults>>

Migrating == {"target", "adopt", "create", "copy", "unlink"}
LoggingIn == {"login", "wait", "asked", "issue", "reply"}
Saving    == {"save", "truncate", "rewrite", "token", "store", "forget"}
Steps     == {"start", "resolve"} \cup Migrating \cup LoggingIn \cup Saving
Outcomes  == {"done", "error", "refused", "expired", "killed"}

Goto(p, step) == pc' = [pc EXCEPT ![p] = step]

\* A machine that the older version was used on.
Init ==
    /\ config  \in {NoFile, {Default}}
    /\ token   = [a \in Aliases |-> NoFile]
    /\ legacy  = TRUE
    /\ pc      = [p \in Commands |-> "start"]
    /\ read    = [p \in Commands |-> {}]
    /\ linked  = {}
    /\ code    = [p \in Setups |-> "none"]
    /\ approvals = {}
    /\ expired = {}
    /\ kills   = 0
    /\ faults  = 0

-----------------------------------------------------------------------------
(* migrateLegacyToken, which setup, list and ask all call first.           *)

AfterMigration(p) == IF p \in Setups THEN "login" ELSE "resolve"

LooksForLegacy(p) ==
    /\ pc[p] = "start" /\ p \notin Removers
    /\ Goto(p, IF legacy THEN "target" ELSE AfterMigration(p))
    /\ UNCHANGED <<fileVars, read, linked, loginVars, kills, faults>>

\* Mutant: the old file is deleted when the new one is not there.
LooksForTargetInverted(p) ==
    /\ pc[p] = "target"
    /\ Goto(p, IF token[Default] = NoFile THEN "unlink" ELSE "adopt")
    /\ UNCHANGED <<fileVars, read, linked, loginVars, kills, faults>>

LooksForTarget(p) ==
    /\ pc[p] = "target"
    /\ Goto(p, IF token[Default] # NoFile THEN "unlink" ELSE "adopt")
    /\ UNCHANGED <<fileVars, read, linked, loginVars, kills, faults>>

\* A file that another command has deleted since ends this one (ENOENT).
ReadLegacy(p) ==
    /\ pc[p] = "adopt"
    /\ Goto(p, IF legacy THEN "create" ELSE "error")
    /\ UNCHANGED <<fileVars, read, linked, loginVars, kills, faults>>

Truncate(p, a) ==
    /\ token'  = [token EXCEPT ![a] = Empty]
    /\ linked' = linked \cup {p}

\* The second half of writeFileSync.  A file that was unlinked in between gets
\* nothing; what another command has written since is overwritten from the
\* start, and its end may stay.
Put(p, a, x) ==
    /\ \/ p \notin linked /\ UNCHANGED token
       \/ p \in linked /\ token' = [token EXCEPT ![a] = x]
       \/ p \in linked /\ token[a] \notin {Empty, x} /\ token' = [token EXCEPT ![a] = Garbled]
    /\ linked' = linked \ {p}

CreateTarget(p) ==
    /\ pc[p] = "create"
    /\ Truncate(p, Default)
    /\ Goto(p, "copy")
    /\ UNCHANGED <<config, legacy, read, loginVars, kills, faults>>

CopyLegacy(p) ==
    /\ pc[p] = "copy"
    /\ Put(p, Default, Legacy)
    /\ Goto(p, "unlink")
    /\ UNCHANGED <<config, legacy, read, loginVars, kills, faults>>

UnlinkLegacy(p) ==
    /\ pc[p] = "unlink"
    /\ Goto(p, IF legacy THEN AfterMigration(p) ELSE "error")
    /\ legacy' = FALSE
    /\ UNCHANGED <<config, token, read, linked, loginVars, kills, faults>>

-----------------------------------------------------------------------------
(* initiateDeviceCode and pollForToken, with the relay's handlers.         *)

RequestFault == faults < MaxFaults /\ faults' = faults + 1

Initiate(p) ==
    /\ pc[p] = "login"
    /\ \/ /\ code' = [code EXCEPT ![p] = "pending"]
          /\ Goto(p, "wait")
          /\ UNCHANGED faults
       \/ /\ RequestFault
          /\ code' \in {code, [code EXCEPT ![p] = "pending"]}
          /\ Goto(p, "refused")
    /\ UNCHANGED <<fileVars, read, linked, approvals, expired, kills>>

\* The client's deadline is not before the code's, which started earlier.
AskForToken(p) ==
    /\ pc[p] = "wait"
    /\ \/ Goto(p, "asked")
       \/ p \in expired /\ Goto(p, "expired")
    /\ UNCHANGED <<fileVars, read, linked, loginVars, kills, faults>>

\* Mutant: approval is not asked for.
SelectCodeUnapproved(p) ==
    /\ pc[p] = "asked"
    /\ IF p \in expired
       THEN Goto(p, "expired") /\ code' = [code EXCEPT ![p] = "deleted"]
       ELSE Goto(p, "issue") /\ UNCHANGED code
    /\ UNCHANGED <<fileVars, read, linked, approvals, expired, kills, faults>>

\* Mutant: the error code of a pending approval is not the one the client knows.
SelectCodeUnknownPending(p) ==
    /\ pc[p] = "asked"
    /\ \/ p \in expired /\ Goto(p, "expired")
       \/ p \notin expired /\ code[p] = "pending" /\ Goto(p, "refused")
       \/ p \notin expired /\ code[p] = "approved" /\ Goto(p, "issue")
    /\ UNCHANGED <<fileVars, read, linked, loginVars, kills, faults>>

\* Mutant: expires_at is not looked at.
SelectCodeForEver(p) ==
    /\ pc[p] = "asked"
    /\ \/ code[p] = "pending" /\ Goto(p, "wait")
       \/ code[p] = "approved" /\ Goto(p, "issue")
    /\ UNCHANGED <<fileVars, read, linked, loginVars, kills, faults>>

\* The SELECT of handleDeviceToken.  The error of the DELETE of an expired row
\* is ignored.
SelectCode(p) ==
    /\ pc[p] = "asked"
    /\ \/ /\ p \in expired
          /\ code' \in {code, [code EXCEPT ![p] = "deleted"]}
          /\ Goto(p, "expired")
       \/ p \notin expired /\ code[p] = "pending" /\ Goto(p, "wait") /\ UNCHANGED code
       \/ p \notin expired /\ code[p] = "approved" /\ Goto(p, "issue") /\ UNCHANGED code
    /\ UNCHANGED <<fileVars, read, linked, approvals, expired, kills, faults>>

DeleteCode(p) ==
    /\ pc[p] = "issue"
    /\ code' = [code EXCEPT ![p] = "deleted"]
    /\ Goto(p, "reply")
    /\ UNCHANGED <<fileVars, read, linked, approvals, expired, kills, faults>>

TakeToken(p) ==
    /\ pc[p] = "reply"
    /\ Goto(p, "save")
    /\ UNCHANGED <<fileVars, read, linked, loginVars, kills, faults>>

\* A statement fails, the network does, or the client's 15 seconds are over;
\* any of them ends the login, also after the row was deleted.
LoginFails(p) ==
    /\ pc[p] \in {"asked", "issue", "reply"}
    /\ RequestFault
    /\ Goto(p, "refused")
    /\ UNCHANGED <<fileVars, read, linked, loginVars, kills>>

\* The UPDATE of approved_email, which the comment on MountDeviceCode leaves to
\* the dashboard.
Approve(p) ==
    /\ code[p] = "pending"
    /\ code' = [code EXCEPT ![p] = "approved"]
    /\ approvals' = approvals \cup {p}
    /\ UNCHANGED <<fileVars, pc, read, linked, expired, kills, faults>>

Expire(p) ==
    /\ code[p] # "none" /\ p \notin expired
    /\ expired' = expired \cup {p}
    /\ UNCHANGED <<fileVars, pc, read, linked, code, approvals, kills, faults>>

-----------------------------------------------------------------------------
(* writeConfig, writeToken, removeAlias, and the reads of resolveConfig.   *)

\* removeAlias does not migrate.
StartRemoval(p) ==
    /\ pc[p] = "start" /\ p \in Removers
    /\ Goto(p, "save")
    /\ UNCHANGED <<fileVars, read, linked, loginVars, kills, faults>>

Listed(a) == config \notin Unusable /\ a \in config

\* JSON.parse throws on a file that was truncated or garbled.
ReadConfig(p) ==
    /\ pc[p] = "save"
    /\ \/ /\ p \in Setups /\ config \notin {Empty, Garbled}
          /\ read' = [read EXCEPT ![p] =
                 (IF config = NoFile THEN {} ELSE config) \cup {AliasOf[p]}]
          /\ Goto(p, "truncate")
       \/ /\ p \in Removers /\ Listed(AliasOf[p])
          /\ read' = [read EXCEPT ![p] = config \ {AliasOf[p]}]
          /\ Goto(p, "truncate")
       \/ /\ IF p \in Setups THEN config \in {Empty, Garbled} ELSE ~ Listed(AliasOf[p])
          /\ Goto(p, "error")
          /\ UNCHANGED read
    /\ UNCHANGED <<fileVars, linked, loginVars, kills, faults>>

TruncateConfig(p) ==
    /\ pc[p] = "truncate"
    /\ config' = Empty
    /\ Goto(p, "rewrite")
    /\ UNCHANGED <<token, legacy, read, linked, loginVars, kills, faults>>

RewriteConfig(p) ==
    /\ pc[p] = "rewrite"
    /\ \/ config' = read[p]
       \/ config \notin {Empty, read[p]} /\ config' = Garbled
    /\ Goto(p, IF p \in Setups THEN "token" ELSE "forget")
    /\ UNCHANGED <<token, legacy, read, linked, loginVars, kills, faults>>

TruncateToken(p) ==
    /\ pc[p] = "token"
    /\ Truncate(p, AliasOf[p])
    /\ Goto(p, "store")
    /\ UNCHANGED <<config, legacy, read, loginVars, kills, faults>>

\* Mutant: the alias is passed to writeToken where the token belongs.
StoreTokenSwapped(p) ==
    /\ pc[p] = "store"
    /\ Put(p, AliasOf[p], AliasOf[p])
    /\ Goto(p, "done")
    /\ UNCHANGED <<config, legacy, read, loginVars, kills, faults>>

StoreToken(p) ==
    /\ pc[p] = "store"
    /\ Put(p, AliasOf[p], p)
    /\ Goto(p, "done")
    /\ UNCHANGED <<config, legacy, read, loginVars, kills, faults>>

\* The alias whose token file p has open.
Opened(p) == IF pc[p] = "copy" THEN Default ELSE AliasOf[p]

ForgetToken(p) ==
    /\ pc[p] = "forget"
    /\ token'  = [token EXCEPT ![AliasOf[p]] = NoFile]
    /\ linked' = {q \in linked : Opened(q) # AliasOf[p]}
    /\ Goto(p, "done")
    /\ UNCHANGED <<config, legacy, read, loginVars, kills, faults>>

\* What list or ask does with its profile and token changes no file.
Resolve(p) ==
    /\ pc[p] = "resolve"
    /\ Goto(p, IF Listed(AliasOf[p]) /\ token[AliasOf[p]] \notin {NoFile, Empty}
               THEN "done" ELSE "error")
    /\ UNCHANGED <<fileVars, read, linked, loginVars, kills, faults>>

\* The command is killed, or fails to write because the disk is full.
Kill(p) ==
    /\ pc[p] \in Steps /\ kills < MaxKills
    /\ kills'  = kills + 1
    /\ linked' = linked \ {p}
    /\ Goto(p, "killed")
    /\ UNCHANGED <<fileVars, read, loginVars, faults>>

-----------------------------------------------------------------------------

Migrate(p) == \/ LooksForLegacy(p) \/ LooksForTarget(p) \/ ReadLegacy(p)
              \/ CreateTarget(p) \/ CopyLegacy(p) \/ UnlinkLegacy(p)

Login(p) == Initiate(p) \/ AskForToken(p) \/ SelectCode(p) \/ DeleteCode(p) \/ TakeToken(p)

Save(p) == \/ StartRemoval(p) \/ ReadConfig(p) \/ TruncateConfig(p) \/ RewriteConfig(p)
           \/ TruncateToken(p) \/ StoreToken(p) \/ ForgetToken(p)

Next ==
    \/ \E p \in Commands : Migrate(p) \/ Save(p) \/ Kill(p)
    \/ \E p \in Setups   : Login(p) \/ LoginFails(p) \/ Approve(p) \/ Expire(p)
    \/ \E p \in Readers  : Resolve(p)

Spec == Init /\ [][Next]_vars

\* Commands and relay run, and ten minutes pass.  Nobody has to approve.
Fairness == \A p \in Setups : WF_vars(Migrate(p) \/ Login(p) \/ Save(p)) /\ WF_vars(Expire(p))

FairSpec == Spec /\ Fairness

-----------------------------------------------------------------------------

\* The states of the files, the logins and the commands.
TypeOK ==
    /\ config \in {NoFile, Empty, Garbled} \cup SUBSET Aliases
    /\ token \in [Aliases -> Unusable \cup {Legacy} \cup Setups]
    /\ legacy \in BOOLEAN
    /\ pc \in [Commands -> Steps \cup Outcomes]
    /\ read \in [Commands -> SUBSET Aliases]
    /\ linked \subseteq Commands
    /\ code \in [Setups -> {"none", "pending", "approved", "deleted"}]
    /\ approvals \subseteq Setups
    /\ expired \subseteq Setups
    /\ kills \in 0 .. MaxKills
    /\ faults \in 0 .. MaxFaults

\* Whatever commands overlap and wherever they are killed, a token on disk was
\* issued to an approved login of the alias it is stored for, or it is the old
\* one in the place that it is migrated to.
TokensAreGenuine ==
    \A a \in Aliases :
        /\ token[a] \in Setups => token[a] \in approvals /\ AliasOf[token[a]] = a
        /\ token[a] = Legacy => a = Default

\* A login is refused or gives up only after a request of some login failed or
\* its code expired: an approval that is still pending never ends it.
GivesUpForCause ==
    \A p \in Setups :
        /\ pc[p] = "refused" => faults > 0
        /\ pc[p] = "expired" => p \in expired

\* A login that waits for its approval comes to an end.
LoginEnds ==
    \A p \in Setups : pc[p] = "wait" ~> pc[p] \in Outcomes

\* The old token is in its file, in the new one, or in the hands of a command
\* that is about to write it.
LegacyIsSomewhere ==
    \/ legacy
    \/ token[Default] = Legacy
    \/ \E p \in linked : pc[p] = "copy"

\* A setup or a removal of the default alias has reached its token file.
DefaultIsReplaced ==
    \E p \in Setups \cup Removers : AliasOf[p] = Default /\ pc[p] \in {"store", "done"}

\* As long as no command is killed, commands that migrate at the same time do
\* not lose the old token between them: it goes only when a setup or a removal
\* replaces it.
LegacyIsKept ==
    kills = 0 => LegacyIsSomewhere \/ DefaultIsReplaced

-----------------------------------------------------------------------------
(* What the documentation says and the code does not do.                   *)

\* README.md: the old token is migrated and no user action is required.  A
\* command that is killed between truncating tokens/default.token and writing
\* it leaves an empty file, and the next one deletes the old token for it.
LegacyTokenSurvives ==
    LegacyIsSomewhere \/ DefaultIsReplaced
=============================================================================
