------------------------ MODULE HatchlingSetupProofs ------------------------
(***************************************************************************)
(* For any number of commands and aliases: the states of HatchlingSetup    *)
(* are typed, every token on disk is genuine, the old token is not lost,   *)
(* and a login ends for a cause only.                                      *)
(***************************************************************************)
EXTENDS HatchlingSetup, TLAPS

\* Only setups write tokens, readers write nothing, and a setup is past the
\* relay's check only after its user has approved it.
ApprovedSteps ==
    /\ \A p \in Readers : pc[p] \notin Saving
    /\ \A p \in Commands : pc[p] \in {"token", "store"} => p \in Setups
    /\ \A p \in Setups : pc[p] \in {"issue", "reply"} \cup Saving => p \in approvals
    /\ \A p \in Setups : code[p] = "approved" => p \in approvals

SetupInv == TypeOK /\ ApprovedSteps /\ TokensAreGenuine

USE DEF Commands, Unusable, Steps, Migrating, LoggingIn, Saving, Outcomes,
        fileVars, loginVars, vars, Goto

\* The initial state satisfies the invariant.
LEMMA SetupInit == Init => SetupInv
BY CommandsAssumption, FilesAssumption, FaultsAssumption, SMTT(30)
   DEF Init, SetupInv, TypeOK, ApprovedSteps, TokensAreGenuine

\* The migration steps put nothing but the old token in place of the default.
LEMMA MigrateStep ==
    ASSUME SetupInv, NEW p \in Commands, Migrate(p)
    PROVE  SetupInv'
<1> USE CommandsAssumption, FilesAssumption DEF SetupInv, TypeOK, ApprovedSteps, TokensAreGenuine
<1>1. CASE LooksForLegacy(p) \/ LooksForTarget(p) \/ ReadLegacy(p)
  BY <1>1, SMTT(30) DEF LooksForLegacy, LooksForTarget, ReadLegacy, AfterMigration
<1>2. CASE CreateTarget(p)
  <2>1. TypeOK'
    BY <1>2, SMTT(30) DEF CreateTarget, Truncate
  <2>2. ApprovedSteps'
    BY <1>2, SMTT(30) DEF CreateTarget
  <2>3. TokensAreGenuine'
    BY <1>2, SMTT(30) DEF CreateTarget, Truncate
  <2> QED BY <2>1, <2>2, <2>3
<1>3. CASE CopyLegacy(p)
  <2>1. TypeOK'
    BY <1>3, SMTT(30) DEF CopyLegacy, Put
  <2>2. ApprovedSteps'
    BY <1>3, SMTT(30) DEF CopyLegacy
  <2>3. TokensAreGenuine'
    BY <1>3, SMTT(30) DEF CopyLegacy, Put
  <2> QED BY <2>1, <2>2, <2>3
<1>4. CASE UnlinkLegacy(p)
  <2>1. PICK next \in {"login", "resolve", "error"} : pc' = [pc EXCEPT ![p] = next]
    BY <1>4 DEF UnlinkLegacy, AfterMigration
  <2>2. TypeOK'
    <3>1. legacy' \in BOOLEAN
      BY <1>4, Zenon DEF UnlinkLegacy
    <3>2. pc' \in [Commands -> Steps \cup Outcomes]
      BY <2>1, SMTT(30)
    <3> QED BY <1>4, <3>1, <3>2, SMTT(30) DEF UnlinkLegacy
  <2>3. ApprovedSteps'
    BY <1>4, <2>1, SMTT(30) DEF UnlinkLegacy
  <2>4. TokensAreGenuine'
    BY <1>4, SMTT(30) DEF UnlinkLegacy
  <2> QED BY <2>2, <2>3, <2>4
<1> QED BY <1>1, <1>2, <1>3, <1>4 DEF Migrate

\* The relay issues a token only after it has read an approval.
LEMMA LoginStep ==
    ASSUME SetupInv, NEW p \in Setups, Login(p) \/ LoginFails(p) \/ Approve(p) \/ Expire(p)
    PROVE  SetupInv'
<1> USE CommandsAssumption, FilesAssumption, FaultsAssumption
    DEF SetupInv, TypeOK, ApprovedSteps, TokensAreGenuine
<1>1. CASE Initiate(p) \/ LoginFails(p)
  BY <1>1, SMTT(30) DEF Initiate, LoginFails, RequestFault
<1>2. CASE AskForToken(p) \/ DeleteCode(p) \/ TakeToken(p)
  BY <1>2, SMTT(30) DEF AskForToken, DeleteCode, TakeToken
<1>3. CASE SelectCode(p)
  BY <1>3, SMTT(30) DEF SelectCode
<1>4. CASE Approve(p) \/ Expire(p)
  BY <1>4, SMTT(30) DEF Approve, Expire
<1> QED BY <1>1, <1>2, <1>3, <1>4 DEF Login

\* A setup stores its own token under its own alias.
LEMMA SaveStep ==
    ASSUME SetupInv, NEW p \in Commands, Save(p)
    PROVE  SetupInv'
<1> USE CommandsAssumption, FilesAssumption DEF SetupInv, TypeOK, ApprovedSteps, TokensAreGenuine
<1>1. CASE StartRemoval(p)
  BY <1>1, SMTT(30) DEF StartRemoval
<1>2. CASE ReadConfig(p)
  BY <1>2, SMTT(30) DEF ReadConfig, Listed
<1>3. CASE TruncateConfig(p) \/ RewriteConfig(p)
  BY <1>3, SMTT(30) DEF TruncateConfig, RewriteConfig
<1>4. CASE TruncateToken(p)
  BY <1>4, SMTT(30) DEF TruncateToken, Truncate
<1>5. CASE StoreToken(p)
  BY <1>5, SMTT(30) DEF StoreToken, Put
<1>6. CASE ForgetToken(p)
  BY <1>6, SMTT(30) DEF ForgetToken
<1> QED BY <1>1, <1>2, <1>3, <1>4, <1>5, <1>6 DEF Save

\* Listing, asking and dying change no file.
LEMMA OtherStep ==
    ASSUME SetupInv, NEW p \in Commands, Kill(p) \/ (p \in Readers /\ Resolve(p))
    PROVE  SetupInv'
BY CommandsAssumption, FilesAssumption, FaultsAssumption, SMTT(30)
   DEF SetupInv, TypeOK, ApprovedSteps, TokensAreGenuine, Kill, Resolve, Listed

\* Every reachable state of the commands is typed and holds only genuine tokens.
LEMMA SetupInvariant == Spec => []SetupInv
<1>1. SetupInv /\ UNCHANGED vars => SetupInv'
  BY DEF SetupInv, TypeOK, ApprovedSteps, TokensAreGenuine
<1>2. SetupInv /\ [Next]_vars => SetupInv'
  BY <1>1, MigrateStep, LoginStep, SaveStep, OtherStep DEF Next
<1> QED BY SetupInit, <1>2, PTL DEF Spec

\* Every reachable state of the commands is typed.
THEOREM SetupTypeCorrect == Spec => []TypeOK
BY SetupInvariant, PTL DEF SetupInv

\* Whatever commands overlap and wherever they are killed, a token on disk was
\* issued to an approved login of its alias, or is the migrated one.
THEOREM TokensStayGenuine == Spec => []TokensAreGenuine
BY SetupInvariant, PTL DEF SetupInv

-----------------------------------------------------------------------------
(* The old token is kept as long as no command is killed.                  *)

\* Until the default is replaced, its token file holds the old token or is
\* open in the hands of a command that will write it, and nobody is about to
\* delete the old file before the new one exists.
LegacyHeld ==
    /\ \A p \in Commands : pc[p] = "copy" => p \in linked
    /\ \A p \in Commands : pc[p] \in {"copy", "unlink"} => token[Default] # NoFile
    /\ token[Default] \in {NoFile, Empty, Legacy}
    /\ token[Default] = Empty => \E p \in Commands : pc[p] = "copy"
    /\ token[Default] = NoFile => legacy

KeptInv == kills = 0 => DefaultIsReplaced \/ LegacyHeld

\* The invariant implies the property.
LEMMA HeldIsKept == SetupInv /\ KeptInv => LegacyIsKept
BY CommandsAssumption, SMTT(30)
   DEF SetupInv, TypeOK, KeptInv, LegacyHeld, LegacyIsKept, LegacyIsSomewhere

\* A command past its token stays there.
LEMMA ReplacedStays ==
    ASSUME SetupInv, Next, kills' = 0, DefaultIsReplaced
    PROVE  DefaultIsReplaced'
<1>1. PICK q \in Setups \cup Removers : AliasOf[q] = Default /\ pc[q] \in {"store", "done"}
  BY DEF DefaultIsReplaced
<1>2. pc'[q] \in {"store", "done"}
  <2> USE <1>1 DEF SetupInv, TypeOK
  <2>1. CASE \E p \in Commands : Migrate(p)
    BY <2>1, SMTT(30) DEF Migrate, LooksForLegacy, LooksForTarget, ReadLegacy, CreateTarget,
       CopyLegacy, UnlinkLegacy
  <2>2. CASE \E p \in Commands : Save(p)
    BY <2>2, SMTT(30) DEF Save, StartRemoval, ReadConfig, TruncateConfig, RewriteConfig,
       TruncateToken, StoreToken, ForgetToken
  <2>3. CASE \E p \in Commands : Kill(p)
    BY <2>3, SMTT(30) DEF Kill
  <2>4. CASE \E p \in Setups : Login(p) \/ LoginFails(p) \/ Approve(p) \/ Expire(p)
    BY <2>4, SMTT(30) DEF Login, Initiate, AskForToken, SelectCode, DeleteCode, TakeToken,
       LoginFails, Approve, Expire
  <2>5. CASE \E p \in Readers : Resolve(p)
    BY <2>5, SMTT(30) DEF Resolve
  <2> QED BY <2>1, <2>2, <2>3, <2>4, <2>5 DEF Next
<1> QED BY <1>1, <1>2 DEF DefaultIsReplaced

\* Migration secures the old token before it deletes the old file.
LEMMA HeldMigrate ==
    ASSUME SetupInv, LegacyHeld, NEW p \in Commands, Migrate(p)
    PROVE  LegacyHeld'
<1> USE CommandsAssumption, FilesAssumption DEF SetupInv, TypeOK, LegacyHeld
<1>1. CASE LooksForLegacy(p)
  BY <1>1, SMTT(30) DEF LooksForLegacy, AfterMigration
<1>2. CASE LooksForTarget(p)
  BY <1>2, SMTT(30) DEF LooksForTarget
<1>3. CASE ReadLegacy(p)
  BY <1>3, SMTT(30) DEF ReadLegacy
<1>4. CASE CreateTarget(p)
  <2>1. token'[Default] = Empty /\ pc'[p] = "copy"
    BY <1>4, SMTT(30) DEF CreateTarget, Truncate
  <2>2. \A q \in Commands : pc'[q] = "copy" => q \in linked'
    BY <1>4, SMTT(30) DEF CreateTarget, Truncate
  <2> QED BY <2>1, <2>2
<1>5. CASE CopyLegacy(p)
  <2>1. token'[Default] = Legacy
    BY <1>5, SMTT(30) DEF CopyLegacy, Put
  <2>2. \A q \in Commands : pc'[q] = "copy" => q \in linked'
    BY <1>5, SMTT(30) DEF CopyLegacy, Put
  <2> QED BY <2>1, <2>2
<1>6. CASE UnlinkLegacy(p)
  BY <1>6, SMTT(30) DEF UnlinkLegacy, AfterMigration
<1> QED BY <1>1, <1>2, <1>3, <1>4, <1>5, <1>6 DEF Migrate

\* Saving another alias leaves the default's token alone.
LEMMA HeldSave ==
    ASSUME SetupInv, LegacyHeld, NEW p \in Commands, Save(p), ~ DefaultIsReplaced'
    PROVE  LegacyHeld'
<1> USE CommandsAssumption, FilesAssumption DEF SetupInv, TypeOK, LegacyHeld
<1>1. CASE StartRemoval(p) \/ ReadConfig(p)
  BY <1>1, SMTT(30) DEF StartRemoval, ReadConfig
<1>2. CASE TruncateConfig(p) \/ RewriteConfig(p)
  BY <1>2, SMTT(30) DEF TruncateConfig, RewriteConfig
<1>3. CASE TruncateToken(p)
  BY <1>3, SMTT(30) DEF TruncateToken, Truncate, DefaultIsReplaced, ApprovedSteps
<1>4. CASE StoreToken(p)
  BY <1>4, SMTT(30) DEF StoreToken, Put, DefaultIsReplaced, ApprovedSteps
<1>5. CASE ForgetToken(p)
  <2>1. AliasOf[p] # Default
    BY <1>5, SMTT(30) DEF ForgetToken, DefaultIsReplaced, ApprovedSteps
  <2> QED BY <1>5, <2>1, SMTT(30) DEF ForgetToken, Opened
<1> QED BY <1>1, <1>2, <1>3, <1>4, <1>5 DEF Save

\* Logging in, listing and asking touch no file.
LEMMA HeldElse ==
    ASSUME SetupInv, LegacyHeld, NEW p \in Commands,
           \/ p \in Setups /\ (Login(p) \/ LoginFails(p) \/ Approve(p) \/ Expire(p))
           \/ p \in Readers /\ Resolve(p)
    PROVE  LegacyHeld'
<1> USE DEF SetupInv, TypeOK, LegacyHeld
<1>1. CASE Login(p)
  BY <1>1, SMTT(30) DEF Login, Initiate, AskForToken, SelectCode, DeleteCode, TakeToken
<1>2. CASE LoginFails(p) \/ Resolve(p)
  BY <1>2, SMTT(30) DEF LoginFails, Resolve
<1>3. CASE Approve(p) \/ Expire(p)
  BY <1>3, SMTT(30) DEF Approve, Expire
<1> QED BY <1>1, <1>2, <1>3

\* As long as no command is killed, the old token is lost to nothing but a
\* setup or a removal of the default alias.
THEOREM LegacyTokenKept == Spec => []LegacyIsKept
<1>1. Init => KeptInv
  <2> SUFFICES ASSUME Init PROVE LegacyHeld
    BY DEF KeptInv
  <2>1. token[Default] = NoFile
    BY CommandsAssumption DEF Init
  <2>2. \A p \in Commands : pc[p] = "start"
    BY DEF Init
  <2>3. legacy
    BY DEF Init
  <2> QED BY <2>1, <2>2, <2>3, FilesAssumption DEF LegacyHeld
<1>2. ASSUME SetupInv, KeptInv, Next PROVE KeptInv'
  <2> SUFFICES ASSUME kills' = 0, ~ DefaultIsReplaced' PROVE LegacyHeld'
    BY DEF KeptInv
  <2>1. kills = 0
    <3>1. CASE \E p \in Commands : Migrate(p)
      BY <3>1 DEF Migrate, LooksForLegacy, LooksForTarget, ReadLegacy, CreateTarget, CopyLegacy,
         UnlinkLegacy
    <3>2. CASE \E p \in Commands : Save(p)
      BY <3>2 DEF Save, StartRemoval, ReadConfig, TruncateConfig, RewriteConfig, TruncateToken,
         StoreToken, ForgetToken
    <3>3. CASE \E p \in Commands : Kill(p)
      BY <1>2, <3>3, FaultsAssumption DEF Kill, SetupInv, TypeOK
    <3>4. CASE \E p \in Setups : Login(p) \/ LoginFails(p) \/ Approve(p) \/ Expire(p)
      BY <3>4 DEF Login, Initiate, AskForToken, SelectCode, DeleteCode, TakeToken, LoginFails,
         Approve, Expire
    <3>5. CASE \E p \in Readers : Resolve(p)
      BY <3>5 DEF Resolve
    <3> QED BY <1>2, <3>1, <3>2, <3>3, <3>4, <3>5 DEF Next
  <2>2. LegacyHeld
    BY <1>2, <2>1, ReplacedStays DEF KeptInv
  <2>3. CASE \E p \in Commands : Kill(p)
    BY <1>2, <2>3, FaultsAssumption DEF Kill, SetupInv, TypeOK
  <2> QED BY <1>2, <2>2, <2>3, HeldMigrate, HeldSave, HeldElse DEF Next
<1>3. KeptInv /\ UNCHANGED vars => KeptInv'
  BY DEF KeptInv, LegacyHeld, DefaultIsReplaced
<1>4. SetupInv /\ KeptInv /\ [Next]_vars => KeptInv'
  BY <1>2, <1>3
<1> QED BY <1>1, <1>4, SetupInvariant, HeldIsKept, PTL DEF Spec

-----------------------------------------------------------------------------

\* The faults of requests are only counted up, and a code that has expired
\* stays so: what ended a login remains true of it.
LEMMA CausesStay ==
    ASSUME TypeOK, [Next]_vars
    PROVE  /\ faults' = faults \/ faults' = faults + 1
           /\ expired \subseteq expired'
<1>1. CASE \E p \in Commands : Migrate(p)
  BY <1>1 DEF Migrate, LooksForLegacy, LooksForTarget, ReadLegacy, CreateTarget, CopyLegacy,
     UnlinkLegacy
<1>2. CASE \E p \in Commands : Save(p) \/ Kill(p)
  BY <1>2 DEF Save, StartRemoval, ReadConfig, TruncateConfig, RewriteConfig, TruncateToken,
     StoreToken, ForgetToken, Kill
<1>3. CASE \E p \in Setups : Login(p) \/ LoginFails(p) \/ Approve(p) \/ Expire(p)
  BY <1>3 DEF Login, Initiate, AskForToken, SelectCode, DeleteCode, TakeToken, LoginFails,
     Approve, Expire, RequestFault
<1>4. CASE \E p \in Readers : Resolve(p)
  BY <1>4 DEF Resolve
<1> QED BY <1>1, <1>2, <1>3, <1>4 DEF Next

\* A login is refused by a fault that is counted in the same step, and gives
\* up for a code that has expired by then.
LEMMA EndsForCause ==
    ASSUME TypeOK, [Next]_vars, NEW p \in Setups, pc'[p] \in {"refused", "expired"}
    PROVE  \/ pc'[p] = pc[p]
           \/ pc'[p] = "refused" /\ faults' = faults + 1
           \/ pc'[p] = "expired" /\ p \in expired
<1> USE DEF TypeOK
<1>1. ASSUME NEW q \in Commands, Migrate(q) \/ Save(q) \/ Kill(q)
      PROVE  pc'[p] = pc[p]
  <2>1. CASE Migrate(q)
    BY <2>1, SMTT(30) DEF Migrate, LooksForLegacy, LooksForTarget, ReadLegacy, CreateTarget,
       CopyLegacy, UnlinkLegacy, AfterMigration
  <2>2. CASE Save(q) \/ Kill(q)
    BY <2>2, SMTT(30) DEF Save, StartRemoval, ReadConfig, TruncateConfig, RewriteConfig,
       TruncateToken, StoreToken, ForgetToken, Kill
  <2> QED BY <1>1, <2>1, <2>2
<1>2. ASSUME NEW q \in Setups, Login(q)
      PROVE  \/ pc'[p] = pc[p]
             \/ pc'[p] = "refused" /\ faults' = faults + 1
             \/ pc'[p] = "expired" /\ p \in expired
  <2>1. CASE Initiate(q)
    BY <2>1, SMTT(30) DEF Initiate, RequestFault
  <2>2. CASE AskForToken(q) \/ SelectCode(q)
    BY <2>2, SMTT(30) DEF AskForToken, SelectCode
  <2>3. CASE DeleteCode(q) \/ TakeToken(q)
    BY <2>3, SMTT(30) DEF DeleteCode, TakeToken
  <2> QED BY <1>2, <2>1, <2>2, <2>3 DEF Login
<1>3. ASSUME NEW q \in Setups, LoginFails(q)
      PROVE  pc'[p] = pc[p] \/ (pc'[p] = "refused" /\ faults' = faults + 1)
  BY <1>3, SMTT(30) DEF LoginFails, RequestFault
<1>4. ASSUME NEW q \in Setups, Approve(q) \/ Expire(q)
      PROVE  pc'[p] = pc[p]
  BY <1>4 DEF Approve, Expire
<1>5. ASSUME NEW q \in Readers, Resolve(q)
      PROVE  pc'[p] = pc[p]
  BY <1>5, SMTT(30) DEF Resolve
<1> QED BY <1>1, <1>2, <1>3, <1>4, <1>5 DEF Next

\* A login is refused only after a request failed and gives up only after its
\* code expired, for any number of logins that wait side by side: the answer
\* to a poll for a pending approval ends none of them.
THEOREM LoginsEndForCause == Spec => []GivesUpForCause
<1>1. Init => GivesUpForCause
  BY DEF Init, GivesUpForCause
<1>2. ASSUME SetupInv, GivesUpForCause, [Next]_vars
      PROVE  GivesUpForCause'
  <2> SUFFICES ASSUME NEW p \in Setups, pc'[p] \in {"refused", "expired"}
               PROVE  /\ pc'[p] = "refused" => faults' > 0
                      /\ pc'[p] = "expired" => p \in expired'
    BY DEF GivesUpForCause
  <2>1. TypeOK
    BY <1>2 DEF SetupInv
  <2>2. faults \in Nat
    BY <2>1, FaultsAssumption DEF TypeOK
  <2>3. pc[p] = "refused" => faults > 0
    BY <1>2 DEF GivesUpForCause
  <2>4. pc[p] = "expired" => p \in expired
    BY <1>2 DEF GivesUpForCause
  <2> QED BY <1>2, <2>1, <2>2, <2>3, <2>4, CausesStay, EndsForCause
<1> QED BY <1>1, <1>2, SetupInvariant, PTL DEF Spec
=============================================================================
