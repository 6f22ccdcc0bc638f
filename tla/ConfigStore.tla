---------------------------- MODULE ConfigStore ----------------------------
(***************************************************************************)
(* Where sgh keeps what it knows of an owner: one JSON file, read by every *)
(* command as it starts and rewritten by those that change it, and the OS  *)
(* keyring, to which plaintext tokens are moved as a command starts        *)
(* (internal/config/config.go, pkg/config/config.go, pkg/keyring).         *)
(* A process runs one command and ends; it can be killed anywhere, and     *)
(* nothing keeps two processes apart.                                      *)
(***************************************************************************)
EXTENDS FiniteSets, Functions

CONSTANTS
  Names,     \* the spellings of owners that users type
  OrgOf,     \* the owner a spelling means, without regard to case
  BadNames,  \* spellings that validate() rejects
  Procs,     \* processes running at the same time
  Tokens,
  None,      \* no token
  Faults     \* what may go wrong: "kill", "save", "invalid" input

ASSUME ConfigAssumption ==
  /\ BadNames \subseteq Names /\ OrgOf \in [Names -> Range(OrgOf)]
  /\ None \notin Tokens
  /\ Faults \subseteq {"kill", "save", "invalid"}

Orgs == Range(OrgOf)

VARIABLES
  file,       \* the config file: its organizations
  whole,      \* the file is not cut off in the middle of its text
  keyring,    \* external: the token kept under each account name
  reachable,  \* external: the keyring backend answers
  pc, mem,    \* each process: where it stands, and its Config
  todo,       \* organizations migrateTokens has yet to look at
  changed,    \* migrateTokens has moved a token
  intent,     \* history: the tokens this command was told to set or remove
  wanted,     \* history: the tokens each owner may resolve to, as far as its user knows
  interrupted \* history: a write of the file broke off

store == <<file, whole, keyring>>
history == <<intent, wanted, interrupted>>
vars == <<store, reachable, pc, mem, todo, changed, history>>

\* An Organization: its token in plaintext or in the keyring, never both; `valid` says that
\* its name, tagger and lists pass validate().
Entry ==
  {e \in [name : Names, token : Tokens \cup {None}, inKeyring : BOOLEAN, valid : BOOLEAN] :
     e.inKeyring => e.token = None}

NewEntry(n) == [name |-> n, token |-> None, inKeyring |-> FALSE, valid |-> n \notin BadNames]

\* The Organizations of a Config: at most one for an owner.
Configs == UNION {[os -> Entry] : os \in SUBSET Orgs}

NoOrgs == [o \in {} |-> None]
Only(o, t) == [x \in {o} |-> t]

\* The entry with its token in the keyring, in the file, or nowhere.
Holding(entry, token, inKeyring) ==
  [name |-> entry.name, token |-> token, inKeyring |-> inKeyring, valid |-> entry.valid]

TypeOK ==
  /\ file \in Configs /\ whole \in BOOLEAN
  /\ keyring \in [Names -> Tokens \cup {None}]
  /\ reachable \in BOOLEAN
  /\ pc \in [Procs -> {"idle", "migrate", "ready", "open", "write"}]
  /\ mem \in [Procs -> Configs]
  /\ todo \in [Procs -> SUBSET Orgs] /\ changed \in [Procs -> BOOLEAN]
  /\ \A p \in Procs : intent[p] \in UNION {[os -> Tokens \cup {None}] : os \in SUBSET Orgs}
  /\ wanted \in [Orgs -> SUBSET (Tokens \cup {None})] /\ interrupted \in BOOLEAN

\* A file from a release that knew no keyring may hold plaintext tokens.
Init ==
  /\ \E plain \in [Orgs -> Tokens \cup {None}], spelling \in [Orgs -> Names] :
       /\ \A o \in Orgs : OrgOf[spelling[o]] = o
       /\ file = [o \in {x \in Orgs : plain[x] # None} |->
                    Holding(NewEntry(spelling[o]), plain[o], FALSE)]
       /\ wanted = [o \in Orgs |-> {plain[o]}]
  /\ \A o \in DOMAIN file : file[o].valid
  /\ whole = TRUE
  /\ keyring = [n \in Names |-> None]
  /\ reachable \in BOOLEAN
  /\ pc = [p \in Procs |-> "idle"] /\ mem = [p \in Procs |-> NoOrgs]
  /\ todo = [p \in Procs |-> {}] /\ changed = [p \in Procs |-> FALSE]
  /\ intent = [p \in Procs |-> NoOrgs] /\ interrupted = FALSE

-----------------------------------------------------------------------------
(* Starting: Load and migrateTokens.                                       *)

\* Load and validate accept the file: an empty one is as good as none.
Loadable == whole /\ \A o \in DOMAIN file : file[o].valid

\* The organizations with a plaintext token.
ToMigrate(config) == {o \in DOMAIN config : config[o].token # None /\ ~config[o].inKeyring}

Migrated(config, o) == [config EXCEPT ![o] = Holding(@, None, TRUE)]

\* A file that cannot be loaded ends the process at once.
Load(p) ==
  /\ pc[p] = "idle" /\ Loadable
  /\ pc' = [pc EXCEPT ![p] = "migrate"]
  /\ mem' = [mem EXCEPT ![p] = file]
  /\ todo' = [todo EXCEPT ![p] = ToMigrate(file)]
  /\ changed' = [changed EXCEPT ![p] = FALSE]
  /\ intent' = [intent EXCEPT ![p] = NoOrgs]
  /\ UNCHANGED <<store, reachable, wanted, interrupted>>

\* Mutant: the plaintext is dropped whether or not the keyring took the token.
MigrateOneUnchecked(p, o) ==
  /\ pc[p] = "migrate" /\ o \in todo[p]
  /\ todo' = [todo EXCEPT ![p] = @ \ {o}]
  /\ keyring' = IF reachable THEN [keyring EXCEPT ![mem[p][o].name] = mem[p][o].token]
                ELSE keyring
  /\ mem' = [mem EXCEPT ![p] = Migrated(@, o)]
  /\ changed' = [changed EXCEPT ![p] = TRUE]
  /\ UNCHANGED <<file, whole, reachable, pc, history>>

\* One turn of migrateTokens: if the keyring fails the token stays as it was.
MigrateOne(p, o) ==
  /\ pc[p] = "migrate" /\ o \in todo[p]
  /\ todo' = [todo EXCEPT ![p] = @ \ {o}]
  /\ IF reachable
       THEN /\ keyring' = [keyring EXCEPT ![mem[p][o].name] = mem[p][o].token]
            /\ mem' = [mem EXCEPT ![p] = Migrated(@, o)]
            /\ changed' = [changed EXCEPT ![p] = TRUE]
       ELSE UNCHANGED <<keyring, mem, changed>>
  /\ UNCHANGED <<file, whole, reachable, pc, history>>

\* Nothing was moved: straight to the command; otherwise the file is saved first.
MigrationEnds(p) ==
  /\ pc[p] = "migrate" /\ todo[p] = {}
  /\ pc' = [pc EXCEPT ![p] = IF changed[p] THEN "open" ELSE "ready"]
  /\ UNCHANGED <<store, reachable, mem, todo, changed, history>>

-----------------------------------------------------------------------------
(* Save: os.WriteFile empties the file and then writes it.                 *)

\* After the save of the migration comes the command; after the command's, the end.
AfterSave(p) == IF changed[p] THEN "ready" ELSE "idle"

\* What the user was told to have set is what counts from now on; of a command that
\* was killed or could not save (saveConfig only logs that) either may count.
Believes(p, kept) ==
  wanted' = [o \in Orgs |-> IF o \in DOMAIN intent[p] THEN {intent[p][o]} \cup kept[o]
                            ELSE wanted[o]]

Nothing == [o \in Orgs |-> {}]

SaveDone(p) ==
  /\ pc' = [pc EXCEPT ![p] = AfterSave(p)]
  /\ changed' = [changed EXCEPT ![p] = FALSE]

OpenFile(p) ==
  /\ pc[p] = "open"
  /\ pc' = [pc EXCEPT ![p] = "write"]
  /\ file' = NoOrgs /\ whole' = TRUE
  /\ UNCHANGED <<keyring, reachable, mem, todo, changed, history>>

WriteFile(p) ==
  /\ pc[p] = "write"
  /\ file' = mem[p] /\ whole' = TRUE
  /\ SaveDone(p)
  /\ Believes(p, Nothing)
  /\ UNCHANGED <<keyring, reachable, mem, todo, intent, interrupted>>

\* The file cannot be opened, or the disk is full.
SaveFails(p) ==
  /\ "save" \in Faults
  /\ \/ pc[p] = "open" /\ UNCHANGED <<file, whole, interrupted>>
     \/ pc[p] = "write" /\ file' = NoOrgs /\ whole' \in BOOLEAN /\ interrupted' = TRUE
  /\ SaveDone(p)
  /\ Believes(p, wanted)
  /\ UNCHANGED <<keyring, reachable, mem, todo, intent>>

-----------------------------------------------------------------------------
(* The commands.                                                           *)

Ends(p) == pc' = [pc EXCEPT ![p] = "idle"] /\ UNCHANGED <<mem, intent>>

Saves(p, config, told) ==
  /\ pc' = [pc EXCEPT ![p] = "open"]
  /\ mem' = [mem EXCEPT ![p] = config]
  /\ intent' = [intent EXCEPT ![p] = told]

Command(p) ==
  /\ pc[p] = "ready"
  /\ UNCHANGED <<file, whole, reachable, todo, changed, wanted, interrupted>>

\* The config with an entry for the owner, under the name typed if it is new.
With(config, n) ==
  [o \in DOMAIN config \cup {OrgOf[n]} |-> IF o \in DOMAIN config THEN config[o] ELSE NewEntry(n)]

Without(config, o) == Restrict(config, DOMAIN config \ {o})

\* SetToken: the keyring under the name as typed, or else the file.
SetToken(p, n, t) ==
  /\ Command(p)
  /\ keyring' = IF reachable THEN [keyring EXCEPT ![n] = t] ELSE keyring
  /\ LET config == With(mem[p], n)
         token == IF reachable THEN None ELSE t
     IN Saves(p, [config EXCEPT ![OrgOf[n]] = Holding(@, token, reachable)], Only(OrgOf[n], t))

HasToken(p, o) == o \in DOMAIN mem[p] /\ (mem[p][o].token # None \/ mem[p][o].inKeyring)

\* RemoveToken: nothing to remove, a keyring that fails, or done.
RemoveToken(p, n) ==
  LET o == OrgOf[n]
  IN /\ Command(p)
     /\ IF ~HasToken(p, o) \/ (mem[p][o].inKeyring /\ ~reachable)
          THEN Ends(p) /\ UNCHANGED keyring
          ELSE /\ keyring' = IF mem[p][o].inKeyring
                               THEN [keyring EXCEPT ![mem[p][o].name] = None] ELSE keyring
               /\ Saves(p, [mem[p] EXCEPT ![o] = Holding(@, None, FALSE)], Only(o, None))

\* RemoveOrganization: the entry goes, its keyring account stays.
RemoveOrganization(p, n) ==
  /\ Command(p)
  /\ UNCHANGED keyring
  /\ IF OrgOf[n] \in DOMAIN mem[p] THEN Saves(p, Without(mem[p], OrgOf[n]), Only(OrgOf[n], None))
                                   ELSE Ends(p)

\* `config reset`: Organizations becomes nil.
Reset(p) ==
  /\ Command(p)
  /\ UNCHANGED keyring
  /\ Saves(p, NoOrgs, [o \in Orgs |-> None])

\* AddOrganization, AddRepository, AddRepositoryPattern and SetOwnerType, also as a
\* side effect of listing an owner's repositories: the entry is there afterwards.
AddOrganization(p, n) ==
  /\ Command(p)
  /\ UNCHANGED keyring
  /\ Saves(p, With(mem[p], n), NoOrgs)

\* SetTaggerName, SetTaggerEmail and AddPullRequestAssignee change an entry that is
\* there and check nothing, and the removals change one too.
AmendOrganization(p, n, valid) ==
  /\ Command(p)
  /\ valid \/ "invalid" \in Faults
  /\ UNCHANGED keyring
  /\ IF OrgOf[n] \in DOMAIN mem[p] THEN Saves(p, [mem[p] EXCEPT ![OrgOf[n]].valid = @ /\ valid], NoOrgs)
                                   ELSE Saves(p, mem[p], NoOrgs)

\* A command that only reads the config, or finds nothing to change in it.
Read(p) == Command(p) /\ Ends(p) /\ UNCHANGED keyring

-----------------------------------------------------------------------------
\* A signal makes main call os.Exit wherever the command stands.
Kill(p) ==
  /\ "kill" \in Faults
  /\ pc[p] # "idle"
  /\ pc' = [pc EXCEPT ![p] = "idle"]
  /\ interrupted' = (interrupted \/ pc[p] = "write")
  /\ Believes(p, wanted)
  /\ UNCHANGED <<store, reachable, mem, todo, changed, intent>>

KeyringComesOrGoes ==
  /\ reachable' = ~reachable
  /\ UNCHANGED <<store, pc, mem, todo, changed, history>>

Next ==
  \/ \E p \in Procs :
       \/ Load(p) \/ MigrationEnds(p) \/ OpenFile(p) \/ WriteFile(p) \/ SaveFails(p)
       \/ Reset(p) \/ Read(p) \/ Kill(p)
       \/ \E o \in Orgs : MigrateOne(p, o)
       \/ \E n \in Names : \/ RemoveToken(p, n) \/ RemoveOrganization(p, n) \/ AddOrganization(p, n)
                           \/ \E t \in Tokens : SetToken(p, n, t)
                           \/ \E valid \in BOOLEAN : AmendOrganization(p, n, valid)
  \/ KeyringComesOrGoes

Spec == Init /\ [][Next]_vars

-----------------------------------------------------------------------------
\* TokenForOwner of a command started now.
TokenForOwner(o) ==
  IF o \notin DOMAIN file THEN None
  ELSE IF file[o].inKeyring THEN keyring[file[o].name]
  ELSE file[o].token

Quiet == \A p \in Procs : pc[p] = "idle"

\* Between commands, an owner's token is the one its user set last, whatever the
\* keyring did meanwhile and wherever a command was killed or failed to save,
\* as long as no write of the file broke off halfway.
LastSetWins ==
  Quiet /\ reachable /\ ~interrupted => \A o \in Orgs : TokenForOwner(o) \in wanted[o]

\* A command's file can be loaded by the next command.  The code does not keep
\* this, and no run checks it: AmendOrganization saves values that Load rejects,
\* and then no command that loads the configuration runs.
FileLoads == Quiet /\ ~interrupted => Loadable
=============================================================================
