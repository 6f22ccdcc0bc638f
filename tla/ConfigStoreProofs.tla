-------------------------- MODULE ConfigStoreProofs --------------------------
(***************************************************************************)
(* Theorems about the store of an owner's token: for one process at a time *)
(* and one spelling of each owner, the token set last is the one found.    *)
(***************************************************************************)
EXTENDS ConfigStore, TLAPS

-----------------------------------------------------------------------------
(* Configurations.                                                         *)

\* The configurations that file each entry under the owner its name means.
Filed == {c \in Configs : \A o \in DOMAIN c : OrgOf[c[o].name] = o}

\* The token a configuration and the keyring have for an owner.
TokenIn(config, keys, o) ==
  IF o \notin DOMAIN config THEN None
  ELSE IF config[o].inKeyring THEN keys[config[o].name]
  ELSE config[o].token

LEMMA FiledConfig ==
  ASSUME NEW c \in Filed
  PROVE  /\ DOMAIN c \subseteq Orgs /\ c \in [DOMAIN c -> Entry]
         /\ \A o \in DOMAIN c : c[o] \in Entry /\ c[o].name \in Names /\ OrgOf[c[o].name] = o
BY DEF Filed, Configs, Entry

LEMMA FileConfig ==
  ASSUME NEW os \in SUBSET Orgs, NEW c \in [os -> Entry], \A o \in os : OrgOf[c[o].name] = o
  PROVE  c \in Filed
BY DEF Filed, Configs

LEMMA NothingFiled == NoOrgs \in Filed /\ DOMAIN NoOrgs = {}
<1>1. NoOrgs \in [{} -> Entry] /\ DOMAIN NoOrgs = {}
  BY DEF NoOrgs
<1> QED
  BY <1>1, FileConfig

LEMMA HoldingIs ==
  ASSUME NEW e \in Entry, NEW t \in Tokens \cup {None}, NEW b \in BOOLEAN, b => t = None
  PROVE  /\ Holding(e, t, b) \in Entry
         /\ Holding(e, t, b).name = e.name /\ Holding(e, t, b).token = t
         /\ Holding(e, t, b).inKeyring = b
BY DEF Holding, Entry

\* An entry is replaced by another of the same name.
LEMMA Replaced ==
  ASSUME NEW c \in Filed, NEW o \in DOMAIN c, NEW e \in Entry, e.name = c[o].name,
         NEW d, d = [c EXCEPT ![o] = e]
  PROVE  /\ d \in Filed /\ DOMAIN d = DOMAIN c /\ d[o] = e
         /\ \A x \in DOMAIN c : x # o => d[x] = c[x]
<1>1. /\ DOMAIN c \subseteq Orgs /\ c \in [DOMAIN c -> Entry]
      /\ \A x \in DOMAIN c : OrgOf[c[x].name] = x
  BY FiledConfig
<1>2. d \in [DOMAIN c -> Entry] /\ d[o] = e /\ \A x \in DOMAIN c : x # o => d[x] = c[x]
  BY <1>1
<1>3. \A x \in DOMAIN c : OrgOf[d[x].name] = x
  BY <1>1, <1>2
<1>4. DOMAIN d = DOMAIN c
  BY <1>2
<1> HIDE DEF Filed
<1>5. d \in Filed
  BY <1>1, <1>2, <1>3, FileConfig
<1> QED
  BY <1>2, <1>4, <1>5

LEMMA Added ==
  ASSUME NEW c \in Filed, NEW n \in Names
  PROVE  /\ With(c, n) \in Filed /\ OrgOf[n] \in DOMAIN With(c, n)
         /\ \A x \in DOMAIN With(c, n) :
              With(c, n)[x] = IF x \in DOMAIN c THEN c[x] ELSE NewEntry(n)
         /\ DOMAIN With(c, n) = DOMAIN c \cup {OrgOf[n]}
<1>1. /\ DOMAIN c \subseteq Orgs /\ c \in [DOMAIN c -> Entry]
      /\ \A x \in DOMAIN c : OrgOf[c[x].name] = x
  BY FiledConfig
<1>2. OrgOf[n] \in Orgs
  BY ConfigAssumption DEF Orgs
<1>3. NewEntry(n) \in Entry /\ NewEntry(n).name = n
  BY DEF NewEntry, Entry
<1> DEFINE d == With(c, n)
<1>4. /\ d \in [DOMAIN c \cup {OrgOf[n]} -> Entry]
      /\ \A x \in DOMAIN c \cup {OrgOf[n]} : d[x] = IF x \in DOMAIN c THEN c[x] ELSE NewEntry(n)
  BY <1>1, <1>3 DEF With
<1>5. \A x \in DOMAIN c \cup {OrgOf[n]} : OrgOf[d[x].name] = x
  BY <1>1, <1>3, <1>4
<1>6. DOMAIN c \cup {OrgOf[n]} \in SUBSET Orgs
  BY <1>1, <1>2
<1> HIDE DEF d
<1>7. d \in Filed
  BY <1>4, <1>5, <1>6, FileConfig
<1>8. DOMAIN d = DOMAIN c \cup {OrgOf[n]}
  BY <1>4
<1> QED
  BY <1>4, <1>7, <1>8 DEF d

LEMMA Removed ==
  ASSUME NEW c \in Filed, NEW o
  PROVE  /\ Without(c, o) \in Filed /\ DOMAIN Without(c, o) = DOMAIN c \ {o}
         /\ \A x \in DOMAIN c \ {o} : Without(c, o)[x] = c[x]
<1>1. /\ DOMAIN c \subseteq Orgs /\ c \in [DOMAIN c -> Entry]
      /\ \A x \in DOMAIN c : OrgOf[c[x].name] = x
  BY FiledConfig
<1> DEFINE d == Without(c, o)
<1>2. d \in [DOMAIN c \ {o} -> Entry] /\ \A x \in DOMAIN c \ {o} : d[x] = c[x]
  BY <1>1 DEF Without, Restrict
<1>3. DOMAIN c \ {o} \in SUBSET Orgs /\ \A x \in DOMAIN c \ {o} : OrgOf[d[x].name] = x
  BY <1>1, <1>2
<1> HIDE DEF d
<1>4. d \in Filed
  BY <1>2, <1>3, FileConfig
<1>5. DOMAIN d = DOMAIN c \ {o}
  BY <1>2
<1> QED
  BY <1>2, <1>4, <1>5 DEF d

OneSpelling == \A a, b \in Names : OrgOf[a] = OrgOf[b] => a = b

\* The keyring's account n is that of its owner only.
LEMMA KeySet ==
  ASSUME OneSpelling, NEW c \in Filed, NEW n \in Names, NEW t, NEW keys, NEW new, NEW x,
         new[n] = t, \A m \in Names : m # n => new[m] = keys[m]
  PROVE  /\ x = OrgOf[n] /\ x \in DOMAIN c /\ c[x].inKeyring => TokenIn(c, new, x) = t
         /\ ~(x = OrgOf[n] /\ x \in DOMAIN c /\ c[x].inKeyring) => TokenIn(c, new, x) = TokenIn(c, keys, x)
<1>1. x \in DOMAIN c => c[x].name \in Names /\ OrgOf[c[x].name] = x
  BY FiledConfig
<1>2. CASE x \notin DOMAIN c
  BY <1>2 DEF TokenIn
<1>3. CASE x \in DOMAIN c
  <2>1. c[x].name \in Names /\ (x = OrgOf[n] <=> c[x].name = n)
    BY <1>1, <1>3 DEF OneSpelling
  <2> QED
    BY <1>3, <2>1 DEF TokenIn
<1> QED
  BY <1>2, <1>3

-----------------------------------------------------------------------------
(* LastSetWins.                                                            *)

\* One process at a time, and one spelling for each owner.
Alone(p) == Procs = {p} /\ OneSpelling

Types(p) ==
  /\ file \in Filed /\ DOMAIN mem = Procs /\ mem[p] \in Filed
  /\ keyring \in [Names -> Tokens \cup {None}] /\ reachable \in BOOLEAN
  /\ DOMAIN pc = Procs /\ pc[p] \in {"idle", "migrate", "ready", "open", "write"}
  /\ DOMAIN changed = Procs /\ changed[p] \in BOOLEAN
  /\ DOMAIN todo = Procs /\ DOMAIN intent = Procs

\* A command that was told nothing, and a migration that is not finished.
Phases(p) ==
  /\ pc[p] = "migrate" => todo[p] \subseteq ToMigrate(mem[p])
  /\ pc[p] \in {"migrate", "ready"} \/ (pc[p] \in {"open", "write"} /\ changed[p]) => DOMAIN intent[p] = {}
  /\ pc[p] = "ready" => ~changed[p]

Here(o) == TokenIn(file, keyring, o)
Held(p, o) == TokenIn(mem[p], keyring, o)

\* The file holds what the user may believe, except while it is being written;
\* so does the Config, with the tokens the command was told of.
Beliefs(p) ==
  \A o \in Orgs :
    /\ pc[p] # "write" =>
         \/ Here(o) \in wanted[o]
         \/ pc[p] = "open" /\ o \in DOMAIN intent[p] /\ Here(o) = intent[p][o]
    /\ pc[p] \in {"migrate", "ready"} \/ (pc[p] = "open" /\ changed[p]) => Held(p, o) = Here(o)
    /\ pc[p] \in {"open", "write"} =>
         IF o \in DOMAIN intent[p] THEN Held(p, o) = intent[p][o] ELSE Held(p, o) \in wanted[o]

StoreInv(p) == Types(p) /\ Phases(p) /\ (interrupted \/ Beliefs(p))

LEMMA StoreInitially == ASSUME NEW p, Alone(p), Init PROVE StoreInv(p)
<1>1. PICK plain \in [Orgs -> Tokens \cup {None}], spelling \in [Orgs -> Names] :
        /\ \A o \in Orgs : OrgOf[spelling[o]] = o
        /\ file = [o \in {x \in Orgs : plain[x] # None} |-> Holding(NewEntry(spelling[o]), plain[o], FALSE)]
        /\ wanted = [o \in Orgs |-> {plain[o]}]
  BY DEF Init
<1>2. ASSUME NEW o \in Orgs
      PROVE  LET e == Holding(NewEntry(spelling[o]), plain[o], FALSE)
             IN e \in Entry /\ e.name = spelling[o] /\ ~e.inKeyring /\ e.token = plain[o]
  BY DEF NewEntry, Entry, Holding
<1>3. file \in Filed
  <2>1. file \in [{x \in Orgs : plain[x] # None} -> Entry]
    BY <1>1, <1>2
  <2>2. \A o \in {x \in Orgs : plain[x] # None} : OrgOf[file[o].name] = o
    BY <1>1, <1>2
  <2> QED
    BY <2>1, <2>2, FileConfig
<1>4. \A o \in Orgs : Here(o) \in wanted[o]
  BY <1>1, <1>2 DEF Here, TokenIn
<1>5. p \in Procs
  BY DEF Alone
<1>6. Types(p)
  BY <1>3, <1>5, NothingFiled DEF Types, Init
<1> QED
  BY <1>4, <1>5, <1>6 DEF StoreInv, Init, Phases, Beliefs

LEMMA LoadKeeps == ASSUME NEW p, Alone(p), StoreInv(p), Load(p) PROVE StoreInv(p)'
<1>1. /\ UNCHANGED <<file, keyring, reachable, wanted, interrupted>>
      /\ pc[p] = "idle" /\ pc'[p] = "migrate" /\ mem'[p] = file /\ todo'[p] = ToMigrate(file)
      /\ changed'[p] = FALSE /\ intent'[p] = NoOrgs
      /\ DOMAIN pc' = Procs /\ DOMAIN mem' = Procs /\ DOMAIN todo' = Procs /\ DOMAIN changed' = Procs
      /\ DOMAIN intent' = Procs
  BY DEF Load, store, StoreInv, Types, Alone
<1>2. Types(p)' /\ Phases(p)'
  BY <1>1, NothingFiled DEF StoreInv, Types, Phases
<1>3. Beliefs(p) => Beliefs(p)'
  BY <1>1, NothingFiled DEF Beliefs, Here, Held
<1> QED
  BY <1>1, <1>2, <1>3 DEF StoreInv

LEMMA MigrateOneKeeps ==
  ASSUME NEW p, Alone(p), StoreInv(p), NEW o \in Orgs, MigrateOne(p, o)
  PROVE  StoreInv(p)'
<1>1. /\ UNCHANGED <<file, reachable, pc, intent, wanted, interrupted>>
      /\ pc[p] = "migrate" /\ o \in todo[p] /\ todo' = [todo EXCEPT ![p] = @ \ {o}]
      /\ p \in Procs
  BY DEF MigrateOne, history, Alone
<1>2. o \in ToMigrate(mem[p]) /\ todo'[p] = todo[p] \ {o} /\ DOMAIN todo' = Procs
  BY <1>1 DEF StoreInv, Types, Phases
<1>3. CASE ~reachable
  <2>1. UNCHANGED <<keyring, mem, changed>>
    BY <1>3 DEF MigrateOne
  <2> QED
    BY <1>1, <1>2, <2>1 DEF StoreInv, Types, Phases, Beliefs, Here, Held
<1>4. CASE reachable
  <2>0. PICK m, t, n, e : m = mem[p] /\ t = m[o].token /\ n = m[o].name /\ e = Holding(m[o], None, TRUE)
    OBVIOUS
  <2>1. /\ m \in Filed /\ o \in DOMAIN m /\ m[o] \in Entry /\ n \in Names /\ OrgOf[n] = o
        /\ t \in Tokens \cup {None} /\ ~m[o].inKeyring
    BY <1>2, <2>0, FiledConfig DEF StoreInv, Types, ToMigrate, Entry
  <2>2. e \in Entry /\ e.name = n /\ e.inKeyring
    BY <2>0, <2>1, HoldingIs
  <2>3. /\ keyring' = [keyring EXCEPT ![n] = t]
        /\ changed'[p] = TRUE /\ DOMAIN changed' = Procs
    BY <1>1, <1>4, <2>0 DEF MigrateOne, StoreInv, Types
  <2>4. PICK d : d = Migrated(m, o)
    OBVIOUS
  <2>5. mem'[p] = d /\ DOMAIN mem' = Procs
    <3>1. mem' = [mem EXCEPT ![p] = Migrated(mem[p], o)]
      BY <1>4 DEF MigrateOne
    <3>2. mem' = [mem EXCEPT ![p] = d]
      BY <2>0, <2>4, <3>1
    <3> QED
      BY <1>1, <3>2 DEF StoreInv, Types
  <2>10. d \in Filed /\ DOMAIN d = DOMAIN m /\ d[o] = e /\ \A x \in DOMAIN m : x # o => d[x] = m[x]
    <3>1. e.name = m[o].name /\ d = [m EXCEPT ![o] = e]
      BY <2>0, <2>2, <2>4 DEF Migrated
    <3> QED
      BY <2>1, <2>2, <3>1, Replaced
  <2>11. keyring' \in [Names -> Tokens \cup {None}] /\ keyring'[n] = t /\ DOMAIN keyring = Names
    BY <2>1, <2>3 DEF StoreInv, Types
  <2>12. \A a \in Names : a # n => keyring'[a] = keyring[a]
    BY <2>3, <2>11
  <2>6. ToMigrate(m) \ {o} \subseteq ToMigrate(d)
    BY <2>10 DEF ToMigrate
  <2>7. Types(p)' /\ Phases(p)'
    BY <1>1, <1>2, <2>0, <2>3, <2>5, <2>6, <2>10, <2>11 DEF StoreInv, Types, Phases
  <2>8. ASSUME Beliefs(p) PROVE \A x \in Orgs : Here(x)' = Here(x) /\ Held(p, x)' = Held(p, x)
    <3> SUFFICES ASSUME NEW x \in Orgs PROVE Here(x)' = Here(x) /\ Held(p, x)' = Held(p, x)
      OBVIOUS
    <3>0. file \in Filed /\ file' = file /\ OneSpelling
      BY <1>1 DEF StoreInv, Types, Alone
    <3>1. Here(x)' = Here(x) \/ (x = o /\ Here(x)' = t)
      BY <2>1, <2>11, <2>12, <3>0, KeySet DEF Here
    <3>2. Held(p, o) = t /\ Here(o) = Held(p, o)
      BY <1>1, <2>0, <2>1, <2>8 DEF Held, TokenIn, Beliefs
    <3>3. x # o => TokenIn(m, keyring', x) = Held(p, x)
      BY <2>0, <2>1, <2>11, <2>12, <3>0, KeySet DEF Held
    <3>4. Held(p, x)' = IF x = o THEN t ELSE TokenIn(m, keyring', x)
      BY <2>1, <2>2, <2>5, <2>10, <2>11 DEF Held, TokenIn
    <3> QED
      BY <2>1, <3>1, <3>2, <3>3, <3>4
  <2>9. Beliefs(p) => Beliefs(p)'
    BY <1>1, <2>3, <2>8 DEF Beliefs
  <2> QED
    BY <1>1, <2>7, <2>9 DEF StoreInv
<1> QED
  BY <1>3, <1>4 DEF StoreInv, Types

LEMMA MigrationEndsKeeps == ASSUME NEW p, Alone(p), StoreInv(p), MigrationEnds(p) PROVE StoreInv(p)'
<1>1. /\ UNCHANGED <<file, keyring, reachable, mem, todo, changed, intent, wanted, interrupted>>
      /\ pc[p] = "migrate" /\ p \in Procs /\ DOMAIN pc' = Procs
      /\ pc'[p] = IF changed[p] THEN "open" ELSE "ready"
  BY DEF MigrationEnds, store, history, Alone, StoreInv, Types
<1>2. Types(p)' /\ Phases(p)'
  BY <1>1 DEF StoreInv, Types, Phases
<1>3. Beliefs(p) => Beliefs(p)'
  BY <1>1 DEF StoreInv, Types, Phases, Beliefs, Here, Held
<1> QED
  BY <1>1, <1>2, <1>3 DEF StoreInv

LEMMA OpenFileKeeps == ASSUME NEW p, Alone(p), StoreInv(p), OpenFile(p) PROVE StoreInv(p)'
<1>1. /\ UNCHANGED <<keyring, reachable, mem, todo, changed, intent, wanted, interrupted>>
      /\ pc[p] = "open" /\ p \in Procs /\ DOMAIN pc' = Procs /\ pc'[p] = "write"
      /\ file' = NoOrgs
  BY DEF OpenFile, history, Alone, StoreInv, Types
<1>2. Types(p)' /\ Phases(p)'
  BY <1>1, NothingFiled DEF StoreInv, Types, Phases
<1>3. Beliefs(p) => Beliefs(p)'
  BY <1>1 DEF Beliefs, Held
<1> QED
  BY <1>1, <1>2, <1>3 DEF StoreInv

LEMMA WriteFileKeeps == ASSUME NEW p, Alone(p), StoreInv(p), WriteFile(p) PROVE StoreInv(p)'
<1>1. /\ UNCHANGED <<keyring, reachable, mem, todo, intent, interrupted>>
      /\ pc[p] = "write" /\ p \in Procs /\ DOMAIN pc' = Procs /\ DOMAIN changed' = Procs
      /\ pc'[p] = AfterSave(p) /\ changed'[p] = FALSE
      /\ file' = mem[p]
  BY DEF WriteFile, SaveDone, Alone, StoreInv, Types
<1>2. Types(p)' /\ Phases(p)'
  BY <1>1 DEF StoreInv, Types, Phases, AfterSave
<1>3. ASSUME NEW o \in Orgs
      PROVE  /\ o \in DOMAIN intent[p] => wanted'[o] = {intent[p][o]}
             /\ o \notin DOMAIN intent[p] => wanted'[o] = wanted[o]
  BY DEF WriteFile, Believes, Nothing
<1>4. Beliefs(p) => Beliefs(p)'
  BY <1>1, <1>3 DEF StoreInv, Types, Phases, AfterSave, Beliefs, Here, Held
<1> QED
  BY <1>1, <1>2, <1>4 DEF StoreInv

\* A command that could not save or was killed: what it was told may count.
LEMMA EitherMayCount ==
  ASSUME NEW p, Believes(p, wanted), NEW o \in Orgs
  PROVE  /\ o \in DOMAIN intent[p] => wanted'[o] = wanted[o] \cup {intent[p][o]}
         /\ o \notin DOMAIN intent[p] => wanted'[o] = wanted[o]
BY DEF Believes

LEMMA SaveFailsKeeps == ASSUME NEW p, Alone(p), StoreInv(p), SaveFails(p) PROVE StoreInv(p)'
<1>1. /\ UNCHANGED <<keyring, reachable, mem, todo, intent>>
      /\ p \in Procs /\ DOMAIN pc' = Procs /\ DOMAIN changed' = Procs
      /\ pc[p] \in {"open", "write"} /\ pc'[p] = AfterSave(p) /\ changed'[p] = FALSE
      /\ Believes(p, wanted)
      /\ \/ pc[p] = "open" /\ UNCHANGED <<file, interrupted>>
         \/ file' = NoOrgs /\ interrupted' = TRUE
  BY DEF SaveFails, SaveDone, Alone, StoreInv, Types
<1>2. Types(p)' /\ Phases(p)'
  BY <1>1, NothingFiled DEF StoreInv, Types, Phases, AfterSave
<1>3. ASSUME pc[p] = "open", UNCHANGED file, Beliefs(p) PROVE Beliefs(p)'
  <2> SUFFICES ASSUME NEW o \in Orgs
               PROVE  /\ Here(o)' \in wanted'[o]
                      /\ changed[p] => Held(p, o)' = Here(o)'
    BY <1>1 DEF AfterSave, Beliefs
  <2> QED
    BY <1>1, <1>3, EitherMayCount DEF Beliefs, Here, Held
<1> QED
  BY <1>1, <1>2, <1>3 DEF StoreInv

LEMMA KillKeeps == ASSUME NEW p, Alone(p), StoreInv(p), Kill(p) PROVE StoreInv(p)'
<1>1. /\ UNCHANGED <<file, keyring, reachable, mem, todo, changed, intent>>
      /\ p \in Procs /\ DOMAIN pc' = Procs /\ pc'[p] = "idle"
      /\ Believes(p, wanted)
      /\ interrupted' = (interrupted \/ pc[p] = "write")
  BY DEF Kill, store, Alone, StoreInv, Types
<1>2. Types(p)' /\ Phases(p)'
  BY <1>1 DEF StoreInv, Types, Phases
<1>3. ASSUME pc[p] # "write", Beliefs(p) PROVE Beliefs(p)'
  <2> SUFFICES ASSUME NEW o \in Orgs PROVE Here(o)' \in wanted'[o]
    BY <1>1 DEF Beliefs
  <2> QED
    BY <1>1, <1>3, EitherMayCount DEF Beliefs, Here
<1>4. interrupted \/ pc[p] = "write" => interrupted'
  BY <1>1
<1> QED
  BY <1>2, <1>3, <1>4 DEF StoreInv

\* A command that changes the Config to one with the tokens it was told of, and
\* the keyring for their owners at most.
LEMMA SavesKeeps ==
  ASSUME NEW p, Alone(p), StoreInv(p), Command(p), NEW config \in Filed, NEW told, Saves(p, config, told),
         keyring' \in [Names -> Tokens \cup {None}],
         \A o \in Orgs : Here(o)' = Here(o) \/ (o \in DOMAIN told /\ Here(o)' = told[o]),
         \A o \in Orgs : o \in DOMAIN told => TokenIn(config, keyring', o) = told[o],
         \A o \in Orgs : o \notin DOMAIN told => TokenIn(config, keyring', o) = Held(p, o)
  PROVE  StoreInv(p)'
<1>1. /\ UNCHANGED <<file, reachable, todo, changed, wanted, interrupted>>
      /\ pc[p] = "ready" /\ p \in Procs
      /\ DOMAIN pc' = Procs /\ DOMAIN mem' = Procs /\ DOMAIN intent' = Procs
      /\ pc'[p] = "open" /\ mem'[p] = config /\ intent'[p] = told
  BY DEF Command, Saves, Alone, StoreInv, Types
<1>2. ~changed[p]
  BY <1>1 DEF StoreInv, Phases
<1>3. Types(p)' /\ Phases(p)'
  BY <1>1, <1>2 DEF StoreInv, Types, Phases
<1>4. \A o \in Orgs : Held(p, o)' = TokenIn(config, keyring', o)
  BY <1>1 DEF Held
<1>5. Beliefs(p) => Beliefs(p)'
  BY <1>1, <1>2, <1>4 DEF Beliefs
<1> QED
  BY <1>1, <1>3, <1>5 DEF StoreInv

LEMMA EndsKeeps ==
  ASSUME NEW p, Alone(p), StoreInv(p), Command(p), Ends(p), UNCHANGED keyring
  PROVE  StoreInv(p)'
<1>1. /\ UNCHANGED <<file, keyring, reachable, mem, todo, changed, intent, wanted, interrupted>>
      /\ pc[p] = "ready" /\ p \in Procs /\ DOMAIN pc' = Procs /\ pc'[p] = "idle"
  BY DEF Command, Ends, Alone, StoreInv, Types
<1>2. Types(p)' /\ Phases(p)'
  BY <1>1 DEF StoreInv, Types, Phases
<1>3. Beliefs(p) => Beliefs(p)'
  BY <1>1 DEF Beliefs, Here
<1> QED
  BY <1>1, <1>2, <1>3 DEF StoreInv

LEMMA OnlyIs == ASSUME NEW o, NEW t PROVE DOMAIN Only(o, t) = {o} /\ Only(o, t)[o] = t
BY DEF Only

\* The keyring takes a token under n, or does not: that is about n's owner.
LEMMA KeyringSet ==
  ASSUME OneSpelling, keyring \in [Names -> Tokens \cup {None}], NEW n \in Names, NEW t \in Tokens \cup {None},
         keyring' = [keyring EXCEPT ![n] = t] \/ keyring' = keyring,
         NEW c \in Filed, NEW o
  PROVE  /\ keyring' \in [Names -> Tokens \cup {None}]
         /\ o # OrgOf[n] => TokenIn(c, keyring', o) = TokenIn(c, keyring, o)
         /\ TokenIn(c, keyring', o) = TokenIn(c, keyring, o) \/ TokenIn(c, keyring', o) = t
<1>1. CASE keyring' = keyring
  BY <1>1
<1>2. CASE keyring' = [keyring EXCEPT ![n] = t]
  <2>1. /\ keyring' \in [Names -> Tokens \cup {None}] /\ keyring'[n] = t
        /\ \A a \in Names : a # n => keyring'[a] = keyring[a]
    BY <1>2
  <2> QED
    BY <2>1, KeySet
<1> QED
  BY <1>1, <1>2

LEMMA SetTokenKeeps ==
  ASSUME NEW p, Alone(p), StoreInv(p), NEW n \in Names, NEW t \in Tokens, SetToken(p, n, t)
  PROVE  StoreInv(p)'
<1>1. PICK c, o, e, d, told, token :
        /\ c = With(mem[p], n) /\ o = OrgOf[n] /\ token = (IF reachable THEN None ELSE t)
        /\ e = Holding(c[o], token, reachable) /\ d = [c EXCEPT ![o] = e] /\ told = Only(o, t)
  OBVIOUS
<1>2. /\ Command(p) /\ Saves(p, d, told)
      /\ reachable => keyring' = [keyring EXCEPT ![n] = t]
      /\ ~reachable => keyring' = keyring
  BY <1>1 DEF SetToken
<1>3. /\ file \in Filed /\ mem[p] \in Filed /\ reachable \in BOOLEAN /\ OneSpelling
      /\ keyring \in [Names -> Tokens \cup {None}]
  BY DEF StoreInv, Types, Alone
<1>4. /\ c \in Filed /\ o \in DOMAIN c /\ DOMAIN c = DOMAIN mem[p] \cup {o}
      /\ \A x \in DOMAIN mem[p] : c[x] = mem[p][x]
  BY <1>1, <1>3, Added
<1>5. c[o] \in Entry /\ c[o].name \in Names /\ OrgOf[c[o].name] = o
  BY <1>4, FiledConfig
<1>6. c[o].name = n
  BY <1>1, <1>3, <1>5 DEF OneSpelling
<1>7. e \in Entry /\ e.name = n /\ e.token = token /\ e.inKeyring = reachable
  <2>1. CASE reachable
    <3>1. e = Holding(c[o], None, TRUE) /\ token = None
      BY <1>1, <2>1
    <3> QED
      BY <1>5, <1>6, <2>1, <3>1, HoldingIs
  <2>2. CASE ~reachable
    <3>1. e = Holding(c[o], t, FALSE) /\ token = t
      BY <1>1, <1>3, <2>2
    <3> QED
      BY <1>3, <1>5, <1>6, <2>2, <3>1, HoldingIs
  <2> QED
    BY <2>1, <2>2
<1>8. d \in Filed /\ DOMAIN d = DOMAIN c /\ d[o] = e /\ \A x \in DOMAIN c : x # o => d[x] = c[x]
  BY <1>1, <1>4, <1>6, <1>7, Replaced
<1>9. ASSUME NEW x
      PROVE  /\ keyring' \in [Names -> Tokens \cup {None}]
             /\ x # o => TokenIn(file, keyring', x) = TokenIn(file, keyring, x)
             /\ TokenIn(file, keyring', x) = TokenIn(file, keyring, x) \/ TokenIn(file, keyring', x) = t
             /\ x # o => TokenIn(mem[p], keyring', x) = TokenIn(mem[p], keyring, x)
  <2>1. keyring' = [keyring EXCEPT ![n] = t] \/ keyring' = keyring
    BY <1>2, <1>3
  <2> QED
    BY <1>1, <1>3, <2>1, KeyringSet
<1>10. DOMAIN told = {o} /\ told[o] = t
  BY <1>1, OnlyIs
<1>11. TokenIn(d, keyring', o) = t
  <2>1. CASE reachable
    BY <1>2, <1>3, <1>4, <1>7, <1>8, <2>1 DEF TokenIn
  <2>2. CASE ~reachable
    BY <1>1, <1>3, <1>4, <1>7, <1>8, <2>2 DEF TokenIn
  <2> QED
    BY <2>1, <2>2
<1>12. ASSUME NEW x, x # o PROVE TokenIn(d, keyring', x) = Held(p, x)
  <2>1. TokenIn(d, keyring', x) = TokenIn(mem[p], keyring', x)
    BY <1>4, <1>8, <1>12 DEF TokenIn
  <2> QED
    BY <1>9, <1>12, <2>1 DEF Held
<1>13. file' = file
  BY <1>2 DEF Command
<1>14. \A x \in Orgs : Here(x)' = Here(x) \/ (x \in DOMAIN told /\ Here(x)' = told[x])
  BY <1>9, <1>10, <1>13 DEF Here
<1> QED
  BY <1>2, <1>8, <1>9, <1>10, <1>11, <1>12, <1>14, SavesKeeps

LEMMA RemoveTokenKeeps ==
  ASSUME NEW p, Alone(p), StoreInv(p), NEW n \in Names, RemoveToken(p, n)
  PROVE  StoreInv(p)'
<1>1. PICK c, o : c = mem[p] /\ o = OrgOf[n]
  OBVIOUS
<1>2. CASE ~HasToken(p, o) \/ (c[o].inKeyring /\ ~reachable)
  BY <1>1, <1>2, EndsKeeps DEF RemoveToken
<1>3. CASE ~(~HasToken(p, o) \/ (c[o].inKeyring /\ ~reachable))
  <2>1. PICK a, e, d, told :
          /\ a = c[o].name /\ e = Holding(c[o], None, FALSE) /\ d = [c EXCEPT ![o] = e] /\ told = Only(o, None)
    OBVIOUS
  <2>2. /\ Command(p) /\ Saves(p, d, told) /\ o \in DOMAIN c
        /\ keyring' = [keyring EXCEPT ![a] = None] \/ keyring' = keyring
    BY <1>1, <1>3, <2>1 DEF RemoveToken, HasToken
  <2>3. /\ file \in Filed /\ c \in Filed /\ OneSpelling
        /\ keyring \in [Names -> Tokens \cup {None}]
    BY <1>1 DEF StoreInv, Types, Alone
  <2>4. c[o] \in Entry /\ a \in Names /\ OrgOf[a] = o
    BY <2>1, <2>2, <2>3, FiledConfig
  <2>5. e \in Entry /\ e.name = a /\ e.token = None /\ ~e.inKeyring
    BY <2>1, <2>4, HoldingIs
  <2>6. d \in Filed /\ DOMAIN d = DOMAIN c /\ d[o] = e /\ \A x \in DOMAIN c : x # o => d[x] = c[x]
    <3>1. e.name = c[o].name /\ d = [c EXCEPT ![o] = e]
      BY <2>1, <2>5
    <3> QED
      BY <2>2, <2>3, <2>5, <3>1, Replaced
  <2>7. ASSUME NEW x
        PROVE  /\ keyring' \in [Names -> Tokens \cup {None}]
               /\ x # o => TokenIn(file, keyring', x) = TokenIn(file, keyring, x)
               /\ TokenIn(file, keyring', x) = TokenIn(file, keyring, x) \/ TokenIn(file, keyring', x) = None
               /\ x # o => TokenIn(c, keyring', x) = TokenIn(c, keyring, x)
    BY <2>2, <2>3, <2>4, KeyringSet
  <2>8. DOMAIN told = {o} /\ told[o] = None
    BY <2>1, OnlyIs
  <2>9. TokenIn(d, keyring', o) = None
    BY <2>2, <2>5, <2>6 DEF TokenIn
  <2>10. ASSUME NEW x, x # o PROVE TokenIn(d, keyring', x) = Held(p, x)
    <3>1. TokenIn(d, keyring', x) = TokenIn(c, keyring', x)
      BY <2>6, <2>10 DEF TokenIn
    <3> QED
      BY <1>1, <2>7, <2>10, <3>1 DEF Held
  <2>11. file' = file
    BY <2>2 DEF Command
  <2>12. \A x \in Orgs : Here(x)' = Here(x) \/ (x \in DOMAIN told /\ Here(x)' = told[x])
    BY <2>7, <2>8, <2>11 DEF Here
  <2> QED
    BY <2>2, <2>6, <2>7, <2>8, <2>9, <2>10, <2>12, SavesKeeps
<1> QED
  BY <1>2, <1>3

\* A command that leaves the keyring alone.
LEMMA FileOnlyKeeps ==
  ASSUME NEW p, Alone(p), StoreInv(p), Command(p), NEW config \in Filed, NEW told, Saves(p, config, told),
         keyring' = keyring,
         \A o \in Orgs : o \in DOMAIN told => o \notin DOMAIN config /\ told[o] = None,
         \A o \in Orgs : o \notin DOMAIN told => TokenIn(config, keyring, o) = Held(p, o)
  PROVE  StoreInv(p)'
<1>1. file' = file /\ keyring' \in [Names -> Tokens \cup {None}]
  BY DEF Command, StoreInv, Types
<1>2. \A o \in Orgs : Here(o)' = Here(o)
  BY <1>1 DEF Here
<1>3. \A o \in Orgs : o \in DOMAIN told => TokenIn(config, keyring', o) = told[o]
  BY DEF TokenIn
<1> QED
  BY <1>1, <1>2, <1>3, SavesKeeps

LEMMA RemoveOrganizationKeeps ==
  ASSUME NEW p, Alone(p), StoreInv(p), NEW n \in Names, RemoveOrganization(p, n)
  PROVE  StoreInv(p)'
<1>1. PICK o, d, told : o = OrgOf[n] /\ d = Without(mem[p], o) /\ told = Only(o, None)
  OBVIOUS
<1>2. mem[p] \in Filed
  BY DEF StoreInv, Types
<1>3. /\ d \in Filed /\ DOMAIN d = DOMAIN mem[p] \ {o}
      /\ \A x \in DOMAIN mem[p] \ {o} : d[x] = mem[p][x]
      /\ DOMAIN told = {o} /\ told[o] = None
  <2>1. DOMAIN told = {o} /\ told[o] = None
    BY <1>1, OnlyIs
  <2>2. /\ d \in Filed /\ DOMAIN d = DOMAIN mem[p] \ {o}
        /\ \A x \in DOMAIN mem[p] \ {o} : d[x] = mem[p][x]
    BY <1>1, <1>2, Removed
  <2> QED
    BY <2>1, <2>2
<1>4. \A x : x # o => TokenIn(d, keyring, x) = Held(p, x)
  BY <1>3 DEF TokenIn, Held
<1>5. CASE o \in DOMAIN mem[p]
  <2>1. Command(p) /\ keyring' = keyring /\ Saves(p, d, told)
    BY <1>1, <1>5 DEF RemoveOrganization
  <2> QED
    BY <1>3, <1>4, <2>1, FileOnlyKeeps
<1>6. CASE o \notin DOMAIN mem[p]
  BY <1>1, <1>6, EndsKeeps DEF RemoveOrganization
<1> QED
  BY <1>5, <1>6

LEMMA ResetKeeps == ASSUME NEW p, Alone(p), StoreInv(p), Reset(p) PROVE StoreInv(p)'
<1>1. PICK told : told = [o \in Orgs |-> None]
  OBVIOUS
<1>2. Command(p) /\ keyring' = keyring /\ Saves(p, NoOrgs, told)
  BY <1>1 DEF Reset
<1>3. DOMAIN told = Orgs /\ \A o \in Orgs : told[o] = None
  BY <1>1
<1> QED
  BY <1>2, <1>3, NothingFiled, FileOnlyKeeps

LEMMA AddOrganizationKeeps ==
  ASSUME NEW p, Alone(p), StoreInv(p), NEW n \in Names, AddOrganization(p, n)
  PROVE  StoreInv(p)'
<1>1. PICK d : d = With(mem[p], n)
  OBVIOUS
<1>2. Command(p) /\ keyring' = keyring /\ Saves(p, d, NoOrgs)
  BY <1>1 DEF AddOrganization
<1>3. /\ d \in Filed /\ DOMAIN d = DOMAIN mem[p] \cup {OrgOf[n]}
      /\ \A x \in DOMAIN d : d[x] = IF x \in DOMAIN mem[p] THEN mem[p][x] ELSE NewEntry(n)
  BY <1>1, Added DEF StoreInv, Types
<1>4. ~NewEntry(n).inKeyring /\ NewEntry(n).token = None
  BY DEF NewEntry
<1>5. \A x : TokenIn(d, keyring, x) = Held(p, x)
  BY <1>3, <1>4 DEF TokenIn, Held
<1> QED
  BY <1>2, <1>3, <1>5, NothingFiled, FileOnlyKeeps

LEMMA AmendOrganizationKeeps ==
  ASSUME NEW p, Alone(p), StoreInv(p), NEW n \in Names, NEW valid \in BOOLEAN, AmendOrganization(p, n, valid)
  PROVE  StoreInv(p)'
<1>1. PICK c, o : c = mem[p] /\ o = OrgOf[n]
  OBVIOUS
<1>2. c \in Filed /\ Command(p) /\ keyring' = keyring
  BY <1>1 DEF StoreInv, Types, AmendOrganization
<1>3. CASE o \notin DOMAIN c
  <2>1. Saves(p, c, NoOrgs)
    BY <1>1, <1>3 DEF AmendOrganization
  <2>2. \A x : TokenIn(c, keyring, x) = Held(p, x)
    BY <1>1 DEF Held
  <2> QED
    BY <1>2, <2>1, <2>2, NothingFiled, FileOnlyKeeps
<1>4. CASE o \in DOMAIN c
  <2>1. PICK e : e = [c[o] EXCEPT !.valid = @ /\ valid]
    OBVIOUS
  <2>2. PICK d : d = [c EXCEPT ![o] = e]
    OBVIOUS
  <2>3. c[o] \in Entry
    BY <1>2, <1>4, FiledConfig
  <2>4. e \in Entry /\ e.name = c[o].name /\ e.token = c[o].token /\ e.inKeyring = c[o].inKeyring
    BY <2>1, <2>3 DEF Entry
  <2>5. Saves(p, d, NoOrgs)
    BY <1>1, <1>4, <2>1, <2>2 DEF AmendOrganization
  <2>6. d \in Filed /\ DOMAIN d = DOMAIN c /\ d[o] = e /\ \A x \in DOMAIN c : x # o => d[x] = c[x]
    BY <1>2, <1>4, <2>2, <2>4, Replaced
  <2>7. \A x : TokenIn(d, keyring, x) = Held(p, x)
    BY <1>1, <2>4, <2>6 DEF TokenIn, Held
  <2> QED
    BY <1>2, <2>5, <2>6, <2>7, NothingFiled, FileOnlyKeeps
<1> QED
  BY <1>3, <1>4

LEMMA StoreKept == ASSUME NEW p, Alone(p), StoreInv(p), [Next]_vars PROVE StoreInv(p)'
<1>1. CASE UNCHANGED vars
  BY <1>1 DEF vars, store, history, StoreInv, Types, Phases, Beliefs, Here, Held
<1>2. CASE KeyringComesOrGoes
  BY <1>2 DEF KeyringComesOrGoes, store, history, StoreInv, Types, Phases, Beliefs, Here, Held
<1>3. CASE Read(p)
  BY <1>3, EndsKeeps DEF Read
<1>4. \A q \in Procs : q = p
  BY DEF Alone
<1> QED
  BY <1>1, <1>2, <1>3, <1>4, LoadKeeps, MigrateOneKeeps, MigrationEndsKeeps, OpenFileKeeps, WriteFileKeeps,
     SaveFailsKeeps, KillKeeps, SetTokenKeeps, RemoveTokenKeeps, RemoveOrganizationKeeps, ResetKeeps,
     AddOrganizationKeeps, AmendOrganizationKeeps
     DEF Next

\* LastSetWins: with one process at a time and one spelling of each owner, the
\* token an owner resolves to between commands is the one its user set last,
\* whatever commands were run and wherever they were killed or failed to save, for any
\* owners and tokens and whatever the keyring does, unless a write broke off.
THEOREM LastTokenWins ==
  ASSUME NEW p, Procs = {p}, \A a, b \in Names : OrgOf[a] = OrgOf[b] => a = b
  PROVE  Spec => []LastSetWins
<1>1. Alone(p)
  BY DEF Alone, OneSpelling
<1>2. Init => StoreInv(p)
  BY <1>1, StoreInitially
<1>3. StoreInv(p) /\ [Next]_vars => StoreInv(p)'
  BY <1>1, StoreKept
<1>4. StoreInv(p) => LastSetWins
  <2> SUFFICES ASSUME StoreInv(p), Quiet, ~interrupted, NEW o \in Orgs PROVE TokenForOwner(o) \in wanted[o]
    BY DEF LastSetWins
  <2>1. pc[p] = "idle"
    BY <1>1 DEF Alone, Quiet
  <2>2. Here(o) \in wanted[o]
    BY <2>1 DEF StoreInv, Beliefs
  <2> QED
    BY <2>2 DEF Here, TokenIn, TokenForOwner
<1> QED
  BY <1>2, <1>3, <1>4, PTL DEF Spec
=============================================================================
