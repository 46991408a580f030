----------------------------- MODULE TokenProofs -----------------------------
(***************************************************************************)
(* Tokens and the boot, proved for any number of migrations, tokens,       *)
(* requests and troubles: somebody administers, a boot gives up only for   *)
(* the reasons named and hands over what it promises, and every audit      *)
(* event that is lost was paid for.                                        *)
(***************************************************************************)
EXTENDS TokenService, FiniteSetTheorems, FunctionTheorems, TLAPS

-------------------------------------------------------------------------------
(* The inductive invariant                                                   *)

PastHost == {"legacy", "unset", "pin", "generate", "announce", "execs"}

PastMigrations == {"client", "networks", "runtime", "serving"} \cup PastHost

\* What is recorded has been executed; what is executed and not recorded is about to
\* be recorded, or something went wrong.
SchemaInv ==
  /\ \A v \in schema.recorded : schema.body[v] = "yes"
  /\ \A v \in 1 .. Versions \ schema.recorded : schema.body[v] # "no" =>
       \/ boot.pc = "record" /\ Pending(v)
       \/ spent.refused > 0 \/ spent.crashes > 0
  /\ boot.pc = "record" => \A v \in 1 .. Versions : Pending(v) => schema.body[v] = "yes"
  /\ boot.pc \in PastMigrations => Migrated

\* A boot is past a step only on a host without the defect that fails it.
HostInv ==
  /\ boot.pc \in {"networks", "runtime"} \cup PastHost => boot.host # "address"
  /\ boot.pc \in {"runtime"} \cup PastHost             => boot.host # "networks"
  /\ boot.pc \in PastHost                             => boot.host # "runtime"

\* What a boot has come to know; until the legacy setting is gone, the only row is the
\* one made from it, and from then on that row stays unless a secret is pinned.
BootInv ==
  /\ \A w \in Requests : boot.pc # "serving" \/ req[w].pc = "idle" => req[w] = NoRequest
  /\ boot.pc \in {"pin", "generate", "announce", "execs", "serving"} => setting = NoSecret
  /\ boot.pc \in {"generate", "announce"} => boot.pin = NoPin
  /\ boot.pc = "generate" => \A t \in Tokens : ~Live(t)
  /\ boot.pc = "announce" =>
       \E t \in Tokens : rows[t].state = "live" /\ rows[t].expiry = "never"
  /\ boot.pc = "execs" => \E t \in Tokens : Exists(t)
  /\ setting = Legacy =>
       /\ Legacy \in known
       /\ \A t \in Tokens : Exists(t) =>
            rows[t].state = "live" /\ rows[t].name = Bootstrap /\ rows[t].secret = Legacy
  /\ boot.pc = "unset" => SecretTaken(Legacy)
  /\ setting = NoSecret /\ Legacy \in known /\ known \cap Pins = {} => SecretTaken(Legacy)

\* Nobody has lost a secret.
AllHandedOver == spent.broken = 0 /\ spent.crashes = 0

\* Some live token administers as soon as there is any; a request that is about to
\* revoke one leaves another; and secrets that are not lost are known.
AdminInv ==
  /\ \A t \in Tokens : ~Exists(t) => rows[t].scopes = {}
  /\ ~raced /\ ~AdminExpired =>
       \/ \E t \in Tokens : LiveAdmin(t)
       \/ boot.pc # "serving" /\ \A t \in Tokens : ~Exists(t)
  /\ \A w \in Requests : req[w].pc \in {"count", "revoke"} =>
       req[w].target \in Tokens /\ Exists(req[w].target)
  /\ \A w \in Requests :
       ~raced /\ ~AdminExpired /\ req[w].pc = "revoke"
         /\ AdminCapable(rows[req[w].target].scopes) => OtherAdmins(req[w].target) # {}
  /\ AllHandedOver => \A t \in Tokens : rows[t].state = "live" =>
       \/ rows[t].secret \in known
       \/ boot.pc = "announce" /\ rows[t].expiry = "never"

\* Events are only in flight in the audit middleware.
AuditInv ==
  /\ \A w \in Requests : req[w].pc # "audit" => req[w].event = NoEvent
  /\ IsFiniteSet(owed)
  /\ EachLossIsPaidFor

TokenIInv ==
  /\ TokenTypeOK /\ SchemaInv /\ HostInv /\ BootInv
  /\ BootFailsOnlyIf /\ AdminInv /\ AuditInv

-------------------------------------------------------------------------------
(* Type correctness                                                          *)

LEMMA NullTypes ==
  /\ NoRequest \in Request
  /\ \A t \in Tokens : Absent(t) \in Row
  BY TokenAssumption DEF NoRequest, Request, Absent, Row, Secrets

LEMMA TypeInit == TokenInit => TokenTypeOK
<1> SUFFICES ASSUME TokenInit PROVE TokenTypeOK OBVIOUS
<1>1. schema \in Schema
  BY VersionsAssumption DEF TokenInit, Schema, SchemaAt, Executed
<1>2. rows \in [Tokens -> Row] /\ req \in [Requests -> Request]
  BY NullTypes DEF TokenInit
<1>3. spent \in [Trouble -> 0 .. MaxTroubles]
  BY TokenAssumption DEF TokenInit
<1> QED
  BY <1>1, <1>2, <1>3 DEF TokenInit, TokenTypeOK, Off, Hosts, Secrets

\* A trouble that is spent is counted, and there is room for it.
LEMMA SpendType ==
  ASSUME spent \in [Trouble -> 0 .. MaxTroubles], NEW k \in Trouble, Spend(k)
  PROVE  /\ spent' \in [Trouble -> 0 .. MaxTroubles]
         /\ spent'[k] = spent[k] + 1
         /\ \A j \in Trouble : j # k => spent'[j] = spent[j]
  BY TokenAssumption DEF Spend, Trouble

\* Any part of a migration may be left executed.
LEMMA TearsType ==
  ASSUME schema \in Schema, NEW v \in 1 .. Versions, Tears(v)
  PROVE  /\ schema' \in Schema /\ schema'.recorded = schema.recorded
         /\ \A u \in 1 .. Versions : u # v => schema'.body[u] = schema.body[u]
<1>1. PICK how \in Executed :
        schema' = [schema EXCEPT !.body[v] = IF @ = "no" THEN how ELSE @]
  BY DEF Tears
<1>2. PICK b : b = IF schema.body[v] = "no" THEN how ELSE schema.body[v]
  OBVIOUS
<1>3. schema.body \in [1 .. Versions -> Executed] /\ b \in Executed
  BY <1>2 DEF Schema
<1>4. schema' = [schema EXCEPT !.body = [schema.body EXCEPT ![v] = b]]
  BY <1>1, <1>2 DEF Schema
<1> QED BY <1>3, <1>4 DEF Schema

LEMMA NewRowType ==
  ASSUME NEW name \in Names, NEW secret \in Secrets, NEW scopes \in SUBSET Scopes,
         NEW expiry \in {"never", "later", "past"}
  PROVE  NewRow(name, secret, scopes, expiry) \in Row
  BY DEF NewRow, Row

LEMMA InsertType ==
  ASSUME rows \in [Tokens -> Row], NEW t \in Tokens, NEW row \in Row, Insert(t, row)
  PROVE  rows' \in [Tokens -> Row]
  BY DEF Insert

\* The steps between schema and tokens.
AsksDocker == NewClient \/ EnsureNetworks \/ ResolveRuntime

\* They let a fit host through and change nothing else.
LEMMA HostOutcome ==
  ASSUME TokenTypeOK, AsksDocker
  PROVE  /\ UNCHANGED <<schema, rows, setting, req, known, owed, raced, spent>>
         /\ boot'.host = boot.host /\ boot'.pin = boot.pin
         /\ \/ /\ boot.pc = "client" /\ boot'.pc = "networks" /\ boot.host # "address"
            \/ /\ boot.pc = "networks" /\ boot'.pc = "runtime" /\ boot.host # "networks"
            \/ /\ boot.pc = "runtime" /\ boot'.pc = "legacy" /\ boot.host # "runtime"
            \/ /\ boot.pc \in {"client", "networks", "runtime"} /\ boot'.pc = "failed"
               /\ boot.host # "fit"
<1>1. boot \in [pc : Booting \cup {"down", "failed", "serving"}, pin : Pins \cup {NoPin},
               host : Hosts, refused : BOOLEAN]
  BY DEF TokenTypeOK
<1>2. PICK step \in {<<"client", "address", "networks">>, <<"networks", "networks", "runtime">>,
                    <<"runtime", "runtime", "legacy">>} : AsksHost(step[1], step[2], step[3])
  <2>1. CASE NewClient
    BY <2>1 DEF NewClient
  <2>2. CASE EnsureNetworks
    BY <2>2 DEF EnsureNetworks
  <2>3. CASE ResolveRuntime
    BY <2>3 DEF ResolveRuntime
  <2> QED BY <2>1, <2>2, <2>3 DEF AsksDocker
<1>3. /\ UNCHANGED <<schema, rows, setting, req, known, owed, raced, spent>>
      /\ boot.pc = step[1]
      /\ boot' = [boot EXCEPT !.pc = IF boot.host = step[2] THEN "failed" ELSE step[3]]
  BY <1>2 DEF AsksHost, BootAt, BootGoto, Quiet
<1> QED BY <1>1, <1>2, <1>3

LEMMA BootsType ==
  ASSUME TokenTypeOK, Boots
  PROVE  TokenTypeOK'
<1> USE DEF TokenTypeOK, Quiet, BootAt, BootGoto, Booting
<1>1. CASE \E pin \in Pins \cup {NoPin}, host \in Hosts : Start(pin, host)
  BY <1>1 DEF Start
<1>2. CASE Migrate
  <2>1. ASSUME NEW v \in 1 .. Versions, ApplyMigration(v)
        PROVE  schema' \in Schema
    BY <2>1 DEF ApplyMigration, Schema, Executed
  <2>2. schema' \in Schema
    BY <1>2, <2>1 DEF Migrate
  <2> QED BY <1>2, <2>2 DEF Migrate
<1>3. CASE Record
  <2>1. schema' \in Schema
    <3>1. PICK v \in 1 .. Versions :
            schema' = [schema EXCEPT !.recorded = schema.recorded \cup {v}]
      BY <1>3 DEF Record, RecordMigration
    <3> QED BY <3>1 DEF Schema
  <2> QED BY <1>3, <2>1 DEF Record
<1>4. CASE MigrateSettingsToken
  <2>1. setting = Legacy => LegacyRow \in Row
    BY TokenAssumption, NewRowType DEF LegacyRow, Secrets, Scopes
  <2>2. rows' \in [Tokens -> Row]
    BY <1>4, <2>1, InsertType DEF MigrateSettingsToken
  <2> QED BY <1>4, <2>2 DEF MigrateSettingsToken
<1>5. CASE DeleteSetting
  BY <1>5 DEF DeleteSetting
<1>6. CASE PinBootstrap
  <2>1. boot.pin \in Pins => PinnedRow \in Row /\ boot.pin \in Secrets
    BY TokenAssumption, NewRowType DEF PinnedRow, Secrets, Scopes
  <2>2. rows' \in [Tokens -> Row]
    BY <1>6, <2>1, InsertType DEF PinBootstrap
  <2>3. known' \subseteq Secrets /\ boot' \in [pc : Booting \cup {"down", "failed", "serving"}, pin : Pins \cup {NoPin},
               host : Hosts, refused : BOOLEAN]
    BY <1>6, <2>1 DEF PinBootstrap, Serving, Off
  <2> QED BY <1>6, <2>2, <2>3 DEF PinBootstrap
<1>7. CASE HasLiveToken
  BY <1>7 DEF HasLiveToken
<1>8. CASE Generate
  <2>1. \A t \in Tokens : NewRow(Bootstrap, t, {"*"}, "never") \in Row
    BY TokenAssumption, NewRowType DEF Secrets, Scopes
  <2>2. rows' \in [Tokens -> Row]
    BY <1>8, <2>1, InsertType DEF Generate
  <2> QED BY <1>8, <2>2 DEF Generate
<1>9. CASE Announce
  BY <1>9 DEF Announce, Row
<1>10. CASE BootRefused
  <2>1. schema' \in Schema
    BY <1>10, TearsType DEF BootRefused, Pending
  <2>2. spent' \in [Trouble -> 0 .. MaxTroubles]
    BY <1>10, SpendType DEF BootRefused, Trouble
  <2> QED BY <1>10, <2>1, <2>2 DEF BootRefused
<1>11. CASE AsksDocker
  BY <1>11 DEF AsksDocker, NewClient, EnsureNetworks, ResolveRuntime, AsksHost
<1>12. CASE OpenExecs
  BY <1>12 DEF OpenExecs, Serving, Off, Hosts
<1> QED BY <1>1, <1>2, <1>3, <1>4, <1>5, <1>6, <1>7, <1>8, <1>9, <1>10, <1>11, <1>12
        DEF Boots, AsksDocker

LEMMA HandlesType ==
  ASSUME TokenTypeOK, NEW w \in Requests, Handles(w)
  PROVE  TokenTypeOK'
<1> USE DEF TokenTypeOK, Unsettled, At
<1>1. req[w] \in Request
  OBVIOUS
<1>2. Return(w) \/ (\E e \in Change : Respond(w, e)) => req' \in [Requests -> Request]
  <2>1. ASSUME NEW e \in Change
        PROVE  [NoRequest EXCEPT !.pc = "audit", !.event = e] \in Request
    BY DEF NoRequest, Request
  <2>2. Return(w) => req' \in [Requests -> Request]
    <3> HIDE DEF At
    <3> QED BY NullTypes DEF Return
  <2>3. ASSUME NEW e \in Change, Respond(w, e)
        PROVE  req' \in [Requests -> Request]
    <3>1. PICK r \in Request : req' = [req EXCEPT ![w] = r]
      BY <2>1, <2>3 DEF Respond
    <3> QED BY <3>1
  <2> QED BY <2>2, <2>3
<1>3. Spend("broken") \/ UNCHANGED spent => spent' \in [Trouble -> 0 .. MaxTroubles]
  BY SpendType DEF Trouble
<1>4. CASE \E t \in Tokens, op \in {"create", "get"} : Authenticate(w, t, op)
  <2>1. PICK t \in Tokens, op \in {"create", "get"} : Authenticate(w, t, op)
    BY <1>4
  <2>2. rows[t].scopes \in SUBSET Scopes
    BY DEF Row
  <2>3. [req[w] EXCEPT !.pc = op, !.held = IF op = "create" THEN rows[t].scopes ELSE @]
          \in Request
    BY <1>1, <2>2 DEF Request
  <2>4. req' \in [Requests -> Request]
    BY <2>1, <2>3 DEF Authenticate
  <2> QED BY <2>1, <2>4 DEF Authenticate
<1>5. ASSUME NEW t \in Tokens, NEW name \in Names, NEW scopes \in Grants,
             NEW expiry \in {"never", "later"}, CreateToken(w, t, name, scopes, expiry)
      PROVE  TokenTypeOK'
  <2>1. rows' \in [Tokens -> Row]
    BY <1>5, NewRowType, InsertType, TokenAssumption DEF CreateToken, Secrets, Scopes
  <2>2. <<"token.create", t>> \in Change /\ t \in Secrets
    BY DEF Change, Secrets
  <2>3. known' \subseteq Secrets /\ owed' \subseteq Change
    BY <1>5, <2>2 DEF CreateToken
  <2> QED BY <1>2, <1>3, <1>5, <2>1, <2>2, <2>3 DEF CreateToken
<1>6. CASE CreateNameTaken(w)
  BY <1>2, <1>6 DEF CreateNameTaken
<1>7. CASE \E t \in Tokens : RevokeGet(w, t)
  BY <1>1, <1>2, <1>7 DEF RevokeGet, Request
<1>8. CASE RevokeCount(w)
  BY <1>1, <1>2, <1>8 DEF RevokeCount, Goto, Request
<1>9. CASE RevokeUpdate(w)
  <2>1. rows' \in [Tokens -> Row]
    <3>1. PICK t : t = req[w].target /\ rows' = [rows EXCEPT ![t].state = "revoked"]
      BY <1>9 DEF RevokeUpdate
    <3>2. rows \in [Tokens -> Row]
      BY <1>2
    <3>3. \A u \in Tokens : [rows[u] EXCEPT !.state = "revoked"] \in Row
      BY <3>2 DEF Row
    <3> QED BY <3>1, <3>2, <3>3
  <2> QED BY <1>2, <1>9, <2>1 DEF RevokeUpdate, Change
<1>10. CASE Audit(w)
  BY <1>2, <1>10 DEF Audit
<1>11. CASE GivesUp(w)
  BY <1>2, <1>3, <1>11 DEF GivesUp
<1> QED BY <1>4, <1>5, <1>6, <1>7, <1>8, <1>9, <1>10, <1>11 DEF Handles

\* The daemon's world changes tokens, the daemon and its schema only.
World == (\E t \in Tokens : Expire(t)) \/ Shutdown \/ Crash

LEMMA WorldType ==
  ASSUME TokenTypeOK, World
  PROVE  TokenTypeOK'
<1> USE DEF TokenTypeOK
<1>1. CASE \E t \in Tokens : Expire(t)
  <2>1. PICK t \in Tokens : Expire(t) BY <1>1
  <2>2. rows' \in [Tokens -> Row]
    BY <2>1 DEF Expire, Row
  <2>3. spent' \in [Trouble -> 0 .. MaxTroubles]
    BY <2>1, SpendType DEF Expire, Trouble
  <2> QED BY <2>1, <2>2, <2>3 DEF Expire, Unsettled
<1>2. CASE Shutdown
  BY <1>2 DEF Shutdown, Off, Hosts
<1>3. CASE Crash
  <2>1. schema' \in Schema
    BY <1>3, TearsType DEF Crash, Pending
  <2>2. spent' \in [Trouble -> 0 .. MaxTroubles]
    BY <1>3, SpendType DEF Crash, Trouble
  <2>3. req' \in [Requests -> Request]
    BY <1>3, NullTypes DEF Crash
  <2> QED BY <1>3, <2>1, <2>2, <2>3 DEF Crash, Off, Hosts
<1> QED BY <1>1, <1>2, <1>3 DEF World

LEMMA TypeStep == TokenTypeOK /\ [TokenNext]_vars => TokenTypeOK'
<1> SUFFICES ASSUME TokenTypeOK, [TokenNext]_vars PROVE TokenTypeOK' OBVIOUS
<1>1. CASE UNCHANGED vars
  BY <1>1 DEF vars, TokenTypeOK
<1> QED BY <1>1, BootsType, HandlesType, WorldType DEF TokenNext, World

-------------------------------------------------------------------------------
(* The schema                                                                *)

\* Troubles are only ever added.
LEMMA SpentGrows ==
  ASSUME TokenTypeOK, [TokenNext]_vars
  PROVE  \A k \in Trouble : spent'[k] >= spent[k]
<1>1. \A k \in Trouble : spent[k] \in Nat
  BY TokenAssumption DEF TokenTypeOK
<1>2. ASSUME NEW k \in Trouble, Spend(k)
      PROVE  \A j \in Trouble : spent'[j] >= spent[j]
  BY <1>1, <1>2, SpendType DEF TokenTypeOK
<1>3. CASE UNCHANGED spent
  BY <1>1, <1>3
<1>4. UNCHANGED spent \/ \E k \in Trouble : Spend(k)
  <2>1. CASE Boots
    BY <2>1 DEF Boots, Start, Migrate, Record, NewClient, EnsureNetworks, ResolveRuntime,
       AsksHost, MigrateSettingsToken, DeleteSetting, PinBootstrap, HasLiveToken, Generate,
       Announce, OpenExecs, BootRefused, Trouble
  <2>2. ASSUME NEW w \in Requests, Handles(w)
        PROVE  UNCHANGED spent \/ \E k \in Trouble : Spend(k)
    BY <2>2 DEF Handles, Authenticate, CreateToken, CreateNameTaken, RevokeGet,
       RevokeCount, RevokeUpdate, Audit, GivesUp, Trouble
  <2>3. CASE World
    BY <2>3 DEF World, Expire, Shutdown, Crash, Trouble
  <2> QED BY <2>1, <2>2, <2>3 DEF TokenNext, World, vars
<1> QED BY <1>2, <1>3, <1>4

\* Only one migration is pending.
LEMMA OnePending ==
  ASSUME TokenTypeOK, NEW u \in 1 .. Versions, NEW v \in 1 .. Versions,
         Pending(u), Pending(v)
  PROVE  u = v
  BY VersionsAssumption DEF Pending

\* A step that neither executes nor records, and loses nothing it was about to record
\* but for a trouble.
LEMMA SchemaStays ==
  ASSUME TokenTypeOK, SchemaInv, [TokenNext]_vars, UNCHANGED schema,
         boot'.pc = "record" => boot.pc = "record",
         boot.pc = "record" => \/ boot'.pc = "record"
                               \/ spent'.refused > 0 \/ spent'.crashes > 0,
         boot'.pc \in PastMigrations => boot.pc \in PastMigrations \/ Migrated
  PROVE  SchemaInv'
<1>1. /\ spent.refused \in Nat /\ spent.crashes \in Nat
      /\ spent'.refused >= spent.refused /\ spent'.crashes >= spent.crashes
      /\ spent'.refused \in Nat /\ spent'.crashes \in Nat
  BY SpentGrows, TypeStep, TokenAssumption DEF TokenTypeOK, Trouble
<1> QED BY <1>1 DEF SchemaInv, Pending, Migrated

\* A trouble in the middle of a migration.
LEMMA SchemaTears ==
  ASSUME TokenTypeOK, SchemaInv, NEW v \in 1 .. Versions, Pending(v), Tears(v),
         spent'.refused > 0 \/ spent'.crashes > 0, boot'.pc \in {"failed", "down"}
  PROVE  SchemaInv'
<1>1. /\ schema'.recorded = schema.recorded
      /\ \A u \in 1 .. Versions : u # v => schema'.body[u] = schema.body[u]
      /\ v \notin schema.recorded /\ schema.recorded \subseteq 1 .. Versions
  BY TearsType DEF TokenTypeOK, Pending, Schema
<1> QED BY <1>1 DEF SchemaInv, PastMigrations, PastHost

LEMMA SchemaKeeps == TokenIInv /\ [TokenNext]_vars => SchemaInv'
<1> SUFFICES ASSUME TokenIInv, [TokenNext]_vars PROVE SchemaInv' OBVIOUS
<1> USE DEF BootAt, BootGoto, PastMigrations, PastHost, Quiet
<1>1. TokenTypeOK /\ SchemaInv /\ TokenTypeOK'
  BY TypeStep DEF TokenIInv
<1>2. boot \in [pc : Booting \cup {"down", "failed", "serving"}, pin : Pins \cup {NoPin},
               host : Hosts, refused : BOOLEAN]
  BY <1>1 DEF TokenTypeOK
<1>3. CASE Migrate
  <2>1. CASE /\ \/ Migrated /\ BootGoto("client")
                \/ Torn /\ BootGoto("failed")
             /\ UNCHANGED schema
    BY <1>1, <1>2, <1>3, <2>1, SchemaStays DEF Migrate
  <2>2. ASSUME NEW v \in 1 .. Versions, ApplyMigration(v), BootGoto("record")
        PROVE  SchemaInv'
    <3>1. /\ schema'.recorded = schema.recorded /\ schema'.body[v] = "yes" /\ Pending(v)
          /\ \A u \in 1 .. Versions \ {v} : schema'.body[u] = schema.body[u]
          /\ boot.pc = "migrate" /\ boot'.pc = "record"
      BY <1>1, <1>2, <1>3, <2>2 DEF ApplyMigration, TokenTypeOK, Schema, Migrate
    <3>2. \A u \in 1 .. Versions : Pending(u)' <=> u = v
      BY <1>1, <3>1, OnePending DEF Pending
    <3>3. spent' = spent /\ v \notin schema.recorded
      BY <1>3, <3>1 DEF Migrate, Pending
    <3>4. schema.recorded \subseteq 1 .. Versions
      BY <1>1 DEF TokenTypeOK, Schema
    <3>5. \A u \in schema'.recorded : schema'.body[u] = "yes"
      BY <1>1, <3>1, <3>3, <3>4 DEF SchemaInv
    <3>6. \A u \in 1 .. Versions \ schema'.recorded : schema'.body[u] # "no" =>
            \/ boot'.pc = "record" /\ Pending(u)'
            \/ spent'.refused > 0 \/ spent'.crashes > 0
      BY <1>1, <3>1, <3>2, <3>3 DEF SchemaInv
    <3> QED BY <3>1, <3>2, <3>5, <3>6 DEF SchemaInv
  <2> QED BY <1>3, <2>1, <2>2 DEF Migrate
<1>4. CASE Record
  <2>1. PICK v \in 1 .. Versions : RecordMigration(v) BY <1>4 DEF Record
  <2>2. /\ schema'.recorded = schema.recorded \cup {v} /\ schema'.body = schema.body
        /\ Pending(v) /\ boot.pc = "record" /\ boot'.pc = "migrate"
        /\ spent' = spent
    BY <1>1, <1>2, <1>4, <2>1 DEF RecordMigration, TokenTypeOK, Schema, Record
  <2> QED BY <1>1, <2>2, OnePending DEF SchemaInv
<1>5. CASE BootRefused
  <2>1. spent'.refused > 0 /\ boot'.pc = "failed"
    BY <1>1, <1>2, <1>5, SpendType, TokenAssumption DEF BootRefused, TokenTypeOK, Trouble
  <2> QED BY <1>1, <1>5, <2>1, SchemaStays, SchemaTears DEF BootRefused, Pending
<1>6. CASE Crash
  <2>1. spent'.crashes > 0 /\ boot'.pc = "down"
    BY <1>1, <1>2, <1>6, SpendType, TokenAssumption DEF Crash, TokenTypeOK, Trouble, Off
  <2> QED BY <1>1, <1>6, <2>1, SchemaStays, SchemaTears DEF Crash, Pending
<1>7. CASE UNCHANGED <<schema, boot>>
  BY <1>1, <1>7, SchemaStays
<1>8. CASE \/ \E pin \in Pins \cup {NoPin}, host \in Hosts : Start(pin, host)
           \/ MigrateSettingsToken \/ DeleteSetting \/ PinBootstrap \/ HasLiveToken
           \/ Generate \/ Announce \/ OpenExecs \/ Shutdown
  <2>1. UNCHANGED schema
    BY <1>8 DEF Start, MigrateSettingsToken, DeleteSetting, PinBootstrap, HasLiveToken,
       Generate, Announce, OpenExecs, Shutdown
  <2>2. /\ boot.pc # "record" /\ boot'.pc # "record"
        /\ boot'.pc \in PastMigrations => boot.pc \in PastMigrations
    BY <1>2, <1>8 DEF Start, MigrateSettingsToken, DeleteSetting, PinBootstrap, HasLiveToken,
       Generate, Announce, OpenExecs, Shutdown, Serving, Off
  <2> QED BY <1>1, <2>1, <2>2, SchemaStays
<1>9. CASE \/ \E w \in Requests : Handles(w)
           \/ \E t \in Tokens : Expire(t)
           \/ UNCHANGED vars
  <2>1. CASE \E w \in Requests : Handles(w)
    <3>1. Unsettled
      BY <2>1 DEF Handles, Authenticate, CreateToken, CreateNameTaken, RevokeGet,
         RevokeCount, RevokeUpdate, Audit, GivesUp
    <3> QED BY <1>7, <3>1 DEF Unsettled
  <2>2. CASE (\E t \in Tokens : Expire(t)) \/ UNCHANGED vars
    BY <1>7, <2>2 DEF Expire, Unsettled, vars
  <2> QED BY <1>9, <2>1, <2>2
<1>10. CASE AsksDocker
  <2>1. UNCHANGED schema /\ boot.pc \in PastMigrations
        /\ boot.pc # "record" /\ boot'.pc # "record"
    BY <1>1, <1>10, HostOutcome
  <2> QED BY <1>1, <2>1, SchemaStays
<1> QED BY <1>3, <1>4, <1>5, <1>6, <1>8, <1>9, <1>10 DEF TokenNext, Boots, AsksDocker

-------------------------------------------------------------------------------
(* The boot                                                                  *)

\* What a request may do to the tokens: rows stay with their secrets and scopes, only
\* secrets of tokens become known, and no other token is revoked than its target.
LEMMA HandlesRows ==
  ASSUME TokenTypeOK, NEW w \in Requests, Handles(w)
  PROVE  /\ UNCHANGED <<schema, setting, boot>> /\ boot.pc = "serving"
         /\ \A t \in Tokens : Exists(t) =>
              \/ rows'[t] = rows[t]
              \/ /\ RevokeUpdate(w) /\ t = req[w].target
                 /\ rows'[t] = [rows[t] EXCEPT !.state = "revoked"]
         /\ known \subseteq known' /\ known' \subseteq known \cup Tokens
         /\ \A v \in Requests : v # w => req'[v] = req[v]
<1> USE DEF TokenTypeOK, Unsettled, At
<1>1. CASE \E t \in Tokens, op \in {"create", "get"} : Authenticate(w, t, op)
  BY <1>1 DEF Authenticate
<1>2. ASSUME NEW t \in Tokens, NEW name \in Names, NEW scopes \in Grants,
             NEW expiry \in {"never", "later"}, CreateToken(w, t, name, scopes, expiry)
      PROVE  /\ UNCHANGED <<schema, setting, boot>> /\ boot.pc = "serving"
             /\ \A u \in Tokens : Exists(u) => rows'[u] = rows[u]
             /\ known \subseteq known' /\ known' \subseteq known \cup Tokens
             /\ \A v \in Requests : v # w => req'[v] = req[v]
  BY <1>2 DEF CreateToken, Insert, Exists, Respond, Return
<1>3. CASE RevokeUpdate(w)
  BY <1>3 DEF RevokeUpdate, Respond, Exists
<1>4. CASE \/ CreateNameTaken(w) \/ (\E t \in Tokens : RevokeGet(w, t)) \/ RevokeCount(w)
           \/ Audit(w) \/ GivesUp(w)
  <2>1. UNCHANGED <<schema, setting, boot, rows, known>> /\ boot.pc = "serving"
    BY <1>4 DEF CreateNameTaken, RevokeGet, RevokeCount, Audit, GivesUp
  <2>2. \A v \in Requests : v # w => req'[v] = req[v]
    BY <1>4 DEF CreateNameTaken, RevokeGet, RevokeCount, Audit, GivesUp, Return, Goto
  <2> QED BY <2>1, <2>2
<1> QED BY <1>1, <1>2, <1>3, <1>4 DEF Handles

\* A step that leaves the daemon where it is, or lets it down, and keeps every row with
\* its secret; while the legacy setting is there, no request runs.
LEMMA BootStays ==
  ASSUME TokenTypeOK, BootInv, UNCHANGED setting,
         boot' = boot \/ boot'.pc \in {"down", "failed"},
         \A w \in Requests : boot'.pc # "serving" \/ req'[w].pc = "idle" =>
           req'[w] = NoRequest,
         known \subseteq known', known' \subseteq known \cup Tokens,
         \A t \in Tokens : Exists(t) => Exists(t)' /\ rows'[t].secret = rows[t].secret,
         boot.pc # "serving" => \A t \in Tokens :
           /\ rows'[t].state = rows[t].state /\ rows'[t].name = rows[t].name
           /\ rows'[t].secret = rows[t].secret
           /\ Live(t)' => Live(t)
           /\ rows[t].expiry = "never" => rows'[t].expiry = "never"
  PROVE  BootInv'
<1>1. SecretTaken(Legacy) => SecretTaken(Legacy)'
  BY DEF SecretTaken
<1>2. boot'.pc # "serving" => boot.pc # "serving" \/ boot'.pc \in {"down", "failed"}
  OBVIOUS
<1>3. Legacy \in known' => Legacy \in known
  BY TokenAssumption
<1>4. setting = Legacy => boot.pc \notin {"pin", "generate", "announce", "execs", "serving"}
  BY TokenAssumption DEF BootInv
<1>5. setting = Legacy =>
       /\ Legacy \in known'
       /\ \A t \in Tokens : Exists(t)' =>
            rows'[t].state = "live" /\ rows'[t].name = Bootstrap /\ rows'[t].secret = Legacy
  BY <1>4 DEF BootInv, Exists
<1>6. boot'.pc = "generate" => \A t \in Tokens : ~Live(t)'
  BY DEF BootInv
<1>7. boot'.pc = "announce" =>
       \E t \in Tokens : rows'[t].state = "live" /\ rows'[t].expiry = "never"
  BY DEF BootInv
<1>8. boot'.pc = "execs" => \E t \in Tokens : Exists(t)'
  BY DEF BootInv
<1> QED BY <1>1, <1>3, <1>5, <1>6, <1>7, <1>8 DEF BootInv

\* The host is as the boot has found it, whatever else happens.
LEMMA HostKeeps == TokenIInv /\ [TokenNext]_vars => HostInv'
<1> SUFFICES ASSUME TokenIInv, [TokenNext]_vars PROVE HostInv' OBVIOUS
<1> USE DEF BootAt, BootGoto, HostInv, PastHost
<1>1. TokenTypeOK /\ HostInv
  BY DEF TokenIInv
<1>2. boot \in [pc : Booting \cup {"down", "failed", "serving"}, pin : Pins \cup {NoPin},
               host : Hosts, refused : BOOLEAN]
  BY <1>1 DEF TokenTypeOK
<1>3. CASE boot' = boot \/ boot'.pc \in {"migrate", "record", "client", "failed", "down", "serving"}
  BY <1>1, <1>3
<1>4. CASE AsksDocker
  BY <1>1, <1>4, HostOutcome
<1>5. CASE MigrateSettingsToken \/ DeleteSetting \/ PinBootstrap \/ HasLiveToken
           \/ Generate \/ Announce
  <2>1. boot.pc \in PastHost /\ boot'.host = boot.host
    BY <1>2, <1>5 DEF MigrateSettingsToken, DeleteSetting, PinBootstrap, HasLiveToken,
       Generate, Announce
  <2> QED BY <1>1, <2>1
<1>6. CASE Boots
  <2>1. CASE \/ \E pin \in Pins \cup {NoPin}, host \in Hosts : Start(pin, host)
             \/ Migrate \/ Record \/ OpenExecs \/ BootRefused
    <3>1. CASE \E pin \in Pins \cup {NoPin}, host \in Hosts : Start(pin, host)
      BY <1>3, <3>1 DEF Start
    <3>2. CASE Migrate \/ Record
      BY <1>2, <1>3, <3>2 DEF Migrate, Record
    <3>3. CASE OpenExecs
      BY <1>3, <3>3 DEF OpenExecs, Serving, Off
    <3>4. CASE BootRefused
      BY <1>2, <1>3, <3>4 DEF BootRefused
    <3> QED BY <2>1, <3>1, <3>2, <3>3, <3>4
  <2> QED BY <1>4, <1>5, <1>6, <2>1 DEF Boots, AsksDocker
<1>7. CASE \E w \in Requests : Handles(w)
  BY <1>1, <1>3, <1>7, HandlesRows
<1>8. CASE \/ (\E t \in Tokens : Expire(t)) \/ Shutdown \/ Crash \/ UNCHANGED vars
  BY <1>3, <1>8 DEF Expire, Unsettled, Shutdown, Crash, Off, vars
<1> QED BY <1>6, <1>7, <1>8 DEF TokenNext

LEMMA BootKeeps == TokenIInv /\ [TokenNext]_vars => BootInv'
<1> SUFFICES ASSUME TokenIInv, [TokenNext]_vars PROVE BootInv' OBVIOUS
<1> USE DEF BootAt, BootGoto, Quiet
<1>1. TokenTypeOK /\ BootInv
  BY DEF TokenIInv
<1>2. boot \in [pc : Booting \cup {"down", "failed", "serving"}, pin : Pins \cup {NoPin},
               host : Hosts, refused : BOOLEAN]
  BY <1>1 DEF TokenTypeOK
<1>3. \A w \in Requests : boot.pc # "serving" => req[w] = NoRequest
  BY <1>1 DEF BootInv
<1>4. CASE \E pin \in Pins \cup {NoPin}, host \in Hosts : Start(pin, host)
  BY <1>1, <1>2, <1>3, <1>4 DEF Start, BootInv, SecretTaken, Exists
<1>5. CASE Migrate
  <2>1. boot'.pc \in {"client", "record", "failed"} /\ UNCHANGED <<rows, setting, known, req>>
    BY <1>2, <1>5 DEF Migrate
  <2> QED BY <1>1, <1>3, <1>5, <2>1 DEF Migrate, BootInv, SecretTaken, Exists
<1>6. CASE Record
  <2>1. boot'.pc = "migrate" /\ UNCHANGED <<rows, setting, known, req>>
    BY <1>2, <1>6 DEF Record
  <2> QED BY <1>1, <1>3, <1>6, <2>1 DEF Record, BootInv, SecretTaken, Exists
<1>7. CASE MigrateSettingsToken
  <2>1. CASE setting = NoSecret
    <3>1. boot'.pc = "pin" /\ UNCHANGED <<rows, setting, known, req>>
      BY <1>2, <1>7, <2>1 DEF MigrateSettingsToken
    <3> QED BY <1>1, <1>3, <1>7, <2>1, <3>1, TokenAssumption DEF MigrateSettingsToken, BootInv, SecretTaken, Exists
  <2>2. CASE setting = Legacy /\ (NameTaken(Bootstrap) \/ SecretTaken(Legacy))
    <3>1. NameTaken(Bootstrap) /\ SecretTaken(Legacy)
      BY <1>1, <2>2 DEF BootInv, SecretTaken, NameTaken, Exists
    <3>2. boot'.pc = "unset" /\ UNCHANGED <<rows, setting, known, req>>
      BY <1>2, <1>7, <2>2, <3>1, TokenAssumption DEF MigrateSettingsToken
    <3> QED BY <1>1, <1>3, <1>7, <2>2, <3>1, <3>2, TokenAssumption DEF BootInv, SecretTaken, Exists
  <2>3. ASSUME NEW t \in Tokens, setting = Legacy, Insert(t, LegacyRow), BootGoto("unset")
        PROVE  BootInv'
    <3>1. /\ boot'.pc = "unset" /\ UNCHANGED <<setting, known, req>>
          /\ rows' = [rows EXCEPT ![t] = LegacyRow]
          /\ LegacyRow.state = "live" /\ LegacyRow.name = Bootstrap /\ LegacyRow.secret = Legacy
      BY <1>2, <1>7, <2>3, TokenAssumption DEF MigrateSettingsToken, Insert, LegacyRow, NewRow
    <3>2. rows'[t] = LegacyRow /\ \A u \in Tokens : u # t => rows'[u] = rows[u]
      BY <1>1, <3>1 DEF TokenTypeOK
    <3>3. SecretTaken(Legacy)'
      BY <3>1, <3>2 DEF SecretTaken, Exists
    <3> HIDE DEF LegacyRow
    <3> QED BY <1>1, <1>3, <1>7, <2>3, <3>1, <3>2, <3>3, TokenAssumption DEF BootInv, Exists
  <2> QED BY <1>1, <1>7, <2>1, <2>2, <2>3 DEF MigrateSettingsToken, TokenTypeOK
<1>8. CASE DeleteSetting
  <2>1. boot'.pc = "pin" /\ setting' = NoSecret /\ UNCHANGED <<rows, known, req>>
        /\ boot.pc = "unset"
    BY <1>2, <1>8 DEF DeleteSetting
  <2> QED BY <1>1, <1>3, <1>8, <2>1, TokenAssumption DEF BootInv, SecretTaken, Exists
<1>9. CASE PinBootstrap
  <2>1. CASE PinClashes
    <3>1. /\ boot'.pc = "failed" /\ UNCHANGED <<rows, setting, known, req>>
          /\ boot.pc = "pin"
      BY <1>2, <1>9, <2>1 DEF PinBootstrap
    <3> QED BY <1>1, <1>3, <3>1, BootStays DEF Live, Exists
  <2>2. CASE ~PinClashes
    <3>1. boot'.pc = "execs" /\ UNCHANGED <<setting, req>> /\ boot.pin \in known'
      BY <1>2, <1>9, <2>2 DEF PinBootstrap
    <3>2. boot.pin \in Pins /\ setting = NoSecret /\ boot.pc = "pin"
      BY <1>1, <1>2, <1>9 DEF PinBootstrap, BootInv
    <3>3. PICK t \in Tokens : rows' = [rows EXCEPT ![t] = PinnedRow]
      BY <1>9, <2>2 DEF PinBootstrap, Insert
    <3>4. Exists(t)'
      BY <1>1, <3>3 DEF TokenTypeOK, Exists, PinnedRow, NewRow
    <3> QED BY <1>1, <1>3, <3>1, <3>2, <3>4, TokenAssumption DEF BootInv
  <2> QED BY <2>1, <2>2
<1>10. CASE HasLiveToken
  <2>1. /\ boot'.pc \in {"execs", "generate"} /\ UNCHANGED <<rows, setting, known, req>>
        /\ boot'.pin = NoPin /\ boot.pc = "pin"
        /\ boot'.pc = "execs" => \E t \in Tokens : Exists(t)
        /\ boot'.pc = "generate" => \A t \in Tokens : ~Live(t)
    BY <1>2, <1>10 DEF HasLiveToken, Live, Exists
  <2> QED BY <1>1, <1>3, <1>10, <2>1, TokenAssumption DEF BootInv, SecretTaken, Exists, Live
<1>11. CASE Generate
  <2>1. CASE NameTaken(Bootstrap)
    <3>1. /\ boot'.pc = "failed" /\ UNCHANGED <<rows, setting, known, req>>
          /\ boot.pc = "generate"
      BY <1>2, <1>11, <2>1 DEF Generate
    <3> QED BY <1>1, <1>3, <3>1, BootStays DEF Live, Exists
  <2>2. CASE ~NameTaken(Bootstrap)
    <3>1. PICK t \in Tokens : Insert(t, NewRow(Bootstrap, t, {"*"}, "never"))
      BY <1>11, <2>2 DEF Generate
    <3>2. /\ boot'.pc = "announce" /\ boot'.pin = boot.pin /\ UNCHANGED <<setting, known, req>>
          /\ ~Exists(t) /\ rows'[t].state = "live" /\ rows'[t].expiry = "never"
          /\ \A u \in Tokens : u # t => rows'[u] = rows[u]
          /\ boot.pc = "generate"
      BY <1>1, <1>2, <1>11, <2>2, <3>1 DEF Generate, Insert, NewRow, TokenTypeOK
    <3>3. setting = NoSecret /\ boot.pin = NoPin
      BY <1>1, <3>2 DEF BootInv
    <3>4. SecretTaken(Legacy) => SecretTaken(Legacy)'
      BY <3>2 DEF SecretTaken, Exists
    <3> QED BY <1>1, <1>3, <3>2, <3>3, <3>4, TokenAssumption DEF BootInv
  <2> QED BY <2>1, <2>2
<1>12. CASE Announce
  <2>1. /\ boot'.pc = "execs" /\ UNCHANGED <<rows, setting, req>>
        /\ known' = known \cup {rows[t].secret : t \in {u \in Tokens : Live(u)}}
        /\ boot.pc = "announce"
    BY <1>2, <1>12 DEF Announce
  <2>2. Legacy \in known' => Legacy \in known \/ SecretTaken(Legacy)
    BY <2>1 DEF SecretTaken, Live, Exists
  <2> QED BY <1>1, <1>3, <2>1, <2>2, TokenAssumption DEF BootInv, SecretTaken, Exists
<1>13. CASE BootRefused
  <2>1. boot'.pc = "failed" /\ UNCHANGED <<rows, setting, known, req>>
    BY <1>2, <1>13 DEF BootRefused
  <2>2. boot.pc # "serving"
    BY <1>13 DEF BootRefused, Booting
  <2> QED BY <1>1, <1>3, <2>1, <2>2, BootStays DEF Live, Exists
<1>14. CASE \E w \in Requests : Handles(w)
  <2>1. PICK w \in Requests : Handles(w) BY <1>14
  <2>2. req'[w].pc = "idle" => req'[w] = NoRequest
    <3>0. req \in [Requests -> Request]
      BY <1>1 DEF TokenTypeOK
    <3>1. CASE Return(w) \/ \E e : Respond(w, e)
      <4>1. CASE Return(w)
        BY <3>0, <4>1 DEF Return
      <4>2. ASSUME NEW e, Respond(w, e)
            PROVE  req'[w].pc = "audit"
        <5>1. req'[w] = [NoRequest EXCEPT !.pc = "audit", !.event = e]
          BY <3>0, <4>2 DEF Respond
        <5> QED BY <5>1 DEF NoRequest
      <4> QED BY <3>1, <4>1, <4>2
    <3>2. CASE \E pc \in {"create", "get", "count", "revoke"} : req'[w].pc = pc
      BY <3>2
    <3>3. CASE \E t \in Tokens, op \in {"create", "get"} : Authenticate(w, t, op)
      <4>1. req[w] \in Request BY <1>1 DEF TokenTypeOK
      <4>2. req'[w].pc \in {"create", "get"}
        BY <1>1, <3>3, <4>1 DEF Authenticate, TokenTypeOK, Request
      <4> QED BY <4>2
    <3>4. CASE \/ \E t \in Tokens, name \in Names, scopes \in Grants, expiry \in {"never", "later"} :
                    CreateToken(w, t, name, scopes, expiry)
               \/ CreateNameTaken(w) \/ RevokeUpdate(w) \/ Audit(w) \/ GivesUp(w)
      BY <3>1, <3>4 DEF CreateToken, CreateNameTaken, RevokeUpdate, Audit, GivesUp
    <3>5. CASE (\E t \in Tokens : RevokeGet(w, t)) \/ RevokeCount(w)
      <4>1. req[w] \in Request BY <1>1 DEF TokenTypeOK
      <4>2. ASSUME NEW t \in Tokens, RevokeGet(w, t)
            PROVE  Return(w) \/ req'[w].pc \in {"count", "revoke"}
        BY <1>1, <4>1, <4>2 DEF RevokeGet, TokenTypeOK, Request
      <4>3. RevokeCount(w) => Return(w) \/ req'[w].pc = "revoke"
        BY <1>1, <4>1 DEF RevokeCount, Goto, TokenTypeOK, Request
      <4> QED BY <3>1, <3>5, <4>2, <4>3
    <3> QED BY <2>1, <3>3, <3>4, <3>5 DEF Handles
  <2>3. ASSUME NEW t \in Tokens, Exists(t)
        PROVE  Exists(t)' /\ rows'[t].secret = rows[t].secret
    <3>1. rows[t] \in Row BY <1>1 DEF TokenTypeOK
    <3>2. rows'[t] = rows[t] \/ rows'[t] = [rows[t] EXCEPT !.state = "revoked"]
      BY <1>1, <2>1, <2>3, HandlesRows
    <3> QED BY <2>3, <3>1, <3>2 DEF Exists, Row
  <2>4. \A v \in Requests : req'[v].pc = "idle" => req'[v] = NoRequest
    BY <1>1, <2>1, <2>2, HandlesRows DEF BootInv
  <2> QED BY <1>1, <2>1, <2>3, <2>4, HandlesRows, BootStays
<1>15. CASE \E t \in Tokens : Expire(t)
  <2>1. PICK t \in Tokens : Expire(t) BY <1>15
  <2>2. /\ \A u \in Tokens : u # t => rows'[u] = rows[u]
        /\ rows'[t] = [rows[t] EXCEPT !.expiry = "past"] /\ rows[t].expiry = "later"
        /\ UNCHANGED <<setting, boot, req, known>>
    BY <1>1, <2>1 DEF Expire, TokenTypeOK, Unsettled
  <2>3. \A u \in Tokens :
           /\ rows'[u].state = rows[u].state /\ rows'[u].name = rows[u].name
           /\ rows'[u].secret = rows[u].secret
           /\ Live(u)' => Live(u)
           /\ rows[u].expiry = "never" => rows'[u].expiry = "never"
    BY <1>1, <2>2 DEF Live, TokenTypeOK, Row
  <2> QED BY <1>1, <2>2, <2>3, BootStays DEF BootInv, Exists
<1>16. CASE Shutdown
  <2>1. boot'.pc = "down" /\ UNCHANGED <<rows, setting, known, req>>
        /\ \A w \in Requests : req'[w] = NoRequest
    BY <1>1, <1>16 DEF Shutdown, Off, BootInv
  <2> QED BY <1>1, <2>1, BootStays DEF Live, Exists
<1>17. CASE Crash
  <2>1. boot'.pc = "down" /\ UNCHANGED <<rows, setting, known>>
        /\ \A w \in Requests : req'[w] = NoRequest
    BY <1>17 DEF Crash, Off
  <2> QED BY <1>1, <2>1, BootStays DEF Live, Exists
<1>18. CASE UNCHANGED vars
  BY <1>1, <1>18, BootStays DEF vars, BootInv, Live, Exists
<1>19. CASE AsksDocker
  <2>1. /\ UNCHANGED <<rows, setting, known, req>> /\ boot.pc # "serving"
        /\ boot'.pc \in {"networks", "runtime", "legacy", "failed"}
    BY <1>1, <1>19, HostOutcome
  <2> QED BY <1>1, <1>3, <2>1 DEF BootInv, SecretTaken, Exists
<1>20. CASE OpenExecs
  <2>1. /\ boot'.pc = "serving" /\ UNCHANGED <<rows, setting, known, req>>
        /\ boot.pc = "execs"
    BY <1>2, <1>20 DEF OpenExecs, Serving, Off
  <2> QED BY <1>1, <1>3, <2>1 DEF BootInv, SecretTaken, Exists
<1> QED BY <1>4, <1>5, <1>6, <1>7, <1>8, <1>9, <1>10, <1>11, <1>12, <1>13, <1>14, <1>15,
           <1>16, <1>17, <1>18, <1>19, <1>20 DEF TokenNext, Boots, AsksDocker

-------------------------------------------------------------------------------
(* Somebody administers                                                      *)

\* A step that leaves the tokens alone.
LEMMA AdminStays ==
  ASSUME TokenTypeOK, AdminInv, UNCHANGED <<rows, raced>>, known \subseteq known',
         AllHandedOver' => AllHandedOver,
         AllHandedOver' /\ boot.pc = "announce" => boot'.pc = "announce",
         boot'.pc = "serving" => boot.pc = "serving" \/ \E t \in Tokens : Exists(t),
         \A w \in Requests :
           /\ req'[w].pc \in {"count", "revoke"} =>
                req'[w].target \in Tokens /\ Exists(req'[w].target)
           /\ req'[w].pc = "revoke" /\ AdminCapable(rows[req'[w].target].scopes) =>
                \/ req[w].pc = "revoke" /\ req'[w].target = req[w].target
                \/ OtherAdmins(req'[w].target) # {}
  PROVE  AdminInv'
<1>1. AdminExpired' = AdminExpired
  BY DEF AdminExpired
<1>2. \A t \in Tokens : LiveAdmin(t)' = LiveAdmin(t)
  BY DEF LiveAdmin, Live
<1>3. \A w \in Requests : OtherAdmins(req[w].target)' = OtherAdmins(req'[w].target)
  BY <1>2 DEF OtherAdmins
<1>4. ~raced' /\ ~AdminExpired' =>
       \/ \E t \in Tokens : LiveAdmin(t)'
       \/ boot'.pc # "serving" /\ \A t \in Tokens : ~Exists(t)'
  BY <1>1, <1>2 DEF AdminInv, Exists
<1>5. \A w \in Requests :
       ~raced' /\ ~AdminExpired' /\ req'[w].pc = "revoke"
         /\ AdminCapable(rows[req[w].target].scopes)' => OtherAdmins(req[w].target)' # {}
  BY <1>1, <1>3 DEF AdminInv, AdminCapable
<1>6. AllHandedOver' => \A t \in Tokens : rows'[t].state = "live" =>
       \/ rows'[t].secret \in known'
       \/ boot'.pc = "announce" /\ rows'[t].expiry = "never"
  BY DEF AdminInv
<1>7. \A t \in Tokens : ~Exists(t)' => rows'[t].scopes = {}
  BY DEF AdminInv, Exists
<1>8. \A w \in Requests : req'[w].pc \in {"count", "revoke"} =>
        (req[w].target \in Tokens /\ Exists(req[w].target))'
  BY DEF Exists
<1> QED BY <1>4, <1>5, <1>6, <1>7, <1>8 DEF AdminInv

\* A step that gives one row to a token that is live, and as capable as before.
LEMMA AdminWrites ==
  ASSUME TokenTypeOK, TokenTypeOK', AdminInv, UNCHANGED raced,
         NEW t \in Tokens, NEW row \in Row, rows' = [rows EXCEPT ![t] = row],
         row.state = "live", row.expiry # "past",
         AdminCapable(rows[t].scopes) => AdminCapable(row.scopes),
         AdminCapable(rows[t].scopes) => \A w \in Requests : req'[w].pc # "revoke",
         known \subseteq known', boot.pc # "announce", AllHandedOver' => AllHandedOver,
         \/ AdminCapable(row.scopes)
         \/ boot.pc = "serving",
         AllHandedOver' => \/ row.secret \in known'
                           \/ boot'.pc = "announce" /\ row.expiry = "never",
         \A w \in Requests :
           /\ req'[w].pc \in {"count", "revoke"} => req'[w] = req[w] /\ req[w].target # t
  PROVE  AdminInv'
<1>1. rows'[t] = row /\ \A u \in Tokens : u # t => rows'[u] = rows[u]
  BY DEF TokenTypeOK
<1>2. \A u \in Tokens : LiveAdmin(u) => LiveAdmin(u)'
  BY <1>1 DEF LiveAdmin, Live
<1>3. AdminCapable(row.scopes) => LiveAdmin(t)'
  BY <1>1 DEF LiveAdmin, Live
<1>4. AdminExpired => AdminExpired' \/ LiveAdmin(t)'
  BY <1>1, <1>3 DEF AdminExpired
<1>5. ~raced' /\ ~AdminExpired' => \E u \in Tokens : LiveAdmin(u)'
  BY <1>2, <1>3, <1>4 DEF AdminInv
<1>6. \A w \in Requests :
       ~raced' /\ ~AdminExpired' /\ req'[w].pc = "revoke"
         /\ AdminCapable(rows[req[w].target].scopes)' => OtherAdmins(req[w].target)' # {}
  <2> SUFFICES ASSUME NEW w \in Requests, ~raced', ~AdminExpired', req'[w].pc = "revoke",
                      AdminCapable(rows[req[w].target].scopes)'
               PROVE  OtherAdmins(req[w].target)' # {}
    OBVIOUS
  <2>1. ~AdminExpired
    BY <1>1 DEF AdminExpired
  <2>2. req'[w] = req[w] /\ rows'[req[w].target] = rows[req[w].target]
    BY <1>1 DEF AdminInv
  <2>3. PICK u \in Tokens : u # req[w].target /\ LiveAdmin(u)
    BY <2>1, <2>2 DEF AdminInv, AdminCapable, OtherAdmins
  <2> QED BY <1>2, <2>2, <2>3 DEF OtherAdmins
<1>7. AllHandedOver' => \A u \in Tokens : rows'[u].state = "live" =>
       \/ rows'[u].secret \in known'
       \/ boot'.pc = "announce" /\ rows'[u].expiry = "never"
  BY <1>1 DEF AdminInv
<1>8. \A u \in Tokens : ~Exists(u)' => rows'[u].scopes = {}
  BY <1>1 DEF AdminInv, Exists
<1>9. \A w \in Requests : req'[w].pc \in {"count", "revoke"} =>
        (req[w].target \in Tokens /\ Exists(req[w].target))'
  BY <1>1 DEF AdminInv, Exists
<1> QED BY <1>5, <1>6, <1>7, <1>8, <1>9 DEF AdminInv

LEMMA AdminBoots ==
  ASSUME TokenIInv, TokenTypeOK', Boots
  PROVE  AdminInv'
<1> USE DEF BootAt, BootGoto, Quiet
<1>1. TokenTypeOK /\ BootInv /\ AdminInv
  BY DEF TokenIInv
<1>2. boot \in [pc : Booting \cup {"down", "failed", "serving"}, pin : Pins \cup {NoPin},
               host : Hosts, refused : BOOLEAN]
  BY <1>1 DEF TokenTypeOK
<1>3. boot.pc # "serving" /\ UNCHANGED <<req, raced>>
  BY DEF Boots, Start, Migrate, Record, NewClient, EnsureNetworks, ResolveRuntime, AsksHost,
     MigrateSettingsToken, DeleteSetting, PinBootstrap, HasLiveToken, Generate, Announce,
     OpenExecs, BootRefused, Booting
<1>4. \A w \in Requests : req'[w].pc \notin {"count", "revoke"}
  BY <1>1, <1>3 DEF BootInv, NoRequest
<1>5. CASE UNCHANGED <<rows, known, spent>> /\ boot.pc # "announce" /\ boot'.pc # "serving"
  BY <1>1, <1>3, <1>4, <1>5, AdminStays DEF AllHandedOver
<1>6. CASE \/ \E pin \in Pins \cup {NoPin}, host \in Hosts : Start(pin, host)
           \/ Migrate \/ Record \/ DeleteSetting
  BY <1>2, <1>5, <1>6 DEF Start, Migrate, Record, DeleteSetting
<1>7. AdminCapable({"*"})
  BY DEF AdminCapable, Has
<1>8. CASE MigrateSettingsToken
  <2>1. CASE UNCHANGED rows
    BY <1>2, <1>5, <1>8, <2>1 DEF MigrateSettingsToken
  <2>2. ASSUME NEW t \in Tokens, setting = Legacy, Insert(t, LegacyRow)
        PROVE  AdminInv'
    <3>1. LegacyRow \in Row /\ LegacyRow.state = "live" /\ LegacyRow.expiry = "never"
          /\ LegacyRow.scopes = {"*"} /\ LegacyRow.secret = Legacy
      BY <2>2, TokenAssumption DEF LegacyRow, NewRow, Row, Secrets, Scopes
    <3>2. Legacy \in known' /\ UNCHANGED <<known, spent>> /\ boot.pc # "announce"
      BY <1>1, <1>8, <2>2 DEF MigrateSettingsToken, BootInv
    <3>3. rows' = [rows EXCEPT ![t] = LegacyRow]
      BY <2>2 DEF Insert
    <3> QED BY <1>1, <1>3, <1>4, <1>7, <3>1, <3>2, <3>3, AdminWrites DEF AllHandedOver
  <2> QED BY <1>1, <1>8, <2>1, <2>2 DEF MigrateSettingsToken, TokenTypeOK
<1>9. CASE PinBootstrap
  <2>1. CASE PinClashes
    BY <1>2, <1>5, <1>9, <2>1 DEF PinBootstrap
  <2>2. CASE ~PinClashes
    <3>1. boot.pin \in Pins
      BY <1>2, <1>9 DEF PinBootstrap
    <3>2. PinnedRow \in Row /\ PinnedRow.state = "live" /\ PinnedRow.expiry = "never"
          /\ PinnedRow.scopes = {"*"} /\ PinnedRow.secret = boot.pin
      BY <3>1, TokenAssumption DEF PinnedRow, NewRow, Row, Secrets, Scopes
    <3>3. boot.pin \in known' /\ known \subseteq known' /\ UNCHANGED spent
          /\ boot.pc # "announce"
      BY <1>9, <2>2 DEF PinBootstrap
    <3>4. \E t \in Tokens : rows' = [rows EXCEPT ![t] = PinnedRow]
      BY <1>9, <2>2 DEF PinBootstrap, Insert
    <3> HIDE DEF PinnedRow
    <3> QED BY <1>1, <1>3, <1>4, <1>7, <3>2, <3>3, <3>4, AdminWrites DEF AllHandedOver
  <2> QED BY <2>1, <2>2
<1>10. CASE HasLiveToken
  BY <1>2, <1>5, <1>10 DEF HasLiveToken
<1>11. CASE Generate
  <2>1. CASE NameTaken(Bootstrap)
    BY <1>2, <1>5, <1>11, <2>1 DEF Generate
  <2>2. CASE ~NameTaken(Bootstrap)
    <3>1. PICK t \in Tokens : Insert(t, NewRow(Bootstrap, t, {"*"}, "never"))
      BY <1>11, <2>2 DEF Generate
    <3> DEFINE row == NewRow(Bootstrap, t, {"*"}, "never")
    <3>2. row \in Row /\ row.state = "live" /\ row.expiry = "never"
          /\ row.scopes = {"*"} /\ rows' = [rows EXCEPT ![t] = row]
      BY <3>1, TokenAssumption DEF Insert, NewRow, Row, Secrets, Scopes
    <3>3. UNCHANGED <<known, spent>> /\ boot.pc # "announce" /\ boot'.pc = "announce"
      BY <1>2, <1>11, <2>2 DEF Generate
    <3> HIDE DEF row
    <3> QED BY <1>1, <1>3, <1>4, <1>7, <3>2, <3>3, AdminWrites DEF AllHandedOver
  <2> QED BY <2>1, <2>2
<1>12. CASE Announce
  <2>1. /\ UNCHANGED <<rows, spent>> /\ boot'.pc = "execs" /\ boot.pc = "announce"
        /\ known' = known \cup {rows[t].secret : t \in {u \in Tokens : Live(u)}}
    BY <1>2, <1>12 DEF Announce
  <2>2. \E t \in Tokens : Exists(t)
    BY <1>1, <2>1 DEF BootInv, Exists
  <2>3. AllHandedOver => \A t \in Tokens : rows[t].state = "live" => rows[t].secret \in known'
    BY <1>1, <2>1 DEF AdminInv, Live
  <2>4. AdminExpired' = AdminExpired /\ \A t \in Tokens : LiveAdmin(t)' = LiveAdmin(t)
    BY <2>1 DEF AdminExpired, LiveAdmin, Live
  <2> QED BY <1>1, <1>3, <1>4, <2>1, <2>2, <2>3, <2>4 DEF AdminInv, AllHandedOver, Exists
<1>13. CASE BootRefused
  <2>1. UNCHANGED <<rows, known>> /\ boot.pc # "announce" /\ boot'.pc = "failed"
    BY <1>2, <1>13 DEF BootRefused
  <2>2. AllHandedOver' => AllHandedOver
    BY <1>1, <1>13, SpendType DEF BootRefused, AllHandedOver, Trouble, TokenTypeOK
  <2> QED BY <1>1, <1>3, <1>4, <2>1, <2>2, AdminStays
<1>14. CASE AsksDocker
  BY <1>1, <1>5, <1>14, HostOutcome
<1>15. CASE OpenExecs
  <2>1. /\ UNCHANGED <<rows, known, spent>> /\ boot.pc = "execs"
        /\ \E t \in Tokens : Exists(t)
    BY <1>1, <1>15 DEF OpenExecs, BootInv
  <2> QED BY <1>1, <1>3, <1>4, <2>1, AdminStays DEF AllHandedOver
<1> QED BY <1>6, <1>8, <1>9, <1>10, <1>11, <1>12, <1>13, <1>14, <1>15
        DEF Boots, AsksDocker

LEMMA AdminHandles ==
  ASSUME TokenIInv, TokenTypeOK', [TokenNext]_vars, NEW w \in Requests, Handles(w)
  PROVE  AdminInv'
<1>1. TokenTypeOK /\ BootInv /\ AdminInv /\ req[w] \in Request /\ req' \in [Requests -> Request]
  BY DEF TokenIInv, TokenTypeOK
<1>2. /\ boot.pc = "serving" /\ boot' = boot /\ known \subseteq known'
      /\ \A v \in Requests : v # w => req'[v] = req[v]
  BY <1>1, HandlesRows
<1>3. AllHandedOver' => AllHandedOver
  BY <1>1, SpentGrows, TokenAssumption DEF AllHandedOver, TokenTypeOK, Trouble
<1>4. Return(w) \/ (\E e : Respond(w, e)) => req'[w].pc \notin {"count", "revoke"}
  <2>1. Return(w) => req'[w].pc = "idle"
    BY <1>1 DEF Return, NoRequest, TokenTypeOK
  <2>2. ASSUME NEW e, Respond(w, e) PROVE req'[w].pc = "audit"
    BY <1>1, <2>2 DEF Respond, NoRequest, TokenTypeOK
  <2> QED BY <2>1, <2>2
<1>5. CASE UNCHANGED <<rows, raced>> /\ req'[w].pc \notin {"count", "revoke"}
  <2>1. \A v \in Requests :
           /\ req'[v].pc \in {"count", "revoke"} =>
                req'[v].target \in Tokens /\ Exists(req'[v].target)
           /\ req'[v].pc = "revoke" => req[v].pc = "revoke" /\ req'[v].target = req[v].target
    BY <1>1, <1>2, <1>5 DEF AdminInv
  <2> QED BY <1>1, <1>2, <1>3, <1>5, <2>1, AdminStays
<1>6. CASE \/ \E t \in Tokens, op \in {"create", "get"} : Authenticate(w, t, op)
           \/ CreateNameTaken(w) \/ Audit(w) \/ GivesUp(w)
  <2>1. UNCHANGED <<rows, raced>>
    BY <1>6 DEF Authenticate, CreateNameTaken, Audit, GivesUp
  <2>2. ASSUME NEW t \in Tokens, NEW op \in {"create", "get"}, Authenticate(w, t, op)
        PROVE  req'[w].pc = op
    BY <1>1, <2>2 DEF Authenticate, TokenTypeOK, Request
  <2>3. req'[w].pc \notin {"count", "revoke"}
    BY <1>4, <1>6, <2>2 DEF CreateNameTaken, Audit, GivesUp
  <2> QED BY <1>5, <2>1, <2>3
<1>7. ASSUME NEW t \in Tokens, NEW name \in Names, NEW scopes \in Grants,
             NEW expiry \in {"never", "later"}, CreateToken(w, t, name, scopes, expiry)
      PROVE  AdminInv'
  <2> DEFINE row == NewRow(name, t, scopes, expiry)
  <2>1. /\ row \in Row /\ row.state = "live" /\ row.expiry # "past" /\ row.secret = t
        /\ rows' = [rows EXCEPT ![t] = row]
    BY <1>7, TokenAssumption DEF CreateToken, Insert, NewRow, Row, Secrets, Scopes
  <2>2. ~Exists(t) /\ ~AdminCapable(rows[t].scopes) /\ UNCHANGED raced
    BY <1>1, <1>7 DEF CreateToken, Insert, AdminInv, AdminCapable, Has
  <2>3. AllHandedOver' => t \in known'
    BY <1>1, <1>7, SpendType, TokenAssumption
       DEF CreateToken, AllHandedOver, TokenTypeOK, Trouble
  <2>4. req'[w].pc \notin {"count", "revoke"}
    BY <1>4, <1>7 DEF CreateToken
  <2>5. \A v \in Requests :
          req'[v].pc \in {"count", "revoke"} => req'[v] = req[v] /\ req[v].target # t
    BY <1>1, <1>2, <2>2, <2>4 DEF AdminInv
  <2> HIDE DEF row
  <2> QED BY <1>1, <1>2, <1>3, <2>1, <2>2, <2>3, <2>5, AdminWrites
<1>8. ASSUME NEW t \in Tokens, RevokeGet(w, t)
      PROVE  AdminInv'
  <2>1. UNCHANGED <<rows, raced>> /\ Exists(t)
    BY <1>8 DEF RevokeGet
  <2>2. CASE Return(w)
    BY <1>4, <1>5, <2>1, <2>2
  <2>3. CASE /\ req'[w].target = t
             /\ req'[w].pc = IF AdminCapable(rows[t].scopes) THEN "count" ELSE "revoke"
    <3>1. \A v \in Requests :
           /\ req'[v].pc \in {"count", "revoke"} =>
                req'[v].target \in Tokens /\ Exists(req'[v].target)
           /\ req'[v].pc = "revoke" /\ AdminCapable(rows[req'[v].target].scopes) =>
                req[v].pc = "revoke" /\ req'[v].target = req[v].target
      BY <1>1, <1>2, <2>1, <2>3 DEF AdminInv
    <3> QED BY <1>1, <1>2, <1>3, <2>1, <3>1, AdminStays
  <2> QED BY <1>1, <1>8, <2>2, <2>3 DEF RevokeGet, TokenTypeOK, Request
<1>9. CASE RevokeCount(w)
  <2>1. UNCHANGED <<rows, raced>> /\ req[w].pc = "count"
    BY <1>9 DEF RevokeCount, At
  <2>2. CASE Return(w)
    BY <1>4, <1>5, <2>1, <2>2
  <2>3. CASE OtherAdmins(req[w].target) # {} /\ Goto(w, "revoke")
    <3>1. req'[w].target = req[w].target
      BY <1>1, <2>3 DEF Goto, TokenTypeOK, Request
    <3>2. \A v \in Requests :
           /\ req'[v].pc \in {"count", "revoke"} =>
                req'[v].target \in Tokens /\ Exists(req'[v].target)
           /\ req'[v].pc = "revoke" =>
                \/ req[v].pc = "revoke" /\ req'[v].target = req[v].target
                \/ OtherAdmins(req'[v].target) # {}
      BY <1>1, <1>2, <2>1, <2>3, <3>1 DEF AdminInv
    <3> QED BY <1>1, <1>2, <1>3, <2>1, <3>2, AdminStays
  <2> QED BY <1>9, <2>2, <2>3 DEF RevokeCount
<1>10. CASE RevokeUpdate(w)
  <2> DEFINE t == req[w].target
  <2>1. /\ t \in Tokens /\ Exists(t) /\ req[w].pc = "revoke"
        /\ rows' = [rows EXCEPT ![t].state = "revoked"]
        /\ raced' = (raced \/ Overtakes(w, t)) /\ req'[w].pc \notin {"count", "revoke"}
    BY <1>1, <1>4, <1>10 DEF RevokeUpdate, At, AdminInv
  <2> HIDE DEF t
  <2>2. rows[t] \in Row
    BY <1>1, <2>1 DEF TokenTypeOK
  <2>3. /\ rows'[t] = [rows[t] EXCEPT !.state = "revoked"]
        /\ \A u \in Tokens : u # t => rows'[u] = rows[u]
    BY <1>1, <2>1 DEF TokenTypeOK
  <2>4. \A u \in Tokens :
           /\ rows'[u].scopes = rows[u].scopes /\ rows'[u].expiry = rows[u].expiry
           /\ rows'[u].secret = rows[u].secret
           /\ rows'[u].state = "live" => rows[u].state = "live"
           /\ Exists(u)' = Exists(u)
           /\ u # t => LiveAdmin(u)' = LiveAdmin(u)
    BY <2>1, <2>2, <2>3 DEF Row, Exists, LiveAdmin, Live
  <2>5. AdminExpired' = AdminExpired
    BY <2>4 DEF AdminExpired
  <2>6. ~raced' /\ ~AdminExpired' => \E u \in Tokens : LiveAdmin(u)'
    <3> SUFFICES ASSUME ~raced, ~AdminExpired PROVE \E u \in Tokens : LiveAdmin(u)'
      BY <2>1, <2>5
    <3>1. CASE AdminCapable(rows[t].scopes)
      <4>1. OtherAdmins(t) # {}
        BY <1>1, <2>1, <3>1 DEF AdminInv, t
      <4> QED BY <2>4, <4>1 DEF OtherAdmins
    <3>2. CASE ~AdminCapable(rows[t].scopes)
      <4>1. PICK u \in Tokens : LiveAdmin(u)
        BY <1>1, <1>2 DEF AdminInv
      <4> QED BY <2>4, <3>2, <4>1 DEF LiveAdmin
    <3> QED BY <3>1, <3>2
  <2>7. \A v \in Requests :
          req'[v].pc \in {"count", "revoke"} => v # w /\ req'[v] = req[v]
    BY <1>2, <2>1
  <2>8. ASSUME NEW v \in Requests, ~raced', ~AdminExpired', req'[v].pc = "revoke",
               AdminCapable(rows[req[v].target].scopes)'
        PROVE  OtherAdmins(req[v].target)' # {}
    <3> DEFINE s == req[v].target
    <3>1. req'[v] = req[v] /\ s \in Tokens /\ AdminCapable(rows[s].scopes) /\ v # w
      BY <1>1, <2>4, <2>7, <2>8 DEF AdminInv, AdminCapable
    <3>2. PICK u \in Tokens : u # s /\ LiveAdmin(u)
      <4>1. OtherAdmins(s) # {}
        BY <1>1, <2>1, <2>5, <2>8, <3>1 DEF AdminInv
      <4> QED BY <4>1 DEF OtherAdmins
    <3>3. u # t
      BY <2>1, <2>8, <3>1, <3>2 DEF Overtakes, LiveAdmin
    <3>4. LiveAdmin(u)'
      BY <2>4, <3>2, <3>3
    <3> QED BY <3>1, <3>2, <3>4 DEF OtherAdmins
  <2>9. AllHandedOver' => \A u \in Tokens : rows'[u].state = "live" => rows'[u].secret \in known'
    BY <1>1, <1>2, <1>3, <2>4 DEF AdminInv
  <2>10. \A u \in Tokens : ~Exists(u)' => rows'[u].scopes = {}
    BY <1>1, <2>4 DEF AdminInv
  <2>11. \A v \in Requests : req'[v].pc \in {"count", "revoke"} =>
           (req[v].target \in Tokens /\ Exists(req[v].target))'
    BY <1>1, <2>4, <2>7 DEF AdminInv, Exists
  <2> QED BY <2>6, <2>8, <2>9, <2>10, <2>11 DEF AdminInv
<1> QED BY <1>6, <1>7, <1>8, <1>9, <1>10 DEF Handles

LEMMA AdminKeeps == TokenIInv /\ [TokenNext]_vars => AdminInv'
<1> SUFFICES ASSUME TokenIInv, [TokenNext]_vars PROVE AdminInv' OBVIOUS
<1>1. TokenTypeOK /\ TokenTypeOK' /\ BootInv /\ AdminInv
  BY TypeStep DEF TokenIInv
<1>2. AllHandedOver' => AllHandedOver
  BY <1>1, SpentGrows, TokenAssumption DEF AllHandedOver, TokenTypeOK, Trouble
<1>3. ASSUME NEW t \in Tokens, Expire(t)
      PROVE  AdminInv'
  <2>1. /\ \A u \in Tokens : u # t => rows'[u] = rows[u]
        /\ rows'[t] = [rows[t] EXCEPT !.expiry = "past"]
        /\ rows[t].expiry = "later" /\ rows[t].state = "live" /\ rows[t] \in Row
        /\ UNCHANGED <<boot, req, known, raced>>
    BY <1>1, <1>3 DEF Expire, TokenTypeOK, Unsettled
  <2>2. \A u \in Tokens :
           /\ rows'[u].state = rows[u].state /\ rows'[u].scopes = rows[u].scopes
           /\ rows'[u].secret = rows[u].secret
           /\ rows[u].expiry \in {"never", "past"} => rows'[u].expiry = rows[u].expiry
    BY <2>1 DEF Row
  <2>3. CASE AdminCapable(rows[t].scopes)
    <3>1. AdminExpired'
      BY <2>1, <2>2, <2>3 DEF AdminExpired, Row
    <3> QED BY <1>1, <1>2, <2>1, <2>2, <3>1 DEF AdminInv, Exists
  <2>4. CASE ~AdminCapable(rows[t].scopes)
    <3>1. \A u \in Tokens : LiveAdmin(u)' = LiveAdmin(u)
      BY <2>1, <2>2, <2>4 DEF LiveAdmin, Live
    <3>2. \A w \in Requests : OtherAdmins(req[w].target)' = OtherAdmins(req[w].target)
      BY <2>1, <3>1 DEF OtherAdmins
    <3>3. AdminExpired' = AdminExpired
      BY <2>1, <2>2, <2>4 DEF AdminExpired
    <3>4. \A w \in Requests :
            /\ req'[w] = req[w]
            /\ req[w].pc \in {"count", "revoke"} => req[w].target \in Tokens
      BY <1>1, <2>1 DEF AdminInv
    <3>5. \A w \in Requests : req'[w].pc = "revoke" =>
            AdminCapable(rows[req[w].target].scopes)' = AdminCapable(rows[req[w].target].scopes)
      BY <2>1, <2>2, <3>4 DEF AdminCapable
    <3>6. \A w \in Requests :
            ~raced' /\ ~AdminExpired' /\ req'[w].pc = "revoke"
              /\ AdminCapable(rows[req[w].target].scopes)' => OtherAdmins(req[w].target)' # {}
      BY <1>1, <2>1, <3>2, <3>3, <3>4, <3>5 DEF AdminInv
    <3> QED BY <1>1, <1>2, <2>1, <2>2, <3>1, <3>3, <3>6 DEF AdminInv, Exists
  <2> QED BY <2>3, <2>4
<1>4. CASE Shutdown
  <2>1. /\ UNCHANGED <<rows, raced, known, spent, req>> /\ boot.pc = "serving"
        /\ boot'.pc = "down" /\ \A w \in Requests : req[w].pc = "idle"
    BY <1>4 DEF Shutdown, Off
  <2> QED BY <1>1, <1>2, <2>1, AdminStays
<1>5. CASE Crash
  <2>1. /\ UNCHANGED <<rows, raced, known>> /\ boot'.pc = "down"
        /\ \A w \in Requests : req'[w].pc = "idle"
    BY <1>5 DEF Crash, Off, NoRequest
  <2>2. ~AllHandedOver'
    BY <1>1, <1>5, SpendType, TokenAssumption DEF Crash, AllHandedOver, TokenTypeOK, Trouble
  <2> QED BY <1>1, <2>1, <2>2, AdminStays
<1>6. CASE UNCHANGED vars
  BY <1>1, <1>6, AdminStays DEF vars, AllHandedOver, AdminInv
<1> QED BY <1>1, <1>3, <1>4, <1>5, <1>6, AdminBoots, AdminHandles DEF TokenNext

-------------------------------------------------------------------------------
(* The events                                                                *)

\* How many events are missing, when one more may be, and is paid for.
LEMMA LossBound ==
  ASSUME NEW A, NEW B, NEW e, IsFiniteSet(A), B \subseteq A \cup {e}, NEW n \in Nat,
         Cardinality(A) <= n
  PROVE  Cardinality(B) <= n + 1
<1>1. /\ IsFiniteSet(A \cup {e}) /\ Cardinality(A) \in Nat
      /\ Cardinality(A \cup {e}) <= Cardinality(A) + 1
  <2>1. Cardinality(A) \in Nat
    BY FS_CardinalityType
  <2>2. /\ IsFiniteSet(A \cup {e})
        /\ Cardinality(A \cup {e}) = IF e \in A THEN Cardinality(A) ELSE Cardinality(A) + 1
    BY FS_AddElement
  <2> QED BY <2>1, <2>2
<1>2. Cardinality(B) <= Cardinality(A \cup {e}) /\ Cardinality(B) \in Nat
      /\ Cardinality(A \cup {e}) \in Nat
  BY <1>1, FS_Subset, FS_CardinalityType
<1> QED BY <1>1, <1>2

\* The events in flight are no more than the requests.
LEMMA InFlight ==
  /\ IsFiniteSet({req[w].event : w \in Requests})
  /\ Cardinality({req[w].event : w \in Requests}) <= Cardinality(Requests)
  /\ Cardinality(Requests) \in Nat
<1> DEFINE E == {req[w].event : w \in Requests}
           f == [w \in Requests |-> req[w].event]
<1>1. f \in Surjection(Requests, E)
  BY DEF Surjection
<1>2. IsFiniteSet(Requests)
  BY TokenAssumption
<1> HIDE DEF f
<1> QED BY <1>1, <1>2, FS_Surjection, FS_CardinalityType

\* A step that loses no event.
LEMMA AuditStays ==
  ASSUME TokenTypeOK, TokenTypeOK', AuditInv, [TokenNext]_vars, IsFiniteSet(owed'),
         Unrecorded' \subseteq Unrecorded,
         \A w \in Requests : req'[w].pc # "audit" => req'[w].event = NoEvent
  PROVE  AuditInv'
<1>1. /\ spent.broken \in Nat /\ spent.crashes \in Nat
      /\ spent'.broken \in Nat /\ spent'.crashes \in Nat
      /\ spent'.broken >= spent.broken /\ spent'.crashes >= spent.crashes
  BY SpentGrows, TokenAssumption DEF TokenTypeOK, Trouble
<1>2. IsFiniteSet(Unrecorded)
  BY FS_Difference DEF AuditInv, Unrecorded
<1>3. /\ Cardinality(Unrecorded') <= Cardinality(Unrecorded)
      /\ Cardinality(Unrecorded') \in Nat /\ Cardinality(Unrecorded) \in Nat
  BY <1>2, FS_Subset, FS_CardinalityType
<1>4. Cardinality(Requests) \in Nat
  BY InFlight
<1>5. \A a, b, c \in Nat : a <= b => a * c <= b * c
  OBVIOUS
<1>6. spent.crashes * Cardinality(Requests) <= spent'.crashes * Cardinality(Requests)
      /\ spent.crashes * Cardinality(Requests) \in Nat
      /\ spent'.crashes * Cardinality(Requests) \in Nat
  BY <1>1, <1>4, <1>5
<1>7. Cardinality(Unrecorded) <= spent.broken + spent.crashes * Cardinality(Requests)
  BY DEF AuditInv, EachLossIsPaidFor
<1>8. Cardinality(Unrecorded') <= spent'.broken + spent'.crashes * Cardinality(Requests)
  BY <1>1, <1>3, <1>6, <1>7
<1> QED BY <1>8 DEF AuditInv, EachLossIsPaidFor

\* A request that is cut short loses one event.
LEMMA AuditLoses ==
  ASSUME TokenTypeOK, TokenTypeOK', AuditInv, Spend("broken"), IsFiniteSet(owed'),
         NEW e, Unrecorded' \subseteq Unrecorded \cup {e},
         \A w \in Requests : req'[w].pc # "audit" => req'[w].event = NoEvent
  PROVE  AuditInv'
<1>1. /\ spent.broken \in Nat /\ spent.crashes \in Nat
      /\ spent'.broken = spent.broken + 1 /\ spent'.crashes = spent.crashes
  BY SpendType, TokenAssumption DEF TokenTypeOK, Trouble
<1>2. IsFiniteSet(Unrecorded)
  BY FS_Difference DEF AuditInv, Unrecorded
<1>3. spent.crashes * Cardinality(Requests) \in Nat
  BY <1>1, InFlight
<1>4. Cardinality(Unrecorded) <= spent.broken + spent.crashes * Cardinality(Requests)
  BY DEF AuditInv, EachLossIsPaidFor
<1>5. Cardinality(Unrecorded') <= (spent.broken + spent.crashes * Cardinality(Requests)) + 1
  <2> DEFINE n == spent.broken + spent.crashes * Cardinality(Requests)
  <2>1. n \in Nat /\ Cardinality(Unrecorded) <= n
    BY <1>1, <1>3, <1>4
  <2> HIDE DEF n
  <2>2. Cardinality(Unrecorded') <= n + 1
    BY <1>2, <2>1, LossBound
  <2> QED BY <2>2 DEF n
<1>6. Cardinality(Unrecorded') <= spent'.broken + spent'.crashes * Cardinality(Requests)
  <2> DEFINE k == spent.crashes * Cardinality(Requests)
             c == Cardinality(Unrecorded')
  <2>1. k \in Nat /\ c <= (spent.broken + k) + 1
    BY <1>3, <1>5
  <2>2. c \in Nat
    BY FS_Difference, FS_CardinalityType DEF Unrecorded
  <2>3. spent'.crashes * Cardinality(Requests) = k
    BY <1>1
  <2> HIDE DEF k, c
  <2>4. c <= spent'.broken + k
    BY <1>1, <2>1, <2>2
  <2> QED BY <2>3, <2>4 DEF c
<1> QED BY <1>6 DEF AuditInv, EachLossIsPaidFor

LEMMA AuditHandles ==
  ASSUME TokenTypeOK, TokenTypeOK', AuditInv, [TokenNext]_vars, NEW w \in Requests, Handles(w)
  PROVE  AuditInv'
<1>1. req[w] \in Request /\ owed \subseteq Change /\ IsFiniteSet(owed)
      /\ req' \in [Requests -> Request] /\ NoEvent \notin Change
  BY TokenAssumption DEF TokenTypeOK, AuditInv, Change
<1>2. \A v \in Requests : v # w => req'[v] = req[v]
  BY HandlesRows
<1>3. req[w].pc # "audit" => req[w].event = NoEvent
  BY DEF AuditInv
<1>4. Return(w) => req'[w].pc = "idle" /\ req'[w].event = NoEvent
  BY DEF Return, NoRequest, TokenTypeOK
<1>5. ASSUME NEW e, Respond(w, e)
      PROVE  req'[w].pc = "audit" /\ req'[w].event = e
  BY <1>5 DEF Respond, NoRequest, TokenTypeOK
<1>6. ASSUME req'[w].pc # "audit" => req'[w].event = NoEvent
      PROVE  \A v \in Requests : req'[v].pc # "audit" => req'[v].event = NoEvent
  BY <1>2, <1>6 DEF AuditInv
<1>7. CASE /\ owed' = owed /\ req[w].pc # "audit"
           /\ req'[w].pc # "audit" /\ req'[w].event = NoEvent
  <2>1. Unrecorded' \subseteq Unrecorded
    BY <1>1, <1>2, <1>3, <1>7 DEF Unrecorded
  <2> QED BY <1>1, <1>6, <1>7, <2>1, AuditStays
<1>8. CASE \E t \in Tokens, op \in {"create", "get"} : Authenticate(w, t, op)
  <2>1. PICK t \in Tokens, op \in {"create", "get"} : Authenticate(w, t, op)
    BY <1>8
  <2>2. /\ owed' = owed /\ req[w].pc = "idle" /\ req'[w].pc = op
        /\ req'[w].event = req[w].event
    BY <1>1, <2>1 DEF Authenticate, At, TokenTypeOK, Request
  <2> QED BY <1>3, <1>7, <2>2
<1>9. CASE \/ CreateNameTaken(w) \/ \E t \in Tokens : RevokeGet(w, t)
           \/ RevokeCount(w)
  <2>1. owed' = owed /\ req[w].pc \in {"create", "get", "count"}
    BY <1>9 DEF CreateNameTaken, RevokeGet, RevokeCount, At
  <2>2. CASE Return(w)
    BY <1>4, <1>7, <2>1, <2>2
  <2>3. CASE /\ req'[w].event = req[w].event
             /\ req'[w].pc \in {"count", "revoke"}
    BY <1>3, <1>7, <2>1, <2>3
  <2>4. ASSUME NEW t \in Tokens, RevokeGet(w, t)
        PROVE  Return(w) \/ (req'[w].event = req[w].event /\ req'[w].pc \in {"count", "revoke"})
    BY <1>1, <2>4 DEF RevokeGet, TokenTypeOK, Request
  <2>5. RevokeCount(w) =>
          Return(w) \/ (req'[w].event = req[w].event /\ req'[w].pc \in {"count", "revoke"})
    BY <1>1 DEF RevokeCount, Goto, TokenTypeOK, Request
  <2> QED BY <1>9, <2>2, <2>3, <2>4, <2>5 DEF CreateNameTaken
<1>10. ASSUME NEW e, owed' = owed \cup {e}, req[w].pc # "audit", Respond(w, e)
       PROVE  AuditInv'
  <2>1. Unrecorded' \subseteq Unrecorded
    BY <1>1, <1>2, <1>3, <1>5, <1>10 DEF Unrecorded
  <2>2. IsFiniteSet(owed')
    BY <1>1, <1>10, FS_AddElement
  <2> QED BY <1>5, <1>6, <1>10, <2>1, <2>2, AuditStays
<1>11. ASSUME NEW t \in Tokens, NEW name \in Names, NEW scopes \in Grants,
              NEW expiry \in {"never", "later"}, CreateToken(w, t, name, scopes, expiry)
       PROVE  AuditInv'
  <2> DEFINE e == <<"token.create", t>>
  <2>1. owed' = owed \cup {e} /\ req[w].pc # "audit"
    BY <1>11 DEF CreateToken, At
  <2>2. Respond(w, e) \/ (Spend("broken") /\ Return(w))
    BY <1>11 DEF CreateToken
  <2> HIDE DEF e
  <2>3. CASE Spend("broken") /\ Return(w)
    <3>1. Unrecorded' \subseteq Unrecorded \cup {e}
      BY <1>1, <1>2, <1>3, <1>4, <2>1, <2>3 DEF Unrecorded
    <3>2. IsFiniteSet(owed')
      BY <1>1, <2>1, FS_AddElement
    <3> QED BY <1>4, <1>6, <2>3, <3>1, <3>2, AuditLoses
  <2> QED BY <1>10, <2>1, <2>2, <2>3
<1>12. CASE RevokeUpdate(w)
  BY <1>10, <1>12 DEF RevokeUpdate, At
<1>13. CASE Audit(w)
  <2>1. owed' = owed \ {req[w].event} /\ Return(w)
    BY <1>13 DEF Audit
  <2>2. Unrecorded' \subseteq Unrecorded
    BY <1>1, <1>2, <1>4, <2>1 DEF Unrecorded
  <2>3. IsFiniteSet(owed')
    BY <1>1, <2>1, FS_Difference
  <2> QED BY <1>4, <1>6, <2>1, <2>2, <2>3, AuditStays
<1>14. CASE GivesUp(w)
  <2>1. owed' = owed /\ Return(w) /\ Spend("broken")
    BY <1>14 DEF GivesUp
  <2>2. Unrecorded' \subseteq Unrecorded \cup {req[w].event}
    BY <1>1, <1>2, <1>4, <2>1 DEF Unrecorded
  <2> QED BY <1>1, <1>4, <1>6, <2>1, <2>2, AuditLoses
<1> QED BY <1>8, <1>9, <1>11, <1>12, <1>13, <1>14 DEF Handles

LEMMA AuditKeeps == TokenIInv /\ [TokenNext]_vars => AuditInv'
<1> SUFFICES ASSUME TokenIInv, [TokenNext]_vars PROVE AuditInv' OBVIOUS
<1>1. TokenTypeOK /\ TokenTypeOK' /\ AuditInv /\ IsFiniteSet(owed) /\ NoEvent \notin owed
  BY TypeStep, TokenAssumption DEF TokenIInv, TokenTypeOK, AuditInv, Change
<1>2. CASE UNCHANGED <<owed, req>>
  <2>1. Unrecorded' = Unrecorded
    BY <1>2 DEF Unrecorded
  <2> QED BY <1>1, <1>2, <2>1, AuditStays DEF AuditInv
<1>3. CASE Boots \/ Shutdown \/ UNCHANGED vars \/ \E t \in Tokens : Expire(t)
  BY <1>2, <1>3 DEF Boots, Start, Migrate, Record, NewClient, EnsureNetworks, ResolveRuntime,
     AsksHost, MigrateSettingsToken, DeleteSetting, PinBootstrap, HasLiveToken, Generate,
     Announce, OpenExecs, BootRefused, Quiet, Shutdown, vars, Expire
<1>4. CASE Crash
  <2> DEFINE E == {req[w].event : w \in Requests}
             n == Cardinality(Requests)
             u == Cardinality(Unrecorded)
             v == Cardinality(Unrecorded')
             c == spent.crashes
             b == spent.broken
  <2>1. owed' = owed /\ Spend("crashes") /\ \A w \in Requests : req'[w] = NoRequest
    BY <1>4 DEF Crash
  <2>2. Unrecorded' \subseteq Unrecorded \cup E
    BY <2>1 DEF Unrecorded
  <2>3. /\ IsFiniteSet(E) /\ Cardinality(E) <= n /\ n \in Nat
        /\ IsFiniteSet(Unrecorded)
    BY <1>1, InFlight, FS_Difference DEF Unrecorded
  <2>4. /\ IsFiniteSet(Unrecorded \cup E) /\ IsFiniteSet(Unrecorded \cap E)
        /\ Cardinality(Unrecorded \cup E)
             = Cardinality(Unrecorded) + Cardinality(E) - Cardinality(Unrecorded \cap E)
    BY <2>3, FS_Union, FS_Subset
  <2>5. /\ v <= Cardinality(Unrecorded \cup E) /\ v \in Nat
        /\ Cardinality(Unrecorded \cup E) \in Nat /\ Cardinality(E) \in Nat
        /\ u \in Nat /\ Cardinality(Unrecorded \cap E) \in Nat
    BY <2>2, <2>3, <2>4, FS_Subset, FS_CardinalityType
  <2>6. v <= u + n
    BY <2>3, <2>4, <2>5
  <2>7. b \in Nat /\ c \in Nat /\ spent'.broken = b /\ spent'.crashes = c + 1
    BY <1>1, <2>1, SpendType, TokenAssumption DEF TokenTypeOK, Trouble
  <2>8. u <= b + c * n
    BY <1>1 DEF AuditInv, EachLossIsPaidFor
  <2>9. c * n \in Nat /\ (c + 1) * n = c * n + n
    <3>1. \A x, y \in Nat : x * y \in Nat /\ (x + 1) * y = x * y + y
      OBVIOUS
    <3> QED BY <2>3, <2>7, <3>1
  <2>10. v <= b + (c + 1) * n
    <3> DEFINE p == c * n
    <3>1. p \in Nat /\ u <= b + p /\ (c + 1) * n = p + n
      BY <2>8, <2>9
    <3> HIDE DEF b, c, n, u, v, p
    <3> QED BY <2>3, <2>5, <2>6, <2>7, <3>1
  <2>11. EachLossIsPaidFor'
    BY <2>7, <2>10 DEF EachLossIsPaidFor
  <2> QED BY <1>1, <2>1, <2>11 DEF AuditInv, NoRequest
<1> QED BY <1>1, <1>3, <1>4, AuditHandles DEF TokenNext

-------------------------------------------------------------------------------
(* The theorems                                                              *)

LEMMA FailsKeeps == TokenIInv /\ [TokenNext]_vars => BootFailsOnlyIf'
<1> SUFFICES ASSUME TokenIInv, [TokenNext]_vars, boot'.pc = "failed"
             PROVE  \/ boot'.refused
                    \/ boot'.host # "fit"
                    \/ Torn' /\ spent'.refused + spent'.crashes > 0
                    \/ boot'.pin # NoPin /\ PinClashes'
                    \/ /\ boot'.pin = NoPin /\ \A t \in Tokens : ~Live(t)'
                       /\ \E t \in Tokens : rows'[t].name = Bootstrap /\ rows'[t].expiry = "past"
  BY DEF BootFailsOnlyIf
<1> USE DEF BootAt, BootGoto, Quiet
<1>1. TokenTypeOK /\ SchemaInv /\ BootInv /\ BootFailsOnlyIf
  BY DEF TokenIInv
<1>2. boot \in [pc : Booting \cup {"down", "failed", "serving"}, pin : Pins \cup {NoPin},
               host : Hosts, refused : BOOLEAN]
      /\ spent.refused \in Nat /\ spent.crashes \in Nat
  BY <1>1, TokenAssumption DEF TokenTypeOK, Trouble
<1>3. CASE Migrate
  <2>1. Torn /\ UNCHANGED <<schema, spent>> /\ boot.pc = "migrate"
    BY <1>2, <1>3 DEF Migrate
  <2>2. spent.refused > 0 \/ spent.crashes > 0
    BY <1>1, <2>1 DEF SchemaInv, Torn
  <2> QED BY <1>2, <2>1, <2>2 DEF Torn
<1>4. CASE MigrateSettingsToken
  <2>1. setting = Legacy /\ ~NameTaken(Bootstrap) /\ SecretTaken(Legacy)
    BY <1>1, <1>2, <1>4 DEF MigrateSettingsToken, TokenTypeOK
  <2> QED BY <1>1, <2>1 DEF BootInv, SecretTaken, NameTaken
<1>5. CASE PinBootstrap
  <2>1. boot.pin # NoPin /\ PinClashes /\ UNCHANGED rows /\ boot'.pin = boot.pin
    BY <1>2, <1>5 DEF PinBootstrap, Serving, Off
  <2> QED BY <2>1 DEF PinClashes, Exists
<1>6. CASE Generate
  <2>1. NameTaken(Bootstrap) /\ UNCHANGED rows /\ boot'.pin = boot.pin /\ boot.pc = "generate"
    BY <1>2, <1>6 DEF Generate
  <2>2. boot.pin = NoPin /\ \A t \in Tokens : ~Live(t)
    BY <1>1, <2>1 DEF BootInv
  <2>3. \E t \in Tokens : rows[t].name = Bootstrap /\ rows[t].expiry = "past"
    BY <2>1, <2>2 DEF NameTaken, Live
  <2> QED BY <2>1, <2>2, <2>3 DEF Live
<1>7. CASE BootRefused
  BY <1>2, <1>7 DEF BootRefused
<1>8. CASE UNCHANGED vars
  BY <1>1, <1>8 DEF vars, BootFailsOnlyIf, Torn, PinClashes, Exists, Live
<1>9. ASSUME NEW t \in Tokens, Expire(t)
      PROVE  boot.pc = "failed" => BootFailsOnlyIf'
  <2>1. /\ UNCHANGED <<schema, boot>>
        /\ spent'.refused = spent.refused /\ spent'.crashes = spent.crashes
        /\ \A u \in Tokens : u # t => rows'[u] = rows[u]
        /\ rows'[t] = [rows[t] EXCEPT !.expiry = "past"] /\ rows[t] \in Row
    BY <1>1, <1>9, SpendType DEF Expire, Unsettled, TokenTypeOK, Trouble
  <2>2. \A u \in Tokens :
           /\ rows'[u].state = rows[u].state /\ rows'[u].name = rows[u].name
           /\ rows'[u].secret = rows[u].secret
           /\ rows[u].expiry = "past" => rows'[u].expiry = "past"
    BY <2>1 DEF Row
  <2>3. PinClashes' = PinClashes /\ Torn' = Torn
    BY <2>1, <2>2 DEF PinClashes, Exists, Torn
  <2>4. (\A u \in Tokens : ~Live(u)) => \A u \in Tokens : ~Live(u)'
    BY <2>2, <2>1 DEF Live, Row
  <2>5. (\E u \in Tokens : rows[u].name = Bootstrap /\ rows[u].expiry = "past")
          => \E u \in Tokens : rows'[u].name = Bootstrap /\ rows'[u].expiry = "past"
    BY <2>2
  <2> QED BY <1>1, <2>1, <2>3, <2>4, <2>5 DEF BootFailsOnlyIf
<1>10. CASE \E w \in Requests : Handles(w)
  BY <1>1, <1>10, HandlesRows
<1>11. CASE \/ \E pin \in Pins \cup {NoPin}, host \in Hosts : Start(pin, host)
            \/ Record \/ DeleteSetting \/ HasLiveToken \/ Announce \/ OpenExecs
            \/ Shutdown \/ Crash
  BY <1>2, <1>11 DEF Start, Record, DeleteSetting, HasLiveToken, Announce, OpenExecs, Shutdown,
     Crash, Serving, Off
<1>12. CASE \E t \in Tokens : Expire(t)
  <2>1. PICK t \in Tokens : Expire(t) BY <1>12
  <2>2. boot.pc = "failed"
    BY <2>1 DEF Expire, Unsettled
  <2> QED BY <1>9, <2>1, <2>2 DEF BootFailsOnlyIf
<1>13. CASE AsksDocker
  BY <1>1, <1>13, HostOutcome
<1> QED BY <1>3, <1>4, <1>5, <1>6, <1>7, <1>8, <1>10, <1>11, <1>12, <1>13
        DEF TokenNext, Boots, AsksDocker

LEMMA TokenIInvInit == TokenInit => TokenIInv
<1> SUFFICES ASSUME TokenInit PROVE TokenIInv OBVIOUS
<1>1. boot.pc = "down" /\ \A w \in Requests : req[w] = NoRequest
  BY DEF TokenInit, Off
<1>2. \A t \in Tokens : rows[t] = Absent(t) /\ ~Exists(t) /\ rows[t].scopes = {}
  BY DEF TokenInit, Absent, Exists
<1>3. SchemaInv
  BY <1>1, VersionsAssumption DEF TokenInit, SchemaInv, SchemaAt, PastMigrations, PastHost
<1>4. BootInv
  BY <1>1, <1>2, TokenAssumption DEF TokenInit, BootInv
<1>5. BootFailsOnlyIf
  BY <1>1 DEF BootFailsOnlyIf
<1>6. AdminInv
  <2>1. \A w \in Requests : req[w].pc \notin {"count", "revoke"}
    BY <1>1 DEF NoRequest
  <2>2. \A t \in Tokens : rows[t].state # "live"
    BY <1>2 DEF Exists
  <2> QED BY <1>1, <1>2, <2>1, <2>2 DEF AdminInv
<1>7. AuditInv
  <2>1. owed = {} /\ Unrecorded = {} /\ spent.broken = 0 /\ spent.crashes = 0
    BY DEF TokenInit, Unrecorded, Trouble
  <2>2. Cardinality(Unrecorded) = 0 /\ IsFiniteSet(owed)
    BY <2>1, FS_EmptySet
  <2>3. Cardinality(Requests) \in Nat
    BY InFlight
  <2>4. EachLossIsPaidFor
    BY <2>1, <2>2, <2>3 DEF EachLossIsPaidFor
  <2> QED BY <1>1, <2>2, <2>4 DEF AuditInv, NoRequest
<1>8. HostInv
  BY <1>1 DEF HostInv, PastHost
<1> QED BY TypeInit, <1>3, <1>4, <1>5, <1>6, <1>7, <1>8 DEF TokenIInv

LEMMA TokenInvariant == TokenSpec => []TokenIInv
<1>1. TokenIInv /\ [TokenNext]_vars => TokenIInv'
  BY TypeStep, SchemaKeeps, HostKeeps, BootKeeps, FailsKeeps, AdminKeeps, AuditKeeps DEF TokenIInv
<1> QED BY <1>1, TokenIInvInit, PTL DEF TokenSpec

\* Every variable keeps its type, for any number of tokens, requests and troubles: in
\* particular a request never revokes a row that its Get has not found.
THEOREM TokenTyped == TokenSpec => []TokenTypeOK
<1>1. TokenIInv => TokenTypeOK
  BY DEF TokenIInv
<1> QED BY <1>1, TokenInvariant, PTL

\* Revoke never leaves nobody in charge (auth/service.go:96-129), unless a token that
\* administers has expired or two revocations of such tokens have overlapped; and unless
\* a caller or the daemon went away, somebody holds the secret of one that is left.
THEOREM AlwaysAdministered == TokenSpec => []SomeoneAdministers
<1>1. TokenIInv => SomeoneAdministers
  <2> SUFFICES ASSUME TokenIInv, boot.pc = "serving", ~raced, ~AdminExpired
               PROVE  \E t \in Tokens : /\ LiveAdmin(t)
                                        /\ \/ rows[t].secret \in known
                                           \/ spent.broken > 0 \/ spent.crashes > 0
    BY DEF SomeoneAdministers
  <2>1. PICK t \in Tokens : LiveAdmin(t)
    BY DEF TokenIInv, AdminInv
  <2>2. AllHandedOver => rows[t].secret \in known
    BY <2>1 DEF TokenIInv, AdminInv, LiveAdmin, Live
  <2>3. AllHandedOver \/ spent.broken > 0 \/ spent.crashes > 0
    BY TokenAssumption DEF TokenIInv, TokenTypeOK, AllHandedOver, Trouble
  <2> QED BY <2>1, <2>2, <2>3
<1> QED BY <1>1, TokenInvariant, PTL

\* Between opening its database and listening (cmd/orcald/main.go:47-92) a boot gives up
\* only for a statement, a call of Docker or a directory that was refused, a Docker host
\* that is not fit for it, a migration an earlier boot has torn, a pinned secret another
\* row has, or a bootstrap token that has expired and still holds the name.
THEOREM BootFailureExplained == TokenSpec => []BootFailsOnlyIf
<1>1. TokenIInv => BootFailsOnlyIf
  BY DEF TokenIInv
<1> QED BY <1>1, TokenInvariant, PTL

\* No more changes are missing from the audit events than there were callers cut short
\* and requests in flight when the daemon died (api/audit.go).
THEOREM AuditLossBounded == TokenSpec => []EachLossIsPaidFor
<1>1. TokenIInv => EachLossIsPaidFor
  BY DEF TokenIInv, AuditInv
<1> QED BY <1>1, TokenInvariant, PTL

\* The services are only ever set up on a Docker host that was found fit and a schema that
\* has gone through whole, with no legacy setting left, and with a token that works: the
\* pinned one if there is a pin (cmd/orcald/main.go:81-92).
THEOREM BootDelivers == TokenSpec => BootHandsOver
<1>1. ASSUME TokenIInv, TokenIInv', [TokenNext]_vars, NEW pin \in Pins \cup {NoPin},
             boot.pc # "execs", boot'.pc = "execs", boot.pin = pin
      PROVE  ReadyToServe(pin)'
  <2> USE DEF BootAt, BootGoto, Quiet
  <2>1. /\ TokenTypeOK /\ BootInv /\ TokenTypeOK' /\ BootInv' /\ SchemaInv'
        /\ boot \in [pc : Booting \cup {"down", "failed", "serving"}, pin : Pins \cup {NoPin},
                     host : Hosts, refused : BOOLEAN]
    BY <1>1 DEF TokenIInv, TokenTypeOK
  <2>2. Whole'
    BY <1>1, <2>1 DEF SchemaInv, PastMigrations, PastHost, Migrated, Whole
  <2>3. /\ setting' = NoSecret
        /\ (Legacy \in known /\ known \cap Pins = {})' => SecretTaken(Legacy)'
    BY <1>1, <2>1 DEF BootInv
  <2>4. PinBootstrap \/ HasLiveToken \/ Announce
    <3>1. ~(\E w \in Requests : Handles(w)) /\ ~UNCHANGED vars
          /\ ~(\E t \in Tokens : Expire(t))
      BY <1>1, <2>1, HandlesRows DEF vars, Expire, Unsettled
    <3>2. ~(\E p \in Pins \cup {NoPin}, h \in Hosts : Start(p, h)) /\ ~Migrate /\ ~Record
      BY <1>1, <2>1 DEF Start, Migrate, Record
    <3>3. ~MigrateSettingsToken /\ ~DeleteSetting /\ ~Generate /\ ~BootRefused
      BY <1>1, <2>1 DEF MigrateSettingsToken, DeleteSetting, Generate, BootRefused
    <3>4. ~Shutdown /\ ~Crash /\ ~OpenExecs
      BY <1>1, <2>1 DEF Shutdown, Crash, OpenExecs, Serving, Off
    <3>5. ~AsksDocker
      BY <1>1, <2>1, HostOutcome
    <3> QED BY <1>1, <3>1, <3>2, <3>3, <3>4, <3>5 DEF TokenNext, Boots, AsksDocker
  <2>5. \E t \in Tokens : /\ Live(t)'
                          /\ pin # NoPin => /\ rows'[t].secret = pin
                                            /\ rows'[t].scopes = {"*"}
                                            /\ rows'[t].expiry = "never"
    <3>1. CASE HasLiveToken
      BY <1>1, <2>1, <3>1 DEF HasLiveToken, Live
    <3>2. CASE Announce
      BY <1>1, <2>1, <3>2 DEF Announce, Live, BootInv
    <3>3. CASE PinBootstrap
      <4>1. PICK t \in Tokens : rows' = [rows EXCEPT ![t] = PinnedRow]
        BY <1>1, <2>1, <3>3 DEF PinBootstrap, Insert
      <4>2. rows'[t] = PinnedRow
        BY <2>1, <4>1 DEF TokenTypeOK
      <4> QED BY <1>1, <4>2 DEF Live, PinnedRow, NewRow
    <3> QED BY <2>4, <3>1, <3>2, <3>3
  <2>6. boot'.host = "fit"
    <3>1. HostInv' /\ boot'.host \in Hosts
      BY <1>1, <2>1 DEF TokenIInv, TokenTypeOK
    <3> QED BY <1>1, <3>1 DEF HostInv, PastHost, Hosts
  <2> QED BY <2>2, <2>3, <2>5, <2>6 DEF ReadyToServe
<1>2. TokenIInv /\ TokenIInv' /\ [TokenNext]_vars =>
        [\A pin \in Pins \cup {NoPin} :
           boot.pc # "execs" /\ boot'.pc = "execs" /\ boot.pin = pin
             => ReadyToServe(pin)']_vars
  BY <1>1
<1> QED BY <1>2, TokenInvariant, PTL DEF TokenSpec, BootHandsOver

===============================================================================
