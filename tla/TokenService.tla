----------------------------- MODULE TokenService -----------------------------
(***************************************************************************)
(* API tokens (internal/auth) and what surrounds them: the daemon's boot   *)
(* from the schema through the Docker host and the bootstrap token to the  *)
(* services that can refuse to be made (cmd/orcald/main.go), and the       *)
(* requests that issue and revoke tokens, through authentication, the      *)
(* check of scopes and the recording of an audit event (internal/api).     *)
(*                                                                         *)
(* A statement of the database is a step.  No operation uses a             *)
(* transaction or a lock, so between two statements of one request those   *)
(* of another may run, the caller may hang up, a token may expire, or the  *)
(* daemon may die.  last_used_at, prefixes and IDs are left out.           *)
(***************************************************************************)
EXTENDS Naturals, FiniteSets, Migrations

CONSTANTS
  Tokens,       \* rows that can be made; a token also names the secret made for it
  Requests,     \* slots for requests in flight
  Names,        \* names callers may give
  Bootstrap,    \* the name of the token a boot makes
  Grants,       \* sets of scopes callers may ask for
  Pins,         \* secrets an operator may put into ORCAL_TOKEN
  NoPin,        \* ORCAL_TOKEN is not set
  Legacy,       \* the secret of a database from before there were tokens
  NoSecret,     \* that setting is absent
  NoToken, NoEvent,
  MaxTroubles   \* bound: statements and calls of a boot that are refused, requests cut
                \* short, deaths of the daemon and expired tokens, all together

ASSUME TokenAssumption ==
  /\ Bootstrap \in Names
  /\ Tokens \cap Pins = {} /\ Legacy \notin Tokens \cup Pins
  /\ NoPin \notin Pins /\ NoSecret # Legacy
  /\ \A g \in Grants : g # {} /\ g \subseteq {"admin", "read", "*"}
  /\ NoToken \notin Tokens /\ MaxTroubles \in Nat
  /\ NoEvent \notin {"token.create", "token.revoke"} \X Tokens
  /\ IsFiniteSet(Requests)

VARIABLES
  rows,      \* the table of tokens
  setting,   \* the setting auth_token_hash
  boot,      \* the daemon: down, booting or serving
  req,       \* the requests in flight
  known,     \* for the properties: secrets that somebody holds
  owed,      \* for the properties: changes made by requests and not yet recorded
  raced,     \* for the properties: two revocations of admin tokens have overlapped
  spent      \* the troubles there have been

vars == <<schema, rows, setting, boot, req, known, owed, raced, spent>>

Secrets == Tokens \cup Pins \cup {Legacy}
Scopes  == {"admin", "read", "*"}
Change  == {"token.create", "token.revoke"} \X Tokens

Row == [state : {"absent", "live", "revoked"}, name : Names, secret : Secrets,
        scopes : SUBSET Scopes, expiry : {"never", "later", "past"}]

Absent(t) == [state |-> "absent", name |-> Bootstrap, secret |-> t, scopes |-> {},
              expiry |-> "never"]

\* What a boot finds of its Docker host, the first defect that matters: none; an
\* address no client can be made for; a network of one of its names that is open where
\* it must be internal, or the other way round; or a runtime that is not registered, or
\* that is runsc without the arguments Orcal cannot do without.
Hosts == {"fit", "address", "networks", "runtime"}

Booting == {"migrate", "record", "client", "networks", "runtime", "legacy", "unset",
            "pin", "generate", "announce", "execs"}
Request == [pc : {"idle", "create", "get", "count", "revoke", "audit"},
            held : SUBSET Scopes, target : Tokens \cup {NoToken},
            event : Change \cup {NoEvent}]
Trouble == {"refused", "broken", "crashes", "expiries"}

NoRequest == [pc |-> "idle", held |-> {}, target |-> NoToken, event |-> NoEvent]

TokenTypeOK ==
  /\ schema \in Schema
  /\ rows \in [Tokens -> Row]
  /\ setting \in {Legacy, NoSecret}
  /\ boot \in [pc : Booting \cup {"down", "failed", "serving"}, pin : Pins \cup {NoPin},
               host : Hosts, refused : BOOLEAN]
  /\ req \in [Requests -> Request]
  /\ known \subseteq Secrets
  /\ owed \subseteq Change
  /\ raced \in BOOLEAN
  /\ spent \in [Trouble -> 0 .. MaxTroubles]

\* The daemon does not run.
Off == [pc |-> "down", pin |-> NoPin, host |-> "fit", refused |-> FALSE]

\* A new database, or one from before the last migration, with its one token.
TokenInit ==
  /\ \/ schema = SchemaAt(0) /\ setting = NoSecret
     \/ schema = SchemaAt(Versions - 1) /\ setting = Legacy
  /\ rows = [t \in Tokens |-> Absent(t)]
  /\ boot = Off
  /\ req = [w \in Requests |-> NoRequest]
  /\ known = IF setting = Legacy THEN {Legacy} ELSE {}
  /\ owed = {}
  /\ raced = FALSE
  /\ spent = [k \in Trouble |-> 0]

-------------------------------------------------------------------------------
(* Tokens and their table                                                    *)

Has(scopes, want)     == "*" \in scopes \/ want \in scopes
Missing(scopes, want) == {s \in want : ~Has(scopes, s)}
AdminCapable(scopes)  == Has(scopes, "admin")

Exists(t) == rows[t].state # "absent"
Live(t)   == rows[t].state = "live" /\ rows[t].expiry # "past"

\* The partial index over names: rows that are not revoked, expired or not.
NameTaken(name) == \E t \in Tokens : rows[t].state = "live" /\ rows[t].name = name
SecretTaken(secret) == \E t \in Tokens : Exists(t) /\ rows[t].secret = secret

LiveAdmin(t) == Live(t) /\ AdminCapable(rows[t].scopes)

NewRow(name, secret, scopes, expiry) ==
  [state |-> "live", name |-> name, secret |-> secret, scopes |-> scopes,
   expiry |-> expiry]

\* tokenRepo.Create; both indexes have to let the row in.
Insert(t, row) ==
  /\ ~Exists(t)
  /\ ~NameTaken(row.name) /\ ~SecretTaken(row.secret)
  /\ rows' = [rows EXCEPT ![t] = row]

-------------------------------------------------------------------------------
(* The boot                                                                  *)

Spend(trouble) ==
  /\ spent.refused + spent.broken + spent.crashes + spent.expiries < MaxTroubles
  /\ spent' = [spent EXCEPT ![trouble] = @ + 1]

BootAt(pc)   == boot.pc = pc
BootGoto(pc) == boot' = [boot EXCEPT !.pc = pc]
Serving      == [Off EXCEPT !.pc = "serving"]

\* What a boot leaves alone but for what it says it changes.
Quiet == UNCHANGED <<req, owed, raced>>

\* A boot is only explored if there is an identifier for the row it may make.
Start(pin, host) ==
  /\ boot.pc \in {"down", "failed"}
  /\ NameTaken(Bootstrap) \/ \E t \in Tokens : ~Exists(t)
  /\ boot' = [pc |-> "migrate", pin |-> pin, host |-> host, refused |-> FALSE]
  /\ Quiet /\ UNCHANGED <<schema, rows, setting, known, spent>>

Migrate ==
  /\ BootAt("migrate")
  /\ \/ Migrated /\ BootGoto("client") /\ UNCHANGED schema
     \/ \E v \in 1 .. Versions : ApplyMigration(v) /\ BootGoto("record")
     \/ Torn /\ BootGoto("failed") /\ UNCHANGED schema
  /\ Quiet /\ UNCHANGED <<rows, setting, known, spent>>

Record ==
  /\ BootAt("record")
  /\ \E v \in 1 .. Versions : RecordMigration(v)
  /\ BootGoto("migrate")
  /\ Quiet /\ UNCHANGED <<rows, setting, known, spent>>

\* A step between schema and tokens that a defect of the Docker host fails.
AsksHost(pc, defect, next) ==
  /\ BootAt(pc)
  /\ BootGoto(IF boot.host = defect THEN "failed" ELSE next)
  /\ Quiet /\ UNCHANGED <<schema, rows, setting, known, spent>>

\* docker.New
NewClient == AsksHost("client", "address", "networks")

\* Both networks: one that is missing is made, and one made meanwhile will do.
EnsureNetworks == AsksHost("networks", "networks", "runtime")

ResolveRuntime == AsksHost("runtime", "runtime", "legacy")

LegacyRow == NewRow(Bootstrap, setting, {"*"}, "never")

\* Mutant: a name that is taken is an error like any other.
MigrateSettingsToken_Strict ==
  /\ BootAt("legacy")
  /\ IF setting = NoSecret THEN BootGoto("pin") /\ UNCHANGED rows
     ELSE IF NameTaken(Bootstrap) THEN BootGoto("failed") /\ UNCHANGED rows
     ELSE IF SecretTaken(setting) THEN BootGoto("failed") /\ UNCHANGED rows
     ELSE (\E t \in Tokens : Insert(t, LegacyRow)) /\ BootGoto("unset")
  /\ Quiet /\ UNCHANGED <<schema, setting, known, spent>>

\* A name that is taken is the row an earlier boot has inserted before it died.
MigrateSettingsToken ==
  /\ BootAt("legacy")
  /\ IF setting = NoSecret THEN BootGoto("pin") /\ UNCHANGED rows
     ELSE IF NameTaken(Bootstrap) THEN BootGoto("unset") /\ UNCHANGED rows
     ELSE IF SecretTaken(setting) THEN BootGoto("failed") /\ UNCHANGED rows
     ELSE (\E t \in Tokens : Insert(t, LegacyRow)) /\ BootGoto("unset")
  /\ Quiet /\ UNCHANGED <<schema, setting, known, spent>>

DeleteSetting ==
  /\ BootAt("unset")
  /\ setting' = NoSecret
  /\ BootGoto("pin")
  /\ Quiet /\ UNCHANGED <<schema, rows, known, spent>>

\* The row that the pinned secret would be written to is not the one that has it.
PinClashes ==
  \E t \in Tokens : /\ Exists(t) /\ rows[t].secret = boot.pin
                    /\ ~(rows[t].state = "live" /\ rows[t].name = Bootstrap)

PinnedRow == NewRow(Bootstrap, boot.pin, {"*"}, "never")

\* Mutant: the expiry of the row that is pinned stays as it was.
PinBootstrap_KeepsExpiry ==
  /\ BootAt("pin") /\ boot.pin # NoPin
  /\ IF PinClashes THEN BootGoto("failed") /\ UNCHANGED <<rows, known>>
     ELSE /\ \/ \E t \in Tokens : Insert(t, PinnedRow)
             \/ \E t \in Tokens :
                  /\ rows[t].state = "live" /\ rows[t].name = Bootstrap
                  /\ rows' = [rows EXCEPT ![t] = [PinnedRow EXCEPT !.expiry = rows[t].expiry]]
          /\ known' = known \cup {boot.pin}
          /\ BootGoto("execs")
  /\ Quiet /\ UNCHANGED <<schema, setting, spent>>

\* The live row called bootstrap takes the secret, or a new one does.
PinBootstrap ==
  /\ BootAt("pin") /\ boot.pin # NoPin
  /\ IF PinClashes THEN BootGoto("failed") /\ UNCHANGED <<rows, known>>
     ELSE /\ \/ \E t \in Tokens : Insert(t, PinnedRow)
             \/ \E t \in Tokens :
                  /\ rows[t].state = "live" /\ rows[t].name = Bootstrap
                  /\ rows' = [rows EXCEPT ![t] = PinnedRow]
          /\ known' = known \cup {boot.pin}
          /\ BootGoto("execs")
  /\ Quiet /\ UNCHANGED <<schema, setting, spent>>

HasLiveToken ==
  /\ BootAt("pin") /\ boot.pin = NoPin
  /\ BootGoto(IF \E t \in Tokens : Live(t) THEN "execs" ELSE "generate")
  /\ Quiet /\ UNCHANGED <<schema, rows, setting, known, spent>>

\* A token that has expired without being revoked still has its name.
Generate ==
  /\ BootAt("generate")
  /\ IF NameTaken(Bootstrap) THEN BootGoto("failed") /\ UNCHANGED rows
     ELSE /\ \E t \in Tokens : Insert(t, NewRow(Bootstrap, t, {"*"}, "never"))
          /\ BootGoto("announce")
  /\ Quiet /\ UNCHANGED <<schema, setting, known, spent>>

\* The plaintext is printed once, after the row is there.
Announce ==
  /\ BootAt("announce")
  /\ known' = known \cup {rows[t].secret : t \in {u \in Tokens : Live(u)}}
  /\ BootGoto("execs")
  /\ Quiet /\ UNCHANGED <<schema, rows, setting, spent>>

\* exec.NewService makes the directory of the logs; nothing behind it stops a boot
\* before the listener.
OpenExecs ==
  /\ BootAt("execs")
  /\ boot' = Serving
  /\ Quiet /\ UNCHANGED <<schema, rows, setting, known, spent>>

\* The database refuses the statement the boot has come to, Docker does not answer its
\* call, or the directory cannot be made.
BootRefused ==
  /\ boot.pc \in Booting \ {"client", "announce"}
  /\ Spend("refused")
  /\ boot' = [boot EXCEPT !.pc = "failed", !.refused = TRUE]
  /\ IF BootAt("migrate") /\ ~Migrated
     THEN \E v \in 1 .. Versions : Pending(v) /\ Tears(v)
     ELSE UNCHANGED schema
  /\ Quiet /\ UNCHANGED <<rows, setting, known>>

-------------------------------------------------------------------------------
(* Requests                                                                  *)

At(w, pc)   == boot.pc = "serving" /\ req[w].pc = pc
Goto(w, pc) == req' = [req EXCEPT ![w].pc = pc]
Return(w)   == req' = [req EXCEPT ![w] = NoRequest]
\* On to the audit middleware with a change to report.  An event that reports none
\* (a failure, a denial) is not followed to its table.
Respond(w, event) ==
  req' = [req EXCEPT ![w] = [NoRequest EXCEPT !.pc = "audit", !.event = event]]

Unsettled == UNCHANGED <<schema, setting, boot>>

\* authenticate, then requireScope: the row as it is now decides, and its scopes are
\* those of the request to its end (kept where they are used again).  Callers who are
\* denied change nothing.
Authenticate(w, t, op) ==
  /\ At(w, "idle")
  /\ Live(t) /\ rows[t].secret \in known
  /\ Has(rows[t].scopes, "admin")
  /\ req' = [req EXCEPT ![w].pc = op,
                        ![w].held = IF op = "create" THEN rows[t].scopes ELSE @]
  /\ Unsettled /\ UNCHANGED <<rows, known, owed, raced, spent>>

\* Nobody grants what they do not hold.  The response has the only copy of the secret;
\* a caller that has gone when it is written never learns it, and the event is lost.
CreateToken(w, t, name, scopes, expiry) ==
  /\ At(w, "create")
  /\ Missing(req[w].held, scopes) = {}
  /\ Insert(t, NewRow(name, t, scopes, expiry))
  /\ owed' = owed \cup {<<"token.create", t>>}
  /\ \/ /\ known' = known \cup {t}
        /\ Respond(w, <<"token.create", t>>)
        /\ UNCHANGED spent
     \/ Spend("broken") /\ Return(w) /\ UNCHANGED known
  /\ Unsettled /\ UNCHANGED raced

CreateNameTaken(w) ==
  /\ At(w, "create")
  /\ \E name \in Names : NameTaken(name)
  /\ Return(w)
  /\ Unsettled /\ UNCHANGED <<rows, known, owed, raced, spent>>

\* Mutant: the token that is to be revoked is one of those that remain.
OtherAdmins_Itself(t) == {u \in Tokens : LiveAdmin(u)}

OtherAdmins(t) == {u \in Tokens \ {t} : LiveAdmin(u)}

\* Get.  Nothing more is done about a token that is revoked already.
RevokeGet(w, t) ==
  /\ At(w, "get") /\ Exists(t)
  /\ IF rows[t].state = "revoked" THEN Return(w)
     ELSE req' = [req EXCEPT ![w].pc = IF AdminCapable(rows[t].scopes) THEN "count"
                                       ELSE "revoke",
                             ![w].target = t]
  /\ Unsettled /\ UNCHANGED <<rows, known, owed, raced, spent>>

\* List: is there another token that administers?
RevokeCount(w) ==
  /\ At(w, "count")
  /\ IF OtherAdmins(req[w].target) # {} THEN Goto(w, "revoke") ELSE Return(w)
  /\ Unsettled /\ UNCHANGED <<rows, known, owed, raced, spent>>

\* Another request is about to revoke another token that administers.
Overtakes(w, t) ==
  \E u \in Requests \ {w} :
     /\ req[u].pc = "revoke" /\ req[u].target # t
     /\ AdminCapable(rows[req[u].target].scopes) /\ AdminCapable(rows[t].scopes)

\* Mutant: the event is left to the next request.
RevokeUpdate_Unaudited(w) ==
  LET t == req[w].target IN
  /\ At(w, "revoke")
  /\ rows' = [rows EXCEPT ![t].state = "revoked"]
  /\ raced' = (raced \/ Overtakes(w, t))
  /\ owed' = owed \cup {<<"token.revoke", t>>}
  /\ Return(w)
  /\ Unsettled /\ UNCHANGED <<known, spent>>

\* Update, of the whole row as Get has read it; nothing else that requests do changes
\* it, but for last_used_at.
RevokeUpdate(w) ==
  LET t == req[w].target IN
  /\ At(w, "revoke")
  /\ rows' = [rows EXCEPT ![t].state = "revoked"]
  /\ raced' = (raced \/ Overtakes(w, t))
  /\ owed' = owed \cup {<<"token.revoke", t>>}
  /\ Respond(w, <<"token.revoke", t>>)
  /\ Unsettled /\ UNCHANGED <<known, spent>>

\* Audit.Record, on the context of the request, after the response has been written.
Audit(w) ==
  /\ At(w, "audit")
  /\ owed' = owed \ {req[w].event}
  /\ Return(w)
  /\ Unsettled /\ UNCHANGED <<rows, known, raced, spent>>

\* A statement is refused, or the caller has hung up and every statement on the
\* context of its request fails from then on, that of Record too, which only logs it.
GivesUp(w) ==
  /\ boot.pc = "serving" /\ req[w].pc # "idle"
  /\ Spend("broken")
  /\ Return(w)
  /\ Unsettled /\ UNCHANGED <<rows, known, owed, raced>>

-------------------------------------------------------------------------------
(* The world                                                                 *)

Expire(t) ==
  /\ rows[t].state = "live" /\ rows[t].expiry = "later"
  /\ Spend("expiries")
  /\ rows' = [rows EXCEPT ![t].expiry = "past"]
  /\ Unsettled /\ UNCHANGED <<req, known, owed, raced>>

Shutdown ==
  /\ boot.pc = "serving" /\ \A w \in Requests : req[w].pc = "idle"
  /\ boot' = Off
  /\ UNCHANGED <<schema, rows, setting, req, known, owed, raced, spent>>

Crash ==
  /\ boot.pc \in Booting \cup {"serving"}
  /\ Spend("crashes")
  /\ boot' = Off
  /\ req' = [w \in Requests |-> NoRequest]
  /\ IF BootAt("migrate") /\ ~Migrated
     THEN \E v \in 1 .. Versions : Pending(v) /\ Tears(v)
     ELSE UNCHANGED schema
  /\ UNCHANGED <<rows, setting, known, owed, raced>>

-------------------------------------------------------------------------------

Boots ==
  \/ \E pin \in Pins \cup {NoPin}, host \in Hosts : Start(pin, host)
  \/ Migrate \/ Record
  \/ NewClient \/ EnsureNetworks \/ ResolveRuntime
  \/ MigrateSettingsToken \/ DeleteSetting
  \/ PinBootstrap \/ HasLiveToken \/ Generate \/ Announce
  \/ OpenExecs \/ BootRefused

Handles(w) ==
  \/ \E t \in Tokens, op \in {"create", "get"} : Authenticate(w, t, op)
  \/ \E t \in Tokens, name \in Names, scopes \in Grants, expiry \in {"never", "later"} :
       CreateToken(w, t, name, scopes, expiry)
  \/ CreateNameTaken(w)
  \/ \E t \in Tokens : RevokeGet(w, t)
  \/ RevokeCount(w) \/ RevokeUpdate(w)
  \/ Audit(w) \/ GivesUp(w)

TokenNext ==
  \/ Boots
  \/ \E w \in Requests : Handles(w)
  \/ \E t \in Tokens : Expire(t)
  \/ Shutdown \/ Crash

TokenSpec == TokenInit /\ [][TokenNext]_vars

-------------------------------------------------------------------------------
(* Properties                                                                *)

AdminExpired == \E t \in Tokens : /\ AdminCapable(rows[t].scopes)
                                  /\ rows[t].expiry = "past"

\* Revoke refuses to leave nobody in charge (auth/service.go:96).  While the daemon
\* serves, some live token administers, unless an admin token has expired or two
\* revocations of admin tokens have overlapped; and somebody holds its secret,
\* unless a caller or the daemon went away before it was handed over.
SomeoneAdministers ==
  boot.pc = "serving" /\ ~raced /\ ~AdminExpired =>
    \E t \in Tokens : /\ LiveAdmin(t)
                      /\ \/ rows[t].secret \in known
                         \/ spent.broken > 0 \/ spent.crashes > 0

\* A boot that gives up between opening its database and listening
\* (cmd/orcald/main.go:47-92) was refused a statement, a call of Docker or a
\* directory, or finds a migration that an earlier death or refusal has torn, or a
\* Docker host that is not fit for it, or is told to pin a secret that another token
\* has or has had, or has to make a token while one that has expired still holds the
\* name.  In particular a death anywhere within an earlier boot, but for its
\* migrations, does not stand in its way.
BootFailsOnlyIf ==
  boot.pc = "failed" =>
    \/ boot.refused
    \/ boot.host # "fit"
    \/ Torn /\ spent.refused + spent.crashes > 0
    \/ boot.pin # NoPin /\ PinClashes
    \/ /\ boot.pin = NoPin /\ \A t \in Tokens : ~Live(t)
       /\ \E t \in Tokens : rows[t].name = Bootstrap /\ rows[t].expiry = "past"

\* What a boot has ready when it is done with tokens and sets up the services
\* (cmd/orcald/main.go:81-92): a Docker host found fit, as it refuses to start on any
\* other (docs/SECURITY.md:103), a schema all of whose migrations have gone through,
\* no legacy setting, and a token that works: the one the operator has pinned, with
\* every scope and no end, or else any; a database that had a legacy secret still
\* honours it if it was the first of its boots and nothing was pinned.
ReadyToServe(pin) ==
  /\ boot.host = "fit"
  /\ Whole
  /\ setting = NoSecret
  /\ \E t \in Tokens :
       /\ Live(t)
       /\ pin # NoPin => /\ rows[t].secret = pin /\ rows[t].scopes = {"*"}
                         /\ rows[t].expiry = "never"
  /\ (Legacy \in known /\ known \cap Pins = {}) => SecretTaken(Legacy)

BootHandsOver ==
  [][\A pin \in Pins \cup {NoPin} :
        boot.pc # "execs" /\ boot'.pc = "execs" /\ boot.pin = pin
          => ReadyToServe(pin)']_vars

\* "records an audit event for every mutating operation" (docs/SECURITY.md:161),
\* failing open: a change that is neither recorded nor about to be was paid for by
\* a caller that hung up, a refused statement or a death, each of them for no more
\* changes than it can have interrupted.
Unrecorded == owed \ {req[w].event : w \in Requests}

EachLossIsPaidFor ==
  Cardinality(Unrecorded) <= spent.broken + spent.crashes * Cardinality(Requests)

\* "refusing to revoke the last admin-capable token" (auth/errors.go:11), whatever
\* else is being revoked.
LastAdminStays ==
  boot.pc = "serving" /\ ~AdminExpired => \E t \in Tokens : LiveAdmin(t)
==============================================================================
