---------------------------- MODULE IdentityProofs ----------------------------
(***************************************************************************)
(* What holds of the start of the server, the audit forwarder, account      *)
(* administration and the credential library for any number of people,      *)
(* rows and requests in flight.  Each part has an inductive invariant of    *)
(* its own: what a request has read that is still true when it acts on it.  *)
(***************************************************************************)
EXTENDS Migration, AuditForwarder, Accounts, Credentials, FiniteSetTheorems, TLAPS

-------------------------------------------------------------------------------
(* The start of the server.                                                  *)

MigrationTypeOK ==
  /\ starting \in {"down", "columns", "fast", "seed", "promote", "tags", "links", "setmark",
                   "bootstrap", "rotate", "serving"}
  /\ columns \subseteq Columns
  /\ marks \subseteq {"seed", "schema"}
  /\ adminRow \in [role : {"none", "user", "admin"}, rotate : BOOLEAN]
  /\ converted \in [Conversions -> BOOLEAN]
  /\ choice \in [Conversions -> {"none", "made", "undone"}]
  /\ demoted \in BOOLEAN
  /\ ignored \subseteq {"mark", "tags", "links"}

\* A conversion has been made, or its error ignored.
Tried(c) == converted[c] \/ c \in ignored

\* What the start has done by the time it is where it is: the columns are there once
\* it has come past them, whatever the mark; the mark stands for both conversions.
StartProgress ==
  /\ starting \notin {"down", "columns"} => columns = Columns
  /\ starting \in {"links", "setmark"} => Tried("tags")
  /\ starting = "setmark" => Tried("links")
  /\ "schema" \in marks \/ starting \in {"bootstrap", "rotate", "serving"} =>
       Tried("tags") /\ Tried("links")

\* Somebody has set what a one-shot migration once did.
ChosenSince == demoted \/ \E c \in Conversions : choice[c] # "none"

\* Requests are served, and choices made, only once the mark was written or its error
\* ignored; and past a mark that was written the migrations run only when it was not
\* read.
MarkKeepsOut ==
  /\ starting \in {"bootstrap", "rotate", "serving"} \/ ChosenSince =>
       "schema" \in marks \/ "mark" \in ignored
  /\ starting \in {"seed", "promote", "tags", "links", "setmark"} /\ "schema" \in marks =>
       "mark" \in ignored
  /\ demoted => adminRow.role # "none"

MigrationIInv == MigrationTypeOK /\ StartProgress /\ MarkKeepsOut /\ OneShot

\* A new database, or one of an earlier release: its mark stands for what it promises.
LEMMA MigrationStart == MigrationInit => MigrationIInv
<1> SUFFICES ASSUME MigrationInit PROVE MigrationIInv
    OBVIOUS
<1>1. MigrationTypeOK
  <2>1. adminRow \in [role : {"none", "user", "admin"}, rotate : BOOLEAN]
    <3>1. PICK r \in {"none", "user", "admin"} : adminRow = [role |-> r, rotate |-> FALSE]
          BY DEF MigrationInit
    <3> QED BY <3>1
  <2>2. marks \subseteq {"seed", "schema"} /\ columns \subseteq Columns BY DEF MigrationInit
  <2>3. converted \in [Conversions -> BOOLEAN] BY DEF MigrationInit
  <2> QED BY <2>1, <2>2, <2>3 DEF MigrationInit, MigrationTypeOK
<1>2. StartProgress BY DEF MigrationInit, StartProgress, Tried, Conversions
<1>3. MarkKeepsOut /\ OneShot
      BY DEF MigrationInit, MarkKeepsOut, ChosenSince, OneShot
<1> QED BY <1>1, <1>2, <1>3 DEF MigrationIInv

\* Every statement of the start, every interruption and every request keeps it.
LEMMA MigrationKeeps == MigrationIInv /\ [MigrationNext]_migrationVars => MigrationIInv'
<1> SUFFICES ASSUME MigrationIInv, [MigrationNext]_migrationVars PROVE MigrationIInv'
    OBVIOUS
<1> USE DEF MigrationIInv, MigrationTypeOK, StartProgress, Tried, ChosenSince, MarkKeepsOut, OneShot,
            Conversions, StartAt, StartGoes
<1>1. CASE Stop BY <1>1 DEF Stop
<1>2. CASE Start BY <1>2 DEF Start
<1>3. CASE applyAdditiveColumnPatches BY <1>3 DEF applyAdditiveColumnPatches
<1>4. CASE hasMigrationMark BY <1>4 DEF hasMigrationMark
<1>5. CASE SeedMark BY <1>5 DEF SeedMark
<1>6. CASE PromoteSeed BY <1>6 DEF PromoteSeed
<1>7. ASSUME NEW c \in Conversions, Convert(c) PROVE MigrationIInv'
  <2>1. /\ starting = c /\ starting' = IF c = "tags" THEN "links" ELSE "setmark"
        /\ UNCHANGED <<columns, marks, adminRow, demoted, starts>>
        BY <1>7 DEF Convert
  <2>2. CASE /\ converted' = [converted EXCEPT ![c] = TRUE]
             /\ choice' = [choice EXCEPT ![c] = IF @ = "made" THEN "undone" ELSE @]
             /\ UNCHANGED ignored
    <3>1. MigrationTypeOK' /\ StartProgress' BY <2>1, <2>2
    <3>2. MarkKeepsOut' /\ OneShot' BY <2>1, <2>2
    <3> QED BY <3>1, <3>2
  <2>3. CASE ignored' = ignored \cup {c} /\ UNCHANGED <<converted, choice>>
    <3>1. MigrationTypeOK' /\ StartProgress' BY <2>1, <2>3
    <3>2. MarkKeepsOut' /\ OneShot' BY <2>1, <2>3
    <3> QED BY <3>1, <3>2
  <2> QED BY <1>7, <2>2, <2>3 DEF Convert
<1>8. ASSUME NEW c \in Conversions, MakeChoice(c) PROVE MigrationIInv'
      BY <1>8 DEF MakeChoice
<1>9. CASE setMigrationMark
  <2>1. MigrationTypeOK' /\ StartProgress' BY <1>9 DEF setMigrationMark
  <2>2. MarkKeepsOut' BY <1>9 DEF setMigrationMark
  <2>3. OneShot' BY <1>9 DEF setMigrationMark
  <2> QED BY <2>1, <2>2, <2>3
<1>10. CASE bootstrapAdminUser
  <2>1. /\ starting' \in {"rotate", "serving"} /\ starting = "bootstrap"
        /\ adminRow' \in [role : {"none", "user", "admin"}, rotate : BOOLEAN]
        /\ UNCHANGED <<columns, marks, converted, choice, demoted, ignored>>
    <3>1. CASE adminRow.role = "none"
      <4>1. [role |-> "admin", rotate |-> FALSE] \in [role : {"none", "user", "admin"}, rotate : BOOLEAN]
            OBVIOUS
      <4>2. adminRow' = [role |-> "admin", rotate |-> FALSE] /\ starting' = "rotate"
            BY <1>10, <3>1 DEF bootstrapAdminUser
      <4> QED BY <1>10, <4>1, <4>2 DEF bootstrapAdminUser
    <3>2. CASE adminRow.role # "none" BY <1>10, <3>2 DEF bootstrapAdminUser
    <3> QED BY <3>1, <3>2
  <2>4. MigrationTypeOK' /\ StartProgress' BY <2>1
  <2>2. MarkKeepsOut' BY <1>10 DEF bootstrapAdminUser
  <2>3. OneShot' BY <1>10 DEF bootstrapAdminUser
  <2> QED BY <2>2, <2>3, <2>4
<1>11. CASE ForcePasswordChange BY <1>11 DEF ForcePasswordChange
<1>12. ASSUME NEW r \in {"admin", "user"}, SetRole(r) PROVE MigrationIInv'
       BY <1>12 DEF SetRole
<1>13. CASE UNCHANGED migrationVars BY <1>13 DEF migrationVars
<1> QED BY <1>1, <1>2, <1>3, <1>4, <1>5, <1>6, <1>7, <1>8, <1>9, <1>10, <1>11, <1>12, <1>13
        DEF MigrationNext

\* However often the start of the server is cut short or a statement fails, requests are
\* served on the full schema and no migration undoes what people have set since, but for
\* errors the code ignores; for any set of columns and any number of starts.
THEOREM MigrationIsSound == MigrationSpec => []MigrationSound
<1>1. MigrationIInv => MigrationSound
      BY DEF MigrationIInv, StartProgress, Tried, MigrationSound, SchemaReady, Conversions
<1> QED BY <1>1, MigrationStart, MigrationKeeps, PTL DEF MigrationSpec

-------------------------------------------------------------------------------
(* The audit forwarder.                                                      *)

FwdRecord == [loop : {"unmade", "select", "write", "tick", "send", "returned"}, config : FwdConfigs,
              queue : Nat, closes : Nat, conn : BOOLEAN]
PutRecord == [pc : {"idle", "save", "set", "close", "conn"}, config : FwdConfigs,
              old : Forwarders \cup {NoForwarder}, alone : BOOLEAN]

ForwarderTypeOK ==
  /\ fwdRow \in FwdConfigs \cup {"none"} /\ fwdEnv \in FwdConfigs
  /\ forwarder \in Forwarders \cup {NoForwarder}
  /\ fwd \in [Forwarders -> FwdRecord]
  /\ put \in [Puts -> PutRecord]
  /\ overlapped \in BOOLEAN /\ misread \in BOOLEAN
  /\ orphans \subseteq Forwarders /\ lateDial \subseteq Forwarders

Held(f) == \E p \in Puts : put[p].old = f

\* A forwarder is made once, is in use or with the PUT that replaced it until it is
\* told to stop, and dials after that only while that PUT has yet to see to its
\* connection, or late.
FwdOK(f) ==
  /\ fwd[f].loop = "unmade" => fwd[f] = Unmade
  /\ fwd[f].loop # "unmade" /\ fwd[f].closes = 0 =>
       f = forwarder \/ f \in orphans \/ \E p \in Puts : put[p].pc = "close" /\ put[p].old = f
  /\ f = forwarder => fwd[f].loop # "unmade" /\ fwd[f].closes = 0
  /\ fwd[f].closes <= 1
  /\ fwd[f].loop = "returned" => fwd[f].closes # 0
  /\ fwd[f].conn /\ fwd[f].closes # 0 => f \in lateDial \/ Held(f)

\* The PUTs that replaced a forwarder have different ones, and each is the one to stop it.
PutOK(p) ==
  /\ put[p].pc \in {"idle", "save", "set"} => put[p].old = NoForwarder
  /\ put[p].pc \in {"close", "conn"} => put[p].old \in Forwarders
  /\ put[p].pc = "close" => /\ fwd[put[p].old].loop # "unmade" /\ fwd[put[p].old].closes = 0
                            /\ put[p].old # forwarder
  /\ put[p].pc = "conn" => fwd[put[p].old].closes = 1
  /\ \A q \in Puts \ {p} : put[p].old # NoForwarder => put[q].old # put[p].old

\* A PUT nobody overlapped is the only one, and installs what it has saved.
AloneOK ==
  /\ \A p \in Puts : put[p].alone => \A q \in Puts \ {p} : put[q].pc = "idle"
  /\ \A p \in Puts : put[p].alone /\ put[p].pc = "set" => put[p].config = fwdRow
  /\ (\A p \in Puts : put[p].pc # "set") =>
       RunningConfig = Configured(fwdRow, fwdEnv) \/ overlapped \/ misread

ForwarderIInv ==
  /\ ForwarderTypeOK
  /\ \A f \in Forwarders : FwdOK(f)
  /\ \A p \in Puts : PutOK(p)
  /\ AloneOK

\* What a start makes: one forwarder, fresh, or none for a configuration that is off.
LEMMA MadeFacts ==
  ASSUME NEW f \in Forwarders, NEW config \in FwdConfigs
  PROVE  /\ Made(f, config) \in [Forwarders -> FwdRecord]
         /\ InUse(f, config) \in Forwarders \cup {NoForwarder}
         /\ InUse(f, config) \in Forwarders => InUse(f, config) = f /\ config # "off"
         /\ InUse(f, config) = NoForwarder => config = "off"
         /\ Fresh(config).loop = "select" /\ Fresh(config).closes = 0 /\ Fresh(config).conn = FALSE
         /\ Fresh(config).config = config
         /\ \A g \in Forwarders : Made(f, config)[g] =
              IF g = InUse(f, config) THEN Fresh(config) ELSE Unmade
         /\ IdlePut \in PutRecord /\ IdlePut.pc = "idle" /\ IdlePut.old = NoForwarder /\ IdlePut.alone = FALSE
<1>1. Unmade \in FwdRecord /\ IdlePut \in PutRecord
      BY DEF Unmade, IdlePut, FwdRecord, PutRecord, FwdConfigs
<1>2. IdlePut.pc = "idle" /\ IdlePut.old = NoForwarder /\ IdlePut.alone = FALSE BY DEF IdlePut
<1>3. Fresh(config) \in FwdRecord /\ Fresh(config).loop = "select" /\ Fresh(config).closes = 0
      /\ Fresh(config).conn = FALSE /\ Fresh(config).config = config
      BY DEF Fresh, Unmade, FwdRecord
<1>4. Made(f, config) \in [Forwarders -> FwdRecord] BY <1>1, <1>3 DEF Made
<1>5. \A g \in Forwarders : Made(f, config)[g] = IF g = InUse(f, config) THEN Fresh(config) ELSE Unmade
      BY NoForwarderIsNone DEF Made, InUse
<1>6. /\ InUse(f, config) \in Forwarders \cup {NoForwarder}
      /\ InUse(f, config) \in Forwarders => InUse(f, config) = f /\ config # "off"
      /\ InUse(f, config) = NoForwarder => config = "off"
      BY NoForwarderIsNone DEF InUse
<1> QED BY <1>1, <1>2, <1>3, <1>4, <1>5, <1>6

\* The first start runs what the environment configures; no PUT is in flight.
LEMMA ForwarderStart == ForwarderInit => ForwarderIInv
<1> SUFFICES ASSUME ForwarderInit PROVE ForwarderIInv
    OBVIOUS
<1>1. PICK f \in Forwarders : fwd = Made(f, fwdEnv) /\ forwarder = InUse(f, fwdEnv) BY DEF ForwarderInit
<1>2. /\ fwdEnv \in FwdConfigs /\ fwdRow = "none" /\ put = [p \in Puts |-> IdlePut]
      /\ overlapped = FALSE /\ misread = FALSE /\ orphans = {} /\ lateDial = {}
      BY DEF ForwarderInit
<1>3. /\ Made(f, fwdEnv) \in [Forwarders -> FwdRecord]
      /\ InUse(f, fwdEnv) \in Forwarders \cup {NoForwarder}
      /\ InUse(f, fwdEnv) \in Forwarders => InUse(f, fwdEnv) = f /\ fwdEnv # "off"
      /\ InUse(f, fwdEnv) = NoForwarder => fwdEnv = "off"
      /\ Fresh(fwdEnv).loop = "select" /\ Fresh(fwdEnv).closes = 0 /\ Fresh(fwdEnv).conn = FALSE
      /\ Fresh(fwdEnv).config = fwdEnv
      /\ \A g \in Forwarders : Made(f, fwdEnv)[g] = IF g = InUse(f, fwdEnv) THEN Fresh(fwdEnv) ELSE Unmade
      /\ IdlePut \in PutRecord /\ IdlePut.pc = "idle" /\ IdlePut.old = NoForwarder /\ IdlePut.alone = FALSE
      BY <1>2, MadeFacts
<1>4. ForwarderTypeOK BY <1>1, <1>2, <1>3 DEF ForwarderTypeOK
<1>5. ASSUME NEW g \in Forwarders PROVE FwdOK(g)
      BY <1>1, <1>3 DEF FwdOK, Unmade
<1>6. ASSUME NEW p \in Puts PROVE PutOK(p) BY <1>2, <1>3 DEF PutOK
<1>7. RunningConfig = fwdEnv BY <1>1, <1>3 DEF RunningConfig
<1>8. AloneOK BY <1>2, <1>3, <1>7 DEF AloneOK, Configured
<1> QED BY <1>4, <1>5, <1>6, <1>8 DEF ForwarderIInv

\* A step of a forwarder's goroutine or of a writer, which touches that forwarder only.
LEMMA LoopMoves ==
  ASSUME ForwarderIInv, NEW f \in Forwarders, NEW g \in FwdRecord,
         fwd' = [fwd EXCEPT ![f] = g],
         fwd[f].loop # "unmade", g.loop # "unmade",
         g.closes = fwd[f].closes, g.config = fwd[f].config,
         g.loop = "returned" => g.closes # 0,
         lateDial \subseteq lateDial', lateDial' \subseteq Forwarders,
         g.conn /\ g.closes # 0 => f \in lateDial' \/ Held(f),
         UNCHANGED <<fwdRow, fwdEnv, forwarder, put, overlapped, misread, orphans>>
  PROVE  ForwarderIInv'
<1>1. /\ fwd' \in [Forwarders -> FwdRecord] /\ fwd'[f] = g
      /\ \A h \in Forwarders \ {f} : fwd'[h] = fwd[h]
      BY DEF ForwarderIInv, ForwarderTypeOK
<1>2. ForwarderTypeOK' BY <1>1 DEF ForwarderIInv, ForwarderTypeOK
<1>3. ASSUME NEW h \in Forwarders PROVE FwdOK(h)'
  <2>1. CASE h = f BY <1>1, <2>1 DEF ForwarderIInv, FwdOK, Held
  <2>2. CASE h # f BY <1>1, <2>2 DEF ForwarderIInv, FwdOK, Held
  <2> QED BY <2>1, <2>2
<1>4. ASSUME NEW p \in Puts PROVE PutOK(p)'
      BY <1>1 DEF ForwarderIInv, PutOK
<1>5. RunningConfig' = RunningConfig BY <1>1 DEF RunningConfig, ForwarderIInv, ForwarderTypeOK
<1>6. AloneOK' BY <1>5 DEF ForwarderIInv, AloneOK
<1> QED BY <1>2, <1>3, <1>4, <1>6 DEF ForwarderIInv

\* sendJSONL, the loop, ensureConn and writeOne.
LEMMA GoroutineKeeps ==
  ASSUME ForwarderIInv, NEW f \in Forwarders,
         sendJSONL(f) \/ LoopSelects(f) \/ ensureConn(f) \/ writeOne(f)
  PROVE  ForwarderIInv'
<1>1. FwdOK(f) /\ fwd[f] \in FwdRecord /\ fwd \in [Forwarders -> FwdRecord]
      /\ \A p \in Puts : PutOK(p)
      BY DEF ForwarderIInv, ForwarderTypeOK
<1>2. lateDial \subseteq Forwarders BY DEF ForwarderIInv, ForwarderTypeOK
<1>3. fwd[f].loop # "unmade"
  <2>1. CASE sendJSONL(f)
    <3>1. CASE f = forwarder \/ fwd[f].closes > 0 BY <1>1, <3>1 DEF FwdOK, Unmade
    <3>2. ASSUME NEW p \in Puts, put[p].old = f PROVE fwd[f].loop # "unmade"
      <4>1. put[p].pc \in {"close", "conn"}
            BY <1>1, <3>2, NoForwarderIsNone DEF PutOK, ForwarderIInv, ForwarderTypeOK, PutRecord
      <4> QED BY <1>1, <3>2, <4>1 DEF PutOK, FwdOK, Unmade
    <3> QED BY <2>1, <3>1, <3>2 DEF sendJSONL
  <2>2. CASE LoopSelects(f) \/ ensureConn(f) \/ writeOne(f)
        BY <2>2 DEF LoopSelects, ensureConn, writeOne
  <2> QED BY <2>1, <2>2
<1>4. CASE sendJSONL(f)
  <2> DEFINE g == [fwd[f] EXCEPT !.queue = @ + 1]
  <2>1. g \in FwdRecord /\ g.loop = fwd[f].loop /\ g.closes = fwd[f].closes
        /\ g.config = fwd[f].config /\ g.conn = fwd[f].conn
        BY <1>1 DEF FwdRecord
  <2>2. fwd' = [fwd EXCEPT ![f] = g] BY <1>4 DEF sendJSONL
  <2> HIDE DEF g
  <2>3. g.loop = "returned" => g.closes # 0 BY <1>1, <2>1 DEF FwdOK
  <2>4. g.conn /\ g.closes # 0 => f \in lateDial \/ Held(f) BY <1>1, <2>1 DEF FwdOK
  <2> QED BY <1>2, <1>3, <1>4, <2>1, <2>2, <2>3, <2>4, LoopMoves DEF sendJSONL
<1>5. CASE LoopSelects(f)
  <2>1. ASSUME NEW g \in FwdRecord, fwd' = [fwd EXCEPT ![f] = g], g.loop # "unmade",
               g.closes = fwd[f].closes, g.config = fwd[f].config, g.conn = fwd[f].conn,
               g.loop = "returned" => g.closes # 0
        PROVE  ForwarderIInv'
    <3>1. g.conn /\ g.closes # 0 => f \in lateDial \/ Held(f) BY <1>1, <2>1 DEF FwdOK
    <3> QED BY <1>2, <1>3, <1>5, <2>1, <3>1, LoopMoves DEF LoopSelects
  <2>2. CASE fwd[f].queue > 0 /\ fwd' = [fwd EXCEPT ![f].queue = @ - 1, ![f].loop = "write"]
    <3> DEFINE n == fwd[f].queue - 1
               g == [fwd[f] EXCEPT !.queue = n, !.loop = "write"]
    <3>0. n \in Nat BY <1>1, <2>2 DEF FwdRecord
    <3>1. g \in FwdRecord /\ g.loop = "write" /\ g.closes = fwd[f].closes
          /\ g.config = fwd[f].config /\ g.conn = fwd[f].conn
          BY ONLY <1>1, <3>0 DEF FwdRecord
    <3>2. fwd' = [fwd EXCEPT ![f] = g] BY <1>1, <2>2
    <3> HIDE DEF g
    <3> QED BY <2>1, <3>1, <3>2
  <2>3. CASE fwd' = [fwd EXCEPT ![f].loop = "tick"]
    <3> DEFINE g == [fwd[f] EXCEPT !.loop = "tick"]
    <3>1. g \in FwdRecord /\ g.loop = "tick" /\ g.closes = fwd[f].closes
          /\ g.config = fwd[f].config /\ g.conn = fwd[f].conn
          BY <1>1 DEF FwdRecord
    <3>2. fwd' = [fwd EXCEPT ![f] = g] BY <1>1, <2>3
    <3> HIDE DEF g
    <3> QED BY <2>1, <3>1, <3>2
  <2>4. CASE fwd[f].closes > 0 /\ fwd' = [fwd EXCEPT ![f].loop = "returned", ![f].queue = 0]
    <3> DEFINE g == [fwd[f] EXCEPT !.loop = "returned", !.queue = 0]
    <3>1. g \in FwdRecord /\ g.loop = "returned" /\ g.closes = fwd[f].closes
          /\ g.config = fwd[f].config /\ g.conn = fwd[f].conn
          BY <1>1 DEF FwdRecord
    <3>2. fwd' = [fwd EXCEPT ![f] = g] BY <1>1, <2>4
    <3>3. fwd[f].closes # 0 BY <1>1, <2>4 DEF FwdRecord
    <3> HIDE DEF g
    <3> QED BY <2>1, <3>1, <3>2, <3>3
  <2> QED BY <1>5, <2>2, <2>3, <2>4 DEF LoopSelects
<1>6. CASE ensureConn(f)
  <2> DEFINE then == IF fwd[f].loop = "tick" THEN "select" ELSE "send"
  <2>1. CASE /\ fwd' = [fwd EXCEPT ![f].conn = TRUE, ![f].loop = then]
             /\ lateDial' = lateDial \cup
                  (IF fwd[f].closes > 0 /\ \A p \in Puts : put[p].old # f THEN {f} ELSE {})
    <3> DEFINE g == [fwd[f] EXCEPT !.conn = TRUE, !.loop = then]
    <3>1. g \in FwdRecord /\ g.loop \in {"select", "send"} /\ g.closes = fwd[f].closes
          /\ g.config = fwd[f].config
          BY <1>1 DEF FwdRecord
    <3>2. fwd' = [fwd EXCEPT ![f] = g] BY <1>1, <2>1
    <3>3. fwd[f].closes # 0 => f \in lateDial' \/ Held(f) BY <1>1, <2>1 DEF FwdRecord, Held
    <3> HIDE DEF g
    <3> QED BY <1>2, <1>3, <1>6, <2>1, <3>1, <3>2, <3>3, LoopMoves DEF ensureConn
  <2>2. CASE ~fwd[f].conn /\ fwd' = [fwd EXCEPT ![f].loop = "select"] /\ UNCHANGED lateDial
    <3> DEFINE g == [fwd[f] EXCEPT !.loop = "select"]
    <3>1. g \in FwdRecord /\ g.loop = "select" /\ g.closes = fwd[f].closes
          /\ g.config = fwd[f].config /\ ~g.conn
          BY <1>1, <2>2 DEF FwdRecord
    <3>2. fwd' = [fwd EXCEPT ![f] = g] BY <1>1, <2>2
    <3> HIDE DEF g
    <3> QED BY <1>2, <1>3, <1>6, <2>2, <3>1, <3>2, LoopMoves DEF ensureConn
  <2> QED BY <1>6, <2>1, <2>2 DEF ensureConn
<1>7. CASE writeOne(f)
  <2>1. PICK c \in {FALSE, fwd[f].conn} : fwd' = [fwd EXCEPT ![f] = [@ EXCEPT !.loop = "select", !.conn = c]]
        BY <1>7 DEF writeOne
  <2> DEFINE g == [fwd[f] EXCEPT !.loop = "select", !.conn = c]
  <2>2. g \in FwdRecord /\ g.loop = "select" /\ g.closes = fwd[f].closes
        /\ g.config = fwd[f].config /\ (g.conn => fwd[f].conn)
        BY <1>1 DEF FwdRecord
  <2>3. fwd' = [fwd EXCEPT ![f] = g] BY <2>1
  <2> HIDE DEF g
  <2>4. g.conn /\ g.closes # 0 => f \in lateDial \/ Held(f) BY <1>1, <2>2 DEF FwdOK
  <2> QED BY <1>2, <1>3, <1>7, <2>2, <2>3, <2>4, LoopMoves DEF writeOne
<1> QED BY <1>4, <1>5, <1>6, <1>7

\* The head of handlePutAuditForwarderSettings: a PUT that begins ends the solitude of
\* the others.
LEMMA BeginPutKeeps ==
  ASSUME ForwarderIInv, NEW p \in Puts, NEW config \in FwdConfigs, BeginPut(p, config)
  PROVE  ForwarderIInv'
<1> DEFINE mine == [IdlePut EXCEPT !.pc = "save", !.config = config, !.alone = (InFlight = {})]
<1>1. /\ mine \in PutRecord /\ mine.pc = "save" /\ mine.old = NoForwarder /\ mine.config = config
      /\ mine.alone => InFlight = {}
      BY DEF IdlePut, PutRecord
<1>2. /\ put' = [q \in Puts |-> IF q = p THEN mine ELSE [put[q] EXCEPT !.alone = FALSE]]
      /\ put[p] = IdlePut /\ UNCHANGED <<fwdRow, fwdEnv, forwarder, fwd, overlapped, misread, orphans, lateDial>>
      BY DEF BeginPut
<1> HIDE DEF mine
<1>3. \A q \in Puts \ {p} : /\ put'[q] \in PutRecord /\ put'[q].pc = put[q].pc
                            /\ put'[q].old = put[q].old /\ put'[q].alone = FALSE
                            /\ put'[q].config = put[q].config
      BY <1>2 DEF ForwarderIInv, ForwarderTypeOK, PutRecord
<1>4. put'[p] = mine BY <1>2
<1>5. \A q \in Puts : put'[q].old = put[q].old BY <1>1, <1>2, <1>3, <1>4 DEF IdlePut
<1>6. \A q \in Puts : (put'[q].pc = "close" <=> put[q].pc = "close")
                      /\ (put'[q].pc = "set" <=> put[q].pc = "set")
      BY <1>1, <1>2, <1>3, <1>4 DEF IdlePut
<1>7. put' \in [Puts -> PutRecord] BY <1>1, <1>2, <1>3
<1>8. ForwarderTypeOK' BY <1>2, <1>7 DEF ForwarderIInv, ForwarderTypeOK
<1>9. ASSUME NEW f \in Forwarders PROVE FwdOK(f)'
      BY <1>2, <1>5, <1>6 DEF ForwarderIInv, FwdOK, Held
<1>10. ASSUME NEW q \in Puts PROVE PutOK(q)'
  <2>1. CASE q = p BY <1>1, <1>2, <1>4, <2>1 DEF PutOK
  <2>2. CASE q # p BY <1>2, <1>3, <1>5, <2>2 DEF ForwarderIInv, PutOK
  <2> QED BY <2>1, <2>2
<1>11. AloneOK'
  <2>1. \A q \in Puts : put'[q].alone => q = p /\ InFlight = {} BY <1>1, <1>3, <1>4
  <2>2. RunningConfig' = RunningConfig BY <1>2 DEF RunningConfig
  <2> QED BY <1>1, <1>2, <1>3, <1>4, <1>6, <2>1, <2>2 DEF ForwarderIInv, AloneOK, InFlight
<1> QED BY <1>8, <1>9, <1>10, <1>11 DEF ForwarderIInv

\* Every other step of a PUT: what it may do to its own record, the others staying.
LEMMA PutMoves ==
  ASSUME ForwarderIInv, NEW p \in Puts, NEW r \in PutRecord,
         put' = [put EXCEPT ![p] = r]
  PROVE  /\ put' \in [Puts -> PutRecord] /\ put'[p] = r
         /\ \A q \in Puts \ {p} : put'[q] = put[q]
BY DEF ForwarderIInv, ForwarderTypeOK

\* saveAuditForwarderConfigToDB: the row is written, or the PUT ends.
LEMMA SavePutKeeps ==
  ASSUME ForwarderIInv, NEW p \in Puts, saveAuditForwarderConfigToDB(p) PROVE ForwarderIInv'
<1>1. put[p] \in PutRecord /\ put[p].pc = "save" /\ put[p].old = NoForwarder
      BY DEF ForwarderIInv, ForwarderTypeOK, PutOK, saveAuditForwarderConfigToDB
<1>2. UNCHANGED <<fwdEnv, forwarder, fwd, overlapped, misread, orphans, lateDial>> BY DEF saveAuditForwarderConfigToDB
<1>3. ASSUME NEW r \in PutRecord, put' = [put EXCEPT ![p] = r], r.pc \in {"set", "idle"},
             r.old = NoForwarder, r.alone => put[p].alone /\ r.pc = "set",
             \/ r.pc = "set" /\ fwdRow' = r.config
             \/ r.pc = "idle" /\ fwdRow' = fwdRow,
             fwdRow' \in FwdConfigs \cup {"none"}
      PROVE  ForwarderIInv'
  <2>1. /\ put' \in [Puts -> PutRecord] /\ put'[p] = r
        /\ \A q \in Puts \ {p} : put'[q] = put[q]
        BY <1>3, PutMoves
  <2>2. ForwarderTypeOK' BY <1>2, <1>3, <2>1 DEF ForwarderIInv, ForwarderTypeOK
  <2>3. \A q \in Puts : put'[q].old = put[q].old /\ (put'[q].pc = "close" <=> put[q].pc = "close")
        BY <1>1, <1>3, <2>1
  <2>4. ASSUME NEW f \in Forwarders PROVE FwdOK(f)'
        BY <1>2, <2>3 DEF ForwarderIInv, FwdOK, Held
  <2>5. ASSUME NEW q \in Puts PROVE PutOK(q)'
    <3>1. CASE q = p BY <1>3, <2>1, <3>1 DEF PutOK
    <3>2. CASE q # p BY <1>2, <2>1, <2>3, <3>2 DEF ForwarderIInv, PutOK
    <3> QED BY <3>1, <3>2
  <2>6. RunningConfig' = RunningConfig BY <1>2 DEF RunningConfig
  <2>7. AloneOK'
    <3>1. \A q \in Puts : put'[q].alone => put[q].alone /\ (q # p => put[p].pc = "idle")
          BY <1>3, <2>1 DEF ForwarderIInv, AloneOK
    <3>2. \A q \in Puts : put'[q].alone => q = p /\ r.pc = "set" BY <1>1, <1>3, <2>1, <3>1
    <3>3. \A q \in Puts : put'[q].alone => \A o \in Puts \ {q} : put'[o].pc = "idle"
          BY <2>1, <3>1, <3>2 DEF ForwarderIInv, AloneOK
    <3>4. \A q \in Puts : put'[q].alone /\ put'[q].pc = "set" => put'[q].config = fwdRow'
          BY <1>3, <2>1, <3>2
    <3>5. (\A q \in Puts : put'[q].pc # "set") =>
            RunningConfig' = Configured(fwdRow, fwdEnv)' \/ overlapped' \/ misread'
          BY <1>1, <1>2, <1>3, <2>1, <2>6 DEF ForwarderIInv, AloneOK
    <3> QED BY <3>3, <3>4, <3>5 DEF AloneOK
  <2> QED BY <2>2, <2>4, <2>5, <2>7 DEF ForwarderIInv
<1>4. CASE fwdRow' = put[p].config /\ put' = [put EXCEPT ![p].pc = "set"]
  <2> DEFINE r == [put[p] EXCEPT !.pc = "set"]
  <2>1. r \in PutRecord /\ r.pc = "set" /\ r.old = put[p].old /\ r.config = put[p].config
        /\ r.alone = put[p].alone
        BY <1>1 DEF PutRecord
  <2>2. put' = [put EXCEPT ![p] = r] BY <1>4
  <2>3. put[p].config \in FwdConfigs BY <1>1 DEF PutRecord
  <2> HIDE DEF r
  <2> QED BY <1>1, <1>3, <1>4, <2>1, <2>2, <2>3
<1>5. CASE UNCHANGED fwdRow /\ put' = [put EXCEPT ![p] = IdlePut]
  <2>1. IdlePut \in PutRecord /\ IdlePut.pc = "idle" /\ IdlePut.old = NoForwarder /\ ~IdlePut.alone
        BY DEF IdlePut, PutRecord, FwdConfigs
  <2>2. fwdRow \in FwdConfigs \cup {"none"} BY DEF ForwarderIInv, ForwarderTypeOK
  <2> QED BY <1>3, <1>5, <2>1, <2>2
<1> QED BY <1>4, <1>5 DEF saveAuditForwarderConfigToDB

\* setAuditForwarder: the swap hands the forwarder in use to the PUT that replaces it.
LEMMA SwapKeeps ==
  ASSUME ForwarderIInv, NEW p \in Puts, setAuditForwarder(p) PROVE ForwarderIInv'
<1>1. /\ put[p] \in PutRecord /\ put[p].pc = "set" /\ put[p].old = NoForwarder
      /\ fwd \in [Forwarders -> FwdRecord] /\ put[p].config \in FwdConfigs
      /\ forwarder \in Forwarders \cup {NoForwarder}
      BY DEF ForwarderIInv, ForwarderTypeOK, PutOK, PutRecord, setAuditForwarder
<1>2. overlapped' = ~put[p].alone /\ misread' = FALSE /\ UNCHANGED <<fwdRow, fwdEnv, orphans, lateDial>> BY DEF setAuditForwarder
<1>3. PICK f \in NewForwarders(put[p].config) : fwd' = WithNew(f, put[p].config) /\ forwarder' = f
      BY DEF setAuditForwarder
<1> DEFINE config == put[p].config
           new == Fresh(config)
<1>4. new \in FwdRecord /\ new.loop = "select" /\ new.closes = 0 /\ ~new.conn /\ new.config = config
      BY <1>1 DEF Fresh, Unmade, FwdRecord
<1>5. /\ f = NoForwarder => config = "off"
      /\ f # NoForwarder => f \in Forwarders /\ fwd[f] = Unmade
      /\ f \in Forwarders => f # NoForwarder
      BY NoForwarderIsNone DEF NewForwarders
<1>6. \A g \in Forwarders : fwd'[g] = IF g = f THEN new ELSE fwd[g] BY <1>3 DEF WithNew
<1>7. fwd' \in [Forwarders -> FwdRecord] BY <1>1, <1>3, <1>4 DEF WithNew
<1> DEFINE r == IF forwarder = NoForwarder THEN IdlePut
                ELSE [IdlePut EXCEPT !.pc = "close", !.old = forwarder]
<1>8. /\ r \in PutRecord /\ r.old = forwarder
      /\ r.pc = IF forwarder = NoForwarder THEN "idle" ELSE "close"
      /\ r.alone => put[p].alone
      BY <1>1 DEF IdlePut, PutRecord, FwdConfigs
<1>9. put' = [put EXCEPT ![p] = r] BY DEF setAuditForwarder
<1> HIDE DEF r, new
<1>10. /\ put' \in [Puts -> PutRecord] /\ put'[p] = r
       /\ \A q \in Puts \ {p} : put'[q] = put[q]
       BY <1>8, <1>9, PutMoves
<1>11. ForwarderTypeOK'
       BY <1>1, <1>2, <1>3, <1>5, <1>7, <1>10 DEF ForwarderIInv, ForwarderTypeOK, PutRecord
<1>12. \A q \in Puts : put[q].old \in Forwarders => fwd[put[q].old] # Unmade
  <2> SUFFICES ASSUME NEW q \in Puts, put[q].old \in Forwarders PROVE fwd[put[q].old] # Unmade
      OBVIOUS
  <2>1. put[q].pc \in {"close", "conn"}
        BY NoForwarderIsNone DEF ForwarderIInv, ForwarderTypeOK, PutOK, PutRecord
  <2> QED BY <2>1 DEF ForwarderIInv, PutOK, Unmade
<1>13. forwarder \in Forwarders => /\ fwd[forwarder].loop # "unmade" /\ fwd[forwarder].closes = 0
                                   /\ fwd[forwarder] # Unmade
       BY DEF ForwarderIInv, FwdOK, Unmade
<1>14. ASSUME NEW g \in Forwarders PROVE FwdOK(g)'
  <2>1. CASE g = f BY <1>3, <1>4, <1>6, <2>1 DEF FwdOK
  <2>2. CASE g # f
    <3>1. fwd'[g] = fwd[g] /\ FwdOK(g) BY <1>6, <2>2 DEF ForwarderIInv
    <3>2. Held(g) => Held(g)' BY <1>1, <1>10, NoForwarderIsNone DEF Held
    <3>3. ASSUME fwd[g].loop # "unmade", fwd[g].closes = 0
          PROVE  g \in orphans \/ \E q \in Puts : put'[q].pc = "close" /\ put'[q].old = g
      <4>3. CASE g \in orphans BY <4>3
      <4>1. CASE g = forwarder BY <1>8, <1>10, <4>1, NoForwarderIsNone
      <4>2. CASE g # forwarder /\ g \notin orphans
        <5>1. PICK q \in Puts : put[q].pc = "close" /\ put[q].old = g BY <3>1, <3>3, <4>2 DEF FwdOK
        <5> QED BY <1>1, <1>10, <5>1
      <4> QED BY <4>1, <4>2, <4>3
    <3> QED BY <1>2, <1>3, <2>2, <3>1, <3>2, <3>3 DEF FwdOK
  <2> QED BY <2>1, <2>2
<1>15. ASSUME NEW q \in Puts PROVE PutOK(q)'
  <2>1. CASE q = p
    <3>1. \A o \in Puts \ {p} : forwarder # NoForwarder => put[o].old # forwarder
      <4> SUFFICES ASSUME NEW o \in Puts \ {p}, forwarder # NoForwarder, put[o].old = forwarder
                   PROVE  FALSE
          OBVIOUS
      <4>1. forwarder \in Forwarders /\ PutOK(o) /\ put[o] \in PutRecord
            BY <1>1 DEF ForwarderIInv, ForwarderTypeOK
      <4>2. put[o].pc \in {"close", "conn"} BY <4>1, NoForwarderIsNone DEF PutOK, PutRecord
      <4> QED BY <1>13, <4>1, <4>2 DEF PutOK
    <3>2. forwarder # NoForwarder => forwarder \in Forwarders /\ forwarder # f
          BY <1>1, <1>5, <1>13
    <3>3. forwarder # NoForwarder => fwd'[forwarder] = fwd[forwarder] BY <1>6, <3>2
    <3> QED BY <1>3, <1>8, <1>10, <1>13, <2>1, <3>1, <3>2, <3>3 DEF PutOK
  <2>2. CASE q # p
    <3>1. put'[q] = put[q] /\ PutOK(q) /\ put[q] \in PutRecord
          BY <1>10, <2>2 DEF ForwarderIInv, ForwarderTypeOK
    <3>2. put[q].old \in Forwarders => put[q].old # f /\ fwd'[put[q].old] = fwd[put[q].old]
          BY <1>5, <1>6, <1>12
    <3>3. put[q].old # NoForwarder => put[q].old # forwarder
      <4> SUFFICES ASSUME put[q].old # NoForwarder, put[q].old = forwarder PROVE FALSE
          OBVIOUS
      <4>1. put[q].pc \in {"close", "conn"} BY <3>1 DEF PutOK, PutRecord
      <4> QED BY <1>13, <3>1, <4>1 DEF PutOK
    <3>4. \A o \in Puts \ {q} : put[q].old # NoForwarder => put'[o].old # put[q].old
          BY <1>8, <1>10, <3>1, <3>3 DEF PutOK
    <3> QED BY <1>3, <3>1, <3>2, <3>4 DEF PutOK
  <2> QED BY <2>1, <2>2
<1>16. AloneOK'
  <2>1. RunningConfig' = config BY <1>3, <1>4, <1>5, <1>6 DEF RunningConfig
  <2>2. put[p].alone => config = Configured(fwdRow, fwdEnv)
        BY <1>1 DEF ForwarderIInv, AloneOK, Configured, FwdConfigs
  <2>3. \A q \in Puts : put'[q].alone => put[q].alone /\ q = p
        BY <1>1, <1>8, <1>10 DEF ForwarderIInv, AloneOK
  <2>4. \A q \in Puts : put'[q].alone => \A o \in Puts \ {q} : put'[o].pc = "idle"
        BY <1>10, <2>3 DEF ForwarderIInv, AloneOK
  <2>5. \A q \in Puts : put'[q].alone => put'[q].pc # "set" BY <1>8, <1>10, <2>3
  <2>6. Configured(fwdRow, fwdEnv)' = Configured(fwdRow, fwdEnv) BY <1>2 DEF Configured
  <2>7. RunningConfig' = Configured(fwdRow, fwdEnv)' \/ overlapped' BY <1>2, <2>1, <2>2, <2>6
  <2> QED BY <2>4, <2>5, <2>7 DEF AloneOK
<1> QED BY <1>11, <1>14, <1>15, <1>16 DEF ForwarderIInv

\* close of the done channel: this PUT alone holds the forwarder, so it is the first.
LEMMA CloseForwarderKeeps ==
  ASSUME ForwarderIInv, NEW p \in Puts, CloseForwarder(p) PROVE ForwarderIInv'
<1> DEFINE f == put[p].old
           r == [put[p] EXCEPT !.pc = "conn"]
           g == [fwd[f] EXCEPT !.closes = @ + 1]
<1>1. put[p].pc = "close" /\ put[p] \in PutRecord /\ PutOK(p)
      /\ UNCHANGED <<fwdRow, fwdEnv, forwarder, overlapped, misread, orphans, lateDial>>
      BY DEF ForwarderIInv, ForwarderTypeOK, CloseForwarder
<1>2. f \in Forwarders /\ f # forwarder /\ fwd[f].loop # "unmade" /\ fwd[f].closes = 0
      /\ fwd[f] \in FwdRecord
      BY <1>1 DEF PutOK, ForwarderIInv, ForwarderTypeOK
<1>3. /\ r \in PutRecord /\ r.pc = "conn" /\ r.old = f /\ r.alone = put[p].alone
      /\ put' = [put EXCEPT ![p] = r]
      BY <1>1 DEF PutRecord, CloseForwarder
<1>4. /\ put' \in [Puts -> PutRecord] /\ put'[p] = r
      /\ \A q \in Puts \ {p} : put'[q] = put[q]
      BY <1>3, PutMoves
<1>5. /\ g \in FwdRecord /\ g.closes = 1 /\ g.loop = fwd[f].loop /\ g.conn = fwd[f].conn
      /\ g.config = fwd[f].config
      BY <1>2 DEF FwdRecord
<1>6. /\ fwd' \in [Forwarders -> FwdRecord] /\ fwd'[f] = g
      /\ \A h \in Forwarders \ {f} : fwd'[h] = fwd[h]
      BY <1>2, <1>5 DEF CloseForwarder, ForwarderIInv, ForwarderTypeOK
<1> HIDE DEF f, r, g
<1>7. ForwarderTypeOK' BY <1>1, <1>4, <1>6 DEF ForwarderIInv, ForwarderTypeOK
<1>8. ASSUME NEW h \in Forwarders PROVE FwdOK(h)'
  <2>1. CASE h = f BY <1>1, <1>2, <1>3, <1>4, <1>5, <1>6, <2>1 DEF FwdOK, Held
  <2>2. CASE h # f
    <3>1. fwd'[h] = fwd[h] /\ FwdOK(h) BY <1>6, <2>2 DEF ForwarderIInv
    <3>2. \A q \in Puts : put[q].old = h => put'[q] = put[q] BY <1>4, <2>2 DEF f
    <3> QED BY <1>1, <3>1, <3>2 DEF FwdOK, Held
  <2> QED BY <2>1, <2>2
<1>9. ASSUME NEW q \in Puts PROVE PutOK(q)'
  <2>1. \A o \in Puts : put'[o].old = put[o].old BY <1>3, <1>4 DEF f
  <2>2. CASE q = p BY <1>1, <1>2, <1>3, <1>4, <1>5, <1>6, <2>1, <2>2 DEF PutOK, f
  <2>3. CASE q # p
    <3>1. put'[q] = put[q] /\ PutOK(q) BY <1>4, <2>3 DEF ForwarderIInv
    <3>2. put[q].old # f BY <1>1, <1>2, <2>3, NoForwarderIsNone DEF PutOK, f
    <3> QED BY <1>1, <1>6, <2>1, <3>1, <3>2 DEF PutOK
  <2> QED BY <2>2, <2>3
<1>10. AloneOK'
  <2>1. RunningConfig' = RunningConfig
        BY <1>1, <1>2, <1>6 DEF RunningConfig, ForwarderIInv, ForwarderTypeOK
  <2> QED BY <1>1, <1>3, <1>4, <2>1 DEF ForwarderIInv, AloneOK
<1> QED BY <1>7, <1>8, <1>9, <1>10 DEF ForwarderIInv

\* The rest of close: the connection goes, and with it the PUT's hold on the forwarder.
LEMMA CloseConnKeeps ==
  ASSUME ForwarderIInv, NEW p \in Puts, CloseConn(p) PROVE ForwarderIInv'
<1> DEFINE f == put[p].old
           g == [fwd[f] EXCEPT !.conn = FALSE]
<1>1. put[p].pc = "conn" /\ put[p] \in PutRecord /\ PutOK(p)
      /\ UNCHANGED <<fwdRow, fwdEnv, forwarder, overlapped, misread, orphans, lateDial>>
      BY DEF ForwarderIInv, ForwarderTypeOK, CloseConn
<1>2. f \in Forwarders /\ fwd[f].closes = 1 /\ fwd[f] \in FwdRecord
      BY <1>1 DEF PutOK, ForwarderIInv, ForwarderTypeOK
<1>3. /\ IdlePut \in PutRecord /\ IdlePut.pc = "idle" /\ IdlePut.old = NoForwarder /\ ~IdlePut.alone
      /\ put' = [put EXCEPT ![p] = IdlePut]
      BY DEF IdlePut, PutRecord, FwdConfigs, CloseConn
<1>4. /\ put' \in [Puts -> PutRecord] /\ put'[p] = IdlePut
      /\ \A q \in Puts \ {p} : put'[q] = put[q]
      BY <1>3, PutMoves
<1>5. /\ g \in FwdRecord /\ g.closes = fwd[f].closes /\ g.loop = fwd[f].loop /\ ~g.conn
      /\ g.config = fwd[f].config
      BY <1>2 DEF FwdRecord
<1>6. /\ fwd' \in [Forwarders -> FwdRecord] /\ fwd'[f] = g
      /\ \A h \in Forwarders \ {f} : fwd'[h] = fwd[h]
      BY <1>2, <1>5 DEF CloseConn, ForwarderIInv, ForwarderTypeOK
<1>7. f # forwarder /\ fwd[f].loop # "unmade"
      BY <1>2 DEF ForwarderIInv, FwdOK, Unmade
<1> HIDE DEF f, g
<1>8. ForwarderTypeOK' BY <1>1, <1>4, <1>6 DEF ForwarderIInv, ForwarderTypeOK
<1>9. ASSUME NEW h \in Forwarders PROVE FwdOK(h)'
  <2>1. CASE h = f BY <1>1, <1>2, <1>5, <1>6, <1>7, <2>1 DEF FwdOK, ForwarderIInv
  <2>2. CASE h # f
    <3>1. fwd'[h] = fwd[h] /\ FwdOK(h) BY <1>6, <2>2 DEF ForwarderIInv
    <3>2. \A q \in Puts : put[q].old = h => put'[q] = put[q] BY <1>4, <2>2 DEF f
    <3> QED BY <1>1, <3>1, <3>2 DEF FwdOK, Held
  <2> QED BY <2>1, <2>2
<1>10. ASSUME NEW q \in Puts PROVE PutOK(q)'
  <2>1. CASE q = p BY <1>3, <1>4, <2>1 DEF PutOK
  <2>2. CASE q # p
    <3>1. put'[q] = put[q] /\ PutOK(q) BY <1>4, <2>2 DEF ForwarderIInv
    <3>2. put[q].old # f BY <1>1, <1>2, <2>2, NoForwarderIsNone DEF PutOK, f
    <3> QED BY <1>1, <1>3, <1>4, <1>6, <3>1, <3>2 DEF PutOK
  <2> QED BY <2>1, <2>2
<1>11. AloneOK'
  <2>1. RunningConfig' = RunningConfig
        BY <1>1, <1>6, <1>7 DEF RunningConfig, ForwarderIInv, ForwarderTypeOK
  <2> QED BY <1>1, <1>3, <1>4, <2>1 DEF ForwarderIInv, AloneOK
<1> QED BY <1>8, <1>9, <1>10, <1>11 DEF ForwarderIInv

\* A start: with the sink, whose forwarder is in use, or without it, whose forwarder is an orphan.
LEMMA StartKeeps ==
  ASSUME ForwarderIInv, NEW f \in Forwarders, NEW config \in FwdConfigs, StartSink(f, config),
         forwarder' \in {InUse(f, config), NoForwarder},
         InUse(f, config) \in Forwarders => forwarder' = InUse(f, config) \/ orphans' = {f},
         orphans' \subseteq Forwarders, misread' \in BOOLEAN,
         misread' = FALSE => forwarder' = InUse(f, config) /\ config = Configured(fwdRow, fwdEnv)
  PROVE  ForwarderIInv'
<1>1. /\ fwd' = Made(f, config) /\ put' = [p \in Puts |-> IdlePut] /\ overlapped' = FALSE /\ lateDial' = {}
      /\ fwdRow' = fwdRow /\ fwdEnv' = fwdEnv
      /\ fwdRow \in FwdConfigs \cup {"none"} /\ fwdEnv \in FwdConfigs
      BY DEF StartSink, ForwarderIInv, ForwarderTypeOK
<1>2. /\ Made(f, config) \in [Forwarders -> FwdRecord]
      /\ InUse(f, config) \in Forwarders \cup {NoForwarder}
      /\ InUse(f, config) \in Forwarders => InUse(f, config) = f /\ config # "off"
      /\ InUse(f, config) = NoForwarder => config = "off"
      /\ Fresh(config).loop = "select" /\ Fresh(config).closes = 0 /\ Fresh(config).conn = FALSE
      /\ Fresh(config).config = config
      /\ \A g \in Forwarders : Made(f, config)[g] = IF g = InUse(f, config) THEN Fresh(config) ELSE Unmade
      /\ IdlePut \in PutRecord /\ IdlePut.pc = "idle" /\ IdlePut.old = NoForwarder /\ IdlePut.alone = FALSE
      BY MadeFacts
<1>3. ForwarderTypeOK' BY <1>1, <1>2 DEF ForwarderTypeOK
<1>4. ASSUME NEW g \in Forwarders PROVE FwdOK(g)'
  <2>1. CASE g = InUse(f, config) BY <1>1, <1>2, <2>1 DEF FwdOK
  <2>2. CASE g # InUse(f, config)
    <3>1. fwd'[g] = Unmade /\ g # forwarder' BY <1>1, <1>2, <2>2, NoForwarderIsNone
    <3> QED BY <3>1 DEF FwdOK, Unmade
  <2> QED BY <2>1, <2>2
<1>5. ASSUME NEW p \in Puts PROVE PutOK(p)' BY <1>1, <1>2 DEF PutOK
<1>6. forwarder' = InUse(f, config) => RunningConfig' = config BY <1>1, <1>2 DEF RunningConfig
<1>7. AloneOK' BY <1>1, <1>2, <1>6 DEF AloneOK, Configured
<1> QED BY <1>3, <1>4, <1>5, <1>7 DEF ForwarderIInv

\* The next process loads the row, cannot read it, or has no file to write to.
LEMMA RestartSinkKeeps ==
  ASSUME ForwarderIInv, NEW f \in Forwarders, RestartSink(f) \/ RestartUnread(f) \/ RestartFileless(f)
  PROVE  ForwarderIInv'
<1>1. fwdEnv \in FwdConfigs /\ Configured(fwdRow, fwdEnv) \in FwdConfigs
      BY DEF ForwarderIInv, ForwarderTypeOK, Configured
<1>2. CASE RestartSink(f)
  <2>1. PICK config \in FwdConfigs : config = Configured(fwdRow, fwdEnv) BY <1>1
  <2>2. StartSink(f, config) /\ forwarder' = InUse(f, config) /\ misread' = FALSE /\ orphans' = {}
        BY <1>2, <2>1 DEF RestartSink
  <2> QED BY <2>1, <2>2, StartKeeps
<1>3. CASE RestartUnread(f)
  <2>1. StartSink(f, fwdEnv) /\ forwarder' = InUse(f, fwdEnv) /\ misread' = TRUE /\ orphans' = {}
        BY <1>3 DEF RestartUnread
  <2> QED BY <1>1, <2>1, StartKeeps
<1>4. CASE RestartFileless(f)
  <2>1. PICK config \in {Configured(fwdRow, fwdEnv), fwdEnv} :
          /\ StartSink(f, config)
          /\ forwarder' = NoForwarder
          /\ misread' = TRUE /\ orphans' = {InUse(f, config)} \ {NoForwarder}
        BY <1>4 DEF RestartFileless
  <2>2. config \in FwdConfigs BY <1>1
  <2>3. /\ InUse(f, config) \in Forwarders \cup {NoForwarder}
        /\ InUse(f, config) \in Forwarders => InUse(f, config) = f
        BY <2>2, MadeFacts
  <2>4. /\ orphans' \subseteq Forwarders /\ (InUse(f, config) \in Forwarders => orphans' = {f})
        BY <2>1, <2>3, NoForwarderIsNone
  <2> QED BY <2>1, <2>2, <2>4, StartKeeps
<1> QED BY <1>2, <1>3, <1>4

\* Every step of the sink.
LEMMA ForwarderKeeps == ForwarderIInv /\ [ForwarderNext]_forwarderVars => ForwarderIInv'
<1> SUFFICES ASSUME ForwarderIInv, [ForwarderNext]_forwarderVars PROVE ForwarderIInv'
    OBVIOUS
<1>1. CASE UNCHANGED forwarderVars
      BY <1>1 DEF forwarderVars, ForwarderIInv, ForwarderTypeOK, FwdOK, PutOK, AloneOK, Held, RunningConfig,
                  Configured
<1> QED BY <1>1, BeginPutKeeps, SavePutKeeps, SwapKeeps, CloseForwarderKeeps, CloseConnKeeps,
           GoroutineKeeps, RestartSinkKeeps DEF ForwarderNext

\* However PUTs of the settings overlap with each other, with entries being written and
\* with restarts: no forwarder is closed twice, none runs on for nobody but one made for a
\* sink without its file, what runs is what is saved or configured by the environment
\* unless PUTs overlapped or a start could not read the row or open the file, and no
\* connection is left behind but by a late dial; for any number of forwarders, PUTs and
\* any buffer.
THEOREM ForwarderIsSound == ForwarderSpec => []ForwarderSound
<1>1. ForwarderIInv => ForwarderSound
  <2> SUFFICES ASSUME ForwarderIInv PROVE ForwarderSound
      OBVIOUS
  <2>1. OneForwarder BY DEF ForwarderIInv, FwdOK, OneForwarder
  <2>2. RunsWhatIsSaved BY DEF ForwarderIInv, AloneOK, RunsWhatIsSaved, InFlight
  <2>3. ConnHasLoop BY DEF ForwarderIInv, FwdOK, ConnHasLoop, Held
  <2> QED BY <2>1, <2>2, <2>3 DEF ForwarderSound
<1> QED BY <1>1, ForwarderStart, ForwarderKeeps, PTL DEF ForwarderSpec

-------------------------------------------------------------------------------
(* Account administration.                                                   *)

AccountRecord == [exists : BOOLEAN, role : {"admin", "user"}, disabled : BOOLEAN]
CallRecord == [pc : {"idle", "guard", "write", "cli", "sessions", "remove", "insert"},
               actor : People \cup {Nobody}, on : People \cup {Nobody},
               op : Ops \cup {"none", "token"}, seen : {"admin", "user", "none"}]
BridgeRecord == [state : {"none", "starting", "live"}, owner : People \cup {Nobody},
                 kind : Kinds \cup {"none"}, late : BOOLEAN]

AccountsTypeOK ==
  /\ account \in [People -> AccountRecord]
  /\ admin \in [AdminCalls -> CallRecord]
  /\ running \in [Bridges -> BridgeRecord]
  /\ apiToken \in [TokenIds -> People \cup {Nobody}]

\* A request past the guard is one that changes an account, and knows which.
CallsKnow ==
  \A r \in AdminCalls :
    /\ admin[r].pc # "idle" => admin[r].on \in People
    /\ admin[r].pc \in {"sessions", "cli"} => admin[r].op \in {"disable", "delete"}
    /\ admin[r].pc = "remove" => admin[r].op = "delete"

\* A connection that stopSessionsOwnedBy is to find: registered in time, and not RDP.
Findable(b) == running[b].state = "live" /\ ~running[b].late /\ running[b].kind # "rdp"

\* Where a request has yet to look for connections of this kind.
Ahead(kind) == IF kind = "cli" THEN {"cli"} ELSE {"cli", "sessions"}

\* While an account is not enabled, every connection of it that can be found will be.
StopComing ==
  \A b \in Bridges :
    Findable(b) /\ ~Enabled(running[b].owner) =>
      \E r \in AdminCalls : admin[r].on = running[b].owner /\ admin[r].pc \in Ahead(running[b].kind)

\* A deletion has found what it has come past.
DeletionSwept ==
  \A r \in AdminCalls, b \in Bridges :
    admin[r].op = "delete" /\ admin[r].pc \in {"sessions", "remove"} /\ Findable(b)
    /\ running[b].owner = admin[r].on => admin[r].pc = "sessions" /\ running[b].kind = "session"

LiveIsKind == \A b \in Bridges : running[b].state # "none" => running[b].kind \in Kinds

BridgesIInv == AccountsTypeOK /\ CallsKnow /\ StopComing /\ DeletionSwept /\ LiveIsKind

\* Nothing runs and no request is in flight.
LEMMA AccountsStart == AccountsInit => BridgesIInv
<1> SUFFICES ASSUME AccountsInit PROVE BridgesIInv
    OBVIOUS
<1>1. NoCall \in CallRecord /\ NoBridge \in BridgeRecord
      BY DEF NoCall, NoBridge, CallRecord, BridgeRecord
<1>2. AccountsTypeOK BY <1>1 DEF AccountsInit, AccountsTypeOK, AccountRecord
<1>3. CallsKnow /\ StopComing /\ DeletionSwept /\ LiveIsKind
      BY DEF AccountsInit, CallsKnow, StopComing, DeletionSwept, LiveIsKind, Findable, NoCall, NoBridge
<1> QED BY <1>2, <1>3 DEF BridgesIInv

\* What a request does to its own record.
LEMMA AdminCallMoves ==
  ASSUME AccountsTypeOK, NEW r \in AdminCalls
  PROVE  /\ NoCall \in CallRecord /\ NoCall.pc = "idle" /\ NoCall.op = "none"
         /\ Return(r) => /\ admin' \in [AdminCalls -> CallRecord] /\ admin'[r] = NoCall
                         /\ \A q \in AdminCalls \ {r} : admin'[q] = admin[q]
         /\ \A pc \in {"idle", "guard", "write", "cli", "sessions", "remove", "insert"} : Goto(r, pc) =>
              /\ admin' \in [AdminCalls -> CallRecord]
              /\ admin'[r].pc = pc /\ admin'[r].on = admin[r].on /\ admin'[r].op = admin[r].op
              /\ \A q \in AdminCalls \ {r} : admin'[q] = admin[q]
<1>1. NoCall \in CallRecord /\ NoCall.pc = "idle" /\ NoCall.op = "none" BY DEF NoCall, CallRecord
<1>2. Return(r) => /\ admin' \in [AdminCalls -> CallRecord] /\ admin'[r] = NoCall
                   /\ \A q \in AdminCalls \ {r} : admin'[q] = admin[q]
      BY <1>1 DEF AccountsTypeOK, Return
<1>3. ASSUME NEW pc \in {"idle", "guard", "write", "cli", "sessions", "remove", "insert"}, Goto(r, pc)
      PROVE  /\ admin' \in [AdminCalls -> CallRecord]
             /\ admin'[r].pc = pc /\ admin'[r].on = admin[r].on /\ admin'[r].op = admin[r].op
             /\ \A q \in AdminCalls \ {r} : admin'[q] = admin[q]
  <2> DEFINE g == [admin[r] EXCEPT !.pc = pc]
  <2>1. g \in CallRecord /\ g.pc = pc /\ g.on = admin[r].on /\ g.op = admin[r].op
        BY DEF AccountsTypeOK, CallRecord
  <2>2. admin' = [admin EXCEPT ![r] = g] BY <1>3 DEF Goto
  <2> HIDE DEF g
  <2> QED BY <2>1, <2>2 DEF AccountsTypeOK
<1> QED BY <1>1, <1>2, <1>3

\* A step of request r that stops nothing: it was not one that has yet to look, or goes
\* on being one, and no account is ended by it.
LEMMA CallStepKeeps ==
  ASSUME BridgesIInv, NEW r \in AdminCalls, admin' \in [AdminCalls -> CallRecord],
         \A q \in AdminCalls \ {r} : admin'[q] = admin[q],
         account' \in [People -> AccountRecord],
         apiToken' \in [TokenIds -> People \cup {Nobody}],
         UNCHANGED running,
         admin[r].pc \notin {"cli", "sessions"},
         admin'[r].pc # "idle" => admin'[r].on \in People,
         admin'[r].pc \notin {"sessions", "remove"},
         admin'[r].pc = "cli" => admin'[r].op \in {"disable", "delete"},
         \A u \in People : Enabled(u) => Enabled(u)' \/ (admin'[r].pc = "cli" /\ admin'[r].on = u)
                                         \/ \A b \in Bridges : Findable(b) => running[b].owner # u
  PROVE  BridgesIInv'
<1>1. AccountsTypeOK' BY DEF BridgesIInv, AccountsTypeOK
<1>2. CallsKnow' BY DEF BridgesIInv, CallsKnow
<1>3. LiveIsKind' /\ DeletionSwept'
      BY DEF BridgesIInv, LiveIsKind, DeletionSwept, Findable
<1>4. StopComing'
  <2> SUFFICES ASSUME NEW b \in Bridges, Findable(b)', ~Enabled(running[b].owner)'
               PROVE  \E q \in AdminCalls : admin'[q].on = running'[b].owner
                                            /\ admin'[q].pc \in Ahead(running'[b].kind)
      BY DEF StopComing, Ahead
  <2> DEFINE u == running[b].owner
  <2>1. Findable(b) /\ running'[b] = running[b] BY DEF Findable
  <2>2. CASE Enabled(u)
    <3>1. u \in People BY <2>2 DEF Enabled
    <3>2. admin'[r].pc = "cli" /\ admin'[r].on = u BY <2>1, <2>2, <3>1 DEF Enabled
    <3> QED BY <2>1, <3>2 DEF Ahead
  <2>3. CASE ~Enabled(u)
    <3>1. PICK q \in AdminCalls : admin[q].on = u /\ admin[q].pc \in Ahead(running[b].kind)
          BY <2>1, <2>3 DEF BridgesIInv, StopComing
    <3>2. q # r BY <3>1 DEF Ahead
    <3> QED BY <2>1, <3>1, <3>2
  <2> QED BY <2>2, <2>3
<1> QED BY <1>1, <1>2, <1>3, <1>4 DEF BridgesIInv

\* PATCH and DELETE of a user up to the connections, the row of the user, and tokens.
LEMMA RequestsKeep ==
  ASSUME BridgesIInv, NEW r \in AdminCalls,
         \/ \E a, u \in People, op \in Ops : BeginCall(r, a, u, op)
         \/ CountAdmins(r) \/ UpdateRole(r) \/ UpdateDisabled(r) \/ DeleteUser(r)
         \/ \E u \in People : CreateToken(r, u)
         \/ \E t \in TokenIds : InsertToken(r, t)
  PROVE  BridgesIInv'
<1>0. /\ AccountsTypeOK /\ CallsKnow /\ admin[r] \in CallRecord /\ admin \in [AdminCalls -> CallRecord]
      /\ account \in [People -> AccountRecord] /\ apiToken \in [TokenIds -> People \cup {Nobody}]
      BY DEF BridgesIInv, AccountsTypeOK
<1>1. ASSUME NEW a \in People, NEW u \in People, NEW op \in Ops, BeginCall(r, a, u, op) PROVE BridgesIInv'
  <2> DEFINE g == [pc |-> "guard", actor |-> a, on |-> u, op |-> op, seen |-> account[u].role]
  <2>1. g \in CallRecord /\ g.pc = "guard" /\ g.on = u BY <1>0 DEF CallRecord, AccountRecord
  <2>2. admin' = [admin EXCEPT ![r] = g] /\ UNCHANGED <<account, running, apiToken>>
        /\ admin[r].pc = "idle"
        BY <1>1 DEF BeginCall, AtCall
  <2> HIDE DEF g
  <2>3. admin' \in [AdminCalls -> CallRecord] /\ admin'[r] = g
        /\ \A q \in AdminCalls \ {r} : admin'[q] = admin[q]
        BY <1>0, <2>1, <2>2
  <2>4. \A v \in People : Enabled(v) => Enabled(v)' BY <2>2 DEF Enabled
  <2> QED BY <1>0, <2>1, <2>2, <2>3, <2>4, CallStepKeeps
<1>2. CASE CountAdmins(r)
  <2>1. UNCHANGED <<account, running, apiToken>> /\ admin[r].pc = "guard"
        BY <1>2 DEF CountAdmins, AtCall
  <2>2. \A v \in People : Enabled(v) => Enabled(v)' BY <2>1 DEF Enabled
  <2>3. \/ Return(r)
        \/ admin[r].op = "delete" /\ Goto(r, "cli")
        \/ Goto(r, "write")
        BY <1>2 DEF CountAdmins
  <2>4. admin[r].on \in People BY <1>0, <2>1 DEF CallsKnow
  <2> QED BY <1>0, <2>1, <2>2, <2>3, <2>4, AdminCallMoves, CallStepKeeps
<1>3. CASE UpdateRole(r)
  <2>1. Return(r) /\ UNCHANGED <<running, apiToken>> /\ admin[r].pc = "write"
        BY <1>3 DEF UpdateRole, AtCall
  <2>2. account' \in [People -> AccountRecord]
        BY <1>0, <1>3 DEF UpdateRole, AccountRecord
  <2>3. \A v \in People : Enabled(v) => Enabled(v)'
        BY <1>0, <1>3 DEF UpdateRole, Enabled, AccountRecord
  <2> QED BY <1>0, <2>1, <2>2, <2>3, AdminCallMoves, CallStepKeeps
<1>4. CASE UpdateDisabled(r)
  <2> DEFINE u == admin[r].on
             off == admin[r].op = "disable"
  <2>1. /\ UNCHANGED <<running, apiToken>> /\ admin[r].pc = "write" /\ u \in People
        /\ admin[r].op \in {"disable", "enable"}
        BY <1>0, <1>4 DEF UpdateDisabled, AtCall, CallsKnow
  <2>2. CASE ~account[u].exists
    <3>1. Return(r) /\ UNCHANGED account BY <1>4, <2>2 DEF UpdateDisabled
    <3>2. \A v \in People : Enabled(v) => Enabled(v)' BY <3>1 DEF Enabled
    <3> QED BY <1>0, <2>1, <3>1, <3>2, AdminCallMoves, CallStepKeeps
  <2>3. CASE account[u].exists
    <3>1. account' = [account EXCEPT ![u].disabled = off] BY <1>4, <2>3 DEF UpdateDisabled
    <3>2. account' \in [People -> AccountRecord]
          BY <1>0, <2>1, <3>1 DEF AccountRecord
    <3>3. \A v \in People : Enabled(v) => Enabled(v)' \/ (v = u /\ off)
          BY <1>0, <2>1, <3>1 DEF Enabled, AccountRecord
    <3>4. CASE off
      <4>1. Goto(r, "cli") BY <1>4, <2>3, <3>4 DEF UpdateDisabled
      <4>2. admin'[r].pc = "cli" /\ admin'[r].on = u /\ admin'[r].op = "disable"
            BY <1>0, <3>4, <4>1, AdminCallMoves
      <4>3. \A v \in People : Enabled(v) => Enabled(v)' \/ (admin'[r].pc = "cli" /\ admin'[r].on = v)
            BY <3>3, <4>2
      <4> QED BY <1>0, <2>1, <3>2, <4>1, <4>2, <4>3, AdminCallMoves, CallStepKeeps
    <3>5. CASE ~off
      <4>1. Return(r) BY <1>4, <2>3, <3>5 DEF UpdateDisabled
      <4>2. \A v \in People : Enabled(v) => Enabled(v)' BY <3>3, <3>5
      <4> QED BY <1>0, <2>1, <3>2, <4>1, <4>2, AdminCallMoves, CallStepKeeps
    <3> QED BY <3>4, <3>5
  <2> QED BY <2>2, <2>3
<1>5. CASE DeleteUser(r)
  <2> DEFINE u == admin[r].on
  <2>1. /\ Return(r) /\ UNCHANGED running /\ admin[r].pc = "remove" /\ u \in People
        /\ admin[r].op = "delete"
        BY <1>0, <1>5 DEF DeleteUser, AtCall, CallsKnow
  <2>2. account' \in [People -> AccountRecord] BY <1>0, <1>5 DEF DeleteUser, AccountRecord
  <2>3. apiToken' \in [TokenIds -> People \cup {Nobody}] BY <1>0, <1>5 DEF DeleteUser
  <2>4. \A v \in People : Enabled(v) => Enabled(v)' \/ v = u
        BY <1>0, <1>5 DEF DeleteUser, Enabled, AccountRecord
  <2>5. \A b \in Bridges : Findable(b) => running[b].owner # u
        BY <2>1 DEF BridgesIInv, DeletionSwept
  <2> QED BY <1>0, <2>1, <2>2, <2>3, <2>4, <2>5, AdminCallMoves, CallStepKeeps
<1>6. ASSUME NEW u \in People, CreateToken(r, u) PROVE BridgesIInv'
  <2> DEFINE g == [NoCall EXCEPT !.pc = "insert", !.on = u, !.op = "token"]
  <2>1. g \in CallRecord /\ g.pc = "insert" /\ g.on = u BY DEF NoCall, CallRecord
  <2>2. admin' = [admin EXCEPT ![r] = g] /\ UNCHANGED <<account, running, apiToken>>
        /\ admin[r].pc = "idle"
        BY <1>6 DEF CreateToken, AtCall
  <2> HIDE DEF g
  <2>3. admin' \in [AdminCalls -> CallRecord] /\ admin'[r] = g
        /\ \A q \in AdminCalls \ {r} : admin'[q] = admin[q]
        BY <1>0, <2>1, <2>2
  <2>4. \A v \in People : Enabled(v) => Enabled(v)' BY <2>2 DEF Enabled
  <2> QED BY <1>0, <2>1, <2>2, <2>3, <2>4, CallStepKeeps
<1>7. ASSUME NEW t \in TokenIds, InsertToken(r, t) PROVE BridgesIInv'
  <2>1. Return(r) /\ UNCHANGED <<account, running>> /\ admin[r].pc = "insert" /\ admin[r].on \in People
        BY <1>0, <1>7 DEF InsertToken, AtCall, CallsKnow
  <2>2. apiToken' \in [TokenIds -> People \cup {Nobody}] BY <1>0, <1>7, <2>1 DEF InsertToken
  <2>3. \A v \in People : Enabled(v) => Enabled(v)' BY <2>1 DEF Enabled
  <2> QED BY <1>0, <2>1, <2>2, <2>3, AdminCallMoves, CallStepKeeps
<1> QED BY <1>1, <1>2, <1>3, <1>4, <1>5, <1>6, <1>7

\* stopSessionsOwnedBy, kind by kind.
LEMMA StopAllKeeps ==
  ASSUME BridgesIInv, NEW r \in AdminCalls, CloseConnectionsForUser(r) \/ StopSessions(r)
  PROVE  BridgesIInv'
<1> DEFINE u == admin[r].on
           kind == IF admin[r].pc = "cli" THEN "cli" ELSE "session"
<1>0. /\ AccountsTypeOK /\ CallsKnow /\ running \in [Bridges -> BridgeRecord]
      /\ admin[r].pc \in {"cli", "sessions"} /\ u \in People /\ admin[r].op \in {"disable", "delete"}
      /\ UNCHANGED <<account, apiToken>>
      BY DEF BridgesIInv, AccountsTypeOK, CallsKnow, CloseConnectionsForUser, StopSessions, AtCall
<1>1. StopAll(u, kind) BY DEF CloseConnectionsForUser, StopSessions, AtCall
<1>2. NoBridge \in BridgeRecord /\ NoBridge.state = "none" BY DEF NoBridge, BridgeRecord
<1>3. /\ running' \in [Bridges -> BridgeRecord]
      /\ \A b \in Bridges : running'[b] = running[b] \/ running'[b] = NoBridge
      /\ \A b \in Bridges : running'[b].state = "live" =>
           running'[b] = running[b] /\ ~(running[b].owner = u /\ running[b].kind = kind)
      BY <1>0, <1>1, <1>2 DEF StopAll
<1>4. \/ admin[r].pc = "cli" /\ Goto(r, "sessions")
      \/ admin[r].pc = "sessions" /\ admin[r].op = "delete" /\ Goto(r, "remove")
      \/ admin[r].pc = "sessions" /\ Return(r)
      BY DEF CloseConnectionsForUser, StopSessions, AtCall
<1>5. /\ admin' \in [AdminCalls -> CallRecord]
      /\ \A q \in AdminCalls \ {r} : admin'[q] = admin[q]
      /\ admin'[r].pc # "idle" => admin'[r].on = u /\ admin'[r].op = admin[r].op
      /\ admin[r].pc = "cli" => admin'[r].pc = "sessions"
      /\ admin[r].pc = "sessions" => admin'[r].pc = "idle" \/ (admin'[r].pc = "remove" /\ admin[r].op = "delete")
      BY <1>0, <1>4, AdminCallMoves
<1>6. AccountsTypeOK' BY <1>0, <1>3, <1>5 DEF AccountsTypeOK
<1>7. CallsKnow' BY <1>0, <1>5 DEF CallsKnow
<1>8. LiveIsKind' BY <1>2, <1>3 DEF BridgesIInv, LiveIsKind
<1>9. \A b \in Bridges : Findable(b)' => Findable(b) /\ running'[b] = running[b]
                                         /\ ~(running[b].owner = u /\ running[b].kind = kind)
      BY <1>3 DEF Findable
<1>10. StopComing'
  <2> SUFFICES ASSUME NEW b \in Bridges, Findable(b)', ~Enabled(running[b].owner)'
               PROVE  \E q \in AdminCalls : admin'[q].on = running'[b].owner
                                            /\ admin'[q].pc \in Ahead(running'[b].kind)
      BY DEF StopComing, Ahead
  <2>1. Findable(b) /\ running'[b] = running[b] /\ ~(running[b].owner = u /\ running[b].kind = kind)
        BY <1>9
  <2>2. ~Enabled(running[b].owner) BY <1>0, <2>1 DEF Enabled
  <2>3. PICK q \in AdminCalls : admin[q].on = running[b].owner /\ admin[q].pc \in Ahead(running[b].kind)
        BY <2>1, <2>2 DEF BridgesIInv, StopComing
  <2>4. CASE q # r BY <1>5, <2>1, <2>3, <2>4
  <2>5. CASE q = r
    <3>1. running[b].kind \in Kinds /\ running[b].kind # "rdp"
          BY <2>1 DEF BridgesIInv, LiveIsKind, Findable
    <3>2. running[b].kind # kind BY <2>1, <2>3, <2>5
    <3>3. running[b].kind = "session" /\ admin[r].pc = "cli"
          BY <1>0, <2>3, <2>5, <3>1, <3>2 DEF Ahead, Kinds
    <3>4. admin'[r].pc = "sessions" /\ admin'[r].on = u BY <1>5, <3>3
    <3> QED BY <2>1, <2>3, <2>5, <3>3, <3>4 DEF Ahead
  <2> QED BY <2>4, <2>5
<1>11. DeletionSwept'
  <2> SUFFICES ASSUME NEW q \in AdminCalls, NEW b \in Bridges, admin'[q].op = "delete",
                      admin'[q].pc \in {"sessions", "remove"}, Findable(b)',
                      running'[b].owner = admin'[q].on
               PROVE  admin'[q].pc = "sessions" /\ running'[b].kind = "session"
      BY DEF DeletionSwept
  <2>1. Findable(b) /\ running'[b] = running[b] /\ ~(running[b].owner = u /\ running[b].kind = kind)
        BY <1>9
  <2>2. CASE q # r BY <1>5, <2>1, <2>2 DEF BridgesIInv, DeletionSwept
  <2>3. CASE q = r
    <3>1. running[b].owner = u /\ admin[r].op = "delete" BY <1>5, <2>1, <2>3
    <3>2. running[b].kind \in {"cli", "session"}
          BY <2>1 DEF BridgesIInv, LiveIsKind, Findable, Kinds
    <3>3. CASE admin[r].pc = "cli" BY <1>5, <2>1, <2>3, <3>1, <3>2, <3>3
    <3>4. CASE admin[r].pc = "sessions"
          BY <1>5, <2>1, <2>3, <3>1, <3>4 DEF BridgesIInv, DeletionSwept
    <3> QED BY <1>0, <3>3, <3>4
  <2> QED BY <2>2, <2>3
<1> QED BY <1>6, <1>7, <1>8, <1>10, <1>11 DEF BridgesIInv

\* A connection is let in, registered or ended; one that is registered behind a request
\* that ends the account is late.
LEMMA BridgeKeeps ==
  ASSUME BridgesIInv, NEW b \in Bridges,
         \/ \E u \in People, kind \in Kinds : Authorise(b, u, kind)
         \/ RegisterBridge(b) \/ EndBridge(b)
  PROVE  BridgesIInv'
<1>1. UNCHANGED <<account, admin, apiToken>> /\ running \in [Bridges -> BridgeRecord]
      BY DEF Authorise, RegisterBridge, EndBridge, BridgesIInv, AccountsTypeOK
<1>2. ASSUME NEW n \in BridgeRecord, running' = [running EXCEPT ![b] = n],
             n.state # "none" => n.kind \in Kinds,
             n.state = "live" /\ ~n.late => ~Passed(n.owner, n.kind)
      PROVE  BridgesIInv'
  <2>1. /\ running' \in [Bridges -> BridgeRecord] /\ running'[b] = n
        /\ \A c \in Bridges \ {b} : running'[c] = running[c]
        BY <1>1, <1>2
  <2>2. AccountsTypeOK' /\ CallsKnow' /\ LiveIsKind'
        BY <1>1, <1>2, <2>1 DEF BridgesIInv, AccountsTypeOK, CallsKnow, LiveIsKind
  <2>3. StopComing'
    <3>1. ASSUME NEW c \in Bridges, Findable(c)', ~Enabled(running[c].owner)'
          PROVE  \E q \in AdminCalls : admin'[q].on = running'[c].owner
                                       /\ admin'[q].pc \in Ahead(running'[c].kind)
      <4>1. CASE c = b BY <1>1, <1>2, <2>1, <3>1, <4>1 DEF Findable, Passed, Enabled
      <4>2. CASE c # b BY <1>1, <2>1, <3>1, <4>2 DEF BridgesIInv, StopComing, Findable, Enabled
      <4> QED BY <4>1, <4>2
    <3> QED BY <3>1 DEF StopComing, Ahead
  <2>4. DeletionSwept'
    <3> SUFFICES ASSUME NEW q \in AdminCalls, NEW c \in Bridges, admin'[q].op = "delete",
                        admin'[q].pc \in {"sessions", "remove"}, Findable(c)',
                        running'[c].owner = admin'[q].on
                 PROVE  admin'[q].pc = "sessions" /\ running'[c].kind = "session"
        BY DEF DeletionSwept
    <3>1. CASE c = b
      <4>1. n.kind \in {"cli", "session"} /\ ~Passed(n.owner, n.kind)
            BY <1>2, <2>1, <3>1 DEF Findable, Kinds
      <4> QED BY <1>1, <2>1, <3>1, <4>1 DEF Passed
    <3>2. CASE c # b BY <1>1, <2>1, <3>2 DEF BridgesIInv, DeletionSwept, Findable
    <3> QED BY <3>1, <3>2
  <2> QED BY <2>2, <2>3, <2>4 DEF BridgesIInv
<1>3. ASSUME NEW u \in People, NEW kind \in Kinds, Authorise(b, u, kind) PROVE BridgesIInv'
  <2> DEFINE n == [state |-> "starting", owner |-> u, kind |-> kind, late |-> FALSE]
  <2>1. n \in BridgeRecord /\ n.state = "starting" /\ n.kind \in Kinds BY DEF BridgeRecord
  <2>2. running' = [running EXCEPT ![b] = n] BY <1>3 DEF Authorise
  <2> HIDE DEF n
  <2> QED BY <1>2, <2>1, <2>2
<1>4. CASE RegisterBridge(b)
  <2> DEFINE passed == Passed(running[b].owner, running[b].kind)
             n == [running[b] EXCEPT !.state = "live", !.late = passed]
  <2>1. passed \in BOOLEAN BY DEF Passed
  <2>2. running[b] \in BridgeRecord /\ running[b].kind \in Kinds
        BY <1>1, <1>4 DEF RegisterBridge, BridgesIInv, LiveIsKind
  <2>3. running' = [running EXCEPT ![b] = n] BY <1>4 DEF RegisterBridge
  <2> HIDE DEF passed
  <2>4. /\ n \in BridgeRecord /\ n.late = passed /\ n.owner = running[b].owner
        /\ n.kind = running[b].kind
        BY <2>1, <2>2 DEF BridgeRecord
  <2> HIDE DEF n
  <2> QED BY <1>2, <2>2, <2>3, <2>4 DEF passed
<1>5. CASE EndBridge(b)
  <2>1. NoBridge \in BridgeRecord /\ NoBridge.state = "none" BY DEF NoBridge, BridgeRecord
  <2> QED BY <1>2, <1>5, <2>1 DEF EndBridge
<1> QED BY <1>3, <1>4, <1>5

\* Every step of account administration.
LEMMA AccountsKeep == BridgesIInv /\ [AccountsNext]_accountVars => BridgesIInv'
<1> SUFFICES ASSUME BridgesIInv, [AccountsNext]_accountVars PROVE BridgesIInv'
    OBVIOUS
<1>1. ASSUME UNCHANGED <<account, admin, running>>, apiToken' \in [TokenIds -> People \cup {Nobody}]
      PROVE  BridgesIInv'
      BY <1>1 DEF BridgesIInv, AccountsTypeOK, CallsKnow, StopComing, DeletionSwept, LiveIsKind,
                  Findable, Enabled
<1>2. CASE UNCHANGED accountVars BY <1>1, <1>2 DEF accountVars, BridgesIInv, AccountsTypeOK
<1>3. ASSUME NEW t \in TokenIds, RevokeToken(t) PROVE BridgesIInv'
      BY <1>1, <1>3 DEF RevokeToken, BridgesIInv, AccountsTypeOK
<1> QED BY <1>2, <1>3, RequestsKeep, StopAllKeeps, BridgeKeeps DEF AccountsNext

\* The requests that have counted the tokens of u and not yet inserted theirs.
Inserting(u) == {r \in AdminCalls : admin[r].pc = "insert" /\ admin[r].on = u}

\* A request that passed the count is paid for by the count: tokens and requests on
\* their way to one exceed the cap by the requests in flight but one.
TokensPaid ==
  \A u \in People :
    Cardinality(TokensOf(u)) + Cardinality(Inserting(u)) <= MaxAPITokens + Cardinality(AdminCalls) - 1

\* The sets that are counted are finite.
LEMMA CountsAreFinite ==
  ASSUME NEW u
  PROVE  /\ IsFiniteSet(TokensOf(u)) /\ Cardinality(TokensOf(u)) \in Nat
         /\ IsFiniteSet(Inserting(u)) /\ Cardinality(Inserting(u)) \in Nat
         /\ Cardinality(Inserting(u)) <= Cardinality(AdminCalls)
         /\ Cardinality(AdminCalls) \in Nat
         /\ MaxAPITokens \in Nat \ {0}
<1>1. IsFiniteSet(TokenIds) /\ IsFiniteSet(AdminCalls) BY AccountsAssumption
<1>2. TokensOf(u) \in SUBSET TokenIds /\ Inserting(u) \in SUBSET AdminCalls BY DEF TokensOf, Inserting
<1>3. IsFiniteSet(TokensOf(u)) /\ IsFiniteSet(Inserting(u))
      /\ Cardinality(Inserting(u)) <= Cardinality(AdminCalls)
      BY <1>1, <1>2, FS_Subset
<1> QED BY <1>1, <1>3, FS_CardinalityType, AccountsAssumption

\* A step that adds neither a token nor a request on its way to one.
LEMMA CountsShrink ==
  ASSUME TokensPaid,
         \A u \in People : TokensOf(u)' \subseteq TokensOf(u) /\ Inserting(u)' \subseteq Inserting(u)
  PROVE  TokensPaid'
<1> SUFFICES ASSUME NEW u \in People
             PROVE  Cardinality(TokensOf(u)') + Cardinality(Inserting(u)')
                      <= MaxAPITokens + Cardinality(AdminCalls) - 1
    BY DEF TokensPaid
<1>1. TokensOf(u)' \in SUBSET TokensOf(u) /\ Inserting(u)' \in SUBSET Inserting(u) OBVIOUS
<1>2. /\ IsFiniteSet(TokensOf(u)) /\ IsFiniteSet(Inserting(u))
      /\ Cardinality(TokensOf(u)) \in Nat /\ Cardinality(Inserting(u)) \in Nat
      /\ Cardinality(AdminCalls) \in Nat /\ MaxAPITokens \in Nat
      BY CountsAreFinite
<1>3. /\ Cardinality(TokensOf(u)') <= Cardinality(TokensOf(u)) /\ IsFiniteSet(TokensOf(u)')
      /\ Cardinality(Inserting(u)') <= Cardinality(Inserting(u)) /\ IsFiniteSet(Inserting(u)')
      BY <1>1, <1>2, FS_Subset
<1>4. Cardinality(TokensOf(u)') \in Nat /\ Cardinality(Inserting(u)') \in Nat
      BY <1>3, FS_CardinalityType
<1>5. Cardinality(TokensOf(u)) + Cardinality(Inserting(u)) <= MaxAPITokens + Cardinality(AdminCalls) - 1
      BY DEF TokensPaid
<1> QED BY <1>2, <1>3, <1>4, <1>5

\* Create: the count was below the cap, and at most every request is on its way.
LEMMA CreateTokenPaid ==
  ASSUME BridgesIInv, TokensPaid, NEW r \in AdminCalls, NEW u \in People, CreateToken(r, u)
  PROVE  TokensPaid'
<1> SUFFICES ASSUME NEW v \in People
             PROVE  Cardinality(TokensOf(v)') + Cardinality(Inserting(v)')
                      <= MaxAPITokens + Cardinality(AdminCalls) - 1
    BY DEF TokensPaid
<1> DEFINE g == [NoCall EXCEPT !.pc = "insert", !.on = u, !.op = "token"]
<1>1. /\ admin' = [admin EXCEPT ![r] = g] /\ UNCHANGED apiToken
      /\ ~(Cardinality(TokensOf(u)) >= MaxAPITokens) /\ admin \in [AdminCalls -> CallRecord]
      BY DEF CreateToken, TokenLimit, BridgesIInv, AccountsTypeOK
<1>2. g.on = u BY DEF NoCall
<1> HIDE DEF g
<1>3. TokensOf(v)' = TokensOf(v) BY <1>1 DEF TokensOf
<1>4. /\ Cardinality(TokensOf(v)) \in Nat /\ Cardinality(AdminCalls) \in Nat
      /\ MaxAPITokens \in Nat \ {0} /\ Cardinality(Inserting(v)) \in Nat
      BY CountsAreFinite
<1>5. IsFiniteSet(AdminCalls) BY AccountsAssumption
<1>6. Inserting(v)' \in SUBSET AdminCalls BY DEF Inserting
<1>7. Cardinality(Inserting(v)') <= Cardinality(AdminCalls) /\ Cardinality(Inserting(v)') \in Nat
      BY <1>5, <1>6, FS_Subset, FS_CardinalityType
<1>8. CASE v = u BY <1>1, <1>3, <1>4, <1>7, <1>8
<1>9. CASE v # u
  <2>1. Inserting(v)' \subseteq Inserting(v) BY <1>1, <1>2, <1>9 DEF Inserting
  <2>2. Cardinality(Inserting(v)') <= Cardinality(Inserting(v)) BY <2>1, CountsAreFinite, FS_Subset
  <2>3. Cardinality(TokensOf(v)) + Cardinality(Inserting(v)) <= MaxAPITokens + Cardinality(AdminCalls) - 1
        BY DEF TokensPaid
  <2> QED BY <1>3, <1>4, <1>7, <2>2, <2>3
<1> QED BY <1>8, <1>9

\* Insert: the request stops being on its way as its token appears.
LEMMA InsertTokenPaid ==
  ASSUME BridgesIInv, TokensPaid, NEW r \in AdminCalls, NEW t \in TokenIds, InsertToken(r, t)
  PROVE  TokensPaid'
<1> SUFFICES ASSUME NEW v \in People
             PROVE  Cardinality(TokensOf(v)') + Cardinality(Inserting(v)')
                      <= MaxAPITokens + Cardinality(AdminCalls) - 1
    BY DEF TokensPaid
<1>1. /\ admin' = [admin EXCEPT ![r] = NoCall] /\ apiToken[t] = Nobody
      /\ admin[r].pc = "insert" /\ NoCall.pc = "idle"
      /\ admin \in [AdminCalls -> CallRecord] /\ apiToken \in [TokenIds -> People \cup {Nobody}]
      /\ apiToken' = apiToken \/ apiToken' = [apiToken EXCEPT ![t] = admin[r].on]
      BY DEF InsertToken, AtCall, Return, NoCall, BridgesIInv, AccountsTypeOK
<1>2. /\ IsFiniteSet(TokensOf(v)) /\ Cardinality(TokensOf(v)) \in Nat
      /\ IsFiniteSet(Inserting(v)) /\ Cardinality(Inserting(v)) \in Nat
      /\ Cardinality(AdminCalls) \in Nat /\ MaxAPITokens \in Nat
      BY CountsAreFinite
<1>3. Cardinality(TokensOf(v)) + Cardinality(Inserting(v)) <= MaxAPITokens + Cardinality(AdminCalls) - 1
      BY DEF TokensPaid
<1>4. Inserting(v)' = Inserting(v) \ {r} BY <1>1 DEF Inserting
<1>5. CASE v = admin[r].on
  <2>1. r \in Inserting(v) BY <1>1, <1>5 DEF Inserting
  <2>2. Cardinality(Inserting(v)') = Cardinality(Inserting(v)) - 1
        BY <1>2, <1>4, <2>1, FS_RemoveElement
  <2>3. TokensOf(v)' \in SUBSET (TokensOf(v) \cup {t}) BY <1>1, <1>5 DEF TokensOf
  <2>4. IsFiniteSet(TokensOf(v) \cup {t}) /\ Cardinality(TokensOf(v) \cup {t}) <= Cardinality(TokensOf(v)) + 1
        BY <1>2, FS_AddElement
  <2>5. /\ Cardinality(TokensOf(v)') <= Cardinality(TokensOf(v) \cup {t})
        /\ Cardinality(TokensOf(v)') \in Nat /\ Cardinality(TokensOf(v) \cup {t}) \in Nat
        BY <2>3, <2>4, FS_Subset, FS_CardinalityType
  <2> QED BY <1>2, <1>3, <2>2, <2>4, <2>5
<1>6. CASE v # admin[r].on
  <2>1. r \notin Inserting(v) BY <1>6 DEF Inserting
  <2>2. Inserting(v)' = Inserting(v) BY <1>4, <2>1
  <2>3. v # Nobody BY AccountsAssumption
  <2>4. TokensOf(v)' = TokensOf(v) BY <1>1, <1>6, <2>3 DEF TokensOf
  <2> QED BY <1>3, <2>2, <2>4
<1> QED BY <1>5, <1>6

\* Nobody else adds to what is counted.
LEMMA TokensStayPaid ==
  ASSUME BridgesIInv, TokensPaid, [AccountsNext]_accountVars PROVE TokensPaid'
<1>0. admin \in [AdminCalls -> CallRecord] /\ apiToken \in [TokenIds -> People \cup {Nobody}]
      /\ AccountsTypeOK
      BY DEF BridgesIInv, AccountsTypeOK
<1>1. ASSUME \A t \in TokenIds : apiToken'[t] \in {apiToken[t], Nobody},
             \A r \in AdminCalls : admin'[r].pc = "insert" => admin'[r] = admin[r]
      PROVE  TokensPaid'
  <2>1. \A u \in People : u # Nobody BY AccountsAssumption
  <2>2. \A u \in People : TokensOf(u)' \subseteq TokensOf(u) /\ Inserting(u)' \subseteq Inserting(u)
        BY <1>1, <2>1 DEF TokensOf, Inserting
  <2> QED BY <2>2, CountsShrink
<1>2. CASE UNCHANGED accountVars BY <1>1, <1>2 DEF accountVars
<1>3. ASSUME NEW b \in Bridges,
             \/ \E u \in People, kind \in Kinds : Authorise(b, u, kind)
             \/ RegisterBridge(b) \/ EndBridge(b)
      PROVE  TokensPaid'
      BY <1>1, <1>3 DEF Authorise, RegisterBridge, EndBridge
<1>4. ASSUME NEW t \in TokenIds, RevokeToken(t) PROVE TokensPaid'
      BY <1>0, <1>1, <1>4 DEF RevokeToken
<1>5. ASSUME NEW r \in AdminCalls, NEW a \in People, NEW u \in People, NEW op \in Ops, BeginCall(r, a, u, op)
      PROVE  TokensPaid'
  <2>1. /\ UNCHANGED apiToken /\ admin'[r].pc = "guard"
        /\ \A q \in AdminCalls \ {r} : admin'[q] = admin[q]
        BY <1>0, <1>5 DEF BeginCall
  <2> QED BY <1>1, <2>1
<1>6. ASSUME NEW r \in AdminCalls,
             CountAdmins(r) \/ UpdateRole(r) \/ UpdateDisabled(r) \/ CloseConnectionsForUser(r)
             \/ StopSessions(r) \/ DeleteUser(r)
      PROVE  TokensPaid'
  <2>1. /\ Return(r) \/ \E pc \in {"cli", "write", "sessions", "remove"} : Goto(r, pc)
        /\ \A t \in TokenIds : apiToken'[t] \in {apiToken[t], Nobody}
        BY <1>0, <1>6 DEF CountAdmins, UpdateRole, UpdateDisabled, CloseConnectionsForUser, StopSessions, DeleteUser
  <2>2. admin'[r].pc # "insert" /\ \A q \in AdminCalls \ {r} : admin'[q] = admin[q]
        BY <1>0, <2>1, AdminCallMoves
  <2> QED BY <1>1, <2>1, <2>2
<1> QED BY <1>2, <1>3, <1>4, <1>5, <1>6, CreateTokenPaid, InsertTokenPaid DEF AccountsNext

\* Disabling or deleting an account ends every terminal, VNC and CLI connection of it that
\* was registered in time, and the cap on API tokens is passed by no more than the
\* requests that overlap; for any number of people, requests, connections and tokens.
THEOREM AccountsAreSound == AccountsSpec => []AccountsSound
<1>1. AccountsInit => TokensPaid
  <2> SUFFICES ASSUME AccountsInit, NEW u \in People
               PROVE  Cardinality(TokensOf(u)) + Cardinality(Inserting(u))
                        <= MaxAPITokens + Cardinality(AdminCalls) - 1
      BY DEF TokensPaid
  <2>1. u # Nobody BY AccountsAssumption
  <2>2. TokensOf(u) = {} /\ Inserting(u) = {}
        BY <2>1 DEF AccountsInit, TokensOf, Inserting, NoCall
  <2> QED BY <2>2, CountsAreFinite, FS_EmptySet
<1>2. BridgesIInv /\ TokensPaid => AccountsSound
  <2> SUFFICES ASSUME BridgesIInv, TokensPaid PROVE AccountsSound
      OBVIOUS
  <2>1. EndedWithAccount
    <3> SUFFICES ASSUME NEW b \in Bridges, Outlives(b), running[b].kind # "rdp" PROVE FALSE
        BY DEF EndedWithAccount
    <3>1. Findable(b) /\ ~Enabled(running[b].owner) BY DEF Outlives, Findable
    <3>2. PICK r \in AdminCalls : admin[r].on = running[b].owner /\ admin[r].pc \in Ahead(running[b].kind)
          BY <3>1 DEF BridgesIInv, StopComing
    <3> QED BY <3>2 DEF Outlives, AtCall, Ahead
  <2>2. TokensCapped
    <3> SUFFICES ASSUME NEW u \in People
                 PROVE  Cardinality(TokensOf(u)) <= MaxAPITokens + Cardinality(AdminCalls) - 1
        BY DEF TokensCapped
    <3>1. Cardinality(TokensOf(u)) + Cardinality(Inserting(u)) <= MaxAPITokens + Cardinality(AdminCalls) - 1
          BY DEF TokensPaid
    <3> QED BY <3>1, CountsAreFinite
  <2> QED BY <2>1, <2>2 DEF AccountsSound
<1> QED BY <1>1, <1>2, AccountsStart, AccountsKeep, TokensStayPaid, PTL DEF AccountsSpec

-------------------------------------------------------------------------------
(* The credential library.                                                   *)

CredRow == [there : BOOLEAN, password : BOOLEAN, key : SSHKeys \cup {NoRef}]
CredCall == [pc : {"free", "countTargets", "deleteKey", "insert", "edit", "update", "deleteIdentity",
               "readKey", "setLink"},
         ref : SSHKeys \cup Identities \cup {NoRef},
         id : Identities \cup LinkTargets \cup {NoRef},
         row : CredRow]

TablesOK ==
  /\ sshKeys \subseteq SSHKeys
  /\ identity \in [Identities -> CredRow]
  /\ link \in [LinkTargets -> SSHKeys \cup Identities \cup {NoRef}]
  /\ late \subseteq Identities \cup LinkTargets

\* What a request has read that is still true when it acts on it: past its count a
\* deletion meets only references that were written past it, and a row on its way
\* to the table was judged as it is.
CallOK(r) ==
  /\ r \in CredCall
  /\ r.pc \in {"countTargets", "deleteKey"} =>
       r.ref \in SSHKeys /\ \A i \in Identities : identity[i].key = r.ref => i \in late
  /\ r.pc \in {"deleteKey", "deleteIdentity"} =>
       r.ref \in SSHKeys \cup Identities /\ \A t \in LinkTargets : link[t] = r.ref => t \in late
  /\ r.pc = "deleteIdentity" => r.ref \in Identities
  /\ r.pc \in {"insert", "edit", "update"} => r.id \in Identities /\ r.row.there
  /\ r.pc \in {"insert", "update"} => Usable(r.row)
  /\ r.pc \in {"readKey", "setLink"} => r.id \in LinkTargets

CallsOK == cred \in [CredCalls -> CredCall] /\ \A c \in CredCalls : CallOK(cred[c])

CredInv == TablesOK /\ CallsOK /\ LibrarySound

\* The row of nobody and the request of nobody are well typed and promise nothing.
LEMMA FreeOK == Absent \in CredRow /\ CallOK(Free)
BY DEF Absent, CredRow, Free, CredCall, CallOK

\* The library starts empty.
LEMMA CredStart == CredInit => CredInv
<1> SUFFICES ASSUME CredInit PROVE CredInv
  OBVIOUS
<1>1. TablesOK
  BY FreeOK DEF CredInit, TablesOK
<1>2. CallsOK
  BY FreeOK DEF CredInit, CallsOK, CallOK
<1>3. LibrarySound
  BY DEF CredInit, LibrarySound, LinksResolve, IdentitiesUsable, Present, Absent
<1> QED BY <1>1, <1>2, <1>3 DEF CredInv

\* A step that only takes request c on to r.
LEMMA CallMoves ==
  ASSUME CredInv, NEW c \in CredCalls, NEW r, CallOK(r),
         cred' = [cred EXCEPT ![c] = r],
         UNCHANGED <<sshKeys, identity, link, late>>
  PROVE  CredInv'
<1>1. TablesOK' /\ LibrarySound'
  BY DEF CredInv, TablesOK, LibrarySound, LinksResolve, IdentitiesUsable, Present, Usable
<1>2. cred' \in [CredCalls -> CredCall]
  BY DEF CredInv, CallsOK, CallOK
<1>3. \A d \in CredCalls : cred'[d] = IF d = c THEN r ELSE cred[d]
  BY DEF CredInv, CallsOK
<1>4. ASSUME NEW d \in CredCalls PROVE CallOK(cred[d])'
  <2>1. CallOK(cred'[d])
    BY <1>3 DEF CredInv, CallsOK
  <2> QED BY <2>1 DEF CallOK, Usable
<1> QED BY <1>1, <1>2, <1>4 DEF CredInv, CallsOK

\* What a request that ends leaves: the other requests as they were.
LEMMA OthersStay ==
  ASSUME CredInv, NEW c \in CredCalls, Finish(c)
  PROVE  /\ cred' \in [CredCalls -> CredCall]
         /\ \A d \in CredCalls : cred'[d] = IF d = c THEN Free ELSE cred[d]
BY FreeOK DEF CredInv, CallsOK, CallOK, Finish

\* Every step that counts, reads or gives up.
LEMMA ReadsKeep ==
  ASSUME CredInv, NEW c \in CredCalls,
         \/ \E k \in SSHKeys : CountIdentities(c, k)
         \/ CountTargets(c)
         \/ \E i \in Identities : ReadIdentity(c, i) \/ CountLinks(c, i)
         \/ \E i \in Identities, password \in BOOLEAN, key \in SSHKeys \cup {NoRef} : ReadCreate(c, i, password, key)
         \/ \E t \in LinkTargets, ref \in SSHKeys \cup Identities \cup {NoRef} : ReadSource(c, t, ref)
         \/ ReadIdentityKey(c)
         \/ CredFails(c)
  PROVE  CredInv'
<1>0. /\ cred \in [CredCalls -> CredCall] /\ CallOK(cred[c]) /\ cred[c] \in CredCall
      /\ identity \in [Identities -> CredRow] /\ Absent \in CredRow
  BY FreeOK DEF CredInv, CallsOK, TablesOK, CallOK
<1>1. ASSUME NEW k \in SSHKeys, CountIdentities(c, k) PROVE CredInv'
  <2> DEFINE r == [Free EXCEPT !.pc = "countTargets", !.ref = k]
  <2>1. CallOK(r)
    BY <1>0, <1>1 DEF CountIdentities, CallOK, CredCall, Free
  <2> QED BY <1>1, <2>1, CallMoves DEF CountIdentities
<1>2. CASE CountTargets(c)
  <2>1. CASE \E t \in LinkTargets : link[t] = cred[c].ref
    BY <1>2, <2>1, CallMoves, FreeOK DEF CountTargets, Finish
  <2>2. CASE ~ \E t \in LinkTargets : link[t] = cred[c].ref
    <3> DEFINE r == [cred[c] EXCEPT !.pc = "deleteKey"]
    <3>1. CallOK(r)
      BY <1>0, <1>2, <2>2 DEF CountTargets, CallOK, CredCall
    <3>2. cred' = [cred EXCEPT ![c] = r]
      BY <1>0, <1>2, <2>2 DEF CountTargets, Proceed
    <3> HIDE DEF r
    <3> QED BY <1>2, <3>1, <3>2, CallMoves DEF CountTargets
  <2> QED BY <2>1, <2>2
<1>3. ASSUME NEW i \in Identities, ReadIdentity(c, i) PROVE CredInv'
  <2> DEFINE r == [Free EXCEPT !.pc = "edit", !.id = i, !.row = identity[i]]
  <2>1. CallOK(r)
    BY <1>0, <1>3 DEF ReadIdentity, CallOK, CredCall, Free, Present
  <2> QED BY <1>3, <2>1, CallMoves DEF ReadIdentity
<1>4. ASSUME NEW i \in Identities, CountLinks(c, i) PROVE CredInv'
  <2> DEFINE r == [Free EXCEPT !.pc = "deleteIdentity", !.ref = i]
  <2>1. CallOK(r)
    BY <1>0, <1>4 DEF CountLinks, CallOK, CredCall, Free
  <2> QED BY <1>4, <2>1, CallMoves DEF CountLinks
<1>5. ASSUME NEW i \in Identities, NEW password \in BOOLEAN, NEW key \in SSHKeys \cup {NoRef},
             ReadCreate(c, i, password, key)
      PROVE  CredInv'
  <2> DEFINE row == [there |-> TRUE, password |-> password, key |-> key]
             r == [Free EXCEPT !.pc = "insert", !.id = i, !.row = row]
  <2>1. row \in CredRow /\ row.there /\ Usable(row)
    BY <1>5 DEF ReadCreate, CredRow
  <2>2. cred' = [cred EXCEPT ![c] = r] /\ UNCHANGED <<sshKeys, identity, link, late>>
    BY <1>5 DEF ReadCreate
  <2> HIDE DEF row
  <2>3. CallOK(r)
    BY <1>0, <2>1 DEF CallOK, CredCall, Free
  <2> HIDE DEF r
  <2> QED BY <2>2, <2>3, CallMoves
<1>6. ASSUME NEW t \in LinkTargets, NEW ref \in SSHKeys \cup Identities \cup {NoRef}, ReadSource(c, t, ref)
      PROVE  CredInv'
  <2> DEFINE pc == IF ref \in Present /\ identity[ref].key # NoRef THEN "readKey" ELSE "setLink"
             row == IF ref \in Present THEN identity[ref] ELSE Absent
             r == [Free EXCEPT !.pc = pc, !.ref = ref, !.id = t, !.row = row]
  <2>1. row \in CredRow /\ pc \in {"readKey", "setLink"}
    BY <1>0 DEF Present
  <2>2. cred' = [cred EXCEPT ![c] = r] /\ UNCHANGED <<sshKeys, identity, link, late>>
    BY <1>6 DEF ReadSource
  <2> HIDE DEF row, pc
  <2>3. CallOK(r)
    BY <1>0, <2>1 DEF CallOK, CredCall, Free
  <2> HIDE DEF r
  <2> QED BY <2>2, <2>3, CallMoves
<1>7. CASE ReadIdentityKey(c)
  <2>1. CASE ~KeyFound(cred[c].row)
    BY <1>7, <2>1, CallMoves, FreeOK DEF ReadIdentityKey, Finish
  <2>2. CASE KeyFound(cred[c].row)
    <3> DEFINE r == [cred[c] EXCEPT !.pc = "setLink"]
    <3>1. CallOK(r)
      BY <1>0, <1>7 DEF ReadIdentityKey, CallOK, CredCall
    <3>2. cred' = [cred EXCEPT ![c] = r]
      BY <1>0, <1>7, <2>2 DEF ReadIdentityKey, Proceed
    <3> HIDE DEF r
    <3> QED BY <1>7, <3>1, <3>2, CallMoves DEF ReadIdentityKey
  <2> QED BY <2>1, <2>2
<1>8. CASE CredFails(c)
  BY <1>8, CallMoves, FreeOK DEF CredFails, Finish
<1> QED BY <1>1, <1>2, <1>3, <1>4, <1>5, <1>6, <1>7, <1>8

\* An edit judges the row as it will be.
LEMMA EditKeeps ==
  ASSUME CredInv, NEW c \in CredCalls, NEW password \in {"set", "clear", "keep"},
         NEW key \in SSHKeys \cup {NoRef, "keep"}, EditIdentity(c, password, key)
  PROVE  CredInv'
<1> DEFINE row == [cred[c].row EXCEPT !.password = IF password = "keep" THEN @ ELSE password = "set",
                                      !.key = IF key = "keep" THEN @ ELSE key]
           r == [cred[c] EXCEPT !.pc = "update", !.row = row]
<1>0. CallOK(cred[c]) /\ cred[c] \in CredCall /\ cred[c].row \in CredRow /\ cred \in [CredCalls -> CredCall]
  BY DEF CredInv, CallsOK, CallOK, CredCall
<1>1. cred[c].pc = "edit" /\ UNCHANGED <<sshKeys, identity, link, late>>
  BY DEF EditIdentity
<1>2. row \in CredRow /\ row.there = cred[c].row.there
  BY <1>0 DEF CredRow
<1>3. \/ cred' = [cred EXCEPT ![c] = Free]
      \/ Usable(row) /\ cred' = [cred EXCEPT ![c].pc = "update", ![c].row = row]
  BY DEF EditIdentity, Finish
<1> HIDE DEF row
<1>4. CASE cred' = [cred EXCEPT ![c] = Free]
  BY <1>1, <1>4, CallMoves, FreeOK
<1>5. CASE Usable(row) /\ cred' = [cred EXCEPT ![c].pc = "update", ![c].row = row]
  <2>1. cred' = [cred EXCEPT ![c] = r]
    BY <1>0, <1>5
  <2>2. CallOK(r)
    BY <1>0, <1>1, <1>2, <1>5 DEF CallOK, CredCall
  <2> HIDE DEF r
  <2> QED BY <1>1, <2>1, <2>2, CallMoves
<1> QED BY <1>3, <1>4, <1>5

\* A row is written: the reference it brings is marked when its key is being deleted.
LEMMA WriteKeeps ==
  ASSUME CredInv, NEW c \in CredCalls, InsertIdentity(c) \/ UpdateIdentity(c)
  PROVE  CredInv'
<1> DEFINE i == cred[c].id
           row == cred[c].row
           dying == \E d \in CredCalls : cred[d].pc \in {"countTargets", "deleteKey"} /\ cred[d].ref = row.key
<1>1. CallOK(cred[c]) /\ cred[c].pc \in {"insert", "update"}
  BY DEF CredInv, CallsOK, InsertIdentity, UpdateIdentity
<1>2. i \in Identities /\ row \in CredRow /\ row.there /\ Usable(row)
  BY <1>1 DEF CallOK, CredCall
<1>3. Finish(c) /\ UNCHANGED <<sshKeys, link>>
  BY DEF InsertIdentity, UpdateIdentity, WriteRow
<1>4. \/ UNCHANGED <<identity, late>>
      \/ identity' = [identity EXCEPT ![i] = row] /\ Mark(i, dying)
  BY DEF InsertIdentity, UpdateIdentity, WriteRow
<1>5. CASE UNCHANGED <<identity, late>>
  BY <1>3, <1>5, CallMoves, FreeOK DEF Finish
<1>6. CASE identity' = [identity EXCEPT ![i] = row] /\ Mark(i, dying)
  <2>1. \A d \in CredCalls : cred[d].pc \in {"countTargets", "deleteKey"} /\ cred[d].ref = row.key => i \in late'
    BY <1>6 DEF Mark
  <2> HIDE DEF i, row, dying
  <2>2. /\ \A x : x # i => (x \in late' <=> x \in late)
        /\ late' \subseteq Identities \cup LinkTargets
    BY <1>2, <1>6 DEF Mark, CredInv, TablesOK
  <2>3. /\ identity' \in [Identities -> CredRow]
        /\ \A j \in Identities : identity'[j] = IF j = i THEN row ELSE identity[j]
    BY <1>2, <1>6 DEF CredInv, TablesOK
  <2>4. \A t \in LinkTargets : t \in late' <=> t \in late
    BY <1>2, <2>2, CredAssumption
  <2>5. TablesOK'
    BY <1>3, <2>2, <2>3 DEF CredInv, TablesOK
  <2>6. Present \subseteq Present' /\ Present' \subseteq Present \cup {i}
    BY <1>2, <2>3 DEF Present
  <2>7. LinksResolve'
    BY <1>3, <2>4, <2>6 DEF CredInv, LibrarySound, LinksResolve
  <2>8. IdentitiesUsable'
    <3> SUFFICES ASSUME NEW j \in Present' PROVE Usable(identity'[j]) \/ j \in late'
      BY DEF IdentitiesUsable, Usable
    <3>1. CASE j = i
      BY <1>2, <2>3, <3>1
    <3>2. CASE j # i
      BY <2>2, <2>3, <2>6, <3>2 DEF CredInv, LibrarySound, IdentitiesUsable, Present
    <3> QED BY <3>1, <3>2
  <2>9. ASSUME NEW d \in CredCalls PROVE CallOK(cred[d])'
    <3>1. CASE d = c
      BY <1>3, <3>1, OthersStay, FreeOK DEF CallOK, Free
    <3>2. CASE d # c
      <4>1. cred'[d] = cred[d] /\ CallOK(cred[d])
        BY <1>3, <3>2, OthersStay DEF CredInv, CallsOK
      <4>2. cred[d].pc \in {"countTargets", "deleteKey"} =>
              \A j \in Identities : identity'[j].key = cred[d].ref => j \in late'
        BY <2>1, <2>2, <2>3, <4>1 DEF CallOK
      <4> QED BY <1>3, <2>4, <4>1, <4>2 DEF CallOK, Usable
    <3> QED BY <3>1, <3>2
  <2> QED BY <1>3, <2>5, <2>7, <2>8, <2>9, OthersStay DEF CredInv, CallsOK, LibrarySound
<1> QED BY <1>4, <1>5, <1>6

\* A key goes: the foreign key empties the identities that hold it, all of them
\* written past the count.
LEMMA DeleteKeyKeeps == ASSUME CredInv, NEW c \in CredCalls, DeleteKey(c) PROVE CredInv'
<1> DEFINE k == cred[c].ref
<1>1. /\ k \in SSHKeys
      /\ \A i \in Identities : identity[i].key = k => i \in late
      /\ \A t \in LinkTargets : link[t] = k => t \in late
  BY DEF CredInv, CallsOK, CallOK, DeleteKey
<1>2. Finish(c) /\ UNCHANGED <<link, late>> /\ sshKeys' = sshKeys \ {k}
  BY DEF DeleteKey
<1>3. identity' = [i \in Identities |->
        IF identity[i].key = k THEN [identity[i] EXCEPT !.key = NoRef] ELSE identity[i]]
  BY DEF DeleteKey
<1> HIDE DEF k
<1>4. /\ identity' \in [Identities -> CredRow]
      /\ \A i \in Identities : identity'[i].there = identity[i].there
      /\ \A i \in Identities : identity[i].key # k => identity'[i] = identity[i]
      /\ \A i \in Identities : identity'[i].key = identity[i].key \/ identity'[i].key = NoRef
  BY <1>3 DEF CredInv, TablesOK, CredRow
<1>5. TablesOK'
  BY <1>2, <1>4 DEF CredInv, TablesOK
<1>6. Present' = Present
  BY <1>4 DEF Present
<1>7. LinksResolve'
  BY <1>1, <1>2, <1>6 DEF CredInv, LibrarySound, LinksResolve
<1>8. IdentitiesUsable'
  BY <1>1, <1>2, <1>4, <1>6 DEF CredInv, LibrarySound, IdentitiesUsable, Usable, Present
<1>9. ASSUME NEW d \in CredCalls PROVE CallOK(cred[d])'
  <2>1. CASE d = c
    BY <1>2, <2>1, OthersStay, FreeOK DEF CallOK, Free
  <2>2. CASE d # c
    <3>1. cred'[d] = cred[d] /\ CallOK(cred[d])
      BY <1>2, <2>2, OthersStay DEF CredInv, CallsOK
    <3>2. cred[d].pc \in {"countTargets", "deleteKey"} =>
            \A j \in Identities : identity'[j].key = cred[d].ref => j \in late'
      BY <1>2, <1>4, <3>1, CredAssumption DEF CallOK
    <3> QED BY <1>2, <3>1, <3>2 DEF CallOK, Usable
  <2> QED BY <2>1, <2>2
<1> QED BY <1>2, <1>5, <1>7, <1>8, <1>9, OthersStay DEF CredInv, CallsOK, LibrarySound

\* An identity goes: the targets that still point at it were linked past the count.
LEMMA DeleteIdentityKeeps == ASSUME CredInv, NEW c \in CredCalls, DeleteIdentity(c) PROVE CredInv'
<1> DEFINE i == cred[c].ref
<1>1. i \in Identities /\ \A t \in LinkTargets : link[t] = i => t \in late
  BY DEF CredInv, CallsOK, CallOK, DeleteIdentity
<1>2. Finish(c) /\ UNCHANGED <<sshKeys, link, late>> /\ identity' = [identity EXCEPT ![i] = Absent]
  BY DEF DeleteIdentity
<1> HIDE DEF i
<1>3. /\ identity' \in [Identities -> CredRow]
      /\ \A j \in Identities : identity'[j] = IF j = i THEN Absent ELSE identity[j]
  BY <1>2, FreeOK DEF CredInv, TablesOK
<1>4. TablesOK'
  BY <1>2, <1>3 DEF CredInv, TablesOK
<1>5. Present' = Present \ {i}
  BY <1>3 DEF Present, Absent
<1>6. LinksResolve'
  BY <1>1, <1>2, <1>5 DEF CredInv, LibrarySound, LinksResolve
<1>7. IdentitiesUsable'
  BY <1>2, <1>3, <1>5 DEF CredInv, LibrarySound, IdentitiesUsable, Usable, Present
<1>8. ASSUME NEW d \in CredCalls PROVE CallOK(cred[d])'
  <2>1. CASE d = c
    BY <1>2, <2>1, OthersStay, FreeOK DEF CallOK, Free
  <2>2. CASE d # c
    <3>1. cred'[d] = cred[d] /\ CallOK(cred[d])
      BY <1>2, <2>2, OthersStay DEF CredInv, CallsOK
    <3>2. cred[d].pc \in {"countTargets", "deleteKey"} =>
            \A j \in Identities : identity'[j].key = cred[d].ref => j \in late'
      BY <1>2, <1>3, <3>1, CredAssumption DEF CallOK, Absent
    <3> QED BY <1>2, <3>1, <3>2 DEF CallOK, Usable
  <2> QED BY <2>1, <2>2
<1> QED BY <1>2, <1>4, <1>6, <1>7, <1>8, OthersStay DEF CredInv, CallsOK, LibrarySound

\* A target is linked: the link is marked when its source is gone or about to go.
LEMMA LinkKeeps == ASSUME CredInv, NEW c \in CredCalls, SetCredentialSource(c) PROVE CredInv'
<1> DEFINE t == cred[c].id
           ref == cred[c].ref
           isLate == \/ ref \notin sshKeys \cup Present \cup {NoRef}
                     \/ \E d \in CredCalls : cred[d].pc \in {"deleteKey", "deleteIdentity"}
                                             /\ cred[d].ref = ref /\ ref # NoRef
<1>1. t \in LinkTargets /\ ref \in SSHKeys \cup Identities \cup {NoRef}
  BY DEF CredInv, CallsOK, CallOK, CredCall, SetCredentialSource
<1>2. Finish(c) /\ UNCHANGED <<sshKeys, identity>> /\ link' = [link EXCEPT ![t] = ref] /\ Mark(t, isLate)
  BY DEF SetCredentialSource
<1>3. /\ ref \in sshKeys \cup Present \cup {NoRef} \/ t \in late'
      /\ \A d \in CredCalls : cred[d].pc \in {"deleteKey", "deleteIdentity"} /\ cred[d].ref = ref /\ ref # NoRef
                              => t \in late'
  BY <1>2 DEF Mark
<1> HIDE DEF t, ref, isLate
<1>4. /\ \A x : x # t => (x \in late' <=> x \in late)
      /\ late' \subseteq Identities \cup LinkTargets
  BY <1>1, <1>2 DEF Mark, CredInv, TablesOK
<1>5. /\ link' \in [LinkTargets -> SSHKeys \cup Identities \cup {NoRef}]
      /\ \A s \in LinkTargets : link'[s] = IF s = t THEN ref ELSE link[s]
  BY <1>1, <1>2 DEF CredInv, TablesOK
<1>6. \A i \in Identities : i \in late' <=> i \in late
  BY <1>1, <1>4, CredAssumption
<1>7. TablesOK' /\ Present' = Present
  BY <1>2, <1>4, <1>5 DEF CredInv, TablesOK, Present
<1>8. LinksResolve'
  BY <1>2, <1>3, <1>4, <1>5, <1>7 DEF CredInv, LibrarySound, LinksResolve
<1>9. IdentitiesUsable'
  BY <1>2, <1>6, <1>7 DEF CredInv, LibrarySound, IdentitiesUsable, Usable, Present
<1>10. ASSUME NEW d \in CredCalls PROVE CallOK(cred[d])'
  <2>1. CASE d = c
    BY <1>2, <2>1, OthersStay, FreeOK DEF CallOK, Free
  <2>2. CASE d # c
    <3>1. cred'[d] = cred[d] /\ CallOK(cred[d])
      BY <1>2, <2>2, OthersStay DEF CredInv, CallsOK
    <3>2. cred[d].pc \in {"deleteKey", "deleteIdentity"} =>
            \A s \in LinkTargets : link'[s] = cred[d].ref => s \in late'
      BY <1>3, <1>4, <1>5, <3>1, CredAssumption DEF CallOK
    <3> QED BY <1>2, <1>6, <3>1, <3>2 DEF CallOK, Usable
  <2> QED BY <2>1, <2>2
<1> QED BY <1>2, <1>7, <1>8, <1>9, <1>10, OthersStay DEF CredInv, CallsOK, LibrarySound

\* A link of a target dangles, and an identity is left without a secret, only when
\* the reference was written past the count of the deletion that broke it; for any
\* number of keys, identities, targets and requests in flight (LibrarySound, checked
\* on a small instance by the run `identity`).
THEOREM CredentialReferences == CredSpec => []LibrarySound
<1>1. CredInv /\ [CredNext]_credVars => CredInv'
  <2> SUFFICES ASSUME CredInv, [CredNext]_credVars PROVE CredInv'
    OBVIOUS
  <2>1. CASE UNCHANGED credVars
    BY <2>1 DEF credVars, CredInv, TablesOK, CallsOK, CallOK, LibrarySound, LinksResolve, IdentitiesUsable,
                Present, Usable
  <2>2. ASSUME NEW k \in SSHKeys, CreateKey(k) PROVE CredInv'
    <3>1. TablesOK' /\ LibrarySound'
      BY <2>2 DEF CreateKey, CredInv, TablesOK, LibrarySound, LinksResolve, IdentitiesUsable, Present, Usable
    <3> QED BY <2>2, <3>1 DEF CreateKey, CredInv, CallsOK, CallOK, Usable
  <2> QED BY <2>1, <2>2, ReadsKeep, EditKeeps, WriteKeeps, DeleteKeyKeeps, DeleteIdentityKeeps, LinkKeeps
          DEF CredNext
<1>2. CredInv => LibrarySound
  BY DEF CredInv
<1> QED BY <1>1, <1>2, CredStart, PTL DEF CredSpec

===============================================================================
