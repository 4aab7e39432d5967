----------------------------- MODULE StartupProofs -----------------------------
(***************************************************************************)
(* Proofs about Startup, for any number of attempts and of failures.       *)
(***************************************************************************)
EXTENDS Startup, TLAPS

(* The objects that the first revision makes, and those of all of them. *)
Made1 == {"users", "ix_users", "data_records", "ix_data_records",
          "metric_points", "ix_metric_points", "system_logs", "ix_system_logs"}
Made2 == Made1 \cup {"revoked_tokens", "ix_revoked_tokens"}

Ran(statement) ==
    IF statement.do = "create" THEN statement.object \in schema
                               ELSE statement.object \notin schema

(* What the database holds goes with the revision it records, but for what *)
(* a torn attempt at the next one left; this process's own statements have *)
(* all had their effect.                                                   *)
SchemaSound ==
    /\ version = 0 => schema \subseteq Made1
    /\ version = 1 => Made1 \subseteq schema /\ schema \subseteq Made2
    /\ version = 2 => Made2 \subseteq schema /\ schema \subseteq Made2 \cup {Early}
    /\ version = 3 => schema = Made2
    /\ version < 3 => \A i \in 1 .. done : Ran(Body[i])

(* How far the container is tells what it has established. *)
ContainerSound ==
    /\ pc \in {"upgrade", "connect", "count", "seed", "serving"} => ~unsafe_settings
    /\ pc \in {"connect", "count", "seed", "serving"} => version = 3
    /\ pc = "seed" => accounts = {} /\ settings.SEED_DEMO_USERS

StartupSound ==
    /\ TypeOK
    /\ SchemaSound
    /\ ContainerSound
-------------------------------------------------------------------------------
(* The revisions, written out. *)

LEMMA StatementSeq ==
    ASSUME NEW n \in Nat, NEW s, DOMAIN s = 1 .. n, s = [i \in 1 .. n |-> s[i]]
    PROVE  Len(s) = n
<1>1. s \in Seq({s[i] : i \in 1 .. n})
  OBVIOUS
<1>2. QED  BY <1>1

LEMMA Revision1 ==
    /\ DOMAIN Revisions[1] = 1 .. 8 /\ Len(Revisions[1]) = 8
    /\ \A i \in 1 .. 8 : Revisions[1][i].do = "create" /\ Revisions[1][i].object \in Made1
    /\ \A o \in Made1 : \E i \in 1 .. 8 : Revisions[1][i].object = o
<1> DEFINE objects == <<"users", "ix_users", "data_records", "ix_data_records",
                        "metric_points", "ix_metric_points", "system_logs", "ix_system_logs">>
<1>1. DOMAIN objects = 1 .. 8
  OBVIOUS
<1>2. /\ \A i \in 1 .. 8 : objects[i] \in Made1
      /\ \A o \in Made1 : \E i \in 1 .. 8 : objects[i] = o
  BY DEF Made1
<1>3. Revisions[1] = Statement("create", objects)
  BY DEF Revisions, Revision0001
<1> HIDE DEF objects
<1>4. Revisions[1] = [i \in 1 .. 8 |-> [do |-> "create", object |-> objects[i]]]
  BY <1>1, <1>3 DEF Statement
<1>5. Len(Revisions[1]) = 8
  BY <1>4, StatementSeq
<1>6. QED  BY <1>2, <1>4, <1>5

LEMMA Revision2 ==
    /\ DOMAIN Revisions[2] = 1 .. 2 /\ Len(Revisions[2]) = 2
    /\ \A i \in 1 .. 2 : Revisions[2][i].do = "create"
    /\ Revisions[2][1].object = "revoked_tokens"
    /\ Revisions[2][2].object = "ix_revoked_tokens"
<1> DEFINE objects == <<"revoked_tokens", "ix_revoked_tokens">>
<1>1. /\ DOMAIN objects = 1 .. 2
      /\ objects[1] = "revoked_tokens" /\ objects[2] = "ix_revoked_tokens"
  OBVIOUS
<1>2. Revisions[2] = Statement("create", objects)
  BY DEF Revisions, Revision0002
<1> HIDE DEF objects
<1>3. Revisions[2] = [i \in 1 .. 2 |-> [do |-> "create", object |-> objects[i]]]
  BY <1>1, <1>2 DEF Statement
<1>4. Len(Revisions[2]) = 2
  BY <1>3, StatementSeq
<1>5. QED  BY <1>1, <1>3, <1>4

LEMMA Revision3 ==
    /\ DOMAIN Revisions[3] = 1 .. 1 /\ Len(Revisions[3]) = 1
    /\ Revisions[3][1].do = "drop_if_there" /\ Revisions[3][1].object = Early
<1> DEFINE objects == <<Early>>
<1>1. DOMAIN objects = 1 .. 1 /\ objects[1] = Early
  OBVIOUS
<1>2. Revisions[3] = Statement("drop_if_there", objects)
  BY DEF Revisions, Revision0003, Early
<1> HIDE DEF objects
<1>3. Revisions[3] = [i \in 1 .. 1 |-> [do |-> "drop_if_there", object |-> objects[i]]]
  BY <1>1, <1>2 DEF Statement
<1>4. Len(Revisions[3]) = 1
  BY <1>3, StatementSeq
<1>5. QED  BY <1>1, <1>3, <1>4

LEMMA NewestIs == Newest = 3
BY DEF Newest, Revisions

(* The schemas of the recorded revisions. *)
LEMMA Schemas ==
    /\ Schema(0) = {} /\ Schema(1) = Made1 /\ Schema(2) = Made2 /\ Schema(3) = Made2
    /\ Objects(1 .. 3) = Made2 \cup {Early}
    /\ Early \notin Made2
<1>1. Early \notin Made2
  BY DEF Early, Made2, Made1
<1> DEFINE Of(r) == {Revisions[r][i].object : i \in DOMAIN Revisions[r]}
<1>2. Of(1) = Made1
  BY Revision1
<1>3. Of(2) = {"revoked_tokens", "ix_revoked_tokens"}
  BY Revision2
<1>4. Of(3) = {Early}
  BY Revision3
<1>5. \A S : Objects(S) = UNION {Of(r) : r \in S}
  BY DEF Objects
<1> HIDE DEF Of
<1>6. Objects(1 .. 0) = {}
  BY <1>5
<1>7. Objects(1 .. 1) = Of(1)
  <2>1. 1 .. 1 = {1}
    OBVIOUS
  <2>2. QED  BY <1>5, <2>1
<1>8. Objects(1 .. 2) = Of(1) \cup Of(2)
  <2>1. 1 .. 2 = {1, 2}
    OBVIOUS
  <2>2. QED  BY <1>5, <2>1
<1>9. Objects(1 .. 3) = Of(1) \cup Of(2) \cup Of(3)
  <2>1. 1 .. 3 = {1, 2, 3}
    OBVIOUS
  <2>2. QED  BY <1>5, <2>1
<1>10. QED
  BY <1>1, <1>2, <1>3, <1>4, <1>6, <1>7, <1>8, <1>9 DEF Schema, Made2
-------------------------------------------------------------------------------
(* The inductive invariant. *)

Places == {"exited", "port", "settings", "upgrade", "connect", "count",
           "seed", "serving", "stopped"}

LEMMA StartupInit == Init => StartupSound
<1> SUFFICES ASSUME Init PROVE StartupSound
  OBVIOUS
<1>1. version \in 0 .. 3 /\ done = 0 /\ pc = "port"
  BY NewestIs DEF Init
<1>2. /\ version = 0 => Schema(version) = {}
      /\ version = 1 => Schema(version) = Made1
      /\ version \in {2, 3} => Schema(version) = Made2
  BY Schemas
<1>3. /\ schema \in {Schema(version), Schema(version) \cup {Early}}
      /\ Early \in schema => version = 2
  BY DEF Init
<1>4. /\ version = 0 => schema = {}
      /\ version = 1 => schema = Made1
      /\ version = 2 => Made2 \subseteq schema /\ schema \subseteq Made2 \cup {Early}
      /\ version = 3 => schema = Made2
  BY <1>1, <1>2, <1>3
<1>5. Made1 \subseteq Made2
  BY DEF Made2
<1>6. schema \subseteq Objects(1 .. Newest)
  BY <1>1, <1>4, <1>5, NewestIs, Schemas
<1>7. TypeOK
  BY <1>1, <1>6, StartupAssumption, NewestIs DEF Init, TypeOK, Names
<1>8. SchemaSound
  BY <1>1, <1>4, <1>5 DEF SchemaSound
<1>9. ContainerSound
  BY <1>1 DEF ContainerSound
<1>10. QED  BY <1>7, <1>8, <1>9 DEF StartupSound

(* The container goes from one place to another, the schema as it was. *)
LEMMA PlaceChanges ==
    ASSUME StartupSound, NEW place \in Places, Goto(place),
           UNCHANGED <<schema, version>>,
           settings' \in Settings, reachable' \in BOOLEAN, failures' \in 0 .. MaxFailures,
           accounts' \subseteq Names, records' \subseteq accounts',
           place \in {"upgrade", "connect", "count", "seed", "serving"} => ~unsafe_settings',
           place \in {"connect", "count", "seed", "serving"} => version = 3,
           place = "seed" => accounts' = {} /\ settings'.SEED_DEMO_USERS
    PROVE  StartupSound'
<1>1. pc' = place /\ tries' = 0 /\ done' = 0
  BY DEF Goto
<1>2. TypeOK'
  BY <1>1, StartupAssumption DEF StartupSound, TypeOK, Places
<1>3. SchemaSound'
  BY <1>1 DEF StartupSound, SchemaSound
<1>4. ContainerSound'
  BY <1>1 DEF ContainerSound
<1>5. QED  BY <1>2, <1>3, <1>4 DEF StartupSound

(* The container stays where it is. *)
LEMMA PlaceStays ==
    ASSUME StartupSound, UNCHANGED <<settings, schema, version, pc, done>>,
           tries' \in Nat, pc = "port" => tries' < PortTries,
           pc = "connect" => tries' < ConnectTries,
           reachable' \in BOOLEAN, failures' \in 0 .. MaxFailures,
           accounts' \subseteq Names, records' \subseteq accounts',
           accounts' = accounts \/ pc = "serving"
    PROVE  StartupSound'
<1>1. TypeOK'
  BY DEF StartupSound, TypeOK, Upgrading, Body
<1>2. SchemaSound'
  BY DEF StartupSound, SchemaSound, Ran, Body
<1>3. ContainerSound'
  BY DEF StartupSound, ContainerSound, unsafe_settings
<1>4. QED  BY <1>1, <1>2, <1>3 DEF StartupSound

LEMMA AttemptsSound ==
    ASSUME StartupSound,
           \/ Attempts("port", PortTries, "settings")
           \/ Attempts("connect", ConnectTries, "count")
    PROVE  StartupSound'
<1> USE DEF Places
<1>a. /\ TypeOK
      /\ pc = "connect" => version = 3 /\ ~unsafe_settings
  BY DEF StartupSound, ContainerSound
<1>b. UNCHANGED <<settings, reachable, tables, failures>> /\ unsafe_settings' = unsafe_settings
  BY DEF Attempts, unsafe_settings
<1>1. CASE UNCHANGED <<pc, done>>
  <2>1. tries' \in Nat /\ (pc = "port" => tries' < PortTries)
                       /\ (pc = "connect" => tries' < ConnectTries)
    BY <1>1, <1>a, StartupAssumption DEF Attempts, TypeOK, Goto
  <2>2. QED  BY <1>1, <1>a, <1>b, <2>1, PlaceStays DEF TypeOK, tables
<1>2. CASE Goto("exited") \/ (pc = "port" /\ Goto("settings"))
                          \/ (pc = "connect" /\ Goto("count"))
  BY <1>2, <1>a, <1>b, PlaceChanges DEF TypeOK, tables
<1>3. QED  BY <1>1, <1>2 DEF Attempts

(* The revision under way. *)
LEMMA Bodies ==
    /\ version = 0 =>
          /\ Len(Body) = 8
          /\ \A i \in 1 .. 8 : Body[i].do = "create" /\ Body[i].object \in Made1
          /\ \A o \in Made1 : \E i \in 1 .. 8 : Body[i].object = o
    /\ version = 1 =>
          /\ Len(Body) = 2
          /\ \A i \in 1 .. 2 : Body[i].do = "create" /\ Body[i].object \in Made2
          /\ \A o \in Made2 \ Made1 : \E i \in 1 .. 2 : Body[i].object = o
    /\ version = 2 =>
          /\ Len(Body) = 1
          /\ Body[1].do = "drop_if_there" /\ Body[1].object = Early
<1>1. CASE version = 0
  <2>1. Body = Revisions[1]
    BY <1>1 DEF Body
  <2>2. QED  BY <1>1, <2>1, Revision1
<1>2. CASE version = 1
  <2>1. Body = Revisions[2]
    BY <1>2 DEF Body
  <2>2. \A i \in 1 .. 2 : i = 1 \/ i = 2
    OBVIOUS
  <2>3. QED  BY <1>2, <2>1, <2>2, Revision2 DEF Made2
<1>3. CASE version = 2
  <2>1. Body = Revisions[3]
    BY <1>3 DEF Body
  <2>2. QED  BY <1>3, <2>1, Revision3
<1>4. QED  BY <1>1, <1>2, <1>3

(* A statement of upgrade() has its effect, and only its effect. *)
LEMMA RunStatementSound ==
    ASSUME StartupSound, RunStatement
    PROVE  StartupSound'
<1> DEFINE b == Body[done + 1]
<1>a. /\ Upgrading /\ version \in 0 .. 2 /\ done \in Nat /\ done + 1 <= Len(Body)
      /\ Succeeds(b) /\ done' = done + 1
      /\ schema' = IF b.do = "create" THEN schema \cup {b.object} ELSE schema \ {b.object}
      /\ UNCHANGED <<settings, reachable, version, accounts, records, pc, tries, failures>>
  BY NewestIs DEF RunStatement, StartupSound, TypeOK, Upgrading
<1>b. Body' = Body /\ Upgrading'
  BY <1>a DEF Body, Upgrading
<1>c. done \in Nat /\ done + 1 <= Len(Body)
  BY <1>a
<1>1. /\ version = 0 => b.do = "create" /\ b.object \in Made1
      /\ version = 1 => b.do = "create" /\ b.object \in Made2
      /\ version = 2 => b.do # "create" /\ b.object = Early
  <2>1. CASE version = 0
    <3>1. Len(Body) = 8
      BY <2>1, Bodies
    <3>2. done + 1 \in 1 .. 8
      BY <1>c, <3>1
    <3>3. QED  BY <2>1, <3>2, Bodies
  <2>2. CASE version = 1
    <3>1. Len(Body) = 2
      BY <2>2, Bodies
    <3>2. done + 1 \in 1 .. 2
      BY <1>c, <3>1
    <3>3. QED  BY <2>2, <3>2, Bodies
  <2>3. CASE version = 2
    <3>1. Len(Body) = 1
      BY <2>3, Bodies
    <3>2. done + 1 = 1
      BY <1>c, <3>1
    <3>3. QED  BY <2>3, <3>2, Bodies
  <2>4. QED  BY <1>a, <2>1, <2>2, <2>3
<1>2. \A i \in 1 .. done + 1 : Ran(Body[i])'
  <2>1. SUFFICES ASSUME NEW i \in 1 .. done + 1 PROVE Ran(Body[i])'
    OBVIOUS
  <2>2. CASE i = done + 1
    BY <1>a, <1>b, <2>2 DEF Ran
  <2>3. CASE i # done + 1
    <3>1. i \in 1 .. done /\ Ran(Body[i])
      BY <1>a, <2>1, <2>3 DEF StartupSound, SchemaSound
    <3>2. Body[i].do = "create" /\ b.do = "create"
      <4>1. CASE version = 0
        <5>1. Len(Body) = 8
          BY <4>1, Bodies
        <5>2. i \in 1 .. 8
          BY <1>c, <3>1, <5>1
        <5>3. QED  BY <1>1, <4>1, <5>2, Bodies
      <4>2. CASE version = 1
        <5>1. Len(Body) = 2
          BY <4>2, Bodies
        <5>2. i \in 1 .. 2
          BY <1>c, <3>1, <5>1
        <5>3. QED  BY <1>1, <4>2, <5>2, Bodies
      <4>3. CASE version = 2
        <5>1. Len(Body) = 1
          BY <4>3, Bodies
        <5>2. FALSE
          BY <1>c, <3>1, <5>1
        <5>3. QED  BY <5>2
      <4>4. QED  BY <1>a, <4>1, <4>2, <4>3
    <3>3. QED  BY <1>a, <1>b, <3>1, <3>2 DEF Ran
  <2>4. QED  BY <2>2, <2>3
<1>3. SchemaSound'
  BY <1>a, <1>1, <1>2, Schemas DEF StartupSound, SchemaSound, Made2
<1>4. TypeOK'
  <2>1. schema' \subseteq Objects(1 .. Newest)
    BY <1>a, <1>1, NewestIs, Schemas DEF StartupSound, TypeOK, Made2
  <2>2. QED
    BY <1>a, <1>b, <2>1 DEF StartupSound, TypeOK
<1>5. ContainerSound'
  BY <1>a DEF StartupSound, ContainerSound, unsafe_settings
<1>6. QED  BY <1>3, <1>4, <1>5 DEF StartupSound

(* A revision is recorded when all of its statements have had theirs. *)
LEMMA StampSound ==
    ASSUME StartupSound, Stamp
    PROVE  StartupSound'
<1>a. /\ Upgrading /\ version \in 0 .. 2 /\ done = Len(Body)
      /\ version' = version + 1 /\ done' = 0
      /\ UNCHANGED <<settings, reachable, schema, accounts, records, pc, tries, failures>>
  BY NewestIs DEF Stamp, StartupSound, TypeOK, Upgrading
<1>b. /\ SchemaSound
      /\ \A i \in 1 .. done : Ran(Body[i])
  BY <1>a DEF StartupSound, SchemaSound
<1>1. version = 0 => Made1 \subseteq schema
  <2>1. SUFFICES ASSUME version = 0, NEW o \in Made1 PROVE o \in schema
    OBVIOUS
  <2>2. done = 8
    BY <1>a, <2>1, Bodies
  <2>3. PICK i \in 1 .. 8 : Body[i].do = "create" /\ Body[i].object = o
    BY <2>1, Bodies
  <2>4. QED  BY <1>b, <2>2, <2>3 DEF Ran
<1>2. version = 1 => Made2 \subseteq schema
  BY <1>a, <1>b, Bodies DEF Ran, SchemaSound
<1>3. version = 2 => Early \notin schema
  BY <1>a, <1>b, Bodies DEF Ran
<1>4. SchemaSound'
  BY <1>a, <1>b, <1>1, <1>2, <1>3 DEF SchemaSound, Made2
<1>5. TypeOK'
  BY <1>a, NewestIs DEF StartupSound, TypeOK, Upgrading
<1>6. ContainerSound'
  BY <1>a DEF StartupSound, ContainerSound, Upgrading, unsafe_settings
<1>7. QED  BY <1>4, <1>5, <1>6 DEF StartupSound

LEMMA StartupStep == StartupSound /\ [Next]_vars => StartupSound'
<1> SUFFICES ASSUME StartupSound, [Next]_vars PROVE StartupSound'
  OBVIOUS
<1> USE DEF Places, tables
<1>a. /\ TypeOK /\ ContainerSound
      /\ pc = "upgrade" /\ version = Newest => version = 3
      /\ Upgrading => pc = "upgrade"
  BY NewestIs DEF StartupSound, Upgrading
<1>b. DemoUsers \subseteq Names /\ DemoOwners \subseteq DemoUsers
  BY DEF DemoUsers, DemoOwners, Names
<1>1. CASE Restart
  BY <1>1, <1>a, PlaceChanges DEF Restart, TypeOK
<1>2. CASE LoadSettings
  <2>1. unsafe_settings' = unsafe_settings
    BY <1>2 DEF LoadSettings, unsafe_settings
  <2>2. QED  BY <1>2, <1>a, <2>1, PlaceChanges DEF LoadSettings, TypeOK
<1>3. CASE UpgradeRaises
  BY <1>3, <1>a, PlaceChanges DEF UpgradeRaises, TypeOK
<1>4. CASE UpgradeDone
  <2>1. unsafe_settings' = unsafe_settings
    BY <1>4 DEF UpgradeDone, unsafe_settings
  <2>2. QED
    BY <1>4, <1>a, <2>1, PlaceChanges DEF UpgradeDone, TypeOK, ContainerSound
<1>5. CASE CountAccounts
  <2>1. unsafe_settings' = unsafe_settings
    BY <1>5 DEF CountAccounts, unsafe_settings
  <2>2. QED
    BY <1>5, <1>a, <2>1, PlaceChanges DEF CountAccounts, TypeOK, ContainerSound
<1>6. CASE Seed
  <2>1. unsafe_settings' = unsafe_settings
    BY <1>6 DEF Seed, unsafe_settings
  <2>2. QED
    BY <1>6, <1>a, <1>b, <2>1, PlaceChanges
       DEF Seed, SeedLost, SeedApplied, TypeOK, ContainerSound
<1>7. CASE Crash
  <2>1. failures' \in 0 .. MaxFailures
    BY <1>7, <1>a, StartupAssumption DEF Crash, TypeOK
  <2>2. QED
    BY <1>7, <1>a, <1>b, <2>1, PlaceChanges DEF Crash, SeedLost, SeedApplied, TypeOK
<1>8. CASE DatabaseStops
  <2>1. failures' \in 0 .. MaxFailures
    BY <1>8, <1>a, StartupAssumption DEF DatabaseStops, TypeOK
  <2>2. QED  BY <1>8, <1>a, <2>1, PlaceStays DEF DatabaseStops, TypeOK
<1>9. CASE DatabaseStarts
  BY <1>9, <1>a, PlaceStays DEF DatabaseStarts, TypeOK
<1>10. CASE Stop
  BY <1>10, <1>a, PlaceChanges DEF Stop, TypeOK
<1>11. CASE Deploy
  BY <1>11, <1>a, PlaceChanges DEF Deploy, TypeOK
<1>12. CASE Request
  <2>1. /\ UNCHANGED <<settings, reachable, schema, version, pc, tries, done, failures>>
        /\ pc = "serving"
    BY <1>12 DEF Request
  <2>2. accounts' \subseteq Names /\ records' \subseteq accounts'
    BY <1>12, <1>a DEF Request, TypeOK
  <2>3. QED  BY <1>a, <2>1, <2>2, PlaceStays DEF TypeOK
<1>13. CASE UNCHANGED vars
  BY <1>13, <1>a, PlaceStays DEF vars, TypeOK
<1>14. QED
  BY <1>1, <1>2, <1>3, <1>4, <1>5, <1>6, <1>7, <1>8, <1>9, <1>10, <1>11, <1>12, <1>13,
     AttemptsSound, RunStatementSound, StampSound
     DEF Next, StartStep, WaitForPort, WaitForDatabase

(* What the container and the database are in at any moment of             *)
(* entrypoint.sh, alembic and lifespan() together.                         *)
THEOREM StartupInvariant == Spec => []StartupSound
<1>1. QED  BY StartupInit, StartupStep, PTL DEF Spec

(* The state of a start always has its types. *)
THEOREM TypeCorrect == Spec => []TypeOK
<1>1. StartupSound => TypeOK
  BY DEF StartupSound
<1>2. QED  BY <1>1, StartupInvariant, PTL

(* lifespan() of main.py never runs over an incomplete schema, wherever    *)
(* and however often "alembic upgrade head" was cut off before.            *)
THEOREM WholeSchema == Spec => []ServesWholeSchema
<1>1. StartupSound => ServesWholeSchema
  BY Schemas, NewestIs DEF StartupSound, SchemaSound, ContainerSound, ServesWholeSchema
<1>2. QED  BY <1>1, StartupInvariant, PTL

(* A step of anything but a request leaves the accounts and the records as *)
(* they are, or is the whole of seed_demo_data().                          *)
LEMMA SeedStep ==
    ASSUME StartupSound, [Next]_vars, pc # "serving",
           <<accounts, records>>' # <<accounts, records>>
    PROVE  /\ accounts = {} /\ records = {}
           /\ accounts' = DemoUsers /\ records' = DemoOwners
           /\ ~settings.production
<1>1. pc = "seed" /\ SeedApplied
  BY DEF Next, StartStep, vars, tables, Restart, WaitForPort, LoadSettings, RunStatement,
         Stamp, UpgradeRaises, UpgradeDone, WaitForDatabase, CountAccounts, Seed, Request,
         Crash, DatabaseStops, DatabaseStarts, Stop, Deploy, Attempts, SeedLost
<1>2. /\ accounts = {} /\ records \subseteq accounts
      /\ settings.SEED_DEMO_USERS /\ ~unsafe_settings
  BY <1>1 DEF StartupSound, TypeOK, ContainerSound
<1>3. QED  BY <1>1, <1>2 DEF SeedApplied, unsafe_settings

(* seed_demo_data() fills an empty table with all of its accounts and      *)
(* their records or does nothing, crash or not, and never in production.   *)
THEOREM SeedsWhole == Spec => SeedIsWhole
<1>1. StartupSound /\ [Next]_vars =>
          [pc # "serving" /\ <<accounts, records>>' # <<accounts, records>> =>
              /\ accounts = {} /\ records = {}
              /\ accounts' = DemoUsers /\ records' = DemoOwners
              /\ ~settings.production]_vars
  BY SeedStep
<1>2. QED  BY <1>1, StartupInvariant, PTL DEF Spec, SeedIsWhole
===============================================================================
