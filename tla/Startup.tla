------------------------------- MODULE Startup -------------------------------
(***************************************************************************)
(* How the backend container comes up: entrypoint.sh waits for the port of *)
(* the database and runs "alembic upgrade head", then lifespan() of        *)
(* main.py waits for the database once more, seeds it, and serves.         *)
(* Whatever fails ends the container, and its restart policy starts it     *)
(* again.  MariaDB commits every statement that changes the schema by      *)
(* itself, and Alembic records a revision after its last statement.        *)
(***************************************************************************)
EXTENDS Naturals, Sequences

CONSTANTS
    PortTries,     \* attempts of entrypoint.sh to reach the port
    ConnectTries,  \* retries of _wait_for_database()
    MaxFailures    \* bound: crashes of the container or the database

ASSUME StartupAssumption ==
    /\ PortTries \in Nat \ {0} /\ ConnectTries \in Nat \ {0}
    /\ MaxFailures \in Nat

Statement(do, objects) == [i \in DOMAIN objects |-> [do |-> do, object |-> objects[i]]]

(* The statements of upgrade() of each revision; the indexes of a table    *)
(* count as one object.                                                    *)
Revision0001 == Statement("create",
    <<"users", "ix_users", "data_records", "ix_data_records",
      "metric_points", "ix_metric_points", "system_logs", "ix_system_logs">>)
Revision0002 == Statement("create", <<"revoked_tokens", "ix_revoked_tokens">>)
Revision0003 == Statement("drop_if_there", <<"ix_revoked_tokens_jti">>)

Revisions == <<Revision0001, Revision0002, Revision0003>>
Newest == Len(Revisions)

Objects(S) == UNION {{Revisions[r][i].object : i \in DOMAIN Revisions[r]} : r \in S}
Early == "ix_revoked_tokens_jti"   \* made by an early edition of revision 0002
Schema(v) == Objects(1 .. v) \ {Early}

(* The accounts of DEMO_USERS, those that own demo records, and another.   *)
DemoUsers == {"admin", "user", "viewer"}
DemoOwners == {"admin", "user"}
Names == DemoUsers \cup {"other"}

VARIABLES
    settings,   \* what Settings is made from: the environment of the container
    reachable,  \* MariaDB answers
    schema,     \* the objects of the database
    version,    \* the number of revisions recorded in alembic_version
    accounts,   \* users, by name
    records,    \* the owners of the demo records that are left
    pc,         \* what the container is doing
    tries,      \* failed attempts of the present loop
    done,       \* statements of the present revision that this process ran
    failures

vars == <<settings, reachable, schema, version, accounts, records, pc, tries, done, failures>>
tables == <<schema, version, accounts, records>>

Settings == [production : BOOLEAN, SEED_DEMO_USERS : BOOLEAN, own_secrets : BOOLEAN]

(* A new volume, or the database of an earlier deployment. *)
Init ==
    /\ settings \in Settings
    /\ reachable \in BOOLEAN
    /\ version \in 0 .. Newest
    /\ schema \in {Schema(version), Schema(version) \cup {Early}}
    /\ Early \in schema => version = 2
    /\ accounts \in {{}, {"other"}}
    /\ version = 0 => accounts = {}
    /\ records = {}
    /\ pc = "port"
    /\ tries = 0
    /\ done = 0
    /\ failures = 0
-------------------------------------------------------------------------------
Goto(place) == pc' = place /\ tries' = 0 /\ done' = 0

(* Mutant of Attempts: the last failed attempt is followed by another. *)
AttemptsOneMore(place, limit, next) ==
    /\ pc = place
    /\ \/ reachable /\ Goto(next)
       \/ ~reachable /\ tries < limit /\ tries' = tries + 1 /\ UNCHANGED <<pc, done>>
       \/ ~reachable /\ tries = limit /\ Goto("exited")
    /\ UNCHANGED <<settings, reachable, tables, failures>>

(* A loop of attempts: an answer, one more failure, or the last one. *)
Attempts(place, limit, next) ==
    /\ pc = place
    /\ \/ reachable /\ Goto(next)
       \/ ~reachable /\ tries + 1 < limit /\ tries' = tries + 1 /\ UNCHANGED <<pc, done>>
       \/ ~reachable /\ tries + 1 = limit /\ Goto("exited")
    /\ UNCHANGED <<settings, reachable, tables, failures>>

(* restart: unless-stopped. *)
Restart ==
    /\ pc = "exited"
    /\ Goto("port")
    /\ UNCHANGED <<settings, reachable, tables, failures>>

WaitForPort == Attempts("port", PortTries, "settings")

(* _validate_production_security(), in the first process that reads the    *)
(* settings: that of Alembic.                                              *)
unsafe_settings ==
    settings.production /\ (~settings.own_secrets \/ settings.SEED_DEMO_USERS)

LoadSettings ==
    /\ pc = "settings"
    /\ Goto(IF unsafe_settings THEN "exited" ELSE "upgrade")
    /\ UNCHANGED <<settings, reachable, tables, failures>>
-------------------------------------------------------------------------------
(* alembic upgrade head. *)

Upgrading == pc = "upgrade" /\ version < Newest
Body == Revisions[version + 1]

(* Mutant of Succeeds: revision 0003 does not look for the index first. *)
SucceedsIfThere(statement) ==
    IF statement.do = "create" THEN statement.object \notin schema
                               ELSE statement.object \in schema

(* What has been created already cannot be created again. *)
Succeeds(statement) ==
    statement.do = "create" => statement.object \notin schema

RunStatement ==
    /\ Upgrading
    /\ done < Len(Body) /\ Succeeds(Body[done + 1])
    /\ reachable
    /\ schema' = IF Body[done + 1].do = "create"
                 THEN schema \cup {Body[done + 1].object}
                 ELSE schema \ {Body[done + 1].object}
    /\ done' = done + 1
    /\ UNCHANGED <<settings, reachable, version, accounts, records, pc, tries, failures>>

(* The revision is recorded, with the commit that ends it. *)
Stamp ==
    /\ Upgrading
    /\ done = Len(Body)
    /\ reachable
    /\ version' = version + 1
    /\ done' = 0
    /\ UNCHANGED <<settings, reachable, schema, accounts, records, pc, tries, failures>>

UpgradeFails ==
    \/ pc = "upgrade" /\ ~reachable
    \/ Upgrading /\ done < Len(Body) /\ ~Succeeds(Body[done + 1])

(* Mutant of UpgradeRaises: entrypoint.sh without "set -e". *)
UpgradeRaisesUnseen ==
    /\ UpgradeFails
    /\ Goto("connect")
    /\ UNCHANGED <<settings, reachable, tables, failures>>

(* A statement fails: "set -e" ends entrypoint.sh, and the container. *)
UpgradeRaises ==
    /\ UpgradeFails
    /\ Goto("exited")
    /\ UNCHANGED <<settings, reachable, tables, failures>>

(* exec "$@": the server takes the place of the script. *)
UpgradeDone ==
    /\ pc = "upgrade" /\ version = Newest
    /\ reachable
    /\ Goto("connect")
    /\ UNCHANGED <<settings, reachable, tables, failures>>
-------------------------------------------------------------------------------
(* lifespan(). *)

WaitForDatabase == Attempts("connect", ConnectTries, "count")

(* seed_demo_data() counts the accounts, unless it is switched off. *)
CountAccounts ==
    /\ pc = "count"
    /\ \/ ~settings.SEED_DEMO_USERS /\ Goto("serving")
       \/ settings.SEED_DEMO_USERS /\ reachable
            /\ Goto(IF accounts = {} THEN "seed" ELSE "serving")
       \/ settings.SEED_DEMO_USERS /\ ~reachable /\ Goto("exited")
    /\ UNCHANGED <<settings, reachable, tables, failures>>

SeedApplied ==
    /\ accounts' = DemoUsers
    /\ records' = DemoOwners
    /\ UNCHANGED <<schema, version>>

(* Mutant of SeedLost: the accounts are committed before the records. *)
SeedLostHalfway ==
    \/ UNCHANGED tables
    \/ accounts' = DemoUsers /\ UNCHANGED <<schema, version, records>>

(* The transaction is lost, or its commit is done and only its answer lost. *)
SeedLost == UNCHANGED tables \/ SeedApplied

(* Accounts and records in one transaction; then the server serves. *)
Seed ==
    /\ pc = "seed"
    /\ \/ reachable /\ SeedApplied /\ Goto("serving")
       \/ ~reachable /\ SeedLost /\ Goto("exited")
    /\ UNCHANGED <<settings, reachable, failures>>

(* Accounts and records come and go by requests, as RecordService has it.  *)
(* Two administrators who delete each other can leave no account at all.   *)
Request ==
    /\ pc = "serving" /\ reachable
    /\ \/ \E n \in Names \ accounts :
             accounts' = accounts \cup {n} /\ UNCHANGED records
       \/ \E n \in accounts :
             accounts' = accounts \ {n} /\ records' = records \ {n}
       \/ \E n \in records :
             records' = records \ {n} /\ UNCHANGED accounts
    /\ UNCHANGED <<settings, reachable, schema, version, pc, tries, done, failures>>
-------------------------------------------------------------------------------
(* The container is killed at any point, inside the commit of the seeding  *)
(* too.                                                                    *)
Crash ==
    /\ pc \notin {"exited", "stopped"}
    /\ failures < MaxFailures /\ failures' = failures + 1
    /\ IF pc = "seed" /\ reachable THEN SeedLost ELSE UNCHANGED tables
    /\ Goto("exited")
    /\ UNCHANGED <<settings, reachable>>

DatabaseStops ==
    /\ reachable
    /\ failures < MaxFailures /\ failures' = failures + 1
    /\ reachable' = FALSE
    /\ UNCHANGED <<settings, tables, pc, tries, done>>

DatabaseStarts ==
    /\ ~reachable
    /\ reachable' = TRUE
    /\ UNCHANGED <<settings, tables, pc, tries, done, failures>>

(* The operator stops a server, and starts one with other settings. *)
Stop ==
    /\ pc = "serving"
    /\ Goto("stopped")
    /\ UNCHANGED <<settings, reachable, tables, failures>>

Deploy ==
    /\ pc = "stopped"
    /\ settings' \in Settings
    /\ Goto("port")
    /\ UNCHANGED <<reachable, tables, failures>>

StartStep ==
    \/ Restart \/ WaitForPort \/ LoadSettings
    \/ RunStatement \/ Stamp \/ UpgradeRaises \/ UpgradeDone
    \/ WaitForDatabase \/ CountAccounts \/ Seed

Next ==
    \/ StartStep
    \/ Request \/ Crash \/ DatabaseStops \/ DatabaseStarts \/ Stop \/ Deploy

(* The container goes on, and both containers are started again after a    *)
(* failure, as docker-compose.yml asks for.                                *)
Spec == Init /\ [][Next]_vars /\ WF_vars(StartStep) /\ WF_vars(DatabaseStarts)
-------------------------------------------------------------------------------
(* The values the variables take. *)
TypeOK ==
    /\ settings \in Settings
    /\ reachable \in BOOLEAN
    /\ schema \subseteq Objects(1 .. Newest)
    /\ version \in 0 .. Newest
    /\ accounts \subseteq Names
    /\ records \subseteq accounts
    /\ pc \in {"exited", "port", "settings", "upgrade", "connect", "count",
               "seed", "serving", "stopped"}
    /\ tries \in Nat /\ (pc = "port" => tries < PortTries)
                     /\ (pc = "connect" => tries < ConnectTries)
    /\ done \in Nat /\ (done > 0 => Upgrading /\ done <= Len(Body))
    /\ failures \in 0 .. MaxFailures

(* README: "a failed migration ends the startup, so that nothing goes on   *)
(* with an incomplete schema".  Once lifespan() runs, every object of      *)
(* every revision is there and the duplicate index is not, wherever        *)
(* earlier attempts at the upgrade were cut off.                           *)
ServesWholeSchema ==
    pc \in {"connect", "count", "seed", "serving"} =>
        version = Newest /\ schema = Schema(Newest)

(* Accounts appear otherwise than by a request only in an empty table, all *)
(* of DEMO_USERS at once and with their records, be the commit answered or *)
(* not; and never in a production environment.                             *)
SeedIsWhole ==
    [][ pc # "serving" /\ <<accounts, records>>' # <<accounts, records>> =>
          /\ accounts = {} /\ records = {}
          /\ accounts' = DemoUsers /\ records' = DemoOwners
          /\ ~settings.production ]_vars

(* An earlier upgrade was cut off between a statement and its Stamp: the   *)
(* objects in the way of the next one are those this process did not make. *)
Torn ==
    /\ version < Newest
    /\ \E i \in done + 1 .. Len(Body) :
           Body[i].do = "create" /\ Body[i].object \in schema

(* The container serves in the end, through any finite number of crashes   *)
(* and outages, unless a crash tore a revision, which no restart mends, or *)
(* the settings are refused.                                               *)
StartsUp ==
    pc # "stopped" ~> pc \in {"serving", "stopped"} \/ Torn \/ unsafe_settings
===============================================================================
