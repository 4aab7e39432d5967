---------------------------- MODULE RecordService ----------------------------
(***************************************************************************)
(* The table of data records, which belong to the accounts of UserService: *)
(* backend/app/services/record_service.py with the endpoints of            *)
(* api/v1/records.py.  A request has the same shape as there: checks on    *)
(* one snapshot, the commit, and a read of what was written.               *)
(*                                                                         *)
(* The foreign key on owner_id ties the tables: a record cannot be written *)
(* for an account that is gone, and the deletion of an account takes its   *)
(* records along, those created since it was read included.                *)
(***************************************************************************)
EXTENDS UserService

CONSTANTS
    Texts,      \* values of the columns of a record
    Null,       \* an empty column
    Imports,    \* sizes of a file's usable rows, for the import
    MaxRecords  \* bound: records ever created

ASSUME TextsAssumption == Keep \notin Texts /\ Null \notin Texts
ASSUME ImportsAssumption == Imports \subseteq Nat
ASSUME MaxRecordsAssumption == MaxRecords \in Nat /\ MaxRecords >= 2

VARIABLES
    records,     \* the rows of the table, by id
    next_record  \* its AUTO_INCREMENT counter

vars == <<users, next_id, req, records, next_record>>

Editors == {"admin", "user"}

Record(owner_id, title, description) ==
    [owner_id |-> owner_id, title |-> title, description |-> description]

(* The seeded records belong to the second and the first account in turn. *)
Init ==
    /\ UserInit
    /\ \E t \in Texts : records = [r \in 1 .. 2 |-> Record(3 - r, t, t)]
    /\ next_record = 3

UNCHANGED_all == UNCHANGED_users /\ UNCHANGED <<records, next_record>>
-------------------------------------------------------------------------------
(* The checks of each endpoint. *)

RefuseEditor(q, actor) ==
    /\ Begins(q)
    /\ IsActive(actor) /\ ~HasRole(actor, Editors)
    /\ Answer(q, "denied")
    /\ UNCHANGED_all

CreateRecord(q, actor, title, description) ==
    /\ Begins(q)
    /\ HasRole(actor, Editors)
    /\ Proceed(q, "create_record", actor, 1, Record(actor, title, description))
    /\ UNCHANGED_all

(* Mutant of CanModify: everybody who may create may modify. *)
AnyoneCanModify(actor, record) == HasRole(actor, Editors)

(* ensure_can_modify() *)
CanModify(actor, record) ==
    users[actor].role = "admin" \/ record.owner_id = actor

(* Columns that the body leaves out or sets to null are not written, nor   *)
(* are those that do not change.                                           *)
Written(new, loaded) == IF new \in {Null, loaded} THEN Keep ELSE new

UpdateRecord(q, op, actor, r, title, description) ==
    /\ Begins(q)
    /\ HasRole(actor, Editors)
    /\ IF r \notin DOMAIN records
       THEN Answer(q, "missing")
       ELSE IF ~CanModify(actor, records[r])
       THEN Answer(q, "denied")
       ELSE Proceed(q, op, actor, r,
                    Record(Keep, Written(title, records[r].title),
                           Written(description, records[r].description)))
    /\ UNCHANGED_all

(* PUT goes through the same update as PATCH. *)
Replace(q, actor, r, title, description) ==
    UpdateRecord(q, "replace_record", actor, r, title, description)

DeleteRecord(q, actor, r) ==
    /\ Begins(q)
    /\ HasRole(actor, Editors)
    /\ IF r \notin DOMAIN records
       THEN Answer(q, "missing")
       ELSE IF ~CanModify(actor, records[r])
       THEN Answer(q, "denied")
       ELSE Proceed(q, "delete_record", actor, r, Keep)
    /\ UNCHANGED_all

(* An import: the usable rows of the file are inserted by one commit, and  *)
(* a file without any changes nothing.                                     *)
Import(q, actor, n, text) ==
    /\ Begins(q)
    /\ HasRole(actor, Editors)
    /\ IF n = 0
       THEN Answer(q, "ok")
       ELSE Proceed(q, "import", actor, n, Record(actor, text, Null))
    /\ UNCHANGED_all
-------------------------------------------------------------------------------
(* The commits. *)

(* Mutant of Insert: owner_id is no foreign key. *)
InsertUnowned(q, n) ==
    /\ next_record + n <= MaxRecords + 1
    /\ Commits(q)
    /\ records' = [r \in DOMAIN records \cup (next_record .. next_record + n - 1) |->
                      IF r < next_record THEN records[r] ELSE req[q].write]
    /\ next_record' = next_record + n

(* n new rows, all or none: the foreign key wants their owner to exist. *)
Insert(q, n) ==
    /\ req[q].write.owner_id \in DOMAIN users
    /\ next_record + n <= MaxRecords + 1
    /\ Commits(q)
    /\ records' = [r \in DOMAIN records \cup (next_record .. next_record + n - 1) |->
                      IF r < next_record THEN records[r] ELSE req[q].write]
    /\ next_record' = next_record + n

CommitInsert(q) ==
    /\ \/ req[q].op = "create_record" /\ Insert(q, 1) /\ Refreshes(q, next_record)
       \/ req[q].op = "import" /\ Insert(q, req[q].target) /\ Answer(q, "ok")
       \/ /\ req[q].op \in {"create_record", "import"}
          /\ req[q].write.owner_id \notin DOMAIN users
          /\ Fails(q)
          /\ UNCHANGED <<records, next_record>>
    /\ UNCHANGED <<users, next_id>>

CommitRecordUpdate(q) ==
    LET r == req[q].target
        w == req[q].write
        nothing == Record(Keep, Keep, Keep)
    IN  /\ req[q].op \in {"replace_record", "update_record"}
        /\ \/ /\ r \in DOMAIN records
              /\ Commits(q)
              /\ records' = [records EXCEPT ![r] =
                                Record(@.owner_id, Overlay(@.title, w.title),
                                       Overlay(@.description, w.description))]
              /\ Refreshes(q, r)
           \/ /\ r \notin DOMAIN records /\ w # nothing
              /\ Fails(q)
              /\ UNCHANGED records
           \/ /\ r \notin DOMAIN records /\ w = nothing
              /\ Commits(q)
              /\ Refreshes(q, r)
              /\ UNCHANGED records
        /\ UNCHANGED <<users, next_id, next_record>>

CommitRecordDelete(q) ==
    /\ req[q].op = "delete_record"
    /\ Commits(q)
    /\ records' = [r \in DOMAIN records \ {req[q].target} |-> records[r]]
    /\ Answer(q, "ok")
    /\ UNCHANGED <<users, next_id, next_record>>

RefreshRecord(q) ==
    /\ req[q].step = "refresh"
    /\ req[q].op \in {"create_record", "replace_record", "update_record"}
    /\ Answer(q, IF req[q].target \in DOMAIN records THEN "ok" ELSE "error")
    /\ UNCHANGED_all

(* The records of a deleted account go with it. *)
Cascade(q) ==
    records' = [r \in {r \in DOMAIN records : records[r].owner_id # req[q].target}
                    |-> records[r]]
-------------------------------------------------------------------------------
(* A request about accounts is made; one about records is. *)
AsksAboutUsers(q) ==
    /\ Begins(q)
    /\ \/ \E actor \in Ids \cup {Anonymous}, name \in Names, role \in Roles, b \in BOOLEAN :
             CreateUser(q, actor, name, role, b)
       \/ \E actor \in Ids, name \in Names : UpdateMe(q, actor, name)
       \/ \E actor, target \in Ids :
             \/ DeleteUser(q, actor, target)
             \/ \E role \in Roles, b \in BOOLEAN \cup {Keep} :
                   UpdateRole(q, actor, target, role, b)
       \/ \E actor \in Ids : Refuse(q, actor)

AsksAboutRecords(q) ==
    /\ Begins(q)
    /\ \E actor \in Ids :
          \/ RefuseEditor(q, actor)
          \/ \E n \in Imports, text \in Texts : Import(q, actor, n, text)
          \/ \E title \in Texts, description \in Texts \cup {Null} :
                CreateRecord(q, actor, title, description)
          \/ \E r \in 1 .. MaxRecords, title, description \in Texts \cup {Null} :
                \/ title # Null /\ Replace(q, actor, r, title, description)
                \/ UpdateRecord(q, "update_record", actor, r, title, description)
          \/ \E r \in 1 .. MaxRecords : DeleteRecord(q, actor, r)

(* The transactions that write users, and those that write records. *)
WritesUsers(q) ==
    \/ /\ AsksAboutUsers(q) \/ CommitCreate(q) \/ CommitUpdate(q)
          \/ RefreshUser(q) \/ Abort(q)
       /\ UNCHANGED <<records, next_record>>
    \/ CommitDelete(q) /\ Cascade(q) /\ UNCHANGED next_record

WritesRecords(q) ==
    \/ AsksAboutRecords(q)
    \/ CommitInsert(q) \/ CommitRecordUpdate(q) \/ CommitRecordDelete(q)
    \/ RefreshRecord(q)

Next == \E q \in Requests : WritesUsers(q) \/ WritesRecords(q)

Spec == Init /\ [][Next]_vars
-------------------------------------------------------------------------------
UserRow == [username : Names, role : Roles, is_active : BOOLEAN]
UserColumns ==
    [username : Names \cup {Keep}, role : Roles \cup {Keep}, is_active : BOOLEAN \cup {Keep}]
RecordRow == [owner_id : Ids, title : Texts, description : Texts \cup {Null}]
RecordColumns ==
    [owner_id : {Keep}, title : Texts \cup {Keep}, description : Texts \cup {Keep}]

(* What the commit of a request of each kind is going to write. *)
Writes(op) ==
    CASE op = "create_user"                          -> UserRow
      [] op = "update_user"                          -> UserColumns
      [] op \in {"create_record", "import"}          -> RecordRow
      [] op \in {"replace_record", "update_record"}  -> RecordColumns
      [] OTHER                                       -> {Keep}

Ops == {"none", "create_user", "update_user", "delete_user", "create_record",
        "import", "replace_record", "update_record", "delete_record"}

Answers == {"none", "ok", "unauthorized", "denied", "missing", "conflict", "error"}

UsersOK ==
    /\ next_id \in 1 .. MaxUsers + 1
    /\ DOMAIN users \subseteq 1 .. next_id - 1
    /\ users \in [DOMAIN users -> UserRow]

RecordsOK ==
    /\ next_record \in 1 .. MaxRecords + 1
    /\ DOMAIN records \subseteq 1 .. next_record - 1
    /\ records \in [DOMAIN records -> RecordRow]

RequestOK(r) ==
    /\ r.op \in Ops
    /\ r = [op |-> r.op, actor |-> r.actor, as |-> r.as, target |-> r.target,
            write |-> r.write, step |-> r.step, answer |-> r.answer]
    /\ r.actor \in Ids \cup {Anonymous}
    /\ r.as \in Roles \cup {"none"}
    /\ r.target \in Nat
    /\ r.write \in Writes(r.op)
    /\ r.step \in {"idle", "commit", "refresh", "done"}
    /\ r.answer \in Answers

RequestsOK ==
    /\ DOMAIN req = Requests
    /\ \A q \in Requests : RequestOK(req[q])

(* The rows of the tables, and the writes that requests have pending. *)
TypeOK ==
    /\ UsersOK
    /\ RecordsOK
    /\ RequestsOK

(* A record belongs to an account that exists, however the deletion of the *)
(* account meets a creation or an import its owner has under way.          *)
NoOrphans ==
    \A r \in DOMAIN records : records[r].owner_id \in DOMAIN users

(* A record changes or goes only by its owner, by somebody who was an      *)
(* administrator when the request began, or together with its owner.       *)
OnlyOwnerOrAdmin ==
    [][ \A r \in DOMAIN records :
          \/ r \in DOMAIN records' /\ records'[r] = records[r]
          \/ records[r].owner_id \notin DOMAIN users'
          \/ \E q \in Requests :
                /\ req[q].step = "commit" /\ req[q].target = r
                /\ \/ req[q].as = "admin"
                   \/ req[q].actor = records[r].owner_id ]_vars
===============================================================================
