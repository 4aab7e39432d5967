------------------------- MODULE RecordServiceProofs -------------------------
(***************************************************************************)
(* Proofs about RecordService and UserService, for any number of requests, *)
(* accounts and records.                                                   *)
(***************************************************************************)
EXTENDS RecordService, TLAPS

(* The three ways in which a step changes a request. *)
LEMMA RoleOfType ==
    ASSUME UsersOK, NEW u
    PROVE  RoleOf(u) \in Roles \cup {"none"}
BY DEF UsersOK, UserRow, RoleOf

LEMMA AnswerType ==
    ASSUME RequestsOK, NEW q \in Requests, NEW a \in Answers, Answer(q, a)
    PROVE  RequestsOK'
<1>1. RequestOK(Request("done", a))
  BY DEF RequestOK, Request, Ops, Writes, Anonymous
<1>2. DOMAIN req' = Requests /\ req'[q] = Request("done", a)
  BY DEF RequestsOK, Answer
<1>3. \A p \in Requests \ {q} : req'[p] = req[p]
  BY DEF RequestsOK, Answer
<1>4. QED  BY <1>1, <1>2, <1>3 DEF RequestsOK

LEMMA ProceedType ==
    ASSUME UsersOK, RequestsOK, NEW q \in Requests, NEW op \in Ops,
           NEW actor \in Ids \cup {Anonymous}, NEW target \in Nat,
           NEW write \in Writes(op), Proceed(q, op, actor, target, write)
    PROVE  RequestsOK'
<1> DEFINE r == [op |-> op, actor |-> actor, as |-> RoleOf(actor), target |-> target,
                 write |-> write, step |-> "commit", answer |-> "none"]
<1>1. RequestOK(r)
  BY RoleOfType DEF RequestOK, Answers
<1>2. DOMAIN req' = Requests /\ req'[q] = r
  BY DEF RequestsOK, Proceed
<1>3. \A p \in Requests \ {q} : req'[p] = req[p]
  BY DEF RequestsOK, Proceed
<1>4. QED  BY <1>1, <1>2, <1>3 DEF RequestsOK

LEMMA RefreshesType ==
    ASSUME RequestsOK, NEW q \in Requests, NEW id \in Nat, Refreshes(q, id)
    PROVE  RequestsOK'
<1>1. DOMAIN req' = Requests
  BY DEF RequestsOK, Refreshes
<1>2. \A p \in Requests \ {q} : req'[p] = req[p]
  BY DEF RequestsOK, Refreshes
<1>3. req'[q] = [req[q] EXCEPT !.step = "refresh", !.target = id]
  BY DEF RequestsOK, Refreshes
<1>4. req'[q] = [op |-> req[q].op, actor |-> req[q].actor, as |-> req[q].as,
                 target |-> id, write |-> req[q].write, step |-> "refresh",
                 answer |-> req[q].answer]
  BY <1>3 DEF RequestsOK, RequestOK
<1>5. RequestOK(req'[q])
  BY <1>4 DEF RequestsOK, RequestOK
<1>6. QED  BY <1>1, <1>2, <1>5 DEF RequestsOK
-------------------------------------------------------------------------------
(* Type correctness. *)

LEMMA RowsType ==
    /\ UsersOK => \A u \in DOMAIN users : users[u] \in UserRow /\ u \in Ids
    /\ RecordsOK => \A r \in DOMAIN records : records[r] \in RecordRow /\ r \in Nat
    /\ \A u \in Ids : u \in Nat
BY MaxUsersAssumption, MaxRecordsAssumption DEF UsersOK, RecordsOK, Ids

LEMMA TypeInit == Init => TypeOK
<1> SUFFICES ASSUME Init PROVE TypeOK
  OBVIOUS
<1>1. UsersOK
  <2>1. \A u \in 1 .. 3 : DemoUsers[u] \in UserRow
    BY NamesAssumption DEF DemoUsers, Row, UserRow, Roles
  <2>2. users = [u \in 1 .. 3 |-> DemoUsers[u]] /\ next_id = 4
    BY DEF Init, UserInit, DemoUsers
  <2>3. DOMAIN users = 1 .. 3 /\ \A u \in 1 .. 3 : users[u] \in UserRow
    BY <2>1, <2>2
  <2>4. users \in [DOMAIN users -> UserRow]
    BY <2>2, <2>3
  <2>5. next_id \in 1 .. MaxUsers + 1 /\ 1 .. 3 = 1 .. next_id - 1
    BY <2>2, MaxUsersAssumption
  <2>6. QED  BY <2>3, <2>4, <2>5 DEF UsersOK
<1>2. RecordsOK
  <2>1. PICK t \in Texts : records = [r \in 1 .. 2 |-> Record(3 - r, t, t)]
    BY DEF Init
  <2>2. \A r \in 1 .. 2 : 3 - r \in Ids
    BY MaxUsersAssumption DEF Ids
  <2>3. QED  BY <2>1, <2>2, MaxRecordsAssumption DEF Init, RecordsOK, Record, RecordRow
<1>3. RequestsOK
  <2>1. RequestOK(Request("idle", "none"))
    BY DEF RequestOK, Request, Ops, Writes, Anonymous, Answers
  <2>2. QED  BY <2>1 DEF Init, UserInit, RequestsOK
<1>4. QED  BY <1>1, <1>2, <1>3 DEF TypeOK

LEMMA AsksAboutUsersType ==
    ASSUME TypeOK, NEW q \in Requests, AsksAboutUsers(q), UNCHANGED <<records, next_record>>
    PROVE  TypeOK'
<1> USE DEF Answers, Ops, Writes
<1>0. UNCHANGED <<users, next_id, records, next_record>>
  BY DEF AsksAboutUsers, CreateUser, UpdateMe, UpdateRole, DeleteUser, Refuse,
         UNCHANGED_users
<1>a. UsersOK /\ RequestsOK /\ 0 \in Nat /\ \A u \in Ids : u \in Nat
  BY RowsType DEF TypeOK
<1>b. RequestsOK'
  <2>1. ASSUME NEW actor \in Ids \cup {Anonymous}, NEW name \in Names,
               NEW role \in Roles, NEW b \in BOOLEAN,
               CreateUser(q, actor, name, role, b)
        PROVE  RequestsOK'
    <3>1. Row(name, role, b) \in UserRow
      BY DEF Row, UserRow
    <3>2. QED  BY <2>1, <3>1, <1>a, AnswerType, ProceedType DEF CreateUser
  <2>2. ASSUME NEW actor \in Ids, NEW name \in Names, UpdateMe(q, actor, name)
        PROVE  RequestsOK'
    <3>1. Row(name, Keep, Keep) \in UserColumns /\ Row(Keep, Keep, Keep) \in UserColumns
      BY DEF Row, UserColumns
    <3>2. QED  BY <2>2, <3>1, <1>a, AnswerType, ProceedType DEF UpdateMe
  <2>3. ASSUME NEW actor \in Ids, NEW target \in Ids, DeleteUser(q, actor, target)
        PROVE  RequestsOK'
    BY <2>3, <1>a, AnswerType, ProceedType DEF DeleteUser
  <2>4. ASSUME NEW actor \in Ids, NEW target \in Ids, NEW role \in Roles,
               NEW b \in BOOLEAN \cup {Keep}, UpdateRole(q, actor, target, role, b)
        PROVE  RequestsOK'
    <3>1. Row(Keep, Changed(role, users[target].role),
              Changed(b, users[target].is_active)) \in UserColumns
      BY DEF Row, UserColumns, Changed
    <3>2. QED  BY <2>4, <3>1, <1>a, AnswerType, ProceedType DEF UpdateRole
  <2>5. ASSUME NEW actor \in Ids, Refuse(q, actor)
        PROVE  RequestsOK'
    BY <2>5, <1>a, AnswerType DEF Refuse
  <2>6. QED  BY <2>1, <2>2, <2>3, <2>4, <2>5 DEF AsksAboutUsers
<1>c. QED  BY <1>0, <1>b DEF TypeOK, UsersOK, RecordsOK

LEMMA AsksAboutRecordsType ==
    ASSUME TypeOK, NEW q \in Requests, AsksAboutRecords(q)
    PROVE  TypeOK'
<1> USE DEF Answers, Ops, Writes
<1>0. UNCHANGED <<users, next_id, records, next_record>>
  BY DEF AsksAboutRecords, RefuseEditor, Import, CreateRecord, Replace,
         UpdateRecord, DeleteRecord, UNCHANGED_all, UNCHANGED_users
<1>a. UsersOK /\ RequestsOK /\ 1 \in Nat /\ 1 .. MaxRecords \subseteq Nat
  BY DEF TypeOK
<1>b. RequestsOK'
  <2>1. ASSUME NEW actor \in Ids, RefuseEditor(q, actor)
        PROVE  RequestsOK'
    BY <2>1, <1>a, AnswerType DEF RefuseEditor
  <2>2. ASSUME NEW actor \in Ids, NEW n \in Imports, NEW text \in Texts,
               Import(q, actor, n, text)
        PROVE  RequestsOK'
    <3>1. n \in Nat /\ Record(actor, text, Null) \in RecordRow
      BY ImportsAssumption DEF Record, RecordRow
    <3>2. QED  BY <2>2, <3>1, <1>a, AnswerType, ProceedType DEF Import
  <2>3. ASSUME NEW actor \in Ids, NEW title \in Texts,
               NEW description \in Texts \cup {Null},
               CreateRecord(q, actor, title, description)
        PROVE  RequestsOK'
    <3>1. Record(actor, title, description) \in RecordRow
      BY DEF Record, RecordRow
    <3>2. QED  BY <2>3, <3>1, <1>a, ProceedType DEF CreateRecord
  <2>4. ASSUME NEW op \in {"replace_record", "update_record"}, NEW actor \in Ids,
               NEW r \in 1 .. MaxRecords, NEW title \in Texts \cup {Null},
               NEW description \in Texts \cup {Null},
               UpdateRecord(q, op, actor, r, title, description)
        PROVE  RequestsOK'
    <3>1. Record(Keep, Written(title, records[r].title),
                 Written(description, records[r].description)) \in RecordColumns
      BY DEF Record, RecordColumns, Written
    <3>2. QED  BY <2>4, <3>1, <1>a, AnswerType, ProceedType DEF UpdateRecord
  <2>5. ASSUME NEW actor \in Ids, NEW r \in 1 .. MaxRecords, DeleteRecord(q, actor, r)
        PROVE  RequestsOK'
    BY <2>5, <1>a, AnswerType, ProceedType DEF DeleteRecord
  <2>6. QED  BY <2>1, <2>2, <2>3, <2>4, <2>5 DEF AsksAboutRecords, Replace
<1>c. QED  BY <1>0, <1>b DEF TypeOK, UsersOK, RecordsOK

LEMMA CommitCreateType ==
    ASSUME TypeOK, NEW q \in Requests, CommitCreate(q), UNCHANGED <<records, next_record>>
    PROVE  TypeOK'
<1>1. CASE /\ req[q].write.username \notin Taken
           /\ next_id <= MaxUsers
           /\ users' = [u \in DOMAIN users \cup {next_id} |->
                           IF u = next_id THEN req[q].write ELSE users[u]]
           /\ next_id' = next_id + 1
           /\ Refreshes(q, next_id)
  <2>1. req[q].write \in UserRow
    BY DEF CommitCreate, TypeOK, RequestsOK, RequestOK, Writes
  <2>2. next_id \in Nat /\ next_id' \in 1 .. MaxUsers + 1
    BY <1>1, MaxUsersAssumption DEF TypeOK, UsersOK
  <2>3. DOMAIN users' = DOMAIN users \cup {next_id}
    BY <1>1
  <2>4. DOMAIN users' \subseteq 1 .. next_id' - 1
    BY <1>1, <2>2, <2>3, MaxUsersAssumption DEF TypeOK, UsersOK
  <2>5. \A u \in DOMAIN users' : users'[u] \in UserRow
    BY <1>1, <2>1, <2>3, RowsType DEF TypeOK
  <2>6. users' \in [DOMAIN users' -> UserRow]
    BY <1>1, <2>3, <2>5
  <2>7. UsersOK'
    BY <2>2, <2>4, <2>6 DEF UsersOK
  <2>8. QED  BY <1>1, <2>2, <2>7, RefreshesType DEF TypeOK, RecordsOK
<1>2. CASE Fails(q) /\ UNCHANGED <<users, next_id>>
  BY <1>2, AnswerType DEF Fails, Answers, TypeOK, UsersOK, RecordsOK
<1>3. QED  BY <1>1, <1>2 DEF CommitCreate

LEMMA CommitUpdateType ==
    ASSUME TypeOK, NEW q \in Requests, CommitUpdate(q), UNCHANGED <<records, next_record>>
    PROVE  TypeOK'
<1> DEFINE t   == req[q].target
           w   == req[q].write
           row == Row(Overlay(users[t].username, w.username), Overlay(users[t].role, w.role),
                      Overlay(users[t].is_active, w.is_active))
<1>1. t \in Nat /\ w \in UserColumns
  BY DEF CommitUpdate, TypeOK, RequestsOK, RequestOK, Writes
<1>2. CASE t \in DOMAIN users /\ users' = [users EXCEPT ![t] = row] /\ Refreshes(q, t)
  <2>1. users[t] \in UserRow
    BY <1>2, RowsType DEF TypeOK
  <2>2. row \in UserRow
    BY <1>1, <2>1 DEF Row, Overlay, UserRow, UserColumns
  <2> HIDE DEF row, w
  <2>3. users' \in [DOMAIN users' -> UserRow] /\ DOMAIN users' = DOMAIN users
    BY <1>2, <2>2 DEF TypeOK, UsersOK
  <2>4. UsersOK'
    BY <2>3 DEF TypeOK, UsersOK, CommitUpdate
  <2>5. QED  BY <1>1, <1>2, <2>4, RefreshesType DEF TypeOK, RecordsOK
<1>3. CASE Fails(q) /\ UNCHANGED users
  BY <1>3, AnswerType DEF CommitUpdate, Fails, Answers, TypeOK, UsersOK, RecordsOK
<1>4. CASE Refreshes(q, t) /\ UNCHANGED users
  BY <1>1, <1>4, RefreshesType DEF CommitUpdate, TypeOK, UsersOK, RecordsOK
<1>5. QED  BY <1>2, <1>3, <1>4 DEF CommitUpdate

LEMMA CommitDeleteType ==
    ASSUME TypeOK, NEW q \in Requests, CommitDelete(q), Cascade(q), UNCHANGED next_record
    PROVE  TypeOK'
<1>1. RequestsOK'
  BY AnswerType DEF CommitDelete, Answers, TypeOK
<1>2. UsersOK'
  <2>1. DOMAIN users' \subseteq DOMAIN users /\ \A u \in DOMAIN users' : users'[u] = users[u]
    BY DEF CommitDelete
  <2>2. \A u \in DOMAIN users' : users'[u] \in UserRow
    BY <2>1, RowsType DEF TypeOK
  <2>3. users' \in [DOMAIN users' -> UserRow]
    BY <2>2 DEF CommitDelete
  <2>4. QED  BY <2>1, <2>3 DEF CommitDelete, TypeOK, UsersOK
<1>3. RecordsOK'
  <2>1. /\ DOMAIN records' \subseteq DOMAIN records
        /\ \A r \in DOMAIN records' : records'[r] = records[r]
    BY DEF Cascade
  <2>2. \A r \in DOMAIN records' : records'[r] \in RecordRow
    BY <2>1, RowsType DEF TypeOK
  <2>3. records' \in [DOMAIN records' -> RecordRow]
    BY <2>2 DEF Cascade
  <2>4. QED  BY <2>1, <2>3 DEF TypeOK, RecordsOK
<1>4. QED  BY <1>1, <1>2, <1>3 DEF TypeOK

LEMMA InsertType ==
    ASSUME TypeOK, NEW q \in Requests, NEW n \in Nat, Insert(q, n),
           req[q].write \in RecordRow
    PROVE  RecordsOK'
<1>1. next_record \in Nat /\ next_record' \in 1 .. MaxRecords + 1
  BY MaxRecordsAssumption DEF TypeOK, RecordsOK, Insert
<1>2. DOMAIN records' = DOMAIN records \cup (next_record .. next_record + n - 1)
  BY DEF Insert
<1>3. DOMAIN records' \subseteq 1 .. next_record' - 1
  BY <1>1, <1>2, MaxRecordsAssumption DEF TypeOK, RecordsOK, Insert
<1>4. \A r \in DOMAIN records' : r < next_record => r \in DOMAIN records
  BY <1>1, <1>2
<1>5. \A r \in DOMAIN records' : records'[r] \in RecordRow
  BY <1>2, <1>4, RowsType DEF TypeOK, Insert
<1>6. records' \in [DOMAIN records' -> RecordRow]
  BY <1>2, <1>5 DEF Insert
<1>7. QED  BY <1>1, <1>3, <1>6 DEF RecordsOK

LEMMA CommitInsertType ==
    ASSUME TypeOK, NEW q \in Requests, CommitInsert(q)
    PROVE  TypeOK'
<1>0. UNCHANGED <<users, next_id>>
  BY DEF CommitInsert
<1>1. req[q].target \in Nat /\ next_record \in Nat
  BY MaxRecordsAssumption DEF TypeOK, RequestsOK, RequestOK, RecordsOK
<1>2. req[q].op \in {"create_record", "import"} => req[q].write \in RecordRow
  BY DEF TypeOK, RequestsOK, RequestOK, Writes
<1>3. CASE req[q].op = "create_record" /\ Insert(q, 1) /\ Refreshes(q, next_record)
  BY <1>0, <1>1, <1>2, <1>3, InsertType, RefreshesType DEF TypeOK, UsersOK
<1>4. CASE req[q].op = "import" /\ Insert(q, req[q].target) /\ Answer(q, "ok")
  BY <1>0, <1>1, <1>2, <1>4, InsertType, AnswerType DEF TypeOK, UsersOK, Answers
<1>5. CASE Fails(q) /\ UNCHANGED <<records, next_record>>
  BY <1>0, <1>5, AnswerType DEF TypeOK, UsersOK, RecordsOK, Fails, Answers
<1>6. QED  BY <1>3, <1>4, <1>5 DEF CommitInsert

LEMMA CommitRecordUpdateType ==
    ASSUME TypeOK, NEW q \in Requests, CommitRecordUpdate(q)
    PROVE  TypeOK'
<1> DEFINE r   == req[q].target
           w   == req[q].write
           row == Record(records[r].owner_id, Overlay(records[r].title, w.title),
                         Overlay(records[r].description, w.description))
<1>0. UNCHANGED <<users, next_id, next_record>>
  BY DEF CommitRecordUpdate
<1>1. r \in Nat /\ w \in RecordColumns
  BY DEF CommitRecordUpdate, TypeOK, RequestsOK, RequestOK, Writes
<1>2. CASE r \in DOMAIN records /\ records' = [records EXCEPT ![r] = row] /\ Refreshes(q, r)
  <2>1. records[r] \in RecordRow
    BY <1>2, RowsType DEF TypeOK
  <2>2. row \in RecordRow
    BY <1>1, <2>1 DEF Record, Overlay, RecordRow, RecordColumns
  <2> HIDE DEF row, w
  <2>3. records' \in [DOMAIN records' -> RecordRow] /\ DOMAIN records' = DOMAIN records
    BY <1>2, <2>2 DEF TypeOK, RecordsOK
  <2>4. QED  BY <1>0, <1>1, <1>2, <2>3, RefreshesType DEF TypeOK, RecordsOK, UsersOK
<1>3. CASE Fails(q) /\ UNCHANGED records
  BY <1>0, <1>3, AnswerType DEF Fails, Answers, TypeOK, UsersOK, RecordsOK
<1>4. CASE Refreshes(q, r) /\ UNCHANGED records
  BY <1>0, <1>1, <1>4, RefreshesType DEF TypeOK, UsersOK, RecordsOK
<1>5. QED  BY <1>2, <1>3, <1>4 DEF CommitRecordUpdate

LEMMA CommitRecordDeleteType ==
    ASSUME TypeOK, NEW q \in Requests, CommitRecordDelete(q)
    PROVE  TypeOK'
<1>1. /\ DOMAIN records' \subseteq DOMAIN records
      /\ \A r \in DOMAIN records' : records'[r] = records[r]
  BY DEF CommitRecordDelete
<1>2. \A r \in DOMAIN records' : records'[r] \in RecordRow
  BY <1>1, RowsType DEF TypeOK
<1>3. records' \in [DOMAIN records' -> RecordRow]
  BY <1>2 DEF CommitRecordDelete
<1>4. RecordsOK' /\ UsersOK'
  BY <1>1, <1>3 DEF CommitRecordDelete, TypeOK, RecordsOK, UsersOK
<1>5. QED  BY <1>4, AnswerType DEF CommitRecordDelete, Answers, TypeOK

LEMMA TypeStep == TypeOK /\ [Next]_vars => TypeOK'
<1> SUFFICES ASSUME TypeOK, [Next]_vars PROVE TypeOK'
  OBVIOUS
<1>1. CASE UNCHANGED vars
  BY <1>1 DEF vars, TypeOK, UsersOK, RecordsOK, RequestsOK
<1>2. ASSUME NEW q \in Requests, WritesUsers(q)
      PROVE  TypeOK'
  <2>1. CASE (RefreshUser(q) \/ Abort(q)) /\ UNCHANGED <<records, next_record>>
    BY <2>1, AnswerType
       DEF RefreshUser, Abort, UNCHANGED_users, Answers, TypeOK, UsersOK, RecordsOK
  <2>2. QED  BY <1>2, <2>1, AsksAboutUsersType, CommitCreateType, CommitUpdateType,
                CommitDeleteType DEF WritesUsers
<1>3. ASSUME NEW q \in Requests, WritesRecords(q)
      PROVE  TypeOK'
  <2>1. CASE RefreshRecord(q)
    BY <2>1, AnswerType
       DEF RefreshRecord, UNCHANGED_all, UNCHANGED_users, Answers, TypeOK, UsersOK, RecordsOK
  <2>2. QED  BY <1>3, <2>1, AsksAboutRecordsType, CommitInsertType,
                CommitRecordUpdateType, CommitRecordDeleteType DEF WritesRecords
<1>4. QED  BY <1>1, <1>2, <1>3 DEF Next

(* The rows of both tables and the writes under way keep their types.      *)
THEOREM TypeCorrect == Spec => []TypeOK
BY TypeInit, TypeStep, PTL DEF Spec
-------------------------------------------------------------------------------
(* Unique names and no orphans. *)

LEMMA UniqueInit == Init => UniqueNames
BY DEF Init, UserInit, DemoUsers, Row, UniqueNames

(* The steps that change the table of users. *)
LEMMA UserSteps ==
    ASSUME TypeOK, [Next]_vars
    PROVE  \/ UNCHANGED users
           \/ \E q \in Requests : CommitCreate(q) /\ UNCHANGED <<records, next_record>>
           \/ \E q \in Requests : CommitUpdate(q) /\ UNCHANGED <<records, next_record>>
           \/ \E q \in Requests : CommitDelete(q) /\ Cascade(q) /\ UNCHANGED next_record
<1>1. ASSUME NEW q \in Requests,
             AsksAboutUsers(q) \/ RefreshUser(q) \/ Abort(q) \/ WritesRecords(q)
      PROVE  UNCHANGED users
  BY <1>1 DEF AsksAboutUsers, CreateUser, UpdateMe, UpdateRole, DeleteUser, Refuse,
              RefreshUser, Abort, WritesRecords, AsksAboutRecords, RefuseEditor,
              Import, CreateRecord, Replace, UpdateRecord, DeleteRecord,
              CommitInsert, CommitRecordUpdate, CommitRecordDelete, RefreshRecord,
              UNCHANGED_all, UNCHANGED_users
<1>2. QED  BY <1>1 DEF Next, vars, WritesUsers

LEMMA UniqueStep == TypeOK /\ UniqueNames /\ [Next]_vars => UniqueNames'
<1> SUFFICES ASSUME TypeOK, UniqueNames, [Next]_vars PROVE UniqueNames'
  OBVIOUS
<1>1. CASE UNCHANGED users
  BY <1>1 DEF UniqueNames
<1>2. ASSUME NEW q \in Requests, CommitCreate(q)
      PROVE  UniqueNames'
  BY <1>2 DEF CommitCreate, Taken, UniqueNames
<1>3. ASSUME NEW q \in Requests, CommitUpdate(q)
      PROVE  UniqueNames'
  <2> DEFINE t == req[q].target
             w == req[q].write
  <2>1. CASE UNCHANGED users
    BY <2>1 DEF UniqueNames
  <2>2. CASE /\ t \in DOMAIN users
             /\ ~ \E u \in DOMAIN users \ {t} : users[u].username = w.username
             /\ users' = [users EXCEPT ![t] =
                            Row(Overlay(@.username, w.username), Overlay(@.role, w.role),
                                Overlay(@.is_active, w.is_active))]
    <3>1. DOMAIN users' = DOMAIN users
      BY <2>2
    <3>2. \A u \in DOMAIN users \ {t} : users'[u] = users[u]
      BY <2>2
    <3>3. users'[t].username = Overlay(users[t].username, w.username)
      BY <2>2 DEF Row
    <3>4. \A u \in DOMAIN users \ {t} : users[u].username # users'[t].username
      BY <2>2, <3>3 DEF Overlay, UniqueNames
    <3>5. ASSUME NEW u \in DOMAIN users, NEW v \in DOMAIN users, u # v
          PROVE  users'[u].username # users'[v].username
      <4> HIDE DEF t
      <4>1. users[u].username # users[v].username
        BY <3>5 DEF UniqueNames
      <4>2. QED  BY <3>2, <3>4, <3>5, <4>1
    <3>6. QED  BY <3>1, <3>5 DEF UniqueNames
  <2>3. QED  BY <1>3, <2>1, <2>2 DEF CommitUpdate
<1>4. ASSUME NEW q \in Requests, CommitDelete(q)
      PROVE  UniqueNames'
  BY <1>4 DEF CommitDelete, UniqueNames
<1>5. QED  BY <1>1, <1>2, <1>3, <1>4, UserSteps

(* Two registrations or changes of an email that both passed the check     *)
(* never both commit.                                                      *)
THEOREM NamesUnique == Spec => []UniqueNames
<1>1. Init => TypeOK /\ UniqueNames
  BY TypeInit, UniqueInit
<1>2. TypeOK /\ UniqueNames /\ [Next]_vars => TypeOK' /\ UniqueNames'
  BY TypeStep, UniqueStep
<1>3. QED  BY <1>1, <1>2, PTL DEF Spec

LEMMA OrphansInit == Init => NoOrphans
BY MaxUsersAssumption DEF Init, UserInit, DemoUsers, Record, NoOrphans

(* The steps that change the table of records. *)
LEMMA RecordSteps ==
    ASSUME TypeOK, [Next]_vars
    PROVE  \/ UNCHANGED <<records, next_record>>
           \/ \E q \in Requests : CommitInsert(q) /\ UNCHANGED users
           \/ \E q \in Requests : CommitRecordUpdate(q) /\ UNCHANGED users
           \/ \E q \in Requests : CommitRecordDelete(q) /\ UNCHANGED users
           \/ \E q \in Requests : CommitDelete(q) /\ Cascade(q) /\ UNCHANGED next_record
<1>1. ASSUME NEW q \in Requests, AsksAboutRecords(q) \/ RefreshRecord(q)
      PROVE  UNCHANGED <<records, next_record>>
  BY <1>1 DEF AsksAboutRecords, RefuseEditor, Import, CreateRecord, Replace,
              UpdateRecord, DeleteRecord, RefreshRecord, UNCHANGED_all
<1>2. ASSUME NEW q \in Requests,
             CommitInsert(q) \/ CommitRecordUpdate(q) \/ CommitRecordDelete(q)
      PROVE  UNCHANGED users
  BY <1>2 DEF CommitInsert, CommitRecordUpdate, CommitRecordDelete
<1>3. QED  BY <1>1, <1>2 DEF Next, vars, WritesUsers, WritesRecords

LEMMA OrphansStep == TypeOK /\ NoOrphans /\ [Next]_vars => NoOrphans'
<1> SUFFICES ASSUME TypeOK, NoOrphans, [Next]_vars PROVE NoOrphans'
  OBVIOUS
<1>1. CASE UNCHANGED <<records, next_record>> /\ DOMAIN users \subseteq DOMAIN users'
  BY <1>1 DEF NoOrphans
<1>2. ASSUME NEW q \in Requests, CommitInsert(q), UNCHANGED users
      PROVE  NoOrphans'
  <2>1. ASSUME NEW n \in Nat, Insert(q, n)
        PROVE  NoOrphans'
    <3>1. \A r \in DOMAIN records' :
             records'[r] = req[q].write \/ (r \in DOMAIN records /\ records'[r] = records[r])
      BY <2>1, MaxRecordsAssumption DEF Insert, TypeOK, RecordsOK
    <3>2. QED  BY <1>2, <2>1, <3>1 DEF Insert, NoOrphans
  <2>2. req[q].target \in Nat
    BY DEF TypeOK, RequestsOK, RequestOK
  <2>3. QED  BY <1>2, <2>1, <2>2 DEF CommitInsert, NoOrphans
<1>3. ASSUME NEW q \in Requests, CommitRecordUpdate(q), UNCHANGED users
      PROVE  NoOrphans'
  BY <1>3 DEF CommitRecordUpdate, Record, NoOrphans
<1>4. ASSUME NEW q \in Requests, CommitRecordDelete(q), UNCHANGED users
      PROVE  NoOrphans'
  BY <1>4 DEF CommitRecordDelete, NoOrphans
<1>5. ASSUME NEW q \in Requests, CommitDelete(q), Cascade(q)
      PROVE  NoOrphans'
  BY <1>5 DEF CommitDelete, Cascade, NoOrphans
<1>6. ASSUME NEW q \in Requests, CommitCreate(q) \/ CommitUpdate(q)
      PROVE  DOMAIN users \subseteq DOMAIN users'
  BY <1>6 DEF CommitCreate, CommitUpdate
<1>7. QED  BY <1>1, <1>2, <1>3, <1>4, <1>5, <1>6, UserSteps, RecordSteps

(* Whatever its owner had under way when an account was deleted, no record *)
(* is left without an account.                                             *)
THEOREM OrphansNever == Spec => []NoOrphans
<1>1. Init => TypeOK /\ NoOrphans
  BY TypeInit, OrphansInit
<1>2. TypeOK /\ NoOrphans /\ [Next]_vars => TypeOK' /\ NoOrphans'
  BY TypeStep, OrphansStep
<1>3. QED  BY <1>1, <1>2, PTL DEF Spec
-------------------------------------------------------------------------------
(* Who may do what. *)

(* A request that will take an administrator's role away, or an account.   *)
Demotes(r) ==
    \/ r.op = "delete_user"
    \/ r.op = "update_user" /\ r.write.role \notin {Keep, "admin"}

(* A request that will deactivate an account. *)
Deactivates(r) == r.op = "update_user" /\ r.write.is_active = FALSE

(* A request that will change or delete a record. *)
Modifies(r) == r.op \in {"replace_record", "update_record", "delete_record"}

(* What the checks established of a request still holds when it commits:   *)
(* its maker was another administrator; or an administrator or the owner   *)
(* of the record, which is the owner for good, as no id is used twice.     *)
Guarded(r) ==
    r.step = "commit" =>
        /\ Demotes(r) => r.as = "admin" /\ r.actor # r.target
        /\ Deactivates(r) => r.as = "admin"
        /\ Modifies(r) =>
              /\ r.target < next_record
              /\ \/ r.as = "admin"
                 \/ r.target \in DOMAIN records => records[r.target].owner_id = r.actor

GuardsHold == \A q \in Requests : Guarded(req[q])

LEMMA GuardsInit == Init => GuardsHold
BY DEF Init, UserInit, Request, GuardsHold, Guarded

LEMMA AnswerGuarded ==
    ASSUME RequestsOK, NEW q \in Requests, NEW a, Answer(q, a)
    PROVE  /\ req'[q].step # "commit"
           /\ \A p \in Requests \ {q} : req'[p] = req[p]
BY DEF Answer, Request, RequestsOK

LEMMA RefreshesGuarded ==
    ASSUME RequestsOK, NEW q \in Requests, NEW id, Refreshes(q, id)
    PROVE  /\ req'[q].step # "commit"
           /\ \A p \in Requests \ {q} : req'[p] = req[p]
<1>1. req[q] = [op |-> req[q].op, actor |-> req[q].actor, as |-> req[q].as,
                target |-> req[q].target, write |-> req[q].write,
                step |-> req[q].step, answer |-> req[q].answer]
  BY DEF RequestsOK, RequestOK
<1>2. req' = [req EXCEPT ![q] = [req[q] EXCEPT !.step = "refresh", !.target = id]]
  BY DEF Refreshes, RequestsOK
<1>3. req'[q] = [req[q] EXCEPT !.step = "refresh", !.target = id]
  BY <1>2 DEF RequestsOK
<1>4. req'[q].step = "refresh"
  BY <1>1, <1>3
<1>5. QED  BY <1>2, <1>4 DEF RequestsOK

LEMMA ProceedGuarded ==
    ASSUME RequestsOK, NEW q \in Requests, NEW op, NEW actor, NEW target, NEW write,
           Proceed(q, op, actor, target, write)
    PROVE  /\ req'[q] = [op |-> op, actor |-> actor, as |-> RoleOf(actor),
                         target |-> target, write |-> write, step |-> "commit",
                         answer |-> "none"]
           /\ \A p \in Requests \ {q} : req'[p] = req[p]
BY DEF Proceed, RequestsOK

(* An old record is not given to anybody else, and no id is used again.    *)
OwnersStay ==
    /\ next_record \in Nat /\ next_record' \in Nat /\ next_record <= next_record'
    /\ \A r \in DOMAIN records' : r < next_record =>
          r \in DOMAIN records /\ records'[r].owner_id = records[r].owner_id

LEMMA OwnersStayStep == TypeOK /\ [Next]_vars => OwnersStay
<1> SUFFICES ASSUME TypeOK, [Next]_vars PROVE OwnersStay
  OBVIOUS
<1>0. next_record \in Nat
  BY MaxRecordsAssumption DEF TypeOK, RecordsOK
<1>1. CASE UNCHANGED <<records, next_record>>
  BY <1>0, <1>1 DEF OwnersStay
<1>2. ASSUME NEW q \in Requests, CommitInsert(q)
      PROVE  OwnersStay
  <2>1. req[q].target \in Nat /\ 1 \in Nat
    BY DEF TypeOK, RequestsOK, RequestOK
  <2>2. ASSUME NEW n \in Nat, Insert(q, n)
        PROVE  OwnersStay
    BY <1>0, <2>2 DEF Insert, OwnersStay
  <2>3. QED  BY <1>0, <1>1, <1>2, <2>1, <2>2 DEF CommitInsert
<1>3. ASSUME NEW q \in Requests, CommitRecordUpdate(q)
      PROVE  OwnersStay
  BY <1>0, <1>3 DEF CommitRecordUpdate, Record, OwnersStay
<1>4. ASSUME NEW q \in Requests, CommitRecordDelete(q)
      PROVE  OwnersStay
  BY <1>0, <1>4 DEF CommitRecordDelete, OwnersStay
<1>5. ASSUME NEW q \in Requests, Cascade(q), UNCHANGED next_record
      PROVE  OwnersStay
  BY <1>0, <1>5 DEF Cascade, OwnersStay
<1>6. QED  BY <1>1, <1>2, <1>3, <1>4, <1>5, RecordSteps

(* A request that a step leaves alone stays guarded.                       *)
LEMMA KeepsGuards ==
    ASSUME RequestsOK, OwnersStay, NEW q \in Requests, Guarded(req[q]), req'[q] = req[q]
    PROVE  Guarded(req[q])'
BY DEF OwnersStay, Guarded, Demotes, Modifies, RequestsOK, RequestOK

(* The only request that a step changes has its guard afterwards.          *)
Settles(q) ==
    /\ Guarded(req[q])'
    /\ \A p \in Requests \ {q} : req'[p] = req[p]

LEMMA AnswerSettles ==
    ASSUME RequestsOK, NEW q \in Requests, NEW a, Answer(q, a)
    PROVE  Settles(q)
BY AnswerGuarded DEF Settles, Guarded

LEMMA RefreshesSettles ==
    ASSUME RequestsOK, NEW q \in Requests, NEW id, Refreshes(q, id)
    PROVE  Settles(q)
BY RefreshesGuarded DEF Settles, Guarded

LEMMA ProceedSettles ==
    ASSUME RequestsOK, NEW q \in Requests, NEW op, NEW actor, NEW target, NEW write,
           Proceed(q, op, actor, target, write),
           (op = "delete_user" \/ (op = "update_user" /\ write.role \notin {Keep, "admin"}))
              => RoleOf(actor) = "admin" /\ actor # target,
           (op = "update_user" /\ write.is_active = FALSE) => RoleOf(actor) = "admin",
           op \in {"replace_record", "update_record", "delete_record"} =>
              /\ target < next_record'
              /\ \/ RoleOf(actor) = "admin"
                 \/ target \in DOMAIN records' => records'[target].owner_id = actor
    PROVE  Settles(q)
<1> DEFINE r == [op |-> op, actor |-> actor, as |-> RoleOf(actor), target |-> target,
                 write |-> write, step |-> "commit", answer |-> "none"]
<1>1. req'[q] = r /\ \A p \in Requests \ {q} : req'[p] = req[p]
  BY ProceedGuarded
<1>2. /\ r.op = op /\ r.actor = actor /\ r.as = RoleOf(actor)
      /\ r.target = target /\ r.write = write
  OBVIOUS
<1>3. Demotes(r) => r.as = "admin" /\ r.actor # r.target
  BY <1>2 DEF Demotes
<1>4. Modifies(r) =>
        /\ r.target < next_record'
        /\ \/ r.as = "admin"
           \/ r.target \in DOMAIN records' => records'[r.target].owner_id = r.actor
  BY <1>2 DEF Modifies
<1>5. Deactivates(r) => r.as = "admin"
  BY <1>2 DEF Deactivates
<1>6. QED  BY <1>1, <1>3, <1>4, <1>5 DEF Settles, Guarded, Demotes, Deactivates, Modifies

LEMMA UserAsksSettles ==
    ASSUME TypeOK, NEW q \in Requests, AsksAboutUsers(q), UNCHANGED <<records, next_record>>
    PROVE  Settles(q)
<1> USE DEF TypeOK
<1>1. ASSUME NEW actor, NEW name, NEW role, NEW b, CreateUser(q, actor, name, role, b)
      PROVE  Settles(q)
  <2>1. ASSUME Proceed(q, "create_user", actor, 0, Row(name, role, b))
        PROVE  Settles(q)
    BY <2>1, ProceedSettles
  <2>2. QED  BY <1>1, <2>1, AnswerSettles DEF CreateUser
<1>2. ASSUME NEW actor, NEW name, UpdateMe(q, actor, name)
      PROVE  Settles(q)
  <2>1. ASSUME NEW n, Proceed(q, "update_user", actor, actor, Row(n, Keep, Keep))
        PROVE  Settles(q)
    BY <2>1, ProceedSettles, KeepAssumption DEF Row
  <2>2. QED  BY <1>2, <2>1, AnswerSettles DEF UpdateMe
<1>3. ASSUME NEW actor, NEW target, DeleteUser(q, actor, target)
      PROVE  Settles(q)
  <2>1. ASSUME actor # target, Proceed(q, "delete_user", actor, target, Keep)
        PROVE  Settles(q)
    <3>1. RoleOf(actor) = "admin"
      BY <1>3 DEF DeleteUser, HasRole
    <3>2. QED  BY <2>1, <3>1, ProceedSettles
  <2>2. QED  BY <1>3, <2>1, AnswerSettles DEF DeleteUser
<1>4. ASSUME NEW actor, NEW target, NEW role, NEW b, UpdateRole(q, actor, target, role, b)
      PROVE  Settles(q)
  <2> DEFINE w == Row(Keep, Changed(role, users[target].role),
                      Changed(b, users[target].is_active))
  <2>1. ASSUME ~(actor = target /\ role # "admin"),
               Proceed(q, "update_user", actor, target, w)
        PROVE  Settles(q)
    <3>1. RoleOf(actor) = "admin"
      BY <1>4 DEF UpdateRole, HasRole
    <3>2. w.role \notin {Keep, "admin"} => actor # target
      BY <2>1 DEF Row, Changed
    <3>3. QED  BY <2>1, <3>1, <3>2, ProceedSettles
  <2>2. QED  BY <1>4, <2>1, AnswerSettles DEF UpdateRole
<1>5. ASSUME NEW actor, Refuse(q, actor)
      PROVE  Settles(q)
  BY <1>5, AnswerSettles DEF Refuse
<1>6. QED  BY <1>1, <1>2, <1>3, <1>4, <1>5 DEF AsksAboutUsers

LEMMA RecordAsksSettles ==
    ASSUME TypeOK, NEW q \in Requests, AsksAboutRecords(q)
    PROVE  Settles(q)
<1> USE DEF TypeOK
<1>1. ASSUME NEW actor, RefuseEditor(q, actor)
      PROVE  Settles(q)
  BY <1>1, AnswerSettles DEF RefuseEditor
<1>2. ASSUME NEW actor, NEW n, NEW text, Import(q, actor, n, text)
      PROVE  Settles(q)
  <2>1. ASSUME Proceed(q, "import", actor, n, Record(actor, text, Null))
        PROVE  Settles(q)
    BY <2>1, ProceedSettles
  <2>2. QED  BY <1>2, <2>1, AnswerSettles DEF Import
<1>3. ASSUME NEW actor, NEW title, NEW description,
             CreateRecord(q, actor, title, description)
      PROVE  Settles(q)
  BY <1>3, ProceedSettles DEF CreateRecord
<1>4. ASSUME NEW op, NEW actor, NEW r, NEW w, op \in {"replace_record", "update_record", "delete_record"},
             HasRole(actor, Editors), r \in DOMAIN records, CanModify(actor, records[r]),
             Proceed(q, op, actor, r, w), UNCHANGED <<records, next_record>>
      PROVE  Settles(q)
  <2>1. RoleOf(actor) = "admin" \/ records[r].owner_id = actor
    BY <1>4 DEF HasRole, IsActive, RoleOf, CanModify
  <2>2. r < next_record
    BY <1>4, MaxRecordsAssumption DEF RecordsOK
  <2>3. QED  BY <1>4, <2>1, <2>2, ProceedSettles
<1>5. ASSUME NEW op \in {"replace_record", "update_record"}, NEW actor, NEW r, NEW title,
             NEW description, UpdateRecord(q, op, actor, r, title, description)
      PROVE  Settles(q)
  BY <1>4, <1>5, AnswerSettles DEF UpdateRecord, UNCHANGED_all
<1>6. ASSUME NEW actor, NEW r, DeleteRecord(q, actor, r)
      PROVE  Settles(q)
  BY <1>4, <1>6, AnswerSettles DEF DeleteRecord, UNCHANGED_all
<1>7. QED  BY <1>1, <1>2, <1>3, <1>5, <1>6 DEF AsksAboutRecords, Replace

LEMMA CommitsSettle ==
    ASSUME TypeOK, NEW q \in Requests,
           \/ CommitCreate(q) \/ CommitUpdate(q) \/ RefreshUser(q) \/ Abort(q)
           \/ CommitDelete(q) \/ CommitInsert(q) \/ CommitRecordUpdate(q)
           \/ CommitRecordDelete(q) \/ RefreshRecord(q)
    PROVE  Settles(q)
BY AnswerSettles, RefreshesSettles
   DEF TypeOK, CommitCreate, CommitUpdate, RefreshUser, Abort, Fails, CommitDelete,
       CommitInsert, CommitRecordUpdate, CommitRecordDelete, RefreshRecord

LEMMA GuardsStep == TypeOK /\ GuardsHold /\ [Next]_vars => GuardsHold'
<1> SUFFICES ASSUME TypeOK, GuardsHold, [Next]_vars PROVE GuardsHold'
  OBVIOUS
<1>1. OwnersStay /\ RequestsOK
  BY OwnersStayStep DEF TypeOK
<1>2. ASSUME NEW q \in Requests, Settles(q)
      PROVE  GuardsHold'
  BY <1>1, <1>2, KeepsGuards DEF Settles, GuardsHold
<1>3. CASE UNCHANGED vars
  BY <1>1, <1>3, KeepsGuards DEF GuardsHold, vars
<1>4. CASE Next
  <2>1. PICK q \in Requests : WritesUsers(q) \/ WritesRecords(q)
    BY <1>4 DEF Next
  <2>2. Settles(q)
    BY <2>1, UserAsksSettles, RecordAsksSettles, CommitsSettle
       DEF WritesUsers, WritesRecords
  <2>3. QED  BY <1>2, <2>2
<1>5. QED  BY <1>3, <1>4

THEOREM Guards == Spec => [](TypeOK /\ GuardsHold)
<1>1. Init => TypeOK /\ GuardsHold
  BY TypeInit, GuardsInit
<1>2. TypeOK /\ GuardsHold /\ [Next]_vars => TypeOK' /\ GuardsHold'
  BY TypeStep, GuardsStep
<1>3. QED  BY <1>1, <1>2, PTL DEF Spec

LEMMA LastAdminStep ==
    ASSUME TypeOK, GuardsHold, [Next]_vars, Admins # {}, Admins' = {}
    PROVE  \E q \in Requests :
              /\ req[q].step = "commit" /\ req'[q].step # "commit"
              /\ req[q].as = "admin"
              /\ req[q].actor \notin Admins \/ DeactivatesSelf(req[q])
<1> USE DEF TypeOK
<1> DEFINE Stale(q) == /\ req[q].step = "commit" /\ req'[q].step # "commit"
                       /\ req[q].as = "admin"
                       /\ req[q].actor \notin Admins \/ DeactivatesSelf(req[q])
<1>1. ~ UNCHANGED users
  BY DEF Admins
<1>2. ASSUME NEW q \in Requests, CommitCreate(q)
      PROVE  Admins \subseteq Admins'
  <2>1. \A u \in DOMAIN users : u # next_id
    BY MaxUsersAssumption DEF UsersOK
  <2>2. QED  BY <1>2, <2>1 DEF CommitCreate, Admins
<1>3. ASSUME NEW q \in Requests, CommitUpdate(q)
      PROVE  Stale(q)
  <2> DEFINE t == req[q].target
             w == req[q].write
  <2>1. /\ t \in DOMAIN users /\ Commits(q) /\ Refreshes(q, t)
        /\ req[q].op = "update_user"
        /\ users' = [users EXCEPT ![t] =
                       Row(Overlay(@.username, w.username), Overlay(@.role, w.role),
                           Overlay(@.is_active, w.is_active))]
    BY <1>1, <1>3 DEF CommitUpdate
  <2>2. \A u \in DOMAIN users \ {t} : users'[u] = users[u]
    BY <2>1
  <2>3. /\ DOMAIN users' = DOMAIN users
        /\ users'[t].role = Overlay(users[t].role, w.role)
        /\ users'[t].is_active = Overlay(users[t].is_active, w.is_active)
    BY <2>1 DEF Row
  <2>4. Admins = {t}
    BY <2>2, <2>3 DEF Admins
  <2>5. w.role \notin {Keep, "admin"} \/ w.is_active = FALSE
    <3>1. ~(users'[t].role = "admin" /\ users'[t].is_active)
      BY <2>3, <2>4 DEF Admins
    <3>2. users[t].role = "admin" /\ users[t].is_active
      BY <2>4 DEF Admins
    <3>3. w.is_active \in BOOLEAN \cup {Keep}
      BY <2>1 DEF RequestsOK, RequestOK, Writes, UserColumns
    <3>4. QED  BY <2>3, <3>1, <3>2, <3>3 DEF Overlay
  <2>6. CASE w.role \notin {Keep, "admin"}
    <3>1. req[q].as = "admin" /\ req[q].actor # t
      BY <2>1, <2>6 DEF GuardsHold, Guarded, Demotes, Commits
    <3>2. QED  BY <2>1, <2>4, <3>1, RefreshesGuarded DEF Commits
  <2>7. CASE w.is_active = FALSE
    <3>1. req[q].as = "admin"
      BY <2>1, <2>7 DEF GuardsHold, Guarded, Deactivates, Commits
    <3>2. CASE req[q].actor = t
      BY <2>1, <2>7, <3>1, <3>2, RefreshesGuarded DEF Commits, DeactivatesSelf
    <3>3. CASE req[q].actor # t
      BY <2>1, <2>4, <3>1, <3>3, RefreshesGuarded DEF Commits
    <3>4. QED  BY <3>2, <3>3
  <2>8. QED  BY <2>5, <2>6, <2>7
<1>4. ASSUME NEW q \in Requests, CommitDelete(q)
      PROVE  Stale(q)
  <2>1. Admins = {req[q].target}
    BY <1>4 DEF CommitDelete, Admins
  <2>2. req[q].as = "admin" /\ req[q].actor # req[q].target
    BY <1>4 DEF GuardsHold, Guarded, Demotes, CommitDelete, Commits
  <2>3. QED  BY <1>4, <2>1, <2>2, AnswerGuarded DEF CommitDelete, Commits
<1>5. QED  BY <1>1, <1>2, <1>3, <1>4, UserSteps

(* An active administrator is left unless two of them take the role, or    *)
(* the account, from each other in requests that overlap, or the last one  *)
(* deactivates themself.                                                   *)
THEOREM LastAdminSafe == Spec => LastAdminProtected
<1>1. TypeOK /\ GuardsHold /\ [Next]_vars =>
        [ Admins # {} /\ Admins' = {} =>
            \E q \in Requests :
                /\ req[q].step = "commit" /\ req'[q].step # "commit"
                /\ req[q].as = "admin"
                /\ req[q].actor \notin Admins \/ DeactivatesSelf(req[q]) ]_<<users, req>>
  BY LastAdminStep
<1>2. QED  BY <1>1, Guards, PTL DEF Spec, LastAdminProtected

LEMMA OwnerStep ==
    ASSUME TypeOK, GuardsHold, [Next]_vars, NEW r \in DOMAIN records
    PROVE  \/ r \in DOMAIN records' /\ records'[r] = records[r]
           \/ records[r].owner_id \notin DOMAIN users'
           \/ \E q \in Requests :
                 /\ req[q].step = "commit" /\ req[q].target = r
                 /\ \/ req[q].as = "admin"
                    \/ req[q].actor = records[r].owner_id
<1> USE DEF TypeOK
<1> DEFINE Stays == r \in DOMAIN records' /\ records'[r] = records[r]
<1>1. CASE UNCHANGED <<records, next_record>>
  BY <1>1
<1>2. ASSUME NEW q \in Requests, CommitInsert(q)
      PROVE  Stays
  <2>1. r < next_record
    BY MaxRecordsAssumption DEF RecordsOK
  <2>2. ASSUME NEW n, Insert(q, n)
        PROVE  Stays
    BY <2>1, <2>2 DEF Insert
  <2>3. QED  BY <1>1, <1>2, <2>2 DEF CommitInsert
<1>3. ASSUME NEW q \in Requests, CommitRecordUpdate(q), req[q].target # r
      PROVE  Stays
  BY <1>3 DEF CommitRecordUpdate
<1>4. ASSUME NEW q \in Requests, CommitRecordDelete(q), req[q].target # r
      PROVE  Stays
  BY <1>4 DEF CommitRecordDelete
<1>5. ASSUME NEW q \in Requests, req[q].target = r,
             CommitRecordUpdate(q) \/ CommitRecordDelete(q), ~Stays
      PROVE  /\ req[q].step = "commit"
             /\ req[q].as = "admin" \/ req[q].actor = records[r].owner_id
  <2>1. Commits(q) \/ Fails(q)
    BY <1>5 DEF CommitRecordUpdate, CommitRecordDelete
  <2>2. req[q].step = "commit" /\ Modifies(req[q])
    BY <1>5, <2>1 DEF CommitRecordUpdate, CommitRecordDelete, Commits, Fails, Modifies
  <2>3. QED  BY <1>5, <2>2 DEF GuardsHold, Guarded
<1>6. ASSUME NEW q \in Requests, CommitDelete(q), Cascade(q), ~Stays
      PROVE  records[r].owner_id \notin DOMAIN users'
  BY <1>6 DEF CommitDelete, Cascade
<1>7. QED  BY <1>1, <1>2, <1>3, <1>4, <1>5, <1>6, RecordSteps

(* Nobody but its owner and an administrator changes or deletes a record,  *)
(* though the check is made before the commit.                             *)
THEOREM OwnerOrAdminOnly == Spec => OnlyOwnerOrAdmin
<1>1. TypeOK /\ GuardsHold /\ [Next]_vars =>
        [ \A r \in DOMAIN records :
            \/ r \in DOMAIN records' /\ records'[r] = records[r]
            \/ records[r].owner_id \notin DOMAIN users'
            \/ \E q \in Requests :
                  /\ req[q].step = "commit" /\ req[q].target = r
                  /\ \/ req[q].as = "admin"
                     \/ req[q].actor = records[r].owner_id ]_vars
  BY OwnerStep
<1>2. QED  BY <1>1, Guards, PTL DEF Spec, OnlyOwnerOrAdmin
===============================================================================
