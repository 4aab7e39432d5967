----------------------------- MODULE UserService -----------------------------
(***************************************************************************)
(* The table of accounts and the requests that change it:                  *)
(* backend/app/services/user_service.py with the endpoints of              *)
(* api/v1/users.py and the registration of api/v1/auth.py.                 *)
(*                                                                         *)
(* A request reads everything it decides on, who makes it included, from   *)
(* the one snapshot its transaction has (REPEATABLE READ), so its checks   *)
(* are one action.  Its commit is a second one: the rows it writes may     *)
(* have changed or gone by then, and the unique indexes have the last      *)
(* word.  The refresh() after a commit reads a new snapshot.               *)
(*                                                                         *)
(* "username" stands for both unique columns, username and email; full     *)
(* name and password are left out.                                         *)
(***************************************************************************)
EXTENDS Integers, FiniteSets

CONSTANTS
    Names,      \* values of the unique columns
    Requests,   \* the requests of a behaviour, each made once
    Keep,       \* stands for a column that an UPDATE does not write
    MaxUsers    \* bound: accounts ever created

ASSUME NamesAssumption == {"admin", "user", "viewer"} \subseteq Names
ASSUME MaxUsersAssumption == MaxUsers \in Nat /\ MaxUsers >= 3
ASSUME KeepAssumption == Keep \notin Names /\ Keep \notin BOOLEAN

VARIABLES
    users,    \* the rows of the table, by id
    next_id,  \* its AUTO_INCREMENT counter
    req       \* the requests: not made yet, under way, or answered

Roles     == {"admin", "user", "viewer"}
Ids       == 1 .. MaxUsers
Anonymous == 0

Row(username, role, is_active) ==
    [username |-> username, role |-> role, is_active |-> is_active]

Taken            == {users[u].username : u \in DOMAIN users}
IsActive(u)      == u \in DOMAIN users /\ users[u].is_active
RoleOf(u)        == IF u \in DOMAIN users THEN users[u].role ELSE "none"
HasRole(u, some) == IsActive(u) /\ RoleOf(u) \in some
Admins           == {u \in DOMAIN users : users[u].role = "admin" /\ users[u].is_active}

(* A request that is not under way, before it is made or with its answer. *)
Request(step, answer) ==
    [op |-> "none", actor |-> Anonymous, as |-> "none", target |-> 0,
     write |-> Keep, step |-> step, answer |-> answer]

(* The three accounts that seed_demo_data() creates. *)
DemoUsers == [u \in 1 .. 3 |->
    LET role == <<"admin", "user", "viewer">>[u] IN Row(role, role, TRUE)]

UserInit ==
    /\ users = DemoUsers
    /\ next_id = 4
    /\ req = [q \in Requests |-> Request("idle", "none")]

Answer(q, answer) == req' = [req EXCEPT ![q] = Request("done", answer)]

(* The checks are passed; the transaction goes on to its commit. *)
Proceed(q, op, actor, target, write) ==
    req' = [req EXCEPT ![q] =
              [op |-> op, actor |-> actor, as |-> RoleOf(actor), target |-> target,
               write |-> write, step |-> "commit", answer |-> "none"]]

Begins(q)  == req[q].step = "idle"
Commits(q) == req[q].step = "commit"
Fails(q)   == Commits(q) /\ Answer(q, "error")

(* The commit of q succeeded and refresh() of the row it wrote is next. *)
Refreshes(q, id) ==
    req' = [req EXCEPT ![q].step = "refresh", ![q].target = id]

UNCHANGED_users == UNCHANGED <<users, next_id>>
-------------------------------------------------------------------------------
(* The checks of each endpoint. *)

(* create_user(): of POST /auth/register, for anyone, with role user, and  *)
(* of POST /users, for an administrator, with any role, active or not.     *)
CreateUser(q, actor, username, role, is_active) ==
    /\ Begins(q)
    /\ \/ actor = Anonymous /\ role = "user" /\ is_active
       \/ HasRole(actor, {"admin"})
    /\ IF username \in Taken
       THEN Answer(q, "conflict")
       ELSE Proceed(q, "create_user", actor, 0, Row(username, role, is_active))
    /\ UNCHANGED_users

(* update_user(): PATCH /users/me with a new email. *)
UpdateMe(q, actor, username) ==
    /\ Begins(q)
    /\ IsActive(actor)
    /\ IF username = users[actor].username
       THEN Proceed(q, "update_user", actor, actor, Row(Keep, Keep, Keep))
       ELSE IF username \in Taken
       THEN Answer(q, "conflict")
       ELSE Proceed(q, "update_user", actor, actor, Row(username, Keep, Keep))
    /\ UNCHANGED_users

(* Only columns that differ from what was loaded are written. *)
Changed(new, loaded) == IF new = loaded THEN Keep ELSE new

(* PATCH /users/{id}/role.  is_active is Keep when the body leaves it out. *)
UpdateRole(q, actor, target, role, is_active) ==
    /\ Begins(q)
    /\ HasRole(actor, {"admin"})
    /\ IF actor = target /\ role # "admin"
       THEN Answer(q, "denied")
       ELSE IF target \notin DOMAIN users
       THEN Answer(q, "missing")
       ELSE Proceed(q, "update_user", actor, target,
                    Row(Keep, Changed(role, users[target].role),
                        Changed(is_active, users[target].is_active)))
    /\ UNCHANGED_users

(* Mutant of DeleteUser: administrators may delete themselves. *)
DeleteUserUnguarded(q, actor, target) ==
    /\ Begins(q)
    /\ HasRole(actor, {"admin"})
    /\ target \in DOMAIN users
    /\ Proceed(q, "delete_user", actor, target, Keep)
    /\ UNCHANGED_users

(* DELETE /users/{id}. *)
DeleteUser(q, actor, target) ==
    /\ Begins(q)
    /\ HasRole(actor, {"admin"})
    /\ IF actor = target
       THEN Answer(q, "denied")
       ELSE IF target \notin DOMAIN users
       THEN Answer(q, "missing")
       ELSE Proceed(q, "delete_user", actor, target, Keep)
    /\ UNCHANGED_users

(* Everybody who does not pass get_current_user() or require_admin(). *)
Refuse(q, actor) ==
    /\ Begins(q)
    /\ ~HasRole(actor, {"admin"})
    /\ Answer(q, IF IsActive(actor) THEN "denied" ELSE "unauthorized")
    /\ UNCHANGED_users
-------------------------------------------------------------------------------
(* The commits. *)

(* Mutant of CommitCreate: the columns are not unique. *)
CommitCreateTwice(q) ==
    /\ req[q].op = "create_user"
    /\ next_id <= MaxUsers
    /\ Commits(q)
    /\ users' = [u \in DOMAIN users \cup {next_id} |->
                    IF u = next_id THEN req[q].write ELSE users[u]]
    /\ next_id' = next_id + 1
    /\ Refreshes(q, next_id)

(* A name that was taken since the check raises IntegrityError, which the  *)
(* handler for database errors answers with 500.                           *)
CommitCreate(q) ==
    /\ req[q].op = "create_user"
    /\ \/ /\ req[q].write.username \notin Taken
          /\ next_id <= MaxUsers
          /\ Commits(q)
          /\ users' = [u \in DOMAIN users \cup {next_id} |->
                          IF u = next_id THEN req[q].write ELSE users[u]]
          /\ next_id' = next_id + 1
          /\ Refreshes(q, next_id)
       \/ /\ req[q].write.username \in Taken
          /\ Fails(q)
          /\ UNCHANGED <<users, next_id>>

(* Mutant of Overlay: every column is written. *)
OverlayAll(old, new) == new
Overlay(old, new) == IF new = Keep THEN old ELSE new

(* An UPDATE of a row that is gone matches nothing and raises              *)
(* StaleDataError; without a changed column there is no UPDATE at all.     *)
CommitUpdate(q) ==
    LET t == req[q].target
        w == req[q].write
        collides == \E u \in DOMAIN users \ {t} : users[u].username = w.username
        applies  == t \in DOMAIN users /\ ~collides
    IN  /\ req[q].op = "update_user"
        /\ \/ /\ applies
              /\ Commits(q)
              /\ users' = [users EXCEPT ![t] =
                              Row(Overlay(@.username, w.username),
                                  Overlay(@.role, w.role),
                                  Overlay(@.is_active, w.is_active))]
              /\ Refreshes(q, t)
           \/ /\ ~applies /\ w # Row(Keep, Keep, Keep)
              /\ Fails(q)
              /\ UNCHANGED users
           \/ /\ ~applies /\ w = Row(Keep, Keep, Keep)
              /\ Commits(q)
              /\ Refreshes(q, t)
              /\ UNCHANGED users
        /\ UNCHANGED next_id

(* A DELETE of a row that is gone is only warned about. *)
CommitDelete(q) ==
    /\ req[q].op = "delete_user"
    /\ Commits(q)
    /\ users' = [u \in DOMAIN users \ {req[q].target} |-> users[u]]
    /\ Answer(q, "ok")
    /\ UNCHANGED next_id

(* refresh() raises when the row was deleted after the commit. *)
RefreshUser(q) ==
    /\ req[q].step = "refresh"
    /\ req[q].op \in {"create_user", "update_user"}
    /\ Answer(q, IF req[q].target \in DOMAIN users THEN "ok" ELSE "error")
    /\ UNCHANGED_users

(* The database raises: a lock wait, a deadlock, a lost connection, a row  *)
(* that changed since the snapshot.                                        *)
Abort(q) ==
    /\ req[q].step \in {"commit", "refresh"}
    /\ Answer(q, "error")
    /\ UNCHANGED_users
-------------------------------------------------------------------------------
(* No two accounts share a username or an email, although registrations,   *)
(* administrators and PATCH /users/me check for it before their commits.   *)
UniqueNames ==
    \A u, v \in DOMAIN users : users[u].username = users[v].username => u = v

(* An administrator changes the account that makes the request: only the   *)
(* role is looked at, so an administrator may deactivate themself.         *)
DeactivatesSelf(r) ==
    r.op = "update_user" /\ r.actor = r.target /\ r.write.is_active = FALSE

(* "You cannot demote yourself" and "You cannot delete yourself" keep an   *)
(* active administrator in the system as long as requests do not overlap:  *)
(* the last one goes only by the commit of a request whose maker was an    *)
(* administrator when it began, but is none any more; or deactivates       *)
(* themself, the one thing that those two guards let through.              *)
LastAdminProtected ==
    [][ Admins # {} /\ Admins' = {} =>
          \E q \in Requests :
              /\ req[q].step = "commit" /\ req'[q].step # "commit"
              /\ req[q].as = "admin"
              /\ req[q].actor \notin Admins \/ DeactivatesSelf(req[q]) ]_<<users, req>>

(* The error table of docs/api.md: a name or an email that is taken is     *)
(* answered with 409.                                                      *)
DuplicateIsConflict ==
    [][ \A q \in Requests :
          CommitCreate(q) => req'[q].answer # "error" ]_<<users, next_id, req>>
===============================================================================
