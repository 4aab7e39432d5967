-------------------------- MODULE TokenServiceProofs --------------------------
(***************************************************************************)
(* Proofs about TokenService, for any number of requests and tokens.       *)
(***************************************************************************)
EXTENDS TokenService, TLAPS

RequestRow ==
    [op : {"none", "login", "refresh", "call", "logout"}, token : Tokens,
     step : {"idle", "authenticate", "issue", "check_refresh", "revoke",
             "load_user", "check_access", "granted"},
     saw : BOOLEAN, late : BOOLEAN, revokedAt : Watched \cup {"never"},
     wasActive : BOOLEAN]

(* What holds of every request, whatever the others do: the endpoint and   *)
(* the kind of token that go with its step, and what its flags say of the  *)
(* tables.                                                                 *)
RequestSound(r) ==
    /\ r.step \in {"authenticate", "issue"} => r.op = "login"
    /\ r.step \in {"check_refresh", "load_user"} => r.op = "refresh"
    /\ r.op = "refresh" => r.token[1] = "refresh"
    /\ r.late => r.token \in expired
    /\ r.step = "load_user" /\ ~r.late => r.token \in revoked
    /\ r.revokedAt # "never" => r.token \in revoked /\ r.step = r.revokedAt
    /\ is_active /\ r.step # "idle" => r.wasActive
    /\ r.saw \/ r.step = "issue" => r.wasActive

RequestsSound == \A q \in Requests : RequestSound(req[q])

(* The request has recorded its token as revoked and not issued the new    *)
(* pair yet.                                                               *)
Exchanging(q) == Step(q) = "load_user" /\ ~req[q].late

(* A request between the two holds the only right to exchange its token:   *)
(* nobody has, and nobody else is about to.                                *)
OneExchanger ==
    \A q \in Requests : Exchanging(q) =>
        /\ exchanges[req[q].token[2]].recorded = 0
        /\ \A p \in Requests \ {q} : Exchanging(p) => req[p].token # req[q].token

TokensSound ==
    /\ TypeOK
    /\ RequestsSound
    /\ OneExchanger
    /\ RotatedOnce
-------------------------------------------------------------------------------
(* Type correctness. *)

LEMMA TokenTypes ==
    /\ \A t \in Tokens : t[1] \in Kinds /\ t[2] \in 1 .. MaxPairs /\ t = <<t[1], t[2]>>
    /\ <<"access", 1>> \in Tokens
BY BoundAssumption DEF Tokens, Kinds

LEMMA IdleType == Idle \in RequestRow
BY TokenTypes DEF Idle, RequestRow

(* A step changes one request at most, but for what the history keeps of   *)
(* the others: they are overtaken by a revocation.                         *)
OthersKeep(q) ==
    \A p \in Requests \ {q} :
        req'[p] = req[p] \/ (req[p].token \in revoked' /\ req'[p] = Overtaken(req[p], req[p].token))

LEMMA OvertakenIs ==
    ASSUME NEW r \in RequestRow, NEW token
    PROVE  LET o == Overtaken(r, token)
           IN  /\ o \in RequestRow
               /\ o.op = r.op /\ o.token = r.token /\ o.step = r.step
               /\ o.saw = r.saw /\ o.late = r.late /\ o.wasActive = r.wasActive
               /\ o.revokedAt = r.revokedAt \/ o.revokedAt = r.step
BY DEF Overtaken, RequestRow, Watched

LEMMA OthersKeepRows ==
    ASSUME TypeOK, NEW q \in Requests, OthersKeep(q), NEW p \in Requests \ {q}
    PROVE  /\ req'[p] \in RequestRow
           /\ req'[p].op = req[p].op /\ req'[p].token = req[p].token
           /\ req'[p].step = req[p].step /\ req'[p].saw = req[p].saw
           /\ req'[p].late = req[p].late /\ req'[p].wasActive = req[p].wasActive
           /\ \/ req'[p].revokedAt = req[p].revokedAt
              \/ req[p].token \in revoked' /\ req'[p].revokedAt = req[p].step
<1>1. req[p] \in RequestRow
  BY DEF TypeOK, RequestRow
<1>2. CASE req'[p] = req[p]
  BY <1>1, <1>2
<1>3. CASE req[p].token \in revoked' /\ req'[p] = Overtaken(req[p], req[p].token)
  BY <1>1, <1>3, OvertakenIs
<1>4. QED  BY <1>2, <1>3 DEF OthersKeep

LEMMA EndChanges ==
    ASSUME TypeOK, NEW q \in Requests, End(q)
    PROVE  /\ req' \in [Requests -> RequestRow]
           /\ req'[q] = Idle
           /\ \A p \in Requests \ {q} : req'[p] = req[p]
BY IdleType DEF TypeOK, End, RequestRow

LEMMA TypeInit == Init => TypeOK
BY IdleType, BoundAssumption DEF Init, TypeOK, RequestRow
-------------------------------------------------------------------------------
LEMMA OthersSound ==
    ASSUME TypeOK, RequestsSound, NEW q \in Requests, OthersKeep(q),
           UNCHANGED <<is_active, expired>>, revoked \subseteq revoked'
    PROVE  \A p \in Requests \ {q} : RequestSound(req[p])'
BY OthersKeepRows DEF RequestsSound, RequestSound

(* The steps that issue, revoke and change one request only, and leave it  *)
(* without a right to exchange.                                            *)
LEMMA OneRequestChanges ==
    ASSUME TokensSound, NEW q \in Requests,
           req' \in [Requests -> RequestRow], OthersKeep(q),
           UNCHANGED <<is_active, expired, exchanges>>,
           issued' \in 0 .. MaxPairs,
           revoked \subseteq revoked', revoked' \subseteq Tokens,
           RequestSound(req[q])', ~Exchanging(q)'
    PROVE  TokensSound'
<1> USE DEF TokensSound
<1>1. TypeOK'
  BY DEF TypeOK, RequestRow
<1>2. RequestsSound'
  BY OthersSound DEF RequestsSound
<1>3. OneExchanger'
  BY OthersKeepRows DEF OneExchanger, Exchanging, Step
<1>4. RotatedOnce'
  BY DEF RotatedOnce
<1>5. QED  BY <1>1, <1>2, <1>3, <1>4

LEMMA IdleSound ==
    /\ RequestSound(Idle)'
    /\ Idle.step = "idle"
BY DEF RequestSound, Idle

(* The request is over, alone or with the commit of its revocation. *)
Ends(q) == End(q) \/ Record(q, Idle)

LEMMA RecordChanges ==
    ASSUME TypeOK, NEW q \in Requests, NEW row \in RequestRow, Record(q, row)
    PROVE  /\ req' \in [Requests -> RequestRow]
           /\ req'[q] = row
           /\ OthersKeep(q)
           /\ revoked' = revoked \cup {req[q].token}
<1>1. /\ revoked' = revoked \cup {req[q].token}
      /\ req' = [p \in Requests |-> IF p = q THEN row ELSE Overtaken(req[p], req[q].token)]
  BY DEF Record
<1>2. \A p \in Requests : req[p] \in RequestRow
  BY DEF TypeOK, RequestRow
<1>3. \A p \in Requests : Overtaken(req[p], req[q].token) \in RequestRow
  BY <1>2, OvertakenIs
<1>4. req' \in [Requests -> RequestRow]
  BY <1>1, <1>3
<1>5. ASSUME NEW p \in Requests \ {q}
      PROVE  req'[p] = req[p] \/ (req[p].token \in revoked'
                                   /\ req'[p] = Overtaken(req[p], req[p].token))
  <2>1. req'[p] = Overtaken(req[p], req[q].token)
    BY <1>1
  <2>2. QED  BY <1>1, <2>1 DEF Overtaken
<1>6. QED  BY <1>1, <1>4, <1>5 DEF OthersKeep

(* A step that ends the request, and issues or revokes or not. *)
LEMMA RequestEnds ==
    ASSUME TokensSound, NEW q \in Requests, Ends(q),
           UNCHANGED <<is_active, expired, exchanges>>,
           issued' \in 0 .. MaxPairs,
           revoked \subseteq revoked', revoked' \subseteq Tokens
    PROVE  TokensSound'
<1>1. /\ req' \in [Requests -> RequestRow]
      /\ req'[q] = Idle
      /\ OthersKeep(q)
  BY EndChanges, RecordChanges, IdleType DEF TokensSound, Ends, OthersKeep
<1>2. RequestSound(req[q])' /\ ~Exchanging(q)'
  BY <1>1, IdleSound DEF Exchanging, Step, RequestSound
<1>3. QED  BY <1>1, <1>2, OneRequestChanges

(* The steps that take a request further and change nothing else. *)
LEMMA RequestAdvances ==
    ASSUME TokensSound, NEW q \in Requests, NEW r \in RequestRow,
           req' = [req EXCEPT ![q] = r],
           RequestSound(r), r.step = "load_user" => r.late,
           UNCHANGED <<is_active, issued, expired, revoked, exchanges>>
    PROVE  TokensSound'
<1>1. /\ req' \in [Requests -> RequestRow]
      /\ req'[q] = r
      /\ OthersKeep(q)
  BY DEF TokensSound, TypeOK, RequestRow, OthersKeep
<1>2. RequestSound(req[q])' /\ ~Exchanging(q)'
  BY <1>1 DEF Exchanging, Step, RequestSound
<1>3. QED  BY <1>1, <1>2, OneRequestChanges DEF TokensSound, TypeOK

LEMMA RequestStarts ==
    ASSUME TokensSound, NEW q \in Requests, NEW op \in {"login", "refresh", "call", "logout"},
           NEW token \in Tokens,
           NEW step \in {"authenticate", "check_refresh", "check_access"},
           op = "login" => step = "authenticate",
           op # "login" => step \in {"check_refresh", "check_access"},
           step = "check_refresh" => op = "refresh",
           op = "refresh" => token[1] = "refresh",
           Start(q, op, token, step)
    PROVE  TokensSound'
<1>1. UNCHANGED <<is_active, issued, expired, revoked, exchanges>>
  BY DEF Start
<1>2. is_active \in BOOLEAN
  BY DEF TokensSound, TypeOK
<1>3. PICK at \in Watched \cup {"never"} :
          at = IF op # "login" /\ token \in revoked THEN step ELSE "never"
  BY DEF Watched
<1> DEFINE r == [op |-> op, token |-> token, step |-> step, saw |-> FALSE, late |-> FALSE,
                 revokedAt |-> at, wasActive |-> is_active]
<1>4. req' = [req EXCEPT ![q] = r]
  BY <1>3 DEF Start
<1>5. r \in RequestRow
  BY <1>2 DEF RequestRow
<1>6. /\ r.op = op /\ r.token = token /\ r.step = step
      /\ r.saw = FALSE /\ r.late = FALSE /\ r.revokedAt = at /\ r.wasActive = is_active
  OBVIOUS
<1> HIDE DEF r
<1>7. RequestSound(r)
  BY <1>2, <1>3, <1>6 DEF RequestSound
<1>8. r.step # "load_user"
  BY <1>6
<1>9. QED  BY <1>1, <1>4, <1>5, <1>7, <1>8, RequestAdvances
-------------------------------------------------------------------------------
(* One lemma for each action. *)

LEMMA RowsSound ==
    ASSUME TokensSound, NEW q \in Requests
    PROVE  req[q] \in RequestRow /\ RequestSound(req[q])
BY DEF TokensSound, TypeOK, RequestRow, RequestsSound

LEMMA AuthenticateSound ==
    ASSUME TokensSound, NEW q \in Requests, Authenticate(q)
    PROVE  TokensSound'
<1>1. CASE is_active
  <2> DEFINE r == [req[q] EXCEPT !.step = "issue"]
  <2>1. req' = [req EXCEPT ![q] = r]
    BY <1>1 DEF Authenticate, TokensSound, TypeOK
  <2>2. r \in RequestRow
    BY RowsSound DEF RequestRow
  <2>3. RequestSound(r) /\ r.step # "load_user"
    BY <1>1, RowsSound DEF RequestRow, RequestSound, Watched, Authenticate, Step
  <2>4. QED  BY <2>1, <2>2, <2>3, RequestAdvances DEF Authenticate
<1>2. CASE ~is_active
  BY <1>2, RequestEnds DEF Ends, Authenticate, TokensSound, TypeOK
<1>3. QED  BY <1>1, <1>2

LEMMA LoginIssuesSound ==
    ASSUME TokensSound, NEW q \in Requests, LoginIssues(q)
    PROVE  TokensSound'
<1>1. issued' \in 0 .. MaxPairs
  BY BoundAssumption DEF LoginIssues, Issue, TokensSound, TypeOK
<1>2. QED  BY <1>1, RequestEnds DEF Ends, LoginIssues, TokensSound, TypeOK

LEMMA CheckRefreshSound ==
    ASSUME TokensSound, NEW q \in Requests, CheckRefresh(q)
    PROVE  TokensSound'
<1>0. UNCHANGED <<is_active, issued, expired, revoked, exchanges>>
  BY DEF CheckRefresh
<1>a. req[q] \in RequestRow /\ RequestSound(req[q]) /\ is_active \in BOOLEAN
  BY RowsSound DEF TokensSound, TypeOK
<1>1. CASE req[q].token \in revoked
  BY <1>1, RequestEnds DEF Ends, CheckRefresh, TokensSound, TypeOK
<1>2. CASE req[q].token \notin revoked /\ req[q].token \in expired
  <2> DEFINE r == [req[q] EXCEPT !.step = "load_user", !.late = TRUE, !.saw = is_active]
  <2>1. req' = [req EXCEPT ![q] = r]
    BY <1>2 DEF CheckRefresh, TokensSound, TypeOK
  <2>2. r \in RequestRow
    BY <1>a DEF RequestRow
  <2>3. RequestSound(r) /\ r.late
    BY <1>2, <1>a DEF RequestRow, RequestSound, CheckRefresh, Step
  <2>4. QED  BY <1>0, <2>1, <2>2, <2>3, RequestAdvances
<1>3. CASE req[q].token \notin revoked /\ req[q].token \notin expired
  <2> DEFINE r == [req[q] EXCEPT !.step = "revoke", !.saw = is_active]
  <2>1. req' = [req EXCEPT ![q] = r]
    BY <1>3 DEF CheckRefresh, TokensSound, TypeOK
  <2>2. r \in RequestRow
    BY <1>a DEF RequestRow
  <2>3. RequestSound(r) /\ r.step # "load_user"
    BY <1>3, <1>a DEF RequestRow, RequestSound, CheckRefresh, Step
  <2>4. QED  BY <1>0, <2>1, <2>2, <2>3, RequestAdvances
<1>4. QED  BY <1>1, <1>2, <1>3

LEMMA CheckAccessSound ==
    ASSUME TokensSound, NEW q \in Requests, CheckAccess(q)
    PROVE  TokensSound'
<1>1. CASE req[q].token \in revoked \/ ~is_active
  BY <1>1, RequestEnds DEF Ends, CheckAccess, TokensSound, TypeOK
<1>2. CASE ~(req[q].token \in revoked \/ ~is_active)
  <2> DEFINE r == [req[q] EXCEPT !.step = "granted"]
  <2>1. req' = [req EXCEPT ![q] = r]
    BY <1>2 DEF CheckAccess, TokensSound, TypeOK
  <2>2. r \in RequestRow
    BY RowsSound DEF RequestRow
  <2>3. RequestSound(r) /\ r.step # "load_user"
    BY <1>2, RowsSound DEF RequestRow, RequestSound, CheckAccess, Step
  <2>4. QED  BY <2>1, <2>2, <2>3, RequestAdvances DEF CheckAccess
<1>3. QED  BY <1>1, <1>2

LEMMA LogoutDecodesSound ==
    ASSUME TokensSound, NEW q \in Requests, LogoutDecodes(q)
    PROVE  TokensSound'
<1>1. CASE req[q].token \in expired
  BY <1>1, RequestEnds DEF Ends, LogoutDecodes, TokensSound, TypeOK
<1>2. CASE req[q].token \notin expired
  <2> DEFINE r == [req[q] EXCEPT !.step = "revoke"]
  <2>1. req' = [req EXCEPT ![q] = r]
    BY <1>2 DEF LogoutDecodes, TokensSound, TypeOK
  <2>2. r \in RequestRow
    BY RowsSound DEF RequestRow
  <2>3. RequestSound(r) /\ r.step # "load_user"
    BY <1>2, RowsSound DEF RequestRow, RequestSound, Watched, LogoutDecodes, Step
  <2>4. QED  BY <2>1, <2>2, <2>3, RequestAdvances DEF LogoutDecodes
<1>3. QED  BY <1>1, <1>2

LEMMA AbortSound ==
    ASSUME TokensSound, NEW q \in Requests, Abort(q)
    PROVE  TokensSound'
<1>1. revoked \subseteq revoked' /\ revoked' \subseteq Tokens
  BY RowsSound DEF Abort, Record, TokensSound, TypeOK, RequestRow
<1>2. QED  BY <1>1, RequestEnds DEF Ends, Abort, TokensSound, TypeOK

(* revoke() of a refresh takes the right to exchange: the token was not in *)
(* the table, so nobody has exchanged it or is about to.                   *)
LEMMA RevokeSound ==
    ASSUME TokensSound, NEW q \in Requests, Revoke(q)
    PROVE  TokensSound'
<1>a. req[q] \in RequestRow /\ RequestSound(req[q])
  BY RowsSound
<1>b. UNCHANGED <<is_active, issued, expired, exchanges>>
  BY DEF Revoke
<1>1. CASE req[q].token \in revoked
  BY <1>1, RequestEnds DEF Ends, Revoke, TokensSound, TypeOK
<1>2. CASE req[q].token \notin revoked /\ req[q].op # "refresh"
  <2>1. Record(q, Idle) /\ revoked' = revoked \cup {req[q].token}
    BY <1>2 DEF Revoke, Record
  <2>2. revoked \subseteq revoked' /\ revoked' \subseteq Tokens
    BY <1>a, <2>1 DEF TokensSound, TypeOK, RequestRow
  <2>3. QED  BY <1>b, <2>1, <2>2, RequestEnds DEF Ends, TokensSound, TypeOK
<1>3. CASE req[q].token \notin revoked /\ req[q].op = "refresh"
  <2> DEFINE r == [req[q] EXCEPT !.step = "load_user"]
             t == req[q].token
  <2>1. Record(q, r)
    BY <1>3 DEF Revoke
  <2>2. r \in RequestRow /\ r.step = "load_user" /\ r.token = t /\ r.late = req[q].late
        /\ r.revokedAt = req[q].revokedAt /\ r.op = "refresh" /\ r.saw = req[q].saw
        /\ r.wasActive = req[q].wasActive
    BY <1>a, <1>3 DEF RequestRow
  <2>3. /\ req' \in [Requests -> RequestRow]
        /\ req'[q] = r
        /\ OthersKeep(q)
        /\ revoked' = revoked \cup {t}
    BY <2>1, <2>2, RecordChanges DEF TokensSound
  <2>a. \A p \in Requests \ {q} :
           req'[p].token = req[p].token /\ req'[p].step = req[p].step
           /\ req'[p].late = req[p].late
    BY <2>3, OthersKeepRows DEF TokensSound
  <2> HIDE DEF r
  <2>4. TypeOK'
    BY <1>a, <1>b, <2>3 DEF TokensSound, TypeOK, RequestRow
  <2>5. RequestSound(req[q])'
    BY <1>a, <1>b, <1>3, <2>2, <2>3 DEF RequestSound, Revoke, Step
  <2>6. RequestsSound'
    BY <1>b, <2>3, <2>5, OthersSound DEF TokensSound, RequestsSound
  <2>7. t \in Tokens /\ t[1] = "refresh" /\ t = <<"refresh", t[2]>> /\ t[2] \in 1 .. MaxPairs
    BY <1>a, <1>3, TokenTypes DEF RequestSound, RequestRow
  <2>8. exchanges[t[2]].recorded = 0
    <3>1. exchanges[t[2]].recorded \in Nat
      BY <2>7 DEF TokensSound, TypeOK
    <3>2. exchanges[t[2]].recorded <= 1 /\ exchanges[t[2]].recorded # 1
      BY <1>3, <2>7 DEF TokensSound, RotatedOnce
    <3>3. QED  BY <3>1, <3>2
  <2>9. \A p \in Requests \ {q} : Exchanging(p)' => req'[p].token # t
    BY <1>3, <2>a DEF TokensSound, RequestsSound, RequestSound, Exchanging, Step
  <2>10. OneExchanger'
    <3>1. ASSUME NEW x \in Requests \ {q}, Exchanging(x)'
          PROVE  /\ Exchanging(x) /\ req'[x].token = req[x].token
                 /\ exchanges'[req'[x].token[2]].recorded = 0
      BY <1>b, <2>a, <3>1 DEF TokensSound, OneExchanger, Exchanging, Step
    <3>2. req'[q].token = t /\ exchanges'[req'[q].token[2]].recorded = 0
      BY <1>b, <2>2, <2>3, <2>8
    <3>3. ASSUME NEW x \in Requests \ {q}, NEW y \in Requests \ {x},
                 Exchanging(x)', Exchanging(y)'
          PROVE  req'[y].token # req'[x].token
      BY <2>9, <3>1, <3>2, <3>3 DEF TokensSound, OneExchanger
    <3>4. QED  BY <2>9, <3>1, <3>2, <3>3 DEF OneExchanger
  <2>11. RotatedOnce'
    BY <1>b, <2>3 DEF TokensSound, RotatedOnce
  <2>12. QED  BY <2>4, <2>6, <2>10, <2>11 DEF TokensSound
<1>4. QED  BY <1>1, <1>2, <1>3

(* The exchange is counted, and the right to it ends. *)
LEMMA LoadUserSound ==
    ASSUME TokensSound, NEW q \in Requests, LoadUser(q)
    PROVE  TokensSound'
<1> DEFINE r == req[q]
           t == req[q].token
           sees == IF r.late THEN r.saw ELSE is_active
<1>a. r \in RequestRow /\ RequestSound(r) /\ TypeOK
  BY RowsSound DEF TokensSound
<1>b. UNCHANGED <<is_active, expired, revoked>> /\ End(q) /\ r.step = "load_user"
  BY DEF LoadUser, Step
<1>c. t \in Tokens /\ t[1] = "refresh" /\ t = <<"refresh", t[2]>> /\ t[2] \in 1 .. MaxPairs
  BY <1>a, <1>b, TokenTypes DEF RequestSound, RequestRow
<1>1. CASE ~sees
  BY <1>1, <1>a, <1>b, RequestEnds DEF Ends, LoadUser, TypeOK
<1>2. CASE sees
  <2> DEFINE p == t[2]
             e == exchanges[p]
  <2>1. Issue /\ exchanges' = IF r.late
                              THEN [exchanges EXCEPT ![p].unrecorded = @ + 1]
                              ELSE [exchanges EXCEPT ![p].recorded = @ + 1]
    BY <1>2 DEF LoadUser
  <2>2. issued' \in 0 .. MaxPairs
    BY <2>1, <1>a, BoundAssumption DEF Issue, TypeOK
  <2>3. /\ req' \in [Requests -> RequestRow]
        /\ req'[q] = Idle
        /\ \A x \in Requests \ {q} : req'[x] = req[x]
    BY <1>a, <1>b, EndChanges
  <2>4. /\ exchanges' \in [1 .. MaxPairs -> [recorded : Nat, unrecorded : Nat]]
        /\ \A x \in 1 .. MaxPairs : x # p => exchanges'[x] = exchanges[x]
        /\ exchanges'[p] = IF r.late THEN [e EXCEPT !.unrecorded = @ + 1]
                                     ELSE [e EXCEPT !.recorded = @ + 1]
    BY <2>1, <1>a, <1>c DEF TypeOK
  <2>5. TypeOK'
    BY <1>a, <1>b, <2>2, <2>3, <2>4 DEF TypeOK, RequestRow
  <2>6. RequestsSound'
    BY <1>b, <2>3, IdleSound DEF TokensSound, RequestsSound, RequestSound
  <2>7. e \in [recorded : Nat, unrecorded : Nat]
    BY <1>a, <1>c DEF TypeOK
  <2>8. CASE r.late
    <3>1. exchanges'[p].recorded = e.recorded
      <4> HIDE DEF p, e
      <4>1. exchanges'[p] = [e EXCEPT !.unrecorded = @ + 1]
        BY <2>4, <2>8
      <4>2. QED  BY <2>7, <4>1
    <3>2. t \in expired
      BY <1>a, <2>8 DEF RequestSound
    <3>3. \A x \in 1 .. MaxPairs : exchanges'[x].recorded = exchanges[x].recorded
      BY <2>4, <3>1
    <3>4. RotatedOnce'
      <4>1. <<"refresh", p>> \in expired
        BY <1>c, <3>2
      <4>2. ASSUME NEW x \in 1 .. MaxPairs
            PROVE  /\ exchanges'[x].recorded <= 1
                   /\ exchanges'[x].recorded = 1 => <<"refresh", x>> \in revoked'
                   /\ exchanges'[x].unrecorded > 0 => <<"refresh", x>> \in expired'
        <5>1. /\ exchanges[x].recorded <= 1
              /\ exchanges[x].recorded = 1 => <<"refresh", x>> \in revoked
              /\ exchanges[x].unrecorded > 0 => <<"refresh", x>> \in expired
          BY DEF TokensSound, RotatedOnce
        <5> HIDE DEF p, e
        <5>2. x # p => exchanges'[x] = exchanges[x]
          BY <2>4
        <5>3. QED  BY <1>b, <3>3, <4>1, <5>1, <5>2
      <4>3. QED  BY <4>2 DEF RotatedOnce
    <3>5. OneExchanger'
      <4>1. \A x \in Requests : req[x].token[2] \in 1 .. MaxPairs
        BY RowsSound, TokenTypes DEF RequestRow
      <4>2. ~Exchanging(q)'
        BY <2>3, IdleSound DEF Exchanging, Step
      <4>3. QED
        BY <2>3, <3>3, <4>1, <4>2 DEF TokensSound, OneExchanger, Exchanging, Step
    <3>6. QED  BY <2>5, <2>6, <3>4, <3>5 DEF TokensSound
  <2>9. CASE ~r.late
    <3>1. Exchanging(q) /\ t \in revoked
      BY <1>a, <1>b, <2>9 DEF Exchanging, Step, RequestSound
    <3>2. e.recorded = 0
      BY <3>1 DEF TokensSound, OneExchanger
    <3>3. exchanges'[p].recorded = 1 /\ exchanges'[p].unrecorded = e.unrecorded
      BY <2>4, <2>7, <2>9, <3>2
    <3>4. RotatedOnce'
      <4>1. ASSUME NEW x \in 1 .. MaxPairs, x # p
            PROVE  exchanges'[x] = exchanges[x]
        BY <2>4, <4>1
      <4>2. e.unrecorded > 0 => <<"refresh", p>> \in expired
        BY <1>c DEF TokensSound, RotatedOnce
      <4>3. <<"refresh", p>> \in revoked
        BY <1>c, <3>1
      <4>4. /\ exchanges'[p].recorded <= 1
            /\ <<"refresh", p>> \in revoked'
            /\ exchanges'[p].unrecorded > 0 => <<"refresh", p>> \in expired'
        BY <1>b, <3>3, <4>2, <4>3
      <4>5. ASSUME NEW x \in 1 .. MaxPairs, x # p
            PROVE  /\ exchanges'[x].recorded <= 1
                   /\ exchanges'[x].recorded = 1 => <<"refresh", x>> \in revoked'
                   /\ exchanges'[x].unrecorded > 0 => <<"refresh", x>> \in expired'
        BY <1>b, <4>1, <4>5 DEF TokensSound, RotatedOnce
      <4> HIDE DEF p, e
      <4>6. QED  BY <4>4, <4>5 DEF RotatedOnce
    <3>5. OneExchanger'
      <4>1. ~Exchanging(q)'
        BY <2>3, IdleSound DEF Exchanging, Step
      <4>2. ASSUME NEW x \in Requests, Exchanging(x)'
            PROVE  /\ x # q /\ Exchanging(x) /\ req'[x].token = req[x].token
                   /\ req[x].token[2] \in 1 .. MaxPairs /\ req[x].token[2] # p
        <5>1. x # q /\ req'[x] = req[x] /\ Exchanging(x)
          BY <4>1, <4>2, <2>3 DEF Exchanging, Step
        <5>2. req[x].token # t
          BY <3>1, <5>1 DEF TokensSound, OneExchanger
        <5>3. req[x] \in RequestRow /\ RequestSound(req[x]) /\ req[x].step = "load_user"
          BY <5>1, RowsSound DEF Exchanging, Step
        <5>4. req[x].token = <<"refresh", req[x].token[2]>> /\ req[x].token[2] \in 1 .. MaxPairs
          BY <5>3, TokenTypes DEF RequestSound, RequestRow
        <5>5. QED  BY <5>1, <5>2, <5>4, <1>c
      <4>3. ASSUME NEW x \in Requests, Exchanging(x)'
            PROVE  exchanges'[req'[x].token[2]].recorded = 0
        BY <4>2, <4>3, <2>4 DEF TokensSound, OneExchanger
      <4>4. ASSUME NEW x \in Requests, NEW y \in Requests \ {x}, Exchanging(x)', Exchanging(y)'
            PROVE  req'[y].token # req'[x].token
        BY <4>2, <4>4 DEF TokensSound, OneExchanger
      <4>5. QED  BY <4>3, <4>4 DEF OneExchanger
    <3>6. QED  BY <2>5, <2>6, <3>4, <3>5 DEF TokensSound
  <2>10. QED  BY <2>8, <2>9
<1>3. QED  BY <1>1, <1>2

LEMMA ExpireSound ==
    ASSUME TokensSound, NEW token \in Tokens, Expire(token)
    PROVE  TokensSound'
<1>1. /\ UNCHANGED <<is_active, issued, revoked, req, exchanges>>
      /\ expired' = expired \cup {token}
  BY DEF Expire
<1>2. TypeOK'
  BY <1>1 DEF TokensSound, TypeOK
<1>3. RequestsSound'
  BY <1>1 DEF TokensSound, RequestsSound, RequestSound
<1>4. OneExchanger' /\ RotatedOnce'
  BY <1>1 DEF TokensSound, OneExchanger, RotatedOnce, Exchanging, Step
<1>5. QED  BY <1>2, <1>3, <1>4 DEF TokensSound

LEMMA SetActiveSound ==
    ASSUME TokensSound, NEW b \in BOOLEAN, SetActive(b)
    PROVE  TokensSound'
<1>1. /\ UNCHANGED <<issued, expired, revoked, exchanges>>
      /\ is_active' = b
      /\ TypeOK
  BY DEF SetActive, TokensSound
<1>2. ASSUME NEW q \in Requests
      PROVE  /\ req'[q] \in RequestRow
             /\ RequestSound(req[q])'
             /\ req'[q].step = req[q].step /\ req'[q].late = req[q].late
             /\ req'[q].token = req[q].token
  <2>1. req[q] \in RequestRow /\ RequestSound(req[q])
    BY RowsSound
  <2>2. CASE Step(q) = "idle"
    <3>1. req'[q] = req[q]
      BY <2>2 DEF SetActive
    <3>2. QED  BY <1>1, <2>1, <2>2, <3>1 DEF RequestSound, Step
  <2>3. CASE Step(q) # "idle"
    <3>1. PICK c \in BOOLEAN : c = (req[q].wasActive \/ b)
      OBVIOUS
    <3>2. req'[q] = [req[q] EXCEPT !.wasActive = c]
      BY <2>3, <3>1 DEF SetActive
    <3>3. QED  BY <1>1, <2>1, <3>1, <3>2 DEF RequestSound, RequestRow
  <2>4. QED  BY <2>2, <2>3
<1>3. DOMAIN req' = Requests /\ req' = [q \in Requests |-> req'[q]]
  BY DEF SetActive
<1>4. TypeOK'
  <2>1. req' \in [Requests -> RequestRow]
    BY <1>2, <1>3
  <2>2. QED  BY <1>1, <2>1 DEF TypeOK, RequestRow
<1>5. RequestsSound'
  BY <1>2 DEF RequestsSound
<1>6. OneExchanger' /\ RotatedOnce'
  BY <1>1, <1>2 DEF TokensSound, OneExchanger, RotatedOnce, Exchanging, Step
<1>7. QED  BY <1>4, <1>5, <1>6 DEF TokensSound
-------------------------------------------------------------------------------
LEMMA TokensInit == Init => TokensSound
<1> SUFFICES ASSUME Init PROVE TokensSound
  OBVIOUS
<1>1. RequestsSound
  BY DEF Init, RequestsSound, RequestSound, Idle
<1>2. OneExchanger
  BY DEF Init, OneExchanger, Exchanging, Step, Idle
<1>3. RotatedOnce
  BY DEF Init, RotatedOnce
<1>4. QED  BY <1>1, <1>2, <1>3, TypeInit DEF TokensSound

LEMMA TokensStep == TokensSound /\ [Next]_vars => TokensSound'
<1> SUFFICES ASSUME TokensSound, [Next]_vars PROVE TokensSound'
  OBVIOUS
<1>1. ASSUME NEW q \in Requests, Login(q)
      PROVE  TokensSound'
  BY <1>1, TokenTypes, RequestStarts DEF Login
<1>2. ASSUME NEW q \in Requests, NEW token \in Tokens, Refresh(q, token)
      PROVE  TokensSound'
  BY <1>2, RequestStarts DEF Refresh, Decodes
<1>3. ASSUME NEW q \in Requests, NEW token \in Tokens, NEW op \in {"call", "logout"},
             Use(q, op, token)
      PROVE  TokensSound'
  BY <1>3, RequestStarts DEF Use
<1>4. ASSUME NEW q \in Requests, Answer(q)
      PROVE  TokensSound'
  BY <1>4, RequestEnds DEF Ends, Answer, TokensSound, TypeOK
<1>5. CASE UNCHANGED vars
  BY <1>5 DEF vars, TokensSound, TypeOK, RequestsSound, RequestSound, OneExchanger,
              Exchanging, Step, RotatedOnce
<1>6. QED
  BY <1>1, <1>2, <1>3, <1>4, <1>5, AuthenticateSound, LoginIssuesSound, CheckRefreshSound,
     RevokeSound, LoadUserSound, CheckAccessSound, LogoutDecodesSound, AbortSound,
     ExpireSound, SetActiveSound DEF Next

(* The tables, the requests and what they hold of each other, at every     *)
(* moment of auth.py and token_service.py.                                 *)
THEOREM TokenInvariant == Spec => []TokensSound
<1>1. QED  BY TokensInit, TokensStep, PTL DEF Spec

(* The tables and the requests of the token service always have their      *)
(* types.                                                                  *)
THEOREM TypeCorrect == Spec => []TypeOK
<1>1. TokensSound => TypeOK
  BY DEF TokensSound
<1>2. QED  BY <1>1, TokenInvariant, PTL

(* However many requests present a refresh token at once, refresh_token()  *)
(* and revoke() exchange it for a recorded new pair once at most, and only *)
(* after they revoked it.                                                  *)
THEOREM RefreshedOnce == Spec => []RotatedOnce
<1>1. TokensSound => RotatedOnce
  BY DEF TokensSound
<1>2. QED  BY <1>1, TokenInvariant, PTL

(* is_revoked() stops a request whose token is revoked before its check,   *)
(* and the unique index one that another request overtakes after it.       *)
THEOREM RevokedRefused == Spec => []RevokedIsRefused
<1>1. TokensSound => RevokedIsRefused
  BY DEF TokensSound, RequestsSound, RequestSound, RevokedIsRefused, Step
<1>2. QED  BY <1>1, TokenInvariant, PTL

(* What a step may give, and to whom. *)
Entitled(q) ==
    /\ req[q].wasActive
    /\ req[q].op = "refresh" /\ ~req[q].late => is_active

LEMMA ActorsEntitled ==
    ASSUME TokensSound, NEW p \in Requests,
           LoginIssues(p) \/ LoadUser(p) \/ CheckAccess(p),
           NEW q \in Requests, Gains(q)
    PROVE  Entitled(q)
<1>1. req \in [Requests -> RequestRow] /\ RequestSound(req[q]) /\ req[q] \in RequestRow
  BY RowsSound DEF TokensSound, TypeOK, RequestRow
<1>2. CASE LoginIssues(p)
  <2>1. End(p) /\ Step(p) = "issue"
    BY <1>2 DEF LoginIssues
  <2>2. p = q
    BY <1>1, <2>1 DEF End, Gains, Step, Idle
  <2>3. QED  BY <1>1, <2>1, <2>2 DEF RequestSound, RequestRow, Entitled, Step
<1>3. CASE LoadUser(p)
  <2>1. /\ End(p) /\ Step(p) = "load_user"
        /\ issued' # issued => IF req[p].late THEN req[p].saw ELSE is_active
    BY <1>3 DEF LoadUser
  <2>2. p = q /\ issued' # issued
    BY <1>1, <2>1 DEF End, Gains, Step, Idle
  <2>3. QED  BY <1>1, <2>1, <2>2 DEF RequestSound, Entitled, Step
<1>4. CASE CheckAccess(p)
  <2>1. Step(q) = "check_access" /\ req'[q].step = "granted"
    BY <1>4 DEF CheckAccess, Gains
  <2>2. p = q
    BY <1>1, <1>4, <2>1 DEF CheckAccess, End, Step
  <2>3. is_active
    BY <1>1, <1>4, <2>1, <2>2 DEF CheckAccess, End, Idle
  <2>4. QED  BY <1>1, <2>1, <2>3 DEF RequestSound, Entitled, Step
<1>5. QED  BY <1>2, <1>3, <1>4

(* The other steps give nothing. *)
LEMMA OthersGainNothing ==
    ASSUME TokensSound, NEW p \in Requests,
           \/ Login(p) \/ Authenticate(p) \/ CheckRefresh(p) \/ Revoke(p)
           \/ Answer(p) \/ LogoutDecodes(p) \/ Abort(p)
           \/ \E token \in Tokens :
                 Refresh(p, token) \/ \E op \in {"call", "logout"} : Use(p, op, token),
           NEW q \in Requests, Gains(q)
    PROVE  FALSE
<1>1. req \in [Requests -> RequestRow]
  BY DEF TokensSound, TypeOK, RequestRow
<1>2. issued' = issued
  BY DEF Login, Authenticate, CheckRefresh, Revoke, Answer, LogoutDecodes, Abort, Refresh,
         Use, Start
<1>3. Step(q) = "check_access" /\ req'[q].step = "granted"
  BY <1>2 DEF Gains
<1>4. CASE \/ Login(p) \/ \E token \in Tokens :
                 Refresh(p, token) \/ \E op \in {"call", "logout"} : Use(p, op, token)
  BY <1>1, <1>3, <1>4 DEF Login, Refresh, Use, Start, Step
<1>5. CASE Authenticate(p) \/ CheckRefresh(p) \/ Answer(p) \/ LogoutDecodes(p)
  BY <1>1, <1>3, <1>5 DEF Authenticate, CheckRefresh, Answer, LogoutDecodes, End, Step, Idle
<1>6. CASE Revoke(p) \/ Abort(p)
  <2>1. CASE End(p)
    BY <1>1, <1>3, <2>1 DEF End, Idle, Step
  <2>2. CASE \E row \in RequestRow : Record(p, row) /\ row.step # "granted"
    <3>1. PICK row \in RequestRow : Record(p, row) /\ row.step # "granted"
      BY <2>2
    <3>2. OthersKeep(p) /\ req'[p] = row
      BY <3>1, RecordChanges DEF TokensSound
    <3>3. p # q
      BY <1>3, <3>1, <3>2
    <3>4. req'[q].step = req[q].step
      BY <3>2, <3>3, OthersKeepRows DEF TokensSound
    <3>5. QED  BY <1>3, <3>4 DEF Step
  <2>3. Idle.step # "granted" /\ Idle \in RequestRow
    BY IdleType DEF Idle
  <2>4. /\ [req[p] EXCEPT !.step = "load_user"] \in RequestRow
        /\ [req[p] EXCEPT !.step = "load_user"].step # "granted"
    BY <1>1 DEF RequestRow
  <2>5. QED  BY <1>6, <2>1, <2>2, <2>3, <2>4 DEF Revoke, Abort
<1>7. QED  BY <1>4, <1>5, <1>6

LEMMA OnlyEntitledGain ==
    ASSUME TokensSound, Next, NEW q \in Requests, Gains(q)
    PROVE  Entitled(q)
<1>1. CASE \E token \in Tokens : Expire(token)
  BY <1>1 DEF Expire, Gains, Step
<1>2. CASE \E b \in BOOLEAN : SetActive(b)
  <2>1. issued' = issued
    BY <1>2 DEF SetActive
  <2>2. req'[q].step = req[q].step
    BY <1>2 DEF SetActive, Step, TokensSound, TypeOK
  <2>3. QED  BY <2>1, <2>2 DEF Gains, Step
<1>3. QED  BY <1>1, <1>2, ActorsEntitled, OthersGainNothing DEF Next

(* auth.py and _resolve_user() issue a pair, or let a call through, only   *)
(* to a request that was under way while the account was active; and a     *)
(* recorded refresh gets its pair only if the account is active then.      *)
THEOREM InactiveRefused == Spec => InactiveGetsNothing
<1>1. TokensSound /\ [Next]_vars =>
        [\A q \in Requests : Gains(q) =>
           /\ req[q].wasActive
           /\ req[q].op = "refresh" /\ ~req[q].late => is_active]_vars
  BY OnlyEntitledGain DEF Entitled
<1>2. QED  BY <1>1, TokenInvariant, PTL DEF Spec, InactiveGetsNothing
===============================================================================
