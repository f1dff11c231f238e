---------------------------- MODULE AccessProofs ----------------------------
(***************************************************************************)
(* For any number of requests, users and faults, and any setting to start  *)
(* from: what a call did it was once entitled to; the rule of the branch   *)
(* is what the last change asked for; the rows are what the schema says.   *)
(***************************************************************************)
EXTENDS Access, FiniteSetTheorems, TLAPS

USE DEF None, Read, Write, Admin, Owner

-----------------------------------------------------------------------------
(* Types                                                                   *)

LockRow == [id : Ids, owner : Actors]
Request == [op : Ops, by : Actors, who : Users, team : Teams, flag : BOOLEAN, level : 0..3,
            users : SUBSET Users, id : Ids, want : 0..4, shut : BOOLEAN, direct : 0..4,
            seen : SUBSET Rule, todo : SUBSET Users, alone : BOOLEAN, unread : BOOLEAN,
            took : SUBSET LockRow, at : Place]

\* The types the argument needs: TypeOK without what counts rows, but at most
\* one rule, and allowlist rows of it only (the foreign key).
TablesTyped ==
    /\ private \in BOOLEAN
    /\ grant \in [Users \union Teams -> 0..4]
    /\ members \in [Teams -> SUBSET Users]
    /\ override \subseteq 0..3 /\ default \in 0..3
    /\ rule \subseteq Rule /\ \A r, q \in rule : r = q
    /\ allow \subseteq {r.id : r \in rule} \X Users
    /\ key \in {"none", "ro", "rw"}
    /\ lock \subseteq LockRow
    /\ left \in 0..MaxCalls

Typed == TablesTyped /\ call \in [Calls -> Request]

LEMMA IdleType == Idle \in Request
  BY AccessAssumption DEF Idle, Request, Ops, Actors, Teams, Ids, Place

\* A request of which one field is another.
LEMMA FieldTypes ==
    ASSUME NEW x \in Request
    PROVE  /\ [x EXCEPT !.unread = TRUE] \in Request
           /\ \A b \in BOOLEAN : [x EXCEPT !.alone = b] \in Request
           /\ \A s \in SUBSET Users : [x EXCEPT !.todo = s] \in Request
  <1>1. [x EXCEPT !.unread = TRUE] \in Request
    BY DEF Request
  <1>2. \A b \in BOOLEAN : [x EXCEPT !.alone = b] \in Request
    BY DEF Request
  <1>3. \A s \in SUBSET Users : [x EXCEPT !.todo = s] \in Request
    BY DEF Request
  <1> QED
    BY <1>1, <1>2, <1>3

\* What Answered tells, and that it is a request.
LEMMA AnsweredType ==
    ASSUME NEW x \in Request
    PROVE  /\ Answered(x) \in Request
           /\ Answered(x).op = x.op /\ Answered(x).by = x.by /\ Answered(x).flag = x.flag
           /\ Answered(x).unread = x.unread /\ Answered(x).took = x.took
           /\ Answered(x).at = "ok"
  <1>1. x.op \in Ops /\ x.by \in Actors /\ x.flag \in BOOLEAN /\ x.unread \in BOOLEAN /\ x.took \in SUBSET LockRow
    BY DEF Request
  <1>2. "ok" \in Place
    BY DEF Place
  <1>3. PICK y \in Request : y = Idle
    BY IdleType
  <1>4. Answered(x) = [y EXCEPT !.op = x.op, !.by = x.by, !.flag = x.flag, !.unread = x.unread,
                                !.took = x.took, !.at = "ok"]
    BY <1>3 DEF Answered
  <1>5. PICK op \in Ops, by \in Actors, flag \in BOOLEAN, unread \in BOOLEAN, took \in SUBSET LockRow, p \in Place :
          op = x.op /\ by = x.by /\ flag = x.flag /\ unread = x.unread /\ took = x.took /\ p = "ok"
    BY <1>1, <1>2
  <1>6. Answered(x) = [y EXCEPT !.op = op, !.by = by, !.flag = flag, !.unread = unread, !.took = took, !.at = p]
    BY <1>4, <1>5
  <1> DEFINE z == [y EXCEPT !.op = op, !.by = by, !.flag = flag, !.unread = unread, !.took = took, !.at = p]
  <1>7. z \in Request /\ z.op = op /\ z.by = by /\ z.flag = flag /\ z.unread = unread /\ z.took = took /\ z.at = p
    BY DEF Request
  <1>8. Answered(x) = z
    BY <1>6
  <1> HIDE DEF z
  <1> QED
    BY <1>5, <1>7, <1>8

\* The largest of some roles is one of them, or nobody's.
LEMMA BestRole ==
    ASSUME NEW roles \in SUBSET (0..4)
    PROVE  /\ Best(roles) \in roles \union {0}
           /\ Best(roles) \in 0..4
           /\ \A s \in roles : Best(roles) >= s
  <1> DEFINE top(r) == r \in roles \union {0} /\ \A s \in roles : r >= s
  <1>1. \E r \in 0..4 : top(r)
    <2>1. CASE 4 \in roles
      BY <2>1
    <2>2. CASE 4 \notin roles /\ 3 \in roles
      BY <2>2
    <2>3. CASE 4 \notin roles /\ 3 \notin roles /\ 2 \in roles
      BY <2>3
    <2>4. CASE 4 \notin roles /\ 3 \notin roles /\ 2 \notin roles /\ 1 \in roles
      BY <2>4
    <2>5. CASE 4 \notin roles /\ 3 \notin roles /\ 2 \notin roles /\ 1 \notin roles
      BY <2>5
    <2> QED
      BY <2>1, <2>2, <2>3, <2>4, <2>5
  <1>2. Best(roles) = CHOOSE r \in roles \union {0} : \A s \in roles : r >= s
    BY DEF Best
  <1>3. Best(roles) \in roles \union {0} /\ \A s \in roles : Best(roles) >= s
    <2>1. PICK r \in 0..4 : top(r)
      BY <1>1
    <2> QED
      BY <1>2, <2>1
  <1>4. roles \union {0} \subseteq 0..4
    OBVIOUS
  <1> QED
    BY <1>3, <1>4

\* What two reads of the roles amount to.
LEMMA RankBounds ==
    ASSUME TablesTyped, NEW a \in Users \union {Pat}
    PROVE  /\ UserOf(a) \in Users
           /\ Rank(a) \in 0..4
           /\ Rank(a) >= grant[UserOf(a)]
           /\ \A t \in Teams : UserOf(a) \in members[t] => Rank(a) >= grant[t]
  <1> DEFINE roles == {grant[UserOf(a)]} \union {grant[t] : t \in {t \in Teams : UserOf(a) \in members[t]}}
  <1>1. UserOf(a) \in Users
    BY AccessAssumption DEF UserOf
  <1>2. roles \in SUBSET (0..4)
    BY <1>1 DEF TablesTyped
  <1>3. a # Anonymous /\ a # Key
    BY AccessAssumption
  <1>4. Rank(a) = Best(roles)
    BY <1>3 DEF Rank
  <1>5. /\ grant[UserOf(a)] \in roles
        /\ \A t \in Teams : UserOf(a) \in members[t] => grant[t] \in roles
    OBVIOUS
  <1> HIDE DEF roles
  <1> QED
    BY <1>1, <1>2, <1>4, <1>5, BestRole

LEMMA RankOfKey ==
    Rank(Key) = IF key = "rw" THEN 2 ELSE IF key = "ro" THEN 1 ELSE 0
  BY AccessAssumption DEF Rank

\* The pairs of columns some steps set at once.
LEMMA PairTypes ==
    ASSUME NEW x \in Request, NEW p \in Place
    PROVE  /\ \A r \in 0..4 : [x EXCEPT !.at = p, !.direct = r] \in Request
           /\ \A r \in 0..4 : [x EXCEPT !.want = r, !.at = p] \in Request
           /\ \A b \in Actors, r \in 0..4 : [x EXCEPT !.at = p, !.want = r, !.by = b] \in Request
           /\ \A s \in SUBSET Rule : [x EXCEPT !.at = p, !.seen = s] \in Request
           /\ \A r \in 0..3 : [x EXCEPT !.level = r, !.at = p] \in Request
           /\ \A a \in BOOLEAN, s \in SUBSET Rule, i \in Ids :
                 [x EXCEPT !.alone = a, !.seen = s, !.id = i, !.at = p] \in Request
  <1>1. \A r \in 0..4 : [x EXCEPT !.at = p, !.direct = r] \in Request
    BY DEF Request
  <1>2. \A r \in 0..4 : [x EXCEPT !.want = r, !.at = p] \in Request
    BY DEF Request
  <1>3. \A b \in Actors, r \in 0..4 : [x EXCEPT !.at = p, !.want = r, !.by = b] \in Request
    BY DEF Request
  <1>4. \A s \in SUBSET Rule : [x EXCEPT !.at = p, !.seen = s] \in Request
    BY DEF Request
  <1>5. \A r \in 0..3 : [x EXCEPT !.level = r, !.at = p] \in Request
    BY DEF Request
  <1>6. \A a \in BOOLEAN, s \in SUBSET Rule, i \in Ids :
                 [x EXCEPT !.alone = a, !.seen = s, !.id = i, !.at = p] \in Request
    BY DEF Request
  <1> QED
    BY <1>1, <1>2, <1>3, <1>4, <1>5, <1>6

\* The ways a call goes on.
LEMMA GoesOn ==
    ASSUME call \in [Calls -> Request], NEW c \in Calls,
           Leave(c) \/ Succeed(c) \/ (\E p \in Place : Goto(c, p))
    PROVE  call' \in [Calls -> Request]
  <1>1. call[c] \in Request
    OBVIOUS
  <1>2. Answered(call[c]) \in Request
    BY <1>1, AnsweredType
  <1>3. \A p \in Place : [call[c] EXCEPT !.at = p] \in Request
    BY <1>1 DEF Request
  <1> QED
    BY <1>2, <1>3, IdleType DEF Leave, Succeed, Goto

\* A call moves and the tables stay.
LEMMA OnlyCall ==
    ASSUME TablesTyped, UNCHANGED <<grant, members, override, default, rule, allow, key, lock>>,
           private' \in BOOLEAN, left' \in 0..MaxCalls
    PROVE  TablesTyped'
  BY DEF TablesTyped

LEMMA Grants ==
    ASSUME TablesTyped, NEW s \in Users \union Teams, NEW r \in 0..4,
           grant' \in {Inserted(s, r), [grant EXCEPT ![s] = 0]},
           UNCHANGED <<private, members, override, default, rule, allow, key, lock, left>>
    PROVE  TablesTyped'
  BY DEF TablesTyped, Inserted

LEMMA CodeRoleType ==
    ASSUME TablesTyped, NEW t
    PROVE  CodeRole(t) \in 0..3
  BY DEF TablesTyped, CodeRole

LEMMA BeginType ==
    ASSUME Typed, NEW c \in Calls, NEW op \in Ops, NEW a \in Actors, NEW who \in Users,
           NEW team \in Teams, NEW flag \in BOOLEAN, NEW level \in 0..3, NEW users \in SUBSET Users,
           Begin(c, op, a, who, team, flag, level, users)
    PROVE  call' \in [Calls -> Request] /\ left' \in 0..MaxCalls /\ left = left' + 1
  <1>1. PICK id \in CASE op = "unset" -> {r.id : r \in rule} [] op = "unlock" -> {l.id : l \in lock}
                      [] OTHER -> {left} :
        call' = [call EXCEPT ![c] = [Idle EXCEPT !.op = op, !.by = a, !.who = who, !.team = team,
                    !.flag = flag, !.level = IF a = Key THEN Rank(Key) ELSE level, !.users = users,
                    !.id = id, !.want = Minimum(op), !.shut = private, !.todo = users,
                    !.at = IF op \in OrgOps THEN "org" ELSE "direct"]]
    BY DEF Begin
  <1>2. left \in Ids /\ left # 0 /\ left' = left - 1
    BY DEF Begin, Typed, TablesTyped, Ids
  <1>3. {r.id : r \in rule} \subseteq Ids /\ {l.id : l \in lock} \subseteq Ids
    BY DEF Typed, TablesTyped, Rule, LockRow
  <1>4. id \in Ids
    BY <1>1, <1>2, <1>3
  <1>5. (IF a = Key THEN Rank(Key) ELSE level) \in 0..3
    BY RankOfKey
  <1>6. Minimum(op) \in 0..4
    BY DEF Minimum
  <1>7. (IF op \in OrgOps THEN "org" ELSE "direct") \in Place
    BY DEF Place
  <1> DEFINE l == IF a = Key THEN Rank(Key) ELSE level
             m == Minimum(op)
             p == IF op \in OrgOps THEN "org" ELSE "direct"
  <1>8. [Idle EXCEPT !.op = op, !.by = a, !.who = who, !.team = team,
                    !.flag = flag, !.level = l, !.users = users,
                    !.id = id, !.want = m, !.shut = private, !.todo = users,
                    !.at = p] \in Request
    <2>1. l \in 0..3 /\ m \in 0..4 /\ p \in Place
      BY <1>5, <1>6, <1>7
    <2> HIDE DEF l, m, p
    <2> QED
      BY <1>4, <2>1, IdleType DEF Request, Typed, TablesTyped
  <1> HIDE DEF l, m, p
  <1>9. call' \in [Calls -> Request]
    BY <1>1, <1>8 DEF Typed, l, m, p
  <1> QED
    BY <1>2, <1>9, AccessAssumption DEF Ids

LEMMA AskBegins ==
    ASSUME NEW c \in Calls, Ask(c)
    PROVE  \E op \in Ops, a \in Actors, who \in Users, team \in Teams, flag \in BOOLEAN,
              level \in 0..3, users \in SUBSET Users :
                Begin(c, op, a, who, team, flag, level, users)
  <1> DEFINE G(op, a, who, team, flag, level, users) == Begin(c, op, a, who, team, flag, level, users)
  <1>1. Creator \in Users /\ Dev \in Teams /\ Levels \subseteq 0..3 /\ 0 \in 0..3
    BY AccessAssumption DEF Teams
  <1>2. {"read", "lock", "unlock", "unkey", "unset", "push", "key", "visibility", "add", "remove",
         "join", "leave", "attach", "permit", "set"} \subseteq Ops
    BY DEF Ops
  <1>3. {} \in SUBSET Users /\ FALSE \in BOOLEAN
    OBVIOUS
  <1>4. PICK a \in Actors :
          \/ \E op \in {"read", "lock", "unlock", "unkey", "unset"} : G(op, a, Creator, Dev, FALSE, 0, {})
          \/ \E op \in {"push", "key", "visibility"}, f \in BOOLEAN : G(op, a, Creator, Dev, f, 0, {})
          \/ \E op \in {"add", "remove"}, u \in Users : G(op, a, u, Dev, FALSE, 0, {})
          \/ \E op \in {"join", "leave"}, u \in Users, t \in Teams : G(op, a, u, t, FALSE, 0, {})
          \/ \E t \in Teams : G("attach", a, Creator, t, FALSE, 0, {})
          \/ \E level \in Levels : G("permit", a, Creator, Dev, FALSE, level, {})
          \/ \E users \in {{}} \union {{u} : u \in Users}, f \in BOOLEAN : G("set", a, Creator, Dev, f, 0, users)
    BY DEF Ask
  <1> DEFINE Goal == \E op \in Ops, b \in Actors, who \in Users, team \in Teams, flag \in BOOLEAN,
                        level \in 0..3, users \in SUBSET Users : G(op, b, who, team, flag, level, users)
  <1> HIDE DEF G
  <1>5. ASSUME NEW op \in {"read", "lock", "unlock", "unkey", "unset"}, G(op, a, Creator, Dev, FALSE, 0, {})
        PROVE  Goal
    BY <1>1, <1>2, <1>3, <1>5
  <1>6. ASSUME NEW op \in {"push", "key", "visibility"}, NEW f \in BOOLEAN, G(op, a, Creator, Dev, f, 0, {})
        PROVE  Goal
    BY <1>1, <1>2, <1>3, <1>6
  <1>7. ASSUME NEW op \in {"add", "remove"}, NEW u \in Users, G(op, a, u, Dev, FALSE, 0, {})
        PROVE  Goal
    BY <1>1, <1>2, <1>3, <1>7
  <1>8. ASSUME NEW op \in {"join", "leave"}, NEW u \in Users, NEW t \in Teams, G(op, a, u, t, FALSE, 0, {})
        PROVE  Goal
    BY <1>1, <1>2, <1>3, <1>8
  <1>9. ASSUME NEW t \in Teams, G("attach", a, Creator, t, FALSE, 0, {})
        PROVE  Goal
    BY <1>1, <1>2, <1>3, <1>9
  <1>10. ASSUME NEW level \in Levels, G("permit", a, Creator, Dev, FALSE, level, {})
         PROVE  Goal
    BY <1>1, <1>2, <1>3, <1>10
  <1>11. ASSUME NEW users \in {{}} \union {{u} : u \in Users}, NEW f \in BOOLEAN,
                G("set", a, Creator, Dev, f, 0, users)
         PROVE  Goal
    <2>1. users \in SUBSET Users
      OBVIOUS
    <2> QED
      BY <1>1, <1>2, <1>11, <2>1
  <1>12. Goal
    BY <1>4, <1>5, <1>6, <1>7, <1>8, <1>9, <1>10, <1>11
  <1> QED
    BY <1>12 DEF G

LEMMA AskType ==
    ASSUME Typed, NEW c \in Calls, Ask(c)
    PROVE  /\ call' \in [Calls -> Request] /\ left' \in 0..MaxCalls
           /\ UNCHANGED <<tables, faults, asked>>
  <1>1. PICK op \in Ops, a \in Actors, who \in Users, team \in Teams, flag \in BOOLEAN,
             level \in 0..3, users \in SUBSET Users :
           Begin(c, op, a, who, team, flag, level, users)
    BY AskBegins
  <1>2. call' \in [Calls -> Request] /\ left' \in 0..MaxCalls
    BY <1>1, BeginType
  <1> QED
    BY <1>1, <1>2 DEF Begin

\* A set-up of the rule keeps its row single and the allowlist its own.
LEMMA RuleTables ==
    ASSUME Typed, NEW c \in Calls, call[c].todo \subseteq Users,
           UpdateRule(c) \/ InsertRule(c) \/ ClearAllowlist(c) \/ FillAllowlist(c) \/ DeleteRule(c)
    PROVE  TablesTyped'
  <1> USE DEF RuleOnly
  <1>1. /\ call[c] \in Request /\ call[c].id \in Ids /\ call[c].flag \in BOOLEAN
        /\ rule \subseteq Rule /\ (\A r, q \in rule : r = q)
        /\ allow \subseteq {r.id : r \in rule} \X Users
    BY DEF Typed, TablesTyped, Request
  <1>2. UNCHANGED <<private, grant, members, override, default, key, lock, left>>
    BY DEF UpdateRule, InsertRule, ClearAllowlist, FillAllowlist, DeleteRule
  <1>3. /\ rule' \subseteq Rule /\ (\A r, q \in rule' : r = q)
        /\ allow' \subseteq {r.id : r \in rule'} \X Users
    <2>1. CASE UpdateRule(c)
      <3> DEFINE New(r) == IF r.id = call[c].id THEN [r EXCEPT !.linear = call[c].flag] ELSE r
      <3>1. rule' = {New(r) : r \in rule} /\ allow' = allow
        BY <2>1 DEF UpdateRule
      <3>2. \A r \in rule : New(r) \in Rule /\ New(r).id = r.id
        BY <1>1 DEF Rule
      <3> HIDE DEF New
      <3>3. {r.id : r \in rule'} = {r.id : r \in rule}
        BY <3>1, <3>2
      <3> QED
        BY <1>1, <3>1, <3>2, <3>3
    <2>2. CASE InsertRule(c)
      <3>1. CASE rule = {}
        <4>1. rule' = {[id |-> call[c].id, linear |-> call[c].flag]} /\ allow' = allow
          BY <2>2, <3>1 DEF InsertRule
        <4>2. allow = {}
          BY <1>1, <3>1
        <4> QED
          BY <1>1, <4>1, <4>2 DEF Rule
      <3>2. CASE rule # {}
        BY <1>1, <2>2, <3>2 DEF InsertRule
      <3> QED
        BY <3>1, <3>2
    <2>3. CASE ClearAllowlist(c)
      BY <1>1, <2>3 DEF ClearAllowlist, Cleared
    <2>4. CASE FillAllowlist(c)
      BY <1>1, <2>4 DEF FillAllowlist
    <2>5. CASE DeleteRule(c)
      <3>1. /\ rule' = {r \in rule : r.id # call[c].id}
            /\ allow' = {p \in allow : p[1] # call[c].id}
        BY <2>5 DEF DeleteRule
      <3>2. \A p \in allow : \E r \in rule : p[1] = r.id /\ p[2] \in Users /\ p = <<p[1], p[2]>>
        BY <1>1
      <3> QED
        BY <1>1, <3>1, <3>2
    <2> QED
      BY <2>1, <2>2, <2>3, <2>4, <2>5
  <1> QED
    BY <1>2, <1>3 DEF Typed, TablesTyped

LEMMA TypedStep ==
    ASSUME Typed, [Next]_vars
    PROVE  Typed'
  <1> USE DEF tables, RuleOnly
  <1>0. /\ call \in [Calls -> Request] /\ TablesTyped /\ left \in 0..MaxCalls
        /\ private \in BOOLEAN
    BY DEF Typed, TablesTyped
  <1>a. \A p \in {"direct", "teams", "rules", "allow", "found", "act", "update", "insert",
                  "clear", "fill", "put"} : p \in Place
    BY DEF Place
  <1>1. ASSUME NEW c \in Calls, Ask(c)
        PROVE  Typed'
    BY <1>0, <1>1, AskType, OnlyCall DEF Typed
  <1>2. ASSUME NEW c \in Calls, ReadDirect(c)
        PROVE  Typed'
    <2>1. (IF UserOf(call[c].by) \in Users THEN grant[UserOf(call[c].by)] ELSE None) \in 0..4
      BY <1>0 DEF TablesTyped
    <2>2. call' \in [Calls -> Request]
      BY <1>0, <1>2, <1>a, <2>1, PairTypes DEF ReadDirect
    <2> QED
      BY <1>0, <1>2, <2>2, OnlyCall DEF ReadDirect, Typed
  <1>3. ASSUME NEW c \in Calls, Decide(c)
        PROVE  Typed'
    <2>1. \/ Succeed(c) \/ Leave(c) \/ (\E p \in Place : Goto(c, p))
          \/ \E b \in Actors : call' = [call EXCEPT ![c].at = "direct", ![c].want = Admin, ![c].by = b]
      <3>1. Then(call[c]) \in Place /\ call[c].by \in Actors /\ Anonymous \in Actors
        BY <1>0, <1>a DEF Then, Request, Actors
      <3> QED
        BY <1>3, <1>a, <3>1 DEF Decide
    <2>2. call' \in [Calls -> Request]
      <3>1. ASSUME NEW b \in Actors, call' = [call EXCEPT ![c].at = "direct", ![c].want = Admin, ![c].by = b]
            PROVE  call' \in [Calls -> Request]
        <4>1. call[c] \in Request /\ "direct" \in Place /\ 3 \in 0..4
          BY <1>0, <1>a
        <4>2. [call[c] EXCEPT !.at = "direct", !.want = 3, !.by = b] \in Request
          BY <4>1, PairTypes
        <4> QED
          BY <1>0, <3>1, <4>2
      <3> QED
        BY <1>0, <2>1, <3>1, GoesOn
    <2> QED
      BY <1>0, <1>3, <2>2, OnlyCall DEF Decide, Typed
  <1>4. ASSUME NEW c \in Calls, ReadRules(c)
        PROVE  Typed'
    <2>1. Succeed(c) \/ call' = [call EXCEPT ![c].at = "allow", ![c].seen = rule]
      BY <1>4 DEF ReadRules
    <2>2. call' \in [Calls -> Request]
      <3>1. ASSUME call' = [call EXCEPT ![c].at = "allow", ![c].seen = rule]
            PROVE  call' \in [Calls -> Request]
        BY <1>0, <1>a, <3>1, PairTypes DEF TablesTyped
      <3> QED
        BY <1>0, <2>1, <3>1, GoesOn
    <2> QED
      BY <1>0, <1>4, <2>2, OnlyCall DEF ReadRules, Typed
  <1>5. ASSUME NEW c \in Calls, Unreadable(c)
        PROVE  Typed'
    <2>1. [call[c] EXCEPT !.unread = TRUE] \in Request
      BY <1>0, FieldTypes
    <2>2. Answered([call[c] EXCEPT !.unread = TRUE]) \in Request
      BY <2>1, AnsweredType
    <2>3. call' \in [Calls -> Request]
      BY <1>0, <1>5, <2>2 DEF Unreadable
    <2> QED
      BY <1>0, <1>5, <2>3, OnlyCall DEF Unreadable, Typed
  <1>6. ASSUME NEW c \in Calls, SetVisibility(c) \/ CheckOrganization(c) \/ ReadAllowlist(c) \/ Return(c) \/ Cut(c)
        PROVE  Typed'
    <2>1. Leave(c) \/ Succeed(c) \/ (\E p \in Place : Goto(c, p))
      BY <1>6, <1>a DEF SetVisibility, CheckOrganization, ReadAllowlist, Return, Cut, Answer
    <2>2. call[c].flag \in BOOLEAN
      BY <1>0 DEF Request
    <2>3. UNCHANGED <<grant, members, override, default, rule, allow, key, lock, left>> /\ private' \in BOOLEAN
      BY <1>0, <1>6, <2>2 DEF SetVisibility, CheckOrganization, ReadAllowlist, Return, Cut
    <2> QED
      BY <1>0, <2>1, <2>3, GoesOn, OnlyCall DEF Typed
  <1>7. ASSUME NEW c \in Calls, AddCollaborator(c) \/ RemoveCollaborator(c) \/ AttachTeam(c)
        PROVE  Typed'
    <2>1. Leave(c) \/ Succeed(c)
      BY <1>7 DEF AddCollaborator, RemoveCollaborator, AttachTeam
    <2>2. call[c].who \in Users \union Teams /\ call[c].team \in Users \union Teams
          /\ call[c].level \in 0..4
      BY <1>0 DEF Request
    <2>3. TablesTyped'
      BY <1>0, <1>7, <2>2, Grants, OnlyCall DEF AddCollaborator, RemoveCollaborator, AttachTeam
    <2> QED
      BY <1>0, <2>1, <2>3, GoesOn DEF Typed
  <1>8. ASSUME NEW c \in Calls, ReadCodeRole(c)
        PROVE  Typed'
    <2>1. Leave(c) \/ call' = [call EXCEPT ![c].level = CodeRole(call[c].team), ![c].at = "act"]
      BY <1>8 DEF ReadCodeRole
    <2>2. CodeRole(call[c].team) \in 0..3
      BY <1>0, CodeRoleType
    <2>3. call' \in [Calls -> Request]
      <3>1. ASSUME call' = [call EXCEPT ![c].level = CodeRole(call[c].team), ![c].at = "act"]
            PROVE  call' \in [Calls -> Request]
        BY <1>0, <1>a, <2>2, <3>1, PairTypes
      <3> QED
        BY <1>0, <2>1, <3>1, GoesOn
    <2> QED
      BY <1>0, <1>8, <2>3, OnlyCall DEF ReadCodeRole, Typed
  <1>9. ASSUME NEW c \in Calls, AddKey(c) \/ RemoveKey(c)
        PROVE  Typed'
    <2>1. Leave(c) \/ Succeed(c)
      BY <1>9 DEF AddKey, RemoveKey, Answer
    <2>2. /\ UNCHANGED <<private, grant, members, override, default, rule, allow, lock, left>>
          /\ key' \in {"none", "ro", "rw"}
      BY <1>0, <1>9 DEF AddKey, RemoveKey, TablesTyped
    <2>3. TablesTyped'
      BY <1>0, <2>2 DEF TablesTyped
    <2> QED
      BY <1>0, <2>1, <2>3, GoesOn DEF Typed
  <1>10. ASSUME NEW c \in Calls, AddMember(c) \/ RemoveMember(c)
         PROVE  Typed'
    <2>1. Leave(c) \/ Succeed(c)
      BY <1>10 DEF AddMember, RemoveMember, Answer
    <2>2. call[c].who \in Users
      BY <1>0 DEF Request
    <2>3. /\ UNCHANGED <<private, grant, override, default, rule, allow, key, lock, left>>
          /\ members' \in [Teams -> SUBSET Users]
      BY <1>0, <1>10, <2>2 DEF AddMember, RemoveMember, TablesTyped
    <2>4. TablesTyped'
      BY <1>0, <2>3 DEF TablesTyped
    <2> QED
      BY <1>0, <2>1, <2>4, GoesOn DEF Typed
  <1>11. ASSUME NEW c \in Calls, ClearOverride(c) \/ PutOverride(c)
         PROVE  Typed'
    <2>1. Leave(c) \/ Succeed(c) \/ (\E p \in Place : Goto(c, p))
      BY <1>11, <1>a DEF ClearOverride, PutOverride
    <2>2. call[c].level \in 0..3
      BY <1>0 DEF Request
    <2>3. /\ UNCHANGED <<private, grant, members, default, rule, allow, key, lock, left>>
          /\ override' \subseteq 0..3
      BY <1>0, <1>11, <2>2 DEF ClearOverride, PutOverride, TablesTyped
    <2>4. TablesTyped'
      BY <1>0, <2>3 DEF TablesTyped
    <2> QED
      BY <1>0, <2>1, <2>4, GoesOn DEF Typed
  <1>12. ASSUME NEW c \in Calls, SelectRule(c)
         PROVE  Typed'
    <2> DEFINE id == IF rule = {} THEN call[c].id ELSE (CHOOSE r \in rule : TRUE).id
               p == IF rule = {} THEN "insert" ELSE "update"
               alone == Others(c) = {}
    <2>1. id \in Ids /\ p \in Place /\ alone \in BOOLEAN /\ rule \in SUBSET Rule
      BY <1>0, <1>a DEF TablesTyped, Rule, Request
    <2>2. \A d \in Calls : (call[d].alone /\ ~Changing(d)) \in BOOLEAN
      OBVIOUS
    <2>3. call' = [d \in Calls |-> IF d = c THEN [call[c] EXCEPT !.alone = alone, !.seen = rule, !.id = id, !.at = p]
                                   ELSE [call[d] EXCEPT !.alone = call[d].alone /\ ~Changing(d)]]
      BY <1>12 DEF SelectRule
    <2> HIDE DEF id, p, alone
    <2>4. [call[c] EXCEPT !.alone = alone, !.seen = rule, !.id = id, !.at = p] \in Request
      BY <1>0, <2>1, PairTypes
    <2>5. \A d \in Calls : [call[d] EXCEPT !.alone = call[d].alone /\ ~Changing(d)] \in Request
      BY <1>0, <2>2, FieldTypes
    <2>6. call' \in [Calls -> Request]
      BY <2>3, <2>4, <2>5
    <2> QED
      BY <1>0, <1>12, <2>6, OnlyCall DEF SelectRule, Typed
  <1>13. ASSUME NEW c \in Calls, UpdateRule(c) \/ InsertRule(c) \/ ClearAllowlist(c)
         PROVE  Typed'
    <2>1. Leave(c) \/ Succeed(c) \/ (\E p \in Place : Goto(c, p))
      BY <1>13, <1>a DEF UpdateRule, InsertRule, ClearAllowlist
    <2>2. call[c].todo \subseteq Users
      BY <1>0 DEF Request
    <2> QED
      BY <1>0, <1>13, <2>1, <2>2, GoesOn, RuleTables DEF Typed
  <1>14. ASSUME NEW c \in Calls, FillAllowlist(c)
         PROVE  Typed'
    <2>1. call[c].todo \in SUBSET Users
      BY <1>0 DEF Request
    <2>2. Leave(c) \/ Succeed(c) \/ (\E s \in SUBSET Users : call' = [call EXCEPT ![c].todo = s])
      <3>1. PICK u \in call[c].todo :
               Leave(c) \/ Succeed(c) \/ call' = [call EXCEPT ![c].todo = @ \ {u}]
        BY <1>14 DEF FillAllowlist
      <3>2. call[c].todo \ {u} \in SUBSET Users
        BY <2>1
      <3>3. call' = [call EXCEPT ![c].todo = @ \ {u}] => call' = [call EXCEPT ![c].todo = call[c].todo \ {u}]
        OBVIOUS
      <3> QED
        BY <3>1, <3>2, <3>3
    <2>3. call' \in [Calls -> Request]
      <3>1. ASSUME NEW s \in SUBSET Users, call' = [call EXCEPT ![c].todo = s]
            PROVE  call' \in [Calls -> Request]
        BY <1>0, <3>1 DEF Request
      <3> QED
        BY <1>0, <2>2, <3>1, GoesOn
    <2> QED
      BY <1>0, <1>14, <2>1, <2>3, RuleTables DEF Typed
  <1>15. ASSUME NEW c \in Calls, DeleteRule(c)
         PROVE  Typed'
    <2>1. \A d \in Calls : (call[d].alone /\ ~Changing(d)) \in BOOLEAN
      OBVIOUS
    <2>2. \A d \in Calls : [call[d] EXCEPT !.alone = call[d].alone /\ ~Changing(d)] \in Request
      BY <1>0, <2>1, FieldTypes
    <2>3. Answered(call[c]) \in Request
      BY <1>0, AnsweredType
    <2>4. call' \in [Calls -> Request]
      BY <1>15, <2>2, <2>3, IdleType DEF DeleteRule
    <2>5. call[c].todo \subseteq Users
      BY <1>0 DEF Request
    <2> QED
      BY <1>15, <2>4, <2>5, RuleTables DEF Typed
  <1>16. ASSUME NEW c \in Calls, CreateLock(c)
         PROVE  Typed'
    <2>1. Leave(c) \/ Succeed(c)
      BY <1>16 DEF CreateLock
    <2>2. lock' \subseteq LockRow
      <3>1. call[c].id \in Ids /\ call[c].by \in Actors
        BY <1>0 DEF Request
      <3> QED
        BY <1>0, <1>16, <3>1 DEF CreateLock, TablesTyped, LockRow
    <2>3. TablesTyped'
      BY <1>0, <1>16, <2>2 DEF CreateLock, TablesTyped
    <2> QED
      BY <1>0, <2>1, <2>3, GoesOn DEF Typed
  <1>17. ASSUME NEW c \in Calls, FindLock(c)
         PROVE  Typed'
    <2>1. Leave(c) \/ (\E p \in Place : Goto(c, p)) \/ call' = [call EXCEPT ![c].want = 3, ![c].at = "direct"]
      BY <1>17, <1>a DEF FindLock
    <2>2. call' \in [Calls -> Request]
      <3>1. ASSUME call' = [call EXCEPT ![c].want = 3, ![c].at = "direct"]
            PROVE  call' \in [Calls -> Request]
        <4>1. call[c] \in Request /\ "direct" \in Place /\ 3 \in 0..4
          BY <1>0, <1>a
        <4>2. [call[c] EXCEPT !.want = 3, !.at = "direct"] \in Request
          BY <4>1, PairTypes
        <4> QED
          BY <1>0, <3>1, <4>2
      <3> QED
        BY <1>0, <2>1, <3>1, GoesOn
    <2> QED
      BY <1>0, <1>17, <2>2, OnlyCall DEF FindLock, Typed
  <1>18. ASSUME NEW c \in Calls, DeleteLock(c)
         PROVE  Typed'
    <2>1. Taken(call[c].id) \in SUBSET LockRow
      BY <1>0 DEF Taken, TablesTyped
    <2>2. [call[c] EXCEPT !.took = Taken(call[c].id)] \in Request
      BY <1>0, <2>1 DEF Request
    <2>3. Answered([call[c] EXCEPT !.took = Taken(call[c].id)]) \in Request
      BY <2>2, AnsweredType
    <2>4. call' \in [Calls -> Request]
      BY <1>0, <1>18, <2>3, IdleType DEF DeleteLock, Leave
    <2>5. /\ UNCHANGED <<private, grant, members, override, default, rule, allow, key, left>>
          /\ lock' \subseteq LockRow
      BY <1>0, <1>18 DEF DeleteLock, TablesTyped
    <2>6. TablesTyped'
      BY <1>0, <2>5 DEF TablesTyped
    <2> QED
      BY <2>4, <2>6 DEF Typed
  <1>19. CASE AdminFlipsVisibility \/ RevokeToken
    <2>1. /\ UNCHANGED <<grant, members, override, default, rule, allow, key, lock, call, left>>
          /\ private' \in BOOLEAN
      BY <1>0, <1>19 DEF AdminFlipsVisibility, RevokeToken
    <2> QED
      BY <1>0, <2>1, OnlyCall DEF Typed
  <1>20. CASE UNCHANGED vars
    BY <1>0, <1>20, OnlyCall DEF Typed, vars
  <1> QED
    BY <1>1, <1>2, <1>3, <1>4, <1>5, <1>6, <1>7, <1>8, <1>9, <1>10, <1>11, <1>12, <1>13,
       <1>14, <1>15, <1>16, <1>17, <1>18, <1>19, <1>20 DEF Next, Step

-----------------------------------------------------------------------------
(* What a call at each of its places has been entitled to.                 *)

\* What a role gives a user.
Given(r) ==
    {e \in Entitlement :
        \/ e = "read" /\ r >= 1
        \/ e = "write" /\ r >= 2
        \/ e \in {"admin", "push", "merge"} /\ r >= 3
        \/ e = "owner" /\ r >= 4}

\* What a call that has passed its check has.
Checked == {"found", "act", "update", "insert", "clear", "fill", "put"}
Base(x) ==
    CASE x.op \in {"lock", "unlock"} -> {"write"} \union IF x.want = 3 THEN {"admin"} ELSE {}
      [] x.op \in {"key", "unkey", "set", "unset"} -> {"admin"}
      [] x.op \in {"visibility", "add", "remove", "attach"} -> {"owner"}
      [] x.op \in OrgOps -> {"org"}
      [] OTHER -> {}

AsksFor(x) ==
    /\ x.op = "read" => x.want = 1
    /\ x.op \in {"push", "unlock"} => x.want \in {2, 3}
    /\ x.op = "lock" => x.want = 2
    /\ x.op \in {"key", "unkey", "set", "unset"} => x.want = 3
    /\ x.op \in {"visibility", "add", "remove", "attach"} => x.want = 4

\* A call that is under way, at each of its places.
Backed(x, h) ==
    /\ AsksFor(x)
    /\ x.by = Key => x.op \in {"read", "push"} /\ x.level =< 2 /\ Given(x.level) \subseteq h
    /\ x.op = "read" => x.shut \/ "read" \in h
    /\ x.op \in {"push", "unlock"} /\ x.want = 3 => "write" \in h
    /\ ~x.unread
    /\ x.at \in {"direct", "teams"} => x.op \notin OrgOps
    /\ x.at = "org" => x.op \in OrgOps
    /\ x.at = "teams" => Given(x.direct) \subseteq h
    /\ x.at \in {"rules", "allow"} => x.op = "push" /\ x.want = 3
    /\ x.at = "allow" => x.seen # {} /\ ((\A r \in x.seen : ~r.linear) => "merge" \in h)
    /\ x.at \in Checked => x.op \notin {"read", "push"} /\ Base(x) \subseteq h

Sound(x, h) ==
    /\ x.at \notin {"idle", "ok"} => Backed(x, h)
    /\ x.at = "ok" => Owed(x) \subseteq h

\* Whoever holds more is no less sound.
LEMMA SoundMore ==
    ASSUME NEW x, NEW h, NEW g, h \subseteq g, Sound(x, h)
    PROVE  Sound(x, g)
  BY DEF Sound, Backed

LEMMA SoundKept ==
    ASSUME NEW x \in Request, NEW h, NEW g, h \subseteq g, Sound(x, h), NEW b \in BOOLEAN
    PROVE  Sound(x, g) /\ Sound([x EXCEPT !.alone = b], g)
  <1>1. Sound(x, g)
    BY SoundMore
  <1> DEFINE y == [x EXCEPT !.alone = b]
  <1>2. /\ y.op = x.op /\ y.by = x.by /\ y.flag = x.flag /\ y.level = x.level /\ y.want = x.want
        /\ y.shut = x.shut /\ y.direct = x.direct /\ y.seen = x.seen /\ y.unread = x.unread
        /\ y.took = x.took /\ y.at = x.at
    BY DEF Request
  <1> HIDE DEF y
  <1>3. Base(y) = Base(x) /\ Owed(y) = Owed(x)
    BY <1>2 DEF Base, Owed
  <1>4. AsksFor(x) => AsksFor(y)
    BY <1>2 DEF AsksFor
  <1>5. Sound(y, g)
    BY <1>1, <1>2, <1>3, <1>4 DEF Sound, Backed
  <1> QED
    BY <1>1, <1>5 DEF y

LEMMA SoundIdle == \A h : Sound(Idle, h)
  BY DEF Sound, Idle

LEMMA SoundAnswer ==
    ASSUME NEW x \in Request, NEW h, Owed(x) \subseteq h
    PROVE  Sound(Answered(x), h)
  <1>1. Owed(Answered(x)) = Owed(x)
    BY AnsweredType DEF Owed
  <1> QED
    BY <1>1, AnsweredType DEF Sound

\* A call that has passed its check owes no more than it has.
LEMMA CheckedOwes ==
    ASSUME NEW x \in Request, NEW h, Sound(x, h), x.at \in Checked, x.op # "unlock"
    PROVE  Owed(x) \subseteq h
  <1>1. Base(x) \subseteq h /\ x.op \notin {"read", "push"}
    BY DEF Sound, Backed, Checked
  <1>2. Owed(x) \subseteq Base(x)
    BY <1>1 DEF Owed, Base, Request, Ops, OrgOps
  <1> QED
    BY <1>1, <1>2

\* It may go on to any other such place.
LEMMA CheckedMoves ==
    ASSUME NEW x \in Request, NEW y \in Request, NEW h, Sound(x, h), x.at \in Checked, y.at \in Checked,
           y.op = x.op, y.by = x.by, y.want = x.want, y.shut = x.shut, y.unread = x.unread,
           x.by = Key => y.level = x.level
    PROVE  Sound(y, h)
  <1>1. Backed(x, h)
    BY DEF Sound, Checked
  <1>2. Base(y) = Base(x)
    BY DEF Base
  <1>3. AsksFor(y)
    BY <1>1 DEF AsksFor, Backed
  <1>4. y.at \notin {"idle", "ok", "direct", "teams", "org", "rules", "allow"}
    BY DEF Checked
  <1>5. Backed(y, h)
    BY <1>1, <1>2, <1>3, <1>4 DEF Backed
  <1> QED
    BY <1>4, <1>5 DEF Sound

LEMMA EntitledByRole ==
    ASSUME TablesTyped, NEW a \in Users \union {Pat}, NEW r \in 0..4, Rank(a) >= r
    PROVE  Given(r) \subseteq Entitled(a)
  <1>1. a # Key /\ Rank(a) \in 0..4
    BY RankBounds, AccessAssumption
  <1> QED
    BY <1>1 DEF Given, Entitled

LEMMA KeyEntitled == Rank(Key) \in 0..2 /\ Given(Rank(Key)) \subseteq Entitled(Key)
  <1>1. Rank(Key) \in 0..2
    BY RankOfKey
  <1> QED
    BY <1>1 DEF Given, Entitled

LEMMA GivenMore ==
    ASSUME NEW r \in 0..4, NEW s \in 0..4, r =< s
    PROVE  Given(r) \subseteq Given(s)
  BY DEF Given

LEMMA ActorOfUser ==
    ASSUME NEW a \in Actors, UserOf(a) \in Users
    PROVE  a \in Users \union {Pat}
  BY AccessAssumption DEF Actors, UserOf

\* The first of the two reads: the actor's own row.
LEMMA DirectSound ==
    ASSUME Typed, NEW c \in Calls, Sound(call[c], had[c]), ReadDirect(c)
    PROVE  Sound(call'[c], had[c] \union Entitled(call[c].by))
  <1> DEFINE x == call[c]
             r == IF UserOf(x.by) \in Users THEN grant[UserOf(x.by)] ELSE 0
             h == had[c] \union Entitled(x.by)
  <1>1. x \in Request /\ TablesTyped
    BY DEF Typed
  <1>2. r \in 0..4
    BY <1>1 DEF TablesTyped
  <1>3. Given(r) \subseteq h
    <2>1. CASE UserOf(x.by) \in Users
      <3>1. x.by \in Users \union {Pat}
        BY <1>1, <2>1, ActorOfUser DEF Request
      <3>2. Rank(x.by) >= r
        BY <1>1, <2>1, <3>1, RankBounds
      <3> QED
        BY <1>1, <1>2, <3>1, <3>2, EntitledByRole
    <2>2. CASE UserOf(x.by) \notin Users
      <3>1. r = 0
        BY <2>2
      <3>2. Given(0) = {}
        BY DEF Given
      <3> QED
        BY <3>1, <3>2
    <2> QED
      BY <2>1, <2>2
  <1>4. call'[c] = [x EXCEPT !.at = "teams", !.direct = r] /\ x.at = "direct"
    BY DEF ReadDirect, Typed
  <1> DEFINE y == call'[c]
  <1>5. /\ y.op = x.op /\ y.by = x.by /\ y.level = x.level /\ y.want = x.want
        /\ y.shut = x.shut /\ y.unread = x.unread /\ y.at = "teams" /\ y.direct = r
    BY <1>1, <1>4 DEF Request
  <1>6. Backed(x, had[c])
    BY <1>4 DEF Sound
  <1> HIDE DEF y, x, r
  <1>7. had[c] \subseteq h /\ AsksFor(y)
    BY <1>5, <1>6 DEF AsksFor, Backed
  <1> HIDE DEF h
  <1>8. Backed(y, h)
    BY <1>3, <1>4, <1>5, <1>6, <1>7 DEF Backed, Checked
  <1>9. Sound(y, h)
    BY <1>5, <1>8 DEF Sound
  <1> QED
    BY <1>9 DEF y, h, x

\* The second read and the decision: what is asked for is held already, by
\* the role read first, or is held at this moment, by a team's.
LEMMA PassedIsGiven ==
    ASSUME Typed, NEW c \in Calls, NEW mine, Backed(call[c], had[c]), call[c].at = "teams",
           mine = IF UserOf(call[c].by) \in Users
                  THEN {grant[t] : t \in {t \in Teams : UserOf(call[c].by) \in members[t]}} ELSE {},
           Allows(call[c], Best({call[c].direct} \union mine))
    PROVE  /\ Given(call[c].want) \subseteq had[c] \union Entitled(call[c].by)
           /\ call[c].by = Key => call[c].want =< 2
  <1> DEFINE x == call[c]
             role == Best({x.direct} \union mine)
             h == had[c] \union Entitled(x.by)
  <1>1. x \in Request /\ TablesTyped /\ x.want \in 0..4 /\ x.direct \in 0..4 /\ x.level \in 0..3 /\ x.by \in Actors
    BY DEF Typed, Request
  <1>2. mine \in SUBSET (0..4)
    BY <1>1 DEF TablesTyped
  <1>3. role \in {0, x.direct} \union mine
    <2>1. {x.direct} \union mine \in SUBSET (0..4)
      BY <1>1, <1>2
    <2> QED
      BY <2>1, BestRole
  <1>4. CASE x.by = Key
    <2>1. x.level >= x.want /\ x.level =< 2 /\ Given(x.level) \subseteq had[c]
      BY <1>4 DEF Allows, Backed
    <2>2. Given(x.want) \subseteq Given(x.level)
      BY <1>1, <2>1, GivenMore
    <2> QED
      BY <1>1, <2>1, <2>2
  <1>5. CASE x.by # Key /\ x.want = 1 /\ ~x.shut
    <2>1. x.op = "read"
      BY <1>1, <1>5 DEF Backed, AsksFor, Request, Ops, OrgOps
    <2>2. Given(1) \subseteq {"read"}
      BY DEF Given
    <2> QED
      BY <1>5, <2>1, <2>2 DEF Backed
  <1>6. CASE x.by # Key /\ ~(x.want = 1 /\ ~x.shut)
    <2>1. role >= x.want
      BY <1>6 DEF Allows
    <2>2. CASE role \in {0, x.direct}
      <3>1. x.want =< x.direct
        BY <1>1, <2>1, <2>2
      <3>2. Given(x.want) \subseteq Given(x.direct)
        BY <1>1, <3>1, GivenMore
      <3> QED
        BY <1>6, <3>2 DEF Backed
    <2>3. CASE role \in mine
      <3>1. UserOf(x.by) \in Users
        BY <2>3
      <3>2. PICK t \in Teams : UserOf(x.by) \in members[t] /\ role = grant[t]
        BY <2>3, <3>1
      <3>3. x.by \in Users \union {Pat}
        BY <1>1, <3>1, ActorOfUser
      <3>4. Rank(x.by) >= grant[t] /\ Rank(x.by) \in 0..4 /\ grant[t] \in 0..4
        BY <1>1, <3>2, <3>3, RankBounds DEF TablesTyped
      <3>5. Rank(x.by) >= x.want
        BY <1>1, <2>1, <3>2, <3>4
      <3>6. Given(x.want) \subseteq Entitled(x.by)
        BY <1>1, <3>3, <3>5, EntitledByRole
      <3> QED
        BY <1>6, <3>6
    <2> QED
      BY <1>3, <2>2, <2>3
  <1> QED
    BY <1>4, <1>5, <1>6

LEMMA DecideSound ==
    ASSUME Typed, NEW c \in Calls, Sound(call[c], had[c]), Decide(c)
    PROVE  Sound(call'[c], had[c] \union Entitled(call[c].by))
  <1> DEFINE x == call[c]
             mine == IF UserOf(x.by) \in Users
                     THEN {grant[t] : t \in {t \in Teams : UserOf(x.by) \in members[t]}} ELSE {}
             passed == Allows(x, Best({x.direct} \union mine))
             h == had[c] \union Entitled(x.by)
  <1>1. x \in Request /\ x.at = "teams" /\ Backed(x, had[c]) /\ had[c] \subseteq h
    BY DEF Typed, Decide, Sound
  <1>2. passed => Given(x.want) \subseteq h /\ (x.by = Key => x.want =< 2)
    BY <1>1, PassedIsGiven
  <1>3. /\ x.op = "read" => x.want = 1
        /\ x.op \in {"push", "unlock"} => x.want \in {2, 3}
        /\ x.op = "lock" => x.want = 2
        /\ x.op \in {"key", "unkey", "set", "unset"} => x.want = 3
        /\ x.op \in {"visibility", "add", "remove", "attach"} => x.want = 4
        /\ x.op \notin OrgOps /\ x.op \in Ops
        /\ ~x.unread
    BY <1>1 DEF Backed, AsksFor, Request
  <1>4. /\ "read" \in Given(1) /\ "write" \in Given(2) /\ {"admin", "push", "merge"} \subseteq Given(3)
        /\ "owner" \in Given(4)
    BY DEF Given, Entitlement
  <1>5. \/ /\ x.op = "push" /\ x.want = 2 /\ passed
           /\ \E b \in {x.by, Anonymous} :
                 call'[c] = [x EXCEPT !.at = "direct", !.want = 3, !.by = b]
        \/ x.op \in {"read", "push"} /\ ~(x.op = "push" /\ x.want = 2) /\ passed /\ call'[c] = Answered(x)
        \/ x.op \notin {"read", "push"} /\ passed /\ call'[c] = [x EXCEPT !.at = Then(x)]
        \/ x.op = "push" /\ x.want = 3 /\ ~passed /\ call'[c] = [x EXCEPT !.at = "rules"]
        \/ call'[c] = Idle
    <2> HIDE DEF passed
    <2>1. /\ IF x.op = "push" /\ x.want = 2 /\ passed
             THEN call' = [call EXCEPT ![c].at = "direct", ![c].want = 3,
                               ![c].by = IF @ = Pat /\ pat = 0 THEN Anonymous ELSE @]
             ELSE IF x.op \in {"read", "push"} /\ passed THEN Succeed(c)
             ELSE IF passed THEN Goto(c, Then(x))
             ELSE IF x.op = "push" /\ x.want = 3 THEN Goto(c, "rules")
             ELSE Leave(c)
      BY DEF Decide, passed
    <2> QED
      BY <2>1 DEF Typed, Succeed, Goto, Leave
  <1>6. CASE x.op = "push" /\ x.want = 2 /\ passed
             /\ \E b \in {x.by, Anonymous} :
                   call'[c] = [x EXCEPT !.at = "direct", !.want = 3, !.by = b]
    <2>1. PICK b \in {x.by, Anonymous} : call'[c] = [x EXCEPT !.at = "direct", !.want = 3, !.by = b]
      BY <1>6
    <2> DEFINE y == call'[c]
    <2>2. /\ y.op = "push" /\ y.by = b /\ y.level = x.level /\ y.want = 3
          /\ y.unread = x.unread /\ y.at = "direct"
      BY <1>1, <1>6, <2>1 DEF Request
    <2>3. "write" \in h
      BY <1>2, <1>4, <1>6
    <2>4. y.by = Key => x.by = Key
      BY <2>2, AccessAssumption
    <2> HIDE DEF y, passed, x, h
    <2>5. AsksFor(y)
      BY <2>2 DEF AsksFor
    <2>6. Backed(y, h)
      BY <1>1, <1>3, <2>2, <2>3, <2>4, <2>5 DEF Backed, Checked, OrgOps
    <2>7. Sound(y, h)
      BY <2>2, <2>6 DEF Sound
    <2> QED
      BY <2>7 DEF y, x, h
  <1>7. CASE x.op \in {"read", "push"} /\ ~(x.op = "push" /\ x.want = 2) /\ passed /\ call'[c] = Answered(x)
    <2>1. CASE x.op = "read"
      <3>1. Owed(x) = {"read"}
        BY <2>1 DEF Owed
      <3> QED
        BY <1>1, <1>2, <1>3, <1>4, <1>7, <2>1, <3>1, SoundAnswer
    <2>2. CASE x.op = "push"
      <3>1. x.want = 3 /\ "write" \in had[c]
        BY <1>1, <1>3, <1>7, <2>2 DEF Backed
      <3>2. Owed(x) \subseteq {"write", "push", "merge"}
        BY <2>2 DEF Owed
      <3>3. {"push", "merge"} \subseteq h
        BY <1>2, <1>4, <1>7, <3>1
      <3> QED
        BY <1>1, <1>7, <3>1, <3>2, <3>3, SoundAnswer
    <2> QED
      BY <1>7, <2>1, <2>2
  <1>8. CASE x.op \notin {"read", "push"} /\ passed /\ call'[c] = [x EXCEPT !.at = Then(x)]
    <2> DEFINE y == call'[c]
    <2>1. Then(x) \in {"found", "act"}
      BY DEF Then
    <2>2. /\ y.op = x.op /\ y.by = x.by /\ y.level = x.level /\ y.want = x.want
          /\ y.shut = x.shut /\ y.unread = x.unread /\ y.at \in {"found", "act"}
      BY <1>1, <1>8, <2>1 DEF Request
    <2>3. Base(x) \subseteq h
      <3>1. x.op \in {"lock", "unlock"} => Base(x) \subseteq h
        <4>1. x.want = 2 => "write" \in h
          BY <1>2, <1>4, <1>8
        <4>2. x.want = 3 => x.op # "lock" /\ "admin" \in h
          BY <1>2, <1>3, <1>4, <1>8
        <4>3. x.want = 3 /\ x.op = "unlock" => "write" \in h
          BY <1>1 DEF Backed
        <4> QED
          BY <1>3, <4>1, <4>2, <4>3 DEF Base
      <3>2. x.op \in {"key", "unkey", "set", "unset"} => Base(x) \subseteq h
        BY <1>2, <1>3, <1>4, <1>8 DEF Base
      <3>3. x.op \in {"visibility", "add", "remove", "attach"} => Base(x) \subseteq h
        BY <1>2, <1>3, <1>4, <1>8 DEF Base
      <3> QED
        BY <1>3, <1>8, <3>1, <3>2, <3>3 DEF Ops, OrgOps
    <2>4. x.by # Key
      BY <1>1, <1>8 DEF Backed
    <2> HIDE DEF y, passed, x, h
    <2>5. AsksFor(y) /\ Base(y) = Base(x)
      BY <1>1, <2>2 DEF AsksFor, Backed, Base
    <2>6. Backed(y, h)
      BY <1>1, <1>3, <1>8, <2>2, <2>3, <2>4, <2>5 DEF Backed
    <2>7. Sound(y, h)
      BY <2>2, <2>6 DEF Sound
    <2> QED
      BY <2>7 DEF y, x, h
  <1>9. CASE x.op = "push" /\ x.want = 3 /\ ~passed /\ call'[c] = [x EXCEPT !.at = "rules"]
    <2> DEFINE y == call'[c]
    <2>1. /\ y.op = x.op /\ y.by = x.by /\ y.level = x.level /\ y.want = x.want
          /\ y.shut = x.shut /\ y.unread = x.unread /\ y.at = "rules"
      BY <1>1, <1>9 DEF Request
    <2> HIDE DEF y, passed, x, h
    <2>2. AsksFor(y)
      BY <1>1, <2>1 DEF AsksFor, Backed
    <2>3. Backed(y, h)
      BY <1>1, <1>9, <2>1, <2>2 DEF Backed, Checked
    <2>4. Sound(y, h)
      BY <2>1, <2>3 DEF Sound
    <2> QED
      BY <2>4 DEF y, x, h
  <1>10. CASE call'[c] = Idle
    BY <1>10, SoundIdle
  <1> QED
    BY <1>5, <1>6, <1>7, <1>8, <1>9, <1>10

LEMMA BeginSound ==
    ASSUME Typed, NEW c \in Calls, Ask(c)
    PROVE  Sound(call'[c], Entitled(call'[c].by))
  <1>1. PICK op \in Ops, a \in Actors, who \in Users, team \in Teams, flag \in BOOLEAN,
             level \in 0..3, users \in SUBSET Users :
           Begin(c, op, a, who, team, flag, level, users)
    BY AskBegins
  <1> DEFINE y == call'[c]
  <1>2. /\ y.op = op /\ y.by = a /\ y.want = Minimum(op) /\ y.shut = private /\ ~y.unread
        /\ y.level = IF a = Key THEN Rank(Key) ELSE level
        /\ y.at = IF op \in OrgOps THEN "org" ELSE "direct"
    BY <1>1 DEF Begin, Typed, Idle
  <1>3. Authenticated(a, op)
    BY <1>1 DEF Begin
  <1>4. a = Key => op \in {"read", "push"}
    BY <1>3, AccessAssumption DEF Authenticated
  <1>5. AsksFor(y)
    BY <1>2 DEF AsksFor, Minimum
  <1>6. private \/ "read" \in Entitled(a)
    BY DEF Entitled, Entitlement
  <1>7. y.by = Key => y.level =< 2 /\ Given(y.level) \subseteq Entitled(Key)
    BY <1>2, KeyEntitled
  <1>8. op = "push" => y.want = 2
    BY <1>2 DEF Minimum
  <1>9. op = "unlock" => y.want = 2
    BY <1>2 DEF Minimum
  <1> HIDE DEF y
  <1>10. Backed(y, Entitled(y.by))
    BY <1>2, <1>4, <1>5, <1>6, <1>7, <1>8, <1>9 DEF Backed, Checked
  <1>11. Sound(y, Entitled(y.by))
    BY <1>2, <1>10 DEF Sound
  <1> QED
    BY <1>11 DEF y

\* The rules of the branch, then their allowlists: what has been added to the
\* second since the first was read is still for the one rule there is.
LEMMA RulesSound ==
    ASSUME Typed, NEW c \in Calls, Sound(call[c], had[c]),
           ReadRules(c) \/ ReadAllowlist(c) \/ Unreadable(c)
    PROVE  Sound(call'[c], had[c] \union Entitled(call[c].by))
  <1> DEFINE x == call[c]
             h == had[c] \union Entitled(x.by)
  <1>1. x \in Request /\ x.at \in {"rules", "allow"} /\ Backed(x, had[c]) /\ TablesTyped
    BY DEF Typed, ReadRules, ReadAllowlist, Unreadable, Sound, At
  <1>2. x.op = "push" /\ x.want = 3 /\ "write" \in had[c] /\ AsksFor(x) /\ ~x.unread
    BY <1>1 DEF Backed
  <1>3. CASE Unreadable(c)
    <2> DEFINE y == [x EXCEPT !.unread = TRUE]
    <2>1. y \in Request /\ y.op = "push" /\ y.unread
      BY <1>1, <1>2 DEF Request
    <2>2. call'[c] = Answered(y)
      BY <1>3 DEF Unreadable, Typed
    <2> HIDE DEF y
    <2>3. Owed(y) = {"write"}
      BY <2>1 DEF Owed
    <2> QED
      BY <1>2, <2>1, <2>2, <2>3, SoundAnswer
  <1>4. CASE ReadRules(c) /\ rule = {}
    <2>1. call'[c] = Answered(x)
      BY <1>4 DEF ReadRules, Succeed, Typed
    <2>2. {"push", "merge"} \subseteq Entitled(x.by)
      BY <1>4 DEF Entitled, Entitlement
    <2>3. Owed(x) \subseteq {"write", "push", "merge"}
      BY <1>2 DEF Owed
    <2> QED
      BY <1>1, <1>2, <2>1, <2>2, <2>3, SoundAnswer
  <1>5. CASE ReadRules(c) /\ rule # {}
    <2> DEFINE y == call'[c]
    <2>1. y = [x EXCEPT !.at = "allow", !.seen = rule]
      BY <1>5 DEF ReadRules, Typed
    <2>2. /\ y.op = "push" /\ y.by = x.by /\ y.level = x.level /\ y.want = 3
          /\ y.unread = x.unread /\ y.at = "allow" /\ y.seen = rule
      BY <1>1, <1>2, <2>1 DEF Request
    <2>3. (\A r \in rule : ~r.linear) => "merge" \in Entitled(x.by)
      BY DEF Entitled, Entitlement
    <2> HIDE DEF y
    <2>4. Backed(y, h)
      BY <1>1, <1>2, <1>5, <2>2, <2>3 DEF Backed, Checked, OrgOps, AsksFor
    <2>5. Sound(y, h)
      BY <2>2, <2>4 DEF Sound
    <2> QED
      BY <2>5 DEF y
  <1>6. CASE ReadAllowlist(c)
    <2>1. x.at = "allow" /\ call'[c] = IF Passes(x) THEN Answered(x) ELSE Idle
      BY <1>6 DEF ReadAllowlist, Answer, At, Succeed, Leave, Typed
    <2>2. CASE Passes(x)
      <3>1. PICK s \in x.seen : TRUE
        BY <1>1, <2>1 DEF Backed
      <3>2. <<s.id, UserOf(x.by)>> \in allow
        BY <2>2 DEF Passes
      <3>3. \E r \in rule : r.id = s.id
        BY <1>1, <3>2 DEF TablesTyped
      <3>4. \A r \in rule : r.id = s.id
        BY <1>1, <3>3 DEF TablesTyped
      <3>5. "push" \in Entitled(x.by)
        BY <3>2, <3>4 DEF Entitled, Entitlement
      <3>6. x.flag => "merge" \in had[c]
        BY <1>1, <2>1, <2>2 DEF Passes, Backed
      <3>7. Owed(x) \subseteq {"write", "push"} \union IF x.flag THEN {"merge"} ELSE {}
        BY <1>2 DEF Owed
      <3> QED
        BY <1>1, <1>2, <2>1, <2>2, <3>5, <3>6, <3>7, SoundAnswer
    <2>3. CASE ~Passes(x)
      BY <2>1, <2>3, SoundIdle
    <2> QED
      BY <2>2, <2>3
  <1> QED
    BY <1>3, <1>4, <1>5, <1>6

LEMMA OrganizationSound ==
    ASSUME Typed, NEW c \in Calls, Sound(call[c], had[c]), CheckOrganization(c)
    PROVE  Sound(call'[c], had[c] \union Entitled(call[c].by))
  <1> DEFINE x == call[c]
             h == had[c] \union Entitled(x.by)
  <1>1. x \in Request /\ x.at = "org" /\ Backed(x, had[c])
    BY DEF Typed, CheckOrganization, Sound
  <1>2. x.op \in OrgOps /\ AsksFor(x) /\ ~x.unread /\ x.by # Key
    BY <1>1 DEF Backed, OrgOps
  <1>3. CASE UserOf(x.by) \in members[Owners]
    <2> DEFINE p == IF x.op = "permit" THEN "clear" ELSE "act"
               y == call'[c]
    <2>1. y = [x EXCEPT !.at = p]
      BY <1>3 DEF CheckOrganization, Goto, Typed
    <2>2. /\ y.op = x.op /\ y.by = x.by /\ y.want = x.want
          /\ y.unread = x.unread /\ y.at \in {"clear", "act"}
      BY <1>1, <2>1 DEF Request
    <2>3. "org" \in Entitled(x.by)
      BY <1>3 DEF Entitled, Entitlement
    <2> HIDE DEF y
    <2>4. Base(y) = {"org"}
      BY <1>2, <2>2 DEF Base, OrgOps
    <2>5. AsksFor(y)
      BY <1>2, <2>2 DEF AsksFor
    <2>6. Backed(y, h)
      BY <1>2, <2>2, <2>3, <2>4, <2>5 DEF Backed, OrgOps
    <2>7. Sound(y, h)
      BY <2>2, <2>6 DEF Sound
    <2> QED
      BY <2>7 DEF y
  <1>4. CASE UserOf(x.by) \notin members[Owners]
    <2>1. call'[c] = Idle
      BY <1>4 DEF CheckOrganization, Leave, Typed
    <2> QED
      BY <2>1, SoundIdle
  <1> QED
    BY <1>3, <1>4

\* A lock in hand is one's own, or a second check is asked for.
LEMMA FindSound ==
    ASSUME Typed, NEW c \in Calls, Sound(call[c], had[c]), FindLock(c)
    PROVE  Sound(call'[c], had[c] \union Entitled(call[c].by))
  <1> DEFINE x == call[c]
             h == had[c] \union Entitled(x.by)
             y == call'[c]
  <1>1. x \in Request /\ x.op = "unlock" /\ x.at = "found" /\ Backed(x, had[c]) /\ Sound(x, h)
    <2>1. x \in Request /\ had[c] \subseteq h /\ TRUE \in BOOLEAN
      BY DEF Typed
    <2>2. x.op = "unlock" /\ x.at = "found"
      BY DEF FindLock, At
    <2>3. Backed(x, had[c])
      BY <2>2 DEF Sound
    <2>4. Sound(x, h)
      BY <2>1, SoundMore
    <2> QED
      BY <2>1, <2>2, <2>3, <2>4
  <1>2. \/ y = Idle
        \/ y = [x EXCEPT !.at = "act"]
        \/ y = [x EXCEPT !.want = 3, !.at = "direct"]
    BY DEF FindLock, Leave, Goto, Typed
  <1>3. CASE y = [x EXCEPT !.at = "act"]
    <2>1. /\ y \in Request /\ y.op = x.op /\ y.by = x.by /\ y.want = x.want /\ y.shut = x.shut
          /\ y.unread = x.unread /\ y.level = x.level /\ y.at = "act"
      BY <1>1, <1>3 DEF Request, Place
    <2> HIDE DEF x, y, h
    <2>2. Sound(y, h)
      BY <1>1, <2>1, CheckedMoves DEF Checked
    <2> QED
      BY <2>2 DEF x, y, h
  <1>4. CASE y = [x EXCEPT !.want = 3, !.at = "direct"]
    <2>1. /\ y.op = "unlock" /\ y.by = x.by /\ y.want = 3 /\ y.unread = x.unread /\ y.at = "direct"
      BY <1>1, <1>4 DEF Request
    <2>2. x.by # Key /\ ~x.unread /\ "write" \in had[c]
      BY <1>1 DEF Backed, Base, Checked, OrgOps
    <2> HIDE DEF x, y
    <2>3. Backed(y, h)
      BY <2>1, <2>2 DEF Backed, AsksFor, OrgOps, Checked
    <2>4. Sound(y, h)
      BY <2>1, <2>3 DEF Sound
    <2> QED
      BY <2>4 DEF x, y
  <1> QED
    BY <1>2, <1>3, <1>4, SoundIdle

\* Every other step of a call is taken past its check.
LEMMA PastCheck ==
    ASSUME Typed, NEW c \in Calls, Sound(call[c], had[c]), call[c].at \in Checked,
           call[c].op # "unlock", call' \in [Calls -> Request],
           \/ call'[c] = Idle \/ call'[c] = Answered(call[c])
           \/ /\ call'[c].at \in Checked /\ call'[c].op = call[c].op /\ call'[c].by = call[c].by
              /\ call'[c].want = call[c].want /\ call'[c].shut = call[c].shut
              /\ call'[c].unread = call[c].unread
    PROVE  Sound(call'[c], had[c] \union Entitled(call[c].by))
  <1> DEFINE x == call[c]
             h == had[c] \union Entitled(x.by)
             y == call'[c]
  <1>1. x \in Request /\ y \in Request /\ had[c] \subseteq h
    BY DEF Typed
  <1>2. Sound(x, h)
    BY <1>1, SoundMore
  <1>3. CASE y = Idle
    BY <1>3, SoundIdle
  <1>4. CASE y = Answered(x)
    BY <1>1, <1>2, <1>4, CheckedOwes, SoundAnswer
  <1>5. CASE /\ y.at \in Checked /\ y.op = x.op /\ y.by = x.by /\ y.want = x.want
             /\ y.shut = x.shut /\ y.unread = x.unread
    <2>1. x.by # Key
      BY DEF Sound, Backed, Checked
    <2> HIDE DEF x, y, h
    <2>2. Sound(y, h)
      BY <1>1, <1>2, <1>5, <2>1, CheckedMoves DEF x
    <2> QED
      BY <2>2 DEF x, y, h
  <1> QED
    BY <1>3, <1>4, <1>5

-----------------------------------------------------------------------------
AllSound == \A c \in Calls : Sound(call[c], had[c])

\* One call moves; of the others no more than `alone` changes.
LEMMA OneMoves ==
    ASSUME Typed, AllSound, NEW c \in Calls,
           \A d \in Calls \ {c} : \E b \in BOOLEAN :
              call'[d] \in {call[d], [call[d] EXCEPT !.alone = b]},
           had' = [d \in Calls |-> IF call'[d].at = "idle" THEN {}
                    ELSE had[d] \union Entitled(IF call[d].at = "idle" THEN call'[d].by ELSE call[d].by)],
           call[c].at # "idle" => Sound(call'[c], had[c] \union Entitled(call[c].by)),
           call[c].at = "idle" => Sound(call'[c], Entitled(call'[c].by)),
           call'[c] \in Request
    PROVE  AllSound'
  <1>1. ASSUME NEW d \in Calls
        PROVE  Sound(call'[d], had'[d])
    <2>1. CASE call'[d].at = "idle"
      BY <2>1 DEF Sound
    <2>2. CASE call'[d].at # "idle" /\ d = c
      <3>1. call[c].at # "idle" => had'[c] = had[c] \union Entitled(call[c].by)
        BY <2>2
      <3>2. call[c].at = "idle" => Entitled(call'[c].by) \subseteq had'[c]
        BY <2>2
      <3>4. CASE call[c].at # "idle"
        BY <2>2, <3>1, <3>4
      <3>5. CASE call[c].at = "idle"
        <4>1. PICK x \in Request : x = call'[c]
          OBVIOUS
        <4>2. PICK g : g = had'[c]
          OBVIOUS
        <4>3. PICK h : h = Entitled(call'[c].by)
          OBVIOUS
        <4>4. Sound(x, g)
          BY <3>2, <3>5, <4>1, <4>2, <4>3, SoundMore
        <4> QED
          BY <2>2, <4>1, <4>2, <4>4
      <3> QED
        BY <3>4, <3>5
    <2>3. CASE call'[d].at # "idle" /\ d # c
      <3>1. PICK b \in BOOLEAN : call'[d] \in {call[d], [call[d] EXCEPT !.alone = b]}
        BY <2>3
      <3>2. call[d] \in Request /\ Sound(call[d], had[d])
        BY DEF Typed, AllSound
      <3>3. had[d] \subseteq had'[d]
        BY <2>3
      <3>4. PICK g : g = had'[d]
        OBVIOUS
      <3>5. Sound(call[d], g) /\ Sound([call[d] EXCEPT !.alone = b], g)
        BY <3>2, <3>3, <3>4, SoundKept
      <3> QED
        BY <3>1, <3>4, <3>5
    <2> QED
      BY <2>1, <2>2, <2>3
  <1> QED
    BY <1>1 DEF AllSound

LEMMA NoneMoves ==
    ASSUME Typed, AllSound, call' = call,
           \A c \in Calls : call[c].at # "idle" => had[c] \subseteq had'[c]
    PROVE  AllSound'
  <1>1. ASSUME NEW c \in Calls
        PROVE  Sound(call'[c], had'[c])
    <2>1. PICK g : g = had'[c]
      OBVIOUS
    <2>2. call[c] \in Request /\ Sound(call[c], had[c]) /\ TRUE \in BOOLEAN
      BY DEF Typed, AllSound
    <2>3. CASE call[c].at = "idle"
      BY <2>3 DEF Sound
    <2>4. CASE call[c].at # "idle"
      <3>1. Sound(call[c], g)
        BY <2>1, <2>2, <2>4, SoundMore
      <3> QED
        BY <2>1, <3>1
    <2> QED
      BY <2>3, <2>4
  <1> QED
    BY <1>1 DEF AllSound

-----------------------------------------------------------------------------
(* Locks.  A lock's id is that of the request that made it, so a lock that *)
(* was found to be one's own is still the same when it is taken.           *)

Locking(x) == x.at \notin {"idle", "ok"} /\ x.op \in {"lock", "unlock"}
TakesOwn(x) == x.op = "unlock" /\ x.at = "act" /\ x.want = 2

LocksKnown ==
    /\ \A l \in lock : l.id > left /\ l.owner \in Users /\ \A m \in lock : l = m
    /\ \A c \in Calls : Locking(call[c]) => call[c].id > left /\ call[c].by \in Users
    /\ \A c \in Calls : Locking(call[c]) /\ call[c].op = "lock" =>
          /\ \A l \in lock : l.id # call[c].id
          /\ \A d \in Calls : d # c /\ Locking(call[d]) => call[d].id # call[c].id
    /\ \A c \in Calls : TakesOwn(call[c]) =>
          \A l \in lock : l.id = call[c].id => l.owner = call[c].by

\* How a call goes on without touching what is known.
Follows(x, y, locks) ==
    \/ ~Locking(y)
    \/ /\ Locking(x) /\ y.op = x.op /\ y.id = x.id /\ y.by = x.by
       /\ \/ ~TakesOwn(y) \/ TakesOwn(x)
          \/ \A l \in locks : l.id = x.id => l.owner = x.by

LEMMA LocksFollow ==
    ASSUME LocksKnown, lock' \subseteq lock, left' = left,
           \A c \in Calls : Follows(call[c], call'[c], lock)
    PROVE  LocksKnown'
  <1>1. \A c \in Calls : Locking(call'[c]) =>
           Locking(call[c]) /\ call'[c].op = call[c].op /\ call'[c].id = call[c].id /\ call'[c].by = call[c].by
    BY DEF Follows
  <1>2. ASSUME NEW c \in Calls, TakesOwn(call'[c])
        PROVE  \A l \in lock' : l.id = call'[c].id => l.owner = call'[c].by
    <2>1. Locking(call'[c])
      BY <1>2 DEF TakesOwn, Locking
    <2> QED
      BY <1>1, <1>2, <2>1 DEF Follows, LocksKnown
  <1> HIDE DEF Follows
  <1> QED
    BY <1>1, <1>2 DEF LocksKnown

\* Columns of a call that are not about locks.
LEMMA FollowsAlone ==
    ASSUME NEW x \in Request, NEW b \in BOOLEAN, NEW y \in {x, [x EXCEPT !.alone = b]}, NEW locks
    PROVE  Follows(x, y, locks)
  BY DEF Follows, Request, Locking, TakesOwn

LEMMA CreateFollows ==
    ASSUME Typed, LocksKnown, NEW c \in Calls, CreateLock(c)
    PROVE  LocksKnown'
  <1> DEFINE x == call[c]
             new == [id |-> x.id, owner |-> x.by]
  <1>1. /\ Locking(x) /\ x.op = "lock" /\ left' = left
        /\ \A d \in Calls \ {c} : call'[d] = call[d]
        /\ call'[c].at \in {"idle", "ok"}
    <2>1. x.op = "lock" /\ x.at = "act" /\ left' = left /\ (Leave(c) \/ Succeed(c)) /\ x \in Request
      BY DEF CreateLock, At, Typed
    <2>2. Locking(x)
      BY <2>1 DEF Locking
    <2>3. \A d \in Calls \ {c} : call'[d] = call[d]
      BY <2>1 DEF Leave, Succeed, Typed
    <2>4. call'[c] \in {Idle, Answered(x)}
      BY <2>1 DEF Leave, Succeed, Typed
    <2>5. Idle.at = "idle"
      BY DEF Idle
    <2>6. Answered(x).at = "ok"
      BY <2>1, AnsweredType
    <2> QED
      BY <2>1, <2>2, <2>3, <2>4, <2>5, <2>6
  <1>2. ~Locking(call'[c]) /\ ~TakesOwn(call'[c])
    BY <1>1 DEF Locking, TakesOwn
  <1>3. CASE lock # {}
    <2>1. lock' = lock
      BY <1>3 DEF CreateLock
    <2>2. \A d \in Calls : Follows(call[d], call'[d], lock)
      BY <1>1, <1>2 DEF Follows
    <2> QED
      BY <1>1, <2>1, <2>2, LocksFollow
  <1>4. CASE lock = {}
    <2>1. lock' = {new}
      BY <1>4 DEF CreateLock
    <2>2. new.id = x.id /\ new.owner = x.by /\ x.id > left /\ x.by \in Users
      BY <1>1 DEF LocksKnown
    <2> HIDE DEF new
    <2>3. \A d \in Calls : Locking(call'[d]) => d # c /\ call[d].id # x.id
      BY <1>1, <1>2 DEF LocksKnown
    <2>4. \A d \in Calls : TakesOwn(call'[d]) => Locking(call'[d])
      BY DEF TakesOwn, Locking
    <2> HIDE DEF x
    <2> QED
      BY <1>1, <2>1, <2>2, <2>3, <2>4 DEF LocksKnown
  <1> QED
    BY <1>3, <1>4

LEMMA AskFollows ==
    ASSUME Typed, LocksKnown, NEW c \in Calls, Ask(c)
    PROVE  LocksKnown'
  <1>1. PICK op \in Ops, a \in Actors, who \in Users, team \in Teams, flag \in BOOLEAN,
             level \in 0..3, users \in SUBSET Users :
           Begin(c, op, a, who, team, flag, level, users)
    BY AskBegins
  <1>2. PICK id \in CASE op = "unset" -> {r.id : r \in rule} [] op = "unlock" -> {l.id : l \in lock}
                      [] OTHER -> {left} :
        call' = [call EXCEPT ![c] = [Idle EXCEPT !.op = op, !.by = a, !.who = who, !.team = team,
                    !.flag = flag, !.level = IF a = Key THEN Rank(Key) ELSE level, !.users = users,
                    !.id = id, !.want = Minimum(op), !.shut = private, !.todo = users,
                    !.at = IF op \in OrgOps THEN "org" ELSE "direct"]]
    BY <1>1 DEF Begin
  <1> DEFINE y == call'[c]
  <1>3. /\ y.op = op /\ y.id = id /\ y.by = a /\ y.at = (IF op \in OrgOps THEN "org" ELSE "direct")
        /\ \A d \in Calls \ {c} : call'[d] = call[d]
    BY <1>2 DEF Typed, Idle
  <1>4. lock' = lock /\ left' = left - 1 /\ left \in Int /\ \A d \in Calls : call[d].id \in Int
    BY <1>1 DEF Begin, tables, Typed, TablesTyped, Request, Ids
  <1>5. \A l \in lock : l.id \in Int
    BY DEF Typed, TablesTyped, LockRow, Ids
  <1>6. /\ op = "lock" => id = left
        /\ op = "unlock" => \E l \in lock : l.id = id
    BY <1>2
  <1> HIDE DEF y
  <1>7. ~TakesOwn(y) /\ (Locking(y) => op \in {"lock", "unlock"})
    BY <1>3 DEF TakesOwn, Locking
  <1>8. Locking(y) => y.id > left' /\ y.by \in Users
    <2>1. op \in {"lock", "unlock"} => a \in Users
      BY <1>1 DEF Begin, Authenticated, Actors
    <2> QED
      BY <1>3, <1>4, <1>5, <1>6, <1>7, <2>1 DEF LocksKnown
  <1>9. \A d \in Calls \ {c} : Locking(call'[d]) =>
           call[d].id > left /\ call'[d].id # left /\ call'[d].by \in Users
    BY <1>3, <1>4 DEF LocksKnown
  <1>10. \A d \in Calls : Locking(call'[d]) => call'[d].id > left' /\ call'[d].by \in Users
    BY <1>3, <1>4, <1>8, <1>9 DEF y
  <1>11. \A l \in lock' : l.id > left' /\ l.id # left /\ l.owner \in Users /\ \A m \in lock' : l = m
    BY <1>4, <1>5 DEF LocksKnown
  <1>12. ASSUME NEW d \in Calls, Locking(call'[d]), call'[d].op = "lock"
         PROVE  \A l \in lock' : l.id # call'[d].id
    <2>1. CASE d = c
      BY <1>3, <1>6, <1>11, <1>12, <2>1 DEF y
    <2>2. CASE d # c
      BY <1>3, <1>4, <1>12, <2>2 DEF LocksKnown
    <2> QED
      BY <2>1, <2>2
  <1>13. ASSUME NEW d \in Calls, Locking(call'[d]), call'[d].op = "lock",
                NEW e \in Calls, e # d, Locking(call'[e])
         PROVE  call'[e].id # call'[d].id
    <2>1. CASE d = c
      BY <1>3, <1>6, <1>9, <1>13, <2>1 DEF y
    <2>2. CASE e = c /\ op = "lock"
      BY <1>3, <1>6, <1>9, <1>13, <2>2 DEF y
    <2>3. CASE e = c /\ op = "unlock"
      <3>1. PICK l \in lock : l.id = y.id
        BY <1>3, <1>6, <2>3
      <3>2. l.id # call'[d].id
        BY <1>4, <1>12, <1>13
      <3> QED
        BY <2>3, <3>1, <3>2 DEF y
    <2>4. CASE d # c /\ e # c
      BY <1>3, <1>13, <2>4 DEF LocksKnown
    <2> QED
      BY <1>7, <1>13, <2>1, <2>2, <2>3, <2>4 DEF y
  <1>14. ASSUME NEW d \in Calls, TakesOwn(call'[d])
         PROVE  \A l \in lock' : l.id = call'[d].id => l.owner = call'[d].by
    <2>1. d # c
      BY <1>7, <1>14 DEF y
    <2> QED
      BY <1>3, <1>4, <1>14, <2>1 DEF LocksKnown
  <1> QED
    BY <1>10, <1>11, <1>12, <1>13, <1>14 DEF LocksKnown

-----------------------------------------------------------------------------
(* The steps taken past a check that are not about locks, all at once.     *)

Moves(x, y) ==
    \/ y = Idle \/ y = Answered(x)
    \/ /\ y.at \in Checked /\ y.op = x.op /\ y.by = x.by /\ y.want = x.want
       /\ y.shut = x.shut /\ y.unread = x.unread

OthersWait(c) ==
    \A d \in Calls \ {c} : \E b \in BOOLEAN : call'[d] \in {call[d], [call[d] EXCEPT !.alone = b]}

Plain(c) ==
    \/ SetVisibility(c) \/ AddCollaborator(c) \/ RemoveCollaborator(c) \/ ReadCodeRole(c)
    \/ AttachTeam(c) \/ AddKey(c) \/ RemoveKey(c) \/ AddMember(c) \/ RemoveMember(c)
    \/ ClearOverride(c) \/ PutOverride(c) \/ SelectRule(c) \/ UpdateRule(c) \/ InsertRule(c)
    \/ ClearAllowlist(c) \/ FillAllowlist(c) \/ DeleteRule(c)

LEMMA MovesTo ==
    ASSUME NEW x \in Request, NEW p \in Checked
    PROVE  Moves(x, [x EXCEPT !.at = p])
  BY DEF Moves, Request

\* A call that ends, or goes on past its check, lets the others wait.
LEMMA EndsOrGoes ==
    ASSUME Typed, NEW c \in Calls,
           Leave(c) \/ Succeed(c) \/ (\E p \in Checked : Goto(c, p))
    PROVE  Moves(call[c], call'[c]) /\ OthersWait(c)
  <1>1. call[c] \in Request /\ call \in [Calls -> Request]
    BY DEF Typed
  <1>2. OthersWait(c)
    BY <1>1 DEF OthersWait, Leave, Succeed, Goto
  <1>3. CASE Leave(c) \/ Succeed(c)
    BY <1>1, <1>2, <1>3 DEF Leave, Succeed, Moves
  <1>4. ASSUME NEW p \in Checked, Goto(c, p)
        PROVE  Moves(call[c], call'[c])
    BY <1>1, <1>4, MovesTo DEF Goto
  <1> QED
    BY <1>2, <1>3, <1>4

LEMMA PlainMoves ==
    ASSUME Typed, NEW c \in Calls, Plain(c)
    PROVE  /\ call[c].at \in Checked /\ call[c].op \notin {"lock", "unlock"}
           /\ lock' = lock /\ left' = left
           /\ Moves(call[c], call'[c]) /\ OthersWait(c)
  <1> USE DEF RuleOnly
  <1>1. call[c] \in Request /\ call \in [Calls -> Request]
    BY DEF Typed
  <1>2. /\ call[c].at \in Checked /\ call[c].op \notin {"lock", "unlock"}
        /\ lock' = lock /\ left' = left
    BY DEF Plain, SetVisibility, AddCollaborator, RemoveCollaborator, ReadCodeRole, AttachTeam, AddKey,
       RemoveKey, AddMember, RemoveMember, ClearOverride, PutOverride, SelectRule, UpdateRule, InsertRule,
       ClearAllowlist, FillAllowlist, DeleteRule, At, Checked, tables
  <1>3. \A p \in {"act", "update", "insert", "clear", "fill", "put"} : p \in Checked
    BY DEF Checked
  <1>4. CASE \/ SetVisibility(c) \/ AddCollaborator(c) \/ RemoveCollaborator(c) \/ AttachTeam(c) \/ AddKey(c)
             \/ RemoveKey(c) \/ AddMember(c) \/ RemoveMember(c) \/ ClearOverride(c) \/ PutOverride(c)
             \/ UpdateRule(c) \/ InsertRule(c) \/ ClearAllowlist(c)
    <2>1. Leave(c) \/ Succeed(c) \/ (\E p \in Checked : Goto(c, p))
      BY <1>3, <1>4 DEF SetVisibility, AddCollaborator, RemoveCollaborator, AttachTeam, AddKey, RemoveKey,
         AddMember, RemoveMember, ClearOverride, PutOverride, UpdateRule, InsertRule, ClearAllowlist, Answer
    <2> QED
      BY <1>2, <2>1, EndsOrGoes
  <1>5. CASE ReadCodeRole(c)
    <2>1. CASE Leave(c)
      BY <1>2, <2>1, EndsOrGoes
    <2>2. CASE call' = [call EXCEPT ![c].level = CodeRole(call[c].team), ![c].at = "act"]
      <3>1. call'[c] = [call[c] EXCEPT !.level = CodeRole(call[c].team), !.at = "act"]
        BY <1>1, <2>2
      <3>2. OthersWait(c)
        BY <1>1, <2>2 DEF OthersWait
      <3>3. Moves(call[c], [call[c] EXCEPT !.level = CodeRole(call[c].team), !.at = "act"])
        BY <1>1, <1>3 DEF Moves, Request
      <3> QED
        BY <1>2, <3>1, <3>2, <3>3
    <2> QED
      BY <1>5, <2>1, <2>2 DEF ReadCodeRole
  <1>6. CASE SelectRule(c)
    <2> DEFINE id == IF rule = {} THEN call[c].id ELSE (CHOOSE r \in rule : TRUE).id
               p == IF rule = {} THEN "insert" ELSE "update"
               alone == Others(c) = {}
    <2>1. call' = [d \in Calls |-> IF d = c THEN [call[c] EXCEPT !.alone = alone, !.seen = rule, !.id = id, !.at = p]
                                   ELSE [call[d] EXCEPT !.alone = call[d].alone /\ ~Changing(d)]]
      BY <1>6 DEF SelectRule
    <2>2. p \in Checked
      BY <1>3
    <2>3. \A d \in Calls : (call[d].alone /\ ~Changing(d)) \in BOOLEAN
      OBVIOUS
    <2> HIDE DEF id, p, alone
    <2>4. OthersWait(c)
      BY <2>1, <2>3 DEF OthersWait
    <2>5. call'[c] = [call[c] EXCEPT !.alone = alone, !.seen = rule, !.id = id, !.at = p]
      BY <2>1
    <2>6. Moves(call[c], [call[c] EXCEPT !.alone = alone, !.seen = rule, !.id = id, !.at = p])
      BY <1>1, <2>2 DEF Moves, Request
    <2> QED
      BY <1>2, <2>4, <2>5, <2>6
  <1>7. CASE FillAllowlist(c)
    <2>1. PICK s : Leave(c) \/ Succeed(c) \/ call' = [call EXCEPT ![c].todo = s]
      <3>1. PICK u : Leave(c) \/ Succeed(c) \/ call' = [call EXCEPT ![c].todo = @ \ {u}]
        BY <1>7 DEF FillAllowlist
      <3>2. call' = [call EXCEPT ![c].todo = @ \ {u}] => call' = [call EXCEPT ![c].todo = call[c].todo \ {u}]
        OBVIOUS
      <3> QED
        BY <3>1, <3>2
    <2>2. CASE Leave(c) \/ Succeed(c)
      BY <1>2, <2>2, EndsOrGoes
    <2>3. CASE call' = [call EXCEPT ![c].todo = s]
      <3>1. call'[c] = [call[c] EXCEPT !.todo = s]
        BY <1>1, <2>3
      <3>2. OthersWait(c)
        BY <1>1, <2>3 DEF OthersWait
      <3>3. Moves(call[c], [call[c] EXCEPT !.todo = s])
        BY <1>1, <1>2 DEF Moves, Request
      <3> QED
        BY <1>2, <3>1, <3>2, <3>3
    <2> QED
      BY <2>1, <2>2, <2>3
  <1>8. CASE DeleteRule(c)
    <2>1. call' = [d \in Calls |-> IF d = c THEN IF rule' = rule THEN Idle ELSE Answered(call[c])
                                   ELSE [call[d] EXCEPT !.alone = call[d].alone /\ ~Changing(d)]]
      BY <1>8 DEF DeleteRule
    <2>2. \A d \in Calls : (call[d].alone /\ ~Changing(d)) \in BOOLEAN
      OBVIOUS
    <2>3. OthersWait(c)
      BY <2>1, <2>2 DEF OthersWait
    <2>4. Moves(call[c], call'[c])
      BY <2>1 DEF Moves
    <2> QED
      BY <1>2, <2>3, <2>4
  <1> QED
    BY <1>4, <1>5, <1>6, <1>7, <1>8 DEF Plain

-----------------------------------------------------------------------------
\* A request that has ended, and one that never was about locks.
LEMMA EndFollows ==
    ASSUME NEW x, NEW y, NEW locks, y.at \in {"idle", "ok"} \/ y.op \notin {"lock", "unlock"}
    PROVE  Follows(x, y, locks)
  BY DEF Follows, Locking

LEMMA OneFollows ==
    ASSUME Typed, LocksKnown, NEW c \in Calls, OthersWait(c), lock' \subseteq lock, left' = left,
           Follows(call[c], call'[c], lock)
    PROVE  LocksKnown'
  <1>1. ASSUME NEW d \in Calls
        PROVE  Follows(call[d], call'[d], lock)
    <2>1. CASE d = c
      BY <2>1
    <2>2. CASE d # c
      <3>1. PICK b \in BOOLEAN : call'[d] \in {call[d], [call[d] EXCEPT !.alone = b]}
        BY <2>2 DEF OthersWait
      <3> QED
        BY <3>1, FollowsAlone DEF Typed
    <2> QED
      BY <2>1, <2>2
  <1> QED
    BY <1>1, LocksFollow

LEMMA MovesFollow ==
    ASSUME NEW x \in Request, x.op \notin {"lock", "unlock"}, NEW y, Moves(x, y), NEW locks
    PROVE  Follows(x, y, locks)
  <1>1. y.at \in {"idle", "ok"} \/ y.op \notin {"lock", "unlock"}
    BY AnsweredType DEF Moves, Idle
  <1> QED
    BY <1>1, EndFollows

LEMMA DirectFollows ==
    ASSUME Typed, LocksKnown, NEW c \in Calls, ReadDirect(c)
    PROVE  LocksKnown'
  <1> DEFINE x == call[c]
             y == call'[c]
             r == IF UserOf(x.by) \in Users THEN grant[UserOf(x.by)] ELSE 0
  <1>1. x \in Request /\ x.at = "direct" /\ lock' = lock /\ left' = left
        /\ y = [x EXCEPT !.at = "teams", !.direct = r]
    BY DEF ReadDirect, Typed, tables
  <1>2. OthersWait(c)
    BY DEF ReadDirect, OthersWait, Typed
  <1>3. y.op = x.op /\ y.id = x.id /\ y.by = x.by /\ y.at = "teams"
    BY <1>1 DEF Request
  <1> HIDE DEF y
  <1>4. Follows(x, y, lock)
    BY <1>1, <1>3 DEF Follows, Locking, TakesOwn
  <1> QED
    BY <1>1, <1>2, <1>4, OneFollows DEF y

LEMMA DecideFollows ==
    ASSUME Typed, LocksKnown, NEW c \in Calls, Decide(c)
    PROVE  LocksKnown'
  <1> DEFINE x == call[c]
             y == call'[c]
  <1>1. x \in Request /\ x.at = "teams" /\ lock' = lock /\ left' = left
    BY DEF Decide, Typed, tables
  <1>2. \/ Succeed(c) \/ Leave(c) \/ Goto(c, Then(x)) \/ (x.op = "push" /\ Goto(c, "rules"))
        \/ /\ x.op = "push"
           /\ \E b : call' = [call EXCEPT ![c].at = "direct", ![c].want = 3, ![c].by = b]
    BY DEF Decide
  <1>3. OthersWait(c)
    BY <1>2 DEF Succeed, Leave, Goto, OthersWait, Typed
  <1>4. Follows(x, y, lock)
    <2>1. CASE Succeed(c) \/ Leave(c)
      <3>1. y \in {Idle, Answered(x)}
        BY <2>1 DEF Succeed, Leave, Typed
      <3>2. y.at \in {"idle", "ok"}
        BY <1>1, <3>1, AnsweredType DEF Idle
      <3> QED
        BY <3>2, EndFollows
    <2>2. CASE Goto(c, Then(x))
      <3>1. y = [x EXCEPT !.at = Then(x)]
        BY <2>2 DEF Goto, Typed
      <3>2. y.op = x.op /\ y.id = x.id /\ y.by = x.by /\ y.want = x.want /\ y.at = Then(x)
        BY <1>1, <3>1 DEF Request
      <3> HIDE DEF y
      <3>3. x.op = "unlock" /\ x.want = 2 => y.at = "found"
        BY <3>2 DEF Then
      <3>4. ~TakesOwn(y)
        BY <3>2, <3>3 DEF TakesOwn
      <3> QED
        BY <1>1, <3>2, <3>4 DEF Follows, Locking
    <2>3. CASE x.op = "push" /\ Goto(c, "rules")
      <3>1. y = [x EXCEPT !.at = "rules"]
        BY <2>3 DEF Goto, Typed
      <3>2. y.op = "push"
        BY <1>1, <2>3, <3>1 DEF Request
      <3> QED
        BY <3>2, EndFollows
    <2>4. CASE /\ x.op = "push"
               /\ \E b : call' = [call EXCEPT ![c].at = "direct", ![c].want = 3, ![c].by = b]
      <3>1. PICK b : call' = [call EXCEPT ![c].at = "direct", ![c].want = 3, ![c].by = b]
        BY <2>4
      <3>2. y = [x EXCEPT !.at = "direct", !.want = 3, !.by = b]
        BY <3>1 DEF Typed
      <3>3. y.op = "push"
        BY <1>1, <2>4, <3>2 DEF Request
      <3> QED
        BY <3>3, EndFollows
    <2> QED
      BY <1>2, <2>1, <2>2, <2>3, <2>4
  <1> QED
    BY <1>1, <1>3, <1>4, OneFollows

LEMMA FindFollows ==
    ASSUME Typed, LocksKnown, NEW c \in Calls, FindLock(c)
    PROVE  LocksKnown'
  <1> DEFINE x == call[c]
             y == call'[c]
  <1>1. x \in Request /\ x.op = "unlock" /\ x.at = "found" /\ lock' = lock /\ left' = left
    BY DEF FindLock, At, Typed, tables
  <1>2. \/ Leave(c)
        \/ Goto(c, "act") /\ \E l \in lock : l.id = x.id /\ l.owner = x.by
        \/ call' = [call EXCEPT ![c].want = 3, ![c].at = "direct"]
    BY DEF FindLock
  <1>3. OthersWait(c)
    BY <1>2 DEF Leave, Goto, OthersWait, Typed
  <1>4. Follows(x, y, lock)
    <2>1. CASE Leave(c)
      <3>1. y.at = "idle"
        BY <2>1 DEF Leave, Typed, Idle
      <3> QED
        BY <3>1, EndFollows
    <2>2. CASE Goto(c, "act") /\ \E l \in lock : l.id = x.id /\ l.owner = x.by
      <3>1. y = [x EXCEPT !.at = "act"]
        BY <2>2 DEF Goto, Typed
      <3>2. y.op = x.op /\ y.id = x.id /\ y.by = x.by
        BY <1>1, <3>1 DEF Request
      <3>3. \A l \in lock : l.owner = x.by
        BY <2>2 DEF LocksKnown
      <3>4. Locking(x)
        BY <1>1 DEF Locking
      <3> HIDE DEF y
      <3> QED
        BY <3>2, <3>3, <3>4 DEF Follows
    <2>3. CASE call' = [call EXCEPT ![c].want = 3, ![c].at = "direct"]
      <3>1. y = [x EXCEPT !.want = 3, !.at = "direct"]
        BY <2>3 DEF Typed
      <3>2. y.op = x.op /\ y.id = x.id /\ y.by = x.by /\ y.at = "direct"
        BY <1>1, <3>1 DEF Request
      <3> HIDE DEF y
      <3> QED
        BY <1>1, <3>2 DEF Follows, Locking, TakesOwn
    <2> QED
      BY <1>2, <2>1, <2>2, <2>3
  <1> QED
    BY <1>1, <1>3, <1>4, OneFollows

LEMMA LocksStep ==
    ASSUME Typed, AllSound, LocksKnown, [Next]_vars
    PROVE  LocksKnown'
  <1>0. call \in [Calls -> Request] /\ \A c \in Calls : call[c] \in Request
    BY DEF Typed
  <1>1. ASSUME NEW c \in Calls, ReadRules(c) \/ ReadAllowlist(c) \/ Unreadable(c) \/ Return(c) \/ Cut(c)
        PROVE  LocksKnown'
    <2>1. \/ Leave(c) \/ Succeed(c)
          \/ call[c].op = "push" /\ call' = [call EXCEPT ![c].at = "allow", ![c].seen = rule]
          \/ call' = [call EXCEPT ![c] = Answered([@ EXCEPT !.unread = TRUE])]
      BY <1>1 DEF ReadRules, ReadAllowlist, Unreadable, Return, Cut, Answer, At
    <2>2. lock' = lock /\ left' = left
      BY <1>1 DEF ReadRules, ReadAllowlist, Unreadable, Return, Cut, tables
    <2>3. OthersWait(c)
      BY <1>0, <2>1 DEF OthersWait, Leave, Succeed
    <2>4. call'[c].at \in {"idle", "ok"} \/ call'[c].op = "push"
      <3>1. CASE Leave(c) \/ Succeed(c)
        BY <1>0, <3>1, AnsweredType DEF Leave, Succeed, Idle
      <3>2. CASE call[c].op = "push" /\ call' = [call EXCEPT ![c].at = "allow", ![c].seen = rule]
        <4>1. call'[c] = [call[c] EXCEPT !.at = "allow", !.seen = rule]
          BY <1>0, <3>2
        <4> QED
          BY <1>0, <3>2, <4>1 DEF Request
      <3>3. CASE call' = [call EXCEPT ![c] = Answered([@ EXCEPT !.unread = TRUE])]
        <4>1. [call[c] EXCEPT !.unread = TRUE] \in Request
          BY <1>0, FieldTypes
        <4>2. call'[c] = Answered([call[c] EXCEPT !.unread = TRUE])
          BY <1>0, <3>3
        <4> QED
          BY <4>1, <4>2, AnsweredType
      <3> QED
        BY <2>1, <3>1, <3>2, <3>3
    <2>5. Follows(call[c], call'[c], lock)
      BY <2>4, EndFollows
    <2> QED
      BY <2>2, <2>3, <2>5, OneFollows
  <1>2. ASSUME NEW c \in Calls, CheckOrganization(c)
        PROVE  LocksKnown'
    <2>1. call[c].op \in OrgOps
      BY <1>2 DEF AllSound, Sound, Backed, CheckOrganization
    <2>2. Leave(c) \/ (\E p \in Checked : Goto(c, p))
      BY <1>2 DEF CheckOrganization, Checked
    <2>3. Moves(call[c], call'[c]) /\ OthersWait(c)
      BY <2>2, EndsOrGoes
    <2>4. Follows(call[c], call'[c], lock)
      BY <1>0, <2>1, <2>3, MovesFollow DEF OrgOps
    <2>5. lock' = lock /\ left' = left
      BY <1>2 DEF CheckOrganization, tables
    <2> QED
      BY <2>3, <2>4, <2>5, OneFollows
  <1>3. ASSUME NEW c \in Calls, Plain(c)
        PROVE  LocksKnown'
    <2>1. Follows(call[c], call'[c], lock)
      BY <1>0, <1>3, PlainMoves, MovesFollow
    <2> QED
      BY <1>3, <2>1, PlainMoves, OneFollows
  <1>4. ASSUME NEW c \in Calls, DeleteLock(c)
        PROVE  LocksKnown'
    <2> DEFINE z == [call[c] EXCEPT !.took = Taken(call[c].id)]
    <2>1. z \in Request
      BY <1>0 DEF Request, Taken, Typed, TablesTyped
    <2>2. call' = [call EXCEPT ![c] = Idle] \/ call' = [call EXCEPT ![c] = Answered(z)]
      BY <1>4 DEF DeleteLock, Leave
    <2>3. lock' \subseteq lock /\ left' = left
      BY <1>4 DEF DeleteLock
    <2> HIDE DEF z
    <2>4. OthersWait(c)
      BY <1>0, <2>2 DEF OthersWait
    <2>5. call'[c] \in {Idle, Answered(z)}
      BY <1>0, <2>2
    <2>6. call'[c].at \in {"idle", "ok"}
      BY <2>1, <2>5, AnsweredType DEF Idle
    <2>7. Follows(call[c], call'[c], lock)
      BY <2>6, EndFollows
    <2> QED
      BY <2>3, <2>4, <2>7, OneFollows
  <1>5. CASE AdminFlipsVisibility \/ RevokeToken \/ UNCHANGED vars
    <2>1. UNCHANGED <<lock, left, call>>
      BY <1>5 DEF AdminFlipsVisibility, RevokeToken, vars, tables
    <2> QED
      BY <2>1 DEF LocksKnown
  <1> QED
    BY <1>1, <1>2, <1>3, <1>4, <1>5, AskFollows, DirectFollows, DecideFollows, FindFollows, CreateFollows
       DEF Next, Step, Plain

\* What is taken is one's own, or a second check has passed.
LEMMA DeleteSound ==
    ASSUME Typed, LocksKnown, NEW c \in Calls, Sound(call[c], had[c]), DeleteLock(c)
    PROVE  Sound(call'[c], had[c] \union Entitled(call[c].by))
  <1> DEFINE x == call[c]
             h == had[c] \union Entitled(x.by)
             z == [x EXCEPT !.took = Taken(x.id)]
  <1>1. x \in Request /\ x.op = "unlock" /\ x.at = "act" /\ Backed(x, had[c])
    BY DEF DeleteLock, At, Typed, Sound
  <1>2. x.want \in {2, 3} /\ Base(x) \subseteq had[c]
    BY <1>1 DEF Backed, AsksFor, Checked
  <1>3. "write" \in had[c] /\ (x.want = 3 => "admin" \in had[c])
    <2>1. x.op \in {"lock", "unlock"}
      BY <1>1
    <2> HIDE DEF x
    <2>2. Base(x) = {"write"} \union IF x.want = 3 THEN {"admin"} ELSE {}
      BY <2>1 DEF Base, OrgOps
    <2> QED
      BY <1>2, <2>2
  <1>4. z \in Request
    BY <1>1 DEF Request, Taken, Typed, TablesTyped
  <1>5. z.op = "unlock" /\ z.by = x.by /\ z.took = Taken(x.id)
    BY <1>1 DEF Request
  <1>6. call'[c] \in {Idle, Answered(z)}
    BY DEF DeleteLock, Leave, Typed
  <1>7. x.want = 2 => \A l \in Taken(x.id) : l.owner = x.by
    BY <1>1 DEF LocksKnown, TakesOwn, Taken
  <1> HIDE DEF x, z
  <1>8. Owed(z) \subseteq had[c]
    BY <1>2, <1>3, <1>5, <1>7 DEF Owed
  <1> QED
    BY <1>4, <1>6, <1>8, SoundIdle, SoundAnswer DEF x

LEMMA SoundStep ==
    ASSUME Typed, Typed', LocksKnown, AllSound, [Next]_vars
    PROVE  AllSound'
  <1>0. /\ call \in [Calls -> Request] /\ \A c \in Calls : call[c] \in Request /\ Sound(call[c], had[c])
        /\ call' \in [Calls -> Request] /\ \A c \in Calls : call'[c] \in Request
    BY DEF Typed, AllSound
  <1>1. CASE UNCHANGED vars
    BY <1>1, NoneMoves DEF vars
  <1>2. CASE Next
    <2>1. had' = [d \in Calls |-> IF call'[d].at = "idle" THEN {}
                    ELSE had[d] \union Entitled(IF call[d].at = "idle" THEN call'[d].by ELSE call[d].by)]
      BY <1>2 DEF Next
    <2>2. ASSUME NEW c \in Calls, OthersWait(c), call[c].at # "idle",
                 Sound(call'[c], had[c] \union Entitled(call[c].by))
          PROVE  AllSound'
      BY <1>0, <2>1, <2>2, OneMoves DEF OthersWait
    <2>3. ASSUME NEW c \in Calls, Ask(c)
          PROVE  AllSound'
      <3>1. call[c].at = "idle" /\ OthersWait(c)
        <4>1. PICK op \in Ops, a \in Actors, who \in Users, team \in Teams, flag \in BOOLEAN,
                   level \in 0..3, users \in SUBSET Users :
                 Begin(c, op, a, who, team, flag, level, users)
          BY <2>3, AskBegins
        <4>2. call[c].at = "idle" /\ \E y : call' = [call EXCEPT ![c] = y]
          BY <4>1 DEF Begin
        <4> QED
          BY <1>0, <4>2 DEF OthersWait
      <3>2. Sound(call'[c], Entitled(call'[c].by))
        BY <2>3, BeginSound
      <3> QED
        BY <1>0, <2>1, <3>1, <3>2, OneMoves DEF OthersWait
    <2>4. ASSUME NEW c \in Calls, ReadDirect(c)
          PROVE  AllSound'
      <3>1. call[c].at # "idle" /\ OthersWait(c)
        BY <1>0, <2>4 DEF ReadDirect, OthersWait
      <3> QED
        BY <1>0, <2>2, <2>4, <3>1, DirectSound
    <2>5. ASSUME NEW c \in Calls, Decide(c)
          PROVE  AllSound'
      <3>1. call[c].at # "idle" /\ \E y : call' = [call EXCEPT ![c] = y]
        BY <1>0, <2>5 DEF Decide, Succeed, Goto, Leave
      <3>2. OthersWait(c)
        BY <1>0, <3>1 DEF OthersWait
      <3> QED
        BY <1>0, <2>2, <2>5, <3>1, <3>2, DecideSound
    <2>6. ASSUME NEW c \in Calls, ReadRules(c) \/ ReadAllowlist(c) \/ Unreadable(c)
          PROVE  AllSound'
      <3>1. call[c].at # "idle" /\ \E y : call' = [call EXCEPT ![c] = y]
        BY <1>0, <2>6 DEF ReadRules, ReadAllowlist, Unreadable, At, Answer, Succeed, Leave
      <3>2. OthersWait(c)
        BY <1>0, <3>1 DEF OthersWait
      <3> QED
        BY <1>0, <2>2, <2>6, <3>1, <3>2, RulesSound
    <2>7. ASSUME NEW c \in Calls, CheckOrganization(c)
          PROVE  AllSound'
      <3>1. call[c].at # "idle" /\ OthersWait(c)
        BY <1>0, <2>7 DEF CheckOrganization, Goto, Leave, OthersWait
      <3> QED
        BY <1>0, <2>2, <2>7, <3>1, OrganizationSound
    <2>8. ASSUME NEW c \in Calls, FindLock(c)
          PROVE  AllSound'
      <3>1. call[c].at # "idle" /\ OthersWait(c)
        BY <1>0, <2>8 DEF FindLock, At, Goto, Leave, OthersWait
      <3> QED
        BY <1>0, <2>2, <2>8, <3>1, FindSound
    <2>9. ASSUME NEW c \in Calls, DeleteLock(c)
          PROVE  AllSound'
      <3>1. call[c].at # "idle" /\ OthersWait(c)
        BY <1>0, <2>9 DEF DeleteLock, At, Leave, OthersWait
      <3> QED
        BY <1>0, <2>2, <2>9, <3>1, DeleteSound
    <2>10. ASSUME NEW c \in Calls, Plain(c)
           PROVE  AllSound'
      <3>1. /\ call[c].at \in Checked /\ call[c].op \notin {"lock", "unlock"}
            /\ Moves(call[c], call'[c]) /\ OthersWait(c)
        BY <2>10, PlainMoves
      <3>2. call[c].at # "idle"
        BY <3>1 DEF Checked
      <3>3. Sound(call'[c], had[c] \union Entitled(call[c].by))
        BY <1>0, <3>1, PastCheck DEF Moves
      <3> QED
        BY <2>2, <3>1, <3>2, <3>3
    <2>11. ASSUME NEW c \in Calls, CreateLock(c)
           PROVE  AllSound'
      <3>1. call[c].at = "act" /\ call[c].op = "lock" /\ (Leave(c) \/ Succeed(c))
        BY <2>11 DEF CreateLock, At
      <3>2. /\ Moves(call[c], call'[c]) /\ OthersWait(c)
            /\ call[c].at \in Checked /\ call[c].at # "idle"
        BY <3>1, EndsOrGoes DEF Checked
      <3>3. Sound(call'[c], had[c] \union Entitled(call[c].by))
        BY <1>0, <3>1, <3>2, PastCheck DEF Moves
      <3> QED
        BY <2>2, <3>2, <3>3
    <2>12. ASSUME NEW c \in Calls, Return(c) \/ Cut(c)
           PROVE  AllSound'
      <3>1. Leave(c) /\ call[c].at # "idle"
        BY <2>12 DEF Return, Cut
      <3>2. OthersWait(c)
        BY <3>1, EndsOrGoes
      <3>3. call'[c] = Idle
        BY <1>0, <3>1 DEF Leave
      <3> QED
        BY <2>2, <3>1, <3>2, <3>3, SoundIdle
    <2>13. CASE AdminFlipsVisibility \/ RevokeToken
      <3>1. call' = call
        BY <2>13 DEF AdminFlipsVisibility, RevokeToken
      <3> QED
        BY <2>1, <3>1, NoneMoves
    <2> QED
      BY <1>2, <2>3, <2>4, <2>5, <2>6, <2>7, <2>8, <2>9, <2>10, <2>11, <2>12, <2>13 DEF Next, Step, Plain
  <1> QED
    BY <1>1, <1>2

LEMMA StartSound == Init => Typed /\ AllSound /\ LocksKnown
  <1> SUFFICES ASSUME Init PROVE Typed /\ AllSound /\ LocksKnown
    OBVIOUS
  <1>1. PICK start \in Starts :
        /\ private = start.private
        /\ grant = [s \in Users \union Teams |->
               IF s = start.owner THEN 4 ELSE IF s = Dev THEN start.dev ELSE 0]
        /\ members = [t \in Teams |-> IF t = Owners THEN {Creator} ELSE start.members]
        /\ default = start.default /\ rule = start.rule /\ allow = start.allow
    BY DEF Init
  <1>2. /\ override = {} /\ key = "none" /\ lock = {} /\ left = MaxCalls
        /\ call = [c \in Calls |-> Idle] /\ MaxCalls \in Nat
    BY AccessAssumption DEF Init
  <1>3. /\ start.private \in BOOLEAN /\ start.default \in 0..3 /\ start.dev \in 0..3
        /\ start.members \subseteq Users /\ Creator \in Users
        /\ \A r, q \in start.rule : r = q
        /\ start.allow \subseteq {r.id : r \in start.rule} \X Users
    BY AccessAssumption
  <1>4. start.rule \subseteq Rule
    <2>1. start.rule \subseteq [id : {0}, linear : BOOLEAN] /\ 0 \in Ids
      BY <1>2, AccessAssumption DEF Ids
    <2> QED
      BY <2>1 DEF Rule
  <1>5. grant \in [Users \union Teams -> 0..4] /\ members \in [Teams -> SUBSET Users]
    BY <1>1, <1>3
  <1>6. TablesTyped
    BY <1>1, <1>2, <1>3, <1>4, <1>5 DEF TablesTyped
  <1>7. call \in [Calls -> Request] /\ \A c \in Calls : call[c] = Idle
    BY <1>2, IdleType
  <1>8. AllSound
    BY <1>7, SoundIdle DEF AllSound
  <1>9. \A c \in Calls : ~Locking(call[c]) /\ ~TakesOwn(call[c])
    BY <1>7 DEF Locking, TakesOwn, Idle
  <1> QED
    BY <1>2, <1>6, <1>7, <1>8, <1>9 DEF Typed, LocksKnown

(***************************************************************************)
(* Whatever the tables hold and whoever changes them meanwhile, a call that*)
(* has succeeded was entitled to each thing it did at some moment of it:   *)
(* the rows the checks of authz.rs and access.rs read one by one, and the  *)
(* rule and the allowlist a push is held to, never add up to more than the *)
(* tables gave its actor in one of the states in between.                  *)
(***************************************************************************)
THEOREM ChecksWereEntitled == Spec => []EntitledOnce
  <1>1. Init => Typed /\ AllSound /\ LocksKnown
    BY StartSound
  <1>2. Typed /\ AllSound /\ LocksKnown /\ [Next]_vars => (Typed /\ AllSound /\ LocksKnown)'
    BY TypedStep, SoundStep, LocksStep
  <1>3. AllSound => EntitledOnce
    BY DEF AllSound, Sound, EntitledOnce
  <1> QED
    BY <1>1, <1>2, <1>3, PTL DEF Spec

-----------------------------------------------------------------------------
(* The rule of the branch is what the last change asked for.               *)

\* A call between its first statement on the rule and its last.
Rewriting(x) == x.op = "set" /\ x.at \in {"update", "insert", "clear", "fill"}

\* A change has only users of its own to enter, and all of them until it fills the allowlist.
Fresh(x) ==
    x.op = "set" /\ x.at \notin {"idle", "ok"} =>
        x.todo \subseteq x.users /\ (x.at # "fill" => x.todo = x.users)

\* How far a change that has run by itself has brought the rows.
Stage(x) ==
    /\ x.at = "update" => \E r \in rule : r.id = x.id
    /\ x.at = "insert" => rule = {}
    /\ x.at \in {"clear", "fill"} => rule = {[id |-> x.id, linear |-> x.flag]}
    /\ x.at = "fill" => allow = {x.id} \X (x.users \ x.todo)

Alone(c) == Changing(c) /\ call[c].alone => Others(c) = {} /\ Stage(call[c])

RuleInv ==
    /\ \A c \in Calls : Fresh(call[c])
    /\ \A c \in Calls : Alone(c)
    /\ RuleAsAsked

\* A call that neither is at the rule nor comes to it.
Apart(x, y) == ~Rewriting(x) /\ ~Rewriting(y) /\ (Fresh(x) => Fresh(y))
Beside(c) ==
    /\ UNCHANGED <<rule, allow, asked>>
    /\ \A d \in Calls \ {c} : call'[d] = call[d]
    /\ Apart(call[c], call'[c])

LEMMA ApartEnds ==
    ASSUME NEW x, ~Rewriting(x), NEW y, y.at \in {"idle", "ok"}
    PROVE  Apart(x, y)
  BY DEF Apart, Rewriting, Fresh

LEMMA ApartGoes ==
    ASSUME NEW x, ~Rewriting(x), x.at \notin {"idle", "ok"}, NEW y, ~Rewriting(y),
           y.op = x.op, y.users = x.users, y.todo = x.todo
    PROVE  Apart(x, y)
  BY DEF Apart, Rewriting, Fresh

LEMMA BesideKeeps ==
    ASSUME RuleInv, NEW c \in Calls, Beside(c)
    PROVE  RuleInv'
  <1>1. \A d \in Calls : Fresh(call'[d])
    BY DEF RuleInv, Beside, Apart
  <1>2. \A d \in Calls : Rewriting(call'[d]) <=> Rewriting(call[d])
    BY DEF Beside, Apart
  <1>3. \A d \in Calls : (Changing(d)' <=> Changing(d)) /\ (Changing(d)' => call'[d] = call[d])
    BY <1>2 DEF Changing, Rewriting, Beside, Apart
  <1>4. \A d \in Calls : Others(d)' = Others(d)
    BY <1>3 DEF Others
  <1>5. ASSUME NEW d \in Calls
        PROVE  Alone(d)'
    <2>1. SUFFICES ASSUME Changing(d)', call'[d].alone
                   PROVE  Others(d)' = {} /\ Stage(call[d])'
      BY DEF Alone
    <2>2. Changing(d) /\ call[d].alone /\ call'[d] = call[d]
      BY <1>3, <2>1
    <2>3. Others(d) = {} /\ Stage(call[d])
      BY <2>2 DEF RuleInv, Alone
    <2>4. rule' = rule /\ allow' = allow
      BY DEF Beside
    <2>5. Stage(call[d])'
      BY <2>2, <2>3, <2>4 DEF Stage
    <2> QED
      BY <1>4, <2>3, <2>5
  <1>6. RuleAsAsked'
    <2>1. rule' = rule /\ allow' = allow /\ asked' = asked
      BY DEF Beside
    <2>2. (\E d \in Calls : Changing(d))' <=> (\E d \in Calls : Changing(d))
      BY <1>3
    <2> QED
      BY <2>1, <2>2 DEF RuleInv, RuleAsAsked
  <1> QED
    BY <1>1, <1>5, <1>6 DEF RuleInv

\* A call that ends, or goes on elsewhere, without touching the rule.
LEMMA EndsBeside ==
    ASSUME Typed, NEW c \in Calls, ~Changing(c), call[c].at \notin {"idle", "ok"} \/ Leave(c),
           UNCHANGED <<rule, allow, asked>>,
           \/ Leave(c) \/ Succeed(c)
           \/ \E p \in Place : Goto(c, p) /\ (call[c].op = "set" => p \notin {"update", "insert", "clear", "fill"})
    PROVE  Beside(c)
  <1>1. call[c] \in Request /\ call \in [Calls -> Request] /\ ~Rewriting(call[c])
    BY DEF Typed, Changing, Rewriting
  <1>2. \A d \in Calls \ {c} : call'[d] = call[d]
    BY <1>1 DEF Leave, Succeed, Goto
  <1>3. CASE Leave(c) \/ Succeed(c)
    <2>1. call'[c] = Idle \/ call'[c] = Answered(call[c])
      BY <1>1, <1>3 DEF Leave, Succeed
    <2>2. call'[c].at \in {"idle", "ok"}
      BY <1>1, <2>1, AnsweredType DEF Idle
    <2> QED
      BY <1>1, <1>2, <2>2, ApartEnds DEF Beside
  <1>4. ASSUME NEW p \in Place, Goto(c, p), call[c].at \notin {"idle", "ok"},
               call[c].op = "set" => p \notin {"update", "insert", "clear", "fill"}
        PROVE  Beside(c)
    <2> DEFINE y == call'[c]
    <2>1. y = [call[c] EXCEPT !.at = p]
      BY <1>1, <1>4 DEF Goto
    <2>2. y.op = call[c].op /\ y.users = call[c].users /\ y.todo = call[c].todo /\ y.at = p
      BY <1>1, <2>1 DEF Request
    <2> HIDE DEF y
    <2>3. ~Rewriting(y)
      BY <1>4, <2>2 DEF Rewriting
    <2>4. Apart(call[c], y)
      BY <1>1, <1>4, <2>2, <2>3, ApartGoes
    <2> QED
      BY <1>2, <2>4 DEF Beside, y
  <1> QED
    BY <1>3, <1>4

LEMMA EndingBeside ==
    ASSUME Typed, NEW c \in Calls,
           \/ SetVisibility(c) \/ AddCollaborator(c) \/ RemoveCollaborator(c) \/ AttachTeam(c)
           \/ AddKey(c) \/ RemoveKey(c) \/ CheckOrganization(c) \/ AddMember(c) \/ RemoveMember(c)
           \/ ClearOverride(c) \/ PutOverride(c) \/ CreateLock(c) \/ ReadAllowlist(c) \/ Return(c)
           \/ Cut(c) /\ ~Changing(c)
    PROVE  Beside(c)
  <1>1. UNCHANGED <<rule, allow, asked>>
    BY DEF SetVisibility, AddCollaborator, RemoveCollaborator, AttachTeam, AddKey, RemoveKey, CheckOrganization,
       AddMember, RemoveMember, ClearOverride, PutOverride, CreateLock, ReadAllowlist, Return, Cut, tables
  <1>2. ~Changing(c)
    BY DEF SetVisibility, AddCollaborator, RemoveCollaborator, AttachTeam, AddKey, RemoveKey, CheckOrganization,
       AddMember, RemoveMember, ClearOverride, PutOverride, CreateLock, ReadAllowlist, Return, Cut, At, Changing
  <1>3. call[c].at \notin {"idle", "ok"} \/ Leave(c)
    BY DEF SetVisibility, AddCollaborator, RemoveCollaborator, AttachTeam, AddKey, RemoveKey, CheckOrganization,
       AddMember, RemoveMember, ClearOverride, PutOverride, CreateLock, ReadAllowlist, Return, Cut, At
  <1>4. /\ {"act", "clear", "put"} \subseteq Place
        /\ "act" \notin {"update", "insert", "clear", "fill"}
    BY DEF Place
  <1>5. \/ Leave(c) \/ Succeed(c) \/ Goto(c, "act")
        \/ call[c].op = "permit" /\ Goto(c, "clear")
        \/ call[c].op = "permit" /\ Goto(c, "put")
    BY DEF SetVisibility, AddCollaborator, RemoveCollaborator, AttachTeam, AddKey, RemoveKey, CheckOrganization,
       AddMember, RemoveMember, ClearOverride, PutOverride, CreateLock, ReadAllowlist, Return, Cut, At, Answer
  <1>6. \/ Leave(c) \/ Succeed(c)
        \/ \E p \in Place : Goto(c, p) /\ (call[c].op = "set" => p \notin {"update", "insert", "clear", "fill"})
    BY <1>4, <1>5
  <1> QED
    BY <1>1, <1>2, <1>3, <1>6, EndsBeside

\* A call that reads, and keeps what it has read.
LEMMA ReadingBeside ==
    ASSUME Typed, NEW c \in Calls,
           ReadDirect(c) \/ ReadRules(c) \/ ReadCodeRole(c) \/ FindLock(c)
    PROVE  Beside(c)
  <1>1. call[c] \in Request /\ call \in [Calls -> Request]
    BY DEF Typed
  <1>2. UNCHANGED <<rule, allow, asked>> /\ ~Changing(c) /\ call[c].at \notin {"idle", "ok"}
    BY DEF ReadDirect, ReadRules, ReadCodeRole, FindLock, At, Changing, tables
  <1>3. {"act", "direct"} \subseteq Place
    BY DEF Place
  <1>4. \/ Leave(c) \/ Succeed(c) \/ Goto(c, "act")
        \/ \E r : call' = [call EXCEPT ![c].at = "teams", ![c].direct = r]
        \/ \E s : call' = [call EXCEPT ![c].at = "allow", ![c].seen = s]
        \/ \E r : call' = [call EXCEPT ![c].level = r, ![c].at = "act"]
        \/ \E r : call' = [call EXCEPT ![c].want = r, ![c].at = "direct"]
    BY DEF ReadDirect, ReadRules, ReadCodeRole, FindLock
  <1>5. ~Rewriting(call[c])
    BY <1>2 DEF Changing, Rewriting
  <1>6. ASSUME \A d \in Calls \ {c} : call'[d] = call[d],
               call'[c].op = call[c].op, call'[c].users = call[c].users, call'[c].todo = call[c].todo,
               call'[c].at \in {"teams", "allow", "act", "direct"}
        PROVE  Beside(c)
    <2>1. ~Rewriting(call'[c])
      BY <1>6 DEF Rewriting
    <2>2. Apart(call[c], call'[c])
      BY <1>2, <1>5, <1>6, <2>1, ApartGoes
    <2> QED
      BY <1>2, <1>6, <2>2 DEF Beside
  <1>7. CASE Leave(c) \/ Succeed(c) \/ Goto(c, "act")
    BY <1>2, <1>3, <1>7, EndsBeside
  <1>8. ASSUME NEW r, call' = [call EXCEPT ![c].at = "teams", ![c].direct = r]
        PROVE  Beside(c)
    <2>1. call'[c] = [call[c] EXCEPT !.at = "teams", !.direct = r]
      BY <1>1, <1>8
    <2> QED
      BY <1>1, <1>6, <1>8, <2>1 DEF Request
  <1>9. ASSUME NEW s, call' = [call EXCEPT ![c].at = "allow", ![c].seen = s]
        PROVE  Beside(c)
    <2>1. call'[c] = [call[c] EXCEPT !.at = "allow", !.seen = s]
      BY <1>1, <1>9
    <2> QED
      BY <1>1, <1>6, <1>9, <2>1 DEF Request
  <1>10. ASSUME NEW r, call' = [call EXCEPT ![c].level = r, ![c].at = "act"]
         PROVE  Beside(c)
    <2>1. call'[c] = [call[c] EXCEPT !.level = r, !.at = "act"]
      BY <1>1, <1>10
    <2> QED
      BY <1>1, <1>6, <1>10, <2>1 DEF Request
  <1>11. ASSUME NEW r, call' = [call EXCEPT ![c].want = r, ![c].at = "direct"]
         PROVE  Beside(c)
    <2>1. call'[c] = [call[c] EXCEPT !.want = r, !.at = "direct"]
      BY <1>1, <1>11
    <2> QED
      BY <1>1, <1>6, <1>11, <2>1 DEF Request
  <1> QED
    BY <1>4, <1>7, <1>8, <1>9, <1>10, <1>11

LEMMA DecideBeside ==
    ASSUME Typed, NEW c \in Calls, Decide(c)
    PROVE  Beside(c)
  <1>1. call[c] \in Request /\ call \in [Calls -> Request]
    BY DEF Typed
  <1>2. UNCHANGED <<rule, allow, asked>> /\ ~Changing(c) /\ call[c].at = "teams"
    BY DEF Decide, Changing, tables
  <1>3. /\ {"rules", Then(call[c])} \subseteq Place
        /\ Then(call[c]) \notin {"update", "insert", "clear", "fill"}
    BY DEF Place, Then
  <1>4. \/ Leave(c) \/ Succeed(c) \/ Goto(c, "rules") \/ Goto(c, Then(call[c]))
        \/ \E b : call' = [call EXCEPT ![c].at = "direct", ![c].want = 3, ![c].by = b]
    BY DEF Decide
  <1>5. CASE Leave(c) \/ Succeed(c) \/ Goto(c, "rules") \/ Goto(c, Then(call[c]))
    BY <1>2, <1>3, <1>5, EndsBeside
  <1>6. ASSUME NEW b, call' = [call EXCEPT ![c].at = "direct", ![c].want = 3, ![c].by = b]
        PROVE  Beside(c)
    <2>1. call'[c] = [call[c] EXCEPT !.at = "direct", !.want = 3, !.by = b]
      BY <1>1, <1>6
    <2>2. call'[c].op = call[c].op /\ call'[c].users = call[c].users /\ call'[c].todo = call[c].todo
          /\ call'[c].at = "direct"
      BY <1>1, <2>1 DEF Request
    <2>3. ~Rewriting(call[c]) /\ ~Rewriting(call'[c])
      BY <1>2, <2>2 DEF Rewriting
    <2>4. Apart(call[c], call'[c])
      BY <1>2, <2>2, <2>3, ApartGoes
    <2>5. \A d \in Calls \ {c} : call'[d] = call[d]
      BY <1>1, <1>6
    <2> QED
      BY <1>2, <2>4, <2>5 DEF Beside
  <1> QED
    BY <1>4, <1>5, <1>6

\* A call answered with something of its own.
LEMMA AnsweringBeside ==
    ASSUME Typed, NEW c \in Calls, Unreadable(c) \/ DeleteLock(c)
    PROVE  Beside(c)
  <1>1. call[c] \in Request /\ call \in [Calls -> Request]
    BY DEF Typed
  <1>2. UNCHANGED <<rule, allow, asked>> /\ ~Rewriting(call[c])
    BY DEF Unreadable, DeleteLock, At, Rewriting, tables
  <1>3. \/ call' = [call EXCEPT ![c] = Answered([call[c] EXCEPT !.unread = TRUE])]
        \/ call' = [call EXCEPT ![c] = Answered([call[c] EXCEPT !.took = Taken(call[c].id)])]
        \/ call' = [call EXCEPT ![c] = Idle]
    BY DEF Unreadable, DeleteLock, Leave
  <1>4. /\ [call[c] EXCEPT !.unread = TRUE] \in Request
        /\ [call[c] EXCEPT !.took = Taken(call[c].id)] \in Request
    BY <1>1 DEF Request, Taken, Typed, TablesTyped
  <1>5. \/ call'[c] = Answered([call[c] EXCEPT !.unread = TRUE])
        \/ call'[c] = Answered([call[c] EXCEPT !.took = Taken(call[c].id)])
        \/ call'[c] = Idle
    BY <1>1, <1>3
  <1>6. call'[c].at \in {"ok", "idle"}
    BY <1>4, <1>5, AnsweredType DEF Idle
  <1>7. \A d \in Calls \ {c} : call'[d] = call[d]
    BY <1>1, <1>3
  <1> QED
    BY <1>2, <1>6, <1>7, ApartEnds DEF Beside

LEMMA AskBeside ==
    ASSUME Typed, NEW c \in Calls, Ask(c)
    PROVE  Beside(c)
  <1>1. PICK op \in Ops, a \in Actors, who \in Users, team \in Teams, flag \in BOOLEAN,
             level \in 0..3, users \in SUBSET Users :
           Begin(c, op, a, who, team, flag, level, users)
    BY AskBegins
  <1>2. call[c].at = "idle" /\ UNCHANGED <<rule, allow, asked>>
    BY <1>1 DEF Begin, tables
  <1> DEFINE l == IF a = Key THEN Rank(Key) ELSE level
             m == Minimum(op)
             p == IF op \in OrgOps THEN "org" ELSE "direct"
  <1>3. PICK id \in CASE op = "unset" -> {r.id : r \in rule} [] op = "unlock" -> {k.id : k \in lock}
                      [] OTHER -> {left} :
        call' = [call EXCEPT ![c] = [Idle EXCEPT !.op = op, !.by = a, !.who = who, !.team = team,
                    !.flag = flag, !.level = l, !.users = users,
                    !.id = id, !.want = m, !.shut = private, !.todo = users, !.at = p]]
    BY <1>1 DEF Begin
  <1>4. p \in {"org", "direct"}
    OBVIOUS
  <1> HIDE DEF l, m, p
  <1>5. call'[c] = [Idle EXCEPT !.op = op, !.by = a, !.who = who, !.team = team,
                    !.flag = flag, !.level = l, !.users = users,
                    !.id = id, !.want = m, !.shut = private, !.todo = users, !.at = p]
    BY <1>3 DEF Typed
  <1>6. call'[c].todo = users /\ call'[c].users = users /\ call'[c].at \in {"org", "direct"}
    BY <1>4, <1>5 DEF Idle
  <1>7. Apart(call[c], call'[c])
    BY <1>2, <1>6 DEF Apart, Rewriting, Fresh
  <1>8. \A d \in Calls \ {c} : call'[d] = call[d]
    BY <1>3 DEF Typed
  <1> QED
    BY <1>2, <1>7, <1>8 DEF Beside

\* A change at work goes on: nobody else's can have counted as alone.
LEMMA ChangeGoes ==
    ASSUME RuleInv, NEW c \in Calls, Changing(c), Rewriting(call'[c]),
           \A d \in Calls \ {c} : call'[d] = call[d],
           call'[c].alone = call[c].alone, Fresh(call'[c]),
           call[c].alone /\ Stage(call[c]) => Stage(call[c])'
    PROVE  RuleInv'
  <1>1. \A d \in Calls : Fresh(call'[d])
    BY DEF RuleInv
  <1>2. \A d \in Calls : Changing(d)' <=> Changing(d)
    BY DEF Changing, Rewriting
  <1>3. \A d \in Calls : Others(d)' = Others(d)
    BY <1>2 DEF Others
  <1>4. \A d \in Calls \ {c} : c \in Others(d)
    BY DEF Others
  <1>5. ASSUME NEW d \in Calls
        PROVE  Alone(d)'
    <2>1. CASE d = c
      BY <1>2, <1>3, <2>1 DEF RuleInv, Alone
    <2>2. CASE d # c
      <3>1. ~(Changing(d) /\ call[d].alone)
        BY <1>4, <2>2 DEF RuleInv, Alone
      <3> QED
        BY <1>2, <2>2, <3>1 DEF Alone
    <2> QED
      BY <2>1, <2>2
  <1>6. RuleAsAsked'
    BY <1>2 DEF RuleAsAsked
  <1> QED
    BY <1>1, <1>5, <1>6 DEF RuleInv

\* A change ends: what is left to show is what the rows then are.
LEMMA ChangeEnds ==
    ASSUME RuleInv, Typed, NEW c \in Calls, Changing(c), Leave(c) \/ Succeed(c), RuleAsAsked'
    PROVE  RuleInv'
  <1>1. call[c] \in Request /\ call \in [Calls -> Request]
    BY DEF Typed
  <1>2. \A d \in Calls \ {c} : call'[d] = call[d]
    BY <1>1 DEF Leave, Succeed
  <1>3. call'[c] \in {Idle, Answered(call[c])}
    BY <1>1 DEF Leave, Succeed
  <1>4. call'[c].at \in {"idle", "ok"}
    BY <1>1, <1>3, AnsweredType DEF Idle
  <1>5. \A d \in Calls : Fresh(call'[d])
    BY <1>2, <1>4 DEF RuleInv, Fresh
  <1>6. \A d \in Calls \ {c} : c \in Others(d)
    BY DEF Others
  <1>7. ASSUME NEW d \in Calls
        PROVE  Alone(d)'
    <2>1. CASE d = c
      BY <1>4, <2>1 DEF Alone, Changing
    <2>2. CASE d # c
      <3>1. ~(Changing(d) /\ call[d].alone)
        BY <1>6, <2>2 DEF RuleInv, Alone
      <3>2. call'[d] = call[d]
        BY <1>2, <2>2
      <3> QED
        BY <3>1, <3>2 DEF Alone, Changing
    <2> QED
      BY <2>1, <2>2
  <1> QED
    BY <1>5, <1>7 DEF RuleInv

\* A change that is lost leaves nothing to answer for.
LEMMA LostKeeps ==
    ASSUME RuleInv, Typed, NEW c \in Calls, Changing(c), Leave(c) \/ Succeed(c), asked' = Lost
    PROVE  RuleInv'
  <1>1. RuleAsAsked'
    BY DEF RuleAsAsked, Lost
  <1> QED
    BY <1>1, ChangeEnds

\* The rows as one looks at them: each rule with its list.
Row(r, list) == [linear |-> r.linear, users |-> {u \in Users : <<r.id, u>> \in list}]
View(rows, list) == {Row(r, list) : r \in rows}

\* A change that has run by itself to its end has left what it was asked.
LEMMA DoneKeeps ==
    ASSUME RuleInv, Typed, NEW c \in Calls, Changing(c), Succeed(c), asked' = Done(c),
           rule' = rule, call[c].at \in {"clear", "fill"},
           call[c].alone /\ Stage(call[c]) => allow' = {call[c].id} \X call[c].users
    PROVE  RuleInv'
  <1>1. CASE ~call[c].alone
    BY <1>1, LostKeeps DEF Done
  <1>2. CASE call[c].alone
    <2>1. Stage(call[c])
      BY <1>2 DEF RuleInv, Alone
    <2>2. rule' = {[id |-> call[c].id, linear |-> call[c].flag]} /\ allow' = {call[c].id} \X call[c].users
      BY <1>2, <2>1 DEF Stage
    <2>3. asked'.rows = {[linear |-> call[c].flag, users |-> call[c].users]}
      BY <1>2 DEF Done
    <2>4. call[c].users \in SUBSET Users
      BY DEF Typed, Request
    <2>5. PICK i, f, s : i = call[c].id /\ f = call[c].flag /\ s = call[c].users
      OBVIOUS
    <2>6. rule' = {[id |-> i, linear |-> f]} /\ allow' = {i} \X s /\ s \in SUBSET Users
      BY <2>2, <2>4, <2>5
    <2> DEFINE r == [id |-> i, linear |-> f]
    <2>7. Row(r, allow') = [linear |-> f, users |-> s]
      <3>1. {u \in Users : <<i, u>> \in allow'} = s
        BY <2>6
      <3>2. r.id = i /\ r.linear = f
        OBVIOUS
      <3> HIDE DEF r
      <3> QED
        BY <3>1, <3>2 DEF Row
    <2>8. View(rule', allow') = asked'.rows
      <3>1. rule' = {r}
        BY <2>6
      <3> HIDE DEF r
      <3>2. View(rule', allow') = {Row(r, allow')}
        BY <3>1 DEF View
      <3> QED
        BY <2>3, <2>5, <2>7, <3>2
    <2>9. RuleAsAsked'
      BY <2>8 DEF RuleAsAsked, View, Row
    <2> QED
      BY <2>9, ChangeEnds
  <1> QED
    BY <1>1, <1>2

LEMMA SelectKeeps ==
    ASSUME RuleInv, Typed, NEW c \in Calls, SelectRule(c)
    PROVE  RuleInv'
  <1> DEFINE id == IF rule = {} THEN call[c].id ELSE (CHOOSE r \in rule : TRUE).id
             p == IF rule = {} THEN "insert" ELSE "update"
             alone == Others(c) = {}
  <1>1. call' = [d \in Calls |-> IF d = c THEN [call[c] EXCEPT !.alone = alone, !.seen = rule, !.id = id, !.at = p]
                                   ELSE [call[d] EXCEPT !.alone = call[d].alone /\ ~Changing(d)]]
    BY DEF SelectRule
  <1>2. rule' = rule /\ allow' = allow /\ call[c].op = "set" /\ call[c].at = "found"
    BY DEF SelectRule, At, tables
  <1>3. \A d \in Calls : call[d] \in Request
    BY DEF Typed
  <1>4. /\ p = "insert" => rule = {}
        /\ p = "update" => \E r \in rule : r.id = id
        /\ p \in {"insert", "update"}
    OBVIOUS
  <1> HIDE DEF id, p
  <1>5. call'[c] = [call[c] EXCEPT !.alone = alone, !.seen = rule, !.id = id, !.at = p]
    BY <1>1
  <1>6. /\ call'[c].op = "set" /\ call'[c].alone = alone /\ call'[c].id = id /\ call'[c].at = p
        /\ call'[c].users = call[c].users /\ call'[c].todo = call[c].todo
    BY <1>2, <1>3, <1>5 DEF Request
  <1>7. ASSUME NEW d \in Calls \ {c}
        PROVE  /\ call'[d].op = call[d].op /\ call'[d].at = call[d].at /\ call'[d].users = call[d].users
               /\ call'[d].todo = call[d].todo /\ (call'[d].alone <=> call[d].alone /\ ~Changing(d))
    <2>1. call'[d] = [call[d] EXCEPT !.alone = call[d].alone /\ ~Changing(d)]
      BY <1>1
    <2> QED
      BY <1>3, <2>1 DEF Request
  <1>8. \A d \in Calls \ {c} : Changing(d)' <=> Changing(d)
    BY <1>7 DEF Changing
  <1>9. Others(c)' = Others(c)
    BY <1>8 DEF Others
  <1>10. ASSUME NEW d \in Calls
         PROVE  Fresh(call'[d])
    <2>1. CASE d = c
      BY <1>2, <1>6, <2>1 DEF RuleInv, Fresh
    <2>2. CASE d # c
      BY <1>7, <2>2 DEF RuleInv, Fresh
    <2> QED
      BY <2>1, <2>2
  <1>11. ASSUME NEW d \in Calls
         PROVE  Alone(d)'
    <2>1. CASE d = c
      <3>1. Stage(call[c])'
        BY <1>2, <1>4, <1>6 DEF Stage
      <3> QED
        BY <1>6, <1>9, <2>1, <3>1 DEF Alone
    <2>2. CASE d # c
      BY <1>7, <1>8, <2>2 DEF Alone
    <2> QED
      BY <2>1, <2>2
  <1>12. Changing(c)'
    BY <1>4, <1>6 DEF Changing
  <1>13. RuleAsAsked'
    BY <1>12 DEF RuleAsAsked
  <1> QED
    BY <1>10, <1>11, <1>13 DEF RuleInv

LEMMA UpdateKeeps ==
    ASSUME RuleInv, Typed, NEW c \in Calls, UpdateRule(c)
    PROVE  RuleInv'
  <1>1. call[c] \in Request /\ call \in [Calls -> Request] /\ rule \subseteq Rule /\ \A r, q \in rule : r = q
    BY DEF Typed, TablesTyped
  <1>2. /\ call[c].op = "set" /\ call[c].at = "update" /\ Goto(c, "clear")
        /\ rule' = {IF r.id = call[c].id THEN [r EXCEPT !.linear = call[c].flag] ELSE r : r \in rule}
    BY DEF UpdateRule, At
  <1>3. call'[c] = [call[c] EXCEPT !.at = "clear"] /\ \A d \in Calls \ {c} : call'[d] = call[d]
    BY <1>1, <1>2 DEF Goto
  <1>4. /\ call'[c].op = "set" /\ call'[c].at = "clear" /\ call'[c].alone = call[c].alone
        /\ call'[c].id = call[c].id /\ call'[c].flag = call[c].flag
        /\ call'[c].users = call[c].users /\ call'[c].todo = call[c].todo
    BY <1>1, <1>2, <1>3 DEF Request
  <1>5. Changing(c) /\ Rewriting(call'[c])
    BY <1>2, <1>4 DEF Changing, Rewriting
  <1>6. Fresh(call'[c])
    BY <1>2, <1>4 DEF RuleInv, Fresh
  <1>7. ASSUME Stage(call[c])
        PROVE  Stage(call[c])'
    <2>1. PICK r \in rule : r.id = call[c].id
      BY <1>2, <1>7 DEF Stage
    <2>2. rule = {r}
      BY <1>1, <2>1
    <2>3. rule' = {[r EXCEPT !.linear = call[c].flag]}
      BY <1>2, <2>1, <2>2
    <2>4. [r EXCEPT !.linear = call[c].flag] = [id |-> call[c].id, linear |-> call[c].flag]
      BY <1>1, <2>1 DEF Rule
    <2>5. rule' = {[id |-> call'[c].id, linear |-> call'[c].flag]}
      BY <1>4, <2>3, <2>4
    <2> QED
      BY <1>4, <2>5 DEF Stage
  <1> QED
    BY <1>3, <1>4, <1>5, <1>6, <1>7, ChangeGoes

LEMMA InsertKeeps ==
    ASSUME RuleInv, Typed, NEW c \in Calls, InsertRule(c)
    PROVE  RuleInv'
  <1>1. call[c] \in Request /\ call \in [Calls -> Request]
    BY DEF Typed
  <1>2. call[c].op = "set" /\ call[c].at = "insert" /\ Changing(c)
    BY DEF InsertRule, At, Changing
  <1>3. CASE rule # {}
    <2>1. Leave(c) /\ asked' = Lost
      BY <1>3 DEF InsertRule
    <2> QED
      BY <1>2, <2>1, LostKeeps
  <1>4. CASE rule = {}
    <2>1. rule' = {[id |-> call[c].id, linear |-> call[c].flag]} /\ Goto(c, "clear")
      BY <1>4 DEF InsertRule
    <2>2. call'[c] = [call[c] EXCEPT !.at = "clear"] /\ \A d \in Calls \ {c} : call'[d] = call[d]
      BY <1>1, <2>1 DEF Goto
    <2>3. /\ call'[c].op = "set" /\ call'[c].at = "clear" /\ call'[c].alone = call[c].alone
          /\ call'[c].id = call[c].id /\ call'[c].flag = call[c].flag
          /\ call'[c].users = call[c].users /\ call'[c].todo = call[c].todo
      BY <1>1, <1>2, <2>2 DEF Request
    <2>4. Rewriting(call'[c])
      BY <2>3 DEF Rewriting
    <2>5. Fresh(call'[c])
      BY <1>2, <2>3 DEF RuleInv, Fresh
    <2>6. Stage(call[c])'
      BY <2>1, <2>3 DEF Stage
    <2> QED
      BY <1>2, <2>2, <2>3, <2>4, <2>5, <2>6, ChangeGoes
  <1> QED
    BY <1>3, <1>4

LEMMA ClearKeeps ==
    ASSUME RuleInv, Typed, NEW c \in Calls, ClearAllowlist(c)
    PROVE  RuleInv'
  <1>1. /\ call[c] \in Request /\ call \in [Calls -> Request]
        /\ allow \subseteq {r.id : r \in rule} \X Users
    BY DEF Typed, TablesTyped
  <1>2. /\ call[c].op = "set" /\ call[c].at = "clear" /\ Changing(c)
        /\ allow' = Cleared(call[c].id) /\ rule' = rule
    BY DEF ClearAllowlist, At, Changing
  <1>3. call[c].todo = call[c].users
    BY <1>2 DEF RuleInv, Fresh
  <1>4. ASSUME Stage(call[c])
        PROVE  allow' = {}
    <2>1. rule = {[id |-> call[c].id, linear |-> call[c].flag]}
      BY <1>2, <1>4 DEF Stage
    <2>2. {r.id : r \in rule} = {call[c].id}
      BY <2>1
    <2>3. \A p \in allow : p[1] = call[c].id
      BY <1>1, <2>2
    <2> QED
      BY <1>2, <2>3 DEF Cleared
  <1>5. CASE call[c].todo = {}
    <2>1. Succeed(c) /\ asked' = Done(c)
      BY <1>5 DEF ClearAllowlist
    <2>2. Stage(call[c]) => allow' = {call[c].id} \X call[c].users
      BY <1>3, <1>4, <1>5
    <2> QED
      BY <1>2, <2>1, <2>2, DoneKeeps
  <1>6. CASE call[c].todo # {}
    <2>1. Goto(c, "fill")
      BY <1>6 DEF ClearAllowlist
    <2>2. call'[c] = [call[c] EXCEPT !.at = "fill"] /\ \A d \in Calls \ {c} : call'[d] = call[d]
      BY <1>1, <2>1 DEF Goto
    <2>3. /\ call'[c].op = "set" /\ call'[c].at = "fill" /\ call'[c].alone = call[c].alone
          /\ call'[c].id = call[c].id /\ call'[c].flag = call[c].flag
          /\ call'[c].users = call[c].users /\ call'[c].todo = call[c].todo
      BY <1>1, <1>2, <2>2 DEF Request
    <2>4. Rewriting(call'[c])
      BY <2>3 DEF Rewriting
    <2>5. Fresh(call'[c])
      BY <1>3, <2>3 DEF Fresh
    <2>6. ASSUME Stage(call[c])
          PROVE  Stage(call[c])'
      <3>1. rule' = {[id |-> call'[c].id, linear |-> call'[c].flag]}
        BY <1>2, <2>3, <2>6 DEF Stage
      <3>2. call'[c].users \ call'[c].todo = {}
        BY <1>3, <2>3
      <3>3. allow' = {call'[c].id} \X (call'[c].users \ call'[c].todo)
        BY <1>4, <2>6, <3>2
      <3> QED
        BY <2>3, <3>1, <3>3 DEF Stage
    <2> QED
      BY <1>2, <2>2, <2>3, <2>4, <2>5, <2>6, ChangeGoes
  <1> QED
    BY <1>5, <1>6

LEMMA FillKeeps ==
    ASSUME RuleInv, Typed, NEW c \in Calls, FillAllowlist(c)
    PROVE  RuleInv'
  <1>1. call[c] \in Request /\ call \in [Calls -> Request]
    BY DEF Typed
  <1>2. call[c].op = "set" /\ call[c].at = "fill" /\ Changing(c) /\ rule' = rule
    BY DEF FillAllowlist, At, Changing
  <1>3. PICK u \in call[c].todo :
        IF \E r \in rule : r.id = call[c].id
          THEN /\ allow' = allow \union {<<call[c].id, u>>}
               /\ IF call[c].todo = {u} THEN Succeed(c) ELSE call' = [call EXCEPT ![c].todo = @ \ {u}]
               /\ asked' = IF call[c].todo = {u} THEN Done(c) ELSE asked
          ELSE UNCHANGED allow /\ Leave(c) /\ asked' = Lost
    BY DEF FillAllowlist
  <1>4. call[c].todo \subseteq call[c].users /\ u \in call[c].users
    BY <1>2 DEF RuleInv, Fresh
  <1>5. CASE ~(\E r \in rule : r.id = call[c].id)
    BY <1>2, <1>3, <1>5, LostKeeps
  <1>6. ASSUME \E r \in rule : r.id = call[c].id, call[c].todo = {u}
        PROVE  RuleInv'
    <2>1. Succeed(c) /\ asked' = Done(c) /\ allow' = allow \union {<<call[c].id, u>>}
      BY <1>3, <1>6
    <2>2. ASSUME Stage(call[c])
          PROVE  allow' = {call[c].id} \X call[c].users
      <3>1. allow = {call[c].id} \X (call[c].users \ {u})
        BY <1>2, <1>6, <2>2 DEF Stage
      <3> QED
        BY <1>6, <1>4, <2>1, <3>1
    <2> QED
      BY <1>2, <2>1, <2>2, DoneKeeps
  <1>7. ASSUME \E r \in rule : r.id = call[c].id, call[c].todo # {u}
        PROVE  RuleInv'
    <2> DEFINE s == call[c].todo \ {u}
    <2>1. allow' = allow \union {<<call[c].id, u>>} /\ call' = [call EXCEPT ![c].todo = s]
      BY <1>3, <1>7
    <2>2. call'[c] = [call[c] EXCEPT !.todo = s] /\ \A d \in Calls \ {c} : call'[d] = call[d]
      BY <1>1, <2>1
    <2>3. /\ call'[c].op = "set" /\ call'[c].at = "fill" /\ call'[c].alone = call[c].alone
          /\ call'[c].id = call[c].id /\ call'[c].flag = call[c].flag
          /\ call'[c].users = call[c].users /\ call'[c].todo = s
      BY <1>1, <1>2, <2>2 DEF Request
    <2>4. Rewriting(call'[c])
      BY <2>3 DEF Rewriting
    <2>5. Fresh(call'[c])
      BY <1>4, <2>3 DEF Fresh
    <2>6. ASSUME Stage(call[c])
          PROVE  Stage(call[c])'
      <3>1. rule' = {[id |-> call'[c].id, linear |-> call'[c].flag]}
        BY <1>2, <2>3, <2>6 DEF Stage
      <3>2. allow = {call[c].id} \X (call[c].users \ call[c].todo)
        BY <1>2, <2>6 DEF Stage
      <3>3. call'[c].users \ call'[c].todo = (call[c].users \ call[c].todo) \union {u}
        BY <1>4, <2>3
      <3>4. allow' = {call'[c].id} \X (call'[c].users \ call'[c].todo)
        BY <2>1, <2>3, <3>2, <3>3
      <3> QED
        BY <2>3, <3>1, <3>4 DEF Stage
    <2> QED
      BY <1>2, <2>2, <2>3, <2>4, <2>5, <2>6, ChangeGoes
  <1> QED
    BY <1>3, <1>5, <1>6, <1>7

LEMMA DeleteKeeps ==
    ASSUME RuleInv, Typed, NEW c \in Calls, DeleteRule(c)
    PROVE  RuleInv'
  <1>1. /\ call[c] \in Request /\ (\A d \in Calls : call[d] \in Request)
        /\ (\A r, q \in rule : r = q) /\ allow \subseteq {r.id : r \in rule} \X Users
    BY DEF Typed, TablesTyped
  <1>2. /\ call[c].op = "unset" /\ call[c].at = "act"
        /\ rule' = {r \in rule : r.id # call[c].id} /\ allow' = {p \in allow : p[1] # call[c].id}
        /\ call' = [d \in Calls |-> IF d = c THEN IF rule' = rule THEN Idle ELSE Answered(call[c])
                                    ELSE [call[d] EXCEPT !.alone = call[d].alone /\ ~Changing(d)]]
        /\ asked' = IF Others(c) # {} THEN Lost
                    ELSE IF rule' = rule THEN asked ELSE [known |-> TRUE, rows |-> {}]
    BY DEF DeleteRule, At
  <1>3. call'[c] \in {Idle, Answered(call[c])}
    BY <1>2
  <1>4. call'[c].at \in {"idle", "ok"}
    BY <1>1, <1>3, AnsweredType DEF Idle
  <1>5. ASSUME NEW d \in Calls \ {c}
        PROVE  /\ call'[d].op = call[d].op /\ call'[d].at = call[d].at /\ call'[d].users = call[d].users
               /\ call'[d].todo = call[d].todo /\ (call'[d].alone <=> call[d].alone /\ ~Changing(d))
    <2>1. call'[d] = [call[d] EXCEPT !.alone = call[d].alone /\ ~Changing(d)]
      BY <1>2
    <2> QED
      BY <1>1, <2>1 DEF Request
  <1>6. ASSUME NEW d \in Calls
        PROVE  Fresh(call'[d])
    <2>1. CASE d = c
      BY <1>4, <2>1 DEF Fresh
    <2>2. CASE d # c
      BY <1>5, <2>2 DEF RuleInv, Fresh
    <2> QED
      BY <2>1, <2>2
  <1>7. ASSUME NEW d \in Calls
        PROVE  Alone(d)'
    <2>1. CASE d = c
      BY <1>4, <2>1 DEF Alone, Changing
    <2>2. CASE d # c
      BY <1>5, <2>2 DEF Alone, Changing
    <2> QED
      BY <2>1, <2>2
  <1>8. RuleAsAsked'
    <2>1. CASE Others(c) # {}
      BY <1>2, <2>1 DEF RuleAsAsked, Lost
    <2>2. CASE Others(c) = {} /\ rule' = rule
      <3>1. \A r \in rule : r.id # call[c].id
        BY <1>2, <2>2
      <3>2. \A p \in allow : \E r \in rule : p[1] = r.id
        BY <1>1
      <3>3. allow' = allow /\ asked' = asked
        BY <1>2, <2>2, <3>1, <3>2
      <3>4. ~(\E d \in Calls : Changing(d))
        BY <1>2, <2>2 DEF Others, Changing
      <3> QED
        BY <2>2, <3>3, <3>4 DEF RuleInv, RuleAsAsked
    <2>3. CASE Others(c) = {} /\ rule' # rule
      <3>1. PICK r \in rule : r.id = call[c].id
        BY <1>2, <2>3
      <3>2. rule = {r}
        BY <1>1, <3>1
      <3>3. rule' = {}
        BY <1>2, <3>1, <3>2
      <3>4. asked'.rows = {}
        BY <1>2, <2>3
      <3> QED
        BY <3>3, <3>4 DEF RuleAsAsked
    <2> QED
      BY <2>1, <2>2, <2>3
  <1> QED
    BY <1>6, <1>7, <1>8 DEF RuleInv

LEMMA RuleStep ==
    ASSUME Typed, RuleInv, [Next]_vars
    PROVE  RuleInv'
  <1>1. ASSUME NEW c \in Calls, Ask(c)
        PROVE  RuleInv'
    BY <1>1, AskBeside, BesideKeeps
  <1>2. ASSUME NEW c \in Calls,
               \/ SetVisibility(c) \/ AddCollaborator(c) \/ RemoveCollaborator(c) \/ AttachTeam(c)
               \/ AddKey(c) \/ RemoveKey(c) \/ CheckOrganization(c) \/ AddMember(c) \/ RemoveMember(c)
               \/ ClearOverride(c) \/ PutOverride(c) \/ CreateLock(c) \/ ReadAllowlist(c) \/ Return(c)
               \/ Cut(c) /\ ~Changing(c)
        PROVE  RuleInv'
    <2>1. Beside(c)
      BY <1>2, EndingBeside
    <2> QED
      BY <2>1, BesideKeeps
  <1>3. ASSUME NEW c \in Calls, ReadDirect(c) \/ ReadRules(c) \/ ReadCodeRole(c) \/ FindLock(c)
        PROVE  RuleInv'
    BY <1>3, ReadingBeside, BesideKeeps
  <1>4. ASSUME NEW c \in Calls, Decide(c)
        PROVE  RuleInv'
    BY <1>4, DecideBeside, BesideKeeps
  <1>5. ASSUME NEW c \in Calls, Unreadable(c) \/ DeleteLock(c)
        PROVE  RuleInv'
    BY <1>5, AnsweringBeside, BesideKeeps
  <1>6. ASSUME NEW c \in Calls, SelectRule(c)
        PROVE  RuleInv'
    BY <1>6, SelectKeeps
  <1>7. ASSUME NEW c \in Calls, UpdateRule(c) \/ InsertRule(c) \/ ClearAllowlist(c) \/ FillAllowlist(c)
        PROVE  RuleInv'
    BY <1>7, UpdateKeeps, InsertKeeps, ClearKeeps, FillKeeps
  <1>8. ASSUME NEW c \in Calls, DeleteRule(c)
        PROVE  RuleInv'
    BY <1>8, DeleteKeeps
  <1>9. ASSUME NEW c \in Calls, Cut(c), Changing(c)
        PROVE  RuleInv'
    <2>1. Leave(c) /\ asked' = Lost
      BY <1>9 DEF Cut
    <2> QED
      BY <1>9, <2>1, LostKeeps
  <1>10. CASE AdminFlipsVisibility \/ RevokeToken \/ UNCHANGED vars
    <2>1. UNCHANGED <<rule, allow, asked, call>>
      BY <1>10 DEF AdminFlipsVisibility, RevokeToken, vars, tables
    <2>2. \A d \in Calls : (Changing(d)' <=> Changing(d)) /\ Others(d)' = Others(d)
      BY <2>1 DEF Changing, Others
    <2>3. \A d \in Calls : Stage(call[d])' <=> Stage(call[d])
      BY <2>1 DEF Stage
    <2>4. \A d \in Calls : Alone(d) => Alone(d)'
      BY <2>1, <2>2, <2>3 DEF Alone
    <2>5. RuleAsAsked => RuleAsAsked'
      BY <2>1, <2>2 DEF RuleAsAsked
    <2> QED
      BY <2>1, <2>4, <2>5 DEF RuleInv
  <1>11. ASSUME Step
         PROVE  RuleInv'
    BY <1>1, <1>2, <1>3, <1>4, <1>5, <1>6, <1>7, <1>8, <1>9, <1>10, <1>11 DEF Step
  <1> QED
    BY <1>10, <1>11 DEF Next

LEMMA StartRule == Init => RuleInv
  <1> SUFFICES ASSUME Init PROVE RuleInv
    OBVIOUS
  <1>1. \A c \in Calls : call[c] = Idle
    BY DEF Init
  <1>2. \A c \in Calls : Fresh(call[c]) /\ ~Changing(c)
    BY <1>1 DEF Fresh, Changing, Idle
  <1>3. RuleAsAsked
    <2>1. asked.known => rule = {} /\ asked.rows = {}
      <3>1. PICK start \in Starts : rule = start.rule /\ asked = [known |-> start.rule = {}, rows |-> {}]
        BY DEF Init
      <3>2. asked.rows = {} /\ (asked.known <=> start.rule = {})
        BY <3>1
      <3> QED
        BY <3>1, <3>2
    <2> QED
      BY <2>1 DEF RuleAsAsked
  <1> QED
    BY <1>2, <1>3 DEF RuleInv, Alone

(***************************************************************************)
(* Whoever else changes the rule of the branch, and wherever calls are cut *)
(* between the statements of upsert_by_pattern and replace_allowlist: once *)
(* a change has run by itself from start to end, and no other is at work,  *)
(* the row and its allowlist are what that change asked for.               *)
(***************************************************************************)
THEOREM RuleSettles == Spec => []RuleAsAsked
  <1>1. Init => Typed /\ RuleInv
    BY StartSound, StartRule
  <1>2. Typed /\ RuleInv /\ [Next]_vars => (Typed /\ RuleInv)'
    BY TypedStep, RuleStep
  <1>3. RuleInv => RuleAsAsked
    BY DEF RuleInv
  <1> QED
    BY <1>1, <1>2, <1>3, PTL DEF Spec

-----------------------------------------------------------------------------
(* Types, with what the tables hold at most one of.                        *)

\* What TypeOK says over Typed and LocksKnown.
Single ==
    /\ \E o \in Users \union Teams : {s \in Users \union Teams : grant[s] = 4} = {o}
    /\ \A p, q \in override : p = q
    /\ pat \in 0..2 /\ faults \in 0..MaxFaults
    /\ had \in [Calls -> SUBSET Entitlement]
    /\ asked \in [known : BOOLEAN, rows : SUBSET Setting]

\* Nobody is made an owner, and the owner's row is spared.
LEMMA OwnerStays ==
    ASSUME Typed, Next
    PROVE  {s \in Users \union Teams : grant'[s] = 4} = {s \in Users \union Teams : grant[s] = 4}
  <1>0. grant \in [Users \union Teams -> 0..4] /\ \A c \in Calls : call[c] \in Request
    BY DEF Typed, TablesTyped
  <1>1. ASSUME NEW s, NEW r \in 0..3, grant' = Inserted(s, r)
        PROVE  {t \in Users \union Teams : grant'[t] = 4} = {t \in Users \union Teams : grant[t] = 4}
    BY <1>0, <1>1 DEF Inserted
  <1>2. CASE \E c \in Calls : AddCollaborator(c) \/ AttachTeam(c)
    <2>1. PICK c \in Calls : AddCollaborator(c) \/ AttachTeam(c)
      BY <1>2
    <2>2. call[c].level \in 0..3
      BY <1>0 DEF Request
    <2> QED
      BY <1>1, <2>1, <2>2 DEF AddCollaborator, AttachTeam
  <1>3. CASE \E c \in Calls : RemoveCollaborator(c)
    <2>1. PICK c \in Calls : RemoveCollaborator(c)
      BY <1>3
    <2>2. CASE Removable(call[c].who)
      <3>1. grant' = [grant EXCEPT ![call[c].who] = 0] /\ grant[call[c].who] # 4
        BY <2>1, <2>2 DEF RemoveCollaborator, Removable
      <3> QED
        BY <1>0, <3>1
    <2>3. CASE ~Removable(call[c].who)
      BY <2>1, <2>3 DEF RemoveCollaborator
    <2> QED
      BY <2>2, <2>3
  <1>4. CASE grant' = grant
    BY <1>4
  <1>5. \/ \E c \in Calls : AddCollaborator(c) \/ AttachTeam(c) \/ RemoveCollaborator(c)
        \/ grant' = grant
    <2>1. ASSUME NEW c \in Calls, Ask(c)
          PROVE  grant' = grant
      BY <2>1, AskType DEF tables
    <2>2. ASSUME NEW c \in Calls,
                 \/ ReadDirect(c) \/ Decide(c) \/ ReadRules(c) \/ ReadAllowlist(c) \/ Unreadable(c)
                 \/ ReadCodeRole(c) \/ CheckOrganization(c) \/ SelectRule(c) \/ FindLock(c)
                 \/ Return(c) \/ Cut(c)
          PROVE  grant' = grant
      BY <2>2 DEF ReadDirect, Decide, ReadRules, ReadAllowlist, Unreadable, ReadCodeRole, CheckOrganization,
         SelectRule, FindLock, Return, Cut, tables
    <2>3. ASSUME NEW c \in Calls,
                 \/ SetVisibility(c) \/ AddKey(c) \/ RemoveKey(c) \/ AddMember(c) \/ RemoveMember(c)
                 \/ ClearOverride(c) \/ PutOverride(c) \/ UpdateRule(c) \/ InsertRule(c)
                 \/ ClearAllowlist(c) \/ FillAllowlist(c) \/ DeleteRule(c) \/ CreateLock(c) \/ DeleteLock(c)
          PROVE  grant' = grant
      BY <2>3 DEF SetVisibility, AddKey, RemoveKey, AddMember, RemoveMember, ClearOverride, PutOverride,
         UpdateRule, InsertRule, ClearAllowlist, FillAllowlist, DeleteRule, CreateLock, DeleteLock, RuleOnly
    <2>4. AdminFlipsVisibility \/ RevokeToken => grant' = grant
      BY DEF AdminFlipsVisibility, RevokeToken
    <2> QED
      BY <2>1, <2>2, <2>3, <2>4 DEF Next, Step
  <1> QED
    BY <1>2, <1>3, <1>4, <1>5

LEMMA OverrideStays ==
    ASSUME \A p, q \in override : p = q, Typed, Next
    PROVE  /\ \A p, q \in override' : p = q
           /\ pat' \in {pat, 0}
           /\ faults' = faults \/ (faults > 0 /\ faults' = faults - 1)
  <1>1. ASSUME NEW c \in Calls, Ask(c)
        PROVE  UNCHANGED <<override, pat, faults>>
    BY <1>1, AskType DEF tables
  <1>2. ASSUME NEW c \in Calls,
               \/ ReadDirect(c) \/ Decide(c) \/ ReadRules(c) \/ ReadAllowlist(c)
               \/ ReadCodeRole(c) \/ CheckOrganization(c) \/ SelectRule(c) \/ FindLock(c)
               \/ Return(c)
        PROVE  UNCHANGED <<override, pat, faults>>
    BY <1>2 DEF ReadDirect, Decide, ReadRules, ReadAllowlist, ReadCodeRole, CheckOrganization,
       SelectRule, FindLock, Return, tables
  <1>3. ASSUME NEW c \in Calls,
               \/ SetVisibility(c) \/ AddKey(c) \/ RemoveKey(c) \/ AddMember(c) \/ RemoveMember(c)
               \/ AddCollaborator(c) \/ AttachTeam(c) \/ RemoveCollaborator(c)
               \/ UpdateRule(c) \/ InsertRule(c)
               \/ ClearAllowlist(c) \/ FillAllowlist(c) \/ DeleteRule(c) \/ CreateLock(c) \/ DeleteLock(c)
        PROVE  UNCHANGED <<override, pat, faults>>
    BY <1>3 DEF SetVisibility, AddKey, RemoveKey, AddMember, RemoveMember, AddCollaborator, AttachTeam,
       RemoveCollaborator, UpdateRule, InsertRule, ClearAllowlist, FillAllowlist, DeleteRule, CreateLock,
       DeleteLock, RuleOnly
  <1>4. ASSUME NEW c \in Calls, ClearOverride(c) \/ PutOverride(c)
        PROVE  UNCHANGED <<pat, faults>> /\ \A p, q \in override' : p = q
    BY <1>4 DEF ClearOverride, PutOverride
  <1>5. ASSUME NEW c \in Calls, Unreadable(c) \/ Cut(c)
        PROVE  UNCHANGED <<override, pat>> /\ faults' = faults - 1 /\ faults > 0
    BY <1>5 DEF Unreadable, Cut, tables
  <1>6. ASSUME AdminFlipsVisibility \/ RevokeToken
        PROVE  UNCHANGED override /\ pat' \in {pat, 0} /\ faults' = faults - 1 /\ faults > 0
    BY <1>6 DEF AdminFlipsVisibility, RevokeToken
  <1> QED
    BY <1>1, <1>2, <1>3, <1>4, <1>5, <1>6 DEF Next, Step

LEMMA AskedType ==
    ASSUME Typed, asked \in [known : BOOLEAN, rows : SUBSET Setting], Next
    PROVE  asked' \in [known : BOOLEAN, rows : SUBSET Setting]
  <1>0. \A c \in Calls : call[c] \in Request
    BY DEF Typed
  <1>1. Lost \in [known : BOOLEAN, rows : SUBSET Setting]
    BY DEF Lost
  <1>2. ASSUME NEW c \in Calls
        PROVE  Done(c) \in [known : BOOLEAN, rows : SUBSET Setting]
    <2>1. call[c].flag \in BOOLEAN /\ call[c].users \in SUBSET Users
      BY <1>0 DEF Request
    <2>2. [linear |-> call[c].flag, users |-> call[c].users] \in Setting
      BY <2>1 DEF Setting
    <2> QED
      BY <1>1, <2>2 DEF Done
  <1>3. [known |-> TRUE, rows |-> {}] \in [known : BOOLEAN, rows : SUBSET Setting]
    OBVIOUS
  <1>4. ASSUME NEW c \in Calls, Ask(c)
        PROVE  asked' = asked
    BY <1>4, AskType DEF tables
  <1>5. ASSUME NEW c \in Calls,
               \/ SetVisibility(c) \/ AddCollaborator(c) \/ RemoveCollaborator(c) \/ AttachTeam(c)
               \/ AddKey(c) \/ RemoveKey(c) \/ AddMember(c) \/ RemoveMember(c) \/ ClearOverride(c)
               \/ PutOverride(c) \/ CreateLock(c) \/ DeleteLock(c) \/ CheckOrganization(c)
               \/ ReadDirect(c) \/ Decide(c) \/ ReadRules(c) \/ ReadAllowlist(c) \/ Unreadable(c)
               \/ ReadCodeRole(c) \/ FindLock(c) \/ Return(c) \/ SelectRule(c) \/ UpdateRule(c)
        PROVE  asked' = asked
    BY <1>5 DEF SetVisibility, AddCollaborator, RemoveCollaborator, AttachTeam, AddKey, RemoveKey, AddMember,
       RemoveMember, ClearOverride, PutOverride, CreateLock, DeleteLock, CheckOrganization, ReadDirect, Decide,
       ReadRules, ReadAllowlist, Unreadable, ReadCodeRole, FindLock, Return, SelectRule, UpdateRule
  <1>6. ASSUME NEW c \in Calls,
               InsertRule(c) \/ ClearAllowlist(c) \/ FillAllowlist(c) \/ DeleteRule(c) \/ Cut(c)
        PROVE  asked' \in {asked, Lost, Done(c), [known |-> TRUE, rows |-> {}]}
    BY <1>6 DEF InsertRule, ClearAllowlist, FillAllowlist, DeleteRule, Cut
  <1>7. AdminFlipsVisibility \/ RevokeToken => asked' = asked
    BY DEF AdminFlipsVisibility, RevokeToken
  <1> QED
    BY <1>1, <1>2, <1>3, <1>4, <1>5, <1>6, <1>7 DEF Next, Step

LEMMA SingleStep ==
    ASSUME Typed, Single, [Next]_vars
    PROVE  Single'
  <1>1. CASE UNCHANGED vars
    BY <1>1 DEF Single, vars, tables
  <1>2. CASE Next
    <2>1. \E o \in Users \union Teams : {s \in Users \union Teams : grant'[s] = 4} = {o}
      BY <1>2, OwnerStays DEF Single
    <2>2. \A p, q \in override' : p = q
      BY <1>2, OverrideStays DEF Single
    <2>3. pat' \in 0..2 /\ faults' \in 0..MaxFaults
      BY <1>2, OverrideStays, AccessAssumption DEF Single
    <2>4. had' \in [Calls -> SUBSET Entitlement]
      <3>1. \A a : Entitled(a) \subseteq Entitlement
        BY DEF Entitled
      <3>2. ASSUME NEW c \in Calls
            PROVE  (IF call'[c].at = "idle" THEN {}
                    ELSE had[c] \union Entitled(IF call[c].at = "idle" THEN call'[c].by ELSE call[c].by))
                     \in SUBSET Entitlement
        BY <3>1 DEF Single
      <3> QED
        BY <1>2, <3>2 DEF Next
    <2>5. asked' \in [known : BOOLEAN, rows : SUBSET Setting]
      BY <1>2, AskedType DEF Single
    <2> QED
      BY <2>1, <2>2, <2>3, <2>4, <2>5 DEF Single
  <1> QED
    BY <1>1, <1>2

LEMMA StartSingle == Init => Single
  <1> SUFFICES ASSUME Init PROVE Single
    OBVIOUS
  <1>1. PICK start \in Starts :
        /\ grant = [s \in Users \union Teams |->
               IF s = start.owner THEN 4 ELSE IF s = Dev THEN start.dev ELSE 0]
        /\ asked = [known |-> start.rule = {}, rows |-> {}]
    BY DEF Init
  <1>2. start.owner \in Users \union Teams /\ start.dev \in 0..3
    BY AccessAssumption DEF Teams
  <1>3. {s \in Users \union Teams : grant[s] = 4} = {start.owner}
    BY <1>1, <1>2
  <1>4. override = {} /\ pat \in 0..2 /\ faults \in 0..MaxFaults /\ had \in [Calls -> SUBSET Entitlement]
    BY AccessAssumption DEF Init
  <1>5. asked \in [known : BOOLEAN, rows : SUBSET Setting]
    <2>1. (start.rule = {}) \in BOOLEAN
      OBVIOUS
    <2> QED
      BY <1>1, <2>1
  <1> QED
    BY <1>2, <1>3, <1>4, <1>5 DEF Single

\* A set without two different elements.
LEMMA AtMostOne ==
    ASSUME NEW S, \A p, q \in S : p = q
    PROVE  Cardinality(S) =< 1
  <1>1. CASE S = {}
    BY <1>1, FS_EmptySet
  <1>2. CASE S # {}
    <2>1. PICK p : S = {p}
      BY <1>2
    <2>2. Cardinality({p}) = 1
      BY FS_Singleton
    <2> QED
      BY <2>1, <2>2
  <1> QED
    BY <1>1, <1>2

LEMMA TypesHold ==
    ASSUME Typed, LocksKnown, Single
    PROVE  TypeOK
  <1>1. OneOwner
    <2>1. PICK o \in Users \union Teams : {s \in Users \union Teams : grant[s] = 4} = {o}
      BY DEF Single
    <2>2. Cardinality({o}) = 1
      BY FS_Singleton
    <2> QED
      BY <2>1, <2>2 DEF OneOwner
  <1>2. Cardinality(override) =< 1 /\ Cardinality(rule) =< 1 /\ Cardinality(lock) =< 1
    <2>1. \A p, q \in override : p = q
      BY DEF Single
    <2>2. \A p, q \in rule : p = q
      BY DEF Typed, TablesTyped
    <2>3. \A p, q \in lock : p = q
      BY DEF LocksKnown
    <2> QED
      BY <2>1, <2>2, <2>3, AtMostOne
  <1>3. lock \subseteq Lock
    BY DEF Typed, TablesTyped, LocksKnown, LockRow, Lock
  <1>4. DOMAIN call = Calls
    BY DEF Typed
  <1>5. ASSUME NEW c \in Calls
        PROVE  /\ DOMAIN call[c] = DOMAIN Idle
               /\ call[c].op \in Ops /\ call[c].by \in Actors /\ call[c].at \in Place
    <2>1. call[c] \in Request
      BY DEF Typed
    <2>2. \A x, y \in Request : DOMAIN x = DOMAIN y
      BY DEF Request
    <2>3. DOMAIN call[c] = DOMAIN Idle
      BY <2>1, <2>2, IdleType
    <2> QED
      BY <2>1, <2>3 DEF Request
  <1>6. /\ private \in BOOLEAN
        /\ grant \in [Users \union Teams -> 0..4]
        /\ members \in [Teams -> SUBSET Users]
        /\ override \subseteq 0..3 /\ default \in 0..3
        /\ rule \subseteq Rule
        /\ allow \subseteq {r.id : r \in rule} \X Users
        /\ key \in {"none", "ro", "rw"}
        /\ left \in 0..MaxCalls
    BY DEF Typed, TablesTyped
  <1>7. /\ pat \in 0..2 /\ faults \in 0..MaxFaults /\ had \in [Calls -> SUBSET Entitlement]
        /\ asked \in [known : BOOLEAN, rows : SUBSET Setting]
    BY DEF Single
  <1> QED
    BY <1>1, <1>2, <1>3, <1>4, <1>5, <1>6, <1>7 DEF TypeOK

(***************************************************************************)
(* The rows are what the schema says they are, exactly one owner of the    *)
(* repository and at most one rule, one override and one lock included: no *)
(* grant, removal or change of the rule, cut or not, makes a second or     *)
(* takes the owner away (RepoAccessRepo, upsert_by_pattern, lfs/mod.rs).   *)
(***************************************************************************)
THEOREM RowsHold == Spec => []TypeOK
  <1>1. Init => Typed /\ AllSound /\ LocksKnown /\ Single
    BY StartSound, StartSingle
  <1>2. Typed /\ AllSound /\ LocksKnown /\ Single /\ [Next]_vars
          => (Typed /\ AllSound /\ LocksKnown /\ Single)'
    BY TypedStep, SoundStep, LocksStep, SingleStep
  <1>3. Typed /\ LocksKnown /\ Single => TypeOK
    BY TypesHold
  <1> QED
    BY <1>1, <1>2, <1>3, PTL DEF Spec

=============================================================================
