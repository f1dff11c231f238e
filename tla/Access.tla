------------------------------- MODULE Access -------------------------------
(***************************************************************************)
(* Who may do what to one repository, and the calls that change it: roles  *)
(* held directly or through a team (access.rs, authz.rs), collaborators,   *)
(* teams, deploy keys, personal tokens, the protection rule of a branch    *)
(* (the services and their repositories), and the LFS locks (lfs/mod.rs).  *)
(*                                                                         *)
(* A decision reads several rows one after the other, and the call that it *)
(* lets through writes later still: each statement is a step of its own,   *)
(* and nothing holds a transaction over two of them.                       *)
(***************************************************************************)
EXTENDS Integers, FiniteSets

CONSTANTS Calls,      \* requests under way at once (a bound)
          Users,
          Creator,    \* who created the repository and the organization
          Pat,        \* a personal access token of PatUser
          PatUser,
          Key,        \* a deploy key
          Anonymous,
          Owners, Dev,  \* the organization's two teams
          Starts,     \* settings to start from: records [private, owner, dev, default, members, rule, allow] (a bound)
          Levels,     \* permissions ever asked for (a bound)
          MaxCalls,   \* bound: requests made in all
          MaxFaults   \* bound: calls cut, reads that fail, the administrator's and the token owner's acts

ASSUME AccessAssumption ==
    /\ Creator \in Users /\ PatUser \in Users /\ Owners # Dev
    /\ Pat # Key /\ Key # Anonymous /\ Anonymous # Pat
    /\ {Pat, Key, Anonymous} \intersect Users = {} /\ {Owners, Dev} \intersect Users = {}
    /\ \A s \in Starts : /\ s.private \in BOOLEAN /\ s.owner \in {Creator, Owners}
                         /\ {s.default, s.dev} \subseteq 0..3 /\ s.members \subseteq Users
                         /\ s.rule \subseteq [id : {0}, linear : BOOLEAN] /\ \A r, q \in s.rule : r = q
                         /\ s.allow \subseteq {r.id : r \in s.rule} \X Users
    /\ Levels \subseteq 0..3
    /\ MaxCalls \in Nat /\ MaxFaults \in Nat

\* RepoRole and TeamPermission, ranked; None is a role nobody has a row for.
None == 0
Read == 1
Write == 2
Admin == 3
Owner == 4

VARIABLES
    private,   \* repositories.visibility
    grant,     \* repo_access: the role of each user and team
    members,   \* team_members
    override,  \* team_unit_permissions of Dev's code unit: at most one row
    default,   \* teams.permission of Dev
    rule,      \* branch_protection_rules of the branch: at most one row [id, linear]
    allow,     \* branch_protection_push_allowlist: <<rule id, user>>
    pat,       \* access_tokens: the token's scope, None once revoked
    key,       \* deploy_keys: "none", "ro" or "rw"
    lock,      \* lfs_locks of a path: at most one row [id, owner]
    call,      \* each request
    left, faults,   \* what is left of the bounds
    had,       \* history: what the actor of each call was entitled to since it began
    asked      \* history: what the last call that changed the rule asked for

tables == <<private, grant, members, override, default, rule, allow, pat, key, lock>>
vars == <<tables, call, left, faults, had, asked>>

-----------------------------------------------------------------------------
Teams == {Owners, Dev}
Actors == Users \union {Pat, Key, Anonymous}
Ids == 0..MaxCalls
Ops == {"read", "push", "lock", "unlock", "visibility", "add", "remove", "key", "unkey",
        "set", "unset", "attach", "permit", "join", "leave"}
OrgOps == {"permit", "join", "leave"}
RuleOps == {"set", "unset"}
Place == {"idle", "direct", "teams", "org", "rules", "allow", "found", "act", "update", "insert",
          "clear", "fill", "put", "ok"}
Entitlement == {"read", "write", "admin", "owner", "push", "merge", "org"}
Setting == [linear : BOOLEAN, users : SUBSET Users]
Rule == [id : Ids, linear : BOOLEAN]
Lock == [id : Ids, owner : Users]

UserOf(a) == IF a = Pat THEN PatUser ELSE a

\* The role a member of these teams is given besides his own: effective_repo_role.
Best(roles) == CHOOSE r \in roles \union {None} : \A s \in roles : r >= s
Rank(a) ==
    CASE a = Anonymous -> None
      [] a = Key -> CASE key = "rw" -> Write [] key = "ro" -> Read [] OTHER -> None
      [] OTHER -> Best({grant[UserOf(a)]} \union {grant[t] : t \in {t \in Teams : UserOf(a) \in members[t]}})

\* What the tables entitle an actor to, all of them looked at in one instant.
Entitled(a) ==
    LET may(level) == Rank(a) >= level
        free == a \in Users \union {Pat} /\ may(Admin)
    IN  {e \in Entitlement :
            \/ e = "read" /\ (~private \/ may(Read))
            \/ e = "write" /\ may(Write)
            \/ e = "admin" /\ a # Key /\ may(Admin)
            \/ e = "owner" /\ a # Key /\ may(Owner)
            \/ e = "push" /\ (free \/ \A r \in rule : <<r.id, UserOf(a)>> \in allow)
            \/ e = "merge" /\ (free \/ \A r \in rule : ~r.linear)
            \/ e = "org" /\ UserOf(a) \in members[Owners]}

Idle == [op |-> "read", by |-> Anonymous, who |-> Creator, team |-> Dev, flag |-> FALSE, level |-> 0,
         users |-> {}, id |-> 0, want |-> Read, shut |-> FALSE, direct |-> None, seen |-> {},
         todo |-> {}, alone |-> TRUE, unread |-> FALSE, took |-> {}, at |-> "idle"]

\* What is still to be told of a call once it has succeeded.
Answered(x) == [Idle EXCEPT !.op = x.op, !.by = x.by, !.flag = x.flag, !.unread = x.unread,
                            !.took = x.took, !.at = "ok"]

\* The migration: exactly one Owner grant per repository at all times.
OneOwner == Cardinality({s \in Users \union Teams : grant[s] = Owner}) = 1

TypeOK ==
    /\ private \in BOOLEAN
    /\ grant \in [Users \union Teams -> None..Owner] /\ OneOwner
    /\ members \in [Teams -> SUBSET Users]
    /\ override \subseteq None..Admin /\ Cardinality(override) <= 1 /\ default \in None..Admin
    /\ rule \subseteq Rule /\ Cardinality(rule) <= 1
    /\ allow \subseteq {r.id : r \in rule} \X Users
    /\ pat \in None..Write /\ key \in {"none", "ro", "rw"}
    /\ lock \subseteq Lock /\ Cardinality(lock) <= 1
    /\ DOMAIN call = Calls
    /\ \A c \in Calls : /\ DOMAIN call[c] = DOMAIN Idle
                        /\ call[c].op \in Ops /\ call[c].by \in Actors /\ call[c].at \in Place
    /\ left \in 0..MaxCalls /\ faults \in 0..MaxFaults
    /\ had \in [Calls -> SUBSET Entitlement]
    /\ asked \in [known : BOOLEAN, rows : SUBSET Setting]

\* A repository of the creator's own, or of the organization; Dev with a grant or none; no rule,
\* or what an interrupted change has left of one.
Init ==
    /\ \E start \in Starts :
        /\ private = start.private
        /\ grant = [s \in Users \union Teams |->
               IF s = start.owner THEN Owner ELSE IF s = Dev THEN start.dev ELSE None]
        /\ members = [t \in Teams |-> IF t = Owners THEN {Creator} ELSE start.members]
        /\ default = start.default /\ rule = start.rule /\ allow = start.allow
        /\ asked = [known |-> start.rule = {}, rows |-> {}]
    /\ override = {}
    /\ pat = Write /\ key = "none" /\ lock = {}
    /\ call = [c \in Calls |-> Idle]
    /\ left = MaxCalls /\ faults = MaxFaults
    /\ had = [c \in Calls |-> {}]

-----------------------------------------------------------------------------
At(c, op, place) == call[c].op = op /\ call[c].at = place
Goto(c, place) == call' = [call EXCEPT ![c].at = place]
Leave(c) == call' = [call EXCEPT ![c] = Idle]
Succeed(c) == call' = [call EXCEPT ![c] = Answered(@)]
Answer(c, well) == IF well THEN Succeed(c) ELSE Leave(c)
Changing(c) == call[c].op = "set" /\ call[c].at \in {"update", "insert", "clear", "fill"}

\* What each operation asks for before it touches anything.
Minimum_AdminsInvite(op) ==
    CASE op = "read" -> Read
      [] op \in {"push", "lock", "unlock"} -> Write
      [] op \in {"key", "unkey", "set", "unset", "add", "remove"} -> Admin
      [] OTHER -> Owner
Minimum(op) ==
    CASE op = "read" -> Read
      [] op \in {"push", "lock", "unlock"} -> Write
      [] op \in {"key", "unkey", "set", "unset"} -> Admin
      [] OTHER -> Owner

\* A credential is resolved, with its scope, before anything else: a deploy key only serves git,
\* a token that may only read is refused a change, locks are for sessions.
Authenticated(a, op) ==
    CASE a = Anonymous -> op = "read"
      [] a = Key -> key # "none" /\ op \in {"read", "push"}
      [] a = Pat -> pat # None /\ op \notin {"lock", "unlock"} /\ (pat = Read => op = "read")
      [] OTHER -> TRUE

Begin(c, op, a, who, team, flag, level, users) ==
    /\ call[c].at = "idle" /\ left > 0 /\ Authenticated(a, op)
    /\ \E id \in CASE op = "unset" -> {r.id : r \in rule} [] op = "unlock" -> {l.id : l \in lock}
                   [] OTHER -> {left} :
        call' = [call EXCEPT ![c] = [Idle EXCEPT !.op = op, !.by = a, !.who = who, !.team = team,
                    !.flag = flag, !.level = IF a = Key THEN Rank(Key) ELSE level, !.users = users,
                    !.id = id, !.want = Minimum(op), !.shut = private, !.todo = users,
                    !.at = IF op \in OrgOps THEN "org" ELSE "direct"]]
    /\ left' = left - 1
    /\ UNCHANGED <<tables, faults, asked>>

Ask(c) == \E a \in Actors :
    \/ \E op \in {"read", "lock", "unlock", "unkey", "unset"} : Begin(c, op, a, Creator, Dev, FALSE, None, {})
    \/ \E op \in {"push", "key", "visibility"}, f \in BOOLEAN : Begin(c, op, a, Creator, Dev, f, None, {})
    \/ \E op \in {"add", "remove"}, u \in Users : Begin(c, op, a, u, Dev, FALSE, None, {})
    \/ \E op \in {"join", "leave"}, u \in Users, t \in Teams : Begin(c, op, a, u, t, FALSE, None, {})
    \/ \E t \in Teams : Begin(c, "attach", a, Creator, t, FALSE, None, {})
    \/ \E level \in Levels : Begin(c, "permit", a, Creator, Dev, FALSE, level, {})
    \/ \E users \in {{}} \union {{u} : u \in Users}, f \in BOOLEAN : Begin(c, "set", a, Creator, Dev, f, None, users)

\* Two reads make up an actor's access: his own row, then the rows of his teams.
ReadDirect(c) ==
    /\ call[c].at = "direct"
    /\ call' = [call EXCEPT ![c].at = "teams",
                            ![c].direct = IF UserOf(call[c].by) \in Users THEN grant[UserOf(call[c].by)] ELSE None]
    /\ UNCHANGED <<tables, left, faults, asked>>

\* can_read_repository and require_role.
Allows(x, role) ==
    IF x.by = Key THEN x.level >= x.want
    ELSE (x.want = Read /\ ~x.shut) \/ role >= x.want

\* Where a call that has more to read or to write goes once its check has passed.
Then(x) == IF x.op \in {"set", "attach"} \/ (x.op = "unlock" /\ x.want = Write) THEN "found" ELSE "act"

\* A push is then held to the branch's rule unless its actor administers the repository; over
\* HTTP the credential is resolved a second time for that, once the pack has been read.
Decide(c) ==
    LET x == call[c]
        mine == IF UserOf(x.by) \in Users THEN {grant[t] : t \in {t \in Teams : UserOf(x.by) \in members[t]}} ELSE {}
        passed == Allows(x, Best({x.direct} \union mine))
    IN  /\ x.at = "teams"
        /\ IF x.op = "push" /\ x.want = Write /\ passed
             THEN call' = [call EXCEPT ![c].at = "direct", ![c].want = Admin,
                               ![c].by = IF @ = Pat /\ pat = None THEN Anonymous ELSE @]
           ELSE IF x.op \in {"read", "push"} /\ passed THEN Succeed(c)
           ELSE IF passed THEN Goto(c, Then(x))
           ELSE IF x.op = "push" /\ x.want = Admin THEN Goto(c, "rules")
           ELSE Leave(c)
        /\ UNCHANGED <<tables, left, faults, asked>>

\* list_for_repository_with_allowlist: the rules, then the rows of their allowlists.
ReadRules(c) ==
    /\ At(c, "push", "rules")
    /\ IF rule = {} THEN Succeed(c)
                    ELSE call' = [call EXCEPT ![c].at = "allow", ![c].seen = rule]
    /\ UNCHANGED <<tables, left, faults, asked>>

Passes(x) == \A r \in x.seen : <<r.id, UserOf(x.by)>> \in allow /\ ~(r.linear /\ x.flag)

ReadAllowlist(c) ==
    /\ At(c, "push", "allow") /\ Answer(c, Passes(call[c]))
    /\ UNCHANGED <<tables, left, faults, asked>>

\* Both transports fall back on no checks at all when the rules cannot be read.
Unreadable(c) ==
    /\ faults > 0 /\ call[c].op = "push" /\ call[c].at \in {"rules", "allow"}
    /\ call' = [call EXCEPT ![c] = Answered([@ EXCEPT !.unread = TRUE])]
    /\ faults' = faults - 1 /\ UNCHANGED <<tables, left, asked>>

-----------------------------------------------------------------------------
\* RepoAccessRepo::grant ignores a subject that has a row; remove_grant spares the owner's.
Inserted_Replaces(subject, role) == [grant EXCEPT ![subject] = role]
Inserted(subject, role) == [grant EXCEPT ![subject] = IF @ = None THEN role ELSE @]
Removable(subject) == grant[subject] \notin {None, Owner}

SetVisibility(c) ==
    /\ At(c, "visibility", "act") /\ private' = call[c].flag /\ Succeed(c)
    /\ UNCHANGED <<grant, members, override, default, rule, allow, pat, key, lock, left, faults, asked>>

AddCollaborator(c) ==
    /\ At(c, "add", "act") /\ grant' = Inserted(call[c].who, Write) /\ Succeed(c)
    /\ UNCHANGED <<private, members, override, default, rule, allow, pat, key, lock, left, faults, asked>>

RemoveCollaborator(c) ==
    /\ At(c, "remove", "act")
    /\ IF Removable(call[c].who)
         THEN grant' = [grant EXCEPT ![call[c].who] = None] /\ Succeed(c)
         ELSE UNCHANGED grant /\ Leave(c)
    /\ UNCHANGED <<private, members, override, default, rule, allow, pat, key, lock, left, faults, asked>>

\* The team's code role is looked up once, and kept in the grant.
CodeRole(team) == IF team = Owners THEN Admin ELSE IF override = {} THEN default ELSE CHOOSE p \in override : TRUE

ReadCodeRole(c) ==
    /\ At(c, "attach", "found")
    /\ IF CodeRole(call[c].team) = None
         THEN Leave(c)
         ELSE call' = [call EXCEPT ![c].level = CodeRole(call[c].team), ![c].at = "act"]
    /\ UNCHANGED <<tables, left, faults, asked>>

AttachTeam(c) ==
    /\ At(c, "attach", "act") /\ grant' = Inserted(call[c].team, call[c].level) /\ Succeed(c)
    /\ UNCHANGED <<private, members, override, default, rule, allow, pat, key, lock, left, faults, asked>>

AddKey(c) ==
    /\ At(c, "key", "act")
    /\ IF key = "none" THEN key' = (IF call[c].flag THEN "ro" ELSE "rw") /\ Succeed(c)
                       ELSE UNCHANGED key /\ Leave(c)
    /\ UNCHANGED <<private, grant, members, override, default, rule, allow, pat, lock, left, faults, asked>>

RemoveKey(c) ==
    /\ At(c, "unkey", "act") /\ key' = "none" /\ Answer(c, key # "none")
    /\ UNCHANGED <<private, grant, members, override, default, rule, allow, pat, lock, left, faults, asked>>

-----------------------------------------------------------------------------
\* Organization calls look at one thing only: membership of the Owners team.
CheckOrganization(c) ==
    /\ call[c].at = "org"
    /\ IF UserOf(call[c].by) \in members[Owners]
         THEN Goto(c, IF call[c].op = "permit" THEN "clear" ELSE "act")
         ELSE Leave(c)
    /\ UNCHANGED <<tables, left, faults, asked>>

AddMember(c) ==
    /\ At(c, "join", "act") /\ members' = [members EXCEPT ![call[c].team] = @ \union {call[c].who}]
    /\ Succeed(c)
    /\ UNCHANGED <<private, grant, override, default, rule, allow, pat, key, lock, left, faults, asked>>

RemoveMember(c) ==
    /\ At(c, "leave", "act") /\ members' = [members EXCEPT ![call[c].team] = @ \ {call[c].who}]
    /\ Answer(c, call[c].who \in members[call[c].team])
    /\ UNCHANGED <<private, grant, override, default, rule, allow, pat, key, lock, left, faults, asked>>

\* set_unit_permission: the old override goes, then the new one comes.
ClearOverride(c) ==
    /\ At(c, "permit", "clear") /\ override' = {} /\ Goto(c, "put")
    /\ UNCHANGED <<private, grant, members, default, rule, allow, pat, key, lock, left, faults, asked>>

PutOverride(c) ==
    /\ At(c, "permit", "put")
    /\ IF override = {} THEN override' = {call[c].level} /\ Succeed(c)
                        ELSE UNCHANGED override /\ Leave(c)
    /\ UNCHANGED <<private, grant, members, default, rule, allow, pat, key, lock, left, faults, asked>>

-----------------------------------------------------------------------------
\* upsert_by_pattern and replace_allowlist: five kinds of statement, no transaction.
Others(c) == {d \in Calls \ {c} : Changing(d)}
Lost == [known |-> FALSE, rows |-> {}]
Done(c) == IF call[c].alone THEN [known |-> TRUE, rows |-> {[linear |-> call[c].flag, users |-> call[c].users]}]
                            ELSE Lost
RuleOnly == UNCHANGED <<private, grant, members, override, default, pat, key, lock, left, faults>>

SelectRule(c) ==
    /\ At(c, "set", "found")
    /\ call' = [d \in Calls |->
           IF d = c THEN [call[c] EXCEPT !.alone = (Others(c) = {}), !.seen = rule,
                             !.id = IF rule = {} THEN @ ELSE (CHOOSE r \in rule : TRUE).id,
                             !.at = IF rule = {} THEN "insert" ELSE "update"]
           ELSE [call[d] EXCEPT !.alone = @ /\ ~Changing(d)]]
    /\ UNCHANGED <<tables, left, faults, asked>>

UpdateRule(c) ==
    /\ At(c, "set", "update")
    /\ rule' = {IF r.id = call[c].id THEN [r EXCEPT !.linear = call[c].flag] ELSE r : r \in rule}
    /\ Goto(c, "clear") /\ UNCHANGED <<allow, asked>> /\ RuleOnly

InsertRule(c) ==
    /\ At(c, "set", "insert")
    /\ IF rule = {}
         THEN rule' = {[id |-> call[c].id, linear |-> call[c].flag]} /\ Goto(c, "clear") /\ UNCHANGED asked
         ELSE UNCHANGED rule /\ Leave(c) /\ asked' = Lost
    /\ UNCHANGED allow /\ RuleOnly

Cleared_Nothing(id) == allow
Cleared(id) == {p \in allow : p[1] # id}

ClearAllowlist(c) ==
    /\ At(c, "set", "clear") /\ allow' = Cleared(call[c].id)
    /\ IF call[c].todo = {} THEN Succeed(c) ELSE Goto(c, "fill")
    /\ asked' = IF call[c].todo = {} THEN Done(c) ELSE asked
    /\ UNCHANGED rule /\ RuleOnly

\* An allowlist row refers to its rule: without the rule the insert fails.
FillAllowlist(c) ==
    /\ At(c, "set", "fill")
    /\ \E u \in call[c].todo :
        IF \E r \in rule : r.id = call[c].id
          THEN /\ allow' = allow \union {<<call[c].id, u>>}
               /\ IF call[c].todo = {u} THEN Succeed(c) ELSE call' = [call EXCEPT ![c].todo = @ \ {u}]
               /\ asked' = IF call[c].todo = {u} THEN Done(c) ELSE asked
          ELSE UNCHANGED allow /\ Leave(c) /\ asked' = Lost
    /\ UNCHANGED rule /\ RuleOnly

\* Deleting a rule takes its allowlist with it.
DeleteRule(c) ==
    /\ At(c, "unset", "act")
    /\ rule' = {r \in rule : r.id # call[c].id} /\ allow' = {p \in allow : p[1] # call[c].id}
    /\ call' = [d \in Calls |-> IF d = c THEN IF rule' = rule THEN Idle ELSE Answered(call[c])
                                ELSE [call[d] EXCEPT !.alone = @ /\ ~Changing(d)]]
    /\ asked' = IF Others(c) # {} THEN Lost
                ELSE IF rule' = rule THEN asked ELSE [known |-> TRUE, rows |-> {}]
    /\ RuleOnly

-----------------------------------------------------------------------------
CreateLock(c) ==
    /\ At(c, "lock", "act")
    /\ IF lock = {} THEN lock' = {[id |-> call[c].id, owner |-> call[c].by]} /\ Succeed(c)
                    ELSE UNCHANGED lock /\ Leave(c)
    /\ UNCHANGED <<private, grant, members, override, default, rule, allow, pat, key, left, faults, asked>>

\* One's own lock goes at once, another's only after a second check.
FindLock(c) ==
    /\ At(c, "unlock", "found")
    /\ LET it == {l \in lock : l.id = call[c].id} IN
        IF it = {} THEN Leave(c)
        ELSE IF \E l \in it : l.owner = call[c].by THEN Goto(c, "act")
        ELSE call' = [call EXCEPT ![c].want = Admin, ![c].at = "direct"]
    /\ UNCHANGED <<tables, left, faults, asked>>

Taken(id) == {l \in lock : l.id = id}

DeleteLock(c) ==
    /\ At(c, "unlock", "act")
    /\ lock' = lock \ Taken(call[c].id)
    /\ IF Taken(call[c].id) = {}
         THEN Leave(c)
         ELSE call' = [call EXCEPT ![c] = Answered([@ EXCEPT !.took = Taken(call[c].id)])]
    /\ UNCHANGED <<private, grant, members, override, default, rule, allow, pat, key, left, faults, asked>>

-----------------------------------------------------------------------------
\* The site's administrator needs no role here; a user may withdraw his token at any time.
AdminFlipsVisibility ==
    /\ faults > 0 /\ faults' = faults - 1 /\ private' = ~private
    /\ UNCHANGED <<grant, members, override, default, rule, allow, pat, key, lock, call, left, asked>>

RevokeToken ==
    /\ faults > 0 /\ faults' = faults - 1 /\ pat # None /\ pat' = None
    /\ UNCHANGED <<private, grant, members, override, default, rule, allow, key, lock, call, left, asked>>

Return(c) ==
    /\ call[c].at = "ok" /\ Leave(c)
    /\ UNCHANGED <<tables, left, faults, asked>>

\* The client hangs up, the process dies, or a statement fails: the call stops where it is.
Cut(c) ==
    /\ faults > 0 /\ faults' = faults - 1 /\ call[c].at \notin {"ok", "idle"} /\ Leave(c)
    /\ asked' = IF Changing(c) THEN Lost ELSE asked
    /\ UNCHANGED <<tables, left>>

Step ==
    \/ \E c \in Calls :
        \/ Ask(c) \/ ReadDirect(c) \/ Decide(c) \/ ReadRules(c) \/ ReadAllowlist(c) \/ Unreadable(c)
        \/ SetVisibility(c) \/ AddCollaborator(c) \/ RemoveCollaborator(c)
        \/ ReadCodeRole(c) \/ AttachTeam(c) \/ AddKey(c) \/ RemoveKey(c)
        \/ CheckOrganization(c) \/ AddMember(c) \/ RemoveMember(c) \/ ClearOverride(c) \/ PutOverride(c)
        \/ SelectRule(c) \/ UpdateRule(c) \/ InsertRule(c) \/ ClearAllowlist(c) \/ FillAllowlist(c)
        \/ DeleteRule(c) \/ CreateLock(c) \/ FindLock(c) \/ DeleteLock(c) \/ Return(c) \/ Cut(c)
    \/ AdminFlipsVisibility \/ RevokeToken

\* History: everything the actor of a call was entitled to, in any state since it began.
Next == Step /\ had' = [c \in Calls |->
    IF call'[c].at = "idle" THEN {}
    ELSE had[c] \union Entitled(IF call[c].at = "idle" THEN call'[c].by ELSE call[c].by)]

Spec == Init /\ [][Next]_vars

-----------------------------------------------------------------------------
\* What a finished call must have been entitled to.
Owed(x) ==
    CASE x.op = "read" -> {"read"}
      [] x.op = "push" -> {"write"} \union IF x.unread THEN {} ELSE {"push"} \union IF x.flag THEN {"merge"} ELSE {}
      [] x.op = "lock" -> {"write"}
      [] x.op = "unlock" -> {"write"} \union IF \E l \in x.took : l.owner # x.by THEN {"admin"} ELSE {}
      [] x.op \in {"key", "unkey", "set", "unset"} -> {"admin"}
      [] x.op \in {"visibility", "add", "remove", "attach"} -> {"owner"}
      [] OTHER -> {"org"}

(***************************************************************************)
(* A check that reads its rows one by one (authz.rs), acted on later, still*)
(* lets through only what the tables as a whole allowed: whatever a call   *)
(* did, there was a single moment of it when its actor was entitled to     *)
(* each thing it needed.  A push past the rule of a branch, and the        *)
(* release of another's lock, included; a push whose rules could not be    *)
(* read is the exception both transports make.                             *)
(***************************************************************************)
EntitledOnce == \A c \in Calls : call[c].at = "ok" => Owed(call[c]) \subseteq had[c]

(***************************************************************************)
(* When nobody is changing the rule of the branch, its row and allowlist   *)
(* are what the last change asked for -- once a change has run by itself   *)
(* from start to end, whatever an overlapping or an interrupted one left   *)
(* behind (upsert_by_pattern, replace_allowlist).                          *)
(***************************************************************************)
RuleAsAsked ==
    asked.known /\ ~(\E c \in Calls : Changing(c)) =>
        {[linear |-> r.linear, users |-> {u \in Users : <<r.id, u>> \in allow}] : r \in rule} = asked.rows
=============================================================================
