------------------------------ MODULE Accounts ------------------------------
(***************************************************************************)
(* How accounts come to exist, are activated, recovered and removed        *)
(* (edda-auth: signup.rs, oauth.rs, organization.rs, password_reset.rs,    *)
(* email_verification.rs; edda-app: auth_routes.rs, oauth_routes.rs,       *)
(* admin_routes.rs; their tables in edda-db).  Every operation is a string *)
(* of single statements with awaits in between and no transaction around   *)
(* them; an operation may be cut after any of them.                        *)
(*                                                                         *)
(* A name stands for a username, the e-mail address that goes with it and  *)
(* the provider's subject with that address.                               *)
(***************************************************************************)
EXTENDS Integers, FiniteSets

CONSTANTS Calls,     \* requests that may ever be made (a bound)
          Names,
          None,
          MaxFaults, \* bound: calls cut by a crash or a database error
          MaxAdmin   \* bound: what administrators and the clock do

ASSUME AccountsAssumption ==
    /\ None \notin Calls \union Names /\ Calls \intersect Names = {}
    /\ IsFiniteSet(Calls) /\ Names # {}
    /\ MaxFaults \in Nat /\ MaxAdmin \in Nat

VARIABLES
    user,     \* users: the account whose e-mail address is a name's, or None
    org,      \* organizations: the names that are one's
    identity, \* oauth_identities: the account a subject is linked to, or None
    token,    \* password_reset_tokens and email_verification_tokens
    call,     \* each request
    faults, admin,      \* what is left of the bounds
    shared,   \* history: names that a signup and an organization raced for
    crowd,    \* history: <<account, kind>> with overlapping link requests
    loose,    \* history: links followed twice at once, or cut when followed
    earned,   \* history: <<account, "approved" or "verified">> by rights
    sets      \* history: how often a link set a password

vars == <<user, org, identity, token, call, faults, admin,
          shared, crowd, loose, earned, sets>>
tables == <<user, org, identity, token>>
budget == <<faults, admin>>
history == <<shared, crowd, loose, earned, sets>>

-----------------------------------------------------------------------------
\* An account's id: the call that inserted it, or the name it had at the start.
Id == Calls \union Names
Kinds == {"reset", "verify"}
Account == [id : Id, via : {"signup", "oauth"}, approved : BOOLEAN,
            verified : BOOLEAN, disabled : BOOLEAN, stamped : BOOLEAN]
ASSUME NoneIsNoAccount == None \notin Account

Token == [id : Calls, owner : Id, kind : Kinds, live : BOOLEAN]

Over == {"done", "refused", "cut", "panicked"}
Place == {"idle", "checked", "inserted", "wanted", "cleared", "known",
          "found", "acted"} \union Over
Call == [op : {"signup", "org", "oauth", "link", "mail", "follow", None},
         name : Names, of : Id \union {None}, kind : Kinds,
         link : Calls \union {None},
         approves : BOOLEAN, verifies : BOOLEAN, at : Place]

Exists(id) == \E n \in Names : user[n] # None /\ user[n].id = id

\* Types, and the foreign key of the two tables of links.
TypeOK ==
    /\ user \in [Names -> Account \union {None}]
    /\ org \subseteq Names
    /\ identity \in [Names -> Id \union {None}]
    /\ token \subseteq Token /\ \A t \in token : Exists(t.owner)
    /\ call \in [Calls -> Call]
    /\ faults \in 0..MaxFaults /\ admin \in 0..MaxAdmin
    /\ shared \subseteq Names /\ crowd \subseteq Id \X Kinds /\ loose \subseteq Calls
    /\ earned \subseteq Id \X {"approved", "verified"}
    /\ sets \in [Calls -> 0..Cardinality(Calls)]

Old(n, approved, verified) ==
    [id |-> n, via |-> "signup", approved |-> approved, verified |-> verified,
     disabled |-> FALSE, stamped |-> TRUE]

Init ==
    /\ user \in [Names -> {None}]
           \union {[n \in Names |-> Old(n, a, v)] : a \in BOOLEAN, v \in BOOLEAN}
    /\ org = {}
    /\ identity = [n \in Names |-> None]
    /\ token = {}
    /\ call = [c \in Calls |-> [op |-> None, name |-> CHOOSE n \in Names : TRUE,
           of |-> None, kind |-> "reset", link |-> None,
           approves |-> FALSE, verifies |-> FALSE, at |-> "idle"]]
    /\ faults = MaxFaults /\ admin = MaxAdmin
    /\ shared = {} /\ crowd = {} /\ loose = {}
    /\ earned = UNION {{<<n, "approved">> : n \in {m \in Names : user[m] # None /\ user[m].approved}},
                       {<<n, "verified">> : n \in {m \in Names : user[m] # None /\ user[m].verified}}}
    /\ sets = [c \in Calls |-> 0]

-----------------------------------------------------------------------------
Busy == {c \in Calls : call[c].at \notin Over \union {"idle"}}
Goto(c, place) == call' = [call EXCEPT ![c].at = place]
NameOf(id) == CHOOSE n \in Names : user[n] # None /\ user[n].id = id
AccountOf(id) == user[NameOf(id)]

\* UPDATE users ... WHERE id = ?: nothing when the account is gone.
Update(id, new) ==
    user' = [n \in Names |-> IF user[n] # None /\ user[n].id = id THEN new ELSE user[n]]

\* A request arrives: its first read or statement, up to the await after it.
Begin(c, op, n, of, kind, link, at) ==
    /\ call[c].at = "idle"
    /\ \E a, v \in BOOLEAN :
           /\ op # "signup" => v /\ (op = "oauth" \/ a)
           /\ call' = [call EXCEPT ![c] = [op |-> op, name |-> n, of |-> of, kind |-> kind,
                          link |-> link, approves |-> a, verifies |-> v, at |-> at]]
    /\ UNCHANGED budget

-----------------------------------------------------------------------------
(* Signing up (signup.rs) and creating an organization (organization.rs):  *)
(* each looks the name up in the other's table and inserts into its own.   *)

BeginSignup(c, n) ==
    /\ Begin(c, "signup", n, None, "verify", None, IF n \in org THEN "refused" ELSE "checked")
    /\ shared' = IF \E d \in Busy : call[d].op = "org" /\ call[d].name = n
                 THEN shared \union {n} ELSE shared
    /\ UNCHANGED tables /\ UNCHANGED <<crowd, loose, earned, sets>>

\* The columns' defaults make the row approved and verified until the stamp.
InsertUser(c, via) ==
    user' = [user EXCEPT ![call[c].name] = [id |-> c, via |-> via, approved |-> TRUE,
                 verified |-> TRUE, disabled |-> FALSE, stamped |-> FALSE]]

\* Mutant: the link is issued before the account is stamped.
Register_MailsFirst(c) ==
    /\ call[c].op \in {"signup", "oauth"} /\ call[c].at = "checked"
    /\ IF user[call[c].name] # None
       THEN Goto(c, "refused") /\ UNCHANGED <<user, token>>
       ELSE /\ InsertUser(c, call[c].op)
            /\ token' = token \union {[id |-> c, owner |-> c, kind |-> "verify", live |-> TRUE]}
            /\ call' = [call EXCEPT ![c].at = "inserted", ![c].of = c]
    /\ UNCHANGED <<org, identity>> /\ UNCHANGED budget /\ UNCHANGED history

Register(c) ==
    /\ call[c].op \in {"signup", "oauth"} /\ call[c].at = "checked"
    /\ IF user[call[c].name] # None
       THEN Goto(c, "refused") /\ UNCHANGED user
       ELSE InsertUser(c, call[c].op)
            /\ call' = [call EXCEPT ![c].at = "inserted", ![c].of = c]
    /\ UNCHANGED <<org, identity, token>> /\ UNCHANGED budget /\ UNCHANGED history

\* approved, verified: what the policy says, over the defaults.
StampedAs(c) == [AccountOf(c) EXCEPT !.approved = call[c].approves,
                     !.verified = ~call[c].verifies \/ call[c].op = "oauth", !.stamped = TRUE]
AfterStamp(c) == IF call[c].op = "oauth" THEN "known"
                 ELSE IF call[c].verifies THEN "wanted" ELSE "done"

Stamp(c) ==
    /\ call[c].op \in {"signup", "oauth"} /\ call[c].at = "inserted"
    /\ IF Exists(c) THEN Update(c, StampedAs(c)) ELSE UNCHANGED user
    /\ Goto(c, AfterStamp(c))
    /\ earned' = earned \union {<<c, "approved">> : x \in {x \in {1} : call[c].approves}}
                        \union {<<c, "verified">> : x \in {x \in {1} : ~call[c].verifies
                                                             \/ call[c].op = "oauth"}}
    /\ UNCHANGED <<org, identity, token>> /\ UNCHANGED budget
    /\ UNCHANGED <<shared, crowd, loose, sets>>

\* Mutant: the users are not looked at.
BeginOrg_NoTest(c, n) ==
    /\ Begin(c, "org", n, None, "verify", None, "checked")
    /\ shared' = IF \E d \in Busy : call[d].op = "signup" /\ call[d].name = n
                 THEN shared \union {n} ELSE shared
    /\ UNCHANGED tables /\ UNCHANGED <<crowd, loose, earned, sets>>

BeginOrg(c, n) ==
    /\ Begin(c, "org", n, None, "verify", None,
             IF user[n] # None /\ user[n].via = "signup" THEN "refused" ELSE "checked")
    /\ shared' = IF \E d \in Busy : call[d].op = "signup" /\ call[d].name = n
                 THEN shared \union {n} ELSE shared
    /\ UNCHANGED tables /\ UNCHANGED <<crowd, loose, earned, sets>>

InsertOrg(c) ==
    /\ call[c].op = "org" /\ call[c].at = "checked"
    /\ org' = org \union {call[c].name}
    /\ Goto(c, IF call[c].name \in org THEN "refused" ELSE "done")
    /\ UNCHANGED <<user, identity, token>> /\ UNCHANGED budget /\ UNCHANGED history

-----------------------------------------------------------------------------
(* The provider's callback (oauth.rs): the subject's identity, else its    *)
(* e-mail address; a new account is inserted, stamped and then linked.     *)

BeginOAuth(c, n) ==
    /\ Begin(c, "oauth", n, identity[n], "verify", None,
             IF identity[n] # None THEN "found" ELSE "wanted")
    /\ UNCHANGED tables /\ UNCHANGED history

\* A known identity: its account is fetched, and must be there (expect).
SignIn(c) ==
    /\ call[c].op = "oauth" /\ call[c].at = "found"
    /\ Goto(c, IF Exists(call[c].of) THEN "done" ELSE "panicked")
    /\ UNCHANGED tables /\ UNCHANGED budget /\ UNCHANGED history

\* No identity: provisioning refuses, or the e-mail address must be free.
Provision(c, allowed) ==
    /\ call[c].op = "oauth" /\ call[c].at = "wanted"
    /\ Goto(c, IF allowed /\ user[call[c].name] = None THEN "checked" ELSE "refused")
    /\ UNCHANGED tables /\ UNCHANGED budget /\ UNCHANGED history

\* link: an account that is signed in takes a subject.
BeginLink(c, n, id) ==
    /\ Exists(id)
    /\ Begin(c, "link", n, id, "verify", None, "known")
    /\ UNCHANGED tables /\ UNCHANGED history

\* Mutant: no unique index, so the later link takes the subject over.
InsertIdentity_Replaces(c) ==
    /\ call[c].at = "known"
    /\ IF Exists(call[c].of)
       THEN identity' = [identity EXCEPT ![call[c].name] = call[c].of] /\ Goto(c, "done")
       ELSE Goto(c, "refused") /\ UNCHANGED identity
    /\ UNCHANGED <<user, org, token>> /\ UNCHANGED budget /\ UNCHANGED history

InsertIdentity(c) ==
    /\ call[c].at = "known"
    /\ IF Exists(call[c].of) /\ identity[call[c].name] = None
       THEN identity' = [identity EXCEPT ![call[c].name] = call[c].of] /\ Goto(c, "done")
       ELSE Goto(c, "refused") /\ UNCHANGED identity
    /\ UNCHANGED <<user, org, token>> /\ UNCHANGED budget /\ UNCHANGED history

-----------------------------------------------------------------------------
(* Links sent by mail: a password reset (kind "reset") and an e-mail       *)
(* confirmation ("verify"), asked for again by the account or by signup.   *)

Crowded(id, kind) ==
    {<<id, kind>> : d \in {d \in Busy : call[d].of = id /\ call[d].kind = kind
                                        /\ call[d].op \in {"mail", "signup"}}}

BeginMail(c, n, kind) ==
    /\ user[n] # None
    /\ Begin(c, "mail", n, user[n].id, kind, None,
             IF user[n].disabled \/ (kind = "verify" /\ user[n].verified)
             THEN "done" ELSE "wanted")
    /\ crowd' = crowd \union Crowded(user[n].id, kind)
    /\ UNCHANGED tables /\ UNCHANGED <<shared, loose, earned, sets>>

Mails(c) == call[c].op \in {"mail", "signup"}

\* invalidate_all_for_user: every live link of the account is used.
Clear(c) ==
    /\ Mails(c) /\ call[c].at = "wanted"
    /\ token' = {[t EXCEPT !.live = t.live /\ ~(t.owner = call[c].of /\ t.kind = call[c].kind)]
                     : t \in token}
    /\ Goto(c, "cleared")
    /\ UNCHANGED <<user, org, identity>> /\ UNCHANGED budget /\ UNCHANGED history

\* The insert fails when the account is gone: a foreign key.
Issue(c) ==
    /\ Mails(c) /\ call[c].at = "cleared"
    /\ IF Exists(call[c].of)
       THEN token' = token \union {[id |-> c, owner |-> call[c].of,
                                    kind |-> call[c].kind, live |-> TRUE]}
            /\ Goto(c, "done")
       ELSE Goto(c, "refused") /\ UNCHANGED token
    /\ UNCHANGED <<user, org, identity>> /\ UNCHANGED budget /\ UNCHANGED history

Followed(t) == {d \in Busy : call[d].op = "follow" /\ call[d].link = t.id}

\* consume: the link must be live; its account is changed; it is used.
BeginFollow(c, t) ==
    /\ Begin(c, "follow", CHOOSE n \in Names : TRUE, t.owner, t.kind, t.id,
             IF t.live THEN "found" ELSE "refused")
    /\ loose' = IF t.live /\ Followed(t) # {} THEN loose \union {t.id} ELSE loose
    /\ UNCHANGED tables /\ UNCHANGED <<shared, crowd, earned, sets>>

Act(c) ==
    /\ call[c].op = "follow" /\ call[c].at = "found"
    /\ IF call[c].kind = "verify" /\ Exists(call[c].of)
       THEN /\ Update(call[c].of, [AccountOf(call[c].of) EXCEPT !.verified = TRUE])
            /\ earned' = earned \union {<<call[c].of, "verified">>}
       ELSE UNCHANGED <<user, earned>>
    /\ sets' = IF call[c].kind = "reset" /\ Exists(call[c].of)
               THEN [sets EXCEPT ![call[c].link] = @ + 1] ELSE sets
    /\ Goto(c, "acted")
    /\ UNCHANGED <<org, identity, token>> /\ UNCHANGED budget
    /\ UNCHANGED <<shared, crowd, loose>>

\* Mutant: a link that was followed stays live.
Use_Never(c) ==
    /\ call[c].op = "follow" /\ call[c].at = "acted"
    /\ Goto(c, "done")
    /\ UNCHANGED tables /\ UNCHANGED budget /\ UNCHANGED history

Use(c) ==
    /\ call[c].op = "follow" /\ call[c].at = "acted"
    /\ token' = {IF t.id = call[c].link THEN [t EXCEPT !.live = FALSE] ELSE t : t \in token}
    /\ Goto(c, "done")
    /\ UNCHANGED <<user, org, identity>> /\ UNCHANGED budget /\ UNCHANGED history

-----------------------------------------------------------------------------
(* Administrators and the clock: single statements.                        *)

Admin == admin > 0 /\ admin' = admin - 1 /\ UNCHANGED <<call, faults>>

Approve(n) ==
    /\ Admin /\ user[n] # None /\ ~user[n].approved
    /\ user' = [user EXCEPT ![n].approved = TRUE]
    /\ earned' = earned \union {<<user[n].id, "approved">>}
    /\ UNCHANGED <<org, identity, token, shared, crowd, loose, sets>>

SetDisabled(n, disabled) ==
    /\ Admin /\ user[n] # None
    /\ user' = [user EXCEPT ![n].disabled = disabled]
    /\ UNCHANGED <<org, identity, token>> /\ UNCHANGED history

\* Mutant: the links stay behind.
DeleteUser_KeepsLinks(n) ==
    /\ Admin /\ user[n] # None
    /\ user' = [user EXCEPT ![n] = None]
    /\ identity' = [s \in Names |-> IF identity[s] = user[n].id THEN None ELSE identity[s]]
    /\ UNCHANGED <<org, token>> /\ UNCHANGED history

\* Only an account that owns no repository; its tokens and identities cascade.
DeleteUser(n) ==
    /\ Admin /\ user[n] # None
    /\ user' = [user EXCEPT ![n] = None]
    /\ token' = {t \in token : t.owner # user[n].id}
    /\ identity' = [s \in Names |-> IF identity[s] = user[n].id THEN None ELSE identity[s]]
    /\ UNCHANGED org /\ UNCHANGED history

Expire(t) ==
    /\ Admin /\ t.live
    /\ token' = (token \ {t}) \union {[t EXCEPT !.live = FALSE]}
    /\ UNCHANGED <<user, org, identity>> /\ UNCHANGED history

\* prune_expired_tokens: used and expired links are deleted.
Prune ==
    /\ Admin /\ \E t \in token : ~t.live
    /\ token' = {t \in token : t.live}
    /\ UNCHANGED <<user, org, identity>> /\ UNCHANGED history

\* A crash or a database error: the statements before it stay.
Cut(c) ==
    /\ faults > 0 /\ faults' = faults - 1
    /\ c \in Busy /\ Goto(c, "cut")
    /\ loose' = IF call[c].op = "follow" THEN loose \union {call[c].link} ELSE loose
    /\ UNCHANGED tables /\ UNCHANGED <<admin, shared, crowd, earned, sets>>

-----------------------------------------------------------------------------
Next ==
    \/ \E c \in Calls :
        \/ \E n \in Names :
               \/ BeginSignup(c, n) \/ BeginOrg(c, n) \/ BeginOAuth(c, n)
               \/ \E id \in Id : BeginLink(c, n, id)
               \/ \E kind \in Kinds : BeginMail(c, n, kind)
        \/ \E t \in token : BeginFollow(c, t)
        \/ Register(c) \/ Stamp(c) \/ InsertOrg(c)
        \/ SignIn(c) \/ (\E allowed \in BOOLEAN : Provision(c, allowed)) \/ InsertIdentity(c)
        \/ Clear(c) \/ Issue(c) \/ Act(c) \/ Use(c)
        \/ Cut(c)
    \/ \E n \in Names : Approve(n) \/ DeleteUser(n)
                        \/ \E disabled \in BOOLEAN : SetDisabled(n, disabled)
    \/ \E t \in token : Expire(t)
    \/ Prune

Spec == Init /\ [][Next]_vars

-----------------------------------------------------------------------------
(* One namespace: a username and an organization's name are the same only  *)
(* when the two requests overlapped.  Each looks in the other's table      *)
(* before it inserts into its own (organization.rs, signup.rs).            *)
OneHolder ==
    \A n \in Names : user[n] # None /\ user[n].via = "signup" /\ n \in org => n \in shared

(* Once an account is stamped, it is approved only because the policy said *)
(* so or an administrator did, and verified only because no confirmation   *)
(* was asked for or its link was followed (stamp_signup_status, approve,   *)
(* mark_email_verified); before the stamp the columns' defaults hold.      *)
StatusEarned ==
    \A n \in Names : user[n] # None /\ user[n].stamped =>
        /\ user[n].approved => <<user[n].id, "approved">> \in earned
        /\ user[n].verified => <<user[n].id, "verified">> \in earned

(* A linked subject has an account, and an account that a finished         *)
(* callback created has its subject: the two expects of complete can fail  *)
(* only for a call during which the account was deleted.                   *)
Linked ==
    /\ \A s \in Names : identity[s] # None => Exists(identity[s])
    /\ \A n \in Names : user[n] # None /\ user[n].via = "oauth"
                        /\ call[user[n].id].at = "done" => identity[n] = user[n].id

(* A reset link sets a password once, unless it was followed twice at the  *)
(* same time or a failure came between the password and mark_used.         *)
OneReset == \A c \in Calls : c \notin loose => sets[c] =< 1

(* "Only one active reset link per account at a time" (password_reset.rs), *)
(* and one confirmation link: true unless two requests for it overlapped.  *)
NewestLink ==
    \A t, u \in token :
        t.live /\ u.live /\ t.owner = u.owner /\ t.kind = u.kind /\ t # u
            => <<t.owner, t.kind>> \in crowd

(* No step takes approval or verification away from an account once it is  *)
(* stamped or its confirmation link was issued: the stamp comes first.     *)
Sticks ==
    [][\A n \in Names : user[n] # None /\ user'[n] # None /\ user'[n].id = user[n].id
          /\ (user[n].stamped \/ \E t \in token : t.owner = user[n].id /\ t.kind = "verify") =>
              /\ user[n].approved => user'[n].approved
              /\ user[n].verified => user'[n].verified]_vars

(* A mailed link is good for one use, and only the newest is good for any. *)
ResetLinks == OneReset /\ NewestLink

(* Approval and verification are earned, then kept.                        *)
StatusKept == []StatusEarned /\ Sticks
=============================================================================
