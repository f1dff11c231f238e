--------------------------- MODULE AccountsProofs ---------------------------
(***************************************************************************)
(* Theorems about Accounts, for any number of requests, names, failures    *)
(* and administrator's acts.                                               *)
(***************************************************************************)
EXTENDS Accounts, FiniteSetTheorems, TLAPS

USE AccountsAssumption, NoneIsNoAccount

-----------------------------------------------------------------------------
(* Types, of what the theorems speak of *)

Typed ==
    /\ user \in [Names -> Account \union {None}]
    /\ identity \in [Names -> Id \union {None}]
    /\ token \subseteq Token
    /\ call \in [Calls -> Call]
    /\ sets \in [Calls -> Nat]
    /\ earned \subseteq Id \X {"approved", "verified"}

LEMMA CallFields ==
    ASSUME Typed, NEW c \in Calls
    PROVE  /\ call[c] \in Call
           /\ call[c].name \in Names /\ call[c].of \in Id \union {None} /\ call[c].kind \in Kinds
           /\ call[c].link \in Calls \union {None} /\ call[c].at \in Place
           /\ call[c].approves \in BOOLEAN /\ call[c].verifies \in BOOLEAN
  BY DEF Typed, Call

LEMMA GotoTyped ==
    ASSUME Typed, NEW c \in Calls, NEW place \in Place, Goto(c, place)
    PROVE  call' \in [Calls -> Call]
  <1>1. [call[c] EXCEPT !.at = place] \in Call
    BY CallFields DEF Call
  <1> QED
    BY <1>1 DEF Goto, Typed

LEMMA BeginTyped ==
    ASSUME Typed, NEW c \in Calls, NEW op \in {"signup", "org", "oauth", "link", "mail", "follow"},
           NEW n \in Names, NEW of \in Id \union {None}, NEW kind \in Kinds,
           NEW link \in Calls \union {None}, NEW at \in Place, Begin(c, op, n, of, kind, link, at)
    PROVE  /\ call[c].at = "idle" /\ call' \in [Calls -> Call]
           /\ \A d \in Calls \ {c} : call'[d] = call[d]
           /\ call'[c].op = op /\ call'[c].name = n /\ call'[c].of = of
           /\ call'[c].kind = kind /\ call'[c].link = link /\ call'[c].at = at
  <1>1. PICK a \in BOOLEAN, v \in BOOLEAN :
           call' = [call EXCEPT ![c] = [op |-> op, name |-> n, of |-> of, kind |-> kind,
                       link |-> link, approves |-> a, verifies |-> v, at |-> at]]
    BY DEF Begin
  <1>2. [op |-> op, name |-> n, of |-> of, kind |-> kind,
         link |-> link, approves |-> a, verifies |-> v, at |-> at] \in Call
    BY DEF Call
  <1> QED
    BY <1>1, <1>2 DEF Typed, Begin

\* The two requests for a name begin alike.
LEMMA BeginsName ==
    ASSUME Typed, NEW c \in Calls, NEW n \in Names, BeginSignup(c, n) \/ BeginOrg(c, n)
    PROVE  /\ call[c].at = "idle" /\ call' \in [Calls -> Call]
           /\ \A d \in Calls \ {c} : call'[d] = call[d]
           /\ call'[c].name = n /\ call'[c].of = None /\ call'[c].at \in {"checked", "refused"}
           /\ BeginSignup(c, n) => /\ call'[c].op = "signup"
                                   /\ call'[c].at = IF n \in org THEN "refused" ELSE "checked"
           /\ BeginOrg(c, n) => /\ call'[c].op = "org"
                                /\ call'[c].at = IF user[n] # None /\ user[n].via = "signup"
                                                 THEN "refused" ELSE "checked"
  <1>1. "checked" \in Place /\ "refused" \in Place /\ "verify" \in Kinds
    BY DEF Place, Over, Kinds
  <1>2. ASSUME NEW op \in {"signup", "org"}, NEW at \in {"checked", "refused"},
               Begin(c, op, n, None, "verify", None, at)
        PROVE  /\ call[c].at = "idle" /\ call' \in [Calls -> Call]
               /\ \A d \in Calls \ {c} : call'[d] = call[d]
               /\ call'[c].op = op /\ call'[c].name = n /\ call'[c].of = None /\ call'[c].at = at
    <2>1. /\ op \in {"signup", "org", "oauth", "link", "mail", "follow"} /\ at \in Place
          /\ None \in Id \union {None} /\ None \in Calls \union {None}
      BY <1>1, <1>2
    <2> QED
      BY <1>1, <1>2, <2>1, BeginTyped
  <1>3. CASE BeginSignup(c, n)
    <2>1. PICK at \in {"checked", "refused"} :
            at = (IF n \in org THEN "refused" ELSE "checked") /\ Begin(c, "signup", n, None, "verify", None, at)
      BY <1>3 DEF BeginSignup
    <2>2. /\ call[c].at = "idle" /\ call' \in [Calls -> Call]
          /\ \A d \in Calls \ {c} : call'[d] = call[d]
          /\ call'[c].op = "signup" /\ call'[c].name = n /\ call'[c].of = None /\ call'[c].at = at
      BY <1>2, <2>1
    <2>3. ~BeginOrg(c, n)
      <3>1. ASSUME BeginOrg(c, n) PROVE FALSE
        <4>1. PICK p \in {"checked", "refused"} : Begin(c, "org", n, None, "verify", None, p)
          BY <3>1 DEF BeginOrg
        <4>2. call'[c].op = "org"
          BY <1>2, <4>1
        <4> QED
          BY <2>2, <4>2
      <3> QED
        BY <3>1
    <2> QED
      BY <2>1, <2>2, <2>3
  <1>4. CASE ~BeginSignup(c, n) /\ BeginOrg(c, n)
    <2>1. PICK at \in {"checked", "refused"} :
            /\ at = (IF user[n] # None /\ user[n].via = "signup" THEN "refused" ELSE "checked")
            /\ Begin(c, "org", n, None, "verify", None, at)
      BY <1>4 DEF BeginOrg
    <2>2. /\ call[c].at = "idle" /\ call' \in [Calls -> Call]
          /\ \A d \in Calls \ {c} : call'[d] = call[d]
          /\ call'[c].op = "org" /\ call'[c].name = n /\ call'[c].of = None /\ call'[c].at = at
      BY <1>2, <2>1
    <2> QED
      BY <1>4, <2>1, <2>2
  <1> QED
    BY <1>3, <1>4

\* So do the others, each with what it is about.
LEMMA BeginsOAuth ==
    ASSUME Typed, NEW c \in Calls, NEW n \in Names, BeginOAuth(c, n)
    PROVE  /\ call[c].at = "idle" /\ call' \in [Calls -> Call]
           /\ \A d \in Calls \ {c} : call'[d] = call[d]
           /\ call'[c].op = "oauth" /\ call'[c].of = identity[n] /\ call'[c].kind = "verify" /\ call'[c].link = None
           /\ call'[c].at = IF identity[n] # None THEN "found" ELSE "wanted"
  <1>1. "found" \in Place /\ "wanted" \in Place /\ "verify" \in Kinds
    BY DEF Place, Over, Kinds
  <1>2. identity[n] \in Id \union {None}
    BY DEF Typed
  <1>3. PICK at \in {"found", "wanted"} :
          at = (IF identity[n] # None THEN "found" ELSE "wanted") /\ Begin(c, "oauth", n, identity[n], "verify", None, at)
    BY DEF BeginOAuth
  <1>4. at \in Place /\ "oauth" \in {"signup", "org", "oauth", "link", "mail", "follow"}
        /\ None \in Calls \union {None}
    BY <1>1, <1>3
  <1> QED
    BY <1>1, <1>2, <1>3, <1>4, BeginTyped

LEMMA BeginsLink ==
    ASSUME Typed, NEW c \in Calls, NEW n \in Names, NEW id \in Id, BeginLink(c, n, id)
    PROVE  /\ call[c].at = "idle" /\ call' \in [Calls -> Call]
           /\ \A d \in Calls \ {c} : call'[d] = call[d]
           /\ call'[c].op = "link" /\ call'[c].of = id /\ call'[c].kind = "verify" /\ call'[c].link = None
           /\ call'[c].at = "known"
  <1>1. "known" \in Place /\ "verify" \in Kinds
    BY DEF Place, Over, Kinds
  <1>2. id \in Id \union {None}
    OBVIOUS
  <1>3. PICK at \in {"known"} :
          at = ("known") /\ Begin(c, "link", n, id, "verify", None, at)
    BY DEF BeginLink
  <1>4. at \in Place /\ "link" \in {"signup", "org", "oauth", "link", "mail", "follow"}
        /\ None \in Calls \union {None}
    BY <1>1, <1>3
  <1> QED
    BY <1>1, <1>2, <1>3, <1>4, BeginTyped

LEMMA BeginsMail ==
    ASSUME Typed, NEW c \in Calls, NEW n \in Names, NEW kind \in Kinds, BeginMail(c, n, kind)
    PROVE  /\ call[c].at = "idle" /\ call' \in [Calls -> Call]
           /\ \A d \in Calls \ {c} : call'[d] = call[d]
           /\ call'[c].op = "mail" /\ call'[c].of = user[n].id /\ call'[c].kind = kind /\ call'[c].link = None
           /\ call'[c].at = IF user[n].disabled \/ (kind = "verify" /\ user[n].verified) THEN "done" ELSE "wanted"
  <1>1. "done" \in Place /\ "wanted" \in Place /\ "verify" \in Kinds
    BY DEF Place, Over, Kinds
  <1>2. user[n].id \in Id \union {None}
    BY DEF BeginMail, Typed, Account
  <1>3. PICK at \in {"done", "wanted"} :
          at = (IF user[n].disabled \/ (kind = "verify" /\ user[n].verified) THEN "done" ELSE "wanted") /\ Begin(c, "mail", n, user[n].id, kind, None, at)
    BY DEF BeginMail
  <1>4. at \in Place /\ "mail" \in {"signup", "org", "oauth", "link", "mail", "follow"}
        /\ None \in Calls \union {None}
    BY <1>1, <1>3
  <1> QED
    BY <1>1, <1>2, <1>3, <1>4, BeginTyped

LEMMA FollowBegins ==
    ASSUME Typed, NEW c \in Calls, NEW t \in token, BeginFollow(c, t)
    PROVE  /\ call[c].at = "idle" /\ call' \in [Calls -> Call]
           /\ \A d \in Calls \ {c} : call'[d] = call[d]
           /\ call'[c].op = "follow" /\ call'[c].of = t.owner /\ call'[c].kind = t.kind /\ call'[c].link = t.id
           /\ call'[c].at = IF t.live THEN "found" ELSE "refused"
  <1>1. "found" \in Place /\ "refused" \in Place /\ "verify" \in Kinds
    BY DEF Place, Over, Kinds
  <1>2. /\ t.owner \in Id \union {None} /\ t.kind \in Kinds /\ t.id \in Calls \union {None}
        /\ (CHOOSE n \in Names : TRUE) \in Names
    <2>1. t \in Token
      BY DEF Typed
    <2>2. Names # {}
      BY AccountsAssumption
    <2> QED
      BY <2>1, <2>2 DEF Token
  <1>3. PICK at \in {"found", "refused"} :
          at = (IF t.live THEN "found" ELSE "refused") /\ Begin(c, "follow", CHOOSE n \in Names : TRUE, t.owner, t.kind, t.id, at)
    BY DEF BeginFollow
  <1>4. at \in Place /\ "follow" \in {"signup", "org", "oauth", "link", "mail", "follow"}
        /\ None \in Calls \union {None}
    BY <1>1, <1>3
  <1> QED
    BY <1>1, <1>2, <1>3, <1>4, BeginTyped

\* The moves a call makes once it is under way, Register's insertion aside.
Arrow(op, from, to) ==
    \/ op \in {"signup", "oauth"} /\ from = "checked" /\ to = "refused"
    \/ op = "signup" /\ from = "inserted" /\ to \in {"wanted", "done"}
    \/ op = "oauth" /\ from = "inserted" /\ to = "known"
    \/ op = "org" /\ from = "checked" /\ to \in {"refused", "done"}
    \/ op = "oauth" /\ from = "found" /\ to \in {"done", "panicked"}
    \/ op = "oauth" /\ from = "wanted" /\ to \in {"checked", "refused"}
    \/ from = "known" /\ to \in {"done", "refused"}
    \/ op \in {"mail", "signup"} /\ from = "wanted" /\ to = "cleared"
    \/ op \in {"mail", "signup"} /\ from = "cleared" /\ to \in {"done", "refused"}
    \/ op = "follow" /\ from = "found" /\ to = "acted"
    \/ op = "follow" /\ from = "acted" /\ to = "done"
    \/ from \notin Over \union {"idle"} /\ to = "cut"

\* The steps that only move a call on.
Moving(c) ==
    \/ Stamp(c) \/ InsertOrg(c) \/ SignIn(c) \/ (\E allowed \in BOOLEAN : Provision(c, allowed))
    \/ InsertIdentity(c) \/ Clear(c) \/ Issue(c) \/ Act(c) \/ Use(c) \/ Cut(c)
    \/ Register(c) /\ user[call[c].name] # None

Beginning(c) ==
    \/ \E n \in Names : \/ BeginSignup(c, n) \/ BeginOrg(c, n) \/ BeginOAuth(c, n)
                        \/ \E id \in Id : BeginLink(c, n, id)
                        \/ \E kind \in Kinds : BeginMail(c, n, kind)
    \/ \E t \in token : BeginFollow(c, t)

Inserting(c) == Register(c) /\ user[call[c].name] = None

Administering ==
    \/ \E n \in Names : Approve(n) \/ DeleteUser(n) \/ \E disabled \in BOOLEAN : SetDisabled(n, disabled)
    \/ \E t \in token : Expire(t)
    \/ Prune

LEMMA Steps ==
    ASSUME [Next]_vars
    PROVE  \/ \E c \in Calls : Beginning(c) \/ Moving(c) \/ Inserting(c)
           \/ Administering
           \/ UNCHANGED vars
  BY DEF Next, Beginning, Moving, Inserting, Administering

\* What a move leaves of a call.
LEMMA Moves ==
    ASSUME Typed, NEW c \in Calls, Moving(c)
    PROVE  /\ \A d \in Calls \ {c} : call'[d] = call[d]
           /\ call' \in [Calls -> Call]
           /\ call'[c].op = call[c].op /\ call'[c].name = call[c].name /\ call'[c].of = call[c].of
           /\ call'[c].kind = call[c].kind /\ call'[c].link = call[c].link
           /\ Arrow(call[c].op, call[c].at, call'[c].at)
  <1>1. \E place \in Place : Goto(c, place) /\ Arrow(call[c].op, call[c].at, place)
    <2>1. CASE Register(c) /\ user[call[c].name] # None
      BY <2>1 DEF Register, Arrow, Place, Over
    <2>2. CASE Stamp(c)
      BY <2>2 DEF Stamp, AfterStamp, Arrow, Place, Over
    <2>3. CASE InsertOrg(c) \/ SignIn(c) \/ \E allowed \in BOOLEAN : Provision(c, allowed)
      BY <2>3 DEF InsertOrg, SignIn, Provision, Arrow, Place, Over
    <2>4. CASE InsertIdentity(c) \/ Clear(c) \/ Issue(c)
      BY <2>4 DEF InsertIdentity, Clear, Issue, Mails, Arrow, Place, Over
    <2>5. CASE Act(c) \/ Use(c) \/ Cut(c)
      BY <2>5 DEF Act, Use, Cut, Busy, Arrow, Place, Over
    <2> QED
      BY <2>1, <2>2, <2>3, <2>4, <2>5 DEF Moving
  <1>2. PICK place \in Place : Goto(c, place) /\ Arrow(call[c].op, call[c].at, place)
    BY <1>1
  <1>3. call[c] \in Call
    BY CallFields
  <1>4. /\ call'[c].op = call[c].op /\ call'[c].name = call[c].name /\ call'[c].of = call[c].of
        /\ call'[c].kind = call[c].kind /\ call'[c].link = call[c].link /\ call'[c].at = place
    BY <1>2, <1>3 DEF Goto, Typed, Call
  <1>5. call' \in [Calls -> Call] /\ \A d \in Calls \ {c} : call'[d] = call[d]
    BY <1>2, GotoTyped DEF Goto, Typed
  <1> QED
    BY <1>2, <1>4, <1>5

\* What a request begins as.
LEMMA Begins ==
    ASSUME Typed, NEW c \in Calls, Beginning(c)
    PROVE  /\ \A d \in Calls \ {c} : call'[d] = call[d]
           /\ call' \in [Calls -> Call]
           /\ call[c].at = "idle"
           /\ call'[c].at \in {"refused", "checked", "found", "wanted", "known", "done"}
           /\ call'[c].at = "checked" => call'[c].op \in {"signup", "org"}
           /\ call'[c].at = "known" => call'[c].op = "link"
           /\ call'[c].at = "checked" => \E n \in Names : BeginSignup(c, n) \/ BeginOrg(c, n)
           /\ UNCHANGED tables /\ UNCHANGED <<earned, sets>>
  <1>1. ASSUME NEW n \in Names, BeginSignup(c, n) \/ BeginOrg(c, n)
        PROVE  /\ \A d \in Calls \ {c} : call'[d] = call[d]
               /\ call' \in [Calls -> Call]
               /\ call[c].at = "idle" /\ call'[c].op \in {"signup", "org"}
               /\ call'[c].at \in {"checked", "refused"}
    BY <1>1, BeginsName
  <1>2. ASSUME NEW n \in Names, BeginOAuth(c, n)
        PROVE  /\ \A d \in Calls \ {c} : call'[d] = call[d]
               /\ call' \in [Calls -> Call]
               /\ call[c].at = "idle" /\ call'[c].at \in {"found", "wanted"}
    BY <1>2, BeginsOAuth
  <1>3. ASSUME NEW n \in Names, NEW id \in Id, BeginLink(c, n, id)
        PROVE  /\ \A d \in Calls \ {c} : call'[d] = call[d]
               /\ call' \in [Calls -> Call]
               /\ call[c].at = "idle" /\ call'[c].at = "known" /\ call'[c].op = "link"
    BY <1>3, BeginsLink
  <1>4. ASSUME NEW n \in Names, NEW kind \in Kinds, BeginMail(c, n, kind)
        PROVE  /\ \A d \in Calls \ {c} : call'[d] = call[d]
               /\ call' \in [Calls -> Call]
               /\ call[c].at = "idle" /\ call'[c].at \in {"done", "wanted"}
    BY <1>4, BeginsMail
  <1>5. ASSUME NEW t \in token, BeginFollow(c, t)
        PROVE  /\ \A d \in Calls \ {c} : call'[d] = call[d]
               /\ call' \in [Calls -> Call]
               /\ call[c].at = "idle" /\ call'[c].at \in {"found", "refused"}
    BY <1>5, FollowBegins
  <1>6. UNCHANGED tables /\ UNCHANGED <<earned, sets>>
    BY DEF Beginning, BeginSignup, BeginOrg, BeginOAuth, BeginLink, BeginMail, BeginFollow, history
  <1> QED
    BY <1>1, <1>2, <1>3, <1>4, <1>5, <1>6 DEF Beginning

\* What an insertion leaves of a call.
LEMMA Inserts ==
    ASSUME Typed, NEW c \in Calls, Inserting(c)
    PROVE  /\ \A d \in Calls \ {c} : call'[d] = call[d]
           /\ call' \in [Calls -> Call]
           /\ call[c].at = "checked" /\ call[c].op \in {"signup", "oauth"} /\ user[call[c].name] = None
           /\ call'[c].op = call[c].op /\ call'[c].name = call[c].name
           /\ call'[c].kind = call[c].kind /\ call'[c].link = call[c].link
           /\ call'[c].at = "inserted" /\ call'[c].of = c
           /\ InsertUser(c, call[c].op)
           /\ UNCHANGED <<org, identity, token, history>>
  <1>1. call[c] \in Call /\ [call[c] EXCEPT !.at = "inserted", !.of = c] \in Call
    <2>1. call[c] \in Call
      BY CallFields
    <2> QED
      BY <2>1 DEF Call, Id, Place
  <1>2. call' = [call EXCEPT ![c] = [call[c] EXCEPT !.at = "inserted", !.of = c]]
    BY DEF Inserting, Register
  <1> QED
    BY <1>1, <1>2 DEF Inserting, Register, Typed, Call

\* The row it inserts.
LEMMA NewRow ==
    ASSUME Typed, NEW c \in Calls, Inserting(c)
    PROVE  /\ call[c].name \in Names /\ user[call[c].name] = None
           /\ user'[call[c].name] # None
           /\ user'[call[c].name].id = c /\ user'[call[c].name].via = call[c].op
           /\ ~user'[call[c].name].stamped
           /\ user'[call[c].name].approved /\ user'[call[c].name].verified
           /\ \A m \in Names \ {call[c].name} : user'[m] = user[m]
           /\ user' \in [Names -> Account \union {None}]
  <1> DEFINE row == [id |-> c, via |-> call[c].op, approved |-> TRUE,
                     verified |-> TRUE, disabled |-> FALSE, stamped |-> FALSE]
  <1>1. call[c].name \in Names /\ user[call[c].name] = None /\ call[c].op \in {"signup", "oauth"}
    BY CallFields, Inserts
  <1>2. row \in Account /\ row.id = c /\ row.via = call[c].op /\ ~row.stamped
        /\ row.approved /\ row.verified
    BY <1>1 DEF Account, Id
  <1>3. user' = [user EXCEPT ![call[c].name] = row] /\ user \in [Names -> Account \union {None}]
    BY Inserts DEF InsertUser, Typed
  <1> HIDE DEF row
  <1> QED
    BY <1>1, <1>2, <1>3

-----------------------------------------------------------------------------
(* Accounts and the calls that made them *)

Created(c) ==
    \/ call[c].op = "oauth" /\ call[c].at \in {"inserted", "known", "done", "refused", "cut"}
    \/ call[c].op = "signup"
       /\ call[c].at \in {"inserted", "wanted", "cleared", "done", "refused", "cut"}

\* An account was there from the start, or is that of a call which has inserted it.
IdInv ==
    \A n \in Names : user[n] # None =>
        \/ user[n].id = n /\ user[n].via = "signup" /\ user[n].stamped
        \/ /\ user[n].id \in Calls /\ Created(user[n].id)
           /\ call[user[n].id].name = n /\ call[user[n].id].of = user[n].id
           /\ call[user[n].id].op = user[n].via

LEMMA OneName ==
    ASSUME IdInv, NEW n \in Names, NEW m \in Names, user[n] # None, user[m] # None,
           user[n].id = user[m].id
    PROVE  n = m
  BY DEF IdInv

LEMMA NamesIt ==
    ASSUME IdInv, NEW id, Exists(id)
    PROVE  /\ NameOf(id) \in Names /\ user[NameOf(id)] # None /\ user[NameOf(id)].id = id
           /\ \A n \in Names : user[n] # None /\ user[n].id = id => n = NameOf(id)
  <1>1. \E n \in Names : user[n] # None /\ user[n].id = id
    BY DEF Exists
  <1>2. NameOf(id) \in Names /\ user[NameOf(id)] # None /\ user[NameOf(id)].id = id
    BY <1>1 DEF NameOf
  <1> QED
    BY <1>2, OneName

\* UPDATE ... WHERE id touches one row.
LEMMA UpdatesOne ==
    ASSUME Typed, IdInv, NEW id, Exists(id), NEW new, Update(id, new)
    PROVE  user' = [user EXCEPT ![NameOf(id)] = new]
  <1> DEFINE m == NameOf(id)
  <1>1. m \in Names /\ \A n \in Names : user[n] # None /\ user[n].id = id <=> n = m
    BY NamesIt
  <1> HIDE DEF m
  <1>2. user' = [user EXCEPT ![m] = new]
    BY <1>1 DEF Update, Typed
  <1> QED
    BY <1>2 DEF m

\* A created call stays so, under its name.
LEMMA CreatedKept ==
    ASSUME Typed, [Next]_vars, NEW c \in Calls, Created(c)
    PROVE  /\ Created(c)' /\ call'[c].name = call[c].name /\ call'[c].of = call[c].of
           /\ call'[c].op = call[c].op
  <1>1. ASSUME NEW d \in Calls, Beginning(d) PROVE call'[c] = call[c]
    BY <1>1, Begins DEF Created
  <1>2. ASSUME NEW d \in Calls, Inserting(d) PROVE call'[c] = call[c]
    BY <1>2, Inserts DEF Created
  <1>3. ASSUME NEW d \in Calls, Moving(d)
        PROVE  /\ Created(c)' /\ call'[c].name = call[c].name /\ call'[c].of = call[c].of
               /\ call'[c].op = call[c].op
    <2>1. CASE d = c
      BY <1>3, <2>1, Moves DEF Created, Arrow
    <2>2. CASE d # c
      BY <1>3, <2>2, Moves DEF Created
    <2> QED
      BY <2>1, <2>2
  <1>4. CASE Administering \/ UNCHANGED vars
    BY <1>4 DEF Administering, Approve, DeleteUser, SetDisabled, Expire, Prune, Admin, vars, Created
  <1> QED
    BY <1>1, <1>2, <1>3, <1>4, Steps DEF Created

\* How the users' table changes.
Edited(n) ==
    /\ user[n] # None
    /\ \E r \in Account : r.id = user[n].id /\ r.via = user[n].via
                          /\ (user[n].stamped => r.stamped) /\ user' = [user EXCEPT ![n] = r]

LEMMA UserSteps ==
    ASSUME Typed, IdInv, [Next]_vars
    PROVE  \/ UNCHANGED user
           \/ \E c \in Calls : Inserting(c)
           \/ \E n \in Names : Edited(n)
           \/ \E n \in Names : DeleteUser(n)
  <1>1. ASSUME NEW c \in Calls, Beginning(c) PROVE UNCHANGED user
    BY <1>1, Begins DEF tables
  <1>2. ASSUME NEW c \in Calls, Stamp(c) PROVE UNCHANGED user \/ \E n \in Names : Edited(n)
    <2>1. CASE Exists(c)
      <3> DEFINE n == NameOf(c)
      <3>1. n \in Names /\ user[n] # None /\ user[n] \in Account
        BY <2>1, NamesIt DEF Typed
      <3>2. StampedAs(c) \in Account /\ StampedAs(c).id = user[n].id /\ StampedAs(c).via = user[n].via
            /\ StampedAs(c).stamped
        <4>1. call[c].approves \in BOOLEAN /\ (~call[c].verifies \/ call[c].op = "oauth") \in BOOLEAN
          BY CallFields
        <4>2. PICK r \in Account, a \in BOOLEAN, v \in BOOLEAN :
                /\ r = user[n]
                /\ a = call[c].approves /\ v = (~call[c].verifies \/ call[c].op = "oauth")
          BY <3>1, <4>1
        <4> DEFINE s == [r EXCEPT !.approved = a, !.verified = v, !.stamped = TRUE]
        <4>3. s \in Account /\ s.id = r.id /\ s.via = r.via /\ s.stamped
          BY DEF Account
        <4>4. StampedAs(c) = s
          BY <4>2 DEF StampedAs, AccountOf
        <4> HIDE DEF s
        <4> QED
          BY <3>1, <4>2, <4>3, <4>4
      <3>3. user' = [user EXCEPT ![n] = StampedAs(c)]
        BY <1>2, <2>1, UpdatesOne DEF Stamp
      <3> QED
        BY <3>1, <3>2, <3>3 DEF Edited
    <2> QED
      BY <1>2, <2>1 DEF Stamp
  <1>3. ASSUME NEW c \in Calls, Act(c) PROVE UNCHANGED user \/ \E n \in Names : Edited(n)
    <2> DEFINE id == call[c].of
    <2>1. CASE call[c].kind = "verify" /\ Exists(id)
      <3> DEFINE n == NameOf(id)  r == [user[n] EXCEPT !.verified = TRUE]
      <3>1. n \in Names /\ user[n] # None /\ user[n] \in Account
        BY <2>1, NamesIt DEF Typed
      <3>2. r \in Account /\ r.id = user[n].id /\ r.via = user[n].via /\ r.stamped = user[n].stamped
        BY <3>1 DEF Account
      <3>3. user' = [user EXCEPT ![n] = r]
        BY <1>3, <2>1, UpdatesOne DEF Act, AccountOf
      <3> QED
        BY <3>1, <3>2, <3>3 DEF Edited
    <2> QED
      BY <1>3, <2>1 DEF Act
  <1>4. ASSUME NEW c \in Calls, Moving(c), ~Stamp(c), ~Act(c) PROVE UNCHANGED user
    BY <1>4 DEF Moving, InsertOrg, SignIn, Provision, InsertIdentity, Clear, Issue, Use, Cut, Register,
                tables
  <1>5. ASSUME NEW n \in Names, Approve(n) PROVE Edited(n)
    <2>1. user[n] \in Account /\ user[n] # None
      BY <1>5 DEF Approve, Typed
    <2>2. [user[n] EXCEPT !.approved = TRUE] \in Account
      BY <2>1 DEF Account
    <2> QED
      BY <1>5, <2>1, <2>2 DEF Approve, Edited, Account
  <1>6. ASSUME NEW n \in Names, NEW b \in BOOLEAN, SetDisabled(n, b) PROVE Edited(n)
    <2>1. user[n] \in Account /\ user[n] # None
      BY <1>6 DEF SetDisabled, Typed
    <2>2. [user[n] EXCEPT !.disabled = b] \in Account
      BY <2>1 DEF Account
    <2> QED
      BY <1>6, <2>1, <2>2 DEF SetDisabled, Edited, Account
  <1>7. CASE (\E t \in token : Expire(t)) \/ Prune \/ UNCHANGED vars
    BY <1>7 DEF Expire, Prune, vars, tables
  <1> QED
    BY <1>1, <1>2, <1>3, <1>4, <1>5, <1>6, <1>7, Steps DEF Administering

LEMMA IdKept ==
    ASSUME Typed, IdInv, [Next]_vars
    PROVE  IdInv'
  <1>1. \A c \in Calls : Created(c) => /\ Created(c)' /\ call'[c].name = call[c].name
                                      /\ call'[c].of = call[c].of /\ call'[c].op = call[c].op
    BY CreatedKept
  <1>2. CASE UNCHANGED user
    BY <1>1, <1>2 DEF IdInv
  <1>3. ASSUME NEW c \in Calls, Inserting(c) PROVE IdInv'
    <2> DEFINE n == call[c].name
    <2>1. n \in Names /\ user[n] = None
      BY <1>3, NewRow
    <2>2. \A m \in Names \ {n} : user'[m] = user[m]
      BY <1>3, NewRow
    <2>3. user'[n].id = c /\ user'[n].via = call[c].op
      BY <1>3, NewRow
    <2>4. Created(c)' /\ call'[c].name = n /\ call'[c].of = c /\ call'[c].op = call[c].op
      BY <1>3, Inserts DEF Created
    <2> HIDE DEF n
    <2> QED
      BY <1>1, <2>1, <2>2, <2>3, <2>4 DEF IdInv
  <1>4. ASSUME NEW n \in Names, Edited(n) PROVE IdInv'
    <2>1. /\ \A m \in Names : (user'[m] # None) = (user[m] # None)
          /\ \A m \in Names : user[m] # None =>
               /\ user'[m].id = user[m].id /\ user'[m].via = user[m].via
               /\ user[m].stamped => user'[m].stamped
      BY <1>4, NoneIsNoAccount DEF Edited, Typed
    <2> QED
      BY <1>1, <2>1 DEF IdInv
  <1>5. ASSUME NEW n \in Names, DeleteUser(n) PROVE IdInv'
    <2>1. \A m \in Names : user'[m] # None => user'[m] = user[m]
      BY <1>5 DEF DeleteUser, Typed
    <2> QED
      BY <1>1, <2>1 DEF IdInv
  <1> QED
    BY <1>2, <1>3, <1>4, <1>5, UserSteps

-----------------------------------------------------------------------------
(* Types are kept *)

LEMMA EditedTyped ==
    ASSUME Typed, NEW n \in Names, Edited(n)
    PROVE  user' \in [Names -> Account \union {None}]
  BY DEF Edited, Typed

\* What a step adds to the links and the identities it keeps.
LEMMA TokenTyped ==
    ASSUME Typed, [Next]_vars
    PROVE  token' \subseteq Token
  <1>1. ASSUME NEW t \in Token PROVE [t EXCEPT !.live = FALSE] \in Token
    BY <1>1 DEF Token
  <1>2. ASSUME NEW c \in Calls, Clear(c) PROVE token' \subseteq Token
    <2>1. ASSUME NEW t \in Token, NEW p \in BOOLEAN PROVE [t EXCEPT !.live = p] \in Token
      BY <2>1 DEF Token
    <2>2. ASSUME NEW t \in token
          PROVE [t EXCEPT !.live = t.live /\ ~(t.owner = call[c].of /\ t.kind = call[c].kind)] \in Token
      <3>1. (t.live /\ ~(t.owner = call[c].of /\ t.kind = call[c].kind)) \in BOOLEAN
        OBVIOUS
      <3> QED
        BY <2>1, <3>1 DEF Typed
    <2> QED
      BY <1>2, <2>2 DEF Clear
  <1>3. ASSUME NEW c \in Calls, Issue(c) PROVE token' \subseteq Token
    <2>1. call[c].kind \in Kinds /\ (Exists(call[c].of) => call[c].of \in Id)
      <3>1. Exists(call[c].of) => call[c].of \in Id
        BY NoneIsNoAccount DEF Exists, Typed, Account
      <3> QED
        BY <3>1, CallFields
    <2>2. Exists(call[c].of) => [id |-> c, owner |-> call[c].of, kind |-> call[c].kind, live |-> TRUE] \in Token
      BY <2>1 DEF Token
    <2> QED
      BY <1>3, <2>2 DEF Issue, Typed
  <1>4. ASSUME NEW c \in Calls, Use(c) PROVE token' \subseteq Token
    BY <1>1, <1>4 DEF Use, Typed
  <1>5. ASSUME NEW t \in token, Expire(t) PROVE token' \subseteq Token
    BY <1>1, <1>5 DEF Expire, Typed
  <1>6. ASSUME NEW c \in Calls, Beginning(c) PROVE token' \subseteq Token
    BY <1>6, Begins DEF tables, Typed
  <1>7. ASSUME NEW c \in Calls, Inserting(c) PROVE token' \subseteq Token
    BY <1>7, Inserts DEF Typed
  <1>8. ASSUME NEW c \in Calls, Moving(c), ~Clear(c), ~Issue(c), ~Use(c) PROVE token' \subseteq Token
    BY <1>8 DEF Moving, Stamp, InsertOrg, SignIn, Provision, InsertIdentity, Act, Cut, Register,
                tables, Typed
  <1>9. ASSUME NEW n \in Names, Approve(n) \/ DeleteUser(n) \/ \E disabled \in BOOLEAN : SetDisabled(n, disabled)
        PROVE  token' \subseteq Token
    BY <1>9 DEF Approve, DeleteUser, SetDisabled, Typed
  <1>10. CASE Prune \/ UNCHANGED vars
    BY <1>10 DEF Prune, vars, Typed
  <1> QED
    BY <1>2, <1>3, <1>4, <1>5, <1>6, <1>7, <1>8, <1>9, <1>10, Steps DEF Administering

LEMMA IdentitySteps ==
    ASSUME Typed, [Next]_vars
    PROVE  \/ UNCHANGED identity
           \/ \E c \in Calls : InsertIdentity(c)
           \/ \E n \in Names : DeleteUser(n)
  <1>1. ASSUME NEW c \in Calls, Beginning(c) PROVE UNCHANGED identity
    BY <1>1, Begins DEF tables
  <1>2. ASSUME NEW c \in Calls, Inserting(c) PROVE UNCHANGED identity
    BY <1>2, Inserts
  <1>3. ASSUME NEW c \in Calls, Moving(c), ~InsertIdentity(c) PROVE UNCHANGED identity
    BY <1>3 DEF Moving, Stamp, InsertOrg, SignIn, Provision, Clear, Issue, Use, Act, Cut, Register, tables
  <1>4. ASSUME NEW n \in Names, Approve(n) \/ \E disabled \in BOOLEAN : SetDisabled(n, disabled)
        PROVE  UNCHANGED identity
    BY <1>4 DEF Approve, SetDisabled
  <1>5. CASE (\E t \in token : Expire(t)) \/ Prune \/ UNCHANGED vars
    BY <1>5 DEF Expire, Prune, vars
  <1> QED
    BY <1>1, <1>2, <1>3, <1>4, <1>5, Steps DEF Administering

LEMMA IdentityTyped ==
    ASSUME Typed, [Next]_vars
    PROVE  identity' \in [Names -> Id \union {None}]
  <1>1. ASSUME NEW c \in Calls, InsertIdentity(c) PROVE identity' \in [Names -> Id \union {None}]
    BY <1>1, CallFields DEF InsertIdentity, Typed
  <1>2. ASSUME NEW n \in Names, DeleteUser(n) PROVE identity' \in [Names -> Id \union {None}]
    BY <1>2 DEF DeleteUser, Typed
  <1> QED
    BY <1>1, <1>2, IdentitySteps DEF Typed

LEMMA HistoryTyped ==
    ASSUME Typed, [Next]_vars
    PROVE  /\ sets' \in [Calls -> Nat]
           /\ earned' \subseteq Id \X {"approved", "verified"}
  <1>1. ASSUME NEW c \in Calls, Stamp(c)
        PROVE  UNCHANGED sets /\ earned' \subseteq Id \X {"approved", "verified"}
    <2>1. earned' = earned \union {<<c, "approved">> : x \in {x \in {1} : call[c].approves}}
                           \union {<<c, "verified">> : x \in {x \in {1} : ~call[c].verifies
                                                                \/ call[c].op = "oauth"}}
      BY <1>1 DEF Stamp
    <2> QED
      BY <1>1, <2>1 DEF Stamp, Typed, Id
  <1>2. ASSUME NEW c \in Calls, Act(c)
        PROVE  /\ sets' \in [Calls -> Nat]
               /\ earned' \subseteq Id \X {"approved", "verified"}
    <2>1. Exists(call[c].of) => call[c].of \in Id
      BY NoneIsNoAccount DEF Exists, Typed, Account
    <2>2. \A l \in Calls : [sets EXCEPT ![l] = @ + 1] \in [Calls -> Nat]
      BY DEF Typed
    <2>3. sets' \in [Calls -> Nat]
      <3>1. CASE call[c].link \in Calls
        BY <1>2, <2>2, <3>1 DEF Act, Typed
      <3>2. CASE call[c].link \notin Calls
        BY <1>2, <3>2 DEF Act, Typed
      <3> QED
        BY <3>1, <3>2
    <2> QED
      BY <1>2, <2>1, <2>3 DEF Act, Typed
  <1>3. ASSUME NEW n \in Names, Approve(n)
        PROVE  UNCHANGED sets /\ earned' \subseteq Id \X {"approved", "verified"}
    BY <1>3 DEF Approve, Typed, Account
  <1>4. ASSUME NEW c \in Calls, Beginning(c) PROVE UNCHANGED <<sets, earned>>
    BY <1>4, Begins
  <1>5. ASSUME NEW c \in Calls, Inserting(c) PROVE UNCHANGED <<sets, earned>>
    BY <1>5, Inserts DEF history
  <1>6. ASSUME NEW c \in Calls, Moving(c), ~Stamp(c), ~Act(c) PROVE UNCHANGED <<sets, earned>>
    BY <1>6 DEF Moving, InsertOrg, SignIn, Provision, InsertIdentity, Clear, Issue, Use, Cut, Register,
                history
  <1>7. ASSUME NEW n \in Names, DeleteUser(n) \/ \E disabled \in BOOLEAN : SetDisabled(n, disabled)
        PROVE  UNCHANGED <<sets, earned>>
    BY <1>7 DEF DeleteUser, SetDisabled, history
  <1>8. CASE (\E t \in token : Expire(t)) \/ Prune \/ UNCHANGED vars
    BY <1>8 DEF Expire, Prune, vars, history, Typed
  <1> QED
    BY <1>1, <1>2, <1>3, <1>4, <1>5, <1>6, <1>7, <1>8, Steps DEF Administering, Typed

LEMMA CallTyped ==
    ASSUME Typed, [Next]_vars
    PROVE  call' \in [Calls -> Call]
  <1>1. CASE Administering \/ UNCHANGED vars
    BY <1>1 DEF Administering, Approve, DeleteUser, SetDisabled, Expire, Prune, Admin, vars, Typed
  <1> QED
    BY <1>1, Steps, Begins, Moves, Inserts

LEMMA TypesKept ==
    ASSUME Typed, IdInv, [Next]_vars
    PROVE  Typed'
  <1>1. user' \in [Names -> Account \union {None}]
    <2>1. ASSUME NEW n \in Names, DeleteUser(n) PROVE user' \in [Names -> Account \union {None}]
      BY <2>1 DEF DeleteUser, Typed
    <2>2. ASSUME UNCHANGED user PROVE user' \in [Names -> Account \union {None}]
      BY <2>2 DEF Typed
    <2> QED
      BY <2>1, <2>2, UserSteps, NewRow, EditedTyped
  <1> QED
    BY <1>1, TokenTyped, IdentityTyped, HistoryTyped, CallTyped DEF Typed

LEMMA AtFirst == Init => Typed /\ IdInv
  <1> SUFFICES ASSUME Init PROVE Typed /\ IdInv
    OBVIOUS
  <1>1. ASSUME NEW n \in Names, NEW p \in BOOLEAN, NEW q \in BOOLEAN
        PROVE  Old(n, p, q) \in Account /\ Old(n, p, q).id = n /\ Old(n, p, q).via = "signup"
               /\ Old(n, p, q).stamped
    BY DEF Old, Account, Id
  <1>2. \/ user = [n \in Names |-> None]
        \/ \E p, q \in BOOLEAN : user = [n \in Names |-> Old(n, p, q)]
    BY DEF Init
  <1>3. user \in [Names -> Account \union {None}]
    BY <1>1, <1>2
  <1>4. IdInv
    BY <1>1, <1>2 DEF IdInv
  <1>5. call \in [Calls -> Call]
    <2>1. (CHOOSE n \in Names : TRUE) \in Names
      OBVIOUS
    <2> QED
      BY <2>1 DEF Init, Call, Place, Kinds
  <1>6. earned \subseteq Id \X {"approved", "verified"}
    BY DEF Init, Id
  <1> QED
    BY <1>3, <1>4, <1>5, <1>6 DEF Init, Typed

-----------------------------------------------------------------------------
(* One namespace.  The invariant also speaks of the two requests before    *)
(* their insertions: one that has passed its test while the other table    *)
(* holds the name overlapped with the request that put it there.           *)

Claims(c, op, n) == call[c].op = op /\ call[c].at = "checked" /\ call[c].name = n
Holds(n) == user[n] # None /\ user[n].via = "signup"

HolderInv ==
    \A n \in Names : n \notin shared =>
        /\ ~(Holds(n) /\ n \in org)
        /\ \A c \in Calls : /\ ~(Claims(c, "signup", n) /\ n \in org)
                            /\ ~(Claims(c, "org", n) /\ Holds(n))
        /\ \A c, d \in Calls : ~(Claims(c, "signup", n) /\ Claims(d, "org", n))

LEMMA ClaimsAreBusy ==
    ASSUME NEW c \in Calls, NEW op, NEW n, Claims(c, op, n)
    PROVE  c \in Busy /\ call[c].op = op /\ call[c].name = n
  BY DEF Claims, Busy, Over

\* Nothing new is claimed or held.
LEMMA HolderQuiet ==
    ASSUME HolderInv, UNCHANGED <<org, shared>>,
           \A n \in Names : Holds(n)' => Holds(n),
           \A c \in Calls, n \in Names, op \in {"signup", "org"} : Claims(c, op, n)' => Claims(c, op, n)
    PROVE  HolderInv'
  BY DEF HolderInv

LEMMA HeldBefore ==
    ASSUME Typed, IdInv, [Next]_vars, \A c \in Calls : ~Inserting(c)
    PROVE  \A n \in Names : Holds(n)' => Holds(n)
  <1>1. ASSUME NEW m \in Names, Edited(m) PROVE \A n \in Names : Holds(n)' => Holds(n)
    BY <1>1 DEF Edited, Typed, Holds
  <1>2. ASSUME NEW m \in Names, DeleteUser(m) PROVE \A n \in Names : Holds(n)' => Holds(n)
    BY <1>2 DEF DeleteUser, Typed, Holds
  <1>3. CASE UNCHANGED user
    BY <1>3 DEF Holds
  <1> QED
    BY <1>1, <1>2, <1>3, UserSteps

BeginsAs(c, n, op) ==
    \/ op = "signup" /\ BeginSignup(c, n)
    \/ op = "org" /\ BeginOrg(c, n)

\* A request that begins by looking the name up.
LEMMA BeginsClaim ==
    ASSUME Typed, NEW c \in Calls, NEW n \in Names,
           NEW op \in {"signup", "org"}, BeginsAs(c, n, op)
    PROVE  /\ \A d \in Calls \ {c} : call'[d] = call[d]
           /\ call'[c].op = op /\ call'[c].name = n
           /\ op = "signup" /\ call'[c].at = "checked" => n \notin org
           /\ op = "org" /\ call'[c].at = "checked" => ~Holds(n)
           /\ UNCHANGED <<user, org>>
           /\ shared \subseteq shared'
           /\ \A d \in Calls : d \in Busy /\ call[d].name = n /\ call[d].op \in {"signup", "org"} \ {op}
                                   => n \in shared'
  <1>1. CASE op = "signup" /\ BeginSignup(c, n)
    <2>1. /\ \A d \in Calls \ {c} : call'[d] = call[d]
          /\ call'[c].op = op /\ call'[c].name = n
          /\ call'[c].at = IF n \in org THEN "refused" ELSE "checked"
      BY <1>1, BeginsName
    <2>2. shared' = IF \E d \in Busy : call[d].op = "org" /\ call[d].name = n
                    THEN shared \union {n} ELSE shared
      BY <1>1 DEF BeginSignup
    <2> QED
      BY <1>1, <2>1, <2>2 DEF BeginSignup, tables
  <1>2. CASE op = "org" /\ BeginOrg(c, n)
    <2>1. /\ \A d \in Calls \ {c} : call'[d] = call[d]
          /\ call'[c].op = op /\ call'[c].name = n
          /\ call'[c].at = IF Holds(n) THEN "refused" ELSE "checked"
      BY <1>2, BeginsName DEF Holds
    <2>2. shared' = IF \E d \in Busy : call[d].op = "signup" /\ call[d].name = n
                    THEN shared \union {n} ELSE shared
      BY <1>2 DEF BeginOrg
    <2> QED
      BY <1>2, <2>1, <2>2 DEF BeginOrg, tables
  <1> QED
    BY <1>1, <1>2 DEF BeginsAs

LEMMA HolderBegins ==
    ASSUME Typed, HolderInv, NEW c \in Calls, NEW n \in Names,
           NEW op \in {"signup", "org"}, BeginsAs(c, n, op)
    PROVE  HolderInv'
  <1> SUFFICES ASSUME NEW m \in Names, m \notin shared'
               PROVE  /\ ~(Holds(m)' /\ m \in org')
                      /\ \A d \in Calls : /\ ~(Claims(d, "signup", m)' /\ m \in org')
                                          /\ ~(Claims(d, "org", m)' /\ Holds(m)')
                      /\ \A d, e \in Calls : ~(Claims(d, "signup", m)' /\ Claims(e, "org", m)')
    BY DEF HolderInv
  <1>1. m \notin shared /\ Holds(m)' = Holds(m) /\ org' = org
    BY BeginsClaim DEF Holds
  <1>2. \A d \in Calls \ {c}, o \in {"signup", "org"} : Claims(d, o, m)' = Claims(d, o, m)
    BY BeginsClaim DEF Claims
  <1>3. \A o \in {"signup", "org"} : Claims(c, o, m)' => o = op /\ n = m
    BY BeginsClaim DEF Claims
  <1>4. Claims(c, "signup", m)' => m \notin org
    BY <1>3, BeginsClaim DEF Claims
  <1>5. Claims(c, "org", m)' => ~Holds(m)
    BY <1>3, BeginsClaim DEF Claims
  <1>6. \A d \in Calls \ {c} : Claims(c, "signup", m)' => ~Claims(d, "org", m)
    BY <1>3, BeginsClaim, ClaimsAreBusy
  <1>7. \A d \in Calls \ {c} : Claims(c, "org", m)' => ~Claims(d, "signup", m)
    BY <1>3, BeginsClaim, ClaimsAreBusy
  <1> QED
    BY <1>1, <1>2, <1>3, <1>4, <1>5, <1>6, <1>7 DEF HolderInv

LEMMA HolderKept ==
    ASSUME Typed, IdInv, HolderInv, [Next]_vars
    PROVE  HolderInv'
  <1>1. ASSUME NEW c \in Calls, Beginning(c) PROVE HolderInv'
    <2>1. CASE \E n \in Names : BeginSignup(c, n) \/ BeginOrg(c, n)
      <3>1. ASSUME NEW n \in Names, BeginSignup(c, n) PROVE HolderInv'
        <4>1. BeginsAs(c, n, "signup")
          BY <3>1 DEF BeginsAs
        <4> QED
          BY <4>1, HolderBegins
      <3>2. ASSUME NEW n \in Names, BeginOrg(c, n) PROVE HolderInv'
        <4>1. BeginsAs(c, n, "org")
          BY <3>2 DEF BeginsAs
        <4> QED
          BY <4>1, HolderBegins
      <3> QED
        BY <2>1, <3>1, <3>2
    <2>2. CASE ~\E n \in Names : BeginSignup(c, n) \/ BeginOrg(c, n)
      <3>1. UNCHANGED <<org, shared>>
        BY <1>1, <2>2 DEF Beginning, BeginOAuth, BeginLink, BeginMail, BeginFollow, tables, history
      <3>2. \A n \in Names : Holds(n)' => Holds(n)
        BY <1>1, Begins DEF tables, Holds
      <3>3. \A d \in Calls, n \in Names, op \in {"signup", "org"} : Claims(d, op, n)' => Claims(d, op, n)
        BY <1>1, <2>2, Begins DEF Claims
      <3> QED
        BY <3>1, <3>2, <3>3, HolderQuiet
    <2> QED
      BY <2>1, <2>2
  <1>2. ASSUME NEW c \in Calls, Inserting(c) PROVE HolderInv'
    <2>0. PICK n \in Names : n = call[c].name
      BY <1>2, NewRow
    <2>1. UNCHANGED <<org, shared>>
      BY <1>2, <2>0, Inserts DEF history
    <2>2. \A d \in Calls, m \in Names, op \in {"signup", "org"} : Claims(d, op, m)' => Claims(d, op, m)
      BY <1>2, <2>0, Inserts DEF Claims
    <2>3. \A m \in Names \ {n} : Holds(m)' => Holds(m)
      BY <1>2, <2>0, NewRow DEF Holds
    <2>4. Holds(n)' => Claims(c, "signup", n)
      BY <1>2, <2>0, NewRow, Inserts DEF Holds, Claims
    <2>5. \A m \in Names : Holds(m)' => Holds(m) \/ Claims(c, "signup", m)
      BY <2>3, <2>4
    <2>6. \A d \in Calls, m \in Names : /\ Claims(d, "signup", m)' => Claims(d, "signup", m)
                                        /\ Claims(d, "org", m)' => Claims(d, "org", m)
      BY <2>2
    <2> QED
      BY <2>1, <2>5, <2>6 DEF HolderInv
  <1>3. ASSUME NEW c \in Calls, InsertOrg(c) PROVE HolderInv'
    <2> DEFINE n == call[c].name
    <2>1. Moving(c) /\ n \in Names /\ Claims(c, "org", n) /\ UNCHANGED <<user, shared>>
          /\ org' = org \union {n}
      BY <1>3, CallFields DEF Moving, InsertOrg, Claims, history
    <2>2. \A d \in Calls, m \in Names, op \in {"signup", "org"} : Claims(d, op, m)' => Claims(d, op, m)
      BY <2>1, Moves DEF Claims, Arrow
    <2>3. \A m \in Names : Holds(m)' = Holds(m)
      BY <2>1 DEF Holds
    <2> HIDE DEF n
    <2> QED
      BY <2>1, <2>2, <2>3 DEF HolderInv
  <1>4. ASSUME NEW c \in Calls, Moving(c), ~InsertOrg(c), \A d \in Calls : ~Inserting(d) PROVE HolderInv'
    <2>1. UNCHANGED <<org, shared>>
      BY <1>4 DEF Moving, Stamp, SignIn, Provision, InsertIdentity, Clear, Issue, Act, Use, Cut, Register,
                  tables, history
    <2>2. \A d \in Calls, m \in Names, op \in {"signup", "org"} : Claims(d, op, m)' => Claims(d, op, m)
      BY <1>4, Moves DEF Claims, Arrow
    <2> QED
      BY <1>4, <2>1, <2>2, HeldBefore, HolderQuiet
  <1>5. ASSUME Administering \/ UNCHANGED vars, \A d \in Calls : ~Inserting(d) PROVE HolderInv'
    <2>1. UNCHANGED <<org, shared>>
      BY <1>5 DEF Administering, Approve, DeleteUser, SetDisabled, Expire, Prune, vars, history
    <2>2. UNCHANGED call
      BY <1>5 DEF Administering, Approve, DeleteUser, SetDisabled, Expire, Prune, Admin, vars
    <2>3. \A d \in Calls, m \in Names, op \in {"signup", "org"} : Claims(d, op, m)' => Claims(d, op, m)
      BY <2>2 DEF Claims
    <2> QED
      BY <1>5, <2>1, <2>3, HeldBefore, HolderQuiet
  <1> QED
    BY <1>1, <1>2, <1>3, <1>4, <1>5, Steps

(* A username and an organization's name are the same only when the two    *)
(* requests overlapped (signup.rs, organization.rs).                       *)
THEOREM NamesNotShared == Spec => []OneHolder
  <1>1. Init => Typed /\ IdInv /\ HolderInv
    <2>1. Init => HolderInv
      BY DEF Init, HolderInv, Claims
    <2> QED
      BY <2>1, AtFirst
  <1>2. Typed /\ IdInv /\ HolderInv /\ [Next]_vars => (Typed /\ IdInv /\ HolderInv)'
    BY TypesKept, IdKept, HolderKept
  <1>3. HolderInv => OneHolder
    BY DEF HolderInv, OneHolder, Holds
  <1> QED
    BY <1>1, <1>2, <1>3, PTL DEF Spec

-----------------------------------------------------------------------------
(* Subjects and their accounts *)

LEMMA ExistsKept ==
    ASSUME Typed, IdInv, [Next]_vars, NEW id, Exists(id), \A n \in Names : ~DeleteUser(n)
    PROVE  Exists(id)'
  <1>1. PICK n \in Names : user[n] # None /\ user[n].id = id
    BY DEF Exists
  <1>2. CASE UNCHANGED user
    BY <1>2 DEF Exists
  <1>3. ASSUME NEW c \in Calls, Inserting(c) PROVE Exists(id)'
    BY <1>1, <1>3, NewRow DEF Exists
  <1>4. ASSUME NEW m \in Names, Edited(m) PROVE Exists(id)'
    <2>1. user'[n] # None /\ user'[n].id = id
      BY <1>1, <1>4, NoneIsNoAccount DEF Edited, Typed
    <2> QED
      BY <2>1 DEF Exists
  <1> QED
    BY <1>2, <1>3, <1>4, UserSteps

\* A callback's call ends well, once it has its account, only by linking it.
LEMMA KnownLinks ==
    ASSUME Typed, NEW c \in Calls, Moving(c), call[c].op = "oauth", Created(c), call'[c].at = "done"
    PROVE  InsertIdentity(c)
  <1>1. call[c].at = "known"
    BY Moves DEF Created, Arrow
  <1>2. ~Cut(c)
    <2> SUFFICES ASSUME Cut(c) PROVE FALSE
      OBVIOUS
    <2>1. call'[c].at = "cut"
      BY CallFields DEF Cut, Goto, Typed
    <2> QED
      BY <2>1
  <1> QED
    BY <1>1, <1>2 DEF Moving, Stamp, InsertOrg, SignIn, Provision, Clear, Issue, Act, Use, Register

Own(n) == user[n] # None /\ user[n].via = "oauth" /\ call[user[n].id].at = "done"

\* An account that a callback made carries the callback's id.
LEMMA ByCallback ==
    ASSUME IdInv, NEW n \in Names, user[n] # None, user[n].via = "oauth"
    PROVE  /\ user[n].id \in Calls /\ Created(user[n].id)
           /\ call[user[n].id].name = n /\ call[user[n].id].of = user[n].id
           /\ call[user[n].id].op = "oauth"
  BY DEF IdInv

LEMMA OwnBefore ==
    ASSUME Typed, IdInv, [Next]_vars, NEW n \in Names, Own(n)',
           \A c \in Calls : ~InsertIdentity(c)
    PROVE  Own(n) /\ user'[n].id = user[n].id
  <1>1. ASSUME NEW c \in Calls, Inserting(c) PROVE Own(n) /\ user'[n].id = user[n].id
    <2>1. n # call[c].name
      BY <1>1, NewRow, Inserts DEF Own
    <2>2. user'[n] = user[n] /\ user[n] # None /\ user[n].via = "oauth"
      BY <1>1, <2>1, NewRow DEF Own
    <2>3. user[n].id # c /\ user[n].id \in Calls
      BY <1>1, <2>2, ByCallback, Inserts DEF Created
    <2> QED
      BY <1>1, <2>2, <2>3, Inserts DEF Own
  <1>2. ASSUME \A c \in Calls : ~Inserting(c) PROVE Own(n) /\ user'[n].id = user[n].id
    <2>1. user[n] # None /\ user[n].via = "oauth" /\ user'[n].id = user[n].id
      <3>1. ASSUME NEW m \in Names, Edited(m)
            PROVE  user[n] # None /\ user[n].via = "oauth" /\ user'[n].id = user[n].id
        BY <3>1 DEF Edited, Own, Typed
      <3>2. ASSUME NEW m \in Names, DeleteUser(m)
            PROVE  user[n] # None /\ user[n].via = "oauth" /\ user'[n].id = user[n].id
        BY <3>2 DEF DeleteUser, Own, Typed
      <3>3. CASE UNCHANGED user
        BY <3>3 DEF Own
      <3> QED
        BY <1>2, <3>1, <3>2, <3>3, UserSteps
    <2>2. PICK k \in Calls : k = user[n].id
      BY <2>1, ByCallback
    <2>3. Created(k) /\ call[k].op = "oauth" /\ call'[k].at = "done"
      BY <2>1, <2>2, ByCallback DEF Own
    <2>4. call[k].at = "done"
      <3>1. ASSUME NEW d \in Calls, Beginning(d) PROVE call[k].at = "done"
        BY <2>3, <3>1, Begins DEF Created
      <3>2. ASSUME NEW d \in Calls, Moving(d) PROVE call[k].at = "done"
        BY <2>3, <3>2, Moves, KnownLinks
      <3>3. CASE Administering \/ UNCHANGED vars
        BY <2>3, <3>3 DEF Administering, Approve, DeleteUser, SetDisabled, Expire, Prune, Admin, vars
      <3> QED
        BY <1>2, <3>1, <3>2, <3>3, Steps
    <2> QED
      BY <2>1, <2>2, <2>4 DEF Own
  <1> QED
    BY <1>1, <1>2

Known(s) == identity[s] # None => \E n \in Names : user[n] # None /\ user[n].id = identity[s]
Owned(n) == Own(n) => identity[n] = user[n].id

LEMMA LinkKept ==
    ASSUME Typed, IdInv, Linked, [Next]_vars
    PROVE  Linked'
  <1>0. \A n \in Names : Known(n) /\ Owned(n)
    BY DEF Linked, Known, Owned, Own, Exists
  <1> SUFFICES \A n \in Names : Known(n)' /\ Owned(n)'
    BY DEF Linked, Known, Owned, Own, Exists
  <1>1. ASSUME NEW c \in Calls, InsertIdentity(c) PROVE \A n \in Names : Known(n)' /\ Owned(n)'
    <2>1. Moving(c) /\ UNCHANGED user
      BY <1>1 DEF Moving, InsertIdentity
    <2>2. PICK m \in Names : m = call[c].name
      BY CallFields
    <2>3. PICK id \in Id \union {None} : id = call[c].of
      BY CallFields
    <2>4. \/ UNCHANGED identity /\ call'[c].at = "refused"
          \/ Exists(id) /\ identity[m] = None /\ identity' = [identity EXCEPT ![m] = id]
      <3>1. CASE Exists(id) /\ identity[m] = None
        BY <1>1, <2>2, <2>3, <3>1 DEF InsertIdentity
      <3>2. CASE ~(Exists(id) /\ identity[m] = None)
        <4>1. Goto(c, "refused") /\ UNCHANGED identity
          BY <1>1, <2>2, <2>3, <3>2 DEF InsertIdentity
        <4> QED
          BY <4>1 DEF Goto, Typed, Call
      <3> QED
        BY <3>1, <3>2
    <2>5. ASSUME NEW s \in Names PROVE Known(s)'
      BY <1>0, <2>1, <2>4 DEF Typed, Known, Exists
    <2>6. ASSUME NEW n \in Names, Own(n)' PROVE identity'[n] = user'[n].id
      <3>1. user[n] # None /\ user[n].via = "oauth"
        BY <2>1, <2>6 DEF Own
      <3>2. PICK k \in Calls : k = user[n].id
        BY <3>1, ByCallback
      <3>3. call'[k].at = "done" /\ call[k].name = n /\ call[k].of = k
        BY <2>1, <2>6, <3>1, <3>2, ByCallback DEF Own
      <3>4. CASE k = c
        BY <2>1, <2>2, <2>3, <2>4, <3>2, <3>3, <3>4 DEF Typed
      <3>5. CASE k # c
        <4>1. identity[n] = k
          BY <1>0, <2>1, <3>1, <3>2, <3>3, <3>5, Moves DEF Own, Owned
        <4> QED
          BY <2>1, <2>4, <3>2, <4>1 DEF Typed
      <3> QED
        BY <3>4, <3>5
    <2> QED
      BY <2>5, <2>6 DEF Owned
  <1>2. ASSUME NEW m \in Names, DeleteUser(m) PROVE \A n \in Names : Known(n)' /\ Owned(n)'
    <2>1. /\ user[m] # None /\ UNCHANGED call /\ user' = [user EXCEPT ![m] = None]
          /\ identity' = [s \in Names |-> IF identity[s] = user[m].id THEN None ELSE identity[s]]
      BY <1>2 DEF DeleteUser, Admin
    <2>2. ASSUME NEW s \in Names, identity'[s] # None PROVE Known(s)'
      <3>1. identity'[s] = identity[s] /\ identity[s] # user[m].id /\ identity[s] # None
        BY <2>1, <2>2
      <3>2. PICK n \in Names : user[n] # None /\ user[n].id = identity[s]
        BY <1>0, <3>1 DEF Known
      <3>3. user'[n] = user[n]
        BY <2>1, <3>1, <3>2 DEF Typed
      <3> QED
        BY <3>1, <3>2, <3>3 DEF Known
    <2>3. ASSUME NEW n \in Names, Own(n)' PROVE identity'[n] = user'[n].id
      <3>1. n # m /\ user'[n] = user[n] /\ Own(n)
        BY <2>1, <2>3 DEF Own, Typed
      <3>2. user[n].id # user[m].id
        BY <2>1, <3>1, OneName DEF Own
      <3> QED
        BY <1>0, <2>1, <3>1, <3>2 DEF Owned
    <2> QED
      BY <2>2, <2>3 DEF Known, Owned
  <1>3. ASSUME \A c \in Calls : ~InsertIdentity(c), \A n \in Names : ~DeleteUser(n)
        PROVE  \A n \in Names : Known(n)' /\ Owned(n)'
    <2>1. UNCHANGED identity
      BY <1>3, IdentitySteps
    <2>2. ASSUME NEW s \in Names, identity[s] # None PROVE Known(s)'
      <3>1. PICK id : id = identity[s]
        OBVIOUS
      <3>2. Exists(id)'
        BY <1>0, <1>3, <2>2, <3>1, ExistsKept DEF Known, Exists
      <3> QED
        BY <2>1, <3>1, <3>2 DEF Known, Exists
    <2>3. ASSUME NEW n \in Names, Own(n)' PROVE identity'[n] = user'[n].id
      BY <1>0, <1>3, <2>1, <2>3, OwnBefore DEF Owned
    <2> QED
      BY <2>1, <2>2, <2>3 DEF Known, Owned
  <1> QED
    BY <1>1, <1>2, <1>3

(* A linked subject has its account, and an account made by a finished     *)
(* callback its subject (oauth.rs, complete and link).                     *)
THEOREM SubjectsLinked == Spec => []Linked
  <1>1. Init => Typed /\ IdInv /\ Linked
    <2>1. Init => Linked
      BY DEF Init, Linked, Old
    <2> QED
      BY <2>1, AtFirst
  <1>2. Typed /\ IdInv /\ Linked /\ [Next]_vars => (Typed /\ IdInv /\ Linked)'
    BY TypesKept, IdKept, LinkKept
  <1> QED
    BY <1>1, <1>2, PTL DEF Spec

-----------------------------------------------------------------------------
(* Who refers to an account: one that was there at the start, or one that  *)
(* its call has inserted.                                                  *)

Ref(id) == id \in Names \/ (id \in Calls /\ Created(id))

RefInv ==
    /\ \A c \in Calls : call[c].of # None => Ref(call[c].of)
    /\ \A t \in token : Ref(t.owner)
    /\ \A n \in Names : identity[n] # None => Ref(identity[n])

LEMMA ExistsRef ==
    ASSUME IdInv, NEW id, Exists(id)
    PROVE  Ref(id)
  <1>1. PICK n \in Names : user[n] # None /\ user[n].id = id
    BY DEF Exists
  <1> QED
    BY <1>1 DEF IdInv, Ref

LEMMA RefKept ==
    ASSUME Typed, [Next]_vars, NEW id, Ref(id)
    PROVE  Ref(id)'
  <1>1. ASSUME id \in Calls, Created(id) PROVE Created(id)'
    BY <1>1, CreatedKept
  <1> QED
    BY <1>1 DEF Ref

\* Where a link comes from.
LEMMA TokenSteps ==
    ASSUME Typed, [Next]_vars, NEW t \in token'
    PROVE  \/ \E u \in token : u.id = t.id /\ u.owner = t.owner /\ u.kind = t.kind /\ (t.live => u.live)
           \/ \E c \in Calls : /\ Issue(c) /\ Exists(call[c].of) /\ Mails(c) /\ call[c].at = "cleared"
                               /\ t.id = c /\ t.owner = call[c].of /\ t.kind = call[c].kind
  <1> DEFINE Was == \E u \in token : u.id = t.id /\ u.owner = t.owner /\ u.kind = t.kind /\ (t.live => u.live)
  <1>0. ASSUME NEW u \in token, NEW b
        PROVE  /\ [u EXCEPT !.live = b].id = u.id /\ [u EXCEPT !.live = b].owner = u.owner
               /\ [u EXCEPT !.live = b].kind = u.kind /\ [u EXCEPT !.live = b].live = b
    BY DEF Typed, Token
  <1>1. ASSUME NEW c \in Calls, Clear(c) PROVE Was
    <2>1. PICK u \in token :
              t = [u EXCEPT !.live = u.live /\ ~(u.owner = call[c].of /\ u.kind = call[c].kind)]
      BY <1>1 DEF Clear
    <2>2. PICK b : t = [u EXCEPT !.live = b] /\ (b => u.live)
      BY <2>1
    <2> QED
      BY <1>0, <2>2
  <1>2. ASSUME NEW c \in Calls, Issue(c), ~Was
        PROVE  /\ Issue(c) /\ Exists(call[c].of) /\ Mails(c) /\ call[c].at = "cleared"
               /\ t.id = c /\ t.owner = call[c].of /\ t.kind = call[c].kind
    <2>1. t \notin token
      BY <1>2
    <2>2. Exists(call[c].of) /\ token' = token \union {[id |-> c, owner |-> call[c].of,
                                                        kind |-> call[c].kind, live |-> TRUE]}
      BY <1>2, <2>1 DEF Issue
    <2> QED
      BY <1>2, <2>1, <2>2 DEF Issue
  <1>3. ASSUME NEW c \in Calls, Use(c) PROVE Was
    <2>1. PICK u \in token : t = IF u.id = call[c].link THEN [u EXCEPT !.live = FALSE] ELSE u
      BY <1>3 DEF Use
    <2>2. u.live \in BOOLEAN
      BY DEF Typed, Token
    <2>3. CASE u.id = call[c].link
      BY <1>0, <2>1, <2>3
    <2> QED
      BY <2>1, <2>2, <2>3
  <1>4. ASSUME NEW u \in token, Expire(u) PROVE Was
    <2>1. t \in token \/ t = [u EXCEPT !.live = FALSE]
      BY <1>4 DEF Expire
    <2>2. CASE t \in token
      BY <2>2
    <2>3. CASE t = [u EXCEPT !.live = FALSE]
      <3>1. t.id = u.id /\ t.owner = u.owner /\ t.kind = u.kind /\ t.live = FALSE
        BY <1>0, <2>3
      <3> QED
        BY <3>1
    <2> QED
      BY <2>1, <2>2, <2>3
  <1>5. ASSUME NEW c \in Calls, Beginning(c) PROVE Was
    BY <1>5, Begins DEF tables
  <1>6. ASSUME NEW c \in Calls, Inserting(c) PROVE Was
    BY <1>6, Inserts
  <1>7. ASSUME NEW c \in Calls, Moving(c), ~Clear(c), ~Issue(c), ~Use(c) PROVE Was
    BY <1>7 DEF Moving, Stamp, InsertOrg, SignIn, Provision, InsertIdentity, Act, Cut, Register, tables
  <1>8. ASSUME NEW n \in Names, Approve(n) \/ DeleteUser(n) \/ \E disabled \in BOOLEAN : SetDisabled(n, disabled)
        PROVE  Was
    BY <1>8 DEF Approve, DeleteUser, SetDisabled
  <1>9. ASSUME Prune \/ UNCHANGED vars PROVE Was
    BY <1>9 DEF Prune, vars
  <1> HIDE DEF Was
  <1>10. ASSUME NEW c \in Calls, Moving(c) PROVE Was \/ Issue(c)
    BY <1>1, <1>3, <1>7, <1>10
  <1>11. ASSUME Administering PROVE Was
    BY <1>4, <1>8, <1>9, <1>11 DEF Administering
  <1>12. Was \/ \E c \in Calls : Issue(c)
    BY <1>5, <1>6, <1>9, <1>10, <1>11, Steps
  <1> QED
    BY <1>2, <1>12 DEF Was

\* The account a request is about.
LEMMA BeginsOf ==
    ASSUME Typed, NEW c \in Calls, Beginning(c)
    PROVE  \/ call'[c].of = None
           \/ \E n \in Names : call'[c].of = identity[n]
           \/ Exists(call'[c].of)
           \/ \E t \in token : call'[c].of = t.owner
  <1>1. ASSUME NEW n \in Names, BeginSignup(c, n) \/ BeginOrg(c, n) PROVE call'[c].of = None
    BY <1>1, BeginsName
  <1>2. ASSUME NEW n \in Names, BeginOAuth(c, n) PROVE call'[c].of = identity[n]
    BY <1>2, BeginsOAuth
  <1>3. ASSUME NEW n \in Names, NEW id \in Id, BeginLink(c, n, id) PROVE call'[c].of = id /\ Exists(id)
    BY <1>3, BeginsLink DEF BeginLink
  <1>4. ASSUME NEW n \in Names, NEW kind \in Kinds, BeginMail(c, n, kind)
        PROVE  call'[c].of = user[n].id /\ user[n] # None
    BY <1>4, BeginsMail DEF BeginMail
  <1>5. ASSUME NEW t \in token, BeginFollow(c, t) PROVE call'[c].of = t.owner
    BY <1>5, FollowBegins
  <1> QED
    BY <1>1, <1>2, <1>3, <1>4, <1>5 DEF Beginning, Exists

LEMMA RefsKept ==
    ASSUME Typed, IdInv, RefInv, [Next]_vars
    PROVE  RefInv'
  <1>1. ASSUME NEW id, Ref(id) PROVE Ref(id)'
    BY <1>1, RefKept
  <1>2. ASSUME NEW id, Exists(id) PROVE Ref(id)'
    BY <1>1, <1>2, ExistsRef
  <1>3. ASSUME NEW c \in Calls, NEW id, id = call'[c].of, id # None PROVE Ref(id)'
    <2>1. ASSUME NEW d \in Calls, Beginning(d) PROVE Ref(id)'
      <3>1. CASE d = c
        BY <1>1, <1>2, <1>3, <2>1, <3>1, BeginsOf DEF RefInv
      <3>2. CASE d # c
        BY <1>1, <1>3, <2>1, <3>2, Begins DEF RefInv
      <3> QED
        BY <3>1, <3>2
    <2>2. ASSUME NEW d \in Calls, Inserting(d) PROVE Ref(id)'
      <3>1. CASE d = c
        BY <1>3, <2>2, <3>1, Inserts DEF Ref, Created
      <3>2. CASE d # c
        BY <1>1, <1>3, <2>2, <3>2, Inserts DEF RefInv
      <3> QED
        BY <3>1, <3>2
    <2>3. ASSUME NEW d \in Calls, Moving(d) PROVE Ref(id)'
      BY <1>1, <1>3, <2>3, Moves DEF RefInv
    <2>4. CASE Administering \/ UNCHANGED vars
      <3>1. UNCHANGED call
        BY <2>4 DEF Administering, Approve, DeleteUser, SetDisabled, Expire, Prune, Admin, vars
      <3> QED
        BY <1>1, <1>3, <3>1 DEF RefInv
    <2> QED
      BY <2>1, <2>2, <2>3, <2>4, Steps
  <1>4. ASSUME NEW t \in token', NEW id, id = t.owner PROVE Ref(id)'
    BY <1>1, <1>2, <1>4, TokenSteps DEF RefInv
  <1>5. ASSUME NEW n \in Names, NEW id, id = identity'[n], id # None PROVE Ref(id)'
    <2>1. ASSUME NEW c \in Calls, InsertIdentity(c) PROVE Ref(id)'
      <3>1. PICK m \in Names : m = call[c].name
        BY CallFields
      <3>2. PICK k \in Id \union {None} : k = call[c].of
        BY CallFields
      <3>3. \/ UNCHANGED identity
            \/ Exists(k) /\ identity' = [identity EXCEPT ![m] = k]
        BY <2>1, <3>1, <3>2 DEF InsertIdentity
      <3>4. id = identity[n] \/ (id = k /\ Exists(k))
        BY <1>5, <3>3 DEF Typed
      <3> QED
        BY <1>1, <1>2, <1>5, <3>4 DEF RefInv
    <2>2. ASSUME NEW m \in Names, DeleteUser(m) PROVE Ref(id)'
      BY <1>1, <1>5, <2>2 DEF DeleteUser, RefInv
    <2>3. CASE UNCHANGED identity
      BY <1>1, <1>5, <2>3 DEF RefInv
    <2> QED
      BY <2>1, <2>2, <2>3, IdentitySteps
  <1> QED
    BY <1>3, <1>4, <1>5 DEF RefInv, Ref, Created

-----------------------------------------------------------------------------
(* Approval and verification.  Until its stamp a row has the columns'      *)
(* defaults, so nobody can ask for a confirmation link of its: the stamp   *)
(* meets neither an earned status nor a link.                              *)

Raw(c) == call[c].op \in {"signup", "oauth"} /\ call[c].at = "inserted"
Asking(d, id) == /\ Mails(d) /\ call[d].kind = "verify" /\ call[d].of = id
                 /\ call[d].at \in {"wanted", "cleared"}

RawInv ==
    \A c \in Calls : Raw(c) =>
        /\ call[c].of = c
        /\ \A n \in Names : user[n] # None /\ user[n].id = c => ~user[n].stamped
        /\ \A t \in token : t.owner = c => t.kind # "verify"
        /\ \A d \in Calls : ~Asking(d, c)

Default ==
    \A n \in Names : user[n] # None /\ ~user[n].stamped => user[n].approved /\ user[n].verified

\* A single row goes up: its status is kept or earned.
Raised(n) ==
    /\ user[n] # None
    /\ \E r \in Account :
        /\ r.id = user[n].id /\ r.stamped = user[n].stamped
        /\ user[n].approved => r.approved
        /\ user[n].verified => r.verified
        /\ r.approved => user[n].approved \/ <<r.id, "approved">> \in earned'
        /\ r.verified => user[n].verified \/ <<r.id, "verified">> \in earned'
        /\ user' = [user EXCEPT ![n] = r]

Stamped(c, n) ==
    /\ Raw(c) /\ user[n] # None /\ user[n].id = c
    /\ \E r \in Account :
        /\ r.id = c /\ r.stamped
        /\ r.approved => <<c, "approved">> \in earned'
        /\ r.verified => <<c, "verified">> \in earned'
        /\ user' = [user EXCEPT ![n] = r]

LEMMA StampSteps ==
    ASSUME Typed, IdInv, NEW c \in Calls, Stamp(c), Exists(c)
    PROVE  Stamped(c, NameOf(c)) /\ NameOf(c) \in Names
  <1> DEFINE n == NameOf(c)
  <1>1. n \in Names /\ user[n] # None /\ user[n].id = c /\ user[n] \in Account
    BY NamesIt DEF Typed
  <1>2. PICK p \in BOOLEAN, q \in BOOLEAN :
            p = call[c].approves /\ q = (~call[c].verifies \/ call[c].op = "oauth")
    BY CallFields
  <1>3. ASSUME NEW r \in Account
        PROVE  /\ [r EXCEPT !.approved = p, !.verified = q, !.stamped = TRUE] \in Account
               /\ [r EXCEPT !.approved = p, !.verified = q, !.stamped = TRUE].id = r.id
               /\ [r EXCEPT !.approved = p, !.verified = q, !.stamped = TRUE].approved = p
               /\ [r EXCEPT !.approved = p, !.verified = q, !.stamped = TRUE].verified = q
               /\ [r EXCEPT !.approved = p, !.verified = q, !.stamped = TRUE].stamped
    BY DEF Account
  <1>4. StampedAs(c) = [user[n] EXCEPT !.approved = p, !.verified = q, !.stamped = TRUE]
    BY <1>2 DEF StampedAs, AccountOf
  <1>5. user' = [user EXCEPT ![n] = StampedAs(c)]
    BY UpdatesOne DEF Stamp
  <1>6. (p => <<c, "approved">> \in earned') /\ (q => <<c, "verified">> \in earned')
    BY <1>2 DEF Stamp
  <1>7. Raw(c)
    BY DEF Stamp, Raw
  <1> HIDE DEF n
  <1> QED
    BY <1>1, <1>3, <1>4, <1>5, <1>6, <1>7 DEF Stamped, n

LEMMA StatusSteps ==
    ASSUME Typed, IdInv, [Next]_vars
    PROVE  \/ UNCHANGED user
           \/ \E c \in Calls : Inserting(c)
           \/ \E n \in Names : Raised(n)
           \/ \E c \in Calls, n \in Names : Stamped(c, n) /\ Stamp(c)
           \/ \E n \in Names : DeleteUser(n)
  <1>1. ASSUME NEW c \in Calls, Beginning(c) PROVE UNCHANGED user
    BY <1>1, Begins DEF tables
  <1>2. ASSUME NEW c \in Calls, Stamp(c)
        PROVE  UNCHANGED user \/ \E n \in Names : Stamped(c, n) /\ Stamp(c)
    <2>1. CASE Exists(c)
      BY <1>2, <2>1, StampSteps
    <2> QED
      BY <1>2, <2>1 DEF Stamp
  <1>3. ASSUME NEW c \in Calls, Act(c) PROVE UNCHANGED user \/ \E n \in Names : Raised(n)
    <2> DEFINE id == call[c].of
    <2>1. CASE call[c].kind = "verify" /\ Exists(id)
      <3> DEFINE n == NameOf(id)  r == [user[n] EXCEPT !.verified = TRUE]
      <3>1. n \in Names /\ user[n] # None /\ user[n] \in Account /\ user[n].id = id
        BY <2>1, NamesIt DEF Typed
      <3>2. r \in Account /\ r.id = user[n].id /\ r.stamped = user[n].stamped
            /\ r.approved = user[n].approved /\ r.verified
        BY <3>1 DEF Account
      <3>3. user' = [user EXCEPT ![n] = r] /\ <<id, "verified">> \in earned'
        BY <1>3, <2>1, UpdatesOne DEF Act, AccountOf
      <3> HIDE DEF r, n, id
      <3> QED
        BY <3>1, <3>2, <3>3 DEF Raised
    <2> QED
      BY <1>3, <2>1 DEF Act
  <1>4. ASSUME NEW c \in Calls, Moving(c), ~Stamp(c), ~Act(c) PROVE UNCHANGED user
    BY <1>4 DEF Moving, InsertOrg, SignIn, Provision, InsertIdentity, Clear, Issue, Use, Cut, Register,
                tables
  <1>5. ASSUME NEW n \in Names, Approve(n) PROVE Raised(n)
    <2>1. user[n] \in Account /\ user[n] # None
      BY <1>5 DEF Approve, Typed
    <2>2. [user[n] EXCEPT !.approved = TRUE] \in Account
      BY <2>1 DEF Account
    <2> QED
      BY <1>5, <2>1, <2>2 DEF Approve, Raised, Account
  <1>6. ASSUME NEW n \in Names, NEW b \in BOOLEAN, SetDisabled(n, b) PROVE Raised(n)
    <2>1. user[n] \in Account /\ user[n] # None
      BY <1>6 DEF SetDisabled, Typed
    <2>2. [user[n] EXCEPT !.disabled = b] \in Account
      BY <2>1 DEF Account
    <2> QED
      BY <1>6, <2>1, <2>2 DEF SetDisabled, Raised, Account
  <1>7. CASE (\E t \in token : Expire(t)) \/ Prune \/ UNCHANGED vars
    BY <1>7 DEF Expire, Prune, vars, tables
  <1> QED
    BY <1>1, <1>2, <1>3, <1>4, <1>5, <1>6, <1>7, Steps DEF Administering

LEMMA EarnedGrows ==
    ASSUME Typed, [Next]_vars
    PROVE  earned \subseteq earned'
  <1>1. ASSUME NEW c \in Calls, Beginning(c) PROVE UNCHANGED earned
    BY <1>1, Begins
  <1>2. ASSUME NEW c \in Calls, Inserting(c) PROVE UNCHANGED earned
    BY <1>2, Inserts DEF history
  <1>3. ASSUME NEW c \in Calls, Moving(c) PROVE earned \subseteq earned'
    BY <1>3 DEF Moving, Stamp, InsertOrg, SignIn, Provision, InsertIdentity, Clear, Issue, Act, Use, Cut,
                Register, history
  <1>4. CASE Administering \/ UNCHANGED vars
    BY <1>4 DEF Administering, Approve, DeleteUser, SetDisabled, Expire, Prune, vars, history
  <1> QED
    BY <1>1, <1>2, <1>3, <1>4, Steps

LEMMA StatusInvKept ==
    ASSUME Typed, IdInv, Default, StatusEarned, [Next]_vars
    PROVE  Default' /\ StatusEarned'
  <1>1. earned \subseteq earned'
    BY EarnedGrows
  <1>2. CASE UNCHANGED user
    BY <1>1, <1>2 DEF Default, StatusEarned
  <1>3. ASSUME NEW c \in Calls, Inserting(c) PROVE Default' /\ StatusEarned'
    <2> QED
      BY <1>1, <1>3, NewRow DEF Default, StatusEarned
  <1>4. ASSUME NEW n \in Names, Raised(n) PROVE Default' /\ StatusEarned'
    <2>1. user[n] # None /\ \A m \in Names \ {n} : user'[m] = user[m]
      BY <1>4 DEF Raised, Typed
    <2>2. /\ user'[n].id = user[n].id /\ user'[n].stamped = user[n].stamped
          /\ user[n].approved => user'[n].approved
          /\ user[n].verified => user'[n].verified
          /\ user'[n].approved => user[n].approved \/ <<user'[n].id, "approved">> \in earned'
          /\ user'[n].verified => user[n].verified \/ <<user'[n].id, "verified">> \in earned'
      BY <1>4 DEF Raised, Typed
    <2> QED
      BY <1>1, <2>1, <2>2 DEF Default, StatusEarned
  <1>5. ASSUME NEW c \in Calls, NEW n \in Names, Stamped(c, n) PROVE Default' /\ StatusEarned'
    <2>1. \A m \in Names \ {n} : user'[m] = user[m]
      BY <1>5 DEF Stamped, Typed
    <2>2. /\ user'[n].id = c /\ user'[n].stamped
          /\ user'[n].approved => <<c, "approved">> \in earned'
          /\ user'[n].verified => <<c, "verified">> \in earned'
      BY <1>5 DEF Stamped, Typed
    <2> QED
      BY <1>1, <2>1, <2>2 DEF Default, StatusEarned
  <1>6. ASSUME NEW n \in Names, DeleteUser(n) PROVE Default' /\ StatusEarned'
    <2>1. \A m \in Names : user'[m] # None => user'[m] = user[m]
      BY <1>6 DEF DeleteUser, Typed
    <2> QED
      BY <1>1, <2>1 DEF Default, StatusEarned
  <1> QED
    BY <1>2, <1>3, <1>4, <1>5, <1>6, StatusSteps

\* A confirmation is asked for again only by an account that is unconfirmed.
LEMMA BeginsAsking ==
    ASSUME Typed, NEW c \in Calls, Beginning(c), NEW id, Asking(c, id)'
    PROVE  \E n \in Names : user[n] # None /\ user[n].id = id /\ ~user[n].verified
  <1>1. call'[c].at = "wanted" /\ call'[c].op \in {"mail", "signup"} /\ call'[c].kind = "verify"
        /\ call'[c].of = id
    BY Begins DEF Asking, Mails
  <1>2. ASSUME NEW n \in Names, BeginSignup(c, n) \/ BeginOrg(c, n) PROVE call'[c].at # "wanted"
    BY <1>2, BeginsName
  <1>3. ASSUME NEW n \in Names, BeginOAuth(c, n) PROVE call'[c].op = "oauth"
    BY <1>3, BeginsOAuth
  <1>4. ASSUME NEW n \in Names, NEW k \in Id, BeginLink(c, n, k) PROVE call'[c].op = "link"
    BY <1>4, BeginsLink
  <1>5. ASSUME NEW n \in Names, NEW kind \in Kinds, BeginMail(c, n, kind)
        PROVE  user[n] # None /\ user[n].id = id /\ ~user[n].verified
    <2>1. user[n].id \in Id /\ user[n] # None
      BY <1>5 DEF BeginMail, Typed, Account
    <2>2. /\ call'[c].of = user[n].id /\ call'[c].kind = kind
          /\ call'[c].at = IF user[n].disabled \/ (kind = "verify" /\ user[n].verified)
                           THEN "done" ELSE "wanted"
      BY <1>5, <2>1, BeginsMail
    <2> QED
      BY <1>1, <2>1, <2>2
  <1>6. ASSUME NEW t \in token, BeginFollow(c, t) PROVE call'[c].op = "follow"
    BY <1>6, FollowBegins
  <1> QED
    BY <1>1, <1>2, <1>3, <1>4, <1>5, <1>6 DEF Beginning

\* A raw call other than the one that moves stays raw, its row unstamped.
LEMMA RawRow ==
    ASSUME Typed, IdInv, RawInv, [Next]_vars, NEW c \in Calls, Raw(c), Raw(c)', NEW n \in Names,
           user'[n] # None, user'[n].id = c, ~Stamp(c)
    PROVE  ~user'[n].stamped
  <1>1. ASSUME user[n] # None, user[n].id = c PROVE ~user[n].stamped
    BY <1>1 DEF RawInv
  <1>2. CASE UNCHANGED user
    BY <1>1, <1>2
  <1>3. ASSUME NEW d \in Calls, Inserting(d) PROVE ~user'[n].stamped
    BY <1>1, <1>3, NewRow
  <1>4. ASSUME NEW m \in Names, Raised(m) PROVE ~user'[n].stamped
    BY <1>1, <1>4 DEF Raised, Typed
  <1>5. ASSUME NEW d \in Calls, NEW m \in Names, Stamped(d, m), Stamp(d) PROVE ~user'[n].stamped
    <2>1. d # c
      BY <1>5
    <2> QED
      BY <1>1, <1>5, <2>1 DEF Stamped, Typed
  <1>6. ASSUME NEW m \in Names, DeleteUser(m) PROVE ~user'[n].stamped
    BY <1>1, <1>6 DEF DeleteUser, Typed
  <1> QED
    BY <1>2, <1>3, <1>4, <1>5, <1>6, StatusSteps

LEMMA StampDone ==
    ASSUME Typed, NEW c \in Calls, Stamp(c)
    PROVE  ~Raw(c)'
  <1>1. AfterStamp(c) # "inserted"
    BY DEF AfterStamp
  <1>2. call'[c].at = AfterStamp(c)
    BY DEF Stamp, Goto, Typed, Call
  <1> QED
    BY <1>1, <1>2 DEF Raw

LEMMA RawKept ==
    ASSUME Typed, IdInv, RefInv, RawInv, Default, [Next]_vars
    PROVE  RawInv'
  <1> SUFFICES ASSUME NEW c \in Calls, Raw(c)'
               PROVE  /\ call'[c].of = c
                      /\ \A n \in Names : user'[n] # None /\ user'[n].id = c => ~user'[n].stamped
                      /\ \A t \in token' : t.owner = c => t.kind # "verify"
                      /\ \A d \in Calls : ~Asking(d, c)'
    BY DEF RawInv
  <1>1. CASE Inserting(c)
    <2>1. c \notin Names /\ ~Created(c) /\ ~Ref(c)
      BY <1>1, Inserts, AccountsAssumption DEF Created, Ref
    <2>2. \A n \in Names : user[n] # None => user[n].id # c
      <3>1. ~Exists(c)
        BY <2>1, ExistsRef
      <3> QED
        BY <3>1 DEF Exists
    <2>3. \A n \in Names : user'[n] # None /\ user'[n].id = c => ~user'[n].stamped
      BY <1>1, <2>2, NewRow
    <2>4. \A t \in token' : t.owner # c
      BY <1>1, <2>1, Inserts DEF RefInv
    <2>5. \A d \in Calls : ~Asking(d, c)'
      <3>1. \A d \in Calls : call[d].of # c
        BY <2>1, AccountsAssumption DEF RefInv
      <3> QED
        BY <1>1, <3>1, Inserts DEF Asking
    <2> QED
      BY <1>1, <2>3, <2>4, <2>5, Inserts
  <1>2. CASE ~Inserting(c)
    <2>1. Raw(c) /\ call'[c].of = c
      <3>1. ASSUME NEW d \in Calls, Beginning(d) PROVE call'[c] = call[c]
        BY <3>1, Begins DEF Raw
      <3>2. ASSUME NEW d \in Calls, Inserting(d) PROVE call'[c] = call[c]
        BY <1>2, <3>2, Inserts
      <3>3. ASSUME NEW d \in Calls, Moving(d) PROVE call'[c] = call[c]
        BY <3>3, Moves DEF Raw, Arrow
      <3>4. CASE Administering \/ UNCHANGED vars
        <4>1. UNCHANGED call
          BY <3>4 DEF Administering, Approve, DeleteUser, SetDisabled, Expire, Prune, Admin, vars
        <4> QED
          BY <4>1 DEF Raw, RawInv
      <3>5. CASE call'[c] = call[c]
        BY <3>5 DEF Raw, RawInv
      <3> QED
        BY <3>1, <3>2, <3>3, <3>4, <3>5, Steps
    <2>2. ~Stamp(c)
      BY StampDone
    <2>3. \A n \in Names : user'[n] # None /\ user'[n].id = c => ~user'[n].stamped
      BY <2>1, <2>2, RawRow
    <2>4. \A t \in token' : t.owner = c => t.kind # "verify"
      <3>1. ASSUME NEW t \in token', t.owner = c, NEW d \in Calls, Mails(d), call[d].at = "cleared",
                   t.owner = call[d].of, t.kind = call[d].kind
            PROVE  t.kind # "verify"
        BY <2>1, <3>1 DEF RawInv, Asking
      <3> QED
        BY <2>1, <3>1, TokenSteps DEF RawInv
    <2>5. ASSUME NEW d \in Calls, Asking(d, c)' PROVE FALSE
      <3>0. ~Asking(d, c)
        BY <2>1 DEF RawInv
      <3>1. ASSUME NEW e \in Calls, Beginning(e) PROVE FALSE
        <4>1. CASE e = d
          BY <2>1, <2>5, <3>1, <4>1, BeginsAsking DEF RawInv, Default
        <4>2. CASE e # d
          BY <2>5, <3>0, <3>1, <4>2, Begins DEF Asking, Mails
        <4> QED
          BY <4>1, <4>2
      <3>2. ASSUME NEW e \in Calls, Inserting(e) PROVE FALSE
        BY <2>5, <3>0, <3>2, Inserts DEF Asking, Mails
      <3>3. ASSUME NEW e \in Calls, Moving(e) PROVE FALSE
        <4>1. e = d
          BY <2>5, <3>0, <3>3, Moves DEF Asking, Mails
        <4>2. call[d].op \in {"mail", "signup"} /\ call[d].kind = "verify" /\ call[d].of = c
              /\ call'[d].at \in {"wanted", "cleared"}
          BY <2>5, <3>3, <4>1, Moves DEF Asking, Mails
        <4>3. call[d].op = "signup" /\ call[d].at = "inserted"
          BY <3>0, <3>3, <4>1, <4>2, Moves DEF Arrow, Asking, Mails
        <4>4. d = c
          BY <4>2, <4>3 DEF RawInv, Raw
        <4> QED
          BY <2>1, <3>3, <4>1, <4>2, <4>4, Moves DEF Raw
      <3>4. CASE Administering \/ UNCHANGED vars
        <4>1. UNCHANGED call
          BY <3>4 DEF Administering, Approve, DeleteUser, SetDisabled, Expire, Prune, Admin, vars
        <4> QED
          BY <2>5, <3>0, <4>1 DEF Asking, Mails
      <3> QED
        BY <3>1, <3>2, <3>3, <3>4, Steps
    <2> QED
      BY <2>1, <2>3, <2>4, <2>5
  <1> QED
    BY <1>1, <1>2

LEMMA StatusStays ==
    ASSUME Typed, IdInv, RawInv, [Next]_vars, NEW n \in Names,
           user[n] # None, user'[n] # None, user'[n].id = user[n].id,
           user[n].stamped \/ \E t \in token : t.owner = user[n].id /\ t.kind = "verify"
    PROVE  /\ user[n].approved => user'[n].approved
           /\ user[n].verified => user'[n].verified
  <1>1. CASE UNCHANGED user
    BY <1>1
  <1>2. ASSUME NEW c \in Calls, Inserting(c) PROVE user'[n] = user[n]
    BY <1>2, NewRow
  <1>3. ASSUME NEW m \in Names, Raised(m)
        PROVE  /\ user[n].approved => user'[n].approved
               /\ user[n].verified => user'[n].verified
    BY <1>3 DEF Raised, Typed
  <1>4. ASSUME NEW c \in Calls, NEW m \in Names, Stamped(c, m) PROVE user'[n] = user[n]
    <2>1. user[m] # None /\ user[m].id = c /\ ~user[m].stamped
          /\ \A t \in token : t.owner = c => t.kind # "verify"
      BY <1>4 DEF Stamped, RawInv
    <2>2. n # m
      BY <2>1
    <2> QED
      BY <1>4, <2>2 DEF Stamped, Typed
  <1>5. ASSUME NEW m \in Names, DeleteUser(m) PROVE user'[n] = user[n]
    BY <1>5 DEF DeleteUser, Typed
  <1> QED
    BY <1>1, <1>2, <1>3, <1>4, <1>5, StatusSteps

(* Approval and verification are earned once an account is stamped, and    *)
(* not taken away again (stamp_signup_status, approve, mark_email_verified)*)
THEOREM StatusByRights == Spec => StatusKept
  <1> DEFINE IInv == Typed /\ IdInv /\ RefInv /\ RawInv /\ Default /\ StatusEarned
  <1>1. Init => IInv
    <2> SUFFICES ASSUME Init PROVE IInv
      OBVIOUS
    <2>1. \/ user = [n \in Names |-> None]
          \/ \E p, q \in BOOLEAN : user = [n \in Names |-> Old(n, p, q)]
      BY DEF Init
    <2>2. Default
      BY <2>1 DEF Default, Old
    <2>3. StatusEarned
      <3>1. earned = {<<n, "approved">> : n \in {m \in Names : user[m] # None /\ user[m].approved}}
               \union {<<n, "verified">> : n \in {m \in Names : user[m] # None /\ user[m].verified}}
        BY DEF Init
      <3>2. \A n \in Names : user[n] # None => user[n].id = n
        BY <2>1 DEF Old
      <3> QED
        BY <3>1, <3>2 DEF StatusEarned
    <2>4. RefInv /\ RawInv
      BY DEF Init, RefInv, RawInv, Raw
    <2> QED
      BY <2>2, <2>3, <2>4, AtFirst
  <1>2. IInv /\ [Next]_vars => IInv'
    BY TypesKept, IdKept, RefsKept, RawKept, StatusInvKept
  <1>3. IInv /\ [Next]_vars =>
            [\A n \in Names : user[n] # None /\ user'[n] # None /\ user'[n].id = user[n].id
                  /\ (user[n].stamped \/ \E t \in token : t.owner = user[n].id /\ t.kind = "verify") =>
                      /\ user[n].approved => user'[n].approved
                      /\ user[n].verified => user'[n].verified]_vars
    BY StatusStays
  <1>4. IInv => StatusEarned
    OBVIOUS
  <1> QED
    BY <1>1, <1>2, <1>3, <1>4, PTL DEF Spec, StatusKept, Sticks

-----------------------------------------------------------------------------
(* Links.  A link that nobody followed twice at once has set nothing while *)
(* its follower still may; once it has, it is used or about to be.         *)

Following(d, l) == call[d].op = "follow" /\ call[d].link = l /\ call[d].at \in {"found", "acted"}

FollowInv ==
    /\ \A t \in token : call[t.id].at = "done"
    /\ \A d, l \in Calls : Following(d, l) => call[l].at = "done"
    /\ \A l \in Calls : sets[l] > 0 => call[l].at = "done"
    /\ \A l \in Calls : l \notin loose =>
        /\ sets[l] =< 1
        /\ \A d, e \in Calls : Following(d, l) /\ Following(e, l) => d = e
        /\ \A d \in Calls : Following(d, l) /\ call[d].at = "found" => sets[l] = 0
        /\ sets[l] = 1 => \/ \E d \in Calls : Following(d, l) /\ call[d].at = "acted"
                          \/ \A t \in token : t.id = l => ~t.live

Mailing(d, o, k) == Mails(d) /\ call[d].of = o /\ call[d].kind = k
                    /\ call[d].at \in {"inserted", "wanted", "cleared"}

MailInv ==
    \A o \in Id, k \in Kinds : <<o, k>> \notin crowd =>
        /\ \A d, e \in Calls : Mailing(d, o, k) /\ Mailing(e, o, k) => d = e
        /\ \A d \in Calls : Mailing(d, o, k) /\ call[d].at = "cleared" =>
               \A t \in token : t.owner = o /\ t.kind = k => ~t.live
        /\ \A t, u \in token : t.live /\ u.live /\ t.owner = o /\ u.owner = o
                               /\ t.kind = k /\ u.kind = k => t = u

LEMMA DoneStays ==
    ASSUME Typed, [Next]_vars, NEW l \in Calls, call[l].at = "done"
    PROVE  call'[l].at = "done"
  <1>1. ASSUME NEW d \in Calls, Beginning(d) PROVE call'[l].at = "done"
    BY <1>1, Begins
  <1>2. ASSUME NEW d \in Calls, Inserting(d) PROVE call'[l].at = "done"
    BY <1>2, Inserts
  <1>3. ASSUME NEW d \in Calls, Moving(d) PROVE call'[l].at = "done"
    BY <1>3, Moves DEF Arrow, Over
  <1>4. CASE Administering \/ UNCHANGED vars
    BY <1>4 DEF Administering, Approve, DeleteUser, SetDisabled, Expire, Prune, Admin, vars
  <1> QED
    BY <1>1, <1>2, <1>3, <1>4, Steps

LEMMA HistoryGrows ==
    ASSUME Typed, [Next]_vars
    PROVE  loose \subseteq loose' /\ crowd \subseteq crowd'
  <1>1. ASSUME NEW c \in Calls, Beginning(c) PROVE loose \subseteq loose' /\ crowd \subseteq crowd'
    BY <1>1 DEF Beginning, BeginSignup, BeginOrg, BeginOAuth, BeginLink, BeginMail, BeginFollow, history
  <1>2. ASSUME NEW c \in Calls, Inserting(c) PROVE loose \subseteq loose' /\ crowd \subseteq crowd'
    BY <1>2, Inserts DEF history
  <1>3. ASSUME NEW c \in Calls, Moving(c) PROVE loose \subseteq loose' /\ crowd \subseteq crowd'
    BY <1>3 DEF Moving, Stamp, InsertOrg, SignIn, Provision, InsertIdentity, Clear, Issue, Act, Use, Cut,
                Register, history
  <1>4. CASE Administering \/ UNCHANGED vars
    BY <1>4 DEF Administering, Approve, DeleteUser, SetDisabled, Expire, Prune, vars, history
  <1> QED
    BY <1>1, <1>2, <1>3, <1>4, Steps

\* A link that is followed is live, and alone unless it is loose from then on.
LEMMA BeginsFollow ==
    ASSUME Typed, NEW c \in Calls, Beginning(c), NEW l, Following(c, l)'
    PROVE  /\ call'[c].at = "found"
           /\ \E t \in token : t.id = l /\ t.live
           /\ l \notin loose' => \A d \in Calls : ~Following(d, l)
  <1>1. call'[c].op = "follow" /\ call'[c].link = l /\ call'[c].at = "found"
    BY Begins DEF Following
  <1>2. ASSUME NEW n \in Names, BeginSignup(c, n) \/ BeginOrg(c, n) PROVE FALSE
    BY <1>1, <1>2, BeginTyped DEF BeginSignup, BeginOrg, Place, Over, Kinds
  <1>3. ASSUME NEW n \in Names, BeginOAuth(c, n) PROVE FALSE
    BY <1>1, <1>3, BeginsOAuth
  <1>4. ASSUME NEW n \in Names, NEW k \in Id, BeginLink(c, n, k) PROVE FALSE
    BY <1>1, <1>4, BeginsLink
  <1>5. ASSUME NEW n \in Names, NEW kind \in Kinds, BeginMail(c, n, kind) PROVE FALSE
    BY <1>1, <1>5, BeginsMail
  <1>6. PICK t \in token : BeginFollow(c, t)
    BY <1>2, <1>3, <1>4, <1>5 DEF Beginning
  <1>7. t.owner \in Id /\ t.kind \in Kinds /\ t.id \in Calls
    BY DEF Typed, Token
  <1>8. (CHOOSE n \in Names : TRUE) \in Names
    OBVIOUS
  <1>9. call'[c].link = t.id /\ call'[c].at = IF t.live THEN "found" ELSE "refused"
    BY <1>6, <1>7, <1>8, FollowBegins
  <1>10. t.id = l /\ t.live
    BY <1>1, <1>9
  <1>11. \A d \in Calls : Following(d, l) => d \in Followed(t)
    BY <1>10 DEF Following, Followed, Busy, Over
  <1> QED
    BY <1>1, <1>6, <1>10, <1>11 DEF BeginFollow

LEMMA BeginsMailing ==
    ASSUME Typed, NEW c \in Calls, Beginning(c), NEW o, NEW k, Mailing(c, o, k)'
    PROVE  /\ call'[c].at = "wanted"
           /\ <<o, k>> \notin crowd' => \A d \in Calls : ~Mailing(d, o, k)
  <1>1. call'[c].at = "wanted" /\ call'[c].op \in {"mail", "signup"} /\ call'[c].kind = k
        /\ call'[c].of = o
    BY Begins DEF Mailing, Mails
  <1>2. ASSUME NEW n \in Names, BeginSignup(c, n) \/ BeginOrg(c, n) PROVE call'[c].at # "wanted"
    BY <1>2, BeginsName
  <1>3. ASSUME NEW n \in Names, BeginOAuth(c, n) PROVE FALSE
    BY <1>1, <1>3, BeginsOAuth
  <1>4. ASSUME NEW n \in Names, NEW i \in Id, BeginLink(c, n, i) PROVE FALSE
    BY <1>1, <1>4, BeginsLink
  <1>5. ASSUME NEW t \in token, BeginFollow(c, t) PROVE FALSE
    BY <1>1, <1>5, FollowBegins
  <1>6. PICK n \in Names, kind \in Kinds : BeginMail(c, n, kind)
    BY <1>1, <1>2, <1>3, <1>4, <1>5 DEF Beginning
  <1>7. user[n].id = o /\ kind = k /\ crowd' = crowd \union Crowded(o, k)
    <2>1. user[n].id \in Id
      BY <1>6 DEF BeginMail, Typed, Account
    <2>2. call'[c].of = user[n].id /\ call'[c].kind = kind
      BY <1>6, <2>1, BeginsMail
    <2> QED
      BY <1>1, <1>6, <2>2 DEF BeginMail
  <1>8. \A d \in Calls : Mailing(d, o, k) => <<o, k>> \in Crowded(o, k)
    BY DEF Mailing, Mails, Crowded, Busy, Over
  <1> QED
    BY <1>1, <1>7, <1>8

\* A live link is an old one, or the one just issued.
LEMMA LiveSteps ==
    ASSUME Typed, [Next]_vars, NEW t \in token', t.live
    PROVE  \/ t \in token
           \/ \E c \in Calls : /\ Issue(c) /\ Mails(c) /\ call[c].at = "cleared"
                               /\ t.id = c /\ t.owner = call[c].of /\ t.kind = call[c].kind
  <1>1. t \in Token
    BY TokenTyped
  <1>2. ASSUME NEW u \in token, u.id = t.id, u.owner = t.owner, u.kind = t.kind, u.live
        PROVE  t = u
    BY <1>1, <1>2 DEF Typed, Token
  <1> QED
    BY <1>2, TokenSteps

\* At most one call moves in a step.
LEMMA OneMoves ==
    ASSUME Typed, NEW c \in Calls, NEW d \in Calls, Moving(c), Moving(d)
    PROVE  c = d
  <1>1. call'[d].at # call[d].at
    BY Moves DEF Arrow, Over
  <1> QED
    BY <1>1, Moves

LEMMA MailingSteps ==
    ASSUME Typed, [Next]_vars, NEW d \in Calls, NEW o, NEW k, Mailing(d, o, k)'
    PROVE  \/ /\ Mailing(d, o, k)
              /\ call'[d].at = "cleared" => call[d].at = "cleared" \/ Clear(d)
           \/ Beginning(d)
           \/ Inserting(d)
  <1>1. ASSUME NEW e \in Calls, Beginning(e), e # d PROVE call'[d] = call[d]
    BY <1>1, Begins
  <1>2. ASSUME NEW e \in Calls, Inserting(e), e # d PROVE call'[d] = call[d]
    BY <1>2, Inserts
  <1>3. ASSUME NEW e \in Calls, Moving(e), e # d PROVE call'[d] = call[d]
    BY <1>3, Moves
  <1>4. ASSUME Moving(d)
        PROVE  /\ Mailing(d, o, k)
               /\ call'[d].at = "cleared" => Clear(d)
    <2>1. Mailing(d, o, k) /\ (call'[d].at = "cleared" => call[d].at = "wanted" /\ call[d].op # "oauth")
      BY <1>4, Moves DEF Mailing, Mails, Arrow
    <2>2. ASSUME Cut(d) PROVE call'[d].at = "cut"
      BY <2>2, CallFields DEF Cut, Goto, Typed
    <2> QED
      BY <1>4, <2>1, <2>2 DEF Moving, Stamp, InsertOrg, SignIn, Provision, InsertIdentity, Issue, Act, Use,
                              Register
  <1>5. CASE Administering \/ UNCHANGED vars
    BY <1>5 DEF Administering, Approve, DeleteUser, SetDisabled, Expire, Prune, Admin, vars, Mailing, Mails
  <1>6. ASSUME call'[d] = call[d] PROVE Mailing(d, o, k) /\ call'[d].at = call[d].at
    BY <1>6 DEF Mailing, Mails
  <1> QED
    BY <1>1, <1>2, <1>3, <1>4, <1>5, <1>6, Steps

LEMMA MailKept ==
    ASSUME Typed, RefInv, MailInv, [Next]_vars
    PROVE  MailInv'
  <1> SUFFICES ASSUME NEW o \in Id, NEW k \in Kinds, <<o, k>> \notin crowd'
               PROVE  /\ \A d, e \in Calls : Mailing(d, o, k)' /\ Mailing(e, o, k)' => d = e
                      /\ \A d \in Calls : Mailing(d, o, k)' /\ call'[d].at = "cleared" =>
                             \A t \in token' : t.owner = o /\ t.kind = k => ~t.live
                      /\ \A t, u \in token' : t.live /\ u.live /\ t.owner = o /\ u.owner = o
                                             /\ t.kind = k /\ u.kind = k => t = u
    BY DEF MailInv
  <1>0. /\ \A d, e \in Calls : Mailing(d, o, k) /\ Mailing(e, o, k) => d = e
        /\ \A d \in Calls : Mailing(d, o, k) /\ call[d].at = "cleared" =>
               \A t \in token : t.owner = o /\ t.kind = k => ~t.live
        /\ \A t, u \in token : t.live /\ u.live /\ t.owner = o /\ u.owner = o
                               /\ t.kind = k /\ u.kind = k => t = u
    BY HistoryGrows DEF MailInv
  <1>1. ASSUME NEW d \in Calls, NEW e \in Calls, Mailing(d, o, k)', Mailing(e, o, k)', Beginning(d)
        PROVE  d = e
    <2>1. ~Mailing(e, o, k)
      BY <1>1, BeginsMailing
    <2> QED
      BY <1>1, <2>1, Begins DEF Mailing, Mails
  <1>2. ASSUME NEW d \in Calls, NEW e \in Calls, Mailing(d, o, k)', Mailing(e, o, k)', Inserting(d)
        PROVE  d = e
    <2>1. call'[d].of = d /\ d = o /\ call'[e].of = o
      BY <1>2, Inserts DEF Mailing
    <2>2. call[e].of # d
      <3>1. ~Ref(d) /\ d # None
        BY <1>2, Inserts, AccountsAssumption DEF Ref, Created
      <3> QED
        BY <3>1 DEF RefInv
    <2> QED
      BY <1>2, <2>1, <2>2, Inserts
  <1>3. \A d, e \in Calls : Mailing(d, o, k)' /\ Mailing(e, o, k)' => d = e
    BY <1>0, <1>1, <1>2, MailingSteps
  <1>4. ASSUME NEW c \in Calls, Issue(c), Mails(c), call[c].at = "cleared", call[c].of = o, call[c].kind = k
        PROVE  Mailing(c, o, k) /\ Moving(c) /\ call'[c].at # "cleared"
    <2>1. Moving(c)
      BY <1>4 DEF Moving
    <2> QED
      BY <1>4, <2>1, Moves DEF Mailing, Arrow
  <1>5. ASSUME NEW d \in Calls, Mailing(d, o, k)', call'[d].at = "cleared",
               NEW t \in token', t.owner = o, t.kind = k, t.live
        PROVE  FALSE
    <2>1. Mailing(d, o, k) /\ (call[d].at = "cleared" \/ Clear(d))
      BY <1>5, MailingSteps, Begins, Inserts
    <2>2. t \in token
      BY <1>0, <1>4, <1>5, <2>1, LiveSteps
    <2>3. Clear(d)
      BY <1>0, <1>5, <2>1, <2>2
    <2>4. PICK u \in token : t = [u EXCEPT !.live = u.live /\ ~(u.owner = o /\ u.kind = k)]
      BY <2>1, <2>3 DEF Clear, Mailing
    <2>5. PICK b : b = (u.live /\ ~(u.owner = o /\ u.kind = k)) /\ t = [u EXCEPT !.live = b]
      BY <2>4
    <2>6. t.owner = u.owner /\ t.kind = u.kind /\ t.live = b
      BY <2>5 DEF Typed, Token
    <2> QED
      BY <1>5, <2>5, <2>6
  <1>6. ASSUME NEW t \in token', NEW u \in token', t.live, u.live, t.owner = o, u.owner = o,
               t.kind = k, u.kind = k
        PROVE  t = u
    <2>1. t \in Token /\ u \in Token
      BY TokenTyped
    <2>2. ASSUME t \notin token, u \notin token PROVE t.id = u.id
      <3>1. PICK c \in Calls : Issue(c) /\ t.id = c
        BY <1>6, <2>2, LiveSteps
      <3>2. PICK d \in Calls : Issue(d) /\ u.id = d
        BY <1>6, <2>2, LiveSteps
      <3> QED
        BY <3>1, <3>2, OneMoves DEF Moving
    <2>3. ASSUME t \notin token \/ u \notin token
          PROVE  \A v \in token : v.owner = o /\ v.kind = k => ~v.live
      BY <1>0, <1>4, <1>6, <2>3, LiveSteps
    <2>4. CASE t \in token /\ u \in token
      BY <1>0, <1>6, <2>4
    <2>5. CASE t \notin token /\ u \notin token
      BY <1>6, <2>1, <2>2, <2>5 DEF Token
    <2> QED
      BY <1>6, <2>3, <2>4, <2>5
  <1> QED
    BY <1>3, <1>5, <1>6

LEMMA FollowingSteps ==
    ASSUME Typed, [Next]_vars, NEW d \in Calls, NEW l, Following(d, l)'
    PROVE  \/ Following(d, l) /\ (call'[d].at = "found" => call[d].at = "found")
           \/ Beginning(d)
  <1>1. ASSUME NEW e \in Calls, Beginning(e), e # d PROVE call'[d] = call[d]
    BY <1>1, Begins
  <1>2. ASSUME NEW e \in Calls, Inserting(e) PROVE call'[d] = call[d]
    BY <1>2, Inserts DEF Following
  <1>3. ASSUME NEW e \in Calls, Moving(e)
        PROVE  Following(d, l) /\ (call'[d].at = "found" => call[d].at = "found")
    <2>1. CASE e = d
      BY <1>3, <2>1, Moves DEF Following, Arrow
    <2>2. CASE e # d
      BY <1>3, <2>2, Moves DEF Following
    <2> QED
      BY <2>1, <2>2
  <1>4. CASE Administering \/ UNCHANGED vars
    BY <1>4 DEF Administering, Approve, DeleteUser, SetDisabled, Expire, Prune, Admin, vars, Following
  <1>5. ASSUME call'[d] = call[d] PROVE Following(d, l) /\ call'[d].at = call[d].at
    BY <1>5 DEF Following
  <1> QED
    BY <1>1, <1>2, <1>3, <1>4, <1>5, Steps

\* A link sets a password when its follower acts.
LEMMA SetsSteps ==
    ASSUME Typed, [Next]_vars, NEW l \in Calls
    PROVE  \/ sets'[l] = sets[l]
           \/ \E c \in Calls : /\ Moving(c) /\ Following(c, l) /\ call[c].at = "found"
                               /\ Following(c, l)' /\ call'[c].at = "acted"
                               /\ sets'[l] = sets[l] + 1
  <1>1. ASSUME NEW c \in Calls, Act(c), sets'[l] # sets[l]
        PROVE  /\ Moving(c) /\ Following(c, l) /\ call[c].at = "found"
               /\ Following(c, l)' /\ call'[c].at = "acted"
               /\ sets'[l] = sets[l] + 1
    <2>1. sets' = [sets EXCEPT ![call[c].link] = @ + 1]
      BY <1>1 DEF Act
    <2>2. call[c].link = l /\ sets'[l] = sets[l] + 1
      BY <1>1, <2>1 DEF Typed
    <2>3. Moving(c) /\ call[c].op = "follow" /\ call[c].at = "found"
      BY <1>1 DEF Moving, Act
    <2>4. call'[c].at = "acted"
      BY <1>1 DEF Act, Goto, Typed, Call
    <2> QED
      BY <2>2, <2>3, <2>4, Moves DEF Following
  <1>2. ASSUME NEW c \in Calls, Beginning(c) PROVE UNCHANGED sets
    BY <1>2, Begins
  <1>3. ASSUME NEW c \in Calls, Inserting(c) PROVE UNCHANGED sets
    BY <1>3, Inserts DEF history
  <1>4. ASSUME NEW c \in Calls, Moving(c), ~Act(c) PROVE UNCHANGED sets
    BY <1>4 DEF Moving, Stamp, InsertOrg, SignIn, Provision, InsertIdentity, Clear, Issue, Use, Cut, Register,
                history
  <1>5. CASE Administering \/ UNCHANGED vars
    BY <1>5 DEF Administering, Approve, DeleteUser, SetDisabled, Expire, Prune, vars, history
  <1> QED
    BY <1>1, <1>2, <1>3, <1>4, <1>5, Steps

\* A follower that has acted uses its link, unless it is cut.
LEMMA ActedSteps ==
    ASSUME Typed, [Next]_vars, NEW d \in Calls, NEW l, Following(d, l), call[d].at = "acted", l \notin loose'
    PROVE  \/ Following(d, l)' /\ call'[d].at = "acted"
           \/ \A t \in token' : t.id = l => ~t.live
  <1>1. ASSUME Use(d) PROVE \A t \in token' : t.id = l => ~t.live
    <2> SUFFICES ASSUME NEW t \in token', t.id = l PROVE ~t.live
      OBVIOUS
    <2>1. PICK u \in token : t = IF u.id = l THEN [u EXCEPT !.live = FALSE] ELSE u
      BY <1>1 DEF Use, Following
    <2>2. u.id = l
      BY <2>1
    <2> QED
      BY <2>1, <2>2 DEF Typed, Token
  <1>2. ASSUME Cut(d) PROVE FALSE
    BY <1>2 DEF Cut, Following
  <1>3. ASSUME Moving(d) PROVE Use(d) \/ Cut(d)
    BY <1>3 DEF Moving, Stamp, InsertOrg, SignIn, Provision, InsertIdentity, Clear, Issue, Act, Register,
                Mails, Following
  <1>4. ASSUME NEW e \in Calls, e # d, Moving(e) PROVE call'[d] = call[d]
    BY <1>4, Moves
  <1>5. ASSUME NEW e \in Calls, Beginning(e) PROVE call'[d] = call[d]
    BY <1>5, Begins DEF Following
  <1>6. ASSUME NEW e \in Calls, Inserting(e) PROVE call'[d] = call[d]
    BY <1>6, Inserts DEF Following
  <1>7. CASE Administering \/ UNCHANGED vars
    BY <1>7 DEF Administering, Approve, DeleteUser, SetDisabled, Expire, Prune, Admin, vars, Following
  <1>8. ASSUME call'[d] = call[d] PROVE Following(d, l)' /\ call'[d].at = "acted"
    BY <1>8 DEF Following
  <1> QED
    BY <1>1, <1>2, <1>3, <1>4, <1>5, <1>6, <1>7, <1>8, Steps

LEMMA FollowKept ==
    ASSUME Typed, FollowInv, [Next]_vars
    PROVE  FollowInv'
  <1>1. ASSUME NEW t \in token' PROVE call'[t.id].at = "done"
    <2>1. ASSUME NEW u \in token, u.id = t.id PROVE call'[t.id].at = "done"
      <3>1. u.id \in Calls /\ call[u.id].at = "done"
        BY DEF FollowInv, Typed, Token
      <3> QED
        BY <2>1, <3>1, DoneStays
    <2>2. ASSUME NEW c \in Calls, Issue(c), Exists(call[c].of) PROVE call'[c].at = "done"
      BY <2>2 DEF Issue, Goto, Typed, Call
    <2> QED
      BY <2>1, <2>2, TokenSteps
  <1>2. ASSUME NEW d \in Calls, NEW l \in Calls, Following(d, l)' PROVE call'[l].at = "done"
    BY <1>2, FollowingSteps, BeginsFollow, DoneStays DEF FollowInv
  <1>3. ASSUME NEW l \in Calls, sets'[l] > 0 PROVE call'[l].at = "done"
    BY <1>3, SetsSteps, DoneStays DEF FollowInv
  <1>4. ASSUME NEW l \in Calls, l \notin loose'
        PROVE  /\ sets'[l] =< 1
               /\ \A d, e \in Calls : Following(d, l)' /\ Following(e, l)' => d = e
               /\ \A d \in Calls : Following(d, l)' /\ call'[d].at = "found" => sets'[l] = 0
               /\ sets'[l] = 1 => \/ \E d \in Calls : Following(d, l)' /\ call'[d].at = "acted"
                                  \/ \A t \in token' : t.id = l => ~t.live
    <2>0. /\ sets[l] =< 1 /\ sets[l] \in Nat
          /\ \A d, e \in Calls : Following(d, l) /\ Following(e, l) => d = e
          /\ \A d \in Calls : Following(d, l) /\ call[d].at = "found" => sets[l] = 0
          /\ sets[l] = 1 => \/ \E d \in Calls : Following(d, l) /\ call[d].at = "acted"
                            \/ \A t \in token : t.id = l => ~t.live
      BY <1>4, HistoryGrows DEF FollowInv, Typed
    <2>1. sets'[l] =< 1
      BY <2>0, SetsSteps
    <2>2. ASSUME NEW d \in Calls, NEW e \in Calls, Following(d, l)', Following(e, l)', Beginning(d)
          PROVE  d = e
      <3>1. ~Following(e, l)
        BY <1>4, <2>2, BeginsFollow
      <3> QED
        BY <2>2, <3>1, Begins DEF Following
    <2>3. \A d, e \in Calls : Following(d, l)' /\ Following(e, l)' => d = e
      BY <2>0, <2>2, FollowingSteps
    <2>4. ASSUME NEW d \in Calls, Following(d, l)', call'[d].at = "found" PROVE sets'[l] = 0
      <3>1. CASE Beginning(d)
        <4>1. sets'[l] = sets[l]
          BY <3>1, Begins
        <4>2. \A e \in Calls : ~Following(e, l)
          BY <1>4, <2>4, <3>1, BeginsFollow
        <4>3. \E t \in token : t.id = l /\ t.live
          BY <2>4, <3>1, BeginsFollow
        <4> QED
          BY <2>0, <4>1, <4>2, <4>3
      <3>2. CASE ~Beginning(d)
        <4>1. sets[l] = 0 /\ Following(d, l)
          BY <2>0, <2>4, <3>2, FollowingSteps
        <4> QED
          BY <2>0, <2>4, <4>1, SetsSteps
      <3> QED
        BY <3>1, <3>2
    <2>5. ASSUME sets'[l] = 1, ~\E d \in Calls : Following(d, l)' /\ call'[d].at = "acted",
                 NEW t \in token', t.id = l, t.live
          PROVE  FALSE
      <3>1. sets[l] = 1
        BY <2>5, SetsSteps
      <3>2. t \in token
        <4>1. call[l].at = "done"
          BY <3>1 DEF FollowInv
        <4> QED
          BY <2>5, <4>1, LiveSteps
      <3>3. PICK d \in Calls : Following(d, l) /\ call[d].at = "acted"
        BY <2>0, <2>5, <3>1, <3>2
      <3> QED
        BY <1>4, <2>5, <3>3, ActedSteps
    <2> QED
      BY <2>1, <2>3, <2>4, <2>5
  <1> QED
    BY <1>1, <1>2, <1>3, <1>4 DEF FollowInv, Following

(* A mailed link is good for one use, and only the newest is good for any  *)
(* (password_reset.rs, email_verification.rs), where requests do not       *)
(* overlap.                                                                *)
THEOREM LinksOnce == Spec => []ResetLinks
  <1> DEFINE IInv == Typed /\ IdInv /\ RefInv /\ MailInv /\ FollowInv
  <1>1. Init => IInv
    <2> SUFFICES ASSUME Init PROVE IInv
      OBVIOUS
    <2>1. RefInv /\ MailInv /\ FollowInv
      BY DEF Init, RefInv, MailInv, FollowInv, Mailing, Following
    <2> QED
      BY <2>1, AtFirst
  <1>2. IInv /\ [Next]_vars => IInv'
    BY TypesKept, IdKept, RefsKept, MailKept, FollowKept
  <1>3. IInv => ResetLinks
    <2> SUFFICES ASSUME IInv PROVE OneReset /\ NewestLink
      BY DEF ResetLinks
    <2>1. OneReset
      BY DEF OneReset, FollowInv
    <2>2. \A t \in token : t.owner \in Id /\ t.kind \in Kinds
      BY DEF Typed, Token
    <2>3. NewestLink
      BY <2>2 DEF NewestLink, MailInv
    <2> QED
      BY <2>1, <2>3
  <1> QED
    BY <1>1, <1>2, <1>3, PTL DEF Spec

-----------------------------------------------------------------------------
(* Types and foreign keys                                                  *)

\* Requests that have followed a link as far as its act, or were cut.
Acted == {d \in Calls : call[d].op = "follow" /\ call[d].at \in {"acted", "done", "cut"}}

WideInv ==
    /\ \A t \in token : Exists(t.owner)
    /\ \A c \in Calls : call[c].op = "follow" /\ call[c].at # "idle" => call[c].link \in Calls
    /\ \A l \in Calls : sets[l] <= Cardinality(Acted)
    /\ org \subseteq Names /\ shared \subseteq Names /\ crowd \subseteq Id \X Kinds /\ loose \subseteq Calls
    /\ faults \in 0..MaxFaults /\ admin \in 0..MaxAdmin

\* The foreign key: a link goes with its account, and is issued for one that is there.
LEMMA OwnersStay ==
    ASSUME Typed, IdInv, WideInv, [Next]_vars
    PROVE  \A t \in token' : Exists(t.owner)'
  <1> SUFFICES ASSUME NEW t \in token' PROVE Exists(t.owner)'
    OBVIOUS
  <1> DEFINE o == t.owner
  <1>1. Exists(o)
    BY TokenSteps DEF WideInv
  <1>2. CASE \A n \in Names : ~DeleteUser(n)
    <2> HIDE DEF o
    <2>1. Exists(o)'
      BY <1>1, <1>2, ExistsKept
    <2>2. (\E n \in Names : user[n] # None /\ user[n].id = o)'
      BY <2>1 DEF Exists
    <2> QED
      BY <2>2 DEF Exists, o
  <1>3. ASSUME NEW n \in Names, DeleteUser(n) PROVE Exists(t.owner)'
    <2>1. t \in token /\ o # user[n].id /\ user' = [user EXCEPT ![n] = None]
      BY <1>3 DEF DeleteUser
    <2>2. PICK m \in Names : user[m] # None /\ user[m].id = o
      BY <1>1 DEF Exists
    <2>3. user'[m] = user[m]
      BY <2>1, <2>2 DEF Typed
    <2> QED
      BY <2>2, <2>3 DEF Exists
  <1> QED
    BY <1>2, <1>3

\* A request that follows a link knows whose it is.
LEMMA LinksKnown ==
    ASSUME Typed, WideInv, [Next]_vars, NEW d \in Calls,
           call'[d].op = "follow", call'[d].at # "idle"
    PROVE  call'[d].link \in Calls
  <1>1. call[d].op = "follow" /\ call[d].at # "idle" => call[d].link \in Calls
    BY DEF WideInv
  <1>2. ASSUME NEW c \in Calls, Beginning(c) PROVE call'[d].link \in Calls
    <2>1. CASE d # c
      BY <1>1, <1>2, <2>1, Begins
    <2>2. CASE d = c
      <3>1. PICK op \in {"signup", "org", "oauth", "link", "mail", "follow"}, n \in Names, of \in Id \union {None},
                 kind \in Kinds, link \in Calls \union {None}, at \in Place :
               Begin(c, op, n, of, kind, link, at) /\ (op = "follow" => link \in Calls)
        <4>1. ASSUME NEW n \in Names, BeginSignup(c, n) \/ BeginOrg(c, n)
              PROVE  \E op \in {"signup", "org"}, at \in {"checked", "refused"} :
                        Begin(c, op, n, None, "verify", None, at)
          BY <4>1 DEF BeginSignup, BeginOrg
        <4>2. ASSUME NEW n \in Names, BeginOAuth(c, n)
              PROVE  \E at \in {"found", "wanted"} : Begin(c, "oauth", n, identity[n], "verify", None, at)
          BY <4>2 DEF BeginOAuth
        <4>3. ASSUME NEW n \in Names, NEW id \in Id, BeginLink(c, n, id)
              PROVE  Begin(c, "link", n, id, "verify", None, "known")
          BY <4>3 DEF BeginLink
        <4>4. ASSUME NEW n \in Names, NEW kind \in Kinds, BeginMail(c, n, kind)
              PROVE  user[n].id \in Id /\ \E at \in {"done", "wanted"} :
                        Begin(c, "mail", n, user[n].id, kind, None, at)
          BY <4>4 DEF BeginMail, Typed, Account
        <4>5. ASSUME NEW t \in token, BeginFollow(c, t)
              PROVE  /\ t.owner \in Id /\ t.kind \in Kinds /\ t.id \in Calls
                     /\ \E n \in Names, at \in {"found", "refused"} :
                           Begin(c, "follow", n, t.owner, t.kind, t.id, at)
          <5>1. (CHOOSE n \in Names : TRUE) \in Names
            OBVIOUS
          <5> QED
            BY <4>5, <5>1 DEF BeginFollow, Typed, Token
        <4>6. "verify" \in Kinds /\ {"checked", "refused", "found", "wanted", "known", "done"} \subseteq Place
          BY DEF Kinds, Place, Over
        <4>7. \A n \in Names : identity[n] \in Id \union {None}
          BY DEF Typed
        <4> QED
          BY <1>2, <4>1, <4>2, <4>3, <4>4, <4>5, <4>6, <4>7 DEF Beginning
      <3>2. call'[c].op = op /\ call'[c].link = link
        BY <3>1, BeginTyped
      <3> QED
        BY <2>2, <3>1, <3>2
    <2> QED
      BY <2>1, <2>2
  <1>3. ASSUME NEW c \in Calls, Moving(c) PROVE call'[d].link \in Calls
    BY <1>1, <1>3, Moves DEF Arrow, Over
  <1>4. ASSUME NEW c \in Calls, Inserting(c) PROVE call'[d].link \in Calls
    BY <1>1, <1>4, Inserts
  <1>5. CASE Administering \/ UNCHANGED vars
    BY <1>1, <1>5 DEF Administering, Approve, DeleteUser, SetDisabled, Expire, Prune, Admin, vars
  <1> QED
    BY <1>2, <1>3, <1>4, <1>5, Steps

\* A link sets a password once for each request that followed it so far.
LEMMA SetsBounded ==
    ASSUME Typed, WideInv, [Next]_vars, NEW l \in Calls
    PROVE  sets'[l] <= Cardinality(Acted')
  <1>0. /\ sets[l] \in Nat /\ sets[l] <= Cardinality(Acted)
        /\ IsFiniteSet(Acted) /\ IsFiniteSet(Acted')
        /\ Cardinality(Acted) \in Nat /\ Cardinality(Acted') \in Nat
    <2>1. Acted \subseteq Calls /\ Acted' \subseteq Calls
      BY DEF Acted
    <2>2. IsFiniteSet(Acted) /\ IsFiniteSet(Acted')
      BY <2>1, FS_Subset
    <2> QED
      BY <2>2, FS_CardinalityType DEF Typed, WideInv
  <1>1. Acted \subseteq Acted'
    <2> SUFFICES ASSUME NEW d \in Calls, call[d].op = "follow", call[d].at \in {"acted", "done", "cut"}
                 PROVE  call'[d].op = "follow" /\ call'[d].at \in {"acted", "done", "cut"}
      BY DEF Acted
    <2>1. ASSUME NEW c \in Calls, Beginning(c) PROVE call'[d] = call[d]
      BY <2>1, Begins
    <2>2. ASSUME NEW c \in Calls, Inserting(c) PROVE call'[d] = call[d]
      BY <2>2, Inserts
    <2>3. ASSUME NEW c \in Calls, Moving(c)
          PROVE  call'[d].op = "follow" /\ call'[d].at \in {"acted", "done", "cut"}
      BY <2>3, Moves DEF Arrow, Over
    <2>4. CASE Administering \/ UNCHANGED vars
      BY <2>4 DEF Administering, Approve, DeleteUser, SetDisabled, Expire, Prune, Admin, vars
    <2> QED
      BY <2>1, <2>2, <2>3, <2>4, Steps
  <1>2. CASE sets'[l] = sets[l]
    <2>1. Cardinality(Acted) <= Cardinality(Acted')
      BY <1>0, <1>1, FS_Subset
    <2> QED
      BY <1>0, <1>2, <2>1
  <1>3. ASSUME NEW c \in Calls, call[c].op = "follow", call[c].at = "found", Following(c, l)', call'[c].at = "acted",
               sets'[l] = sets[l] + 1
        PROVE  sets'[l] <= Cardinality(Acted')
    <2>1. c \notin Acted /\ c \in Acted'
      BY <1>3 DEF Acted, Following
    <2>2. Acted \subseteq Acted' \ {c}
      BY <1>1, <2>1
    <2>3. IsFiniteSet(Acted' \ {c}) /\ Cardinality(Acted' \ {c}) = Cardinality(Acted') - 1
      BY <1>0, <2>1, FS_RemoveElement
    <2>4. Cardinality(Acted) <= Cardinality(Acted' \ {c})
      BY <2>2, <2>3, FS_Subset
    <2> QED
      BY <1>0, <1>3, <2>3, <2>4
  <1> QED
    BY <1>2, <1>3, SetsSteps DEF Following

LEMMA WideKept ==
    ASSUME Typed, IdInv, WideInv, [Next]_vars
    PROVE  WideInv'
  <1> DEFINE Good == /\ org' \subseteq Names /\ shared' \subseteq Names /\ crowd' \subseteq Id \X Kinds
                     /\ loose' \subseteq Calls
                     /\ faults' \in 0..MaxFaults /\ admin' \in 0..MaxAdmin
  <1>0. /\ org \subseteq Names /\ shared \subseteq Names /\ crowd \subseteq Id \X Kinds
        /\ loose \subseteq Calls /\ faults \in 0..MaxFaults /\ admin \in 0..MaxAdmin
    BY DEF WideInv
  <1>1. ASSUME NEW c \in Calls, Beginning(c) PROVE Good
    <2>1. ASSUME NEW n \in Names, \/ BeginSignup(c, n) \/ BeginOrg(c, n) \/ BeginOAuth(c, n)
                                  \/ \E id \in Id : BeginLink(c, n, id)
          PROVE  Good
      <3>1. UNCHANGED <<org, crowd, loose, faults, admin>> /\ shared' \subseteq shared \union {n}
        BY <2>1 DEF BeginSignup, BeginOrg, BeginOAuth, BeginLink, Begin, tables, budget, history
      <3> QED
        BY <1>0, <3>1
    <2>2. ASSUME NEW n \in Names, NEW kind \in Kinds, BeginMail(c, n, kind) PROVE Good
      <3>1. user[n].id \in Id
        BY <2>2 DEF BeginMail, Typed, Account
      <3>2. UNCHANGED <<org, shared, loose, faults, admin>> /\ crowd' \subseteq crowd \union {<<user[n].id, kind>>}
        BY <2>2 DEF BeginMail, Begin, tables, budget, Crowded
      <3> QED
        BY <1>0, <3>1, <3>2
    <2>3. ASSUME NEW t \in token, BeginFollow(c, t) PROVE Good
      <3>1. t.id \in Calls
        BY DEF Typed, Token
      <3>2. UNCHANGED <<org, shared, crowd, faults, admin>> /\ loose' \subseteq loose \union {t.id}
        BY <2>3 DEF BeginFollow, Begin, tables, budget
      <3> QED
        BY <1>0, <3>1, <3>2
    <2> QED
      BY <1>1, <2>1, <2>2, <2>3 DEF Beginning
  <1>2. ASSUME NEW c \in Calls, Moving(c) PROVE Good
    <2>1. CASE InsertOrg(c)
      <3>1. UNCHANGED <<shared, crowd, loose, faults, admin>> /\ org' = org \union {call[c].name}
        BY <2>1 DEF InsertOrg, budget, history
      <3> QED
        BY <1>0, <3>1, CallFields
    <2>2. CASE Cut(c)
      <3>1. /\ UNCHANGED <<org, shared, crowd, admin>> /\ faults > 0 /\ faults' = faults - 1
            /\ loose' = IF call[c].op = "follow" THEN loose \union {call[c].link} ELSE loose
        BY <2>2 DEF Cut, tables
      <3> QED
        BY <1>0, <2>2, <3>1 DEF WideInv, Cut, Busy
    <2>3. CASE ~InsertOrg(c) /\ ~Cut(c)
      <3>1. UNCHANGED <<org, shared, crowd, loose, faults, admin>>
        BY <1>2, <2>3 DEF Moving, Stamp, SignIn, Provision, InsertIdentity, Clear, Issue, Act, Use, Register,
                          tables, budget, history
      <3> QED
        BY <1>0, <3>1
    <2> QED
      BY <2>1, <2>2, <2>3
  <1>3. ASSUME NEW c \in Calls, Inserting(c) PROVE Good
    BY <1>0, <1>3 DEF Inserting, Register, budget, history
  <1>4. ASSUME Administering PROVE Good
    <2>1. /\ UNCHANGED <<org, shared, crowd, loose, faults>> /\ admin > 0 /\ admin' = admin - 1
      BY <1>4 DEF Administering, Approve, DeleteUser, SetDisabled, Expire, Prune, Admin, history
    <2> QED
      BY <1>0, <2>1
  <1>5. ASSUME UNCHANGED vars PROVE Good
    BY <1>0, <1>5 DEF vars
  <1>6. Good
    BY <1>1, <1>2, <1>3, <1>4, <1>5, Steps
  <1>7. \A c \in Calls : call'[c].op = "follow" /\ call'[c].at # "idle" => call'[c].link \in Calls
    BY LinksKnown
  <1>8. \A l \in Calls : sets'[l] <= Cardinality(Acted')
    BY SetsBounded
  <1>9. \A t \in token' : Exists(t.owner)'
    BY OwnersStay
  <1> QED
    BY <1>6, <1>7, <1>8, <1>9 DEF WideInv

(* Every table and request keeps its type, every link has its account (the *)
(* cascade of DELETE FROM users), and a link sets at most one password for *)
(* each request (user_repo.rs, password_reset.rs).                         *)
THEOREM AccountsTypes == Spec => []TypeOK
  <1> DEFINE IInv == Typed /\ IdInv /\ WideInv
  <1>1. Init => IInv
    <2> SUFFICES ASSUME Init PROVE IInv
      OBVIOUS
    <2>1. /\ token = {} /\ org = {} /\ shared = {} /\ crowd = {} /\ loose = {}
          /\ faults = MaxFaults /\ admin = MaxAdmin /\ sets = [c \in Calls |-> 0]
          /\ \A c \in Calls : call[c].at = "idle"
      BY DEF Init
    <2>2. Acted \subseteq Calls
      BY DEF Acted
    <2>3. Cardinality(Acted) \in Nat
      BY <2>2, FS_Subset, FS_CardinalityType
    <2> QED
      BY <2>1, <2>3, AtFirst DEF WideInv
  <1>2. IInv /\ [Next]_vars => IInv'
    BY TypesKept, IdKept, WideKept
  <1>3. IInv => TypeOK
    <2> SUFFICES ASSUME Typed, WideInv PROVE TypeOK
      OBVIOUS
    <2>1. sets \in [Calls -> 0..Cardinality(Calls)]
      <3>1. Acted \subseteq Calls
        BY DEF Acted
      <3>2. Cardinality(Acted) <= Cardinality(Calls) /\ Cardinality(Calls) \in Nat /\ Cardinality(Acted) \in Nat
        BY <3>1, FS_Subset, FS_CardinalityType
      <3>3. \A l \in Calls : sets[l] \in Nat /\ sets[l] <= Cardinality(Acted)
        BY DEF Typed, WideInv
      <3>4. sets \in [Calls -> Nat]
        BY DEF Typed
      <3> HIDE DEF Acted
      <3>5. \A l \in Calls : sets[l] \in 0..Cardinality(Calls)
        BY <3>2, <3>3
      <3> QED
        BY <3>4, <3>5
    <2> QED
      BY <2>1 DEF Typed, WideInv, TypeOK
  <1> QED
    BY <1>1, <1>2, <1>3, PTL DEF Spec

=============================================================================
