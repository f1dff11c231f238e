------------------------------- MODULE Logins -------------------------------
(***************************************************************************)
(* Signing in to one account: the throttle on wrong passwords              *)
(* (login_throttle.rs, login_attempt_repo.rs), the second factor -- TOTP   *)
(* with its recovery codes (totp.rs, totp_repo.rs) and passkeys            *)
(* (webauthn.rs, webauthn_repo.rs) -- and the routes that string them      *)
(* together (auth_routes.rs, webauthn_routes.rs).  Each statement is a     *)
(* step of its own; there is no transaction around any two of them.        *)
(*                                                                         *)
(* Time is counted in units of BASE_LOCK_SECONDS.  Cryptography is         *)
(* abstracted to its verdict: a code is for a secret or a recovery code, a *)
(* passkey's assertion is known by the authenticator's counter.            *)
(***************************************************************************)
EXTENDS Integers, Sequences, FiniteSets

CONSTANTS Calls,      \* requests that may ever be made (a bound)
          Ips,        \* client addresses; None when there is none
          All,        \* the account-wide counter's key
          Old,        \* what the account had from before
          None,
          Starts,     \* accounts to start from: [count, totp, passkey] (a bound)
          Batch,      \* RECOVERY_CODE_COUNT
          MaxFaults,  \* bound: calls cut, reads that fail
          MaxTicks,   \* bound: time passing, links asked for
          MaxSigns    \* bound: assertions the authenticator makes

LOCK_THRESHOLD == 5
MAX_LOCK == 60

ASSUME LoginsAssumption ==
    /\ IsFiniteSet(Calls)
    /\ None \notin Calls \union Ips \union {All, Old} /\ All \notin Ips /\ Old \notin Calls
    /\ Starts \subseteq [count : 0..20, totp : BOOLEAN, passkey : BOOLEAN] /\ Batch \in Nat \ {0}
    /\ {MaxFaults, MaxTicks, MaxSigns} \subseteq Nat

VARIABLES
    attempt,  \* login_attempts: [count, window, left] of each key
    totp,     \* totp_secrets: [secret, active]; the secret None without a row
    codes,    \* totp_recovery_codes: <<batch, number>>
    spent,    \* those with used_at set
    passkeys, \* webauthn_credentials in order: [id, sign_count]
    links,    \* live password-reset links: the era each was issued in
    call,     \* each request
    signs,    \* the authenticator's own counter (external)
    faults, ticks,      \* what is left of the bounds
    era,      \* history: second factors ever switched on
    before,   \* history: logins under way when a key was last locked
    mixed,    \* history: keys with overlapping logins
    proved,   \* history: secrets a code was shown for
    latest,   \* history: the activation that last finished
    tangled,  \* history: changes of the TOTP set-up overlapped or were cut
    taken,    \* history: how often a recovery code was accepted
    signed,   \* history: how often an assertion was accepted
    loose     \* history: passkey sign-ins overlapped or were cut

factors == <<totp, codes, spent, passkeys, links, signs>>
budget == <<faults, ticks>>
setup == <<proved, latest, tangled>>
accepts == <<taken, signed>>
vars == <<attempt, factors, call, budget, era, before, mixed, setup, accepts, loose>>

-----------------------------------------------------------------------------
Keys == Ips \union {All}
KeysOf(ip) == IF ip = None THEN <<All>> ELSE <<All, ip>>
Secrets == Calls \union {Old}
RecoveryCodes == Secrets \X (1..Batch)
Assertions == 1..MaxSigns
Submitted == RecoveryCodes \union {<<s>> : s \in Secrets \union {None}}

Clean == [count |-> 0, window |-> 0, left |-> 0]
Ops == {"login", "code", "enroll", "activate", "disable", "register", "passkey"}
Over == {"refused", "pending", "session", "done", "cut"}
Place == {"idle", "check", "password", "record", "arm", "clear", "decide", "found",
          "proved", "active", "cleared", "numbered", "deleted"} \union Over
Call == [op : Ops \union {None}, ip : Ips \union {None}, sub : Submitted,
         held : Secrets \union {None}, sign : 0..MaxSigns, todo : Seq(Keys),
         seen : Nat, era : Nat, at : Place]

TypeOK ==
    /\ \A k \in Keys : /\ attempt[k].count \in 0..(20 + Cardinality(Calls))
                       /\ attempt[k].left \in 0..attempt[k].window
                       /\ attempt[k].window \in 0..MAX_LOCK
    /\ totp \in [secret : Secrets \union {None}, active : BOOLEAN]
    /\ spent \subseteq RecoveryCodes /\ codes \subseteq RecoveryCodes
    /\ passkeys \in Seq([id : Secrets, sign : 0..MaxSigns])
    /\ links \subseteq Nat /\ signs \in 0..MaxSigns
    /\ call \in [Calls -> Call]
    /\ faults \in 0..MaxFaults /\ ticks \in 0..MaxTicks /\ era \in 0..Cardinality(Calls)
    /\ before \in [Keys -> SUBSET Calls] /\ mixed \subseteq Keys
    /\ proved \subseteq Secrets /\ latest \in Secrets \union {None}
    /\ tangled \in BOOLEAN /\ loose \in BOOLEAN
    /\ taken \in [RecoveryCodes -> Nat] /\ signed \in [Assertions -> Nat]

Init ==
    /\ \E start \in Starts :
        /\ attempt = [k \in Keys |-> [Clean EXCEPT !.count = start.count]]
        /\ totp = [secret |-> IF start.totp THEN Old ELSE None, active |-> start.totp]
        /\ passkeys = IF start.passkey THEN <<[id |-> Old, sign |-> 0]>> ELSE <<>>
    /\ codes = IF totp.active THEN {Old} \X (1..Batch) ELSE {}
    /\ spent = {} /\ links = {} /\ signs = 0
    /\ call = [c \in Calls |-> [op |-> None, ip |-> None, sub |-> <<None>>, held |-> None,
           sign |-> 0, todo |-> <<>>, seen |-> 0, era |-> 0, at |-> "idle"]]
    /\ faults = MaxFaults /\ ticks = MaxTicks /\ era = 0
    /\ before = [k \in Keys |-> {}] /\ mixed = {}
    /\ proved = {Old} /\ latest = IF totp.active THEN Old ELSE None
    /\ tangled = FALSE /\ loose = FALSE
    /\ taken = [r \in RecoveryCodes |-> 0] /\ signed = [n \in Assertions |-> 0]

-----------------------------------------------------------------------------
Busy(ops) == {c \in Calls : call[c].op \in ops /\ call[c].at \notin Over \union {"idle"}}
At(c, op, place) == call[c].op = op /\ call[c].at = place
Goto(c, place) == call' = [call EXCEPT ![c].at = place]
NoHistory == UNCHANGED <<era, before, mixed, setup, accepts, loose>>

Begin(c, op, ip, sub, held, sign, at) ==
    /\ call[c].at = "idle"
    /\ call' = [call EXCEPT ![c] = [@ EXCEPT !.op = op, !.ip = ip, !.sub = sub,
                    !.held = held, !.sign = sign, !.at = at,
                    !.todo = IF op = "login" THEN KeysOf(ip) ELSE <<>>]]
    /\ UNCHANGED <<attempt, factors, budget>>

-----------------------------------------------------------------------------
(* The password step.  The throttle's keys are read, and after a wrong     *)
(* password counted and locked, one after the other.                       *)

BeginLogin(c, ip) ==
    /\ Begin(c, "login", ip, <<None>>, None, 0, "check")
    /\ mixed' = mixed \union {k \in Keys : \E d \in Busy({"login"}) :
                    \E i \in 1..Len(KeysOf(ip)), j \in 1..Len(KeysOf(call[d].ip)) :
                        KeysOf(ip)[i] = k /\ KeysOf(call[d].ip)[j] = k}
    /\ UNCHANGED <<era, before, setup, accepts, loose>>

\* The next key in hand, if the call is at this place.
Works(c, place) == At(c, "login", place) /\ call[c].todo # <<>>
Advance(c, place, next, again) ==
    call' = [call EXCEPT ![c].todo = IF Len(@) = 1 THEN again ELSE Tail(@),
                         ![c].at = IF Len(call[c].todo) = 1 THEN next ELSE place]

\* Mutant: the account-wide counter is not looked at.
Locks_OnlyIp(k) == k # All /\ attempt[k].left > 0
Locks(k) == attempt[k].left > 0

\* check: the worst lock of all keys refuses; each is a read of its own.
Check(c) ==
    /\ Works(c, "check")
    /\ IF Locks(Head(call[c].todo)) THEN Goto(c, "refused")
       ELSE Advance(c, "check", "password", KeysOf(call[c].ip))
    /\ UNCHANGED <<attempt, factors, budget>> /\ NoHistory

Authenticate(c, right) ==
    /\ At(c, "login", "password")
    /\ Goto(c, IF right THEN "clear" ELSE "record")
    /\ UNCHANGED <<attempt, factors, budget>> /\ NoHistory

\* Mutant: the window doubles without a ceiling.
Window_NoCeiling(count) == 2 ^ (count - LOCK_THRESHOLD)
Window(count) ==
    LET over == count - LOCK_THRESHOLD
        steps == IF over > 6 THEN 6 ELSE over
        window == 2 ^ steps
    IN  IF window > MAX_LOCK THEN MAX_LOCK ELSE window

\* One upsert counts the failure, and the row is read again.
Record(c) ==
    /\ Works(c, "record")
    /\ LET k == Head(call[c].todo)
       IN  /\ attempt' = [attempt EXCEPT ![k].count = @ + 1]
           /\ IF attempt[k].count + 1 >= LOCK_THRESHOLD
              THEN call' = [call EXCEPT ![c].at = "arm", ![c].seen = attempt[k].count + 1]
              ELSE Advance(c, "record", "refused", <<>>)
    /\ UNCHANGED <<factors, budget>> /\ NoHistory

\* set_locked_until: nothing when the row was cleared meanwhile.
Arm(c) ==
    /\ Works(c, "arm")
    /\ LET k == Head(call[c].todo)
           w == Window(call[c].seen)
       IN  /\ attempt' = IF attempt[k].count = 0 THEN attempt
                         ELSE [attempt EXCEPT ![k].window = w, ![k].left = w]
           /\ before' = [before EXCEPT ![k] = Busy({"login"})]
           /\ Advance(c, "record", "refused", <<>>)
    /\ UNCHANGED <<factors, budget, era, mixed, setup, accepts, loose>>

Clear(c) ==
    /\ Works(c, "clear")
    /\ attempt' = [attempt EXCEPT ![Head(call[c].todo)] = Clean]
    /\ Advance(c, "clear", "decide", <<>>)
    /\ UNCHANGED <<factors, budget>> /\ NoHistory

\* A second factor is asked for when there is one.
Decide(c) ==
    /\ At(c, "login", "decide")
    /\ Goto(c, IF totp.active \/ passkeys # <<>> THEN "pending" ELSE "session")
    /\ UNCHANGED <<attempt, factors, budget>> /\ NoHistory

-----------------------------------------------------------------------------
(* TOTP.  Enrolling stores a fresh secret that is not active; activating   *)
(* shows a code for it, switches it on and replaces the recovery codes.    *)

Setup == {"enroll", "activate", "disable"}
Tangles == tangled' = (tangled \/ Busy({"activate", "disable"}) # {})

\* Mutant: enrolling again leaves the old activation in place.
Enrolled_KeepsActive(c) == [secret |-> c, active |-> totp.active]
Enrolled(c) == [secret |-> c, active |-> FALSE]

Enroll(c) ==
    /\ call[c].at = "idle"
    /\ call' = [call EXCEPT ![c].op = "enroll", ![c].at = "done"]
    /\ totp' = Enrolled(c)
    /\ Tangles
    /\ UNCHANGED <<attempt, codes, spent, passkeys, links, signs, budget>>
    /\ UNCHANGED <<era, before, mixed, proved, latest, accepts, loose>>

\* The secret is read; the code shown is for some secret, or for none.
BeginActivate(c, s) ==
    /\ Begin(c, "activate", None, <<s>>, totp.secret, 0,
             IF totp.secret # None /\ s = totp.secret THEN "proved" ELSE "refused")
    /\ proved' = IF totp.secret # None /\ s = totp.secret THEN proved \union {s} ELSE proved
    /\ tangled' = (tangled \/ Busy({"activate", "disable"}) # {})
    /\ UNCHANGED <<era, before, mixed, latest, accepts, loose>>

\* UPDATE ... SET activated_at WHERE user_id: whatever secret is there now.
SwitchOn(c) ==
    /\ At(c, "activate", "proved")
    /\ totp' = [totp EXCEPT !.active = totp.secret # None]
    /\ era' = era + 1
    /\ call' = [call EXCEPT ![c].at = "active", ![c].era = era + 1]
    /\ UNCHANGED <<attempt, codes, spent, passkeys, links, signs, budget>>
    /\ UNCHANGED <<before, mixed, setup, accepts, loose>>

\* invalidate_all_for_user, by activate and by finish_registration.
KillLinks(c) == links' = {}

DropLinks(c) ==
    /\ call[c].op \in {"activate", "register"} /\ call[c].at = "active"
    /\ KillLinks(c)
    /\ Goto(c, IF call[c].op = "activate" THEN "cleared" ELSE "done")
    /\ UNCHANGED <<attempt, totp, codes, spent, passkeys, signs, budget>> /\ NoHistory

\* replace_recovery_codes, first statement: the old batch goes.
DropCodes(c) == codes' = {} /\ spent' = {}

DeleteCodes(c) ==
    /\ At(c, "activate", "cleared") \/ At(c, "disable", "deleted")
    /\ DropCodes(c)
    /\ Goto(c, IF call[c].op = "activate" THEN "numbered" ELSE "done")
    /\ UNCHANGED <<attempt, totp, passkeys, links, signs, budget>> /\ NoHistory

InsertCode(c) ==
    /\ At(c, "activate", "numbered")
    /\ LET n == call[c].seen + 1
       IN  /\ codes' = codes \union {<<c, n>>}
           /\ call' = [call EXCEPT ![c].seen = n, ![c].at = IF n = Batch THEN "done" ELSE @]
           /\ latest' = IF n = Batch THEN c ELSE latest
    /\ UNCHANGED <<attempt, totp, spent, passkeys, links, signs, budget>>
    /\ UNCHANGED <<era, before, mixed, proved, tangled, accepts, loose>>

Disable(c) ==
    /\ call[c].at = "idle"
    /\ call' = [call EXCEPT ![c].op = "disable", ![c].at = "deleted"]
    /\ totp' = [secret |-> None, active |-> FALSE]
    /\ Tangles
    /\ UNCHANGED <<attempt, codes, spent, passkeys, links, signs, budget>>
    /\ UNCHANGED <<era, before, mixed, proved, latest, accepts, loose>>

-----------------------------------------------------------------------------
(* The second step of a login: a TOTP code or a recovery code.             *)

BeginCode(c, sub) ==
    /\ Begin(c, "code", None, sub, totp.secret, 0, IF totp.active THEN "found" ELSE "refused")
    /\ NoHistory

\* Mutant: a code that was spent is accepted all the same.
Usable_Spent == codes
Usable == codes \ spent

\* consume_recovery_code: one UPDATE; else the code is for the secret in hand.
Consume(c) ==
    /\ At(c, "code", "found")
    /\ IF call[c].sub \in Usable
       THEN /\ spent' = spent \union {call[c].sub}
            /\ taken' = [taken EXCEPT ![call[c].sub] = @ + 1]
            /\ Goto(c, "session")
       ELSE /\ Goto(c, IF call[c].sub = <<call[c].held>> THEN "session" ELSE "refused")
            /\ UNCHANGED <<spent, taken>>
    /\ UNCHANGED <<attempt, totp, codes, passkeys, links, signs, budget>>
    /\ UNCHANGED <<era, before, mixed, setup, signed, loose>>

-----------------------------------------------------------------------------
(* Passkeys.  One authenticator; its counter only grows.                   *)

Sign ==
    /\ passkeys # <<>> /\ signs < MaxSigns
    /\ signs' = signs + 1
    /\ UNCHANGED <<attempt, totp, codes, spent, passkeys, links, call, budget>> /\ NoHistory

\* finish_registration: the credential is inserted, then links are dropped.
Register(c) ==
    /\ call[c].at = "idle"
    /\ passkeys' = Append(passkeys, [id |-> c, sign |-> signs])
    /\ era' = era + 1
    /\ call' = [call EXCEPT ![c].op = "register", ![c].at = "active", ![c].era = era + 1]
    /\ UNCHANGED <<attempt, totp, codes, spent, links, signs, budget>>
    /\ UNCHANGED <<before, mixed, setup, accepts, loose>>

Matched == passkeys[1]

\* Passkey counters that stay at zero are let through.
Forward(old, new) == (old = 0 /\ new = 0) \/ new > old

\* finish_authentication up to its write: the stored counter must be behind.
BeginPasskey(c, n) ==
    /\ n =< signs
    /\ Begin(c, "passkey", None, <<None>>,
             IF passkeys = <<>> THEN None ELSE Matched.id, n,
             IF passkeys # <<>> /\ Forward(Matched.sign, n) THEN "proved" ELSE "refused")
    /\ loose' = (loose \/ Busy({"passkey"}) # {})
    /\ UNCHANGED <<era, before, mixed, setup, accepts>>

\* update_passkey: nothing when the credential was revoked meanwhile.
UpdatePasskey(c) ==
    /\ At(c, "passkey", "proved")
    /\ passkeys' = [i \in DOMAIN passkeys |-> IF passkeys[i].id = call[c].held
                        THEN [passkeys[i] EXCEPT !.sign = call[c].sign] ELSE passkeys[i]]
    /\ signed' = [signed EXCEPT ![call[c].sign] = @ + 1]
    /\ Goto(c, "session")
    /\ UNCHANGED <<attempt, totp, codes, spent, links, signs, budget>>
    /\ UNCHANGED <<era, before, mixed, setup, taken, loose>>

\* The one authenticator's credential is revoked: all rows of it or the first.
Revoke ==
    /\ passkeys # <<>> /\ ticks > 0 /\ ticks' = ticks - 1
    /\ passkeys' = Tail(passkeys)
    /\ loose' = TRUE
    /\ UNCHANGED <<attempt, totp, codes, spent, links, signs, call, faults>>
    /\ UNCHANGED <<era, before, mixed, setup, accepts>>

-----------------------------------------------------------------------------
(* The rest of the system: time, maintenance, a reset link, a failure.     *)

Elapse(d) ==
    /\ ticks > 0 /\ ticks' = ticks - 1
    /\ attempt' = [k \in Keys |-> [attempt[k] EXCEPT !.left = IF @ > d THEN @ - d ELSE 0]]
    /\ attempt' # attempt
    /\ UNCHANGED <<factors, call, faults>> /\ NoHistory

\* delete_stale: counters that are not locked and saw no failure lately.
Prune(k) ==
    /\ ticks > 0 /\ ticks' = ticks - 1
    /\ attempt[k].left = 0 /\ attempt[k] # Clean
    /\ attempt' = [attempt EXCEPT ![k] = Clean]
    /\ UNCHANGED <<factors, call, faults>> /\ NoHistory

\* password_reset::request (Accounts has its steps): one live link at a time.
IssueLink ==
    /\ ticks > 0 /\ ticks' = ticks - 1
    /\ links' = {era}
    /\ UNCHANGED <<attempt, totp, codes, spent, passkeys, signs, call, faults>> /\ NoHistory

Cut(c) ==
    /\ faults > 0 /\ faults' = faults - 1
    /\ c \in Busy(Ops) /\ Goto(c, "cut")
    /\ tangled' = (tangled \/ call[c].op \in Setup)
    /\ loose' = (loose \/ call[c].op = "passkey")
    /\ mixed' = mixed \union (IF call[c].op = "login" THEN Keys ELSE {})
    /\ UNCHANGED <<attempt, factors, ticks, era, before, proved, latest, accepts>>

Next ==
    \/ \E c \in Calls :
        \/ (\E ip \in Ips \union {None} : BeginLogin(c, ip)) \/ Check(c)
        \/ (\E right \in BOOLEAN : Authenticate(c, right))
        \/ Record(c) \/ Arm(c) \/ Clear(c) \/ Decide(c)
        \/ Enroll(c) \/ SwitchOn(c) \/ DropLinks(c) \/ DeleteCodes(c) \/ InsertCode(c)
        \/ (\E s \in Secrets \union {None} : BeginActivate(c, s)) \/ Disable(c)
        \/ (\E sub \in codes \union {<<s>> : s \in Secrets} : BeginCode(c, sub)) \/ Consume(c)
        \/ Register(c) \/ (\E n \in Assertions : BeginPasskey(c, n)) \/ UpdatePasskey(c)
        \/ Cut(c)
    \/ Sign \/ Revoke \/ IssueLink
    \/ \E k \in Keys : Elapse(attempt[k].left) \/ Prune(k)
    \/ Elapse(1)

Spec == Init /\ [][Next]_vars

-----------------------------------------------------------------------------
(* While a key is locked no password is looked at for it, except by a      *)
(* login that was under way when the lock was armed: the check precedes    *)
(* the password, and reads the account-wide key as well (login_throttle).  *)
LockStops ==
    [][\A c \in Calls : At(c, "login", "password") /\ call'[c].at \in {"clear", "record"} =>
           \A i \in 1..Len(KeysOf(call[c].ip)) :
               attempt[KeysOf(call[c].ip)[i]].left > 0
                   => c \in before[KeysOf(call[c].ip)[i]]]_vars

(* From one lock to the next of a key the window never shrinks and never   *)
(* passes MAX_LOCK_SECONDS, unless two logins for the key overlapped (each *)
(* arms the window of the count it read itself).                           *)
LockGrows ==
    [][\A k \in Keys \ mixed' : attempt'[k].window # 0 =>
           attempt[k].window =< attempt'[k].window /\ attempt'[k].window =< MAX_LOCK]_vars

(* "A code is never accepted twice" (totp_repo.rs): not even by two logins *)
(* that submit it at the same moment.                                      *)
CodeOnce == \A r \in RecoveryCodes : taken[r] =< 1

(* The codes on record for an active secret are exactly the batch that was *)
(* shown last, unless set-ups overlapped or one was cut between the delete *)
(* and the last insert (replace_recovery_codes has no transaction).        *)
CodesShown ==
    totp.active /\ ~tangled /\ Busy(Setup) = {} => codes = {latest} \X (1..Batch)

(* The active secret is one a code was shown for, unless an enrolment came *)
(* between the check of the code and the UPDATE, which names no secret     *)
(* (totp.rs, activate).                                                    *)
ActivatedProved == totp.active /\ ~tangled => totp.secret \in proved

(* "A reset link issued before 2FA was enabled must not bypass the second  *)
(* factor" (totp.rs, webauthn.rs): none from before it survives the call   *)
(* that enabled it.                                                        *)
NoOldLink ==
    \A c \in Calls : call[c].op \in {"activate", "register"} /\ call[c].at = "done" =>
        \A e \in links : e >= call[c].era

(* An assertion signs in once and the stored counter is the last accepted, *)
(* unless two sign-ins overlapped: read, check and write are not one step. *)
CounterForward ==
    ~loose => \A n \in Assertions :
        /\ signed[n] =< 1
        /\ signed[n] = 1 /\ passkeys # <<>> => Matched.sign >= n

(* A lock stops what it is for, and failures after it only lengthen it.    *)
LockHolds == LockStops /\ LockGrows

(* What signs in as a second factor does so once.                          *)
Once == CodeOnce /\ CounterForward

(* Setting up a second factor leaves it as it was shown to its user, with  *)
(* nothing around it that still signs in without it.                       *)
SetupSettled == CodesShown /\ ActivatedProved /\ NoOldLink
=============================================================================
