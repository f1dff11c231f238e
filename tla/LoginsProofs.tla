---------------------------- MODULE LoginsProofs ----------------------------
(***************************************************************************)
(* Theorems about Logins, for any number of requests, addresses, ticks and *)
(* failures: what a lock stops and how it grows, that a second factor      *)
(* signs in once, and how its set-up settles.                              *)
(***************************************************************************)
EXTENDS Logins, FiniteSetTheorems, TLAPS

-----------------------------------------------------------------------------
(* Types, of what the theorems speak of                                    *)

Attempt == [count : Nat, window : 0..MAX_LOCK, left : 0..MAX_LOCK]

Typed ==
    /\ attempt \in [Keys -> Attempt]
    /\ totp \in [secret : Secrets \union {None}, active : BOOLEAN]
    /\ spent \subseteq RecoveryCodes /\ codes \subseteq RecoveryCodes
    /\ passkeys \in Seq([id : Secrets, sign : 0..MaxSigns])
    /\ links \subseteq Nat /\ signs \in 0..MaxSigns
    /\ call \in [Calls -> Call]
    /\ era \in Nat
    /\ before \in [Keys -> SUBSET Calls] /\ mixed \subseteq Keys
    /\ proved \subseteq Secrets /\ latest \in Secrets \union {None}
    /\ tangled \in BOOLEAN /\ loose \in BOOLEAN
    /\ taken \in [RecoveryCodes -> Nat] /\ signed \in [Assertions -> Nat]

\* What a call keeps of what it was made for.
Keeps(c) ==
    /\ call'[c].op = call[c].op /\ call'[c].ip = call[c].ip /\ call'[c].sub = call[c].sub
    /\ call'[c].held = call[c].held /\ call'[c].sign = call[c].sign
Alone(c) == \A d \in Calls \ {c} : call'[d] = call[d]

LEMMA CallFields ==
    ASSUME Typed, NEW c \in Calls
    PROVE  /\ call[c] \in Call /\ call[c].op \in Ops \union {None} /\ call[c].ip \in Ips \union {None}
           /\ call[c].sub \in Submitted /\ call[c].held \in Secrets \union {None}
           /\ call[c].sign \in 0..MaxSigns /\ call[c].todo \in Seq(Keys) /\ call[c].seen \in Nat
           /\ call[c].era \in Nat /\ call[c].at \in Place
  BY DEF Typed, Call

LEMMA GotoFields ==
    ASSUME Typed, NEW c \in Calls, NEW p \in Place, Goto(c, p)
    PROVE  /\ call' \in [Calls -> Call] /\ Keeps(c) /\ Alone(c)
           /\ call'[c].at = p /\ call'[c].todo = call[c].todo /\ call'[c].seen = call[c].seen
           /\ call'[c].era = call[c].era
  <1> DEFINE y == [call[c] EXCEPT !.at = p]
  <1>1. call' = [call EXCEPT ![c] = y]
    BY DEF Goto
  <1>2. /\ y \in Call /\ y.op = call[c].op /\ y.ip = call[c].ip /\ y.sub = call[c].sub
        /\ y.held = call[c].held /\ y.sign = call[c].sign /\ y.at = p
        /\ y.todo = call[c].todo /\ y.seen = call[c].seen /\ y.era = call[c].era
    BY CallFields DEF Call
  <1> HIDE DEF y
  <1> QED
    BY <1>1, <1>2 DEF Typed, Keeps, Alone

LEMMA BeginFields ==
    ASSUME Typed, NEW c \in Calls, NEW op, NEW ip, NEW sub, NEW held, NEW sign, NEW p,
           Begin(c, op, ip, sub, held, sign, p)
    PROVE  /\ Alone(c) /\ call[c].at = "idle"
           /\ call'[c].op = op /\ call'[c].ip = ip /\ call'[c].sub = sub /\ call'[c].held = held
           /\ call'[c].sign = sign /\ call'[c].at = p /\ call'[c].seen = call[c].seen
           /\ call'[c].era = call[c].era
           /\ op = "login" => call'[c].todo = KeysOf(ip)
           /\ /\ op \in Ops /\ ip \in Ips \union {None} /\ sub \in Submitted
              /\ held \in Secrets \union {None} /\ sign \in 0..MaxSigns /\ p \in Place
              /\ KeysOf(ip) \in Seq(Keys)
              => call' \in [Calls -> Call]
  <1> DEFINE t == IF op = "login" THEN KeysOf(ip) ELSE <<>>
             y == [call[c] EXCEPT !.op = op, !.ip = ip, !.sub = sub, !.held = held, !.sign = sign,
                                  !.at = p, !.todo = t]
  <1>1. call' = [call EXCEPT ![c] = y] /\ call[c].at = "idle"
    BY DEF Begin
  <1>2. KeysOf(ip) \in Seq(Keys) => t \in Seq(Keys)
    OBVIOUS
  <1>3. /\ y.op = op /\ y.ip = ip /\ y.sub = sub /\ y.held = held /\ y.sign = sign
        /\ y.at = p /\ y.todo = t /\ y.seen = call[c].seen /\ y.era = call[c].era
    BY CallFields DEF Call
  <1>4. /\ op \in Ops /\ ip \in Ips \union {None} /\ sub \in Submitted
        /\ held \in Secrets \union {None} /\ sign \in 0..MaxSigns /\ p \in Place
        /\ KeysOf(ip) \in Seq(Keys)
        => y \in Call
    <2> HIDE DEF t
    <2> QED
      BY <1>2, CallFields DEF Call
  <1> HIDE DEF y
  <1> QED
    BY <1>1, <1>3, <1>4 DEF Typed, Alone

-----------------------------------------------------------------------------
(* Keys                                                                    *)

\* The keys of a login from an address, and what may be left of them to do.
Touch(ip) == IF ip = None THEN {All} ELSE {All, ip}
Rest(ip) == IF ip = None THEN {<<All>>} ELSE {<<All, ip>>, <<ip>>}

LEMMA KeysFacts ==
    ASSUME NEW ip \in Ips \union {None}
    PROVE  /\ KeysOf(ip) \in Seq(Keys) /\ KeysOf(ip) \in Rest(ip) /\ Touch(ip) \subseteq Keys
           /\ \A i \in 1..Len(KeysOf(ip)) : KeysOf(ip)[i] \in Touch(ip)
           /\ \A k \in Touch(ip) : \E i \in 1..Len(KeysOf(ip)) : KeysOf(ip)[i] = k
  <1>1. CASE ip = None
    BY <1>1 DEF KeysOf, Keys, Rest, Touch
  <1>2. CASE ip # None
    <2>1. KeysOf(ip) = <<All, ip>> /\ All \in Keys /\ ip \in Keys
      BY <1>2 DEF KeysOf, Keys
    <2>2. Len(<<All, ip>>) = 2 /\ <<All, ip>>[1] = All /\ <<All, ip>>[2] = ip /\ <<All, ip>> \in Seq(Keys)
      BY <2>1
    <2> QED
      BY <1>2, <2>1, <2>2 DEF Rest, Touch
  <1> QED
    BY <1>1, <1>2

LEMMA RestFacts ==
    ASSUME NEW ip \in Ips \union {None}, NEW t \in Rest(ip)
    PROVE  /\ t \in Seq(Keys) /\ t # <<>> /\ Head(t) \in Touch(ip) /\ Head(t) \in Keys
           /\ Len(t) # 1 => Tail(t) = <<ip>> /\ ip # None /\ Tail(t) \in Rest(ip) /\ Head(t) = All
           /\ Len(t) = 1 => Touch(ip) \subseteq {All, Head(t)}
           /\ Len(t) = 1 /\ t = KeysOf(ip) => ip = None /\ Head(t) = All
           /\ t # KeysOf(ip) => ip # None /\ t = <<ip>>
  <1>1. CASE ip = None
    <2>1. t = <<All>> /\ KeysOf(ip) = <<All>> /\ All \in Keys
      BY <1>1 DEF Rest, KeysOf, Keys
    <2> QED
      BY <1>1, <2>1 DEF Touch
  <1>2. CASE ip # None /\ t = <<All, ip>>
    <2>1. KeysOf(ip) = <<All, ip>> /\ All \in Keys /\ ip \in Keys
      BY <1>2 DEF KeysOf, Keys
    <2>2. /\ <<All, ip>> \in Seq(Keys) /\ <<All, ip>> # <<>> /\ Head(<<All, ip>>) = All /\ Len(<<All, ip>>) = 2
          /\ Tail(<<All, ip>>) = <<ip>>
      BY <2>1
    <2> QED
      BY <1>2, <2>1, <2>2 DEF Touch, Rest
  <1>3. CASE ip # None /\ t = <<ip>>
    <2>1. KeysOf(ip) = <<All, ip>> /\ All \in Keys /\ ip \in Keys
      BY <1>3 DEF KeysOf, Keys
    <2>2. /\ <<ip>> \in Seq(Keys) /\ <<ip>> # <<>> /\ Head(<<ip>>) = ip /\ Len(<<ip>>) = 1
          /\ <<All, ip>> # <<ip>>
      BY <2>1
    <2> QED
      BY <1>3, <2>1, <2>2 DEF Touch, Rest
  <1> QED
    BY <1>1, <1>2, <1>3 DEF Rest

LEMMA AdvanceFields ==
    ASSUME Typed, NEW c \in Calls, NEW p \in Place, NEW q \in Place, NEW again \in Seq(Keys),
           call[c].todo # <<>>, Advance(c, p, q, again)
    PROVE  /\ call' \in [Calls -> Call] /\ Keeps(c) /\ Alone(c)
           /\ call'[c].seen = call[c].seen /\ call'[c].era = call[c].era
           /\ Len(call[c].todo) = 1 => call'[c].at = q /\ call'[c].todo = again
           /\ Len(call[c].todo) # 1 => call'[c].at = p /\ call'[c].todo = Tail(call[c].todo)
  <1> DEFINE t == IF Len(call[c].todo) = 1 THEN again ELSE Tail(call[c].todo)
             r == IF Len(call[c].todo) = 1 THEN q ELSE p
             y == [call[c] EXCEPT !.todo = t, !.at = r]
  <1>1. call' = [call EXCEPT ![c] = y]
    BY DEF Advance
  <1>2. t \in Seq(Keys) /\ r \in Place
    BY CallFields
  <1> HIDE DEF t, r
  <1>3. /\ y \in Call /\ y.op = call[c].op /\ y.ip = call[c].ip /\ y.sub = call[c].sub
        /\ y.held = call[c].held /\ y.sign = call[c].sign /\ y.at = r
        /\ y.todo = t /\ y.seen = call[c].seen /\ y.era = call[c].era
    BY <1>2, CallFields DEF Call
  <1> HIDE DEF y
  <1> QED
    BY <1>1, <1>3 DEF Typed, Keeps, Alone, t, r

\* The moves of a login from key to key.
LEMMA NextKey ==
    ASSUME Typed, NEW c \in Calls, call[c].todo # <<>>
    PROVE  /\ Advance(c, "record", "refused", <<>>) =>
                /\ call' \in [Calls -> Call] /\ Keeps(c) /\ Alone(c)
                /\ Len(call[c].todo) = 1 => call'[c].at = "refused"
                /\ Len(call[c].todo) # 1 => call'[c].at = "record" /\ call'[c].todo = Tail(call[c].todo)
           /\ Advance(c, "clear", "decide", <<>>) =>
                /\ call' \in [Calls -> Call] /\ Keeps(c) /\ Alone(c)
                /\ Len(call[c].todo) = 1 => call'[c].at = "decide"
                /\ Len(call[c].todo) # 1 => call'[c].at = "clear" /\ call'[c].todo = Tail(call[c].todo)
  <1>1. "record" \in Place /\ "refused" \in Place /\ "clear" \in Place /\ "decide" \in Place
    BY DEF Place, Over
  <1>2. <<>> \in Seq(Keys)
    OBVIOUS
  <1>3. ASSUME NEW p \in Place, NEW q \in Place, NEW again \in Seq(Keys), Advance(c, p, q, again)
        PROVE  /\ call' \in [Calls -> Call] /\ Keeps(c) /\ Alone(c)
               /\ Len(call[c].todo) = 1 => call'[c].at = q
               /\ Len(call[c].todo) # 1 => call'[c].at = p /\ call'[c].todo = Tail(call[c].todo)
    BY <1>3, AdvanceFields
  <1>4. ASSUME Advance(c, "record", "refused", <<>>)
        PROVE  /\ call' \in [Calls -> Call] /\ Keeps(c) /\ Alone(c)
               /\ Len(call[c].todo) = 1 => call'[c].at = "refused"
               /\ Len(call[c].todo) # 1 => call'[c].at = "record" /\ call'[c].todo = Tail(call[c].todo)
    <2>1. PICK again \in Seq(Keys) : Advance(c, "record", "refused", again)
      BY <1>2, <1>4
    <2> QED
      BY <1>1, <1>3, <2>1
  <1>5. ASSUME Advance(c, "clear", "decide", <<>>)
        PROVE  /\ call' \in [Calls -> Call] /\ Keeps(c) /\ Alone(c)
               /\ Len(call[c].todo) = 1 => call'[c].at = "decide"
               /\ Len(call[c].todo) # 1 => call'[c].at = "clear" /\ call'[c].todo = Tail(call[c].todo)
    <2>1. PICK again \in Seq(Keys) : Advance(c, "clear", "decide", again)
      BY <1>2, <1>5
    <2> QED
      BY <1>1, <1>3, <2>1
  <1> QED
    BY <1>4, <1>5

\* The window of a lock: within the ceiling, and never shorter for more failures.
LEMMA WindowFacts ==
    ASSUME NEW m \in Nat, m >= LOCK_THRESHOLD
    PROVE  /\ Window(m) \in 1..MAX_LOCK
           /\ \A n \in Nat : n >= m => Window(m) =< Window(n)
  <1>1. 2^0 = 1 /\ 2^1 = 2 /\ 2^2 = 4 /\ 2^3 = 8 /\ 2^4 = 16 /\ 2^5 = 32 /\ 2^6 = 64
    OBVIOUS
  <1> DEFINE W(i) == IF i = 0 THEN 1 ELSE IF i = 1 THEN 2 ELSE IF i = 2 THEN 4 ELSE IF i = 3 THEN 8
                     ELSE IF i = 4 THEN 16 ELSE IF i = 5 THEN 32 ELSE 60
  <1>2. ASSUME NEW n \in Nat, n >= LOCK_THRESHOLD
        PROVE  Window(n) = W(n - LOCK_THRESHOLD)
    <2> DEFINE over == n - LOCK_THRESHOLD
    <2>1. over \in Nat
      BY <1>2 DEF LOCK_THRESHOLD
    <2> HIDE DEF over
    <2>2. over \in 0..5 \/ over >= 6
      BY <2>1
    <2>3. PICK steps : steps = IF over > 6 THEN 6 ELSE over
      OBVIOUS
    <2>4. Window(n) = IF 2^steps > MAX_LOCK THEN MAX_LOCK ELSE 2^steps
      BY <2>3 DEF Window, over
    <2>5. /\ steps = 0 => 2^steps = 1
          /\ steps = 1 => 2^steps = 2
          /\ steps = 2 => 2^steps = 4
          /\ steps = 3 => 2^steps = 8
          /\ steps = 4 => 2^steps = 16
          /\ steps = 5 => 2^steps = 32
          /\ steps = 6 => 2^steps = 64
      BY <1>1
    <2>6. over \in 0..6 => steps = over
      BY <2>3
    <2>7. over > 6 => steps = 6
      BY <2>3
    <2>8. CASE over \in 0..5
      BY <2>4, <2>5, <2>6, <2>8 DEF MAX_LOCK, over
    <2>9. CASE over >= 6
      BY <2>1, <2>4, <2>5, <2>6, <2>7, <2>9 DEF MAX_LOCK, over
    <2> QED
      BY <2>2, <2>8, <2>9
  <1>3. \A n \in Nat : n >= m => n >= LOCK_THRESHOLD
    BY DEF LOCK_THRESHOLD
  <1> QED
    BY <1>2, <1>3 DEF MAX_LOCK, LOCK_THRESHOLD

-----------------------------------------------------------------------------
(* Which steps there are                                                   *)

LoginStep(c) ==
    \/ (\E ip \in Ips \union {None} : BeginLogin(c, ip)) \/ Check(c)
    \/ (\E right \in BOOLEAN : Authenticate(c, right)) \/ Record(c) \/ Arm(c) \/ Clear(c) \/ Decide(c)
SetupStep(c) ==
    \/ Enroll(c) \/ SwitchOn(c) \/ DropLinks(c) \/ DeleteCodes(c) \/ InsertCode(c)
    \/ (\E s \in Secrets \union {None} : BeginActivate(c, s)) \/ Disable(c) \/ Register(c)
CodeStep(c) == (\E sub \in codes \union {<<s>> : s \in Secrets} : BeginCode(c, sub)) \/ Consume(c)
PasskeyStep(c) == (\E n \in Assertions : BeginPasskey(c, n)) \/ UpdatePasskey(c)
Around == Sign \/ Revoke \/ IssueLink \/ (\E k \in Keys : Elapse(attempt[k].left) \/ Prune(k)) \/ Elapse(1)

LEMMA NextIs ==
    Next => Around \/ \E c \in Calls : LoginStep(c) \/ SetupStep(c) \/ CodeStep(c) \/ PasskeyStep(c) \/ Cut(c)
  BY DEF Next, Around, LoginStep, SetupStep, CodeStep, PasskeyStep

\* What a place says of the call at it.
Shape(c) ==
    /\ call[c].at = "idle" => call[c].seen = 0
    /\ call[c].op = "activate" /\ call[c].at \in {"proved", "active", "cleared"} => call[c].seen = 0
    /\ call[c].op = "activate" /\ call[c].at = "numbered" => call[c].seen < Batch
    /\ call[c].op = "login" /\ call[c].at \in {"check", "record", "arm", "clear"} => call[c].todo \in Rest(call[c].ip)
    /\ call[c].op = "login" /\ call[c].at = "password" => call[c].todo = KeysOf(call[c].ip)
    /\ call[c].op = "login" /\ call[c].at = "arm" => call[c].seen >= LOCK_THRESHOLD
Shapes == \A c \in Calls : Shape(c)

LEMMA ShapesAfter ==
    ASSUME Shapes, NEW c \in Calls, Alone(c), Shape(c)'
    PROVE  Shapes'
  BY DEF Shapes, Shape, Alone

LEMMA Places ==
    \A p \in {"idle", "check", "password", "record", "arm", "clear", "decide", "found", "proved", "active",
              "cleared", "numbered", "deleted", "refused", "pending", "session", "done", "cut"} : p \in Place
  BY DEF Place, Over

LEMMA AttemptSet ==
    ASSUME Typed, NEW k \in Keys, NEW v \in Attempt, attempt' = [attempt EXCEPT ![k] = v]
    PROVE  attempt' \in [Keys -> Attempt]
  BY DEF Typed

LEMMA LoginType ==
    ASSUME Typed, Shapes, NEW c \in Calls, LoginStep(c)
    PROVE  /\ Typed' /\ Shapes' /\ Alone(c)
           /\ call[c].at = "idle" \/ (call[c].op = "login" /\ Keeps(c))
           /\ call'[c].op = "login" /\ call'[c].at # "idle"
           /\ UNCHANGED <<factors, budget, era, setup, accepts, loose>>
  <1> USE DEF NoHistory, factors, budget, setup, accepts
  <1>f. UNCHANGED <<factors, budget, era, setup, accepts, loose>>
    BY DEF LoginStep, BeginLogin, Begin, Check, Authenticate, Record, Arm, Clear, Decide
  <1>0. call[c] \in Call /\ call[c].ip \in Ips \union {None} /\ Shape(c) /\ <<>> \in Seq(Keys)
        /\ KeysOf(call[c].ip) \in Seq(Keys)
    BY CallFields, KeysFacts DEF Shapes
  <1>1. ASSUME NEW ip \in Ips \union {None}, BeginLogin(c, ip)
        PROVE  /\ call' \in [Calls -> Call] /\ Alone(c) /\ Shape(c)' /\ attempt' = attempt
               /\ before' = before /\ mixed' \subseteq Keys
               /\ call[c].at = "idle" /\ call'[c].op = "login" /\ call'[c].at # "idle"
    <2>1. /\ "login" \in Ops /\ <<None>> \in Submitted /\ None \in Secrets \union {None} /\ 0 \in 0..MaxSigns
          /\ "check" \in Place /\ KeysOf(ip) \in Seq(Keys) /\ KeysOf(ip) \in Rest(ip)
      BY Places, KeysFacts, LoginsAssumption DEF Ops, Submitted
    <2>2. Begin(c, "login", ip, <<None>>, None, 0, "check")
      BY <1>1 DEF BeginLogin
    <2>3. /\ call' \in [Calls -> Call] /\ Alone(c) /\ call[c].at = "idle"
          /\ call'[c].op = "login" /\ call'[c].ip = ip /\ call'[c].at = "check" /\ call'[c].todo = KeysOf(ip)
      BY <2>1, <2>2, BeginFields
    <2>4. Shape(c)'
      BY <2>1, <2>3 DEF Shape
    <2>5. attempt' = attempt /\ before' = before /\ mixed' \subseteq Keys
      BY <1>1 DEF BeginLogin, Begin, Typed
    <2> QED
      BY <2>3, <2>4, <2>5
  <1>2. CASE Check(c)
    <2>1. /\ call[c].op = "login" /\ call[c].at = "check" /\ call[c].todo \in Rest(call[c].ip)
          /\ call[c].todo # <<>> /\ UNCHANGED <<attempt, before, mixed>>
          /\ Goto(c, "refused") \/ Advance(c, "check", "password", KeysOf(call[c].ip))
      BY <1>0, <1>2 DEF Check, Works, At, Shape
    <2>2. CASE Goto(c, "refused")
      <3>1. call' \in [Calls -> Call] /\ Keeps(c) /\ Alone(c) /\ call'[c].at = "refused"
        BY <2>2, GotoFields, Places
      <3>2. Shape(c)'
        BY <2>1, <3>1 DEF Shape, Keeps
      <3> QED
        BY <1>f, <2>1, <3>1, <3>2, ShapesAfter DEF Typed, Keeps
    <2>3. CASE Advance(c, "check", "password", KeysOf(call[c].ip))
      <3>1. /\ call' \in [Calls -> Call] /\ Keeps(c) /\ Alone(c)
            /\ Len(call[c].todo) = 1 => call'[c].at = "password" /\ call'[c].todo = KeysOf(call[c].ip)
            /\ Len(call[c].todo) # 1 => call'[c].at = "check" /\ call'[c].todo = Tail(call[c].todo)
        BY <1>0, <2>1, <2>3, AdvanceFields, Places
      <3>2. Shape(c)'
        BY <1>0, <2>1, <3>1, RestFacts DEF Shape, Keeps
      <3> QED
        BY <1>f, <2>1, <3>1, <3>2, ShapesAfter DEF Typed, Keeps
    <2> QED
      BY <2>1, <2>2, <2>3
  <1>3. CASE (\E right \in BOOLEAN : Authenticate(c, right)) \/ Decide(c)
    <2>1. /\ call[c].op = "login" /\ UNCHANGED <<attempt, before, mixed>>
          /\ \/ call[c].at = "password" /\ (Goto(c, "clear") \/ Goto(c, "record"))
             \/ Goto(c, "pending") \/ Goto(c, "session")
      BY <1>3 DEF Authenticate, Decide, At
    <2>2. /\ call' \in [Calls -> Call] /\ Keeps(c) /\ Alone(c) /\ call'[c].todo = call[c].todo
          /\ call'[c].at \in {"pending", "session"}
             \/ (call[c].at = "password" /\ call'[c].at \in {"clear", "record"})
      BY <2>1, GotoFields, Places
    <2>3. Shape(c)'
      BY <1>0, <2>1, <2>2, KeysFacts DEF Shape, Keeps
    <2> QED
      BY <1>f, <2>1, <2>2, <2>3, ShapesAfter DEF Typed, Keeps
  <1>4. CASE Record(c)
    <2> DEFINE k == Head(call[c].todo)
    <2>1. /\ call[c].op = "login" /\ call[c].at = "record" /\ call[c].todo \in Rest(call[c].ip)
          /\ call[c].todo # <<>> /\ UNCHANGED <<before, mixed>>
          /\ k \in Keys /\ attempt' = [attempt EXCEPT ![k].count = @ + 1]
      BY <1>0, <1>4, RestFacts DEF Record, Works, At, Shape
    <2>2. attempt[k] \in Attempt /\ attempt[k].count \in Nat
      BY <2>1 DEF Typed, Attempt
    <2>3. \/ call' = [call EXCEPT ![c].at = "arm", ![c].seen = attempt[k].count + 1] /\ attempt[k].count + 1 >= LOCK_THRESHOLD
          \/ Advance(c, "record", "refused", <<>>)
      BY <1>4 DEF Record
    <2> HIDE DEF k
    <2>4. attempt' \in [Keys -> Attempt]
      <3>1. [attempt[k] EXCEPT !.count = @ + 1] \in Attempt
        BY <2>2 DEF Attempt
      <3> QED
        BY <2>1, <3>1 DEF Typed
    <2>5. CASE call' = [call EXCEPT ![c].at = "arm", ![c].seen = attempt[k].count + 1] /\ attempt[k].count + 1 >= LOCK_THRESHOLD
      <3> DEFINE y == [call[c] EXCEPT !.at = "arm", !.seen = attempt[k].count + 1]
      <3>1. call' = [call EXCEPT ![c] = y]
        BY <2>5
      <3>2. /\ y \in Call /\ y.op = call[c].op /\ y.ip = call[c].ip /\ y.sub = call[c].sub
            /\ y.held = call[c].held /\ y.sign = call[c].sign /\ y.at = "arm" /\ y.todo = call[c].todo
            /\ y.seen = attempt[k].count + 1
        <4>1. "arm" \in Place /\ attempt[k].count + 1 \in Nat
          BY <2>2, Places
        <4> QED
          BY <1>0, <4>1 DEF Call
      <3> HIDE DEF y
      <3>3. /\ call' \in [Calls -> Call] /\ Keeps(c) /\ Alone(c) /\ call'[c].at = "arm"
            /\ call'[c].todo = call[c].todo /\ call'[c].seen = attempt[k].count + 1
        BY <3>1, <3>2 DEF Typed, Keeps, Alone
      <3>5. attempt[k].count + 1 >= LOCK_THRESHOLD
        BY <2>5
      <3>4. Shape(c)'
        BY <2>1, <3>3, <3>5 DEF Shape, Keeps
      <3> QED
        BY <1>f, <2>1, <2>4, <3>3, <3>4, ShapesAfter DEF Typed, Keeps
    <2>6. CASE Advance(c, "record", "refused", <<>>)
      <3>1. /\ call' \in [Calls -> Call] /\ Keeps(c) /\ Alone(c)
            /\ Len(call[c].todo) = 1 => call'[c].at = "refused"
            /\ Len(call[c].todo) # 1 => call'[c].at = "record" /\ call'[c].todo = Tail(call[c].todo)
        BY <2>1, <2>6, NextKey
      <3>2. Shape(c)'
        BY <1>0, <2>1, <3>1, RestFacts DEF Shape, Keeps
      <3> QED
        BY <1>f, <2>1, <2>4, <3>1, <3>2, ShapesAfter DEF Typed, Keeps
    <2> QED
      BY <2>3, <2>5, <2>6
  <1>5. CASE Arm(c) \/ Clear(c)
    <2> DEFINE k == Head(call[c].todo)
    <2>1. /\ call[c].op = "login" /\ call[c].at \in {"arm", "clear"} /\ call[c].todo \in Rest(call[c].ip)
          /\ call[c].todo # <<>> /\ mixed' = mixed /\ k \in Keys
          /\ Advance(c, "record", "refused", <<>>) \/ Advance(c, "clear", "decide", <<>>)
      BY <1>0, <1>5, RestFacts DEF Arm, Clear, Works, At, Shape
    <2> HIDE DEF k
    <2>2. /\ call' \in [Calls -> Call] /\ Keeps(c) /\ Alone(c)
          /\ Len(call[c].todo) = 1 => call'[c].at \in {"refused", "decide"}
          /\ Len(call[c].todo) # 1 => call'[c].at \in {"record", "clear"} /\ call'[c].todo = Tail(call[c].todo)
      BY <2>1, NextKey
    <2>3. Shape(c)'
      BY <1>0, <2>1, <2>2, RestFacts DEF Shape, Keeps
    <2>4. before' \in [Keys -> SUBSET Calls]
      BY <1>5, <2>1 DEF Arm, Clear, Typed, Busy, k
    <2>5. attempt' \in [Keys -> Attempt]
      <3>1. attempt[k] \in Attempt
        BY <2>1 DEF Typed
      <3>2. CASE Clear(c)
        <4>1. Clean \in Attempt
          BY DEF Clean, Attempt, MAX_LOCK
        <4> QED
          BY <2>1, <3>2, <4>1, AttemptSet DEF Clear, k
      <3>3. CASE Arm(c)
        <4> DEFINE w == Window(call[c].seen)
        <4>1. attempt' = attempt \/ attempt' = [attempt EXCEPT ![k].window = w, ![k].left = w]
          BY <3>3 DEF Arm, k
        <4>2. w \in 0..MAX_LOCK
          <5>1. call[c].seen \in Nat
            BY CallFields
          <5>2. call[c].op = "login" /\ call[c].at = "arm"
            BY <3>3 DEF Arm, Works, At
          <5>3. call[c].seen >= LOCK_THRESHOLD
            BY <1>0, <5>2 DEF Shape
          <5>4. w \in 1..MAX_LOCK
            BY <5>1, <5>3, WindowFacts
          <5> QED
            BY <5>4 DEF MAX_LOCK
        <4> HIDE DEF w
        <4>3. [attempt[k] EXCEPT !.window = w, !.left = w] \in Attempt
          BY <3>1, <4>2 DEF Attempt
        <4> QED
          BY <2>1, <4>1, <4>3 DEF Typed
      <3> QED
        BY <1>5, <3>2, <3>3
    <2> QED
      BY <1>f, <2>1, <2>2, <2>3, <2>4, <2>5, ShapesAfter DEF Typed, Keeps
  <1>6. ASSUME NEW ip \in Ips \union {None}, BeginLogin(c, ip)
        PROVE  /\ Typed' /\ Shapes' /\ Alone(c)
               /\ call[c].at = "idle" /\ call'[c].op = "login" /\ call'[c].at # "idle"
    BY <1>f, <1>1, <1>6, ShapesAfter DEF Typed
  <1> QED
    BY <1>f, <1>2, <1>3, <1>4, <1>5, <1>6 DEF LoginStep

LEMMA RegisterFields ==
    ASSUME Typed, NEW c \in Calls, Register(c)
    PROVE  /\ call' \in [Calls -> Call] /\ Alone(c) /\ call'[c].op = "register" /\ call'[c].at = "active"
           /\ call'[c].era = era + 1 /\ call'[c].seen = call[c].seen /\ call'[c].sub = call[c].sub
  <1> DEFINE y == [call[c] EXCEPT !.op = "register", !.at = "active", !.era = era + 1]
  <1>1. call' = [call EXCEPT ![c] = y]
    BY DEF Register
  <1>2. "register" \in Ops /\ "active" \in Place /\ era + 1 \in Nat
    BY Places DEF Ops, Typed
  <1>3. /\ y \in Call /\ y.op = "register" /\ y.at = "active" /\ y.era = era + 1
        /\ y.seen = call[c].seen /\ y.sub = call[c].sub
    BY <1>2, CallFields DEF Call
  <1> HIDE DEF y
  <1> QED
    BY <1>1, <1>3 DEF Typed, Alone

LEMMA DoneFields ==
    ASSUME Typed, NEW c \in Calls, NEW op \in Ops, NEW p \in Place,
           call' = [call EXCEPT ![c].op = op, ![c].at = p]
    PROVE  /\ call' \in [Calls -> Call] /\ Alone(c) /\ call'[c].op = op /\ call'[c].at = p
           /\ call'[c].era = call[c].era /\ call'[c].seen = call[c].seen
  <1> DEFINE y == [call[c] EXCEPT !.op = op, !.at = p]
  <1>1. call' = [call EXCEPT ![c] = y]
    OBVIOUS
  <1>2. /\ y \in Call /\ y.op = op /\ y.at = p /\ y.era = call[c].era /\ y.seen = call[c].seen
    BY CallFields DEF Call
  <1> HIDE DEF y
  <1> QED
    BY <1>1, <1>2 DEF Typed, Alone

LEMMA SwitchFields ==
    ASSUME Typed, NEW c \in Calls, SwitchOn(c)
    PROVE  /\ call' \in [Calls -> Call] /\ Alone(c) /\ Keeps(c)
           /\ call'[c].at = "active" /\ call'[c].era = era + 1 /\ call'[c].seen = call[c].seen
  <1> DEFINE y == [call[c] EXCEPT !.at = "active", !.era = era + 1]
  <1>1. call' = [call EXCEPT ![c] = y]
    BY DEF SwitchOn
  <1>2. "active" \in Place /\ era + 1 \in Nat
    BY Places DEF Typed
  <1>3. /\ y \in Call /\ y.op = call[c].op /\ y.ip = call[c].ip /\ y.sub = call[c].sub
        /\ y.held = call[c].held /\ y.sign = call[c].sign /\ y.at = "active"
        /\ y.seen = call[c].seen /\ y.era = era + 1
    BY <1>2, CallFields DEF Call
  <1> HIDE DEF y
  <1> QED
    BY <1>1, <1>3 DEF Typed, Alone, Keeps

LEMMA InsertFields ==
    ASSUME Typed, NEW c \in Calls, InsertCode(c)
    PROVE  /\ call' \in [Calls -> Call] /\ Alone(c) /\ Keeps(c)
           /\ call'[c].era = call[c].era /\ call'[c].seen = call[c].seen + 1
           /\ call'[c].at = IF call[c].seen + 1 = Batch THEN "done" ELSE "numbered"
  <1> DEFINE n == call[c].seen + 1
             p == IF n = Batch THEN "done" ELSE "numbered"
             y == [call[c] EXCEPT !.seen = n, !.at = p]
  <1>0. call[c].at = "numbered"
    BY DEF InsertCode, At
  <1>1. call' = [call EXCEPT ![c] = y]
    <2>1. call' = [call EXCEPT ![c] = [call[c] EXCEPT !.seen = n, !.at = IF n = Batch THEN "done" ELSE call[c].at]]
      BY CallFields DEF InsertCode, Call
    <2> QED
      BY <1>0, <2>1
  <1>2. p \in Place /\ n \in Nat
    BY Places, CallFields
  <1> HIDE DEF p, n
  <1>3. /\ y \in Call /\ y.op = call[c].op /\ y.ip = call[c].ip /\ y.sub = call[c].sub
        /\ y.held = call[c].held /\ y.sign = call[c].sign /\ y.at = p
        /\ y.seen = n /\ y.era = call[c].era
    BY <1>2, CallFields DEF Call
  <1> HIDE DEF y
  <1> QED
    BY <1>1, <1>3 DEF Typed, Alone, Keeps, n, p

LEMMA SetupType ==
    ASSUME Typed, Shapes, NEW c \in Calls, SetupStep(c)
    PROVE  /\ Typed' /\ Shapes' /\ Alone(c)
           /\ call'[c].op \in {"enroll", "activate", "disable", "register"} /\ call'[c].at # "idle"
           /\ call[c].at = "idle" \/ call[c].op = call'[c].op
           /\ UNCHANGED <<attempt, signs, budget, before, mixed, accepts, loose>>
  <1> USE DEF NoHistory, factors, budget, setup, accepts
  <1>f. UNCHANGED <<attempt, signs, budget, before, mixed, accepts, loose>>
    BY DEF SetupStep, Enroll, SwitchOn, DropLinks, DeleteCodes, InsertCode, BeginActivate, Begin, Disable, Register
  <1>0. call[c] \in Call /\ Shape(c) /\ call[c].seen \in Nat
    BY CallFields DEF Shapes
  <1>c. c \in Secrets /\ Batch \in Nat /\ Batch > 0 /\ None \notin Secrets
    BY LoginsAssumption DEF Secrets
  <1>o. /\ {"enroll", "activate", "disable", "register"} \subseteq Ops /\ era + 1 \in Nat
    BY DEF Ops, Typed
  <1>1. CASE Enroll(c) \/ Disable(c)
    <2>1. /\ call[c].at = "idle"
          /\ \/ call' = [call EXCEPT ![c].op = "enroll", ![c].at = "done"]
             \/ call' = [call EXCEPT ![c].op = "disable", ![c].at = "deleted"]
      BY <1>1 DEF Enroll, Disable
    <2>2. /\ call' \in [Calls -> Call] /\ Alone(c) /\ call'[c].op \in {"enroll", "disable"}
          /\ call'[c].at \in {"done", "deleted"}
      BY <2>1, <1>o, Places, DoneFields
    <2>3. Shape(c)'
      BY <2>2 DEF Shape
    <2>4. totp' \in [secret : Secrets \union {None}, active : BOOLEAN]
      <3>1. totp' = [secret |-> c, active |-> FALSE] \/ totp' = [secret |-> None, active |-> FALSE]
        BY <1>1 DEF Enroll, Disable, Enrolled
      <3>2. \A x \in Secrets \union {None} :
               [secret |-> x, active |-> FALSE] \in [secret : Secrets \union {None}, active : BOOLEAN]
        OBVIOUS
      <3>3. c \in Secrets \union {None} /\ None \in Secrets \union {None}
        BY <1>c
      <3> QED
        BY <3>1, <3>2, <3>3
    <2>6. UNCHANGED <<codes, spent, passkeys, links, era, proved, latest>>
      BY <1>1 DEF Enroll, Disable
    <2>5. tangled' \in BOOLEAN
      BY <1>1 DEF Enroll, Disable, Tangles
    <2> QED
      BY <1>f, <2>1, <2>2, <2>3, <2>4, <2>5, <2>6, ShapesAfter DEF Typed
  <1>2. ASSUME NEW s \in Secrets \union {None}, BeginActivate(c, s)
        PROVE  /\ Typed' /\ Shapes' /\ Alone(c) /\ call'[c].op = "activate" /\ call'[c].at # "idle"
               /\ call[c].at = "idle"
    <2> DEFINE p == IF totp.secret # None /\ s = totp.secret THEN "proved" ELSE "refused"
    <2>1. Begin(c, "activate", None, <<s>>, totp.secret, 0, p) /\ p \in {"proved", "refused"}
      BY <1>2 DEF BeginActivate
    <2> HIDE DEF p
    <2>2. <<s>> \in Submitted /\ totp.secret \in Secrets \union {None} /\ 0 \in 0..MaxSigns /\ p \in Place
          /\ KeysOf(None) \in Seq(Keys) /\ None \in Ips \union {None}
      BY <2>1, Places, KeysFacts, LoginsAssumption DEF Submitted, Typed
    <2>3. /\ call' \in [Calls -> Call] /\ Alone(c) /\ call[c].at = "idle"
          /\ call'[c].op = "activate" /\ call'[c].at = p /\ call'[c].seen = call[c].seen
      BY <1>o, <2>1, <2>2, BeginFields
    <2>4. Shape(c)'
      BY <1>0, <2>1, <2>3 DEF Shape
    <2>5. /\ UNCHANGED <<totp, codes, spent, passkeys, links, era, latest>>
          /\ proved' \subseteq Secrets /\ tangled' \in BOOLEAN
      BY <1>2, <1>c DEF BeginActivate, Begin, Typed
    <2> QED
      BY <1>f, <2>1, <2>3, <2>4, <2>5, ShapesAfter DEF Typed
  <1>3. CASE SwitchOn(c)
    <2>1. /\ call' \in [Calls -> Call] /\ Alone(c) /\ call'[c].op = "activate"
          /\ call'[c].at = "active" /\ call'[c].seen = 0 /\ call[c].op = "activate"
      BY <1>0, <1>3, SwitchFields DEF SwitchOn, At, Shape, Keeps
    <2>2. Shape(c)'
      BY <2>1 DEF Shape
    <2>3. /\ totp' \in [secret : Secrets \union {None}, active : BOOLEAN] /\ era' \in Nat
          /\ UNCHANGED <<codes, spent, passkeys, links, proved, latest, tangled>>
      BY <1>3, <1>o DEF SwitchOn, Typed
    <2> QED
      BY <1>f, <2>1, <2>2, <2>3, ShapesAfter DEF Typed
  <1>4. CASE DropLinks(c)
    <2>1. /\ call[c].op \in {"activate", "register"} /\ call[c].at = "active"
          /\ Goto(c, "cleared") \/ Goto(c, "done")
      BY <1>4 DEF DropLinks
    <2>2. /\ call' \in [Calls -> Call] /\ Alone(c) /\ Keeps(c) /\ call'[c].at \in {"cleared", "done"}
          /\ call'[c].seen = call[c].seen
      BY <2>1, GotoFields, Places
    <2>3. Shape(c)'
      BY <1>0, <2>1, <2>2 DEF Shape, Keeps
    <2>4. /\ links' \subseteq Nat
          /\ UNCHANGED <<totp, codes, spent, passkeys, era, proved, latest, tangled>>
      BY <1>4 DEF DropLinks, KillLinks
    <2> QED
      BY <1>f, <2>1, <2>2, <2>3, <2>4, ShapesAfter DEF Typed, Keeps
  <1>5. CASE DeleteCodes(c)
    <2>1. /\ \/ call[c].op = "activate" /\ call[c].at = "cleared" /\ Goto(c, "numbered")
             \/ call[c].op = "disable" /\ Goto(c, "done")
      BY <1>5 DEF DeleteCodes, At
    <2>2. /\ call' \in [Calls -> Call] /\ Alone(c) /\ Keeps(c) /\ call'[c].at \in {"numbered", "done"}
          /\ call'[c].seen = call[c].seen
      BY <2>1, GotoFields, Places
    <2>3. Shape(c)'
      BY <1>0, <1>c, <2>1, <2>2 DEF Shape, Keeps
    <2>4. /\ codes' \subseteq RecoveryCodes /\ spent' \subseteq RecoveryCodes
          /\ UNCHANGED <<totp, links, passkeys, era, proved, latest, tangled>>
      BY <1>5 DEF DeleteCodes, DropCodes
    <2> QED
      BY <1>f, <2>1, <2>2, <2>3, <2>4, ShapesAfter DEF Typed, Keeps
  <1>6. CASE InsertCode(c)
    <2>1. /\ call' \in [Calls -> Call] /\ Alone(c) /\ Keeps(c) /\ call'[c].seen = call[c].seen + 1
          /\ call'[c].at = IF call[c].seen + 1 = Batch THEN "done" ELSE "numbered"
          /\ call[c].op = "activate" /\ call[c].seen < Batch
      BY <1>0, <1>6, InsertFields DEF InsertCode, At, Shape
    <2>2. Shape(c)'
      BY <1>0, <1>c, <2>1 DEF Shape, Keeps
    <2>3. <<c, call[c].seen + 1>> \in RecoveryCodes
      BY <1>0, <1>c, <2>1 DEF RecoveryCodes
    <2>4. /\ codes' \subseteq RecoveryCodes /\ latest' \in Secrets \union {None}
          /\ UNCHANGED <<totp, spent, links, passkeys, era, proved, tangled>>
      BY <1>6, <1>c, <2>3 DEF InsertCode, Typed
    <2> QED
      BY <1>f, <2>1, <2>2, <2>4, ShapesAfter DEF Typed, Keeps
  <1>7. CASE Register(c)
    <2>1. call[c].at = "idle"
      BY <1>7 DEF Register
    <2>2. /\ call' \in [Calls -> Call] /\ Alone(c) /\ call'[c].op = "register" /\ call'[c].at = "active"
      BY <1>7, RegisterFields
    <2>3. Shape(c)'
      BY <2>2 DEF Shape
    <2>4. /\ passkeys' \in Seq([id : Secrets, sign : 0..MaxSigns])
          /\ UNCHANGED <<totp, codes, spent, links, proved, latest, tangled>> /\ era' \in Nat
      <3>1. [id |-> c, sign |-> signs] \in [id : Secrets, sign : 0..MaxSigns]
        BY <1>c DEF Typed
      <3> QED
        BY <1>7, <1>o, <3>1 DEF Register, Typed
    <2> QED
      BY <1>f, <2>1, <2>2, <2>3, <2>4, ShapesAfter DEF Typed
  <1> QED
    BY <1>f, <1>1, <1>2, <1>3, <1>4, <1>5, <1>6, <1>7 DEF SetupStep

LEMMA CodeType ==
    ASSUME Typed, Shapes, NEW c \in Calls, CodeStep(c)
    PROVE  /\ Typed' /\ Shapes' /\ Alone(c)
           /\ call'[c].op = "code" /\ call'[c].at # "idle"
           /\ call[c].at = "idle" \/ (call[c].op = "code" /\ Keeps(c))
           /\ UNCHANGED <<attempt, totp, codes, passkeys, links, signs, budget, era, before, mixed, setup,
                          signed, loose>>
  <1> USE DEF NoHistory, factors, budget, setup, accepts
  <1>f. UNCHANGED <<attempt, totp, codes, passkeys, links, signs, budget, era, before, mixed, setup,
                    signed, loose>>
    BY DEF CodeStep, BeginCode, Begin, Consume
  <1>0. Shape(c)
    BY DEF Shapes
  <1>1. ASSUME NEW sub \in codes \union {<<s>> : s \in Secrets}, BeginCode(c, sub)
        PROVE  /\ Typed' /\ Shapes' /\ Alone(c) /\ call'[c].op = "code" /\ call'[c].at # "idle"
               /\ call[c].at = "idle"
    <2> DEFINE p == IF totp.active THEN "found" ELSE "refused"
    <2>1. Begin(c, "code", None, sub, totp.secret, 0, p) /\ p \in {"found", "refused"}
      BY <1>1 DEF BeginCode
    <2> HIDE DEF p
    <2>2. /\ sub \in Submitted /\ totp.secret \in Secrets \union {None} /\ 0 \in 0..MaxSigns /\ p \in Place
          /\ KeysOf(None) \in Seq(Keys) /\ None \in Ips \union {None} /\ "code" \in Ops
      BY <2>1, Places, KeysFacts, LoginsAssumption DEF Submitted, Typed, Ops
    <2>3. /\ call' \in [Calls -> Call] /\ Alone(c) /\ call[c].at = "idle"
          /\ call'[c].op = "code" /\ call'[c].at = p /\ call'[c].seen = call[c].seen
      BY <2>1, <2>2, BeginFields
    <2>4. Shape(c)'
      BY <2>1, <2>3 DEF Shape
    <2>5. UNCHANGED <<spent, taken>>
      BY <1>1 DEF BeginCode, Begin
    <2> QED
      BY <1>f, <2>1, <2>3, <2>4, <2>5, ShapesAfter DEF Typed
  <1>2. CASE Consume(c)
    <2>1. call[c].op = "code" /\ (Goto(c, "session") \/ Goto(c, "refused"))
      BY <1>2 DEF Consume, At
    <2>2. /\ call' \in [Calls -> Call] /\ Alone(c) /\ Keeps(c) /\ call'[c].at \in {"session", "refused"}
      BY <2>1, GotoFields, Places
    <2>3. Shape(c)'
      BY <2>1, <2>2 DEF Shape, Keeps
    <2>4. spent' \subseteq RecoveryCodes
      BY <1>2 DEF Consume, Usable, Typed
    <2>5. taken' \in [RecoveryCodes -> Nat]
      BY <1>2 DEF Consume, Usable, Typed
    <2> QED
      BY <1>f, <2>1, <2>2, <2>3, <2>4, <2>5, ShapesAfter DEF Typed, Keeps
  <1> QED
    BY <1>f, <1>1, <1>2 DEF CodeStep

LEMMA PasskeyFacts ==
    ASSUME Typed
    PROVE  /\ passkeys # <<>> => /\ 1 \in DOMAIN passkeys /\ Matched \in [id : Secrets, sign : 0..MaxSigns]
                                 /\ Matched.id \in Secrets /\ Matched.sign \in 0..MaxSigns
           /\ passkeys # <<>> => Tail(passkeys) \in Seq([id : Secrets, sign : 0..MaxSigns])
           /\ \A n \in Assertions : n \in Nat
  <1> DEFINE Rec == [id : Secrets, sign : 0..MaxSigns]
  <1>1. passkeys \in Seq(Rec)
    BY DEF Typed
  <1>2. \A r \in Rec : r.id \in Secrets /\ r.sign \in 0..MaxSigns
    OBVIOUS
  <1> HIDE DEF Rec
  <1>3. passkeys # <<>> => 1 \in DOMAIN passkeys /\ passkeys[1] \in Rec /\ Tail(passkeys) \in Seq(Rec)
    BY <1>1
  <1>4. \A n \in Assertions : n \in Nat
    BY DEF Assertions
  <1> QED
    BY <1>2, <1>3, <1>4 DEF Rec, Matched

\* The one credential that answers, after its counter was written.
LEMMA Written ==
    ASSUME Typed, NEW h, NEW n \in 0..MaxSigns,
           passkeys' = [i \in DOMAIN passkeys |-> IF passkeys[i].id = h THEN [passkeys[i] EXCEPT !.sign = n]
                                                  ELSE passkeys[i]]
    PROVE  /\ passkeys' \in Seq([id : Secrets, sign : 0..MaxSigns])
           /\ passkeys' = <<>> <=> passkeys = <<>>
           /\ passkeys # <<>> => /\ passkeys'[1].id = passkeys[1].id
                                 /\ passkeys'[1].sign = IF passkeys[1].id = h THEN n ELSE passkeys[1].sign
  <1> DEFINE Rec == [id : Secrets, sign : 0..MaxSigns]
  <1>1. passkeys \in Seq(Rec) /\ Len(passkeys) \in Nat /\ DOMAIN passkeys = 1..Len(passkeys)
    BY DEF Typed
  <1>2. \A r \in Rec : [r EXCEPT !.sign = n] \in Rec /\ [r EXCEPT !.sign = n].id = r.id /\ [r EXCEPT !.sign = n].sign = n
    OBVIOUS
  <1> HIDE DEF Rec
  <1>3. \A i \in 1..Len(passkeys) : passkeys[i] \in Rec
    BY <1>1
  <1>4. passkeys' \in [1..Len(passkeys) -> Rec]
    BY <1>1, <1>2, <1>3
  <1>5. passkeys' \in Seq(Rec) /\ Len(passkeys') = Len(passkeys)
    BY <1>1, <1>4
  <1>6. passkeys' = <<>> <=> passkeys = <<>>
    BY <1>1, <1>5
  <1>7. passkeys # <<>> => 1 \in 1..Len(passkeys)
    BY <1>1
  <1> QED
    BY <1>1, <1>2, <1>3, <1>5, <1>6, <1>7 DEF Rec

LEMMA PasskeyType ==
    ASSUME Typed, Shapes, NEW c \in Calls, PasskeyStep(c)
    PROVE  /\ Typed' /\ Shapes' /\ Alone(c)
           /\ call'[c].op = "passkey" /\ call'[c].at # "idle"
           /\ call[c].at = "idle" \/ (call[c].op = "passkey" /\ Keeps(c))
           /\ UNCHANGED <<attempt, totp, codes, spent, links, signs, budget, era, before, mixed, setup, taken>>
  <1> USE DEF NoHistory, factors, budget, setup, accepts
  <1>f. UNCHANGED <<attempt, totp, codes, spent, links, signs, budget, era, before, mixed, setup, taken>>
    BY DEF PasskeyStep, BeginPasskey, Begin, UpdatePasskey
  <1>0. Shape(c)
    BY DEF Shapes
  <1>1. ASSUME NEW n \in Assertions, BeginPasskey(c, n)
        PROVE  /\ Typed' /\ Shapes' /\ Alone(c) /\ call'[c].op = "passkey" /\ call'[c].at # "idle"
               /\ call[c].at = "idle"
    <2> DEFINE p == IF passkeys # <<>> /\ Forward(Matched.sign, n) THEN "proved" ELSE "refused"
               h == IF passkeys = <<>> THEN None ELSE Matched.id
    <2>1. Begin(c, "passkey", None, <<None>>, h, n, p) /\ p \in {"proved", "refused"}
      BY <1>1 DEF BeginPasskey
    <2>a. h \in Secrets \union {None}
      BY PasskeyFacts
    <2> HIDE DEF p, h
    <2>2. /\ <<None>> \in Submitted /\ n \in 0..MaxSigns /\ p \in Place
          /\ KeysOf(None) \in Seq(Keys) /\ None \in Ips \union {None} /\ "passkey" \in Ops
      BY <2>1, Places, KeysFacts, LoginsAssumption DEF Submitted, Typed, Ops, Assertions
    <2>3. /\ call' \in [Calls -> Call] /\ Alone(c) /\ call[c].at = "idle"
          /\ call'[c].op = "passkey" /\ call'[c].at = p /\ call'[c].seen = call[c].seen
      BY <2>1, <2>2, <2>a, BeginFields
    <2>4. Shape(c)'
      BY <2>1, <2>3 DEF Shape
    <2>5. UNCHANGED <<passkeys, signed>> /\ loose' \in BOOLEAN
      BY <1>1 DEF BeginPasskey, Begin
    <2> QED
      BY <1>f, <2>1, <2>3, <2>4, <2>5, ShapesAfter DEF Typed
  <1>2. CASE UpdatePasskey(c)
    <2>1. call[c].op = "passkey" /\ Goto(c, "session") /\ loose' = loose /\ call[c].sign \in 0..MaxSigns
      BY <1>2, CallFields DEF UpdatePasskey, At
    <2>2. /\ call' \in [Calls -> Call] /\ Alone(c) /\ Keeps(c) /\ call'[c].at = "session"
      BY <2>1, GotoFields, Places
    <2>3. Shape(c)'
      BY <2>1, <2>2 DEF Shape, Keeps
    <2>4. passkeys' \in Seq([id : Secrets, sign : 0..MaxSigns])
      <3>1. PICK n \in 0..MaxSigns : n = call[c].sign
        BY <2>1
      <3>3. PICK h : h = call[c].held
        OBVIOUS
      <3>2. passkeys' = [i \in DOMAIN passkeys |-> IF passkeys[i].id = h THEN [passkeys[i] EXCEPT !.sign = n]
                                                  ELSE passkeys[i]]
        BY <1>2, <3>1, <3>3 DEF UpdatePasskey
      <3> QED
        BY <3>2, Written
    <2>5. signed' \in [Assertions -> Nat]
      <3>1. PICK n : n = call[c].sign
        OBVIOUS
      <3>2. signed' = [signed EXCEPT ![n] = @ + 1]
        BY <1>2, <3>1 DEF UpdatePasskey
      <3>3. signed \in [Assertions -> Nat]
        BY DEF Typed
      <3>4. n \in Assertions => signed[n] + 1 \in Nat
        BY <3>3
      <3> QED
        BY <3>2, <3>3, <3>4
    <2> QED
      BY <1>f, <2>1, <2>2, <2>3, <2>4, <2>5, ShapesAfter DEF Typed, Keeps
  <1> QED
    BY <1>f, <1>1, <1>2 DEF PasskeyStep

LEMMA CutType ==
    ASSUME Typed, Shapes, NEW c \in Calls, Cut(c)
    PROVE  /\ Typed' /\ Shapes' /\ Alone(c) /\ Keeps(c) /\ call'[c].at = "cut" /\ c \in Busy(Ops)
           /\ call'[c].seen = call[c].seen /\ call'[c].era = call[c].era
           /\ UNCHANGED <<attempt, factors, ticks, era, before, proved, latest, accepts>>
           /\ tangled' = (tangled \/ call[c].op \in Setup) /\ loose' = (loose \/ call[c].op = "passkey")
           /\ mixed' = mixed \union (IF call[c].op = "login" THEN Keys ELSE {})
  <1> USE DEF factors, accepts
  <1>1. /\ Goto(c, "cut") /\ c \in Busy(Ops)
        /\ UNCHANGED <<attempt, factors, ticks, era, before, proved, latest, accepts>>
        /\ tangled' = (tangled \/ call[c].op \in Setup) /\ loose' = (loose \/ call[c].op = "passkey")
        /\ mixed' = mixed \union (IF call[c].op = "login" THEN Keys ELSE {})
    BY DEF Cut
  <1>2. /\ call' \in [Calls -> Call] /\ Alone(c) /\ Keeps(c) /\ call'[c].at = "cut"
        /\ call'[c].seen = call[c].seen /\ call'[c].era = call[c].era
    BY <1>1, GotoFields, Places
  <1>3. Shape(c)'
    BY <1>2 DEF Shape
  <1>4. mixed' \subseteq Keys /\ tangled' \in BOOLEAN /\ loose' \in BOOLEAN
    BY <1>1 DEF Typed
  <1> QED
    BY <1>1, <1>2, <1>3, <1>4, ShapesAfter DEF Typed

\* What the rest of the system does to a counter: it runs down, or is dropped.
Eased(k) ==
    \/ attempt'[k] = Clean /\ attempt[k].left = 0
    \/ /\ attempt'[k].count = attempt[k].count /\ attempt'[k].window = attempt[k].window
       /\ attempt'[k].left =< attempt[k].left

LEMMA AroundType ==
    ASSUME Typed, Around
    PROVE  /\ Typed' /\ UNCHANGED <<totp, codes, spent, call, era, before, mixed, setup, accepts>>
           /\ \A k \in Keys : Eased(k)
           /\ links' = links \/ links' = {era}
           /\ UNCHANGED <<passkeys, loose>> \/ loose' = TRUE
  <1> USE DEF NoHistory, factors, budget, setup, accepts
  <1>f. /\ UNCHANGED <<totp, codes, spent, call, era, before, mixed, setup, accepts>>
        /\ links' = links \/ links' = {era}
        /\ UNCHANGED <<passkeys, loose>> \/ loose' = TRUE
    BY DEF Around, Sign, Revoke, IssueLink, Elapse, Prune
  <1>0. \A k \in Keys : attempt[k] \in Attempt
    BY DEF Typed
  <1>1. ASSUME NEW d \in Nat, Elapse(d)
        PROVE  Typed' /\ \A k \in Keys : Eased(k)
    <2>1. /\ UNCHANGED <<passkeys, links, signs, loose>>
          /\ attempt' = [k \in Keys |-> [attempt[k] EXCEPT !.left = IF @ > d THEN @ - d ELSE 0]]
      BY <1>1 DEF Elapse
    <2>2. ASSUME NEW k \in Keys
          PROVE  attempt'[k] \in Attempt /\ Eased(k)
      <3> DEFINE n == IF attempt[k].left > d THEN attempt[k].left - d ELSE 0
                 y == [attempt[k] EXCEPT !.left = n]
      <3>1. attempt'[k] = y
        BY <1>0, <2>1, <2>2 DEF Attempt
      <3>2. n \in 0..MAX_LOCK /\ n =< attempt[k].left
        BY <1>0, <2>2 DEF Attempt, MAX_LOCK
      <3> HIDE DEF n
      <3>3. y \in Attempt /\ y.count = attempt[k].count /\ y.window = attempt[k].window /\ y.left = n
        BY <1>0, <2>2, <3>2 DEF Attempt
      <3> HIDE DEF y
      <3> QED
        BY <3>1, <3>2, <3>3 DEF Eased
    <2>3. attempt' \in [Keys -> Attempt]
      BY <2>1, <2>2
    <2> QED
      BY <1>f, <2>1, <2>2, <2>3 DEF Typed
  <1>2. ASSUME NEW k \in Keys, Prune(k)
        PROVE  Typed' /\ \A j \in Keys : Eased(j)
    <2>1. /\ UNCHANGED <<passkeys, links, signs, loose>> /\ attempt[k].left = 0
          /\ attempt' = [attempt EXCEPT ![k] = Clean]
      BY <1>2 DEF Prune
    <2>2. Clean \in Attempt
      BY DEF Clean, Attempt, MAX_LOCK
    <2>3. attempt' \in [Keys -> Attempt]
      BY <2>1, <2>2, AttemptSet
    <2>4. \A j \in Keys : Eased(j)
      BY <1>0, <2>1 DEF Eased, Attempt, Typed
    <2> QED
      BY <1>f, <2>1, <2>3, <2>4 DEF Typed
  <1>3. CASE Sign \/ Revoke \/ IssueLink
    <2>1. attempt' = attempt /\ links' \subseteq Nat /\ loose' \in BOOLEAN
      BY <1>3 DEF Sign, Revoke, IssueLink, Typed
    <2>4. signs' \in 0..MaxSigns
      <3>1. MaxSigns \in Nat /\ signs \in 0..MaxSigns
        BY LoginsAssumption DEF Typed
      <3>2. signs' = signs \/ (signs < MaxSigns /\ signs' = signs + 1)
        BY <1>3 DEF Sign, Revoke, IssueLink
      <3> QED
        BY <3>1, <3>2
    <2>2. passkeys' \in Seq([id : Secrets, sign : 0..MaxSigns])
      <3>1. passkeys' = passkeys \/ (passkeys # <<>> /\ passkeys' = Tail(passkeys))
        BY <1>3 DEF Sign, Revoke, IssueLink
      <3> QED
        BY <3>1, PasskeyFacts DEF Typed
    <2>3. \A k \in Keys : Eased(k)
      BY <1>0, <2>1 DEF Eased, Attempt
    <2> QED
      BY <1>f, <2>1, <2>2, <2>3, <2>4 DEF Typed
  <1>4. ASSUME NEW k \in Keys, Elapse(attempt[k].left)
        PROVE  Typed' /\ \A j \in Keys : Eased(j)
    <2>1. PICK d \in Nat : d = attempt[k].left
      BY <1>0, <1>4 DEF Attempt, MAX_LOCK
    <2>2. Elapse(d)
      BY <1>4, <2>1
    <2> QED
      BY <1>1, <2>2
  <1> QED
    BY <1>f, <1>1, <1>2, <1>3, <1>4 DEF Around

LEMMA InitType == Init => Typed /\ Shapes
  <1> SUFFICES ASSUME Init PROVE Typed /\ Shapes
    OBVIOUS
  <1>1. PICK start \in Starts :
          /\ attempt = [k \in Keys |-> [Clean EXCEPT !.count = start.count]]
          /\ totp = [secret |-> IF start.totp THEN Old ELSE None, active |-> start.totp]
          /\ passkeys = IF start.passkey THEN <<[id |-> Old, sign |-> 0]>> ELSE <<>>
    BY DEF Init
  <1>2. /\ start.count \in 0..20 /\ start.totp \in BOOLEAN /\ Old \in Secrets
    BY LoginsAssumption DEF Secrets
  <1>m. MaxSigns \in Nat
    BY LoginsAssumption
  <1>3. attempt \in [Keys -> Attempt]
    <2> DEFINE y == [Clean EXCEPT !.count = start.count]
    <2>1. y \in Attempt
      BY <1>2 DEF Clean, Attempt, MAX_LOCK
    <2>2. attempt = [k \in Keys |-> y]
      BY <1>1
    <2> HIDE DEF y
    <2> QED
      BY <2>1, <2>2
  <1>4. totp \in [secret : Secrets \union {None}, active : BOOLEAN]
    <2>1. \A x \in Secrets \union {None}, b \in BOOLEAN :
             [secret |-> x, active |-> b] \in [secret : Secrets \union {None}, active : BOOLEAN]
      OBVIOUS
    <2>2. PICK x \in Secrets \union {None} : x = IF start.totp THEN Old ELSE None
      BY <1>2
    <2> QED
      BY <1>1, <1>2, <2>1, <2>2
  <1>5. passkeys \in Seq([id : Secrets, sign : 0..MaxSigns])
    <2>1. [id |-> Old, sign |-> 0] \in [id : Secrets, sign : 0..MaxSigns]
      BY <1>2, <1>m
    <2> DEFINE Rec == [id : Secrets, sign : 0..MaxSigns]
    <2>2. PICK x \in Rec : x = [id |-> Old, sign |-> 0]
      BY <2>1
    <2> HIDE DEF Rec
    <2>3. <<x>> \in Seq(Rec) /\ <<>> \in Seq(Rec)
      OBVIOUS
    <2>4. passkeys = <<x>> \/ passkeys = <<>>
      BY <1>1, <2>2
    <2> QED
      BY <2>3, <2>4 DEF Rec
  <1>6. call \in [Calls -> Call] /\ Shapes
    <2> DEFINE y == [op |-> None, ip |-> None, sub |-> <<None>>, held |-> None, sign |-> 0, todo |-> <<>>,
                     seen |-> 0, era |-> 0, at |-> "idle"]
    <2>1. <<None>> \in Submitted /\ 0 \in 0..MaxSigns /\ <<>> \in Seq(Keys) /\ "idle" \in Place /\ 0 \in Nat
      BY <1>m, Places DEF Submitted
    <2>2. y \in Call
      BY <2>1 DEF Call
    <2>3. call = [d \in Calls |-> y]
      BY DEF Init
    <2>4. y.at = "idle" /\ y.seen = 0
      OBVIOUS
    <2> HIDE DEF y
    <2> QED
      BY <2>2, <2>3, <2>4 DEF Shapes, Shape
  <1>7. codes \subseteq RecoveryCodes
    BY <1>2 DEF Init, RecoveryCodes
  <1>8. /\ spent \subseteq RecoveryCodes /\ links \subseteq Nat /\ signs \in 0..MaxSigns /\ era \in Nat
        /\ before \in [Keys -> SUBSET Calls] /\ mixed \subseteq Keys
        /\ proved \subseteq Secrets /\ latest \in Secrets \union {None}
    BY <1>2, <1>m DEF Init
  <1>9. tangled \in BOOLEAN /\ loose \in BOOLEAN /\ taken \in [RecoveryCodes -> Nat] /\ signed \in [Assertions -> Nat]
    BY DEF Init
  <1> QED
    BY <1>3, <1>4, <1>5, <1>6, <1>7, <1>8, <1>9 DEF Typed

LEMMA NextType ==
    ASSUME Typed, Shapes, [Next]_vars
    PROVE  Typed' /\ Shapes'
  <1>1. CASE UNCHANGED vars
    BY <1>1 DEF vars, factors, setup, accepts, Typed, Shapes, Shape
  <1>2. CASE Around
    <2>1. Typed' /\ call' = call
      BY <1>2, AroundType
    <2> QED
      BY <2>1 DEF Shapes, Shape
  <1>3. ASSUME NEW c \in Calls, LoginStep(c) \/ SetupStep(c) \/ CodeStep(c) \/ PasskeyStep(c) \/ Cut(c)
        PROVE  Typed' /\ Shapes'
    BY <1>3, LoginType, SetupType, CodeType, PasskeyType, CutType
  <1> QED
    BY <1>1, <1>2, <1>3, NextIs

-----------------------------------------------------------------------------
(* A recovery code is accepted once                                        *)

\* The codes of a batch are numbered in order, and only by its activation.
Numbered(s) == call[s].op = "activate" /\ call[s].at \in {"numbered", "done", "cut"}
CodeInv ==
    /\ \A r \in RecoveryCodes : taken[r] =< 1 /\ (taken[r] = 1 => r \in spent \/ r \notin codes)
    /\ \A s \in Calls, n \in 1..Batch :
           <<s, n>> \in codes \/ taken[<<s, n>>] # 0 => Numbered(s) /\ n =< call[s].seen

\* A batch under way is only added to.
LEMMA NumberedKept ==
    ASSUME Typed, Shapes, NEW c \in Calls,
           LoginStep(c) \/ SetupStep(c) \/ CodeStep(c) \/ PasskeyStep(c) \/ Cut(c)
    PROVE  \A s \in Calls : Numbered(s) => Numbered(s)' /\ call'[s].seen >= call[s].seen
  <1>0. call[c].seen \in Nat /\ \A s \in Calls : call[s].seen \in Nat
    BY CallFields
  <1>1. Alone(c)
    BY LoginType, SetupType, CodeType, PasskeyType, CutType
  <1>2. Numbered(c) => Numbered(c)' /\ call'[c].seen >= call[c].seen
    <2>1. CASE LoginStep(c) \/ CodeStep(c) \/ PasskeyStep(c)
      BY <2>1, LoginType, CodeType, PasskeyType DEF Numbered
    <2>2. CASE Cut(c)
      BY <1>0, <2>2, CutType DEF Numbered, Keeps
    <2>3. CASE InsertCode(c)
      BY <1>0, <2>3, InsertFields DEF Numbered, Keeps
    <2>4. CASE SetupStep(c) /\ ~InsertCode(c)
      BY <2>4 DEF SetupStep, Enroll, SwitchOn, DropLinks, DeleteCodes, BeginActivate, Begin, Disable, Register,
                  Numbered, At
    <2> QED
      BY <2>1, <2>2, <2>3, <2>4
  <1> QED
    BY <1>0, <1>1, <1>2 DEF Alone, Numbered

LEMMA CodeKept ==
    ASSUME Typed, Shapes, CodeInv, [Next]_vars
    PROVE  CodeInv'
  <1>1. CASE Around \/ UNCHANGED vars
    <2>1. UNCHANGED <<codes, spent, call, taken>>
      BY <1>1, AroundType DEF vars, factors, accepts
    <2> QED
      BY <2>1 DEF CodeInv, Numbered
  <1>2. ASSUME NEW c \in Calls, LoginStep(c) \/ SetupStep(c) \/ CodeStep(c) \/ PasskeyStep(c) \/ Cut(c)
        PROVE  CodeInv'
    <2>0. \A s \in Calls : Numbered(s) => Numbered(s)' /\ call'[s].seen >= call[s].seen
      BY <1>2, NumberedKept
    <2>t. /\ taken \in [RecoveryCodes -> Nat] /\ codes \subseteq RecoveryCodes
          /\ \A s \in Calls : call[s].seen \in Nat /\ call'[s].seen \in Nat
          /\ \A s \in Calls, n \in 1..Batch : <<s, n>> \in RecoveryCodes
      <3>1. Typed'
        BY <1>2, LoginType, SetupType, CodeType, PasskeyType, CutType
      <3>2. \A s \in Calls : call'[s] \in Call
        BY <3>1 DEF Typed
      <3>3. \A s \in Calls : call'[s].seen \in Nat
        BY <3>2 DEF Call
      <3> QED
        BY <3>3, CallFields DEF Typed, RecoveryCodes, Secrets
    <2>n. \A s \in Calls, n \in 1..Batch : Numbered(s) /\ n =< call[s].seen => Numbered(s)' /\ n =< call'[s].seen
      BY <2>0, <2>t
    <2>1. CASE UNCHANGED <<codes, spent, taken>>
      BY <2>1, <2>n DEF CodeInv
    <2>2. CASE InsertCode(c)
      <3>1. PICK m \in Nat : m = call[c].seen + 1
        BY <2>t
      <3>2. /\ codes' = codes \union {<<c, m>>} /\ UNCHANGED <<spent, taken>>
            /\ Numbered(c) /\ Numbered(c)' /\ call'[c].seen = m
        BY <2>0, <2>2, <3>1, InsertFields DEF InsertCode, accepts, At, Numbered
      <3>3. \A n \in 1..Batch : taken[<<c, n>>] # 0 => n < m
        BY <2>t, <3>1 DEF CodeInv
      <3>4. <<c, m>> \in RecoveryCodes => taken[<<c, m>>] = 0
        BY <3>3 DEF RecoveryCodes
      <3>5. \A r \in RecoveryCodes : taken'[r] =< 1 /\ (taken'[r] = 1 => r \in spent' \/ r \notin codes')
        BY <3>2, <3>4 DEF CodeInv
      <3>6. \A s \in Calls, n \in 1..Batch :
               <<s, n>> \in codes' \/ taken'[<<s, n>>] # 0 => Numbered(s)' /\ n =< call'[s].seen
        BY <2>n, <3>1, <3>2 DEF CodeInv
      <3> QED
        BY <3>5, <3>6 DEF CodeInv
    <2>3. CASE DeleteCodes(c)
      <3>1. codes' = {} /\ taken' = taken
        BY <2>3 DEF DeleteCodes, DropCodes, NoHistory, accepts
      <3> QED
        BY <2>n, <3>1 DEF CodeInv
    <2>4. CASE Consume(c) /\ call[c].sub \in Usable
      <3>1. PICK r \in RecoveryCodes : r = call[c].sub /\ r \in codes /\ r \notin spent
        BY <2>t, <2>4 DEF Usable
      <3>2. /\ spent' = spent \union {r} /\ taken' = [taken EXCEPT ![r] = @ + 1] /\ codes' = codes
        BY <2>4, <3>1 DEF Consume
      <3>3. taken[r] = 0
        BY <2>t, <3>1 DEF CodeInv
      <3>4. taken' \in [RecoveryCodes -> Nat] /\ taken'[r] = 1 /\ \A q \in RecoveryCodes : q # r => taken'[q] = taken[q]
        BY <2>t, <3>1, <3>2, <3>3
      <3>5. \A q \in RecoveryCodes : taken'[q] =< 1 /\ (taken'[q] = 1 => q \in spent' \/ q \notin codes')
        BY <3>1, <3>2, <3>4 DEF CodeInv
      <3>6. \A s \in Calls, n \in 1..Batch : <<s, n>> \in codes' \/ taken'[<<s, n>>] # 0
                => Numbered(s)' /\ n =< call'[s].seen
        <4>1. \A s \in Calls, n \in 1..Batch : <<s, n>> \in codes' \/ taken'[<<s, n>>] # 0
                => <<s, n>> \in codes \/ taken[<<s, n>>] # 0
          BY <2>t, <3>1, <3>2, <3>4
        <4> QED
          BY <2>n, <4>1 DEF CodeInv
      <3> QED
        BY <3>5, <3>6 DEF CodeInv
    <2>5. SetupStep(c) => InsertCode(c) \/ DeleteCodes(c) \/ UNCHANGED <<codes, spent, taken>>
      BY DEF SetupStep, Enroll, SwitchOn, DropLinks, BeginActivate, Begin, Disable, Register, NoHistory,
             accepts, factors
    <2>6. CodeStep(c) => (Consume(c) /\ call[c].sub \in Usable) \/ UNCHANGED <<codes, spent, taken>>
      BY DEF CodeStep, BeginCode, Begin, Consume, NoHistory, accepts, factors
    <2>7. LoginStep(c) \/ PasskeyStep(c) \/ Cut(c) => UNCHANGED <<codes, spent, taken>>
      BY LoginType, PasskeyType, CutType DEF accepts, factors
    <2> QED
      BY <1>2, <2>1, <2>2, <2>3, <2>4, <2>5, <2>6, <2>7
  <1> QED
    BY <1>1, <1>2, NextIs

-----------------------------------------------------------------------------
(* An assertion signs in once                                              *)

Signing == Busy({"passkey"})
PassInv == ~loose =>
    /\ \A c, d \in Signing : c = d
    /\ \A c \in Signing : /\ call[c].at = "proved" /\ passkeys # <<>> /\ call[c].held = Matched.id
                          /\ call[c].sign \in Assertions /\ call[c].sign > Matched.sign
    /\ \A n \in Assertions : signed[n] =< 1 /\ (signed[n] # 0 => passkeys # <<>> /\ Matched.sign >= n)

LEMMA PassKept ==
    ASSUME Typed, Shapes, PassInv, [Next]_vars
    PROVE  PassInv'
  <1>0. /\ \A n \in Assertions : n \in Nat /\ n > 0 /\ n \in 0..MaxSigns
        /\ signed \in [Assertions -> Nat] /\ 0 \in 0..MaxSigns /\ MaxSigns \in Nat
    BY LoginsAssumption DEF Assertions, Typed
  <1>1. ASSUME UNCHANGED <<passkeys, loose, signed>>,
               \A d \in Calls : \/ call'[d] = call[d]
                                \/ d \notin Signing /\ (call'[d].op # "passkey" \/ call'[d].at \in Over \union {"idle"})
        PROVE  PassInv'
    BY <1>1 DEF PassInv, Signing, Busy, Matched
  <1>2. CASE loose'
    BY <1>2 DEF PassInv
  <1>3. CASE Around \/ UNCHANGED vars
    <2>1. UNCHANGED <<call, signed>> /\ (UNCHANGED <<passkeys, loose>> \/ loose' = TRUE)
      BY <1>3, AroundType DEF vars, factors, accepts
    <2> QED
      BY <1>1, <1>2, <2>1
  <1>4. ASSUME NEW c \in Calls, LoginStep(c) \/ CodeStep(c)
        PROVE  PassInv'
    <2>1. /\ UNCHANGED <<passkeys, loose, signed>> /\ Alone(c) /\ call'[c].op # "passkey"
          /\ call[c].at = "idle" \/ call[c].op # "passkey"
      BY <1>4, LoginType, CodeType DEF accepts, factors
    <2> QED
      BY <1>1, <2>1 DEF Alone, Signing, Busy
  <1>5. ASSUME NEW c \in Calls, SetupStep(c)
        PROVE  PassInv'
    <2>1. /\ UNCHANGED <<loose, signed>> /\ Alone(c) /\ call'[c].op # "passkey"
          /\ call[c].at = "idle" \/ call[c].op # "passkey"
      BY <1>5, SetupType DEF accepts, factors
    <2>2. c \notin Signing /\ Signing' = Signing /\ \A d \in Signing : call'[d] = call[d]
      BY <2>1 DEF Alone, Signing, Busy
    <2>3. passkeys' = passkeys \/ passkeys' = Append(passkeys, [id |-> c, sign |-> signs])
      BY <1>5 DEF SetupStep, Enroll, SwitchOn, DropLinks, DeleteCodes, InsertCode, BeginActivate, Begin, Disable,
                  Register, factors
    <2>4. passkeys # <<>> => passkeys' # <<>> /\ passkeys'[1] = passkeys[1]
      <3> DEFINE Rec == [id : Secrets, sign : 0..MaxSigns]
      <3>1. passkeys \in Seq(Rec)
        BY DEF Typed
      <3>2. PICK x : x = [id |-> c, sign |-> signs]
        OBVIOUS
      <3>3. passkeys' = passkeys \/ passkeys' = Append(passkeys, x)
        BY <2>3, <3>2
      <3> HIDE DEF Rec
      <3> QED
        BY <3>1, <3>3
    <2> QED
      BY <2>1, <2>2, <2>4 DEF PassInv, Matched
  <1>6. ASSUME NEW c \in Calls, Cut(c), ~loose'
        PROVE  PassInv'
    <2>1. /\ UNCHANGED <<passkeys, signed>> /\ Alone(c) /\ call'[c].at = "cut"
          /\ loose' = (loose \/ call[c].op = "passkey")
      BY <1>6, CutType DEF factors, accepts
    <2>2. loose' = loose
      <3>1. loose \in BOOLEAN /\ loose' \in BOOLEAN
        BY <1>6, CutType DEF Typed
      <3> QED
        BY <1>6, <2>1, <3>1
    <2>3. c \notin Signing
      BY <1>6, <2>1 DEF Signing, Busy
    <2>4. call'[c].at \in Over
      BY <2>1 DEF Over
    <2> QED
      BY <1>1, <2>1, <2>2, <2>3, <2>4 DEF Alone
  <1>7. ASSUME NEW c \in Calls, NEW n \in Assertions, BeginPasskey(c, n), ~loose'
        PROVE  PassInv'
    <2> DEFINE p == IF passkeys # <<>> /\ Forward(Matched.sign, n) THEN "proved" ELSE "refused"
               h == IF passkeys = <<>> THEN None ELSE Matched.id
    <2>1. Begin(c, "passkey", None, <<None>>, h, n, p) /\ signed' = signed
      BY <1>7 DEF BeginPasskey, accepts
    <2> HIDE DEF p, h
    <2>2. /\ Alone(c) /\ call[c].at = "idle" /\ call'[c].op = "passkey" /\ call'[c].at = p
          /\ call'[c].held = h /\ call'[c].sign = n
      BY <2>1, BeginFields
    <2>p. passkeys' = passkeys
      BY <2>1 DEF Begin, factors
    <2>3. Signing = {} /\ ~loose
      <3>1. loose' = (loose \/ Signing # {})
        BY <1>7 DEF BeginPasskey, Signing
      <3> QED
        BY <1>7, <3>1
    <2>4. Signing' \subseteq {c} /\ (c \in Signing' => p = "proved")
      BY <2>2, <2>3 DEF Signing, Busy, Alone, Over, p
    <2>5. p = "proved" => passkeys # <<>> /\ h = Matched.id /\ n > Matched.sign
      <3>1. n > 0
        BY <1>0
      <3> QED
        BY <3>1 DEF Forward, p, h
    <2> QED
      BY <2>1, <2>2, <2>3, <2>4, <2>5, <2>p DEF PassInv, Matched
  <1>8. ASSUME NEW c \in Calls, UpdatePasskey(c), ~loose'
        PROVE  PassInv'
    <2>1. /\ Goto(c, "session") /\ loose' = loose /\ call[c].op = "passkey" /\ call[c].at = "proved"
      BY <1>8 DEF UpdatePasskey, At
    <2>2. Alone(c) /\ call'[c].at = "session" /\ c \in Signing
      BY <2>1, GotoFields, Places DEF Signing, Busy, Over
    <2>3. PICK n \in Assertions : n = call[c].sign /\ n > Matched.sign /\ passkeys # <<>> /\ call[c].held = Matched.id
      BY <1>8, <2>1, <2>2 DEF PassInv
    <2>4. PICK h : h = call[c].held
      OBVIOUS
    <2>5. passkeys' = [i \in DOMAIN passkeys |-> IF passkeys[i].id = h THEN [passkeys[i] EXCEPT !.sign = n]
                                                  ELSE passkeys[i]]
      BY <1>8, <2>3, <2>4 DEF UpdatePasskey
    <2>6. passkeys' # <<>> /\ passkeys'[1].sign = n
      <3>1. n \in 0..MaxSigns
        BY <1>0
      <3>2. /\ passkeys' = <<>> <=> passkeys = <<>>
            /\ passkeys # <<>> => passkeys'[1].sign = IF passkeys[1].id = h THEN n ELSE passkeys[1].sign
        BY <2>5, <3>1, Written
      <3> QED
        BY <2>3, <2>4, <3>2 DEF Matched
    <2>7. signed' = [signed EXCEPT ![n] = @ + 1]
      BY <1>8, <2>3 DEF UpdatePasskey
    <2>8. Signing' = {}
      <3>1. \A d \in Signing : d = c
        BY <1>8, <2>1, <2>2 DEF PassInv
      <3> QED
        BY <2>2, <3>1 DEF Signing, Busy, Alone, Over
    <2>9. ASSUME NEW m \in Assertions
          PROVE  signed'[m] =< 1 /\ (signed'[m] # 0 => n >= m)
      <3>1. /\ signed[m] =< 1 /\ signed[m] \in Nat /\ (signed[m] # 0 => Matched.sign >= m)
        BY <1>0, <1>8, <2>1 DEF PassInv
      <3>2. Matched.sign \in Nat /\ m \in Nat /\ n \in Nat
        BY <1>0, <2>3, PasskeyFacts
      <3>3. signed'[m] = IF m = n THEN signed[n] + 1 ELSE signed[m]
        BY <1>0, <2>7
      <3> QED
        BY <2>3, <3>1, <3>2, <3>3
    <2> QED
      BY <2>6, <2>8, <2>9 DEF PassInv, Matched
  <1>9. ASSUME NEW c \in Calls, PasskeyStep(c) \/ Cut(c)
        PROVE  PassInv'
    BY <1>2, <1>6, <1>7, <1>8, <1>9 DEF PasskeyStep
  <1> QED
    BY <1>3, <1>4, <1>5, <1>9, NextIs

-----------------------------------------------------------------------------
(* Setting up a second factor                                              *)

\* The calls between two statements that write the set-up of TOTP.
Writers == Busy({"activate", "disable"})
SetupInv == ~tangled =>
    /\ \A c, d \in Writers : c = d
    /\ \A c \in Writers : /\ At(c, "activate", "numbered") => codes = {c} \X (1..call[c].seen)
                          /\ call[c].op = "disable" => ~totp.active
                          /\ call[c].at = "proved" => totp.secret \in proved
    /\ totp.active /\ Writers = {} => codes = {latest} \X (1..Batch)
    /\ totp.active => totp.secret \in proved

\* A call that has dropped the links of before its factor was on sees none of them again.
LinkInv ==
    \A c \in Calls :
        /\ call[c].op \in {"activate", "register"} \/ call[c].at = "idle" => call[c].era =< era
        /\ call[c].op \in {"activate", "register"} /\ call[c].at \in {"cleared", "numbered", "done"}
               => \A e \in links : e >= call[c].era

\* Steps of other calls, of time and of the rest of the system.
LEMMA SetupApart ==
    ASSUME SetupInv, UNCHANGED <<totp, codes, setup>>,
           \A d \in Calls : \/ call'[d] = call[d]
                            \/ d \notin Writers /\ call'[d].op \notin {"activate", "disable"}
    PROVE  SetupInv'
  BY DEF SetupInv, Writers, Busy, At, setup

LEMMA LinkApart ==
    ASSUME Typed, LinkInv, era' = era, links' = links \/ links' = {era},
           \A d \in Calls : \/ call'[d] = call[d]
                            \/ /\ call'[d].at = "cut" /\ call'[d].era = call[d].era
                               /\ call'[d].op = call[d].op
                            \/ call'[d].op \notin {"activate", "register"} /\ call'[d].at # "idle"
    PROVE  LinkInv'
  <1>1. era \in Nat /\ links \subseteq Nat /\ \A d \in Calls : call[d].era \in Nat
    BY CallFields DEF Typed
  <1>2. ASSUME NEW d \in Calls, call'[d].op \in {"activate", "register"} \/ call'[d].at = "idle"
        PROVE  call'[d].era =< era'
    BY <1>2 DEF LinkInv
  <1>3. ASSUME NEW d \in Calls, call'[d].op \in {"activate", "register"},
               call'[d].at \in {"cleared", "numbered", "done"}, NEW e \in links'
        PROVE  e >= call'[d].era
    BY <1>1, <1>3 DEF LinkInv
  <1> QED
    BY <1>2, <1>3 DEF LinkInv

LEMMA SetupKept ==
    ASSUME Typed, Shapes, SetupInv, NEW c \in Calls, SetupStep(c), ~tangled'
    PROVE  SetupInv'
  <1> USE DEF NoHistory, factors, budget, setup, accepts
  <1>0. call[c] \in Call /\ Shape(c) /\ call[c].seen \in Nat /\ tangled \in BOOLEAN
    BY CallFields DEF Shapes, Typed
  <1>b. Batch \in Nat /\ Batch > 0
    BY LoginsAssumption
  <1>1. CASE Enroll(c)
    <2>1. /\ call[c].at = "idle" /\ call' = [call EXCEPT ![c].op = "enroll", ![c].at = "done"]
          /\ totp' = [secret |-> c, active |-> FALSE] /\ proved' = proved
      BY <1>1 DEF Enroll, Enrolled
    <2>2. Writers = {}
      BY <1>1 DEF Enroll, Tangles, Writers
    <2>3. Alone(c) /\ call'[c].op = "enroll"
      BY <2>1, DoneFields, Places DEF Ops
    <2>4. Writers' = {}
      BY <2>2, <2>3 DEF Writers, Busy, Alone
    <2>5. ~totp'.active
      BY <2>1
    <2> QED
      BY <2>4, <2>5 DEF SetupInv
  <1>2. ASSUME NEW s \in Secrets \union {None}, BeginActivate(c, s)
        PROVE  SetupInv'
    <2> DEFINE p == IF totp.secret # None /\ s = totp.secret THEN "proved" ELSE "refused"
    <2>1. /\ Begin(c, "activate", None, <<s>>, totp.secret, 0, p)
          /\ proved' = IF p = "proved" THEN proved \union {s} ELSE proved
          /\ p = "proved" => totp.secret = s
          /\ latest' = latest /\ p \in {"proved", "refused"}
      BY <1>2 DEF BeginActivate
    <2>2. totp' = totp /\ codes' = codes
      BY <2>1 DEF Begin
    <2>3. Writers = {} /\ ~tangled
      BY <1>0, <1>2 DEF BeginActivate, Writers
    <2> HIDE DEF p
    <2>4. Alone(c) /\ call'[c].op = "activate" /\ call'[c].at = p
      BY <2>1, BeginFields
    <2>5. Writers' \subseteq {c} /\ (p = "refused" => Writers' = {})
      BY <2>3, <2>4 DEF Writers, Busy, Alone, Over
    <2>6. p = "proved" => Writers' = {c}
      BY <2>4, <2>5 DEF Writers, Busy, Over
    <2> QED
      BY <2>1, <2>2, <2>3, <2>4, <2>5, <2>6 DEF SetupInv, At
  <1>3. CASE SwitchOn(c)
    <2>1. /\ call[c].op = "activate" /\ call[c].at = "proved" /\ UNCHANGED <<codes, proved, latest, tangled>>
          /\ totp' = [totp EXCEPT !.active = totp.secret # None]
      BY <1>3 DEF SwitchOn, At
    <2>2. Alone(c) /\ call'[c].op = "activate" /\ call'[c].at = "active"
      BY <1>3, <2>1, SwitchFields DEF Keeps
    <2>3. c \in Writers /\ Writers' = Writers
      BY <2>1, <2>2 DEF Writers, Busy, Alone, Over
    <2>4. Writers = {c} /\ totp.secret \in proved
      BY <2>1, <2>3 DEF SetupInv
    <2>5. totp'.secret = totp.secret
      BY <2>1 DEF Typed
    <2> QED
      BY <2>1, <2>2, <2>3, <2>4, <2>5 DEF SetupInv, At
  <1>4. CASE DropLinks(c)
    <2>1. /\ call[c].at = "active" /\ UNCHANGED <<totp, codes, proved, latest, tangled>>
          /\ \/ call[c].op = "activate" /\ Goto(c, "cleared")
             \/ call[c].op = "register" /\ Goto(c, "done")
      BY <1>4 DEF DropLinks
    <2>2. /\ Alone(c) /\ call'[c].op = call[c].op
          /\ call'[c].at = IF call[c].op = "activate" THEN "cleared" ELSE "done"
      BY <2>1, GotoFields, Places DEF Keeps
    <2>3. Writers' = Writers
      BY <2>1, <2>2 DEF Writers, Busy, Alone, Over
    <2>4. \A d \in Writers : d = c \/ call'[d] = call[d]
      BY <2>2 DEF Alone, Writers, Busy
    <2> QED
      BY <2>1, <2>2, <2>3, <2>4 DEF SetupInv, At
  <1>5. CASE DeleteCodes(c)
    <2>1. /\ \/ call[c].op = "activate" /\ call[c].at = "cleared" /\ Goto(c, "numbered")
             \/ call[c].op = "disable" /\ call[c].at = "deleted" /\ Goto(c, "done")
          /\ codes' = {} /\ UNCHANGED <<totp, proved, latest, tangled>>
      BY <1>5 DEF DeleteCodes, At, DropCodes
    <2>2. /\ Alone(c) /\ call'[c].op = call[c].op /\ call'[c].seen = call[c].seen
          /\ call'[c].at = IF call[c].op = "activate" THEN "numbered" ELSE "done"
      BY <2>1, GotoFields, Places DEF Keeps
    <2>3. c \in Writers
      BY <2>1 DEF Writers, Busy, Over
    <2>4. Writers = {c}
      BY <2>1, <2>3 DEF SetupInv
    <2>5. CASE call[c].op = "activate"
      <3>1. Writers' = {c}
        BY <2>2, <2>4, <2>5 DEF Writers, Busy, Alone, Over
      <3>2. {c} \X (1..0) = {} /\ call[c].seen = 0
        BY <1>0, <2>1, <2>5 DEF Shape
      <3> QED
        BY <2>1, <2>2, <2>4, <2>5, <3>1, <3>2 DEF SetupInv, At
    <2>6. CASE call[c].op = "disable"
      <3>1. Writers' = {}
        BY <2>2, <2>4, <2>6 DEF Writers, Busy, Alone, Over
      <3>2. ~totp.active
        BY <2>1, <2>3, <2>6 DEF SetupInv
      <3> QED
        BY <2>1, <3>1, <3>2 DEF SetupInv
    <2> QED
      BY <2>1, <2>5, <2>6
  <1>6. CASE InsertCode(c)
    <2> DEFINE n == call[c].seen + 1
    <2>1. /\ call[c].op = "activate" /\ call[c].at = "numbered" /\ codes' = codes \union {<<c, n>>}
          /\ latest' = (IF n = Batch THEN c ELSE latest) /\ UNCHANGED <<totp, proved, tangled>>
      BY <1>6 DEF InsertCode, At
    <2>2. /\ Alone(c) /\ call'[c].op = "activate" /\ call'[c].seen = n
          /\ call'[c].at = IF n = Batch THEN "done" ELSE "numbered"
      BY <1>6, <2>1, InsertFields DEF Keeps
    <2>3. c \in Writers
      BY <2>1 DEF Writers, Busy, Over
    <2>4. Writers = {c} /\ codes = {c} \X (1..call[c].seen)
      BY <2>1, <2>3 DEF SetupInv, At
    <2>5. codes' = {c} \X (1..n)
      <3>1. 1..n = (1..call[c].seen) \union {n}
        BY <1>0
      <3> QED
        BY <2>1, <2>4, <3>1
    <2> HIDE DEF n
    <2>6. Writers' = IF n = Batch THEN {} ELSE {c}
      BY <2>2, <2>4 DEF Writers, Busy, Alone, Over
    <2> QED
      BY <2>1, <2>2, <2>4, <2>5, <2>6 DEF SetupInv, At
  <1>7. CASE Disable(c)
    <2>1. /\ call[c].at = "idle" /\ call' = [call EXCEPT ![c].op = "disable", ![c].at = "deleted"]
          /\ totp' = [secret |-> None, active |-> FALSE]
      BY <1>7 DEF Disable
    <2>2. Writers = {}
      BY <1>7 DEF Disable, Tangles, Writers
    <2>3. Alone(c) /\ call'[c].op = "disable" /\ call'[c].at = "deleted"
      BY <2>1, DoneFields, Places DEF Ops
    <2>4. Writers' = {c}
      BY <2>2, <2>3 DEF Writers, Busy, Alone, Over
    <2>5. ~totp'.active
      BY <2>1
    <2> QED
      BY <2>3, <2>4, <2>5 DEF SetupInv, At
  <1>8. CASE Register(c)
    <2>1. UNCHANGED <<totp, codes, setup>> /\ call[c].at = "idle"
      BY <1>8 DEF Register
    <2>2. Alone(c) /\ call'[c].op = "register"
      BY <1>8, RegisterFields
    <2> QED
      BY <2>1, <2>2, SetupApart DEF Alone, Writers, Busy
  <1> QED
    BY <1>1, <1>2, <1>3, <1>4, <1>5, <1>6, <1>7, <1>8 DEF SetupStep

LEMMA LinkKept ==
    ASSUME Typed, Shapes, LinkInv, NEW c \in Calls, SetupStep(c)
    PROVE  LinkInv'
  <1> USE DEF NoHistory, factors, budget, setup, accepts
  <1>0. /\ era \in Nat /\ links \subseteq Nat /\ call[c].era \in Nat /\ \A d \in Calls : call[d].era \in Nat
    BY CallFields DEF Typed
  <1>a. Alone(c)
    BY SetupType
  <1>1. CASE Enroll(c) \/ Disable(c)
    <2>1. /\ \/ call' = [call EXCEPT ![c].op = "enroll", ![c].at = "done"]
             \/ call' = [call EXCEPT ![c].op = "disable", ![c].at = "deleted"]
          /\ UNCHANGED <<era, links>>
      BY <1>1 DEF Enroll, Disable
    <2>2. call'[c].op \in {"enroll", "disable"} /\ call'[c].at \in {"done", "deleted"}
      BY <2>1, DoneFields, Places DEF Ops
    <2> QED
      BY <1>a, <2>1, <2>2, LinkApart DEF Alone
  <1>2. ASSUME NEW s \in Secrets \union {None}, BeginActivate(c, s)
        PROVE  LinkInv'
    <2> DEFINE p == IF totp.secret # None /\ s = totp.secret THEN "proved" ELSE "refused"
    <2>1. Begin(c, "activate", None, <<s>>, totp.secret, 0, p) /\ era' = era /\ p \in {"proved", "refused"}
      BY <1>2 DEF BeginActivate
    <2> HIDE DEF p
    <2>2. links' = links
      BY <2>1 DEF Begin
    <2>3. call[c].at = "idle" /\ call'[c].at = p /\ call'[c].era = call[c].era
      BY <2>1, BeginFields
    <2> QED
      BY <1>a, <2>1, <2>2, <2>3 DEF LinkInv, Alone
  <1>3. CASE SwitchOn(c) \/ Register(c)
    <2>1. era' = era + 1 /\ links' = links
      BY <1>3 DEF SwitchOn, Register
    <2>2. call'[c].at = "active" /\ call'[c].era = era + 1
      BY <1>3, SwitchFields, RegisterFields
    <2>3. ASSUME NEW d \in Calls, call'[d].op \in {"activate", "register"} \/ call'[d].at = "idle"
          PROVE  call'[d].era =< era'
      BY <1>0, <1>a, <2>1, <2>2, <2>3 DEF LinkInv, Alone
    <2>4. ASSUME NEW d \in Calls, call'[d].op \in {"activate", "register"},
                 call'[d].at \in {"cleared", "numbered", "done"}, NEW e \in links'
          PROVE  e >= call'[d].era
      BY <1>a, <2>1, <2>2, <2>4 DEF LinkInv, Alone
    <2> QED
      BY <2>3, <2>4 DEF LinkInv
  <1>4. CASE DropLinks(c)
    <2>1. /\ links' = {} /\ era' = era /\ call[c].op \in {"activate", "register"}
          /\ Goto(c, "cleared") \/ Goto(c, "done")
      BY <1>4 DEF DropLinks, KillLinks
    <2>2. call'[c].op = call[c].op /\ call'[c].era = call[c].era /\ call'[c].at \in {"cleared", "done"}
      BY <2>1, GotoFields, Places DEF Keeps
    <2> QED
      BY <1>a, <2>1, <2>2 DEF LinkInv, Alone
  <1>5. CASE DeleteCodes(c)
    <2>1. /\ links' = links /\ era' = era
          /\ \/ call[c].op = "activate" /\ call[c].at = "cleared" /\ Goto(c, "numbered")
             \/ call[c].op = "disable" /\ Goto(c, "done")
      BY <1>5 DEF DeleteCodes, At
    <2>2. /\ call'[c].op = call[c].op /\ call'[c].era = call[c].era
          /\ call'[c].at = "numbered" \/ (call'[c].at = "done" /\ call[c].op = "disable")
      BY <2>1, GotoFields, Places DEF Keeps
    <2> QED
      BY <1>a, <2>1, <2>2 DEF LinkInv, Alone
  <1>6. CASE InsertCode(c)
    <2>1. links' = links /\ era' = era /\ call[c].op = "activate" /\ call[c].at = "numbered"
      BY <1>6 DEF InsertCode, At
    <2>2. /\ call'[c].op = call[c].op /\ call'[c].era = call[c].era /\ call'[c].at # "idle"
      BY <1>6, InsertFields DEF Keeps
    <2> QED
      BY <1>a, <2>1, <2>2 DEF LinkInv, Alone
  <1> QED
    BY <1>1, <1>2, <1>3, <1>4, <1>5, <1>6 DEF SetupStep

-----------------------------------------------------------------------------
(* What a lock stops, and how it grows                                     *)

\* The logins under way, and what one may do about a key it found unlocked.
LoginsBusy == Busy({"login"})
Good(c, k) == attempt[k].left > 0 => c \in before[k]
StopInv ==
    \A c \in Calls :
        /\ At(c, "login", "check") => call[c].todo = KeysOf(call[c].ip) \/ Good(c, All)
        /\ At(c, "login", "password") => \A k \in Touch(call[c].ip) : Good(c, k)

\* The window of a key fits its count, and one login at most is about to lock it.
GrowInv ==
    \A k \in Keys \ mixed :
        /\ \A c, d \in LoginsBusy : k \in Touch(call[c].ip) /\ k \in Touch(call[d].ip) => c = d
        /\ \/ attempt[k].window = 0
           \/ attempt[k].count >= LOCK_THRESHOLD /\ attempt[k].window =< Window(attempt[k].count)
        /\ \A c \in Calls : At(c, "login", "arm") /\ Head(call[c].todo) = k
               => attempt[k].count \in {0, call[c].seen}

LockInv == StopInv /\ GrowInv

\* Steps that are not of a login leave the logins as they are.
LEMMA LoginsApart ==
    ASSUME Typed, Shapes, NEW c \in Calls, SetupStep(c) \/ CodeStep(c) \/ PasskeyStep(c)
    PROVE  /\ LoginsBusy' = LoginsBusy /\ UNCHANGED <<attempt, before, mixed>>
           /\ \A d \in Calls : call'[d] = call[d] \/ (call[d].op # "login" /\ call'[d].op # "login")
                                                  \/ (call[d].at = "idle" /\ call'[d].op # "login")
  <1>1. /\ Alone(c) /\ call'[c].op # "login" /\ (call[c].at = "idle" \/ call[c].op # "login")
        /\ UNCHANGED <<attempt, before, mixed>>
    BY SetupType, CodeType, PasskeyType DEF Keeps
  <1> QED
    BY <1>1 DEF LoginsBusy, Busy, Alone

\* A login under way stays as good for a key as it was.
LEMMA GoodKept ==
    ASSUME Typed, Typed', NEW k \in Keys, NEW c \in LoginsBusy, Good(c, k),
           \/ attempt'[k].left = 0
           \/ before'[k] = LoginsBusy
           \/ attempt'[k].left =< attempt[k].left /\ before'[k] = before[k]
    PROVE  attempt'[k].left > 0 => c \in before'[k]
  <1>1. attempt[k] \in Attempt /\ attempt'[k] \in Attempt
    BY DEF Typed
  <1>2. attempt[k].left \in Nat /\ attempt'[k].left \in Nat
    BY <1>1 DEF Attempt, MAX_LOCK
  <1> QED
    BY <1>2 DEF Good

\* What each step of a login does to a counter.
LEMMA Counted ==
    ASSUME Typed, Shapes, NEW c \in Calls, LoginStep(c)
    PROVE  \A k \in Keys :
             /\ \/ attempt'[k].left = 0
                \/ before'[k] = LoginsBusy
                \/ attempt'[k].left =< attempt[k].left /\ before'[k] = before[k]
             /\ \/ attempt'[k] = attempt[k]
                \/ attempt'[k] = Clean
                \/ /\ Record(c) /\ k = Head(call[c].todo)
                   /\ attempt'[k].count = attempt[k].count + 1 /\ attempt'[k].window = attempt[k].window
                \/ /\ Arm(c) /\ k = Head(call[c].todo) /\ attempt[k].count # 0
                   /\ attempt'[k].count = attempt[k].count /\ attempt'[k].window = Window(call[c].seen)
  <1> USE DEF NoHistory, factors, budget, setup, accepts
  <1>0. \A k \in Keys : attempt[k] \in Attempt /\ attempt[k].left =< attempt[k].left
    <2>1. \A k \in Keys : attempt[k] \in Attempt
      BY DEF Typed
    <2> QED
      BY <2>1 DEF Attempt
  <1>1. CASE UNCHANGED <<attempt, before>>
    BY <1>0, <1>1
  <1>2. CASE Record(c)
    <2>1. PICK h : h = Head(call[c].todo)
      OBVIOUS
    <2>2. attempt' = [attempt EXCEPT ![h].count = @ + 1] /\ before' = before
      BY <1>2, <2>1 DEF Record
    <2>3. ASSUME NEW k \in Keys
          PROVE  /\ attempt'[k].left = attempt[k].left
                 /\ \/ attempt'[k] = attempt[k]
                    \/ k = h /\ attempt'[k].count = attempt[k].count + 1 /\ attempt'[k].window = attempt[k].window
      <3>1. attempt \in [Keys -> Attempt]
        BY DEF Typed
      <3>2. k = h => attempt'[k] = [attempt[k] EXCEPT !.count = attempt[k].count + 1]
        BY <2>2, <3>1
      <3>3. k # h => attempt'[k] = attempt[k]
        BY <2>2, <3>1
      <3>4. [attempt[k] EXCEPT !.count = attempt[k].count + 1].left = attempt[k].left
            /\ [attempt[k] EXCEPT !.count = attempt[k].count + 1].window = attempt[k].window
            /\ [attempt[k] EXCEPT !.count = attempt[k].count + 1].count = attempt[k].count + 1
        BY <1>0, <2>3 DEF Attempt
      <3> QED
        BY <3>2, <3>3, <3>4
    <2> QED
      BY <1>0, <1>2, <2>1, <2>2, <2>3
  <1>3. CASE Arm(c)
    <2>1. PICK h, w : h = Head(call[c].todo) /\ w = Window(call[c].seen)
      OBVIOUS
    <2>2. /\ attempt' = IF attempt[h].count = 0 THEN attempt
                        ELSE [attempt EXCEPT ![h].window = w, ![h].left = w]
          /\ before' = [before EXCEPT ![h] = LoginsBusy]
      BY <1>3, <2>1 DEF Arm, LoginsBusy
    <2>3. ASSUME NEW k \in Keys
          PROVE  /\ IF k = h THEN before'[k] = LoginsBusy
                    ELSE attempt'[k] = attempt[k] /\ before'[k] = before[k]
                 /\ \/ attempt'[k] = attempt[k]
                    \/ k = h /\ attempt[k].count # 0 /\ attempt'[k].count = attempt[k].count /\ attempt'[k].window = w
      <3>1. attempt \in [Keys -> Attempt] /\ before \in [Keys -> SUBSET Calls]
        BY DEF Typed
      <3>2. CASE k # h
        BY <2>2, <3>1, <3>2
      <3>3. CASE k = h
        <4>1. before'[k] = LoginsBusy
          BY <2>2, <3>1, <3>3
        <4>2. CASE attempt[h].count = 0
          BY <2>2, <3>3, <4>1, <4>2
        <4>3. CASE attempt[h].count # 0
          <5>1. attempt' = [attempt EXCEPT ![h] = [attempt[h] EXCEPT !.window = w, !.left = w]]
            BY <2>2, <4>3
          <5>2. attempt'[k] = [attempt[k] EXCEPT !.window = w, !.left = w]
            BY <3>1, <3>3, <5>1
          <5>3. [attempt[k] EXCEPT !.window = w, !.left = w].count = attempt[k].count
                /\ [attempt[k] EXCEPT !.window = w, !.left = w].window = w
            BY <1>0, <2>3 DEF Attempt
          <5> QED
            BY <3>3, <4>1, <4>3, <5>2, <5>3
        <4> QED
          BY <4>2, <4>3
      <3> QED
        BY <3>2, <3>3
    <2> QED
      BY <1>0, <1>3, <2>1, <2>3
  <1>4. CASE Clear(c)
    <2>1. PICK h : h = Head(call[c].todo)
      OBVIOUS
    <2>2. attempt' = [attempt EXCEPT ![h] = Clean] /\ before' = before
      BY <1>4, <2>1 DEF Clear
    <2>3. \A k \in Keys : attempt'[k] = Clean \/ attempt'[k] = attempt[k]
      BY <2>2 DEF Typed
    <2>4. Clean.left = 0
      BY DEF Clean
    <2> QED
      BY <1>0, <2>2, <2>3, <2>4
  <1> QED
    BY <1>1, <1>2, <1>3, <1>4 DEF LoginStep, BeginLogin, Begin, Check, Authenticate, Decide

LEMMA StopKept ==
    ASSUME Typed, Shapes, StopInv, [Next]_vars
    PROVE  StopInv'
  <1>t. Typed'
    BY NextType
  <1>k. All \in Keys /\ \A c \in Calls : Touch(call[c].ip) \subseteq Keys
    BY CallFields, KeysFacts DEF Keys
  \* A login that stays where it was.
  <1>1. ASSUME NEW d \in Calls, call'[d] = call[d],
               \A k \in Keys : \/ attempt'[k].left = 0
                               \/ before'[k] = LoginsBusy
                               \/ attempt'[k].left =< attempt[k].left /\ before'[k] = before[k]
        PROVE  /\ At(d, "login", "check")' => call'[d].todo = KeysOf(call'[d].ip) \/ Good(d, All)'
               /\ At(d, "login", "password")' => \A k \in Touch(call'[d].ip) : Good(d, k)'
    <2>1. At(d, "login", "check") \/ At(d, "login", "password") => d \in LoginsBusy
      BY DEF At, LoginsBusy, Busy, Over
    <2>2. CASE At(d, "login", "check")
      <3>1. call[d].todo = KeysOf(call[d].ip) \/ Good(d, All)
        BY <2>2 DEF StopInv
      <3>2. Good(d, All) => (attempt'[All].left > 0 => d \in before'[All])
        BY <1>1, <1>k, <1>t, <2>1, <2>2, GoodKept
      <3> QED
        BY <1>1, <2>2, <3>1, <3>2 DEF At, Good
    <2>3. CASE At(d, "login", "password")
      <3>1. \A k \in Touch(call[d].ip) : Good(d, k) /\ k \in Keys
        BY <1>k, <2>3 DEF StopInv
      <3>2. \A k \in Touch(call[d].ip) : attempt'[k].left > 0 => d \in before'[k]
        BY <1>1, <1>t, <2>1, <2>3, <3>1, GoodKept
      <3> QED
        BY <1>1, <2>3, <3>2 DEF At, Good
    <2> QED
      BY <1>1, <2>2, <2>3 DEF At
  <1>s. \A k \in Keys : attempt[k].left =< attempt[k].left
    <2>1. \A k \in Keys : attempt[k] \in Attempt
      BY DEF Typed
    <2> QED
      BY <2>1 DEF Attempt
  <1>2. CASE UNCHANGED vars
    <2>1. UNCHANGED <<attempt, before, call>>
      BY <1>2 DEF vars
    <2> QED
      BY <2>1 DEF StopInv, At, Good
  <1>3. CASE Around
    <2>1. call' = call /\ before' = before /\ \A k \in Keys : Eased(k)
      BY <1>3, AroundType
    <2>2. \A k \in Keys : attempt'[k].left = 0 \/ (attempt'[k].left =< attempt[k].left /\ before'[k] = before[k])
      BY <2>1 DEF Eased, Clean
    <2> QED
      BY <1>1, <2>1, <2>2 DEF StopInv
  <1>4. ASSUME NEW c \in Calls, SetupStep(c) \/ CodeStep(c) \/ PasskeyStep(c)
        PROVE  StopInv'
    <2>1. /\ UNCHANGED <<attempt, before>>
          /\ \A d \in Calls : call'[d] = call[d] \/ call'[d].op # "login"
      BY <1>4, LoginsApart
    <2> QED
      BY <1>1, <1>s, <2>1 DEF StopInv, At
  <1>5. ASSUME NEW c \in Calls, Cut(c)
        PROVE  StopInv'
    <2>1. UNCHANGED <<attempt, before>> /\ Alone(c) /\ call'[c].at = "cut"
      BY <1>5, CutType
    <2> QED
      BY <1>1, <1>s, <2>1 DEF StopInv, At, Alone
  <1>6. ASSUME NEW c \in Calls, LoginStep(c)
        PROVE  StopInv'
    <2>1. Alone(c) /\ \A k \in Keys : \/ attempt'[k].left = 0
                                      \/ before'[k] = LoginsBusy
                                      \/ attempt'[k].left =< attempt[k].left /\ before'[k] = before[k]
      BY <1>6, LoginType, Counted
    <2>2. SUFFICES /\ At(c, "login", "check")' => call'[c].todo = KeysOf(call'[c].ip) \/ Good(c, All)'
                   /\ At(c, "login", "password")' => \A k \in Touch(call'[c].ip) : Good(c, k)'
      BY <1>1, <2>1 DEF StopInv, Alone
    <2>3. ASSUME NEW ip \in Ips \union {None}, BeginLogin(c, ip)
          PROVE  call'[c].todo = KeysOf(call'[c].ip) /\ call'[c].at = "check"
      <3>1. Begin(c, "login", ip, <<None>>, None, 0, "check")
        BY <2>3 DEF BeginLogin
      <3> QED
        BY <3>1, BeginFields
    <2>4. CASE Check(c)
      <3> DEFINE k == Head(call[c].todo)
      <3>1. /\ call[c].op = "login" /\ call[c].at = "check" /\ call[c].todo # <<>> /\ UNCHANGED <<attempt, before>>
            /\ \/ Goto(c, "refused")
               \/ ~Locks(k) /\ Advance(c, "check", "password", KeysOf(call[c].ip))
        BY <2>4 DEF Check, Works, At, NoHistory
      <3>2. call[c].todo \in Rest(call[c].ip) /\ call[c].ip \in Ips \union {None} /\ KeysOf(call[c].ip) \in Seq(Keys)
        BY <3>1, CallFields, KeysFacts DEF Shapes, Shape
      <3> HIDE DEF k
      <3>3. CASE Goto(c, "refused")
        <4>1. call'[c].at = "refused"
          BY <3>3, GotoFields, Places
        <4> QED
          BY <4>1 DEF At
      <3>4. CASE ~Locks(k) /\ Advance(c, "check", "password", KeysOf(call[c].ip))
        <4>1. /\ Keeps(c)
              /\ Len(call[c].todo) = 1 => call'[c].at = "password"
              /\ Len(call[c].todo) # 1 => call'[c].at = "check"
          BY <3>1, <3>2, <3>4, AdvanceFields, Places
        <4>2. Good(c, k) /\ (Len(call[c].todo) # 1 => k = All)
          BY <3>2, <3>4, RestFacts DEF Locks, Good, k
        <4>3. CASE Len(call[c].todo) # 1
          BY <3>1, <4>1, <4>2, <4>3 DEF At, Good
        <4>4. CASE Len(call[c].todo) = 1
          <5>1. Touch(call[c].ip) \subseteq {All, k} /\ (call[c].todo = KeysOf(call[c].ip) => k = All)
            BY <3>2, <4>4, RestFacts DEF k
          <5>2. call[c].todo = KeysOf(call[c].ip) \/ Good(c, All)
            BY <3>1 DEF StopInv, At
          <5>3. \A j \in Touch(call[c].ip) : Good(c, j)
            BY <4>2, <5>1, <5>2
          <5> QED
            BY <3>1, <4>1, <4>4, <5>3 DEF At, Good, Keeps
        <4> QED
          BY <4>3, <4>4
      <3> QED
        BY <3>1, <3>3, <3>4
    <2>5. CASE (\E right \in BOOLEAN : Authenticate(c, right)) \/ Decide(c)
      <3>1. Goto(c, "clear") \/ Goto(c, "record") \/ Goto(c, "pending") \/ Goto(c, "session")
        BY <2>5 DEF Authenticate, Decide
      <3>2. call'[c].at \in {"clear", "record", "pending", "session"}
        BY <3>1, GotoFields, Places
      <3> QED
        BY <3>2 DEF At
    <2>6. CASE Record(c) \/ Arm(c) \/ Clear(c)
      <3>1. /\ call[c].todo # <<>> /\ <<>> \in Seq(Keys)
            /\ \/ call' = [call EXCEPT ![c].at = "arm", ![c].seen = attempt[Head(call[c].todo)].count + 1]
               \/ Advance(c, "record", "refused", <<>>) \/ Advance(c, "clear", "decide", <<>>)
        <4>1. <<>> \in Seq(Keys)
          OBVIOUS
        <4>2. CASE Record(c)
          BY <4>1, <4>2 DEF Record, Works
        <4>3. CASE Arm(c)
          BY <4>1, <4>3 DEF Arm, Works
        <4>4. CASE Clear(c)
          BY <4>1, <4>4 DEF Clear, Works
        <4> QED
          BY <2>6, <4>2, <4>3, <4>4
      <3>2. Advance(c, "record", "refused", <<>>) \/ Advance(c, "clear", "decide", <<>>)
              => call'[c].at \in {"record", "refused", "clear", "decide"}
        BY <3>1, NextKey
      <3>3. call' = [call EXCEPT ![c].at = "arm", ![c].seen = attempt[Head(call[c].todo)].count + 1]
              => call'[c].at = "arm"
        BY CallFields DEF Typed, Call
      <3>4. call'[c].at \in {"record", "refused", "clear", "decide", "arm"}
        BY <3>1, <3>2, <3>3
      <3> QED
        BY <3>4 DEF At
    <2> QED
      BY <1>6, <2>3, <2>4, <2>5, <2>6 DEF LoginStep, At
  <1> QED
    BY <1>2, <1>3, <1>4, <1>5, <1>6, NextIs

\* What a login that stays where it was keeps of the counters it touches.
Fits(k) ==
    \/ attempt[k].window = 0
    \/ attempt[k].count >= LOCK_THRESHOLD /\ attempt[k].window =< Window(attempt[k].count)

LEMMA FitsFacts ==
    ASSUME Typed, NEW k \in Keys
    PROVE  /\ attempt[k].count \in Nat /\ attempt[k].window \in 0..MAX_LOCK /\ attempt[k].left \in 0..MAX_LOCK
           /\ Clean.window = 0 /\ Clean.count = 0
  <1>1. attempt[k] \in Attempt
    BY DEF Typed
  <1> QED
    BY <1>1 DEF Attempt, Clean

LEMMA GrowApart ==
    ASSUME Typed, GrowInv, mixed \subseteq mixed',
           \A k \in Keys : \/ attempt'[k] = Clean
                           \/ attempt'[k].count = attempt[k].count /\ attempt'[k].window = attempt[k].window,
           \A d \in Calls : \/ call'[d] = call[d]
                            \/ call'[d].op # "login" /\ (call[d].op # "login" \/ call[d].at = "idle")
    PROVE  GrowInv'
  <1>0. \A k \in Keys : attempt'[k] = Clean => attempt'[k].window = 0 /\ attempt'[k].count = 0
    BY FitsFacts
  <1>1. \A d \in LoginsBusy' : d \in LoginsBusy /\ call'[d] = call[d]
    BY DEF LoginsBusy, Busy
  <1>2. \A d \in Calls : At(d, "login", "arm")' => At(d, "login", "arm") /\ call'[d] = call[d]
    BY DEF At
  <1>3. ASSUME NEW k \in Keys, k \notin mixed'
        PROVE  /\ \A c, d \in LoginsBusy' : k \in Touch(call'[c].ip) /\ k \in Touch(call'[d].ip) => c = d
               /\ \/ attempt'[k].window = 0
                  \/ attempt'[k].count >= LOCK_THRESHOLD /\ attempt'[k].window =< Window(attempt'[k].count)
               /\ \A c \in Calls : At(c, "login", "arm")' /\ Head(call'[c].todo) = k
                      => attempt'[k].count \in {0, call'[c].seen}
    <2>1. k \in Keys \ mixed
      BY <1>3
    <2>2. \A c, d \in LoginsBusy' : k \in Touch(call'[c].ip) /\ k \in Touch(call'[d].ip) => c = d
      BY <1>1, <2>1 DEF GrowInv
    <2>3. \/ attempt'[k].window = 0
          \/ attempt'[k].count >= LOCK_THRESHOLD /\ attempt'[k].window =< Window(attempt'[k].count)
      BY <1>0, <1>3, <2>1 DEF GrowInv
    <2>4. \A c \in Calls : At(c, "login", "arm")' /\ Head(call'[c].todo) = k
                      => attempt'[k].count \in {0, call'[c].seen}
      BY <1>0, <1>2, <1>3, <2>1 DEF GrowInv
    <2> QED
      BY <2>2, <2>3, <2>4
  <1> QED
    BY <1>3 DEF GrowInv, At

LEMMA GrowKept ==
    ASSUME Typed, Shapes, GrowInv, [Next]_vars
    PROVE  GrowInv'
  <1>1. CASE UNCHANGED vars
    <2>1. UNCHANGED <<attempt, mixed, call>>
      BY <1>1 DEF vars
    <2> QED
      BY <2>1, GrowApart
  <1>2. CASE Around
    <2>1. call' = call /\ mixed' = mixed /\ \A k \in Keys : Eased(k)
      BY <1>2, AroundType
    <2> QED
      BY <2>1, GrowApart DEF Eased
  <1>3. ASSUME NEW c \in Calls, SetupStep(c) \/ CodeStep(c) \/ PasskeyStep(c)
        PROVE  GrowInv'
    BY <1>3, LoginsApart, GrowApart
  <1>4. ASSUME NEW c \in Calls, Cut(c)
        PROVE  GrowInv'
    <2>1. /\ attempt' = attempt /\ Alone(c) /\ mixed' = mixed \union (IF call[c].op = "login" THEN Keys ELSE {})
          /\ call'[c].op = call[c].op
      BY <1>4, CutType DEF Keeps
    <2>2. CASE call[c].op = "login"
      BY <2>1, <2>2 DEF GrowInv
    <2>3. CASE call[c].op # "login"
      BY <2>1, <2>3, GrowApart DEF Alone
    <2> QED
      BY <2>2, <2>3
  <1>5. ASSUME NEW c \in Calls, LoginStep(c)
        PROVE  GrowInv'
    <2>0. /\ Alone(c) /\ mixed \subseteq Keys /\ call[c].ip \in Ips \union {None}
          /\ call[c].at = "idle" \/ (call[c].op = "login" /\ Keeps(c))
          /\ call'[c].op = "login"
      BY <1>5, LoginType, CallFields DEF Typed
    <2>1. mixed \subseteq mixed' /\ (~(\E ip \in Ips \union {None} : BeginLogin(c, ip)) => mixed' = mixed)
      BY <1>5 DEF LoginStep, BeginLogin, Check, Authenticate, Record, Arm, Clear, Decide, NoHistory
    <2>2. \A k \in Keys : \/ attempt'[k] = attempt[k]
                          \/ attempt'[k] = Clean
                          \/ /\ Record(c) /\ k = Head(call[c].todo)
                             /\ attempt'[k].count = attempt[k].count + 1 /\ attempt'[k].window = attempt[k].window
                          \/ /\ Arm(c) /\ k = Head(call[c].todo) /\ attempt[k].count # 0
                             /\ attempt'[k].count = attempt[k].count /\ attempt'[k].window = Window(call[c].seen)
      BY <1>5, Counted
    <2>h. Record(c) \/ Arm(c) => /\ c \in LoginsBusy /\ Head(call[c].todo) \in Touch(call[c].ip)
                                 /\ call[c].at \in {"record", "arm"}
      <3>1. Record(c) \/ Arm(c) => call[c].op = "login" /\ call[c].at \in {"record", "arm"}
        BY DEF Record, Arm, Works, At
      <3>2. Record(c) \/ Arm(c) => call[c].todo \in Rest(call[c].ip)
        BY <3>1 DEF Shapes, Shape
      <3> QED
        BY <2>0, <3>1, <3>2, RestFacts DEF LoginsBusy, Busy, Over
    <2>s. Arm(c) => call[c].seen \in Nat /\ call[c].seen >= LOCK_THRESHOLD /\ At(c, "login", "arm")
      BY CallFields DEF Arm, Works, At, Shapes, Shape
    <2>3. ASSUME NEW k \in Keys, k \notin mixed', NEW d \in LoginsBusy', NEW e \in LoginsBusy',
                 k \in Touch(call'[d].ip), k \in Touch(call'[e].ip)
          PROVE  d = e
      <3>1. CASE \E ip \in Ips \union {None} : BeginLogin(c, ip)
        <4>1. PICK ip \in Ips \union {None} : BeginLogin(c, ip)
          BY <3>1
        <4>2. call'[c].ip = ip
          <5>1. Begin(c, "login", ip, <<None>>, None, 0, "check")
            BY <4>1 DEF BeginLogin
          <5> QED
            BY <5>1, BeginFields
        <4>3. ASSUME NEW f \in LoginsBusy, k \in Touch(call[f].ip), k \in Touch(ip)
              PROVE  FALSE
          <5>1. call[f].ip \in Ips \union {None}
            BY CallFields DEF LoginsBusy, Busy
          <5>2. PICK i \in 1..Len(KeysOf(ip)) : KeysOf(ip)[i] = k
            BY <4>3, KeysFacts
          <5>3. PICK j \in 1..Len(KeysOf(call[f].ip)) : KeysOf(call[f].ip)[j] = k
            BY <4>3, <5>1, KeysFacts
          <5> QED
            BY <2>3, <4>1, <5>2, <5>3 DEF BeginLogin, LoginsBusy
        <4>4. \A f \in LoginsBusy' : f # c => f \in LoginsBusy /\ call'[f] = call[f]
          BY <2>0 DEF LoginsBusy, Busy, Alone
        <4>5. CASE d = c \/ e = c
          BY <2>3, <4>2, <4>3, <4>4, <4>5
        <4>6. CASE d # c /\ e # c
          BY <2>1, <2>3, <4>4, <4>6 DEF GrowInv
        <4> QED
          BY <4>5, <4>6
      <3>2. CASE ~(\E ip \in Ips \union {None} : BeginLogin(c, ip))
        <4>1. c \in LoginsBusy /\ call'[c].ip = call[c].ip
          <5>1. call[c].op = "login" /\ call[c].at \in {"check", "password", "record", "arm", "clear", "decide"}
            BY <1>5, <3>2 DEF LoginStep, Check, Authenticate, Record, Arm, Clear, Decide, Works, At
          <5> QED
            BY <2>0, <5>1 DEF LoginsBusy, Busy, Over, Keeps
        <4>2. \A f \in LoginsBusy' : f \in LoginsBusy /\ call'[f].ip = call[f].ip
          BY <2>0, <4>1 DEF LoginsBusy, Busy, Alone
        <4> QED
          BY <2>1, <2>3, <3>2, <4>2 DEF GrowInv
      <3> QED
        BY <3>1, <3>2
    <2>4. ASSUME NEW k \in Keys, k \notin mixed'
          PROVE  \/ attempt'[k].window = 0
                 \/ attempt'[k].count >= LOCK_THRESHOLD /\ attempt'[k].window =< Window(attempt'[k].count)
      <3>1. /\ attempt[k].count \in Nat /\ attempt[k].window \in 0..MAX_LOCK
            /\ Clean.window = 0 /\ k \in Keys \ mixed
        BY <2>1, <2>4, FitsFacts
      <3>2. Fits(k)
        BY <3>1 DEF GrowInv, Fits
      <3>3. CASE attempt'[k] = attempt[k] \/ attempt'[k] = Clean
        BY <3>1, <3>2, <3>3 DEF Fits
      <3>4. CASE attempt'[k].count = attempt[k].count + 1 /\ attempt'[k].window = attempt[k].window
        <4>1. CASE attempt[k].window = 0
          BY <3>4, <4>1
        <4>2. CASE attempt[k].count >= LOCK_THRESHOLD /\ attempt[k].window =< Window(attempt[k].count)
          <5>1. /\ Window(attempt[k].count) =< Window(attempt[k].count + 1)
                /\ Window(attempt[k].count) \in 1..MAX_LOCK /\ Window(attempt[k].count + 1) \in 1..MAX_LOCK
                /\ attempt[k].count + 1 >= LOCK_THRESHOLD
            <6>1. attempt[k].count + 1 \in Nat /\ attempt[k].count + 1 >= attempt[k].count
                  /\ attempt[k].count + 1 >= LOCK_THRESHOLD
              BY <3>1, <4>2 DEF LOCK_THRESHOLD
            <6> QED
              BY <3>1, <4>2, <6>1, WindowFacts
          <5> QED
            BY <3>1, <3>4, <4>2, <5>1 DEF MAX_LOCK
        <4> QED
          BY <3>2, <4>1, <4>2 DEF Fits
      <3>5. CASE /\ Arm(c) /\ k = Head(call[c].todo) /\ attempt[k].count # 0
                 /\ attempt'[k].count = attempt[k].count /\ attempt'[k].window = Window(call[c].seen)
        <4>1. attempt[k].count = call[c].seen
          BY <2>s, <3>1, <3>5 DEF GrowInv
        <4>2. Window(call[c].seen) \in 1..MAX_LOCK
          BY <2>s, <3>5, WindowFacts
        <4> QED
          BY <2>s, <3>5, <4>1, <4>2 DEF MAX_LOCK
      <3> QED
        BY <2>2, <3>3, <3>4, <3>5
    <2>5. ASSUME NEW k \in Keys, k \notin mixed', NEW d \in Calls, At(d, "login", "arm")', Head(call'[d].todo) = k
          PROVE  attempt'[k].count \in {0, call'[d].seen}
      <3>1. k \in Keys \ mixed /\ attempt[k].count \in Nat /\ Clean.count = 0
        BY <2>1, <2>5, FitsFacts
      <3>2. CASE d = c
        \* A login comes to arm by counting the failure itself.
        <4>1. /\ Record(c) /\ call' = [call EXCEPT ![c].at = "arm", ![c].seen = attempt[Head(call[c].todo)].count + 1]
          <5>1. call'[c].at = "arm"
            BY <2>5, <3>2 DEF At
          <5>2. \A p \in Place : Goto(c, p) => call'[c].at = p
            BY GotoFields
          <5>3. ~(\E ip \in Ips \union {None} : BeginLogin(c, ip))
            <6>1. ASSUME NEW ip \in Ips \union {None}, BeginLogin(c, ip)
                  PROVE  FALSE
              <7>1. Begin(c, "login", ip, <<None>>, None, 0, "check")
                BY <6>1 DEF BeginLogin
              <7>2. call'[c].at = "check"
                BY <7>1, BeginFields
              <7> QED
                BY <5>1, <7>2
            <6> QED
              BY <6>1
          <5>4. KeysOf(call[c].ip) \in Seq(Keys) /\ <<>> \in Seq(Keys)
            BY <2>0, KeysFacts
          <5>9. \A p, q \in Place, t \in Seq(Keys) :
                    call[c].todo # <<>> /\ Advance(c, p, q, t) => call'[c].at \in {p, q}
            BY AdvanceFields
          <5>5. /\ (call[c].todo # <<>> /\ Advance(c, "check", "password", KeysOf(call[c].ip))) => call'[c].at # "arm"
                /\ (call[c].todo # <<>> /\ Advance(c, "record", "refused", <<>>)) => call'[c].at # "arm"
                /\ (call[c].todo # <<>> /\ Advance(c, "clear", "decide", <<>>)) => call'[c].at # "arm"
            <6>1. {"check", "password", "record", "refused", "clear", "decide"} \subseteq Place
              BY Places
            <6> QED
              BY <5>4, <5>9, <6>1
          <5>6. ~Check(c) /\ ~Arm(c) /\ ~Clear(c)
            BY <5>1, <5>2, <5>5, Places DEF Check, Arm, Clear, Works
          <5>7. ~(\E right \in BOOLEAN : Authenticate(c, right)) /\ ~Decide(c)
            BY <5>1, <5>2, Places DEF Authenticate, Decide
          <5>8. Record(c)
            BY <1>5, <5>3, <5>6, <5>7 DEF LoginStep
          <5> QED
            BY <5>1, <5>5, <5>8 DEF Record, Works
        <4>2. PICK h, s : h = Head(call[c].todo) /\ s = attempt[h].count + 1
          OBVIOUS
        <4>3. call' = [call EXCEPT ![c].at = "arm", ![c].seen = s] /\ attempt' = [attempt EXCEPT ![h].count = @ + 1]
          BY <4>1, <4>2 DEF Record
        <4>4. call'[c].todo = call[c].todo /\ call'[c].seen = s
          BY <4>3, CallFields DEF Typed, Call
        <4>5. k = h
          BY <2>5, <3>2, <4>2, <4>4
        <4>6. attempt'[k].count = attempt[k].count + 1
          <5>1. attempt' = [attempt EXCEPT ![h] = [attempt[h] EXCEPT !.count = attempt[h].count + 1]]
            BY <4>3
          <5>2. attempt'[k] = [attempt[k] EXCEPT !.count = attempt[k].count + 1]
            BY <4>5, <5>1 DEF Typed
          <5>3. attempt[k] \in Attempt
            BY DEF Typed
          <5> QED
            BY <5>2, <5>3 DEF Attempt
        <4> QED
          BY <3>2, <4>2, <4>4, <4>5, <4>6
      <3>3. CASE d # c
        <4>1. call'[d] = call[d] /\ At(d, "login", "arm") /\ Head(call[d].todo) = k /\ d \in LoginsBusy
          BY <2>0, <2>5, <3>3 DEF Alone, At, LoginsBusy, Busy, Over
        <4>2. attempt[k].count \in {0, call[d].seen}
          BY <3>1, <4>1 DEF GrowInv
        <4>3. k \in Touch(call[d].ip)
          <5>1. call[d].todo \in Rest(call[d].ip) /\ call[d].ip \in Ips \union {None}
            BY <4>1, CallFields DEF Shapes, Shape, At
          <5> QED
            BY <4>1, <5>1, RestFacts
        <4>4. ~((Record(c) \/ Arm(c)) /\ k = Head(call[c].todo))
          BY <2>h, <3>1, <3>3, <4>1, <4>3 DEF GrowInv
        <4>5. attempt'[k] = attempt[k] \/ attempt'[k] = Clean
          BY <2>2, <4>4
        <4> QED
          BY <3>1, <4>1, <4>2, <4>5
      <3> QED
        BY <3>2, <3>3
    <2> QED
      BY <2>3, <2>4, <2>5 DEF GrowInv
  <1> QED
    BY <1>1, <1>2, <1>3, <1>4, <1>5, NextIs

\* One step of a lock: what LockStops and LockGrows say of it.
LEMMA LockSteps ==
    ASSUME Typed, Shapes, LockInv, [Next]_vars
    PROVE  /\ \A c \in Calls : At(c, "login", "password") /\ call'[c].at \in {"clear", "record"} =>
                  \A i \in 1..Len(KeysOf(call[c].ip)) :
                      attempt[KeysOf(call[c].ip)[i]].left > 0
                          => c \in before[KeysOf(call[c].ip)[i]]
           /\ \A k \in Keys \ mixed' : attempt'[k].window # 0 =>
                  attempt[k].window =< attempt'[k].window /\ attempt'[k].window =< MAX_LOCK
  <1>1. ASSUME NEW c \in Calls, At(c, "login", "password"), NEW i \in 1..Len(KeysOf(call[c].ip)),
               attempt[KeysOf(call[c].ip)[i]].left > 0
        PROVE  c \in before[KeysOf(call[c].ip)[i]]
    <2>1. KeysOf(call[c].ip)[i] \in Touch(call[c].ip)
      BY CallFields, KeysFacts
    <2> QED
      BY <1>1, <2>1 DEF LockInv, StopInv, Good
  <1>2. ASSUME NEW k \in Keys, k \notin mixed', attempt'[k].window # 0
        PROVE  attempt[k].window =< attempt'[k].window /\ attempt'[k].window =< MAX_LOCK
    <2>0. attempt[k].window \in 0..MAX_LOCK /\ attempt[k].count \in Nat /\ Clean.window = 0
      BY FitsFacts
    <2>1. CASE attempt'[k].window = attempt[k].window
      BY <2>0, <2>1 DEF MAX_LOCK
    <2>2. CASE attempt'[k] = Clean
      BY <1>2, <2>0, <2>2
    <2>3. ASSUME NEW c \in Calls, Arm(c), k = Head(call[c].todo), attempt[k].count # 0, mixed' = mixed,
                 attempt'[k].window = Window(call[c].seen)
          PROVE  attempt[k].window =< attempt'[k].window /\ attempt'[k].window =< MAX_LOCK
      <3>1. call[c].seen \in Nat /\ call[c].seen >= LOCK_THRESHOLD /\ At(c, "login", "arm")
        BY <2>3, CallFields DEF Arm, Works, At, Shapes, Shape
      <3>2. Window(call[c].seen) \in 1..MAX_LOCK
        BY <3>1, WindowFacts
      <3>3. attempt[k].count = call[c].seen
        BY <1>2, <2>0, <2>3, <3>1 DEF LockInv, GrowInv
      <3>4. attempt[k].window = 0 \/ attempt[k].window =< Window(call[c].seen)
        BY <1>2, <2>3, <3>3 DEF LockInv, GrowInv
      <3>5. PICK w \in 1..MAX_LOCK : w = Window(call[c].seen)
        BY <3>2
      <3>6. attempt'[k].window = w /\ (attempt[k].window = 0 \/ attempt[k].window =< w)
        BY <2>3, <3>4, <3>5
      <3> QED
        BY <2>0, <3>6 DEF MAX_LOCK
    <2>4. CASE UNCHANGED vars
      BY <2>1, <2>4 DEF vars
    <2>5. CASE Around
      BY <2>1, <2>2, <2>5, AroundType DEF Eased
    <2>6. ASSUME NEW c \in Calls, SetupStep(c) \/ CodeStep(c) \/ PasskeyStep(c) \/ Cut(c)
          PROVE  attempt' = attempt
      BY <2>6, LoginsApart, CutType
    <2>7. ASSUME NEW c \in Calls, LoginStep(c)
          PROVE  \/ attempt'[k].window = attempt[k].window
                 \/ attempt'[k] = Clean
                 \/ /\ Arm(c) /\ k = Head(call[c].todo) /\ attempt[k].count # 0 /\ mixed' = mixed
                    /\ attempt'[k].window = Window(call[c].seen)
      <3>1. Arm(c) => mixed' = mixed
        BY DEF Arm
      <3> QED
        BY <2>7, <3>1, Counted
    <2> QED
      BY <2>1, <2>2, <2>3, <2>4, <2>5, <2>6, <2>7, NextIs
  <1> QED
    BY <1>1, <1>2

-----------------------------------------------------------------------------
(* How far the counters reach                                              *)

\* A login still owes its failure to the keys it has in hand; one that is
\* through with a key, and a call of another kind, never counts there again.
Later(c) == IF Len(call[c].todo) # 1 THEN {call[c].ip} ELSE {}
Owes(c, k) ==
    /\ call[c].op = "login"
    /\ \/ call[c].at \in {"check", "password"}
       \/ call[c].at = "record" /\ (k = Head(call[c].todo) \/ k \in Later(c))
       \/ call[c].at = "arm" /\ k \in Later(c)
Through(k) == {c \in Calls : call[c].at # "idle" /\ ~Owes(c, k)}
Switched == {c \in Calls : call[c].at # "idle" /\ ~(call[c].op = "activate" /\ call[c].at = "proved")}

Tally(k) ==
    /\ attempt[k].left =< attempt[k].window
    /\ attempt[k].count =< 20 + Cardinality(Through(k))
TallyInv ==
    /\ \A k \in Keys : Tally(k)
    /\ era =< Cardinality(Switched)
    /\ faults \in 0..MaxFaults /\ ticks \in 0..MaxTicks

LEMMA SetsOfCalls ==
    ASSUME NEW S \in SUBSET Calls, NEW T \in SUBSET Calls, S \subseteq T
    PROVE  /\ Cardinality(S) \in Nat /\ Cardinality(T) \in Nat /\ Cardinality(Calls) \in Nat
           /\ Cardinality(S) =< Cardinality(T) /\ Cardinality(T) =< Cardinality(Calls)
           /\ \A c \in T : c \notin S => Cardinality(S) + 1 =< Cardinality(T)
  <1>1. IsFiniteSet(Calls) /\ IsFiniteSet(T) /\ IsFiniteSet(S) /\ Cardinality(T) =< Cardinality(Calls)
        /\ Cardinality(S) =< Cardinality(T)
    BY LoginsAssumption, FS_Subset
  <1>2. Cardinality(S) \in Nat /\ Cardinality(T) \in Nat /\ Cardinality(Calls) \in Nat
    BY <1>1, FS_CardinalityType
  <1>3. ASSUME NEW c \in T, c \notin S
        PROVE  Cardinality(S) + 1 =< Cardinality(T)
    <2>1. Cardinality(S \union {c}) = Cardinality(S) + 1
      BY <1>1, <1>3, FS_AddElement
    <2>2. S \union {c} \in SUBSET T
      OBVIOUS
    <2>3. Cardinality(S \union {c}) =< Cardinality(T)
      BY <1>1, <2>2, FS_Subset
    <2> QED
      BY <2>1, <2>3
  <1> QED
    BY <1>1, <1>2, <1>3

\* A step of one call leaves every other where it was.
LEMMA OthersThrough ==
    ASSUME NEW c \in Calls, Alone(c), NEW k
    PROVE  /\ (c \in Through(k) => c \in Through(k)') => Through(k) \subseteq Through(k)'
           /\ (c \in Switched => c \in Switched') => Switched \subseteq Switched'
  BY DEF Alone, Through, Owes, Later, Switched

LEMMA LoginThrough ==
    ASSUME Typed, Shapes, NEW c \in Calls, LoginStep(c), NEW k \in Keys
    PROVE  /\ Through(k) \subseteq Through(k)' /\ Switched \subseteq Switched'
           /\ Record(c) /\ k = Head(call[c].todo) => c \in Through(k)' /\ c \notin Through(k)
  <1>0. /\ Alone(c) /\ call'[c].op = "login" /\ call'[c].at # "idle" /\ c \in Switched'
        /\ call[c].ip \in Ips \union {None} /\ Shape(c) /\ call[c].todo \in Seq(Keys) /\ <<>> \in Seq(Keys)
        /\ KeysOf(call[c].ip) \in Seq(Keys)
    BY LoginType, CallFields, KeysFacts DEF Switched, Shapes
  <1>1. CASE \E ip \in Ips \union {None} : BeginLogin(c, ip)
    <2>1. call[c].at = "idle"
      BY <1>1 DEF BeginLogin, Begin
    <2> QED
      BY <1>0, <2>1, OthersThrough DEF Through, Record, Works, At
  <1>2. CASE Check(c) \/ (\E right \in BOOLEAN : Authenticate(c, right))
    <2>1. Owes(c, k) /\ call[c].at # "record"
      BY <1>2 DEF Check, Authenticate, Works, At, Owes
    <2> QED
      BY <1>0, <2>1, OthersThrough DEF Through, Record, Works, At
  <1>3. CASE Decide(c)
    <2>1. call[c].at = "decide" /\ (Goto(c, "pending") \/ Goto(c, "session"))
      BY <1>3 DEF Decide, At
    <2>2. call'[c].at \in {"pending", "session"}
      BY <2>1, GotoFields, Places
    <2>3. c \in Through(k)'
      BY <1>0, <2>2 DEF Through, Owes
    <2> QED
      BY <1>0, <2>1, <2>3, OthersThrough DEF Record, Works, At
  <1>4. CASE Clear(c)
    <2>1. call[c].at = "clear" /\ call[c].todo # <<>> /\ Advance(c, "clear", "decide", <<>>)
      BY <1>4 DEF Clear, Works, At
    <2>2. call'[c].at \in {"clear", "decide"}
      BY <2>1, NextKey
    <2>3. c \in Through(k)'
      BY <1>0, <2>2 DEF Through, Owes
    <2> QED
      BY <1>0, <2>1, <2>3, OthersThrough DEF Record, Works, At
  <1>5. CASE Record(c) \/ Arm(c)
    <2>1. /\ call[c].op = "login" /\ call[c].at \in {"record", "arm"} /\ call[c].todo \in Rest(call[c].ip)
          /\ call[c].todo # <<>>
      BY <1>0, <1>5 DEF Record, Arm, Works, At, Shape
    <2>2. Len(call[c].todo) # 1 => /\ Tail(call[c].todo) = <<call[c].ip>> /\ Head(call[c].todo) = All
                                   /\ call[c].ip \in Ips /\ call[c].ip # All
      BY <1>0, <2>1, RestFacts, LoginsAssumption
    <2>3. CASE /\ call[c].at = "record"
               /\ call' = [call EXCEPT ![c].at = "arm", ![c].seen = attempt[Head(call[c].todo)].count + 1]
      <3>1. call'[c].at = "arm" /\ call'[c].todo = call[c].todo /\ call'[c].ip = call[c].ip
        BY <2>3, CallFields DEF Typed, Call
      <3>2. k = Head(call[c].todo) => c \notin Through(k) /\ c \in Through(k)'
        <4>1. call[c].at = "record" /\ Owes(c, Head(call[c].todo))
          BY <2>1, <2>3 DEF Owes
        <4>2. Later(c)' = Later(c) /\ Head(call[c].todo) \notin Later(c)
          BY <2>2, <3>1 DEF Later
        <4>3. ~Owes(c, Head(call[c].todo))'
          BY <3>1, <4>2 DEF Owes
        <4>4. Head(call[c].todo) \in Keys => /\ c \notin Through(Head(call[c].todo))
                                             /\ c \in Through(Head(call[c].todo))'
          <5>1. c \notin Through(Head(call[c].todo))
            BY <4>1 DEF Through
          <5>2. call'[c].at # "idle" /\ call'[c].todo = call[c].todo
            BY <3>1
          <5>3. c \in Through(Head(call[c].todo))'
            BY <4>3, <5>2 DEF Through
          <5> QED
            BY <5>1, <5>3
        <4> QED
          BY <3>1, <4>4
      <3>3. c \in Through(k) => c \in Through(k)'
        BY <1>0, <2>1, <2>3, <3>1 DEF Through, Owes, Later
      <3> QED
        BY <1>0, <3>2, <3>3, OthersThrough
    <2>4. CASE Advance(c, "record", "refused", <<>>)
      <3>1. /\ Keeps(c)
            /\ Len(call[c].todo) = 1 => call'[c].at = "refused"
            /\ Len(call[c].todo) # 1 => call'[c].at = "record" /\ call'[c].todo = Tail(call[c].todo)
        BY <2>1, <2>4, NextKey
      <3>2. CASE Len(call[c].todo) = 1
        <4>1. c \in Through(k)'
          BY <1>0, <3>1, <3>2 DEF Through, Owes
        <4>2. call[c].at = "record" /\ k = Head(call[c].todo) => c \notin Through(k)
          BY <2>1 DEF Through, Owes
        <4> QED
          BY <1>0, <4>1, <4>2, OthersThrough DEF Record, Works, At
      <3>3. CASE Len(call[c].todo) # 1
        <4>1. Head(<<call[c].ip>>) = call[c].ip /\ Len(<<call[c].ip>>) = 1
          OBVIOUS
        <4>2. call'[c].at = "record" /\ Head(call'[c].todo) = call[c].ip /\ Later(c)' = {}
          BY <2>2, <3>1, <3>3, <4>1 DEF Later
        <4>3. c \in Through(k)' <=> k # call[c].ip
          BY <1>0, <4>2 DEF Through, Owes
        <4>4. Owes(c, k) <=> (k = call[c].ip \/ (k = Head(call[c].todo) /\ call[c].at = "record"))
          BY <2>1, <3>3 DEF Owes, Later
        <4>5. call[c].at # "idle"
          BY <2>1
        <4> QED
          BY <1>0, <2>2, <3>3, <4>3, <4>4, <4>5, OthersThrough DEF Record, Works, At, Through
      <3> QED
        BY <3>2, <3>3
    <2> QED
      BY <1>5, <2>3, <2>4 DEF Record, Arm, Works, At
  <1> QED
    BY <1>1, <1>2, <1>3, <1>4, <1>5 DEF LoginStep

\* Both fields of a lock are set together, and dropped together.
LEMMA LoginWithin ==
    ASSUME Typed, Shapes, NEW c \in Calls, LoginStep(c), NEW k \in Keys, attempt[k].left =< attempt[k].window
    PROVE  attempt'[k].left =< attempt'[k].window
  <1>0. attempt \in [Keys -> Attempt] /\ attempt[k] \in Attempt /\ Shape(c)
    BY DEF Typed, Shapes
  <1>1. CASE UNCHANGED attempt
    BY <1>1
  <1>2. CASE Record(c)
    <2>1. PICK h : h = Head(call[c].todo)
      OBVIOUS
    <2>2. attempt' = [attempt EXCEPT ![h].count = @ + 1]
      BY <1>2, <2>1 DEF Record
    <2>3. attempt'[k] = attempt[k] \/ attempt'[k] = [attempt[k] EXCEPT !.count = attempt[k].count + 1]
      BY <1>0, <2>2
    <2>4. [attempt[k] EXCEPT !.count = attempt[k].count + 1].left = attempt[k].left
          /\ [attempt[k] EXCEPT !.count = attempt[k].count + 1].window = attempt[k].window
      BY <1>0 DEF Attempt
    <2> QED
      BY <2>3, <2>4
  <1>3. CASE Arm(c)
    <2>1. PICK h, w : h = Head(call[c].todo) /\ w = Window(call[c].seen)
      OBVIOUS
    <2>2. call[c].seen \in Nat /\ call[c].seen >= LOCK_THRESHOLD
      BY <1>0, <1>3, CallFields DEF Arm, Works, At, Shape
    <2>3. w \in Nat
      BY <2>1, <2>2, WindowFacts DEF MAX_LOCK
    <2>4. attempt' = attempt \/ attempt' = [attempt EXCEPT ![h] = [attempt[h] EXCEPT !.window = w, !.left = w]]
      BY <1>3, <2>1 DEF Arm
    <2>5. attempt'[k] = attempt[k] \/ attempt'[k] = [attempt[k] EXCEPT !.window = w, !.left = w]
      BY <1>0, <2>4
    <2>6. [attempt[k] EXCEPT !.window = w, !.left = w].left = w /\ [attempt[k] EXCEPT !.window = w, !.left = w].window = w
      BY <1>0 DEF Attempt
    <2>7. CASE attempt'[k] = attempt[k]
      BY <2>7
    <2>8. CASE attempt'[k] = [attempt[k] EXCEPT !.window = w, !.left = w]
      <3>1. attempt'[k].left = w /\ attempt'[k].window = w
        BY <2>6, <2>8, Zenon
      <3> QED
        BY <2>3, <3>1
    <2> QED
      BY <2>5, <2>7, <2>8
  <1>4. CASE Clear(c)
    <2>1. attempt'[k] = attempt[k] \/ attempt'[k] = Clean
      BY <1>0, <1>4 DEF Clear
    <2> QED
      BY <2>1 DEF Clean
  <1> QED
    BY <1>1, <1>2, <1>3, <1>4 DEF LoginStep, BeginLogin, Begin, Check, Authenticate, Decide

-----------------------------------------------------------------------------
(* The theorems                                                            *)

LoginsInv == Typed /\ Shapes /\ CodeInv /\ PassInv /\ SetupInv /\ LinkInv /\ LockInv

LEMMA InitInv == Init => LoginsInv
  <1> SUFFICES ASSUME Init PROVE LoginsInv
    OBVIOUS
  <1>1. Typed /\ Shapes
    BY InitType
  <1>2. \A c \in Calls : call[c].at = "idle" /\ call[c].op = None /\ call[c].era = 0
    BY DEF Init
  <1>i. \A ops : Busy(ops) = {}
    BY <1>2 DEF Busy
  <1>3. CodeInv
    <2>1. \A s \in Calls, n \in 1..Batch : <<s, n>> \in RecoveryCodes /\ <<s, n>> \notin codes
      BY LoginsAssumption DEF Init, RecoveryCodes, Secrets
    <2>2. \A r \in RecoveryCodes : taken[r] = 0
      BY DEF Init
    <2> QED
      BY <2>1, <2>2 DEF CodeInv
  <1>4. PassInv
    <2>1. \A n \in Assertions : signed[n] = 0
      BY DEF Init
    <2> QED
      BY <1>i, <2>1 DEF PassInv, Signing
  <1>5. SetupInv
    <2>1. PICK start \in Starts : totp = [secret |-> IF start.totp THEN Old ELSE None, active |-> start.totp]
      BY DEF Init
    <2>2. totp.active => totp.secret = Old
      BY <2>1
    <2>3. /\ codes = IF totp.active THEN {Old} \X (1..Batch) ELSE {}
          /\ proved = {Old} /\ latest = IF totp.active THEN Old ELSE None
      BY DEF Init
    <2> QED
      BY <1>i, <2>2, <2>3 DEF SetupInv, Writers
  <1>6. LinkInv
    <2>1. links = {} /\ era = 0
      BY DEF Init
    <2> QED
      BY <1>2, <2>1 DEF LinkInv
  <1>7. LockInv
    <2>1. ASSUME NEW k \in Keys
          PROVE  attempt[k].window = 0
      <3>1. PICK start \in Starts : attempt = [j \in Keys |-> [Clean EXCEPT !.count = start.count]]
        BY DEF Init
      <3> QED
        BY <3>1 DEF Clean
    <2>2. \A c \in Calls : ~At(c, "login", "check") /\ ~At(c, "login", "password") /\ ~At(c, "login", "arm")
      BY <1>2 DEF At
    <2> QED
      BY <1>i, <2>1, <2>2 DEF LockInv, StopInv, GrowInv, LoginsBusy
  <1> QED
    BY <1>1, <1>3, <1>4, <1>5, <1>6, <1>7 DEF LoginsInv

LEMMA NextInv == LoginsInv /\ [Next]_vars => LoginsInv'
  <1> SUFFICES ASSUME LoginsInv, [Next]_vars PROVE LoginsInv'
    OBVIOUS
  <1> USE DEF LoginsInv, LockInv
  <1>1. Typed' /\ Shapes' /\ CodeInv' /\ PassInv' /\ LockInv'
    BY NextType, CodeKept, PassKept, StopKept, GrowKept
  <1>2. SetupInv' /\ LinkInv'
    <2>1. CASE UNCHANGED vars
      BY <2>1, SetupApart, LinkApart DEF vars, factors
    <2>2. CASE Around
      BY <2>2, AroundType, SetupApart, LinkApart
    <2>3. ASSUME NEW c \in Calls, LoginStep(c) \/ CodeStep(c) \/ PasskeyStep(c)
          PROVE  SetupInv' /\ LinkInv'
      <3>1. /\ Alone(c) /\ UNCHANGED <<totp, codes, setup, era, links>>
            /\ call'[c].op \in {"login", "code", "passkey"} /\ call'[c].at # "idle"
            /\ call[c].at = "idle" \/ call[c].op = call'[c].op
        BY <2>3, LoginType, CodeType, PasskeyType DEF factors
      <3>2. c \notin Writers
        BY <3>1 DEF Writers, Busy
      <3> QED
        BY <3>1, <3>2, SetupApart, LinkApart DEF Alone
    <2>4. ASSUME NEW c \in Calls, SetupStep(c)
          PROVE  SetupInv' /\ LinkInv'
      <3>1. tangled' => SetupInv'
        BY DEF SetupInv
      <3> QED
        BY <2>4, <3>1, SetupKept, LinkKept
    <2>5. ASSUME NEW c \in Calls, Cut(c)
          PROVE  SetupInv' /\ LinkInv'
      <3>1. /\ Alone(c) /\ call'[c].at = "cut" /\ call'[c].op = call[c].op /\ call'[c].era = call[c].era
            /\ UNCHANGED <<totp, codes, links, era, proved, latest>>
            /\ tangled' = (tangled \/ call[c].op \in Setup)
        BY <2>5, CutType DEF Keeps, factors
      <3>2. LinkInv'
        BY <3>1, LinkApart DEF Alone
      <3>3. CASE call[c].op \in Setup
        BY <3>1, <3>2, <3>3 DEF SetupInv
      <3>4. CASE call[c].op \notin Setup
        <4>1. tangled' = tangled
          BY <3>1, <3>4 DEF Typed
        <4>2. call'[c].op \notin {"activate", "disable"} /\ c \notin Writers
          BY <3>1, <3>4 DEF Setup, Writers, Busy
        <4> QED
          BY <3>1, <3>2, <4>1, <4>2, SetupApart DEF Alone, setup
      <3> QED
        BY <3>3, <3>4
    <2> QED
      BY <2>1, <2>2, <2>3, <2>4, <2>5, NextIs
  <1> QED
    BY <1>1, <1>2

LEMMA AlwaysInv == Spec => []LoginsInv
  BY InitInv, NextInv, PTL DEF Spec

(* A recovery code is accepted once, and so is an assertion of a passkey   *)
(* while sign-ins do not overlap: consume_recovery_code is one UPDATE of   *)
(* the unspent, finish_authentication compares with the counter on record. *)
THEOREM SecondFactorOnce == Spec => []Once
  <1>1. LoginsInv => Once
    <2> SUFFICES ASSUME LoginsInv PROVE Once
      OBVIOUS
    <2>1. CodeOnce
      BY DEF LoginsInv, CodeInv, CodeOnce
    <2>2. CounterForward
      BY DEF LoginsInv, PassInv, CounterForward
    <2> QED
      BY <2>1, <2>2 DEF Once
  <1> QED
    BY <1>1, AlwaysInv, PTL

(* Setting up TOTP or a passkey leaves what the user was shown, and no     *)
(* reset link of before (totp.rs, webauthn.rs), for any number of calls.   *)
THEOREM SetupStays == Spec => []SetupSettled
  <1>1. LoginsInv => SetupSettled
    <2> SUFFICES ASSUME LoginsInv PROVE SetupSettled
      OBVIOUS
    <2>1. CodesShown
      <3>1. Busy(Setup) = {} => Writers = {}
        BY DEF Busy, Setup, Writers
      <3> QED
        BY <3>1 DEF LoginsInv, SetupInv, CodesShown
    <2>2. ActivatedProved
      BY DEF LoginsInv, SetupInv, ActivatedProved
    <2>3. NoOldLink
      BY DEF LoginsInv, LinkInv, NoOldLink
    <2> QED
      BY <2>1, <2>2, <2>3 DEF SetupSettled
  <1> QED
    BY <1>1, AlwaysInv, PTL

(* While a key is locked no password is looked at for it, but by a login   *)
(* that was under way; and from lock to lock the window only grows, up to  *)
(* MAX_LOCK_SECONDS (login_throttle.rs), for any keys and any window.      *)
THEOREM LocksHold == Spec => LockHolds
  <1>1. LoginsInv /\ [Next]_vars
            => [\A c \in Calls : At(c, "login", "password") /\ call'[c].at \in {"clear", "record"} =>
                   \A i \in 1..Len(KeysOf(call[c].ip)) :
                       attempt[KeysOf(call[c].ip)[i]].left > 0
                           => c \in before[KeysOf(call[c].ip)[i]]]_vars
    BY LockSteps DEF LoginsInv
  <1>2. LoginsInv /\ [Next]_vars
            => [\A k \in Keys \ mixed' : attempt'[k].window # 0 =>
                   attempt[k].window =< attempt'[k].window /\ attempt'[k].window =< MAX_LOCK]_vars
    BY LockSteps DEF LoginsInv
  <1>3. Spec => LockStops
    BY <1>1, AlwaysInv, PTL DEF Spec, LockStops
  <1>4. Spec => LockGrows
    BY <1>2, AlwaysInv, PTL DEF Spec, LockGrows
  <1> QED
    BY <1>3, <1>4, PTL DEF LockHolds

LEMMA TallyKept == LoginsInv /\ TallyInv /\ [Next]_vars => TallyInv'
  <1> SUFFICES ASSUME LoginsInv, TallyInv, [Next]_vars PROVE TallyInv'
    OBVIOUS
  <1> USE DEF NoHistory, factors, budget, setup, accepts
  <1>0. /\ Typed /\ Shapes /\ era \in Nat
        /\ \A k \in Keys : attempt[k] \in Attempt /\ attempt[k].count \in Nat /\ Cardinality(Through(k)) \in Nat
    <2>1. \A k \in Keys : Through(k) \in SUBSET Calls
      BY DEF Through
    <2> QED
      BY <2>1, SetsOfCalls DEF LoginsInv, Typed, Attempt
  <1>t. Typed'
    BY <1>0, NextType
  <1>n. \A k \in Keys : attempt'[k].count \in Nat
    BY <1>t DEF Typed, Attempt
  <1>1. CASE UNCHANGED vars
    BY <1>1 DEF vars, TallyInv, Tally, Through, Owes, Later, Switched
  <1>2. CASE Around
    <2>1. call' = call /\ era' = era /\ \A k \in Keys : Eased(k)
      BY <1>0, <1>2, AroundType
    <2>2. Switched' = Switched /\ \A k \in Keys : Through(k)' = Through(k)
      BY <2>1 DEF Through, Owes, Later, Switched
    <2>3. ASSUME NEW k \in Keys
          PROVE  Tally(k)'
      <3>1. Tally(k) /\ Eased(k) /\ Clean.left = 0 /\ Clean.window = 0 /\ Clean.count = 0
        BY <2>1 DEF TallyInv, Clean
      <3>2. CASE attempt'[k] = Clean
        BY <1>0, <2>2, <3>1, <3>2 DEF Tally
      <3>3. CASE /\ attempt'[k].count = attempt[k].count /\ attempt'[k].window = attempt[k].window
                 /\ attempt'[k].left =< attempt[k].left
        <4>1. attempt'[k].left \in Nat /\ attempt[k].left \in Nat /\ attempt[k].window \in Nat
          <5>1. attempt' \in [Keys -> Attempt]
            BY <1>t DEF Typed
          <5>2. attempt'[k] \in Attempt /\ attempt[k] \in Attempt
            BY <1>0, <5>1
          <5> QED
            BY <5>2 DEF Attempt, MAX_LOCK
        <4> QED
          BY <1>0, <2>2, <3>1, <3>3, <4>1 DEF Tally
      <3> QED
        BY <3>1, <3>2, <3>3 DEF Eased
    <2>4. faults' = faults /\ (ticks' = ticks \/ (ticks > 0 /\ ticks' = ticks - 1))
      BY <1>2 DEF Around, Sign, Revoke, IssueLink, Elapse, Prune
    <2>5. faults' \in 0..MaxFaults /\ ticks' \in 0..MaxTicks
      BY <2>4, LoginsAssumption DEF TallyInv
    <2> QED
      BY <2>1, <2>2, <2>3, <2>5 DEF TallyInv
  <1>3. ASSUME NEW c \in Calls, LoginStep(c)
        PROVE  TallyInv'
    <2>1. Alone(c) /\ UNCHANGED <<era, faults, ticks>>
      BY <1>0, <1>3, LoginType
    <2>2. ASSUME NEW k \in Keys
          PROVE  Tally(k)'
      <3>1. /\ Tally(k) /\ Through(k) \subseteq Through(k)' /\ attempt'[k].left =< attempt'[k].window
            /\ Record(c) /\ k = Head(call[c].todo) => c \in Through(k)' /\ c \notin Through(k)
        BY <1>0, <1>3, LoginThrough, LoginWithin DEF TallyInv, Tally
      <3>2. Through(k) \in SUBSET Calls /\ Through(k)' \in SUBSET Calls
        BY DEF Through
      <3>3. /\ Cardinality(Through(k)') \in Nat /\ Cardinality(Through(k)) =< Cardinality(Through(k)')
            /\ c \in Through(k)' /\ c \notin Through(k) => Cardinality(Through(k)) + 1 =< Cardinality(Through(k)')
        BY <3>1, <3>2, SetsOfCalls
      <3>4. \/ attempt'[k] = attempt[k] \/ attempt'[k] = Clean
            \/ Record(c) /\ k = Head(call[c].todo) /\ attempt'[k].count = attempt[k].count + 1
            \/ attempt'[k].count = attempt[k].count
        BY <1>0, <1>3, Counted
      <3>5. Clean.count = 0
        BY DEF Clean
      <3>6. attempt'[k].count =< attempt[k].count \/ attempt'[k].count = 0
            \/ (attempt'[k].count = attempt[k].count + 1 /\ c \in Through(k)' /\ c \notin Through(k))
        BY <1>0, <3>1, <3>4, <3>5
      <3>7. attempt'[k].count =< 20 + Cardinality(Through(k)')
        BY <1>0, <1>n, <3>1, <3>3, <3>6 DEF Tally
      <3> QED
        BY <3>1, <3>7 DEF Tally
    <2>3. Switched \in SUBSET Calls /\ Switched' \in SUBSET Calls /\ Switched \subseteq Switched'
      <3>1. c \in Switched'
        BY <1>0, <1>3, LoginType DEF Switched
      <3> QED
        BY <2>1, <3>1, OthersThrough DEF Switched
    <2>4. era' =< Cardinality(Switched')
      BY <1>0, <2>1, <2>3, SetsOfCalls DEF TallyInv
    <2> QED
      BY <2>1, <2>2, <2>4 DEF TallyInv
  <1>4. ASSUME NEW c \in Calls, SetupStep(c) \/ CodeStep(c) \/ PasskeyStep(c) \/ Cut(c)
        PROVE  TallyInv'
    <2>1. /\ Alone(c) /\ attempt' = attempt /\ call'[c].at # "idle"
          /\ (faults' = faults \/ (faults > 0 /\ faults' = faults - 1)) /\ ticks' = ticks
          /\ \/ call'[c].op \in {"enroll", "activate", "disable", "register", "code", "passkey"}
             \/ call'[c].at = "cut"
      <3>1. CASE SetupStep(c) \/ CodeStep(c) \/ PasskeyStep(c)
        BY <1>0, <3>1, SetupType, CodeType, PasskeyType
      <3>2. CASE Cut(c)
        <4>1. faults > 0 /\ faults' = faults - 1
          BY <3>2 DEF Cut
        <4> QED
          BY <1>0, <3>2, <4>1, CutType
      <3> QED
        BY <1>4, <3>1, <3>2
    <2>2. faults' \in 0..MaxFaults /\ ticks' \in 0..MaxTicks
      BY <2>1, LoginsAssumption DEF TallyInv
    <2>3. ASSUME NEW k \in Keys
          PROVE  Tally(k)'
      <3>1. c \in Through(k)'
        BY <2>1 DEF Through, Owes
      <3>2. Through(k) \in SUBSET Calls /\ Through(k)' \in SUBSET Calls /\ Through(k) \subseteq Through(k)'
        BY <2>1, <3>1, OthersThrough DEF Through
      <3>3. Cardinality(Through(k)') \in Nat /\ Cardinality(Through(k)) =< Cardinality(Through(k)')
        BY <3>2, SetsOfCalls
      <3>4. Tally(k)
        BY DEF TallyInv
      <3> QED
        BY <1>0, <2>1, <3>3, <3>4 DEF Tally
    <2>4. Switched \in SUBSET Calls /\ Switched' \in SUBSET Calls
      BY DEF Switched
    <2>5. era' =< Cardinality(Switched')
      <3>1. CASE SwitchOn(c) \/ Register(c)
        <4>1. era' = era + 1 /\ c \notin Switched
          BY <3>1 DEF SwitchOn, Register, Switched, At
        <4>2. call'[c].at = "active"
          BY <1>0, <3>1, SwitchFields, RegisterFields
        <4>3. c \in Switched' /\ Switched \subseteq Switched'
          BY <2>1, <4>2, OthersThrough DEF Switched
        <4>4. Cardinality(Switched) + 1 =< Cardinality(Switched')
              /\ Cardinality(Switched) \in Nat /\ Cardinality(Switched') \in Nat
          BY <2>4, <4>1, <4>3, SetsOfCalls
        <4> QED
          BY <1>0, <4>1, <4>4 DEF TallyInv
      <3>2. CASE ~(SwitchOn(c) \/ Register(c))
        <4>1. era' = era
          BY <1>0, <1>4, <3>2, CodeType, PasskeyType, CutType
             DEF SetupStep, Enroll, DropLinks, DeleteCodes, InsertCode, BeginActivate, Disable
        <4>2. c \in Switched => c \in Switched'
          <5>1. CASE call[c].at = "idle"
            BY <5>1 DEF Switched
          <5>2. CASE call[c].at # "idle" /\ SetupStep(c)
            <6>1. DropLinks(c) \/ DeleteCodes(c) \/ InsertCode(c)
              BY <3>2, <5>2 DEF SetupStep, Enroll, BeginActivate, Disable, Begin
            <6>2. CASE DropLinks(c)
              <7>1. Goto(c, "cleared") \/ Goto(c, "done")
                BY <6>2 DEF DropLinks
              <7>2. call'[c].at \in {"cleared", "done"}
                BY <1>0, <7>1, GotoFields, Places
              <7> QED
                BY <7>2 DEF Switched
            <6>3. CASE DeleteCodes(c)
              <7>1. Goto(c, "numbered") \/ Goto(c, "done")
                BY <6>3 DEF DeleteCodes
              <7>2. call'[c].at \in {"numbered", "done"}
                BY <1>0, <7>1, GotoFields, Places
              <7> QED
                BY <7>2 DEF Switched
            <6>4. CASE InsertCode(c)
              <7>1. call'[c].at \in {"numbered", "done"}
                BY <1>0, <6>4, InsertFields
              <7> QED
                BY <7>1 DEF Switched
            <6> QED
              BY <6>1, <6>2, <6>3, <6>4
          <5>3. CASE CodeStep(c) \/ PasskeyStep(c) \/ Cut(c)
            <6>1. call'[c].op \in {"code", "passkey"} \/ call'[c].at = "cut"
              BY <1>0, <5>3, CodeType, PasskeyType, CutType
            <6> QED
              BY <2>1, <6>1 DEF Switched
          <5> QED
            BY <1>4, <5>1, <5>2, <5>3
        <4>3. Switched \subseteq Switched'
          BY <2>1, <4>2, OthersThrough
        <4> QED
          BY <1>0, <2>4, <4>1, <4>3, SetsOfCalls DEF TallyInv
      <3> QED
        BY <3>1, <3>2
    <2> QED
      BY <2>2, <2>3, <2>5 DEF TallyInv
  <1> QED
    BY <1>1, <1>2, <1>3, <1>4, NextIs

LEMMA TallyInit == Init => TallyInv
  <1> SUFFICES ASSUME Init PROVE TallyInv
    OBVIOUS
  <1>1. PICK start \in Starts : attempt = [k \in Keys |-> [Clean EXCEPT !.count = start.count]]
    BY DEF Init
  <1>2. start.count \in 0..20
    BY LoginsAssumption
  <1>3. ASSUME NEW k \in Keys
        PROVE  Tally(k)
    <2>1. Through(k) \in SUBSET Calls
      BY DEF Through
    <2>2. Cardinality(Through(k)) \in Nat
      BY <2>1, SetsOfCalls
    <2>3. attempt[k] = [Clean EXCEPT !.count = start.count]
      BY <1>1
    <2>4. attempt[k].count = start.count /\ attempt[k].left = 0 /\ attempt[k].window = 0
      BY <2>3 DEF Clean
    <2> QED
      BY <1>2, <2>2, <2>4 DEF Tally
  <1>4. era =< Cardinality(Switched)
    <2>1. Switched \in SUBSET Calls
      BY DEF Switched
    <2>2. Cardinality(Switched) \in Nat
      BY <2>1, SetsOfCalls
    <2> QED
      BY <2>2 DEF Init
  <1>5. faults \in 0..MaxFaults /\ ticks \in 0..MaxTicks
    BY LoginsAssumption DEF Init
  <1> QED
    BY <1>3, <1>4, <1>5 DEF TallyInv

(* Every reachable state is well-typed, whatever the number of requests:   *)
(* no counter passes what it started from by more than the requests made   *)
(* (record_failure counts once for a key and request), no lock outlasts    *)
(* its window, and no more second factors are switched on than requests.   *)
THEOREM LoginsTypes == Spec => []TypeOK
  <1>1. LoginsInv /\ TallyInv => TypeOK
    <2> SUFFICES ASSUME LoginsInv, TallyInv PROVE TypeOK
      OBVIOUS
    <2>1. Typed
      BY DEF LoginsInv
    <2>2. ASSUME NEW k \in Keys
          PROVE  /\ attempt[k].count \in 0..(20 + Cardinality(Calls))
                 /\ attempt[k].left \in 0..attempt[k].window /\ attempt[k].window \in 0..MAX_LOCK
      <3>1. attempt[k] \in Attempt /\ Tally(k)
        BY <2>1 DEF Typed, TallyInv
      <3>2. attempt[k].count \in Nat /\ attempt[k].left \in 0..MAX_LOCK /\ attempt[k].window \in 0..MAX_LOCK
        BY <3>1 DEF Attempt
      <3>3. Through(k) \in SUBSET Calls
        BY DEF Through
      <3>4. Cardinality(Through(k)) \in Nat /\ Cardinality(Calls) \in Nat /\ Cardinality(Through(k)) =< Cardinality(Calls)
        BY <3>3, SetsOfCalls
      <3> QED
        BY <3>1, <3>2, <3>4 DEF Tally, MAX_LOCK
    <2>3. era \in 0..Cardinality(Calls)
      <3>1. Switched \in SUBSET Calls
        BY DEF Switched
      <3>2. Cardinality(Switched) \in Nat /\ Cardinality(Calls) \in Nat /\ Cardinality(Switched) =< Cardinality(Calls)
        BY <3>1, SetsOfCalls
      <3> QED
        BY <2>1, <3>2 DEF Typed, TallyInv
    <2> QED
      BY <2>1, <2>2, <2>3 DEF Typed, TallyInv, TypeOK
  <1>2. Init => TallyInv
    BY TallyInit
  <1>3. LoginsInv /\ TallyInv /\ [Next]_vars => TallyInv'
    BY TallyKept
  <1> QED
    BY <1>1, <1>2, <1>3, AlwaysInv, PTL DEF Spec

=============================================================================
