-------------------------- MODULE ReceivePackProofs --------------------------
(***************************************************************************)
(* Theorems about ReceivePack, for any number of pushes, branches and      *)
(* commits, any history, and any number of faults and vanished clients.    *)
(***************************************************************************)
EXTENDS ReceivePack, TLAPS

USE ReceivePackAssumption

-----------------------------------------------------------------------------
(* Types *)

LEMMA PackOfType ==
    ASSUME NEW c \in Calls, NEW objects \in SUBSET Tips
    PROVE  PackOf(c, objects) \in Pack
  BY DEF PackOf, Pack

LEMMA ClosureType ==
    ASSUME NEW tips \in SUBSET Value
    PROVE  Closure(tips) \in SUBSET Tips
  BY DEF Closure, Value

LEMMA CallType ==
    ASSUME TypeOK, NEW c \in Calls, NEW place \in Place, Goto(c, place)
    PROVE  call' \in [Calls -> Call]
  <1>1. call \in [Calls -> Call] /\ call[c] \in Call
    BY DEF TypeOK
  <1>2. [call[c] EXCEPT !.at = place] \in Call
    BY <1>1 DEF Call
  <1> QED
    BY <1>1, <1>2 DEF Goto

\* TypeOK needs no strengthening.
THEOREM TypeCorrect == Spec => []TypeOK
  <1>1. Init => TypeOK
    <2> SUFFICES ASSUME Init
                 PROVE  TypeOK
      OBVIOUS
    <2>1. NoWish \in Wishes
      <3>1. NoWish \in [{} -> Value]
        BY DEF NoWish
      <3>2. {} \in SUBSET Refs
        OBVIOUS
      <3> QED
        BY <3>1, <3>2 DEF Wishes
    <2>2. NoPack \in Pack
      BY DEF NoPack, Pack
    <2>3. call \in [Calls -> Call]
      BY <2>1, <2>2 DEF Init, Call, Place, Value
    <2> QED
      BY <2>3 DEF Init, TypeOK, Value
  <1>2. TypeOK /\ [Next]_vars => TypeOK'
    <2> SUFFICES ASSUME TypeOK, [Next]_vars
                 PROVE  TypeOK'
      OBVIOUS
    <2> USE DEF Place, Blocking, Over
    <2>1. ASSUME NEW c \in Calls, Advertise(c)
          PROVE  TypeOK'
      <3>1. call \in [Calls -> Call] /\ call[c] \in Call /\ refs \in [Refs -> Value]
        BY DEF TypeOK
      <3>2. [call[c] EXCEPT !.at = "advertised", !.seen = refs] \in Call
        BY <3>1 DEF Call
      <3>3. call' = [call EXCEPT ![c] = [call[c] EXCEPT !.at = "advertised", !.seen = refs]]
        BY <2>1, <3>1 DEF Advertise
      <3>4. call' \in [Calls -> Call]
        BY <3>1, <3>2, <3>3
      <3> QED
        BY <2>1, <3>4 DEF Advertise, TypeOK
    <2>2. ASSUME NEW c \in Calls, Send(c)
          PROVE  TypeOK'
      <3>1. PICK new \in Wish(call[c].seen) :
              call' = [call EXCEPT ![c].at = "waiting", ![c].new = new,
                         ![c].pack = PackOf(c, Closure(ValuesOf(new))
                                                 \ Closure(ValuesOf(call[c].seen)))]
        BY <2>2 DEF Send
      <3>2. new \in Wishes /\ ValuesOf(new) \in SUBSET Value
        BY DEF Wish, Wishes, ValuesOf
      <3> DEFINE pack == PackOf(c, Closure(ValuesOf(new)) \ Closure(ValuesOf(call[c].seen)))
      <3>3. pack \in Pack
        BY <3>2, ClosureType, PackOfType
      <3>4. call \in [Calls -> Call] /\ call[c] \in Call
        BY DEF TypeOK
      <3> HIDE DEF pack
      <3>5. [call[c] EXCEPT !.at = "waiting", !.new = new, !.pack = pack] \in Call
        BY <3>2, <3>3, <3>4 DEF Call
      <3>6. call' = [call EXCEPT ![c] = [call[c] EXCEPT !.at = "waiting", !.new = new,
                                                        !.pack = pack]]
        BY <3>1, <3>4 DEF pack
      <3>7. call' \in [Calls -> Call]
        BY <3>4, <3>5, <3>6
      <3> QED
        BY <2>2, <3>7 DEF Send, TypeOK
    <2>3. ASSUME NEW c \in Calls, AcquireLock(c)
          PROVE  TypeOK'
      BY <2>3, CallType DEF AcquireLock, TypeOK
    <2>4. ASSUME NEW c \in Calls, Section(c)
          PROVE  TypeOK'
      <3>1. CASE WritePack(c)
        BY <3>1, CallType DEF WritePack, TypeOK
      <3>2. CASE RejectEarly(c)
        BY <3>2, CallType DEF RejectEarly, Release, TypeOK
      <3>3. CASE Promote(c)
        <4>1. call[c].pack \in Pack
          BY DEF TypeOK, Call
        <4> QED
          BY <3>3, <4>1, CallType DEF Promote, InPlace, TypeOK
      <3>4. CASE LandRefs(c)
        <4>1. call[c].new \in Wishes
          BY DEF TypeOK, Call
        <4>2. Moved(c) \in [Refs -> Value]
          BY <4>1 DEF Moved, Wishes, TypeOK
        <4> QED
          BY <3>4, <4>2, CallType DEF LandRefs, TypeOK
      <3>5. CASE RejectLate(c)
        BY <3>5, CallType DEF RejectLate, RolledBack, Release, TypeOK
      <3>6. CASE RepairHead(c)
        <4>1. Repaired \in Refs
          BY DEF Repaired, TypeOK
        <4> QED
          BY <3>6, <4>1, CallType DEF RepairHead, Release, TypeOK
      <3> QED
        BY <2>4, <3>1, <3>2, <3>3, <3>4, <3>5, <3>6 DEF Section
    <2>5. ASSUME NEW c \in Calls, Leave(c)
          PROVE  TypeOK'
      BY <2>5, CallType DEF Leave, GoAway, TypeOK
    <2>6. ASSUME NEW c \in Calls, Detach(c)
          PROVE  TypeOK'
      BY <2>6 DEF Detach, GoAway, TypeOK
    <2>7. ASSUME NEW c \in Calls, PromoteFails(c)
          PROVE  TypeOK'
      <3>1. call[c].pack \in Pack
        BY DEF TypeOK, Call
      <3> QED
        BY <2>7, <3>1, CallType DEF PromoteFails, InPlace, Release, Fault, TypeOK
    <2>8. CASE Crash
      <3>1. ASSUME NEW c \in Calls, NEW place \in Place
            PROVE  [call[c] EXCEPT !.at = place] \in Call
        BY DEF TypeOK, Call
      <3>2. call' \in [Calls -> Call]
        BY <2>8, <3>1 DEF Crash, TypeOK
      <3> QED
        BY <2>8, <3>2 DEF Crash, Fault, TypeOK
    <2>9. CASE Sweep
      BY <2>9 DEF Sweep, TypeOK
    <2>10. CASE UNCHANGED vars
      BY <2>10 DEF vars, TypeOK
    <2> QED
      BY <2>1, <2>2, <2>3, <2>4, <2>5, <2>6, <2>7, <2>8, <2>9, <2>10 DEF Next
  <1> QED
    BY <1>1, <1>2, PTL DEF Spec

-----------------------------------------------------------------------------
(* What a rejected push leaves behind *)

\* The pushes whose pack may be in the store.
Holders == {c \in Calls : call[c].at \in {"promoted", "landed", "accepted"}}

\* Steps that put nothing into the store and take no push out of its place.
LEMMA NothingLeft ==
    ASSUME TypeOK, NoTrace, faults' = faults,
           packs' \subseteq packs, incoming' \subseteq incoming,
           \A c \in Calls : \/ call'[c] = call[c]
                            \/ c \notin Holders /\ c \notin incoming'
                            \/ /\ c \in Holders
                               /\ call'[c].at \in {"promoted", "landed", "accepted"}
                               /\ call'[c].pack = call[c].pack
                               /\ c \notin incoming'
    PROVE  NoTrace'
  BY DEF NoTrace, Holders, TypeOK

\* A rejected push takes its pack and its quarantine with it: NoTrace is
\* inductive, whether or not packs share names.
THEOREM RejectedLeavesNoTrace == Spec => []NoTrace
  <1>1. Init => NoTrace
    BY DEF Init, NoTrace
  <1>2. TypeOK /\ NoTrace /\ [Next]_vars => NoTrace'
    <2> SUFFICES ASSUME TypeOK, NoTrace, [Next]_vars, faults' = MaxFaults
                 PROVE  NoTrace'
      BY DEF NoTrace
    <2>0. ~Fault
      BY DEF Fault, TypeOK
    <2>a. call \in [Calls -> Call]
      BY DEF TypeOK
    <2>1. ASSUME NEW c \in Calls, Advertise(c)
          PROVE  NoTrace'
      BY <2>1, <2>a, NothingLeft DEF Advertise, NoTrace, Holders
    <2>2. ASSUME NEW c \in Calls, Send(c)
          PROVE  NoTrace'
      <3>1. \A d \in Calls : d # c => call'[d] = call[d]
        BY <2>2, <2>a DEF Send
      <3> QED
        BY <2>2, <3>1, NothingLeft DEF Send, NoTrace, Holders
    <2>3. ASSUME NEW c \in Calls, AcquireLock(c)
          PROVE  NoTrace'
      BY <2>3, <2>a, NothingLeft DEF AcquireLock, Goto, NoTrace, Holders
    <2>4. ASSUME NEW c \in Calls, WritePack(c)
          PROVE  NoTrace'
      BY <2>4, <2>a DEF WritePack, Goto, NoTrace, Call
    <2>5. ASSUME NEW c \in Calls, RejectEarly(c)
          PROVE  NoTrace'
      BY <2>5, <2>a, NothingLeft DEF RejectEarly, Goto, NoTrace, Holders
    <2>6. ASSUME NEW c \in Calls, Promote(c)
          PROVE  NoTrace'
      BY <2>6, <2>a DEF Promote, InPlace, Goto, NoTrace, Call
    <2>7. ASSUME NEW c \in Calls, LandRefs(c)
          PROVE  NoTrace'
      BY <2>7, <2>a, NothingLeft DEF LandRefs, Goto, NoTrace, Holders, Call
    <2>8. ASSUME NEW c \in Calls, RejectLate(c)
          PROVE  NoTrace'
      BY <2>8, <2>a DEF RejectLate, RolledBack, Goto, NoTrace, Call
    <2>9. ASSUME NEW c \in Calls, RepairHead(c)
          PROVE  NoTrace'
      BY <2>9, <2>a, NothingLeft DEF RepairHead, Goto, NoTrace, Holders, Call
    <2>10. ASSUME NEW c \in Calls, Leave(c)
           PROVE  NoTrace'
      BY <2>10, <2>a, NothingLeft DEF Leave, GoAway, Goto, NoTrace, Holders
    <2>11. ASSUME NEW c \in Calls, Detach(c)
           PROVE  NoTrace'
      BY <2>11, NothingLeft DEF Detach, GoAway
    <2>12. CASE Sweep
      BY <2>12, NothingLeft DEF Sweep
    <2>13. CASE UNCHANGED vars
      BY <2>13 DEF vars, NoTrace
    <2> QED
      BY <2>0, <2>1, <2>2, <2>3, <2>4, <2>5, <2>6, <2>7, <2>8, <2>9, <2>10, <2>11, <2>12,
         <2>13 DEF Next, Section, PromoteFails, Crash
  <1> QED
    BY <1>1, <1>2, TypeCorrect, PTL DEF Spec

-----------------------------------------------------------------------------
(* What the refs name is in the store *)

Landed(c) == call[c].at \in {"landed", "accepted"}
Sent(c) == call[c].at \notin {"idle", "advertised"}

\* What the pushes that landed brought with them.
Kept == UNION {call[c].pack.objects : c \in {d \in Calls : Landed(d)}}

\* Connected is not inductive: a ref may need objects its own push did not
\* bring, because the client had seen them advertised.  They were brought by
\* pushes that landed before, and those packs are never taken away.
StoreInv ==
    /\ \A c \in Calls : Landed(c) \/ call[c].at = "promoted" =>
            call[c].pack.objects = {} \/ call[c].pack \in packs
    /\ Closure(ValuesOf(refs)) \subseteq Kept
    /\ \A c \in Calls : Closure(ValuesOf(call[c].seen)) \subseteq Kept
    /\ \A c \in Calls : Sent(c) =>
            call[c].pack = PackOf(c, Closure(ValuesOf(call[c].new))
                                        \ Closure(ValuesOf(call[c].seen)))

LEMMA InClosure ==
    ASSUME NEW f, NEW o
    PROVE  o \in Closure(ValuesOf(f)) <=>
              \E r \in DOMAIN f : f[r] # None /\ o \in Needs[f[r]]
  BY DEF Closure, ValuesOf

LEMMA KeptGrows ==
    ASSUME \A c \in Calls : Landed(c) => Landed(c)' /\ call'[c].pack = call[c].pack
    PROVE  Kept \subseteq Kept'
  BY DEF Kept

\* Steps that leave the refs alone, land nothing, and take nothing away
\* from the pushes that are past promotion.
LEMMA StoreKept ==
    ASSUME StoreInv, UNCHANGED refs,
           \A c \in Calls : Landed(c) => Landed(c)' /\ call'[c].pack = call[c].pack,
           \A c \in Calls : Landed(c)' \/ call'[c].at = "promoted" =>
                call'[c].pack.objects = {} \/ call'[c].pack \in packs',
           \A c \in Calls : call'[c].seen \in {call[c].seen, refs},
           \A c \in Calls : Sent(c)' =>
                call'[c].pack = PackOf(c, Closure(ValuesOf(call'[c].new))
                                             \ Closure(ValuesOf(call'[c].seen)))
    PROVE  StoreInv'
  <1>1. Kept \subseteq Kept'
    BY KeptGrows
  <1>2. Closure(ValuesOf(refs'))  \subseteq Kept'
    BY <1>1 DEF StoreInv
  <1>3. ASSUME NEW c \in Calls
        PROVE  Closure(ValuesOf(call'[c].seen)) \subseteq Kept'
    BY <1>1, <1>3 DEF StoreInv
  <1>4. \A c \in Calls : Closure(ValuesOf(call'[c].seen)) = Closure(ValuesOf(call[c].seen))'
    BY DEF Closure, ValuesOf
  <1> QED
    BY <1>2, <1>3, <1>4 DEF StoreInv, Closure, ValuesOf

\* Moves of one push that neither land it nor take its pack away.
LEMMA StorePlace ==
    ASSUME TypeOK, StoreInv, UNCHANGED <<refs, packs>>,
           NEW c \in Calls, NEW place \in Place, Goto(c, place),
           ~Landed(c) \/ place \in {"landed", "accepted"},
           place \notin {"idle", "advertised", "promoted"},
           place \in {"landed", "accepted"} => Landed(c),
           Sent(c)
    PROVE  StoreInv'
  <1>1. /\ call \in [Calls -> Call]
        /\ \A d \in Calls : call[d] \in Call
        /\ call' = [call EXCEPT ![c].at = place]
    BY DEF Goto, TypeOK
  <1>2. \A d \in Calls : /\ call'[d].seen = call[d].seen
                         /\ call'[d].new = call[d].new
                         /\ call'[d].pack = call[d].pack
                         /\ call'[d].at = IF d = c THEN place ELSE call[d].at
    BY <1>1 DEF Call
  <1> QED
    BY <1>2, StoreKept DEF StoreInv, Landed, Sent

\* The refs a push moved need what it brought, and what had been advertised
\* to its client.
LEMMA LandingKeeps ==
    ASSUME TypeOK, StoreInv, NEW c \in Calls, LandRefs(c)
    PROVE  StoreInv'
  <1>1. /\ \A d \in Calls : /\ call'[d].seen = call[d].seen
                            /\ call'[d].new = call[d].new
                            /\ call'[d].pack = call[d].pack
                            /\ d # c => call'[d].at = call[d].at
        /\ call[c].at = "promoted" /\ call'[c].at = "landed"
        /\ packs' = packs /\ refs' = Moved(c)
    BY DEF LandRefs, Goto, TypeOK, Call
  <1>2. Kept \subseteq Kept'
    BY <1>1, KeptGrows DEF Landed
  <1>3. call[c].pack.objects \subseteq Kept'
    BY <1>1 DEF Kept, Landed
  <1>4. /\ Closure(ValuesOf(call[c].seen)) \subseteq Kept
        /\ call[c].pack.objects = Closure(ValuesOf(call[c].new))
                                     \ Closure(ValuesOf(call[c].seen))
    <2>1. Sent(c)
      BY <1>1 DEF Sent
    <2>2. call[c].pack = PackOf(c, Closure(ValuesOf(call[c].new))
                                      \ Closure(ValuesOf(call[c].seen)))
      BY <2>1 DEF StoreInv
    <2>3. ASSUME NEW objects PROVE PackOf(c, objects).objects = objects
      BY DEF PackOf
    <2>4. Closure(ValuesOf(call[c].seen)) \subseteq Kept
      BY DEF StoreInv
    <2> QED
      BY <2>2, <2>3, <2>4
  <1>5. Closure(ValuesOf(call[c].new)) \subseteq Kept'
    BY <1>2, <1>3, <1>4
  <1>6. ASSUME NEW o \in Closure(ValuesOf(refs'))
        PROVE  o \in Kept'
    <2>1. PICK r \in DOMAIN refs' : refs'[r] # None /\ o \in Needs[refs'[r]]
      BY <1>6, InClosure
    <2>2. r \in Refs
      BY <1>1, <2>1 DEF Moved
    <2>3. CASE r \in DOMAIN call[c].new
      <3>1. refs'[r] = call[c].new[r]
        BY <1>1, <2>2, <2>3 DEF Moved
      <3>2. o \in Closure(ValuesOf(call[c].new))
        BY <2>1, <2>3, <3>1, InClosure
      <3> QED
        BY <1>5, <3>2
    <2>4. CASE r \notin DOMAIN call[c].new
      <3>1. refs'[r] = refs[r] /\ r \in DOMAIN refs
        BY <1>1, <2>2, <2>4 DEF Moved, TypeOK
      <3>2. o \in Closure(ValuesOf(refs))
        BY <2>1, <3>1, InClosure
      <3> QED
        BY <1>2, <3>2 DEF StoreInv
    <2> QED
      BY <2>3, <2>4
  <1>7. \A d \in Calls : Closure(ValuesOf(call'[d].seen)) \subseteq Kept'
    BY <1>1, <1>2 DEF StoreInv
  <1>8. \A d \in Calls : Landed(d)' \/ call'[d].at = "promoted" =>
            call'[d].pack.objects = {} \/ call'[d].pack \in packs'
    BY <1>1 DEF StoreInv, Landed
  <1>9. \A d \in Calls : Sent(d)' =>
            call'[d].pack = PackOf(d, Closure(ValuesOf(call'[d].new))
                                         \ Closure(ValuesOf(call'[d].seen)))
    BY <1>1 DEF StoreInv, Sent
  <1>10. Closure(ValuesOf(refs')) \subseteq Kept'
    BY <1>6
  <1> QED
    BY <1>7, <1>8, <1>9, <1>10 DEF StoreInv, Closure, ValuesOf

LEMMA StoreStep ==
    ASSUME ~SamePacks, TypeOK, StoreInv, [Next]_vars
    PROVE  StoreInv'
  <1> USE DEF Place, Blocking, Over
  <1>0. \A c \in Calls : call[c] \in Call
    BY DEF TypeOK
  <1>1. ASSUME NEW c \in Calls, Advertise(c)
        PROVE  StoreInv'
    <2>1. /\ \A d \in Calls : d # c => call'[d] = call[d]
          /\ call[c].at = "idle" /\ call'[c].at = "advertised"
          /\ call'[c].seen = refs
      BY <1>0, <1>1 DEF Advertise, TypeOK, Call
    <2>2. UNCHANGED <<refs, packs>>
      BY <1>1 DEF Advertise
    <2>3. \A d \in Calls : Landed(d) => Landed(d)' /\ call'[d].pack = call[d].pack
      BY <2>1 DEF Landed
    <2>4. \A d \in Calls : Landed(d)' \/ call'[d].at = "promoted" =>
              call'[d].pack.objects = {} \/ call'[d].pack \in packs'
      BY <2>1, <2>2 DEF StoreInv, Landed
    <2>5. \A d \in Calls : call'[d].seen \in {call[d].seen, refs}
      BY <2>1
    <2>6. ASSUME NEW d \in Calls, Sent(d)'
          PROVE  call'[d] = call[d] /\ Sent(d)
      BY <2>1, <2>6 DEF Sent
    <2>7. \A d \in Calls : Sent(d)' =>
              call'[d].pack = PackOf(d, Closure(ValuesOf(call'[d].new))
                                           \ Closure(ValuesOf(call'[d].seen)))
      BY <2>6 DEF StoreInv
    <2> QED
      BY <2>2, <2>3, <2>4, <2>5, <2>7, StoreKept
  <1>2. ASSUME NEW c \in Calls, Send(c)
        PROVE  StoreInv'
    <2>1. /\ \A d \in Calls : d # c => call'[d] = call[d]
          /\ call[c].at = "advertised" /\ call'[c].at = "waiting"
          /\ call'[c].seen = call[c].seen
          /\ call'[c].pack = PackOf(c, Closure(ValuesOf(call'[c].new))
                                          \ Closure(ValuesOf(call'[c].seen)))
      BY <1>0, <1>2 DEF Send, TypeOK, Call
    <2> QED
      BY <1>2, <2>1, StoreKept DEF Send, StoreInv, Landed, Sent
  <1>3. ASSUME NEW c \in Calls, AcquireLock(c)
        PROVE  StoreInv'
    BY <1>3, StorePlace DEF AcquireLock, Landed, Sent
  <1>4. ASSUME NEW c \in Calls, Section(c)
        PROVE  StoreInv'
    <2>1. CASE WritePack(c)
      BY <2>1, StorePlace DEF WritePack, Landed, Sent
    <2>2. CASE RejectEarly(c)
      BY <2>2, StorePlace DEF RejectEarly, Landed, Sent
    <2>3. CASE Promote(c)
      <3>1. /\ \A d \in Calls : /\ d # c => call'[d] = call[d]
                                /\ call'[d].seen = call[d].seen
                                /\ call'[d].new = call[d].new
                                /\ call'[d].pack = call[d].pack
            /\ call[c].at = "quarantined" /\ call'[c].at = "promoted"
        BY <1>0, <2>3 DEF Promote, Goto, TypeOK, Call
      <3>2. packs \subseteq packs' /\ (call[c].pack.objects = {} \/ call[c].pack \in packs')
        BY <2>3 DEF Promote, InPlace
      <3> QED
        BY <2>3, <3>1, <3>2, StoreKept DEF Promote, StoreInv, Landed, Sent
    <2>4. CASE LandRefs(c)
      BY <2>4, LandingKeeps
    <2>5. CASE RejectLate(c)
      <3>1. /\ \A d \in Calls : /\ d # c => call'[d] = call[d]
                                /\ call'[d].seen = call[d].seen
                                /\ call'[d].new = call[d].new
                                /\ call'[d].pack = call[d].pack
            /\ call[c].at = "promoted" /\ call'[c].at = "refused"
            /\ packs' = packs \ {call[c].pack}
        BY <1>0, <2>5 DEF RejectLate, RolledBack, Goto, TypeOK, Call
      <3>2. ASSUME NEW d \in Calls, Sent(d), d # c
            PROVE  call[d].pack # call[c].pack
        <4>1. Sent(c)
          BY <3>1 DEF Sent
        <4>2. ASSUME NEW e \in Calls, Sent(e)
              PROVE  call[e].pack.by = e
          <5>1. ASSUME NEW objects PROVE PackOf(e, objects).by = e
            BY DEF PackOf
          <5> QED
            BY <4>2, <5>1 DEF StoreInv
        <4> QED
          BY <3>2, <4>1, <4>2
      <3>3. \A d \in Calls : Landed(d)' \/ call'[d].at = "promoted" =>
                call'[d].pack.objects = {} \/ call'[d].pack \in packs'
        BY <3>1, <3>2 DEF StoreInv, Landed, Sent
      <3> QED
        BY <2>5, <3>1, <3>3, StoreKept DEF RejectLate, StoreInv, Landed, Sent
    <2>6. CASE RepairHead(c)
      BY <2>6, StorePlace DEF RepairHead, Landed, Sent
    <2> QED
      BY <1>4, <2>1, <2>2, <2>3, <2>4, <2>5, <2>6 DEF Section
  <1>5. ASSUME NEW c \in Calls, Leave(c)
        PROVE  StoreInv'
    BY <1>5, StorePlace DEF Leave, Landed, Sent
  <1>6. ASSUME NEW c \in Calls, PromoteFails(c)
        PROVE  StoreInv'
    <2>1. /\ \A d \in Calls : /\ d # c => call'[d] = call[d]
                              /\ call'[d].seen = call[d].seen
                              /\ call'[d].new = call[d].new
                              /\ call'[d].pack = call[d].pack
          /\ call[c].at = "quarantined" /\ call'[c].at = "refused"
          /\ packs \subseteq packs'
      BY <1>0, <1>6 DEF PromoteFails, InPlace, Goto, TypeOK, Call
    <2> QED
      BY <1>6, <2>1, StoreKept DEF PromoteFails, StoreInv, Landed, Sent
  <1>7. CASE Crash
    <2>1. \A d \in Calls : /\ call'[d].seen = call[d].seen
                           /\ call'[d].new = call[d].new
                           /\ call'[d].pack = call[d].pack
                           /\ Landed(d)' <=> Landed(d)
                           /\ Sent(d)' <=> Sent(d)
                           /\ call'[d].at # "promoted"
      BY <1>0, <1>7 DEF Crash, Call, Landed, Sent
    <2> QED
      BY <1>7, <2>1, StoreKept DEF Crash, StoreInv
  <1>8. ASSUME UNCHANGED <<refs, packs, call>>
        PROVE  StoreInv'
    BY <1>8, StoreKept DEF StoreInv, Landed, Sent
  <1> QED
    BY <1>1, <1>2, <1>3, <1>4, <1>5, <1>6, <1>7, <1>8 DEF Next, Detach, Sweep, vars

\* While every push writes a pack file of its own name, whatever a ref names
\* is in the store with all it needs, through rejections, crashes, vanished
\* clients and sections that run side by side.
THEOREM RefsStayConnected ==
    ASSUME ~SamePacks
    PROVE  Spec => []Connected
  <1>1. Init => StoreInv
    <2> SUFFICES ASSUME Init
                 PROVE  StoreInv
      OBVIOUS
    <2>1. \A f \in [Refs -> {None}] : Closure(ValuesOf(f)) = {}
      BY InClosure
    <2> QED
      BY <2>1 DEF Init, StoreInv, Landed, Sent
  <1>2. TypeOK /\ StoreInv /\ [Next]_vars => StoreInv'
    BY StoreStep
  <1>3. StoreInv => Connected
    BY DEF StoreInv, Connected, Kept, Live, Landed
  <1> QED
    BY <1>1, <1>2, <1>3, TypeCorrect, PTL DEF Spec

-----------------------------------------------------------------------------
(* HEAD *)

\* A step keeps it that moves no ref, leaves HEAD alone, and lets no push out
\* of "landed" unless it is a fault.
LEMMA HeadKept ==
    ASSUME TypeOK, HeadBorn, UNCHANGED <<refs, head>>,
           faults' = MaxFaults => /\ faults = MaxFaults
                                  /\ \A d \in Calls : call[d].at = "landed" => call'[d].at = "landed"
    PROVE  HeadBorn'
  BY DEF HeadBorn

\* HeadBorn is inductive: a ref moves only into "landed", and the push gets out
\* of there by repairing HEAD, or by a crash.
THEOREM HeadIsBorn == Spec => []HeadBorn
  <1>1. Init => HeadBorn
    BY DEF Init, HeadBorn
  <1>2. TypeOK /\ HeadBorn /\ [Next]_vars => HeadBorn'
    <2> SUFFICES ASSUME TypeOK, HeadBorn, [Next]_vars
                 PROVE  HeadBorn'
      OBVIOUS
    <2>1. ASSUME NEW c \in Calls, LandRefs(c)
          PROVE  HeadBorn'
      <3>1. call'[c].at = "landed"
        BY <2>1 DEF LandRefs, Goto, TypeOK, Call
      <3> QED
        BY <3>1 DEF HeadBorn
    <2>2. ASSUME NEW c \in Calls, RepairHead(c)
          PROVE  HeadBorn'
      <3>1. /\ refs' = refs /\ head' = Repaired
        BY <2>2 DEF RepairHead
      <3>2. (\E r \in Refs : refs[r] # None) => refs[Repaired] # None
        BY DEF Repaired
      <3> QED
        BY <3>1, <3>2 DEF HeadBorn
    <2>3. ASSUME NEW c \in Calls, Leave(c) \/ PromoteFails(c) \/ RejectEarly(c) \/ RejectLate(c)
                                  \/ WritePack(c) \/ Promote(c) \/ AcquireLock(c)
          PROVE  HeadBorn'
      <3>1. UNCHANGED <<refs, head>> /\ (faults' = MaxFaults => faults = MaxFaults)
        BY <2>3 DEF Leave, PromoteFails, RejectEarly, RejectLate, WritePack, Promote, AcquireLock,
                    Fault, GoAway, TypeOK
      <3>2. /\ call[c].at # "landed"
            /\ \A d \in Calls : d # c => call'[d] = call[d]
        BY <2>3 DEF Leave, PromoteFails, RejectEarly, RejectLate, WritePack, Promote, AcquireLock,
                    Goto, TypeOK
      <3> QED
        BY <3>1, <3>2, HeadKept
    <2>4. ASSUME NEW c \in Calls, Advertise(c) \/ Send(c)
          PROVE  HeadBorn'
      <3>1. /\ UNCHANGED <<refs, head, faults>>
            /\ call[c].at # "landed"
            /\ \A d \in Calls : d # c => call'[d] = call[d]
        BY <2>4 DEF Advertise, Send, TypeOK
      <3> QED
        BY <3>1, HeadKept
    <2>5. ASSUME Crash
          PROVE  HeadBorn'
      BY <2>5, HeadKept DEF Crash, Fault, TypeOK
    <2>6. ASSUME Sweep \/ UNCHANGED vars \/ \E c \in Calls : Detach(c)
          PROVE  HeadBorn'
      BY <2>6, HeadKept DEF Sweep, vars, Detach, GoAway
    <2> QED
      BY <2>1, <2>2, <2>3, <2>4, <2>5, <2>6 DEF Next, Section
  <1> QED
    BY <1>1, <1>2, TypeCorrect, PTL DEF Spec

-----------------------------------------------------------------------------
(* Pushes are atomic compare-and-swaps *)

\* ReceivePack's pushes, as AtomicRefs sees them.
Wished == [c \in Calls |-> [r \in DOMAIN call[c].new |->
              [old |-> call[c].seen[r], new |-> call[c].new[r]]]]
Fates == [c \in Calls |-> Fate(c)]

\* A push that has not been sent asks for nothing.
Unasked == \A c \in Calls : ~Sent(c) => call[c].new = NoWish

LEMMA UnaskedInvariant == Spec => []Unasked
  <1>1. Init => Unasked
    BY DEF Init, Unasked
  <1>2. TypeOK /\ Unasked /\ [Next]_vars => Unasked'
    <2> SUFFICES ASSUME TypeOK, Unasked, [Next]_vars
                 PROVE  Unasked'
      OBVIOUS
    <2>1. \A c \in Calls : call[c] \in Call
      BY DEF TypeOK
    <2>2. ASSUME NEW c \in Calls
          PROVE  \/ call'[c].new = call[c].new /\ (~Sent(c)' => ~Sent(c))
                 \/ Sent(c)'
      <3> USE DEF Sent, Goto, Call
      <3>1. CASE \E d \in Calls : Advertise(d) \/ Send(d) \/ AcquireLock(d)
        <4>1. PICK d \in Calls : Advertise(d) \/ Send(d) \/ AcquireLock(d)
          BY <3>1
        <4>2. CASE c # d
          BY <2>1, <4>1, <4>2 DEF Advertise, Send, AcquireLock, TypeOK
        <4>3. CASE c = d /\ Advertise(d)
          BY <2>1, <4>3 DEF Advertise, TypeOK
        <4>4. CASE c = d /\ Send(d)
          BY <2>1, <4>4 DEF Send, TypeOK
        <4>5. CASE c = d /\ AcquireLock(d)
          BY <2>1, <4>5 DEF AcquireLock, TypeOK
        <4> QED
          BY <4>1, <4>2, <4>3, <4>4, <4>5
      <3>2. CASE \E d \in Calls : Section(d)
        BY <2>1, <3>2 DEF Section, WritePack, RejectEarly, Promote, LandRefs, RejectLate,
                          RepairHead, TypeOK
      <3>3. CASE \E d \in Calls : Leave(d) \/ Detach(d) \/ PromoteFails(d)
        BY <2>1, <3>3 DEF Leave, Detach, PromoteFails, TypeOK
      <3>4. CASE Crash
        BY <2>1, <3>4 DEF Crash
      <3>5. CASE Sweep \/ UNCHANGED vars
        BY <3>5 DEF Sweep, vars
      <3> QED
        BY <3>1, <3>2, <3>3, <3>4, <3>5 DEF Next
    <2> QED
      BY <2>2 DEF Unasked
  <1> QED
    BY <1>1, <1>2, TypeCorrect, PTL DEF Spec

\* Steps that change what nobody asked for and move nobody's fate.
LEMMA Invisible ==
    ASSUME UNCHANGED refs,
           \A c \in Calls : call'[c].new = call[c].new,
           \A c \in Calls : call'[c].seen = call[c].seen \/ call[c].new = NoWish,
           \A c \in Calls : Fate(c)' = Fate(c)
    PROVE  UNCHANGED <<refs, Wished, Fates>>
  <1>1. \A c \in Calls : [r \in DOMAIN call'[c].new |->
                             [old |-> call'[c].seen[r], new |-> call'[c].new[r]]]
                       = [r \in DOMAIN call[c].new |->
                             [old |-> call[c].seen[r], new |-> call[c].new[r]]]
    BY DEF NoWish
  <1>2. Wished' = Wished
    BY <1>1 DEF Wished
  <1>3. Fates' = Fates
    BY DEF Fates
  <1> QED
    BY <1>2, <1>3

\* What Goto changes, and what it does not.
LEMMA GotoEffect ==
    ASSUME TypeOK, NEW c \in Calls, NEW place, Goto(c, place)
    PROVE  \A d \in Calls : /\ call'[d].new = call[d].new
                            /\ call'[d].seen = call[d].seen
                            /\ call'[d].at = IF d = c THEN place ELSE call[d].at
  <1>1. /\ call \in [Calls -> Call]
        /\ \A d \in Calls : call[d] \in Call
        /\ call' = [call EXCEPT ![c].at = place]
    BY DEF Goto, TypeOK
  <1> QED
    BY <1>1 DEF Call

\* The ways out of the handler and the blocking section without success.
LEMMA Refusal ==
    ASSUME TypeOK, NEW c \in Calls, Goto(c, "refused"), UNCHANGED refs,
           call[c].at \in {"waiting", "writing", "quarantined", "promoted"}
    PROVE  AR!Refuse(c)
  <1>1. \A d \in Calls : /\ call'[d].new = call[d].new
                         /\ call'[d].seen = call[d].seen
                         /\ call'[d].at = IF d = c THEN "refused" ELSE call[d].at
    BY GotoEffect
  <1>2. Wished' = Wished
    BY <1>1 DEF Wished
  <1>3. Fate(c) = "asked"
    BY DEF Fate
  <1>4. \A d \in Calls : Fate(d)' = IF d = c THEN "refused" ELSE Fate(d)
    BY <1>1 DEF Fate
  <1>5. Fates' = [Fates EXCEPT ![c] = "refused"]
    BY <1>4 DEF Fates
  <1> QED
    BY <1>2, <1>3, <1>5 DEF AR!Refuse, Wished, Fates

\* Every step is a step of AtomicRefs or a stutter, whether or not packs
\* share names, locks are lost or the process dies.
LEMMA AtomicStep ==
    ASSUME TypeOK, Unasked, [Next]_vars
    PROVE  [AR!AtomicNext]_(AR!atomicVars)
  <1>0. \A c \in Calls : call[c] \in Call
    BY DEF TypeOK
  <1>a. UNCHANGED <<refs, Wished, Fates>> => UNCHANGED AR!atomicVars
    BY DEF AR!atomicVars, Wished, Fates
  <1>1. ASSUME NEW c \in Calls, Advertise(c)
        PROVE  UNCHANGED AR!atomicVars
    <2>1. /\ \A d \in Calls : d # c => call'[d] = call[d]
          /\ call[c].at = "idle" /\ call'[c].at = "advertised"
          /\ call'[c].new = call[c].new /\ UNCHANGED refs
      BY <1>0, <1>1 DEF Advertise, TypeOK, Call
    <2>2. call[c].new = NoWish
      BY <2>1 DEF Unasked, Sent
    <2>3. \A d \in Calls : Fate(d)' = Fate(d)
      BY <2>1 DEF Fate
    <2> QED
      BY <1>a, <2>1, <2>2, <2>3, Invisible
  <1>2. ASSUME NEW c \in Calls, Send(c)
        PROVE  AR!Ask(c)
    <2>1. PICK new \in Wish(call[c].seen) :
            /\ \A d \in Calls : d # c => call'[d] = call[d]
            /\ call[c].at = "advertised" /\ call'[c].at = "waiting"
            /\ call'[c].seen = call[c].seen /\ call'[c].new = new
            /\ UNCHANGED refs
      BY <1>0, <1>2 DEF Send, TypeOK, Call
    <2> DEFINE w == [r \in DOMAIN new |-> [old |-> call[c].seen[r], new |-> new[r]]]
    <2>2. PICK rs \in SUBSET Refs : new \in [rs -> Value]
      BY DEF Wish, Wishes
    <2>3. call[c].seen \in [Refs -> Value]
      BY <1>0 DEF Call
    <2>4. w \in [rs -> [old : Value, new : Value]]
      BY <2>2, <2>3
    <2>5. \A d \in Calls : Wished'[d] = IF d = c THEN w ELSE Wished[d]
      <3>1. Wished'[c] = w
        BY <2>1 DEF Wished
      <3>2. \A d \in Calls : d # c => Wished'[d] = Wished[d]
        BY <2>1 DEF Wished
      <3> QED
        BY <3>1, <3>2
    <2> HIDE DEF w
    <2>6. Wished' = [Wished EXCEPT ![c] = w]
      BY <2>5 DEF Wished
    <2>7. Fate(c) = "none"
      BY <2>1 DEF Fate
    <2>8. \A d \in Calls : Fate(d)' = IF d = c THEN "asked" ELSE Fate(d)
      BY <2>1 DEF Fate
    <2>9. Fates' = [Fates EXCEPT ![c] = "asked"]
      BY <2>8 DEF Fates
    <2> QED
      BY <2>1, <2>2, <2>4, <2>6, <2>7, <2>9 DEF AR!Ask, Wished, Fates, Value
  <1>3. ASSUME NEW c \in Calls, AcquireLock(c) \/ WritePack(c) \/ Promote(c) \/ RepairHead(c)
        PROVE  UNCHANGED AR!atomicVars
    <2>1. PICK place \in {"writing", "quarantined", "promoted", "accepted"} :
             /\ Goto(c, place)
             /\ Fate(c) = IF place = "accepted" THEN "landed" ELSE "asked"
             /\ UNCHANGED refs
      BY <1>3 DEF AcquireLock, WritePack, Promote, RepairHead, Fate
    <2>2. \A d \in Calls : /\ call'[d].new = call[d].new
                           /\ call'[d].seen = call[d].seen
                           /\ call'[d].at = IF d = c THEN place ELSE call[d].at
      BY <2>1, GotoEffect
    <2>3. \A d \in Calls : Fate(d)' = Fate(d)
      BY <2>1, <2>2 DEF Fate
    <2> QED
      BY <1>a, <2>1, <2>2, <2>3, Invisible
  <1>4. ASSUME NEW c \in Calls,
               RejectEarly(c) \/ RejectLate(c) \/ PromoteFails(c) \/ Leave(c)
        PROVE  AR!Refuse(c)
    BY <1>4, Refusal DEF RejectEarly, RejectLate, PromoteFails, Leave
  <1>5. ASSUME NEW c \in Calls, LandRefs(c)
        PROVE  AR!Land(c)
    <2>1. /\ Goto(c, "landed") /\ Matches(c) /\ refs' = Moved(c)
          /\ call[c].at = "promoted"
      BY <1>5 DEF LandRefs
    <2>2. \A d \in Calls : /\ call'[d].new = call[d].new
                           /\ call'[d].seen = call[d].seen
                           /\ call'[d].at = IF d = c THEN "landed" ELSE call[d].at
      BY <2>1, GotoEffect
    <2>3. Wished' = Wished
      BY <2>2 DEF Wished
    <2>4. Fate(c) = "asked"
      BY <2>1 DEF Fate
    <2>5. \A d \in Calls : Fate(d)' = IF d = c THEN "landed" ELSE Fate(d)
      BY <2>2 DEF Fate
    <2>6. Fates' = [Fates EXCEPT ![c] = "landed"]
      BY <2>5 DEF Fates
    <2>7. /\ DOMAIN Wished[c] = DOMAIN call[c].new
          /\ \A r \in DOMAIN call[c].new : /\ Wished[c][r].old = call[c].seen[r]
                                           /\ Wished[c][r].new = call[c].new[r]
      BY DEF Wished
    <2>8. \A r \in DOMAIN Wished[c] : refs[r] = Wished[c][r].old
      BY <2>1, <2>7 DEF Matches
    <2>9. refs' = [r \in Refs |-> IF r \in DOMAIN Wished[c] THEN Wished[c][r].new
                                  ELSE refs[r]]
      BY <2>1, <2>7 DEF Moved
    <2> QED
      BY <2>3, <2>4, <2>6, <2>8, <2>9 DEF AR!Land, Wished, Fates
  <1>6. CASE Crash
    <2>1. \A d \in Calls :
             /\ call'[d].new = call[d].new /\ call'[d].seen = call[d].seen
             /\ call'[d].at = IF call[d].at = "landed" THEN "accepted"
                              ELSE IF call[d].at \in Blocking \union {"waiting"}
                              THEN "refused" ELSE call[d].at
      BY <1>0, <1>6 DEF Crash, Call
    <2>2. Wished' = Wished
      BY <2>1 DEF Wished
    <2>3. \A d \in Calls : call[d].at \in Place
      BY <1>0 DEF Call
    <2>4. \A d \in Calls : Fate(d)' = IF Fate(d) = "asked" THEN "refused" ELSE Fate(d)
      BY <2>1, <2>3 DEF Fate, Place, Blocking, Over
    <2>5. Fates' = [d \in Calls |-> IF Fates[d] = "asked" THEN "refused" ELSE Fates[d]]
      BY <2>4 DEF Fates
    <2>6. UNCHANGED refs
      BY <1>6 DEF Crash
    <2>7. AR!RefuseAll
      BY <2>2, <2>5, <2>6 DEF AR!RefuseAll, Wished, Fates
    <2> QED
      BY <2>7 DEF AR!AtomicNext
  <1>7. ASSUME UNCHANGED <<refs, call>>
        PROVE  UNCHANGED AR!atomicVars
    <2>1. \A d \in Calls : Fate(d)' = Fate(d)
      BY <1>7 DEF Fate
    <2> QED
      BY <1>a, <1>7, <2>1, Invisible
  <1> QED
    BY <1>1, <1>2, <1>3, <1>4, <1>5, <1>6, <1>7
       DEF Next, Section, Detach, Sweep, vars, AR!AtomicNext

\* Every push either moves all of its refs in one step, from the values its
\* client was shown, or none of them: whatever the handlers, sections,
\* crashes and clients do.
THEOREM PushesAreAtomic == Spec => ImplementsAtomicRefs
  <1>1. Init => AR!AtomicInit
    <2> SUFFICES ASSUME Init
                 PROVE  AR!AtomicInit
      OBVIOUS
    <2>1. \A c \in Calls : call[c].new = NoWish /\ call[c].at = "idle"
      BY DEF Init
    <2>2. Wished = [c \in Calls |-> [r \in {} |-> None]]
      BY <2>1 DEF Wished, NoWish
    <2>3. Fates = [c \in Calls |-> "none"]
      BY <2>1 DEF Fates, Fate
    <2> QED
      BY <2>2, <2>3 DEF Init, AR!AtomicInit, Wished, Fates
  <1>2. TypeOK /\ Unasked /\ [Next]_vars => [AR!AtomicNext]_(AR!atomicVars)
    BY AtomicStep
  <1> QED
    BY <1>1, <1>2, TypeCorrect, UnaskedInvariant, PTL
       DEF Spec, ImplementsAtomicRefs, AR!AtomicSpec

=============================================================================
