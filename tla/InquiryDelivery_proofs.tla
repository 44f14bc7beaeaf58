----------------------- MODULE InquiryDelivery_proofs -----------------------
(***************************************************************************)
(* Proofs about InquiryDelivery, for every value of its constants: its     *)
(* type invariant, that claims are exclusive while no call outlives a      *)
(* lock, and that the dispatchers then implement the outbox.               *)
(***************************************************************************)
EXTENDS InquiryDelivery, TLAPS

-----------------------------------------------------------------------------
(* Types.                                                                  *)

LEMMA Timing ==
    /\ MaxAge \in Nat /\ StaleLock \in Nat /\ StaleLock > 0
    /\ MaxAttempts \in Nat /\ MaxAttempts > 0 /\ MaxRows \in Nat
    /\ 0 \in 0..MaxAge /\ 0 \in 0..MaxRows /\ 0 \in 0..(MaxAge + StaleLock)
    /\ \A a \in 0..MaxAge : a \in 0..(MaxAge + StaleLock)
BY TimingAssumption, LimitAssumption

LEMMA IdType == \A i \in Id : i \in 0..MaxRows
BY Timing DEF Id

LEMMA DelayType == \A n \in Nat \ {0} : Delay(n) \in Nat
<1>1. RetryDelays \in Seq(Nat) /\ RetryDelays # << >>
    BY TimingAssumption
<1>2. Len(RetryDelays) \in Nat \ {0}
    BY <1>1
<1>3. QED
    BY <1>1, <1>2 DEF Delay

LEMMA IdleType == Idle \in Call /\ Idle.pc = "idle"
BY Timing DEF Idle, Call

LEMMA CallFields ==
    ASSUME TypeOK, NEW d \in Dispatcher
    PROVE  /\ call[d] \in Call
           /\ call[d].age \in 0..MaxAge
           /\ call[d].todo \in SUBSET Id
           /\ call[d].read \in Nat
           /\ call[d].pc \in InHand => call[d].item \in Id
BY DEF TypeOK, Call

\* A step that leaves the rows alone and moves one call to a well-formed state.
LEMMA CallStep ==
    ASSUME TypeOK, NEW d \in Dispatcher, NEW c \in Call,
           call' = [call EXCEPT ![d] = c],
           c.pc \in InHand => c.item \in Id
    PROVE  /\ call' \in [Dispatcher -> Call]
           /\ \A e \in Dispatcher : call'[e].pc \in InHand => call'[e].item \in Id
BY DEF TypeOK

-----------------------------------------------------------------------------
(* Every step keeps the types.                                             *)

LEMMA TypeInit == Init => TypeOK
<1> SUFFICES ASSUME Init PROVE TypeOK
    OBVIOUS
<1>1. call \in [Dispatcher -> Call] /\ \A d \in Dispatcher : call[d].pc \notin InHand
    BY IdleType DEF Init, InHand
<1>2. QED
    BY <1>1, Timing DEF Init, TypeOK, State

LEMMA TypeEnqueue ==
    ASSUME TypeOK, NEW i \in Id, Enqueue(i)
    PROVE  TypeOK'
BY DEF TypeOK, Enqueue, State

LEMMA TypeTick ==
    ASSUME TypeOK, Tick
    PROVE  TypeOK'
<1>1. due' \in [Id -> Int] /\ held' \in [Id -> 0..(MaxAge + StaleLock)]
    <2>1. ASSUME NEW i \in Id
          PROVE  /\ (IF state[i] \in Waiting /\ due[i] > -MaxAge
                     THEN due[i] - 1 ELSE due[i]) \in Int
                 /\ (IF state[i] = "PROCESSING" /\ held[i] < MaxAge + StaleLock
                     THEN held[i] + 1 ELSE held[i]) \in 0..(MaxAge + StaleLock)
        BY <2>1, Timing DEF TypeOK
    <2>2. QED
        BY <2>1 DEF Tick
<1>2. ASSUME NEW d \in Dispatcher
      PROVE  /\ call'[d] \in Call
             /\ call'[d].pc = call[d].pc /\ call'[d].item = call[d].item
    <2>1. call'[d] = IF call[d].pc = "idle" THEN call[d]
                     ELSE [call[d] EXCEPT !.age = call[d].age + 1]
        BY DEF Tick
    <2>2. call[d] \in Call
        BY CallFields
    <2>3. call[d].pc # "idle" => call[d].age + 1 \in 0..MaxAge
        BY CallFields, Timing DEF Tick
    <2>4. QED
        BY <2>1, <2>2, <2>3 DEF Call
<1>3. call' \in [Dispatcher -> Call]
    <2>1. call' = [d \in Dispatcher |-> call'[d]]
        BY DEF Tick
    <2>2. QED
        BY <1>2, <2>1
<1>4. QED
    BY <1>1, <1>2, <1>3 DEF TypeOK, Tick

\* The steps that write no row.
LEMMA TypeCallStep ==
    ASSUME TypeOK, NEW d \in Dispatcher, NEW c \in Call, UNCHANGED rowVars,
           mails' \in [Id -> Nat], faults' \in Nat,
           call' = [call EXCEPT ![d] = c],
           c.pc \in InHand => c.item \in Id
    PROVE  TypeOK'
BY CallStep DEF TypeOK, rowVars

LEMMA TypeBegin ==
    ASSUME TypeOK, NEW d \in Dispatcher, Begin(d)
    PROVE  TypeOK'
<1>1. PICK C \in SUBSET Id :
          call' = [call EXCEPT ![d] = [Idle EXCEPT !.pc = "loop", !.todo = C]]
    BY DEF Begin
<1> DEFINE c == [Idle EXCEPT !.pc = "loop", !.todo = C]
<1>2. c \in Call /\ c.pc \notin InHand
    BY Timing DEF Idle, Call, InHand
<1>3. call' = [call EXCEPT ![d] = c]
    BY <1>1
<1> HIDE DEF c
<1>4. UNCHANGED rowVars /\ mails' \in [Id -> Nat] /\ faults' \in Nat
    BY DEF Begin, TypeOK
<1>5. QED
    BY <1>2, <1>3, <1>4, TypeCallStep

LEMMA TypeClaim ==
    ASSUME TypeOK, NEW d \in Dispatcher, NEW i \in Id, Claim(d, i)
    PROVE  TypeOK'
<1> DEFINE c == [call[d] EXCEPT !.pc = "claimed", !.item = i, !.todo = call[d].todo \ {i}]
<1>1. c \in Call /\ c.item \in Id
    BY CallFields, IdType DEF Call, InHand
<1>2. call' = [call EXCEPT ![d] = c]
    BY DEF Claim
<1> HIDE DEF c
<1>3. call' \in [Dispatcher -> Call]
      /\ \A e \in Dispatcher : call'[e].pc \in InHand => call'[e].item \in Id
    BY <1>1, <1>2, CallStep
<1>4. held' \in [Id -> 0..(MaxAge + StaleLock)] /\ state' \in [Id -> State]
    <2>1. call[d].age \in 0..(MaxAge + StaleLock)
        BY CallFields, Timing
    <2>2. QED
        BY <2>1 DEF Claim, TypeOK, State
<1>5. QED
    BY <1>3, <1>4 DEF TypeOK, Claim

LEMMA TypeSkip ==
    ASSUME TypeOK, NEW d \in Dispatcher, NEW i \in Id, Skip(d, i)
    PROVE  TypeOK'
<1> DEFINE c == [call[d] EXCEPT !.todo = call[d].todo \ {i}]
<1>1. c \in Call /\ c.pc \notin InHand
    BY CallFields DEF Call, InHand, Skip, IsNext
<1>2. call' = [call EXCEPT ![d] = c]
    BY DEF Skip
<1> HIDE DEF c
<1>3. UNCHANGED rowVars /\ mails' \in [Id -> Nat] /\ faults' \in Nat
    BY DEF Skip, TypeOK
<1>4. QED
    BY <1>1, <1>2, <1>3, TypeCallStep

LEMMA TypeRead ==
    ASSUME TypeOK, NEW d \in Dispatcher, Read(d)
    PROVE  TypeOK'
<1>1. call[d].item \in Id /\ call[d] \in Call
    BY CallFields DEF Read, InHand
<1> DEFINE c == [call[d] EXCEPT !.pc = "sending", !.read = attempts[call[d].item]]
<1>2. c \in Call /\ c.item \in Id
    <2>1. attempts[call[d].item] \in Nat
        BY <1>1 DEF TypeOK
    <2>2. QED
        BY <1>1, <2>1 DEF Call, InHand
<1>3. call' = [call EXCEPT ![d] = c]
    BY DEF Read
<1> HIDE DEF c
<1>4. UNCHANGED rowVars /\ mails' \in [Id -> Nat] /\ faults' \in Nat
    BY DEF Read, TypeOK
<1>5. QED
    BY <1>2, <1>3, <1>4, TypeCallStep

\* A step within the handling of a delivery that moves only the program counter.
LEMMA TypePcStep ==
    ASSUME TypeOK, NEW d \in Dispatcher, NEW p \in InHand, call[d].pc \in InHand,
           call' = [call EXCEPT ![d] = [call[d] EXCEPT !.pc = p]],
           UNCHANGED rowVars, mails' \in [Id -> Nat], faults' \in Nat
    PROVE  TypeOK'
<1> DEFINE c == [call[d] EXCEPT !.pc = p]
<1>1. c \in Call /\ c.item \in Id
    BY CallFields DEF Call
<1>2. call' = [call EXCEPT ![d] = c]
    OBVIOUS
<1> HIDE DEF c
<1>3. QED
    BY <1>1, <1>2, TypeCallStep

LEMMA MailType ==
    ASSUME TypeOK, NEW d \in Dispatcher, call[d].pc \in InHand,
           mails' = [mails EXCEPT ![call[d].item] = mails[call[d].item] + 1]
    PROVE  mails' \in [Id -> Nat]
BY CallFields DEF TypeOK

LEMMA TypeSend ==
    ASSUME TypeOK, NEW d \in Dispatcher,
           Accept(d) \/ Refuse(d) \/ AnswerLost(d) \/ UpdateError(d)
    PROVE  TypeOK'
<1>1. /\ call[d].pc \in InHand
      /\ UNCHANGED rowVars
      /\ \E p \in InHand : call' = [call EXCEPT ![d] = [call[d] EXCEPT !.pc = p]]
    BY DEF Accept, Refuse, AnswerLost, UpdateError, InHand
<1>2. mails' \in [Id -> Nat]
    <2>1. \/ UNCHANGED mails
          \/ mails' = [mails EXCEPT ![call[d].item] = mails[call[d].item] + 1]
        BY DEF Accept, Refuse, AnswerLost, UpdateError
    <2>2. QED
        BY <1>1, <2>1, MailType DEF TypeOK
<1>3. faults' \in Nat
    BY DEF Accept, Refuse, AnswerLost, UpdateError, TypeOK
<1>4. QED
    BY <1>1, <1>2, <1>3, TypePcStep

\* The end of the handling of one delivery.
LEMMA TypeLoopStep ==
    ASSUME TypeOK, NEW d \in Dispatcher,
           call' = [call EXCEPT ![d] = [call[d] EXCEPT !.pc = "loop", !.item = 0, !.read = 0]]
    PROVE  /\ call' \in [Dispatcher -> Call]
           /\ \A e \in Dispatcher : call'[e].pc \in InHand => call'[e].item \in Id
<1> DEFINE c == [call[d] EXCEPT !.pc = "loop", !.item = 0, !.read = 0]
<1>1. c \in Call /\ c.pc \notin InHand
    BY CallFields, Timing DEF Call, InHand
<1>2. call' = [call EXCEPT ![d] = c]
    OBVIOUS
<1> HIDE DEF c
<1>3. QED
    BY <1>1, <1>2, CallStep

LEMMA TypeDelivered ==
    ASSUME TypeOK, NEW d \in Dispatcher, Delivered(d)
    PROVE  TypeOK'
<1>1. call[d].item \in Id
    BY CallFields DEF Delivered, InHand
<1>2. /\ call' \in [Dispatcher -> Call]
      /\ \A e \in Dispatcher : call'[e].pc \in InHand => call'[e].item \in Id
    BY TypeLoopStep DEF Delivered
<1>3. QED
    BY <1>1, <1>2, Timing DEF Delivered, TypeOK, State

LEMMA TypeFailed ==
    ASSUME TypeOK, NEW d \in Dispatcher, Failed(d)
    PROVE  TypeOK'
<1> DEFINE i == call[d].item
           n == call[d].read + 1
           dead == n >= MaxAttempts
           later == IF dead THEN due[i] ELSE Delay(n) - call[d].age
           next == IF dead THEN "DEAD_LETTER" ELSE "RETRY"
<1>1. i \in Id /\ n \in Nat \ {0} /\ call[d].age \in Int
    BY CallFields DEF Failed, InHand
<1>2. later \in Int
    BY <1>1, DelayType DEF TypeOK
<1>3. next \in State
    BY DEF State
<1>4. /\ call' \in [Dispatcher -> Call]
      /\ \A e \in Dispatcher : call'[e].pc \in InHand => call'[e].item \in Id
    BY TypeLoopStep DEF Failed
<1>5. /\ attempts' = [attempts EXCEPT ![i] = n]
      /\ state' = [state EXCEPT ![i] = next]
      /\ due' = [due EXCEPT ![i] = later]
      /\ held' = [held EXCEPT ![i] = 0]
      /\ UNCHANGED <<mails, faults>>
    BY DEF Failed
<1> HIDE DEF later, next, n, i
<1>6. QED
    BY <1>1, <1>2, <1>3, <1>4, <1>5, Timing DEF TypeOK

LEMMA TypeStop ==
    ASSUME TypeOK, NEW d \in Dispatcher, End(d) \/ Abort(d)
    PROVE  TypeOK'
<1>1. /\ call' = [call EXCEPT ![d] = Idle] /\ UNCHANGED rowVars
      /\ mails' \in [Id -> Nat] /\ faults' \in Nat
    BY DEF End, Abort, TypeOK
<1>2. Idle \in Call /\ Idle.pc \notin InHand
    BY IdleType DEF InHand
<1>3. QED
    BY <1>1, <1>2, TypeCallStep

LEMMA TypeNext == TypeOK /\ [Next]_vars => TypeOK'
<1> SUFFICES ASSUME TypeOK, [Next]_vars PROVE TypeOK'
    OBVIOUS
<1>1. ASSUME NEW i \in Id, Enqueue(i) PROVE TypeOK'
    BY <1>1, TypeEnqueue
<1>2. CASE Tick
    BY <1>2, TypeTick
<1>3. ASSUME NEW d \in Dispatcher, Begin(d) PROVE TypeOK'
    BY <1>3, TypeBegin
<1>4. ASSUME NEW d \in Dispatcher, Step(d) PROVE TypeOK'
    BY <1>4, TypeClaim, TypeSkip, TypeRead, TypeSend, TypeDelivered, TypeFailed,
       TypeStop DEF Step
<1>5. ASSUME NEW d \in Dispatcher, AnswerLost(d) \/ UpdateError(d) PROVE TypeOK'
    BY <1>5, TypeSend
<1>6. ASSUME NEW d \in Dispatcher, Abort(d) PROVE TypeOK'
    BY <1>6, TypeStop
<1>7. CASE UNCHANGED vars
    BY <1>7 DEF vars, TypeOK
<1>8. QED
    BY <1>1, <1>2, <1>3, <1>4, <1>5, <1>6, <1>7 DEF Next

\* Rows, locks, timers and calls keep their types, however long calls last.
THEOREM TypeCorrect == Spec => []TypeOK
BY TypeInit, TypeNext, PTL DEF Spec

-----------------------------------------------------------------------------
(* Claims, locks and mails.                                                *)

\* What a step of d leaves alone of the other calls.
LEMMA Others ==
    ASSUME TypeOK, NEW d \in Dispatcher, NEW c, call' = [call EXCEPT ![d] = c]
    PROVE  /\ call'[d] = c
           /\ \A e \in Dispatcher \ {d} : call'[e] = call[e]
           /\ \A e \in Dispatcher \ {d}, i \in Id : Holds(e, i)' <=> Holds(e, i)
<1>1. call'[d] = c /\ \A e \in Dispatcher \ {d} : call'[e] = call[e]
    BY DEF TypeOK
<1>2. QED
    BY <1>1 DEF Holds

LEMMA InvInit == Init => IInv
<1> SUFFICES ASSUME Init PROVE IInv
    OBVIOUS
<1>1. \A d \in Dispatcher, i \in Id : ~Holds(d, i)
    BY DEF Init, Idle, Holds, InHand
<1>2. ClaimsExclusive /\ HoldInv
    BY <1>1 DEF ClaimsExclusive, HoldInv
<1>3. RowInv
    BY Timing DEF Init, RowInv, DeliveredIsMailed
<1>4. MailInv
    BY DEF Init, MailInv
<1>5. QED
    BY <1>2, <1>3, <1>4, TypeInit DEF IInv

LEMMA InvEnqueue ==
    ASSUME IInv, NEW i \in Id, Enqueue(i)
    PROVE  IInv'
<1> USE DEF IInv
<1>1. /\ state[i] = "NONE"
      /\ state' = [state EXCEPT ![i] = "PENDING"]
      /\ UNCHANGED <<attempts, due, held, call, mails, faults>>
    BY DEF Enqueue
<1>2. state'[i] = "PENDING" /\ \A j \in Id : j # i => state'[j] = state[j]
    BY <1>1 DEF TypeOK
<1>3. \A d \in Dispatcher, j \in Id : (Holds(d, j)' <=> Holds(d, j)) /\ (Holds(d, j) => j # i)
    BY <1>1 DEF Holds, HoldInv
<1>4. ClaimsExclusive'
    BY <1>3 DEF ClaimsExclusive
<1>5. HoldInv'
    BY <1>1, <1>2, <1>3 DEF HoldInv
<1>6. RowInv'
    BY <1>1, <1>2 DEF RowInv, DeliveredIsMailed, Final
<1>7. \A j \in Id : Owed(j)' <=> Owed(j)
    BY <1>1, <1>2, <1>3 DEF Owed
<1>8. MailInv'
    BY <1>1, <1>7 DEF MailInv
<1>9. QED
    BY <1>4, <1>5, <1>6, <1>8, TypeEnqueue

LEMMA InvTick ==
    ASSUME IInv, Tick, MaxAge < StaleLock
    PROVE  IInv'
<1> USE DEF IInv
<1>1. UNCHANGED <<state, attempts, mails, faults>>
    BY DEF Tick
<1>2. ASSUME NEW d \in Dispatcher
      PROVE  /\ call'[d].pc = call[d].pc /\ call'[d].item = call[d].item
             /\ call'[d].read = call[d].read
             /\ call[d].pc # "idle" => call'[d].age = call[d].age + 1 /\ call[d].age < MaxAge
    <2>1. call'[d] = IF call[d].pc = "idle" THEN call[d]
                     ELSE [call[d] EXCEPT !.age = call[d].age + 1]
        BY DEF Tick
    <2>2. call[d] \in Call
        BY CallFields
    <2>3. call[d].pc # "idle" => call[d].age < MaxAge
        BY DEF Tick
    <2>4. QED
        BY <2>1, <2>2, <2>3 DEF Call
<1>3. \A d \in Dispatcher, i \in Id : Holds(d, i)' <=> Holds(d, i)
    BY <1>2 DEF Holds
<1>4. ClaimsExclusive'
    BY <1>3 DEF ClaimsExclusive
<1>5. HoldInv'
    <2>1. ASSUME NEW d \in Dispatcher, NEW i \in Id, Holds(d, i)'
          PROVE  held'[i] = call'[d].age
        <3>1. state[i] = "PROCESSING" /\ held[i] = call[d].age /\ call[d].pc # "idle"
            BY <1>3, <2>1 DEF HoldInv, Holds, InHand
        <3>2. held[i] < MaxAge + StaleLock
            BY <1>2, <3>1, Timing, CallFields
        <3>3. held'[i] = held[i] + 1
            BY <3>1, <3>2 DEF Tick
        <3>4. QED
            BY <1>2, <3>1, <3>3
    <2>2. QED
        BY <1>1, <1>2, <1>3, <2>1 DEF HoldInv
<1>6. RowInv'
    BY <1>1 DEF RowInv, DeliveredIsMailed
<1>7. \A i \in Id : Owed(i)' <=> Owed(i)
    BY <1>1, <1>2, <1>3 DEF Owed
<1>8. MailInv'
    BY <1>1, <1>7 DEF MailInv
<1>9. QED
    BY <1>4, <1>5, <1>6, <1>8, TypeTick

\* A call that takes nothing in hand, or lets go of what it had without a mail.
LEMMA InvLetGo ==
    ASSUME IInv, TypeOK', NEW d \in Dispatcher, NEW c, c.pc \notin InHand,
           call' = [call EXCEPT ![d] = c], UNCHANGED rowVars, UNCHANGED mails,
           \/ UNCHANGED faults /\ call[d].pc # "accepted"
           \/ faults' = faults + 1
    PROVE  IInv'
<1> USE DEF IInv
<1>1. \A e \in Dispatcher \ {d} : call'[e] = call[e]
    BY Others
<1>2. \A e \in Dispatcher, i \in Id :
          Holds(e, i)' => e # d /\ Holds(e, i)
    <2>1. call'[d].pc \notin InHand
        BY Others
    <2>2. QED
        BY <2>1, <1>1 DEF Holds
<1>3. ClaimsExclusive'
    BY <1>2 DEF ClaimsExclusive
<1>4. HoldInv'
    BY <1>1, <1>2 DEF HoldInv, rowVars
<1>5. RowInv'
    BY DEF RowInv, DeliveredIsMailed, rowVars
<1>6. MailInv'
    <2>1. CASE UNCHANGED faults /\ call[d].pc # "accepted"
        <3>1. ASSUME NEW i \in Id, Owed(i) PROVE Owed(i)'
            <4>1. CASE state[i] = "DELIVERED"
                BY <4>1 DEF Owed, rowVars
            <4>2. ASSUME NEW e \in Dispatcher, Holds(e, i), call[e].pc = "accepted"
                  PROVE  Owed(i)'
                <5>1. e # d
                    BY <2>1, <4>2
                <5>2. Holds(e, i)' /\ call'[e].pc = "accepted"
                    BY <1>1, <4>2, <5>1 DEF Holds
                <5>3. QED
                    BY <5>2 DEF Owed
            <4>3. QED
                BY <3>1, <4>1, <4>2 DEF Owed
        <3>2. QED
            BY <2>1, <3>1 DEF MailInv
    <2>2. CASE faults' = faults + 1
        BY <2>2 DEF MailInv, TypeOK
    <2>3. QED
        BY <2>1, <2>2
<1>7. QED
    BY <1>3, <1>4, <1>5, <1>6

LEMMA InvIdleSteps ==
    ASSUME IInv, NEW d \in Dispatcher,
           Begin(d) \/ (\E i \in Id : Skip(d, i)) \/ End(d) \/ Abort(d)
    PROVE  IInv'
<1>1. TypeOK'
    BY TypeBegin, TypeSkip, TypeStop DEF IInv
<1>2. CASE Begin(d)
    <2>1. PICK C \in SUBSET Id :
              call' = [call EXCEPT ![d] = [Idle EXCEPT !.pc = "loop", !.todo = C]]
        BY <1>2 DEF Begin
    <2> DEFINE c == [Idle EXCEPT !.pc = "loop", !.todo = C]
    <2>2. c.pc \notin InHand /\ call' = [call EXCEPT ![d] = c]
        BY <2>1 DEF Idle, InHand
    <2>3. call[d].pc # "accepted" /\ UNCHANGED <<rowVars, mails, faults>>
        BY <1>2 DEF Begin
    <2> HIDE DEF c
    <2>4. QED
        BY <1>1, <2>2, <2>3, InvLetGo
<1>3. ASSUME NEW i \in Id, Skip(d, i) PROVE IInv'
    <2> DEFINE c == [call[d] EXCEPT !.todo = call[d].todo \ {i}]
    <2>1. c.pc \notin InHand /\ call' = [call EXCEPT ![d] = c]
        BY <1>3, CallFields DEF Skip, IsNext, InHand, Call, IInv
    <2>2. call[d].pc # "accepted" /\ UNCHANGED <<rowVars, mails, faults>>
        BY <1>3 DEF Skip, IsNext
    <2> HIDE DEF c
    <2>3. QED
        BY <1>1, <2>1, <2>2, InvLetGo
<1>4. CASE End(d)
    BY <1>1, <1>4, InvLetGo, IdleType DEF End, InHand
<1>5. CASE Abort(d)
    BY <1>1, <1>5, InvLetGo, IdleType DEF Abort, InHand
<1>6. QED
    BY <1>2, <1>3, <1>4, <1>5

\* The heart of exclusiveness: a claim finds nobody at work on the row.
LEMMA InvClaim ==
    ASSUME IInv, MaxAge < StaleLock, NEW d \in Dispatcher, NEW i \in Id, Claim(d, i)
    PROVE  IInv'
<1> USE DEF IInv
<1> DEFINE c == [call[d] EXCEPT !.pc = "claimed", !.item = i, !.todo = call[d].todo \ {i}]
<1>1. /\ call' = [call EXCEPT ![d] = c]
      /\ state' = [state EXCEPT ![i] = "PROCESSING"]
      /\ held' = [held EXCEPT ![i] = call[d].age]
      /\ UNCHANGED <<attempts, due, mails, faults>>
    BY DEF Claim
<1>2. c.pc = "claimed" /\ c.item = i /\ c.age = call[d].age
    BY CallFields DEF Call
<1> HIDE DEF c
<1>3. /\ call'[d] = c
      /\ \A e \in Dispatcher \ {d} : call'[e] = call[e]
      /\ \A e \in Dispatcher \ {d}, j \in Id : Holds(e, j)' <=> Holds(e, j)
    BY <1>1, Others
<1>4. \A j \in Id : Holds(d, j)' => j = i
    BY <1>2, <1>3 DEF Holds
<1>5. \A e \in Dispatcher : ~Holds(e, i)
    <2>1. SUFFICES ASSUME NEW e \in Dispatcher, Holds(e, i) PROVE FALSE
        OBVIOUS
    <2>2. state[i] = "PROCESSING" /\ held[i] = call[e].age
        BY <2>1 DEF HoldInv
    <2>3. held[i] >= call[d].age + StaleLock
        BY <2>2 DEF Claim, Claimable, Waiting
    <2>4. QED
        BY <2>2, <2>3, Timing, CallFields
<1>6. /\ state'[i] = "PROCESSING" /\ held'[i] = call[d].age
      /\ \A j \in Id \ {i} : state'[j] = state[j] /\ held'[j] = held[j]
    BY <1>1 DEF TypeOK
<1>7. state[i] \in Waiting \cup {"PROCESSING"}
    BY DEF Claim, Claimable
<1>8. ClaimsExclusive'
    BY <1>3, <1>4, <1>5 DEF ClaimsExclusive
<1>9. HoldInv'
    <2>1. ASSUME NEW e \in Dispatcher, NEW j \in Id, Holds(e, j)', e = d
          PROVE  /\ state'[j] = "PROCESSING" /\ held'[j] = call'[e].age
                 /\ call'[e].pc = "claimed"
        BY <1>2, <1>3, <1>4, <1>6, <2>1
    <2>2. ASSUME NEW e \in Dispatcher, NEW j \in Id, Holds(e, j)', e # d
          PROVE  Holds(e, j) /\ j # i /\ call'[e] = call[e]
        BY <1>3, <1>5, <2>2
    <2>3. QED
        BY <1>1, <1>6, <2>1, <2>2 DEF HoldInv
<1>10. RowInv'
    BY <1>1, <1>6, <1>7 DEF RowInv, DeliveredIsMailed, Final, Waiting
<1>11. MailInv'
    <2>1. ~Owed(i)
        BY <1>5, <1>7 DEF Owed, Waiting
    <2>2. ASSUME NEW j \in Id, j # i, Owed(j) PROVE Owed(j)'
        <3>1. CASE state[j] = "DELIVERED"
            BY <1>6, <2>2, <3>1 DEF Owed
        <3>2. ASSUME NEW e \in Dispatcher, Holds(e, j), call[e].pc = "accepted"
              PROVE  Owed(j)'
            <4>1. e # d
                BY <3>2 DEF Claim, IsNext
            <4>2. QED
                BY <1>3, <3>2, <4>1 DEF Owed
        <3>3. QED
            BY <2>2, <3>1, <3>2 DEF Owed
    <2>3. QED
        BY <1>1, <2>1, <2>2 DEF MailInv
<1>12. QED
    BY <1>8, <1>9, <1>10, <1>11, TypeClaim

\* A step of the call that holds i, whose new state still holds it and whose row
\* is not written.
LEMMA HoldStep ==
    ASSUME IInv, NEW d \in Dispatcher, NEW i \in Id, Holds(d, i),
           NEW c \in Call, c.pc \in InHand, c.item = i, c.age = call[d].age,
           c.pc # "claimed" => c.read = attempts[i],
           call' = [call EXCEPT ![d] = c], UNCHANGED rowVars,
           \/ UNCHANGED mails /\ c.pc # "accepted"
           \/ mails' = [mails EXCEPT ![i] = mails[i] + 1]
    PROVE  ClaimsExclusive' /\ HoldInv' /\ RowInv'
<1> USE DEF IInv
<1>1. /\ call'[d] = c
      /\ \A e \in Dispatcher \ {d} : call'[e] = call[e]
      /\ \A e \in Dispatcher \ {d}, j \in Id : Holds(e, j)' <=> Holds(e, j)
    BY Others
<1>2. \A j \in Id : Holds(d, j)' <=> Holds(d, j)
    BY <1>1 DEF Holds
<1>3. ClaimsExclusive'
    BY <1>1, <1>2 DEF ClaimsExclusive
<1>4. \A j \in Id : mails[j] > 0 => mails'[j] > 0
    BY DEF TypeOK
<1>5. c.pc = "accepted" => mails'[i] > 0
    BY DEF TypeOK
<1>6. HoldInv'
    <2>1. ASSUME NEW e \in Dispatcher, NEW j \in Id, Holds(e, j)', e = d
          PROVE  /\ state'[j] = "PROCESSING" /\ held'[j] = call'[e].age
                 /\ call'[e].pc # "claimed" => call'[e].read = attempts'[j]
                 /\ call'[e].pc = "accepted" => mails'[j] > 0
        <3>1. j = i
            BY <1>2, <2>1 DEF Holds
        <3>2. state[i] = "PROCESSING" /\ held[i] = call[d].age
            BY DEF HoldInv
        <3>3. QED
            BY <1>1, <1>5, <2>1, <3>1, <3>2 DEF rowVars
    <2>2. ASSUME NEW e \in Dispatcher, NEW j \in Id, Holds(e, j)', e # d
          PROVE  /\ state'[j] = "PROCESSING" /\ held'[j] = call'[e].age
                 /\ call'[e].pc # "claimed" => call'[e].read = attempts'[j]
                 /\ call'[e].pc = "accepted" => mails'[j] > 0
        <3>1. Holds(e, j) /\ call'[e] = call[e]
            BY <1>1, <2>2
        <3>2. QED
            BY <1>4, <3>1 DEF HoldInv, rowVars
    <2>3. QED
        BY <2>1, <2>2 DEF HoldInv
<1>7. RowInv'
    BY <1>4 DEF RowInv, DeliveredIsMailed, rowVars
<1>8. QED
    BY <1>3, <1>6, <1>7

\* Whoever else a mail is owed by keeps owing it.
LEMMA OwedStep ==
    ASSUME IInv, NEW d \in Dispatcher, NEW i \in Id, Holds(d, i),
           NEW c, call' = [call EXCEPT ![d] = c],
           \A j \in Id \ {i} : state'[j] = state[j]
    PROVE  \A j \in Id \ {i} : Owed(j) => Owed(j)'
<1> USE DEF IInv
<1>1. /\ \A e \in Dispatcher \ {d} : call'[e] = call[e]
      /\ \A e \in Dispatcher \ {d}, j \in Id : Holds(e, j)' <=> Holds(e, j)
    BY Others
<1>2. SUFFICES ASSUME NEW j \in Id \ {i}, Owed(j) PROVE Owed(j)'
    OBVIOUS
<1>3. CASE state[j] = "DELIVERED"
    BY <1>3 DEF Owed
<1>4. ASSUME NEW e \in Dispatcher, Holds(e, j), call[e].pc = "accepted"
      PROVE  Owed(j)'
    <2>1. e # d
        BY <1>4 DEF Holds
    <2>2. QED
        BY <1>1, <1>4, <2>1 DEF Owed
<1>5. QED
    BY <1>2, <1>3, <1>4 DEF Owed

LEMMA InvRead ==
    ASSUME IInv, NEW d \in Dispatcher, Read(d)
    PROVE  IInv'
<1> USE DEF IInv
<1> DEFINE i == call[d].item
           c == [call[d] EXCEPT !.pc = "sending", !.read = attempts[i]]
<1>1. i \in Id /\ Holds(d, i)
    BY CallFields DEF Read, InHand, Holds
<1>2. c \in Call /\ c.pc = "sending" /\ c.item = i /\ c.age = call[d].age /\ c.read = attempts[i]
    <2>1. attempts[i] \in Nat
        BY <1>1 DEF TypeOK
    <2>2. QED
        BY <2>1, CallFields DEF Call, InHand
<1>3. call' = [call EXCEPT ![d] = c] /\ UNCHANGED <<rowVars, mails, faults>>
    BY DEF Read
<1> HIDE DEF i, c
<1>4. ClaimsExclusive' /\ HoldInv' /\ RowInv'
    BY <1>1, <1>2, <1>3, HoldStep DEF InHand
<1>5. \A j \in Id \ {i} : Owed(j) => Owed(j)'
    BY <1>1, <1>3, OwedStep DEF rowVars
<1>6. ~Owed(i)
    <2>1. call[d].pc = "claimed" /\ state[i] = "PROCESSING"
        BY <1>1 DEF Read, HoldInv
    <2>2. QED
        BY <1>1, <2>1 DEF Owed, ClaimsExclusive
<1>7. MailInv'
    BY <1>3, <1>5, <1>6 DEF MailInv
<1>8. QED
    BY <1>4, <1>7, TypeRead

LEMMA InvSend ==
    ASSUME IInv, NEW d \in Dispatcher,
           Accept(d) \/ Refuse(d) \/ AnswerLost(d) \/ UpdateError(d)
    PROVE  IInv'
<1> USE DEF IInv
<1>1. PICK i \in Id : i = call[d].item /\ Holds(d, i)
    BY CallFields DEF Accept, Refuse, AnswerLost, UpdateError, InHand, Holds
<1>2. PICK p \in {"accepted", "failed"} :
         /\ call' = [call EXCEPT ![d] = [call[d] EXCEPT !.pc = p]]
         /\ UNCHANGED rowVars
         /\ \/ /\ p = "failed" /\ UNCHANGED <<mails, faults>> /\ call[d].pc = "sending"
            \/ /\ p = "failed" /\ UNCHANGED mails /\ faults' = faults + 1
            \/ /\ mails' = [mails EXCEPT ![i] = mails[i] + 1]
               /\ call[d].pc = "sending"
               /\ p = "accepted" /\ UNCHANGED faults
            \/ /\ mails' = [mails EXCEPT ![i] = mails[i] + 1]
               /\ call[d].pc = "sending"
               /\ p = "failed" /\ faults' = faults + 1
    BY <1>1 DEF Accept, Refuse, AnswerLost, UpdateError
<1> DEFINE c == [call[d] EXCEPT !.pc = p]
<1>3. c \in Call /\ c.pc = p /\ c.item = i /\ c.age = call[d].age /\ c.read = call[d].read
    BY <1>1, CallFields DEF Call, InHand
<1>4. call' = [call EXCEPT ![d] = c]
    BY <1>2
<1>5. call[d].pc # "claimed"
    BY DEF Accept, Refuse, AnswerLost, UpdateError
<1> HIDE DEF c
<1>6. c.read = attempts[i]
    BY <1>1, <1>3, <1>5 DEF HoldInv
<1>7. ClaimsExclusive' /\ HoldInv' /\ RowInv'
    <2>1. c.pc \in InHand
        BY <1>3 DEF InHand
    <2>2. \/ UNCHANGED mails /\ c.pc # "accepted"
          \/ mails' = [mails EXCEPT ![i] = mails[i] + 1]
        BY <1>2, <1>3
    <2>3. UNCHANGED rowVars
        BY <1>2
    <2>4. QED
        BY <1>1, <1>3, <1>4, <1>6, <2>1, <2>2, <2>3, HoldStep
<1>8. \A j \in Id \ {i} : Owed(j) => Owed(j)'
    BY <1>1, <1>2, <1>4, OwedStep DEF rowVars
<1>9. call[d].pc = "sending" => ~Owed(i)
    <2>1. state[i] = "PROCESSING"
        BY <1>1 DEF HoldInv
    <2>2. QED
        BY <1>1, <2>1 DEF Owed, ClaimsExclusive
<1>10. p = "accepted" => Owed(i)'
    <2>1. call'[d].pc = p /\ call'[d].item = i
        BY <1>3, <1>4, Others
    <2>2. p = "accepted" => Holds(d, i)' /\ call'[d].pc = "accepted"
        BY <2>1 DEF Holds, InHand
    <2>3. QED
        BY <2>2 DEF Owed
<1>11. MailInv'
    <2>1. \A j \in Id : mails[j] \in Nat
        BY DEF TypeOK
    <2>2. ASSUME NEW j \in Id \ {i}
          PROVE  mails'[j] <= 1 + faults' /\ (~Owed(j)' => mails'[j] <= faults')
        <3>1. mails'[j] = mails[j]
            BY <1>2, <2>2 DEF TypeOK
        <3>2. faults' = faults \/ faults' = faults + 1
            BY <1>2
        <3>3. mails[j] <= 1 + faults /\ (~Owed(j) => mails[j] <= faults)
            BY DEF MailInv
        <3>4. ~Owed(j)' => ~Owed(j)
            BY <1>8
        <3>5. faults \in Nat
            BY DEF TypeOK
        <3>6. QED
            BY <2>1, <3>1, <3>2, <3>3, <3>4, <3>5
    <2>3. mails'[i] <= 1 + faults' /\ (~Owed(i)' => mails'[i] <= faults')
        <3>1. mails[i] <= 1 + faults /\ (~Owed(i) => mails[i] <= faults)
            BY <1>1 DEF MailInv
        <3>2. mails'[i] = mails[i] \/ mails'[i] = mails[i] + 1
            BY <1>1, <1>2 DEF TypeOK
        <3>3. faults \in Nat /\ mails[i] \in Nat
            BY <1>1 DEF TypeOK
        <3>4. mails' = [mails EXCEPT ![i] = mails[i] + 1] => mails'[i] = mails[i] + 1
            BY <1>1 DEF TypeOK
        <3>5. CASE p = "failed" /\ UNCHANGED <<mails, faults>> /\ call[d].pc = "sending"
            BY <1>9, <3>1, <3>3, <3>5
        <3>6. CASE p = "failed" /\ UNCHANGED mails /\ faults' = faults + 1
            BY <3>1, <3>3, <3>6
        <3>7. CASE /\ mails' = [mails EXCEPT ![i] = mails[i] + 1]
                   /\ call[d].pc = "sending" /\ p = "accepted" /\ UNCHANGED faults
            BY <1>9, <1>10, <3>1, <3>3, <3>4, <3>7
        <3>8. CASE /\ mails' = [mails EXCEPT ![i] = mails[i] + 1]
                   /\ call[d].pc = "sending" /\ p = "failed" /\ faults' = faults + 1
            BY <1>9, <3>1, <3>3, <3>4, <3>8
        <3>9. QED
            BY <1>2, <3>5, <3>6, <3>7, <3>8
    <2>4. \A j \in Id : j = i \/ j \in Id \ {i}
        OBVIOUS
    <2>5. QED
        BY <2>2, <2>3, <2>4 DEF MailInv
<1>12. QED
    BY <1>7, <1>11, TypeSend

\* The call that holds i writes its row and lets go of it: no other call holds i.
LEMMA FinishStep ==
    ASSUME IInv, NEW d \in Dispatcher, NEW i \in Id, Holds(d, i), NEW c, c.pc = "loop",
           call' = [call EXCEPT ![d] = c], UNCHANGED mails,
           \A j \in Id \ {i} : /\ state'[j] = state[j] /\ held'[j] = held[j]
                               /\ attempts'[j] = attempts[j]
    PROVE  ClaimsExclusive' /\ HoldInv'
<1> USE DEF IInv
<1>1. /\ call'[d] = c
      /\ \A e \in Dispatcher \ {d} : call'[e] = call[e]
      /\ \A e \in Dispatcher \ {d}, j \in Id : Holds(e, j)' <=> Holds(e, j)
    BY Others
<1>2. ASSUME NEW e \in Dispatcher, NEW j \in Id, Holds(e, j)'
      PROVE  e # d /\ Holds(e, j) /\ j # i
    <2>1. e # d
        BY <1>1, <1>2 DEF Holds, InHand
    <2>2. Holds(e, j)
        BY <1>1, <1>2, <2>1
    <2>3. QED
        BY <2>1, <2>2 DEF ClaimsExclusive
<1>3. ClaimsExclusive'
    BY <1>2 DEF ClaimsExclusive
<1>4. HoldInv'
    BY <1>1, <1>2 DEF HoldInv
<1>5. QED
    BY <1>3, <1>4

LEMMA InvDelivered ==
    ASSUME IInv, NEW d \in Dispatcher, Delivered(d)
    PROVE  IInv'
<1> USE DEF IInv
<1>1. PICK i \in Id : i = call[d].item /\ Holds(d, i)
    BY CallFields DEF Delivered, InHand, Holds
<1> DEFINE c == [call[d] EXCEPT !.pc = "loop", !.item = 0, !.read = 0]
<1>2. /\ call' = [call EXCEPT ![d] = c]
      /\ state' = [state EXCEPT ![i] = "DELIVERED"]
      /\ attempts' = [attempts EXCEPT ![i] = attempts[i] + 1]
      /\ held' = [held EXCEPT ![i] = 0]
      /\ UNCHANGED <<due, mails, faults>>
    BY <1>1 DEF Delivered
<1>3. c.pc = "loop"
    BY CallFields DEF Call
<1> HIDE DEF c
<1>4. /\ state'[i] = "DELIVERED"
      /\ \A j \in Id \ {i} : /\ state'[j] = state[j] /\ held'[j] = held[j]
                             /\ attempts'[j] = attempts[j]
    BY <1>2 DEF TypeOK
<1>5. ClaimsExclusive' /\ HoldInv'
    BY <1>1, <1>2, <1>3, <1>4, FinishStep
<1>6. RowInv'
    <2>1. mails'[i] > 0
        BY <1>1, <1>2 DEF Delivered, HoldInv
    <2>2. "DELIVERED" \in Final
        BY DEF Final
    <2>3. QED
        BY <1>2, <1>4, <2>1, <2>2 DEF RowInv, DeliveredIsMailed
<1>7. MailInv'
    <2>1. \A j \in Id \ {i} : Owed(j) => Owed(j)'
        BY <1>1, <1>2, <1>4, OwedStep
    <2>2. Owed(i)'
        BY <1>4 DEF Owed
    <2>3. QED
        BY <1>2, <2>1, <2>2 DEF MailInv
<1>8. QED
    BY <1>5, <1>6, <1>7, TypeDelivered

LEMMA InvFailed ==
    ASSUME IInv, NEW d \in Dispatcher, Failed(d)
    PROVE  IInv'
<1> USE DEF IInv
<1>1. PICK i \in Id : i = call[d].item /\ Holds(d, i)
    BY CallFields DEF Failed, InHand, Holds
<1> DEFINE c == [call[d] EXCEPT !.pc = "loop", !.item = 0, !.read = 0]
           n == call[d].read + 1
           next == IF n >= MaxAttempts THEN "DEAD_LETTER" ELSE "RETRY"
<1>2. /\ call' = [call EXCEPT ![d] = c]
      /\ state' = [state EXCEPT ![i] = next]
      /\ attempts' = [attempts EXCEPT ![i] = n]
      /\ held' = [held EXCEPT ![i] = 0]
      /\ UNCHANGED <<mails, faults>>
    BY <1>1 DEF Failed
<1>3. c.pc = "loop" /\ n \in Nat
    BY CallFields DEF Call
<1>4. next \notin Final => n < MaxAttempts
    BY <1>3, Timing DEF Final
<1>5. next # "DELIVERED"
    OBVIOUS
<1> HIDE DEF c, n, next
<1>6. /\ state'[i] = next /\ attempts'[i] = n
      /\ \A j \in Id \ {i} : /\ state'[j] = state[j] /\ held'[j] = held[j]
                             /\ attempts'[j] = attempts[j]
    BY <1>2 DEF TypeOK
<1>7. ClaimsExclusive' /\ HoldInv'
    BY <1>1, <1>2, <1>3, <1>6, FinishStep
<1>8. RowInv'
    <2>1. \A j \in Id : state'[j] \notin Final => attempts'[j] < MaxAttempts
        BY <1>4, <1>6 DEF RowInv
    <2>2. DeliveredIsMailed'
        BY <1>2, <1>5, <1>6 DEF RowInv, DeliveredIsMailed
    <2>3. QED
        BY <2>1, <2>2 DEF RowInv
<1>9. MailInv'
    <2>1. \A j \in Id \ {i} : Owed(j) => Owed(j)'
        BY <1>1, <1>2, <1>6, OwedStep
    <2>2. ~Owed(i)
        <3>1. state[i] = "PROCESSING" /\ call[d].pc = "failed"
            BY <1>1 DEF Failed, HoldInv
        <3>2. QED
            BY <1>1, <3>1 DEF Owed, ClaimsExclusive
    <2>3. QED
        BY <1>2, <2>1, <2>2 DEF MailInv
<1>10. QED
    BY <1>7, <1>8, <1>9, TypeFailed

LEMMA InvNext ==
    ASSUME MaxAge < StaleLock
    PROVE  IInv /\ [Next]_vars => IInv'
<1> SUFFICES ASSUME IInv, [Next]_vars PROVE IInv'
    OBVIOUS
<1>1. ASSUME NEW i \in Id, Enqueue(i) PROVE IInv'
    BY <1>1, InvEnqueue
<1>2. CASE Tick
    BY <1>2, InvTick
<1>3. ASSUME NEW d \in Dispatcher, Begin(d) \/ Abort(d) PROVE IInv'
    BY <1>3, InvIdleSteps
<1>4. ASSUME NEW d \in Dispatcher, Step(d) PROVE IInv'
    BY <1>4, InvIdleSteps, InvClaim, InvRead, InvSend, InvDelivered, InvFailed DEF Step
<1>5. ASSUME NEW d \in Dispatcher, AnswerLost(d) \/ UpdateError(d) PROVE IInv'
    BY <1>5, InvSend
<1>6. CASE UNCHANGED vars
    <2>1. TypeOK'
        BY <1>6, TypeNext DEF IInv
    <2>2. QED
        BY <1>6, <2>1 DEF vars, IInv, ClaimsExclusive, HoldInv, RowInv, MailInv, Holds,
           Owed, DeliveredIsMailed
<1>7. QED
    BY <1>1, <1>2, <1>3, <1>4, <1>5, <1>6 DEF Next

\* No two calls are ever at work on one delivery, for any number of calls and
\* rows, when no call lasts as long as a lock.
THEOREM Exclusive ==
    ASSUME MaxAge < StaleLock
    PROVE  Spec => []ClaimsExclusive
<1>1. IInv => ClaimsExclusive
    BY DEF IInv
<1>2. QED
    BY <1>1, InvInit, InvNext, PTL DEF Spec

\* Under the same condition the owner gets one mail per alert, and at most one
\* more for each fault, whatever the number of attempts and of calls.
THEOREM MailsPaidFor ==
    ASSUME MaxAge < StaleLock
    PROVE  Spec => []OneMailPerFault
<1>1. IInv => OneMailPerFault
    BY DEF IInv, MailInv, OneMailPerFault
<1>2. QED
    BY <1>1, InvInit, InvNext, PTL DEF Spec

-----------------------------------------------------------------------------
(* The dispatchers implement the outbox.                                   *)

LEMMA StatusNames ==
    /\ StatusOf("NONE") = "none" /\ StatusOf("PENDING") = "queued"
    /\ StatusOf("RETRY") = "queued" /\ StatusOf("PROCESSING") = "queued"
    /\ StatusOf("DELIVERED") = "delivered" /\ StatusOf("DEAD_LETTER") = "dead"
BY DEF StatusOf, Waiting

LEMMA StatusUpdate ==
    ASSUME TypeOK, NEW i \in Id, NEW s, state' = [state EXCEPT ![i] = s]
    PROVE  Status' = [Status EXCEPT ![i] = StatusOf(s)]
<1>1. \A j \in Id : state'[j] = IF j = i THEN s ELSE state[j]
    BY DEF TypeOK
<1>2. Status' = [j \in Id |-> StatusOf(state'[j])]
    BY DEF Status
<1>3. Status' = [j \in Id |-> IF j = i THEN StatusOf(s) ELSE StatusOf(state[j])]
    BY <1>1, <1>2
<1>4. Status = [j \in Id |-> StatusOf(state[j])]
    BY DEF Status
<1>5. QED
    BY <1>3, <1>4

LEMMA TakenSame ==
    ASSUME UNCHANGED mails
    PROVE  Taken' = Taken
BY DEF Taken

LEMMA RefineInit == Init => outbox!Init
<1> SUFFICES ASSUME Init PROVE outbox!Init
    OBVIOUS
<1>1. Status = [i \in Id |-> "none"]
    BY StatusNames DEF Init, Status
<1>2. Taken = {}
    BY DEF Init, Taken
<1>3. attempts = [i \in Id |-> 0]
    BY DEF Init
<1>4. QED
    BY <1>1, <1>2, <1>3 DEF outbox!Init

LEMMA RefineEnqueue ==
    ASSUME IInv, NEW i \in Id, Enqueue(i)
    PROVE  outbox!Queue(i)
<1>1. Status[i] = "none"
    BY StatusNames DEF Enqueue, Status
<1>2. Status' = [Status EXCEPT ![i] = "queued"]
    BY StatusUpdate, StatusNames DEF Enqueue, IInv
<1>3. Taken' = Taken /\ UNCHANGED attempts
    BY TakenSame DEF Enqueue
<1>4. QED
    BY <1>1, <1>2, <1>3 DEF outbox!Queue

\* A row that is claimed, and a row in hand, is queued before and after.
LEMMA RefineClaim ==
    ASSUME IInv, NEW d \in Dispatcher, NEW i \in Id, Claim(d, i)
    PROVE  UNCHANGED outbox!vars
<1>1. StatusOf(state[i]) = "queued"
    BY StatusNames DEF Claim, Claimable, Waiting
<1>2. Status' = [Status EXCEPT ![i] = "queued"]
    BY StatusUpdate, StatusNames DEF Claim, IInv
<1>3. Status' = Status
    BY <1>1, <1>2 DEF Status
<1>4. Taken' = Taken /\ UNCHANGED attempts
    BY TakenSame DEF Claim
<1>5. QED
    BY <1>3, <1>4 DEF outbox!vars

LEMMA RefineMail ==
    ASSUME IInv, NEW d \in Dispatcher, Accept(d) \/ AnswerLost(d)
    PROVE  \E i \in Id : outbox!Take(i)
<1>1. PICK i \in Id : i = call[d].item /\ Holds(d, i)
    BY CallFields DEF Accept, AnswerLost, InHand, Holds, IInv
<1>2. mails' = [mails EXCEPT ![i] = mails[i] + 1] /\ UNCHANGED rowVars
    BY <1>1 DEF Accept, AnswerLost
<1>3. Status[i] = "queued"
    BY <1>1, StatusNames DEF Status, HoldInv, IInv
<1>4. Taken' = Taken \cup {i}
    BY <1>2 DEF Taken, TypeOK, IInv
<1>5. UNCHANGED <<Status, attempts>>
    BY <1>2 DEF Status, rowVars
<1>6. QED
    BY <1>3, <1>4, <1>5 DEF outbox!Take

LEMMA RefineDelivered ==
    ASSUME IInv, NEW d \in Dispatcher, Delivered(d)
    PROVE  \E i \in Id : outbox!Attempt(i, "delivered")
<1>1. PICK i \in Id : i = call[d].item /\ Holds(d, i)
    BY CallFields DEF Delivered, InHand, Holds, IInv
<1>2. Status[i] = "queued" /\ i \in Taken
    BY <1>1, StatusNames DEF Status, Taken, HoldInv, IInv, Delivered
<1>3. Status' = [Status EXCEPT ![i] = "delivered"]
    <2>1. state' = [state EXCEPT ![i] = "DELIVERED"]
        BY <1>1 DEF Delivered
    <2>2. QED
        BY <2>1, StatusUpdate, StatusNames DEF IInv
<1>4. attempts' = [attempts EXCEPT ![i] = attempts[i] + 1] /\ Taken' = Taken
    BY <1>1, TakenSame DEF Delivered
<1>5. QED
    BY <1>2, <1>3, <1>4 DEF outbox!Attempt

LEMMA RefineFailed ==
    ASSUME IInv, NEW d \in Dispatcher, Failed(d)
    PROVE  \E i \in Id, outcome \in {"dead", "queued"} : outbox!Attempt(i, outcome)
<1>1. PICK i \in Id : i = call[d].item /\ Holds(d, i)
    BY CallFields DEF Failed, InHand, Holds, IInv
<1>2. state[i] = "PROCESSING" /\ call[d].read = attempts[i]
    BY <1>1 DEF HoldInv, IInv, Failed
<1>3. attempts[i] \in Nat /\ attempts[i] < MaxAttempts
    BY <1>2 DEF IInv, RowInv, Final, TypeOK
<1>4. Status[i] = "queued"
    BY <1>2, StatusNames DEF Status
<1>5. attempts' = [attempts EXCEPT ![i] = attempts[i] + 1] /\ Taken' = Taken
    BY <1>1, <1>2, TakenSame DEF Failed
<1>6. CASE attempts[i] + 1 >= MaxAttempts
    <2>1. state' = [state EXCEPT ![i] = "DEAD_LETTER"]
        BY <1>1, <1>2, <1>6 DEF Failed
    <2>2. Status' = [Status EXCEPT ![i] = "dead"]
        BY <2>1, StatusUpdate, StatusNames DEF IInv
    <2>3. attempts[i] + 1 = MaxAttempts
        BY <1>3, <1>6, Timing
    <2>4. outbox!Attempt(i, "dead")
        BY <1>4, <1>5, <2>2, <2>3 DEF outbox!Attempt
    <2>5. QED
        BY <2>4
<1>7. CASE ~(attempts[i] + 1 >= MaxAttempts)
    <2>1. state' = [state EXCEPT ![i] = "RETRY"]
        BY <1>1, <1>2, <1>7 DEF Failed
    <2>2. Status' = [Status EXCEPT ![i] = "queued"]
        BY <2>1, StatusUpdate, StatusNames DEF IInv
    <2>3. attempts[i] + 1 < MaxAttempts
        BY <1>3, <1>7, Timing
    <2>4. outbox!Attempt(i, "queued")
        BY <1>4, <1>5, <2>2, <2>3 DEF outbox!Attempt
    <2>5. QED
        BY <2>4
<1>8. QED
    BY <1>6, <1>7

\* Every other step leaves the rows' states, attempts and mails alone.
LEMMA RefineSilent ==
    ASSUME UNCHANGED <<state, attempts, mails>>
    PROVE  UNCHANGED outbox!vars
BY DEF outbox!vars, Status, Taken

LEMMA RefineNext == IInv /\ [Next]_vars => [outbox!Next]_(outbox!vars)
<1> SUFFICES ASSUME IInv, [Next]_vars PROVE [outbox!Next]_(outbox!vars)
    OBVIOUS
<1>1. ASSUME NEW i \in Id, Enqueue(i) PROVE outbox!Next
    BY <1>1, RefineEnqueue DEF outbox!Next
<1>2. CASE Tick
    BY <1>2, RefineSilent DEF Tick
<1>3. ASSUME NEW d \in Dispatcher, NEW i \in Id, Claim(d, i) PROVE UNCHANGED outbox!vars
    BY <1>3, RefineClaim
<1>4. ASSUME NEW d \in Dispatcher, Accept(d) \/ AnswerLost(d) PROVE outbox!Next
    BY <1>4, RefineMail DEF outbox!Next
<1>5. ASSUME NEW d \in Dispatcher, Delivered(d) PROVE outbox!Next
    BY <1>5, RefineDelivered DEF outbox!Next
<1>6. ASSUME NEW d \in Dispatcher, Failed(d) PROVE outbox!Next
    BY <1>6, RefineFailed DEF outbox!Next
<1>7. ASSUME NEW d \in Dispatcher,
             \/ Begin(d) \/ (\E i \in Id : Skip(d, i)) \/ Read(d) \/ Refuse(d)
             \/ UpdateError(d) \/ End(d) \/ Abort(d)
      PROVE  UNCHANGED outbox!vars
    BY <1>7, RefineSilent DEF Begin, Skip, Read, Refuse, UpdateError, End, Abort, rowVars
<1>8. CASE UNCHANGED vars
    BY <1>8, RefineSilent DEF vars
<1>9. QED
    BY <1>1, <1>2, <1>3, <1>4, <1>5, <1>6, <1>7, <1>8 DEF Next, Step

\* With calls shorter than a lock, however many calls, rows and faults: attempts
\* are counted one by one up to maxAttempts, DELIVERED means taken by the
\* provider, DELIVERED and DEAD_LETTER are final.
THEOREM Implementation ==
    ASSUME MaxAge < StaleLock
    PROVE  Spec => ImplementsOutbox
BY InvInit, InvNext, RefineInit, RefineNext, PTL DEF Spec, ImplementsOutbox, outbox!Spec
=============================================================================
