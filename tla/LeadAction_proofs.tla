--------------------------- MODULE LeadAction_proofs ---------------------------
(***************************************************************************)
(* Proofs about LeadAction, for any number of leads, requests, drafts and  *)
(* faults. IInv is inductive; the steps that only move a request, and      *)
(* those that write the status of one row, each have a lemma.              *)
(***************************************************************************)
EXTENDS LeadAction, TLAPS

\* A request as the type invariant wants it, and past no acquisition.
Harmless(r) ==
    /\ r \in Request
    /\ r.pc \notin InHand
    /\ r.pc \in OnAction => r.act \in Id /\ status[r.act] # "NONE"
    /\ r.pc \in OnLead => r.lead \in Source

\* The invariant holds when nothing has happened.
LEMMA InitIInv == Init => IInv
<1> SUFFICES ASSUME Init PROVE IInv
    OBVIOUS
<1> USE DEF Init
<1>1. Idle \in Request
    BY DEF Idle, Request, None
<1>2. \A c \in Call : call[c].pc = "idle"
    BY DEF Idle
<1>3. TypeOK
  <2>1. call \in [Call -> Request]
      BY <1>1
  <2> QED
      BY <1>2, <2>1 DEF TypeOK, OnAction, OnLead, InHand, Executable, Status
<1>4. HandInv /\ LeaseExclusive /\ DoneInv
    BY <1>2 DEF HandInv, LeaseExclusive, DoneInv, OnAction, InHand
<1>5. MailInv /\ ResendNeedsFault /\ SentIsDone
    BY <1>2 DEF MailInv, ResendNeedsFault, SentIsDone, Executable
<1> QED
    BY <1>3, <1>4, <1>5 DEF IInv

\* A step that leaves the rows alone and puts one request where it holds no
\* action, with or without a fault.
LEMMA CallStep ==
    ASSUME IInv, NEW c \in Call, NEW r, Harmless(r),
           call' = [call EXCEPT ![c] = r],
           UNCHANGED <<led, responded, status, lease, mails>>,
           arrived' \subseteq Source, faults' \in Nat, faults' >= faults
    PROVE  IInv'
<1> USE DEF IInv
<1>1. call' \in [Call -> Request] /\ call'[c] = r
    BY DEF TypeOK, Harmless
<1>2. \A d \in Call : d # c => call'[d] = call[d]
    BY DEF TypeOK
<1>3. TypeOK'
    BY <1>1, <1>2 DEF TypeOK, Harmless
<1>4. HandInv'
    BY <1>1, <1>2 DEF HandInv, Harmless
<1>5. LeaseExclusive'
    BY <1>1, <1>2 DEF LeaseExclusive, Harmless
<1>6. MailInv' /\ ResendNeedsFault'
  <2>1. r.pc \notin {"send", "failed"}
      BY DEF Harmless, InHand
  <2>2. \A d \in Call : d # c /\ call[d].pc \in {"send", "failed"} => call[d].act \in Id
      BY DEF TypeOK, OnAction, InHand
  <2>3. mails \in [Id -> Nat] /\ faults \in Nat
      BY DEF TypeOK
  <2> QED
      BY <1>1, <1>2, <2>1, <2>2, <2>3 DEF MailInv, ResendNeedsFault
<1>7. DoneInv'
    BY <1>1, <1>2 DEF DoneInv, Harmless, InHand
<1>8. SentIsDone'
    BY DEF SentIsDone
<1> QED
    BY <1>3, <1>4, <1>5, <1>6, <1>7, <1>8

\* A step that writes the status of one row, and perhaps clears its lease,
\* while its request lets go of the row.
LEMMA RowStep ==
    ASSUME IInv, NEW c \in Call, NEW r, Harmless(r),
           NEW a \in Id, NEW v \in Status \ {"NONE"},
           call' = [call EXCEPT ![c] = r],
           status' = [status EXCEPT ![a] = v],
           lease' = lease \/ lease' = [lease EXCEPT ![a] = FALSE],
           UNCHANGED <<arrived, led, responded, mails, faults>>,
           v \in Executable => /\ ~lease'[a] /\ mails[a] <= faults
                               /\ \A d \in Call : d # c /\ call[d].pc \in InHand => call[d].act # a,
           v = "SENT" => /\ Provider => mails[a] > 0
                         /\ a[1] \in Inquiry => a[1] \in responded
    PROVE  IInv'
<1> USE DEF IInv
<1>1. call' \in [Call -> Request] /\ call'[c] = r
    BY DEF TypeOK, Harmless
<1>2. \A d \in Call : d # c => call'[d] = call[d]
    BY DEF TypeOK
<1>3. status' \in [Id -> Status] /\ status'[a] = v /\ v # "NONE"
    BY DEF TypeOK
<1>4. \A b \in Id : b # a => status'[b] = status[b]
    BY DEF TypeOK
<1>5. lease' \in [Id -> BOOLEAN] /\ \A b \in Id : lease'[b] => lease[b]
    BY DEF TypeOK
<1>6. \A d \in Call : call[d].pc \in OnAction => call[d].act \in Id
    BY DEF TypeOK
<1>7. TypeOK'
  <2>1. \A b \in Id : lease'[b] => status'[b] \notin Executable \cup {"NONE"}
      BY <1>3, <1>4, <1>5 DEF TypeOK
  <2>2. \A d \in Call : /\ call'[d].pc \in OnAction => call'[d].act \in Id
                        /\ call'[d].pc \in OnLead => call'[d].lead \in Source
      BY <1>1, <1>2 DEF TypeOK, Harmless
  <2> QED
      BY <1>1, <1>3, <1>5, <2>1, <2>2 DEF TypeOK
<1>8. HandInv'
  <2> SUFFICES ASSUME NEW d \in Call
               PROVE  /\ call'[d].pc \in OnAction => status'[call'[d].act] # "NONE"
                      /\ call'[d].pc \in InHand => status'[call'[d].act] \notin Executable
      BY DEF HandInv
  <2>1. CASE d = c
      BY <1>1, <1>3, <1>4, <2>1 DEF Harmless
  <2>2. CASE d # c
    <3>1. call'[d] = call[d] /\ (call[d].pc \in InHand => call[d].pc \in OnAction)
        BY <1>2, <2>2 DEF OnAction
    <3> QED
        BY <1>3, <1>4, <1>6, <2>2, <3>1 DEF HandInv
  <2> QED
      BY <2>1, <2>2
<1>9. LeaseExclusive'
    BY <1>1, <1>2 DEF LeaseExclusive, Harmless
<1>10. MailInv' /\ ResendNeedsFault'
  <2>1. r.pc \notin {"send", "failed"}
      BY DEF Harmless, InHand
  <2>2. \A d \in Call : call'[d].pc \in {"send", "failed"} => mails'[call'[d].act] <= faults'
      BY <1>1, <1>2, <2>1 DEF MailInv
  <2>3. \A b \in Id : status'[b] = "NONE" => mails'[b] = 0
      BY <1>3, <1>4 DEF MailInv
  <2>4. \A b \in Id : status'[b] \in Executable => mails'[b] <= faults'
      BY <1>3, <1>4 DEF MailInv
  <2> QED
      BY <2>2, <2>3, <2>4 DEF MailInv, ResendNeedsFault
<1>11. DoneInv'
    BY <1>1, <1>2 DEF DoneInv, Harmless, InHand
<1>12. SentIsDone'
    BY <1>3, <1>4 DEF SentIsDone
<1> QED
    BY <1>7, <1>8, <1>9, <1>10, <1>11, <1>12

-----------------------------------------------------------------------------

\* Where a request goes after a lead or an action.
LEMMA OverIsHarmless ==
    ASSUME IInv, NEW c \in Call
    PROVE  Harmless(Idle) /\ Harmless(Over(c))
<1>1. call[c] \in Request
    BY DEF IInv, TypeOK
<1> QED
    BY <1>1 DEF Idle, Over, Request, Harmless, None, OnAction, OnLead, InHand

\* A lead arrives.
LEMMA ArriveIInv ==
    ASSUME IInv, NEW c \in Call, NEW s \in Source, Arrive(c, s) PROVE IInv'
<1> DEFINE r == [Idle EXCEPT !.pc = "enqueue", !.lead = s]
<1>1. Harmless(r)
    BY DEF Idle, Request, Harmless, None, OnAction, OnLead, InHand
<1>2. /\ call' = [call EXCEPT ![c] = r]
      /\ arrived' \subseteq Source /\ faults' \in Nat /\ faults' >= faults
      /\ UNCHANGED <<led, responded, status, lease, mails>>
    BY DEF Arrive, IInv, TypeOK
<1> HIDE DEF r
<1> QED
    BY <1>1, <1>2, CallStep

\* The drafting of an action: only Persist writes a row.
LEMMA DraftingIInv ==
    ASSUME IInv, NEW c \in Call, Drafting(c) PROVE IInv'
<1>1. arrived \subseteq Source /\ faults \in Nat /\ call[c] \in Request
    BY DEF IInv, TypeOK
<1>2. CASE Enqueue(c)
  <2> DEFINE r == IF call[c].lead \notin led \/ HasLive(call[c].lead) THEN Over(c)
                 ELSE [call[c] EXCEPT !.pc = "draft"]
  <2>1. Harmless([call[c] EXCEPT !.pc = "draft"])
    <3>1. call[c].lead \in Source
        BY <1>2 DEF Enqueue, IInv, TypeOK, OnLead
    <3> QED
        BY <1>1, <3>1 DEF Harmless, Request, OnAction, OnLead, InHand
  <2>2. Harmless(r)
      BY <2>1, OverIsHarmless
  <2>3. /\ call' = [call EXCEPT ![c] = r] /\ faults' \in Nat /\ faults' >= faults
        /\ UNCHANGED <<arrived, led, responded, status, lease, mails>>
      BY <1>1, <1>2 DEF Enqueue
  <2> HIDE DEF r
  <2> QED
      BY <1>1, <2>2, <2>3, CallStep
<1>3. CASE DraftFails(c)
  <2>1. /\ call' = [call EXCEPT ![c] = Over(c)]
        /\ UNCHANGED <<arrived, led, responded, status, lease, mails>>
        /\ faults' \in Nat /\ faults' >= faults
      BY <1>1, <1>3 DEF DraftFails
  <2> QED
      BY <1>1, <2>1, OverIsHarmless, CallStep
<1>4. CASE \E n \in 1..MaxDrafts : Persist(c, n)
  <2>1. PICK n \in 1..MaxDrafts : Persist(c, n)
      BY <1>4
  <2> DEFINE a == <<call[c].lead, n>>
  <2>2. call[c].lead \in Source
      BY <2>1 DEF Persist, IInv, TypeOK, OnLead
  <2>3. a \in Id
      BY <2>2 DEF Id
  <2>4. n \notin Drafts(call[c].lead)
      BY <2>1 DEF Persist
  <2>5. status[a] = "NONE"
      BY <2>4 DEF Drafts
  <2>6. ~lease[a]
      BY <2>3, <2>5 DEF IInv, TypeOK
  <2>7. /\ call' = [call EXCEPT ![c] = Over(c)]
        /\ status' = [status EXCEPT ![a] = "PENDING"]
        /\ UNCHANGED <<arrived, led, responded, lease, mails, faults>>
      BY <2>1 DEF Persist
  <2>8. mails[a] <= faults
      BY <1>1, <2>3, <2>5 DEF IInv, MailInv
  <2>9. \A d \in Call : d # c /\ call[d].pc \in InHand => call[d].act # a
      BY <2>5 DEF IInv, HandInv, OnAction
  <2>10. "PENDING" \in Status \ {"NONE"} /\ "PENDING" # "SENT"
      BY DEF Status
  <2>11. Harmless(Over(c)) /\ lease' = lease /\ ~lease'[a]
      BY <2>6, <2>7, OverIsHarmless
  <2> HIDE DEF a
  <2> QED
      BY <2>3, <2>7, <2>8, <2>9, <2>10, <2>11, RowStep
<1> QED
    BY <1>2, <1>3, <1>4 DEF Drafting

\* The steps of the cron write no row.
LEMMA CronIInv ==
    ASSUME IInv, NEW c \in Call, Recover(c) \/ Filter(c) \/ EachLead(c) PROVE IInv'
<1>1. /\ arrived \subseteq Source /\ faults \in Nat /\ call[c] \in Request
      /\ UNCHANGED <<arrived, led, responded, status, lease, mails, faults>>
    BY DEF IInv, TypeOK, Recover, Filter, EachLead
<1> SUFFICES \E r : Harmless(r) /\ call' = [call EXCEPT ![c] = r]
  <2>1. faults' \in Nat /\ faults' >= faults
      BY <1>1
  <2> QED
      BY <1>1, <2>1, CallStep
<1>2. CASE Recover(c)
  <2> DEFINE r == [Idle EXCEPT !.pc = "filter", !.more = TRUE, !.todo = Scan(Inquiry)]
  <2>1. Harmless(r)
      BY <1>1 DEF Idle, Request, Harmless, None, OnAction, OnLead, InHand, Scan
  <2> QED
      BY <1>2, <2>1 DEF Recover
<1>3. CASE Filter(c)
  <2> DEFINE r == [call[c] EXCEPT !.pc = "each",
                                  !.todo = {s \in call[c].todo : ~HasLive(s)}]
  <2>1. Harmless(r)
      BY <1>1 DEF Request, Harmless, OnAction, OnLead, InHand
  <2>2. call' = [call EXCEPT ![c] = r]
      BY <1>1, <1>3 DEF Filter, IInv, TypeOK, Request
  <2> QED
      BY <2>1, <2>2
<1>4. CASE EachLead(c)
  <2>1. CASE \E s \in call[c].todo :
               call' = [call EXCEPT ![c].pc = "enqueue", ![c].lead = s,
                                    ![c].todo = call[c].todo \ {s}]
    <3>1. PICK s \in call[c].todo :
               call' = [call EXCEPT ![c].pc = "enqueue", ![c].lead = s,
                                    ![c].todo = call[c].todo \ {s}]
        BY <2>1
    <3> DEFINE r == [call[c] EXCEPT !.pc = "enqueue", !.lead = s, !.todo = call[c].todo \ {s}]
    <3>2. s \in Source
        BY <1>1 DEF Request
    <3>3. Harmless(r)
        BY <1>1, <3>2 DEF Request, Harmless, OnAction, OnLead, InHand
    <3>4. call' = [call EXCEPT ![c] = r]
        BY <1>1, <3>1 DEF IInv, TypeOK, Request
    <3> QED
        BY <3>3, <3>4
  <2>2. CASE call' = [call EXCEPT ![c] = [Idle EXCEPT !.pc = "filter", !.todo = Scan(Submission)]]
    <3>1. Harmless([Idle EXCEPT !.pc = "filter", !.todo = Scan(Submission)])
        BY <1>1 DEF Idle, Request, Harmless, None, OnAction, OnLead, InHand, Scan
    <3> QED
        BY <2>2, <3>1
  <2>3. CASE call' = [call EXCEPT ![c] = Idle]
      BY <2>3, OverIsHarmless
  <2> QED
      BY <1>4, <2>1, <2>2, <2>3 DEF EachLead
<1> QED
    BY <1>2, <1>3, <1>4

\* The steps of the owner before a row is written, and a request that is lost.
LEMMA RequestIInv ==
    ASSUME IInv, NEW c \in Call,
           \/ \E a \in Id, mail \in BOOLEAN : Execute(c, a, mail)
           \/ \E a \in Id, pc \in {"dismiss", "snooze"} : Decide(c, a, pc)
           \/ CheckResponded(c)
           \/ Abort(c)
    PROVE  IInv'
<1>1. arrived \subseteq Source /\ faults \in Nat /\ call[c] \in Request
    BY DEF IInv, TypeOK
<1>2. /\ UNCHANGED <<arrived, led, responded, status, lease, mails>>
      /\ faults' = faults \/ faults' = faults + 1
    BY ZenonT(30) DEF Execute, Decide, CheckResponded, Abort
<1>3. faults' \in Nat /\ faults' >= faults
    BY <1>1, <1>2
<1> SUFFICES \E r : Harmless(r) /\ call' = [call EXCEPT ![c] = r]
    BY <1>1, <1>2, <1>3, CallStep
<1>4. CASE \E a \in Id, mail \in BOOLEAN : Execute(c, a, mail)
  <2>1. PICK a \in Id, mail \in BOOLEAN : Execute(c, a, mail)
      BY <1>4
  <2>2. Harmless([Idle EXCEPT !.pc = "check", !.act = a, !.mail = mail])
      BY <2>1 DEF Execute, Idle, Request, Harmless, None, OnAction, OnLead, InHand, Executable
  <2> QED
      BY <2>1, <2>2 DEF Execute
<1>5. CASE \E a \in Id, pc \in {"dismiss", "snooze"} : Decide(c, a, pc)
  <2>1. PICK a \in Id, pc \in {"dismiss", "snooze"} : Decide(c, a, pc)
      BY <1>5
  <2>2. Harmless([Idle EXCEPT !.pc = pc, !.act = a])
      BY <2>1 DEF Decide, Idle, Request, Harmless, None, OnAction, OnLead, InHand
  <2> QED
      BY <2>1, <2>2 DEF Decide
<1>6. CASE CheckResponded(c)
  <2> DEFINE q == IF call[c].act[1] \in responded THEN "expire" ELSE "acquire"
             r == [call[c] EXCEPT !.pc = q]
  <2>1. call[c].act \in Id /\ status[call[c].act] # "NONE"
      BY <1>6 DEF CheckResponded, IInv, TypeOK, HandInv, OnAction
  <2>2. Harmless(r)
      BY <1>1, <2>1 DEF Request, Harmless, OnAction, OnLead, InHand
  <2>3. call' = [call EXCEPT ![c] = r]
      BY <1>6 DEF CheckResponded
  <2> QED
      BY <2>2, <2>3
<1>7. CASE Abort(c)
    BY <1>7, OverIsHarmless DEF Abort
<1> QED
    BY <1>4, <1>5, <1>6, <1>7

\* The steps that write a row and end the request.
LEMMA WriteIInv ==
    ASSUME IInv, NEW c \in Call,
           Expire(c) \/ MarkFailed(c) \/ Finalize(c) \/ Dismiss(c) \/ Snooze(c)
    PROVE  IInv'
<1> DEFINE a == call[c].act
<1>1. a \in Id
    BY DEF Expire, MarkFailed, Finalize, Dismiss, Snooze, IInv, TypeOK, OnAction, InHand
<1>2. Harmless(Idle)
    BY OverIsHarmless
<1>3. /\ call' = [call EXCEPT ![c] = Idle]
      /\ UNCHANGED <<arrived, led, responded, mails, faults>>
      /\ lease' = lease \/ lease' = [lease EXCEPT ![a] = FALSE]
    BY DEF Expire, MarkFailed, Finalize, Dismiss, Snooze
<1>4. CASE Expire(c) \/ Dismiss(c) \/ Snooze(c)
  <2>1. PICK v \in {"EXPIRED", "DISMISSED", "SNOOZED"} : status' = [status EXCEPT ![a] = v]
      BY <1>4 DEF Expire, Dismiss, Snooze
  <2>2. v \in Status \ {"NONE"} /\ v \notin Executable /\ v # "SENT"
      BY DEF Status, Executable
  <2> HIDE DEF a
  <2> QED
      BY <1>1, <1>2, <1>3, <2>1, <2>2, RowStep
<1>5. CASE MarkFailed(c)
  <2> DEFINE v == "FAILED"
  <2>1. status' = [status EXCEPT ![a] = v] /\ lease' = [lease EXCEPT ![a] = FALSE]
      BY <1>5 DEF MarkFailed
  <2>2. ~lease'[a]
      BY <1>1, <2>1 DEF IInv, TypeOK
  <2>3. mails[a] <= faults
      BY <1>5 DEF MarkFailed, IInv, MailInv
  <2>4. \A d \in Call : d # c /\ call[d].pc \in InHand => call[d].act # a
      BY <1>5 DEF MarkFailed, IInv, LeaseExclusive, InHand
  <2>5. v \in Status \ {"NONE"} /\ v # "SENT"
      BY DEF Status
  <2> HIDE DEF a, v
  <2> QED
      BY <1>1, <1>2, <1>3, <2>1, <2>2, <2>3, <2>4, <2>5, RowStep
<1>6. CASE Finalize(c)
  <2> DEFINE v == IF call[c].mail THEN "SENT" ELSE "EXECUTED"
  <2>1. status' = [status EXCEPT ![a] = v]
      BY <1>6 DEF Finalize
  <2>2. v \in Status \ {"NONE"} /\ v \notin Executable
      BY DEF Status, Executable
  <2>3. v = "SENT" => /\ Provider => mails[a] > 0
                      /\ a[1] \in Inquiry => a[1] \in responded
      BY <1>6 DEF Finalize, IInv, DoneInv
  <2> HIDE DEF a, v
  <2> QED
      BY <1>1, <1>2, <1>3, <2>1, <2>2, <2>3, RowStep
<1> QED
    BY <1>4, <1>5, <1>6

-----------------------------------------------------------------------------

\* A request past the acquisition moves on, perhaps with one mail more.
LEMMA HandStep ==
    ASSUME IInv, NEW c \in Call, call[c].pc \in InHand,
           NEW q \in InHand, call' = [call EXCEPT ![c].pc = q],
           NEW m \in Nat, mails' = [mails EXCEPT ![call[c].act] = m],
           m >= mails[call[c].act], m <= 1 + faults',
           q \in {"send", "failed"} => m <= faults',
           q = "send" => call[c].mail,
           q \in {"crm", "final"} /\ call[c].mail /\ Provider => m > 0,
           q = "final" /\ call[c].mail /\ call[c].act[1] \in Inquiry
               => call[c].act[1] \in responded',
           responded \subseteq responded', responded' \subseteq Inquiry,
           faults' \in Nat, faults' >= faults,
           UNCHANGED <<arrived, led, status, lease>>
    PROVE  IInv'
<1> DEFINE a == call[c].act
<1> USE DEF IInv
<1>1. a \in Id /\ call[c] \in Request
    BY DEF TypeOK, OnAction
<1>2. /\ call' \in [Call -> Request]
      /\ call'[c].pc = q /\ call'[c].act = a /\ call'[c].mail = call[c].mail
  <2>1. call' = [call EXCEPT ![c] = [call[c] EXCEPT !.pc = q]]
      BY DEF TypeOK
  <2>2. [call[c] EXCEPT !.pc = q] \in Request
      BY <1>1 DEF Request, OnAction
  <2> QED
      BY <1>1, <2>1, <2>2 DEF TypeOK, Request
<1>3. \A d \in Call : d # c => call'[d] = call[d]
    BY DEF TypeOK
<1>4. mails' \in [Id -> Nat] /\ mails'[a] = m /\ \A b \in Id : b # a => mails'[b] = mails[b]
    BY <1>1 DEF TypeOK
<1>5. \A d \in Call : call[d].pc \in InHand => call[d].act \in Id
    BY DEF TypeOK, OnAction
<1>6. TypeOK'
  <2>1. q \notin OnLead
      BY DEF InHand, OnLead
  <2> QED
      BY <1>1, <1>2, <1>3, <1>4, <2>1 DEF TypeOK
<1>7. HandInv'
    BY <1>2, <1>3 DEF HandInv, OnAction
<1>8. LeaseExclusive'
    BY <1>2, <1>3 DEF LeaseExclusive
<1>9. \A b \in Id : mails[b] \in Nat
    BY DEF TypeOK
<1>10. faults \in Nat
    BY DEF TypeOK
<1>11. MailInv'
  <2>1. status[a] # "NONE" /\ status[a] \notin Executable
      BY DEF HandInv, OnAction
  <2>2. \A b \in Id : status'[b] = "NONE" => mails'[b] = 0
      BY <1>4, <2>1 DEF MailInv
  <2>3. \A b \in Id : status'[b] \in Executable => mails'[b] <= faults'
    <3>1. \A b \in Id : status'[b] \in Executable => b # a /\ mails[b] <= faults
        BY <2>1 DEF MailInv
    <3> QED
        BY <1>4, <1>9, <1>10, <3>1
  <2>4. ASSUME NEW d \in Call, call'[d].pc \in {"send", "failed"}
        PROVE  mails'[call'[d].act] <= faults'
    <3>1. CASE d = c
        BY <1>2, <1>4, <2>4, <3>1
    <3>2. CASE d # c
      <4>1. call'[d] = call[d] /\ call[d].pc \in InHand
          BY <1>3, <2>4, <3>2 DEF InHand
      <4>2. call[d].act \in Id /\ call[d].act # a
          BY <1>5, <3>2, <4>1 DEF LeaseExclusive
      <4>3. mails[call[d].act] <= faults
          BY <2>4, <4>1 DEF MailInv
      <4> HIDE DEF a
      <4> QED
          BY <1>4, <1>9, <1>10, <4>1, <4>2, <4>3
    <3> QED
        BY <3>1, <3>2
  <2> QED
      BY <2>2, <2>3, <2>4 DEF MailInv
<1>12. ResendNeedsFault'
  <2>1. \A b \in Id : mails[b] <= 1 + faults
      BY DEF ResendNeedsFault
  <2> HIDE DEF a
  <2>2. ASSUME NEW b \in Id PROVE mails'[b] <= 1 + faults'
      BY <1>4, <1>9, <1>10, <2>1
  <2> QED
      BY <2>2 DEF ResendNeedsFault
<1>13. \A b \in Id : mails[b] > 0 => mails'[b] > 0
    BY <1>1, <1>4, <1>9
<1>14. DoneInv'
  <2> SUFFICES ASSUME NEW d \in Call
               PROVE  LET b == call'[d].act
                      IN  /\ call'[d].pc = "send" => call'[d].mail
                          /\ call'[d].pc \in {"crm", "final"} /\ call'[d].mail /\ Provider
                               => mails'[b] > 0
                          /\ call'[d].pc = "final" /\ call'[d].mail /\ b[1] \in Inquiry
                               => b[1] \in responded'
      BY DEF DoneInv
  <2>1. CASE d = c
      BY <1>2, <1>4, <2>1
  <2>2. CASE d # c
    <3>1. call'[d] = call[d] /\ (call[d].pc \in InHand => call[d].act \in Id)
        BY <1>3, <1>5, <2>2
    <3> QED
        BY <1>13, <3>1 DEF DoneInv, InHand
  <2> QED
      BY <2>1, <2>2
<1>15. SentIsDone'
    BY <1>13 DEF SentIsDone
<1> QED
    BY <1>6, <1>7, <1>8, <1>11, <1>12, <1>14, <1>15

\* The lease: taken when the row is still executable, else the request ends.
LEMMA AcquireIInv ==
    ASSUME IInv, NEW c \in Call, Acquire(c) PROVE IInv'
<1> DEFINE a == call[c].act
           free == status[a] \in Executable /\ ~lease[a]
           q == IF call[c].mail THEN "send" ELSE "crm"
<1>1. a \in Id /\ call[c].pc = "acquire" /\ call[c] \in Request
    BY DEF Acquire, IInv, TypeOK, OnAction
<1>2. CASE ~free
  <2>1. /\ call' = [call EXCEPT ![c] = Idle]
        /\ status' = [status EXCEPT ![a] = status[a]]
        /\ lease' = [lease EXCEPT ![a] = free \/ lease[a]]
        /\ UNCHANGED <<arrived, led, responded, mails, faults>>
      BY <1>2 DEF Acquire
  <2>2. status' = status
      BY <1>1, <2>1 DEF IInv, TypeOK
  <2>3. lease' = lease
    <3>1. lease \in [Id -> BOOLEAN]
        BY DEF IInv, TypeOK
    <3>2. (free \/ lease[a]) = lease[a]
        BY <1>1, <1>2, <3>1
    <3> HIDE DEF free
    <3> QED
        BY <1>1, <2>1, <3>1, <3>2
  <2>4. arrived' \subseteq Source /\ faults' \in Nat /\ faults' >= faults
      BY <2>1 DEF IInv, TypeOK
  <2>5. Harmless(Idle)
      BY OverIsHarmless
  <2> QED
      BY <2>1, <2>2, <2>3, <2>4, <2>5, CallStep
<1>3. CASE free
  <2>1. /\ status' = [status EXCEPT ![a] = "EXECUTING"]
        /\ lease' = [lease EXCEPT ![a] = TRUE]
        /\ call' = [call EXCEPT ![c] = [call[c] EXCEPT !.pc = q]]
        /\ UNCHANGED <<arrived, led, responded, mails, faults>>
      BY <1>3 DEF Acquire
  <2>2. [call[c] EXCEPT !.pc = q] \in Request /\ q \in {"send", "crm"}
      BY <1>1 DEF Request, OnAction, InHand
  <2>3. /\ call' \in [Call -> Request]
        /\ call'[c].pc = q /\ call'[c].act = a /\ call'[c].mail = call[c].mail
        /\ \A d \in Call : d # c => call'[d] = call[d]
      BY <1>1, <2>1, <2>2 DEF IInv, TypeOK, Request
  <2>4. /\ status' \in [Id -> Status] /\ status'[a] = "EXECUTING"
        /\ \A b \in Id : b # a => status'[b] = status[b]
      BY <1>1, <2>1 DEF IInv, TypeOK, Status
  <2>5. lease' \in [Id -> BOOLEAN] /\ \A b \in Id : b # a => lease'[b] = lease[b]
      BY <1>1, <2>1 DEF IInv, TypeOK
  <2>6. "EXECUTING" \notin Executable /\ "EXECUTING" \notin {"NONE", "SENT"}
      BY DEF Executable
  <2>7. \A d \in Call : d # c /\ call[d].pc \in InHand => call[d].act # a
      BY <1>3 DEF IInv, HandInv
  <2>8. \A d \in Call : call[d].pc \in OnAction => call[d].act \in Id
      BY DEF IInv, TypeOK
  <2>9. \A d \in Call : d # c /\ call[d].pc \in InHand => call[d].act \in Id
      BY <2>8 DEF OnAction
  <2> HIDE DEF a, q, free
  <2>10. TypeOK'
    <3>1. \A b \in Id : lease'[b] => status'[b] \notin Executable \cup {"NONE"}
        BY <2>4, <2>5, <2>6 DEF IInv, TypeOK
    <3>2. \A d \in Call : /\ call'[d].pc \in OnAction => call'[d].act \in Id
                          /\ call'[d].pc \in OnLead => call'[d].lead \in Source
        BY <1>1, <2>2, <2>3 DEF IInv, TypeOK, OnLead
    <3> QED
        BY <2>1, <2>3, <2>4, <2>5, <3>1, <3>2 DEF IInv, TypeOK
  <2>11. HandInv'
    <3> SUFFICES ASSUME NEW d \in Call
                 PROVE  /\ call'[d].pc \in OnAction => status'[call'[d].act] # "NONE"
                        /\ call'[d].pc \in InHand => status'[call'[d].act] \notin Executable
        BY DEF HandInv
    <3>1. CASE d = c
        BY <2>3, <2>4, <2>6, <3>1
    <3>2. CASE d # c
        BY <2>3, <2>4, <2>6, <2>8, <3>2 DEF IInv, HandInv, OnAction
    <3> QED
        BY <3>1, <3>2
  <2>12. LeaseExclusive'
      BY <2>3, <2>7 DEF IInv, LeaseExclusive
  <2>13. mails[a] <= faults
      BY <1>1, <1>3 DEF IInv, MailInv, free
  <2>14. MailInv'
    <3>1. \A d \in Call : call'[d].pc \in {"send", "failed"} => mails'[call'[d].act] <= faults'
        BY <2>1, <2>3, <2>13 DEF IInv, MailInv
    <3>2. \A b \in Id : /\ status'[b] = "NONE" => mails'[b] = 0
                        /\ status'[b] \in Executable => mails'[b] <= faults'
        BY <2>1, <2>4, <2>6 DEF IInv, MailInv
    <3> QED
        BY <3>1, <3>2 DEF MailInv
  <2>15. ResendNeedsFault'
      BY <2>1 DEF IInv, ResendNeedsFault
  <2>16. DoneInv'
    <3> SUFFICES ASSUME NEW d \in Call
                 PROVE  LET b == call'[d].act
                        IN  /\ call'[d].pc = "send" => call'[d].mail
                            /\ call'[d].pc \in {"crm", "final"} /\ call'[d].mail /\ Provider
                                 => mails'[b] > 0
                            /\ call'[d].pc = "final" /\ call'[d].mail /\ b[1] \in Inquiry
                                 => b[1] \in responded'
        BY DEF DoneInv
    <3>1. CASE d = c
        BY <1>1, <2>2, <2>3, <3>1 DEF q, Request
    <3>2. CASE d # c
        BY <2>1, <2>3, <3>2 DEF IInv, DoneInv
    <3> QED
        BY <3>1, <3>2
  <2>17. SentIsDone'
      BY <2>1, <2>4, <2>6 DEF IInv, SentIsDone
  <2> QED
      BY <2>10, <2>11, <2>12, <2>14, <2>15, <2>16, <2>17 DEF IInv
<1> QED
    BY <1>2, <1>3

\* The execution itself.
LEMMA ExecutingIInv ==
    ASSUME IInv, NEW c \in Call, Executing(c) PROVE IInv'
<1> DEFINE a == call[c].act
<1>1. /\ faults \in Nat /\ responded \subseteq Inquiry /\ mails \in [Id -> Nat]
      /\ mails = [mails EXCEPT ![a] = mails[a]]
    BY DEF IInv, TypeOK
<1>2. call[c].pc \in InHand => /\ a \in Id
                               /\ mails[a] \in Nat /\ mails[a] <= 1 + faults
    BY <1>1 DEF IInv, TypeOK, ResendNeedsFault, OnAction
<1>3. CASE CheckResponded(c)
    BY <1>3, RequestIInv
<1>4. CASE Expire(c) \/ MarkFailed(c) \/ Finalize(c)
    BY <1>4, WriteIInv
<1>5. CASE Acquire(c)
    BY <1>5, AcquireIInv
<1>6. CASE Send(c)
  <2> DEFINE m == IF Provider THEN mails[a] + 1 ELSE mails[a]
  <2>1. /\ call[c].pc \in InHand /\ "crm" \in InHand
        /\ call' = [call EXCEPT ![c].pc = "crm"]
        /\ mails' = [mails EXCEPT ![a] = m]
        /\ UNCHANGED <<arrived, led, responded, status, lease, faults>>
      BY <1>6 DEF Send, InHand
  <2>2. mails[a] <= faults
      BY <1>6 DEF Send, IInv, MailInv
  <2>3. /\ m \in Nat /\ m >= mails[a] /\ m <= 1 + faults' /\ (Provider => m > 0)
        /\ faults' \in Nat /\ faults' >= faults
      BY <1>1, <1>2, <2>1, <2>2
  <2> HIDE DEF m
  <2> QED
      BY <1>1, <2>1, <2>3, HandStep
<1>7. CASE SendFails(c)
  <2>1. /\ call[c].pc \in InHand /\ "failed" \in InHand
        /\ call' = [call EXCEPT ![c].pc = "failed"]
        /\ UNCHANGED <<arrived, led, responded, status, lease>>
      BY <1>7 DEF SendFails, InHand
  <2>2. mails[a] <= faults
      BY <1>7 DEF SendFails, IInv, MailInv
  <2>3. \E m \in Nat : /\ mails' = [mails EXCEPT ![a] = m]
                       /\ m >= mails[a] /\ m <= faults' /\ m <= 1 + faults'
                       /\ faults' \in Nat /\ faults' >= faults
    <3>1. CASE UNCHANGED <<mails, faults>>
      <4>1. mails' = [mails EXCEPT ![a] = mails[a]] /\ mails[a] \in Nat
          BY <1>1, <1>2, <2>1, <3>1
      <4>2. /\ mails[a] >= mails[a] /\ mails[a] <= faults' /\ mails[a] <= 1 + faults'
            /\ faults' \in Nat /\ faults' >= faults
          BY <1>1, <2>2, <3>1, <4>1
      <4> QED
          BY <4>1, <4>2
    <3>2. CASE faults' = faults + 1 /\ mails' = [mails EXCEPT ![a] = mails[a] + 1]
      <4>1. mails[a] \in Nat
          BY <1>2, <2>1
      <4>2. /\ mails[a] + 1 \in Nat /\ mails[a] + 1 >= mails[a]
            /\ mails[a] + 1 <= faults' /\ mails[a] + 1 <= 1 + faults'
            /\ faults' \in Nat /\ faults' >= faults
          BY <1>1, <2>2, <3>2, <4>1
      <4> QED
          BY <3>2, <4>2
    <3> QED
        BY <1>7, <3>1, <3>2 DEF SendFails
  <2> QED
      BY <1>1, <2>1, <2>3, HandStep
<1>8. CASE Crm(c)
  <2>1. /\ call[c].pc \in InHand /\ "final" \in InHand
        /\ call' = [call EXCEPT ![c].pc = "final"]
        /\ UNCHANGED <<arrived, led, status, lease, mails, faults>>
      BY <1>8 DEF Crm, InHand
  <2>2. call[c].mail /\ Provider => mails[a] > 0
      BY <1>8 DEF Crm, IInv, DoneInv
  <2>3. /\ responded \subseteq responded' /\ responded' \subseteq Inquiry
        /\ call[c].mail /\ a[1] \in Inquiry => a[1] \in responded'
      BY <1>1, <1>8 DEF Crm
  <2>4. faults' \in Nat /\ faults' >= faults /\ mails[a] >= mails[a] /\ mails[a] <= 1 + faults'
      BY <1>1, <1>2, <2>1
  <2>5. mails' = [mails EXCEPT ![a] = mails[a]] /\ mails[a] \in Nat
      BY <1>1, <1>2, <2>1
  <2> QED
      BY <2>1, <2>2, <2>3, <2>4, <2>5, HandStep
<1>9. CASE CrmFails(c)
  <2>1. /\ call[c].pc \in InHand /\ "failed" \in InHand
        /\ call' = [call EXCEPT ![c].pc = "failed"]
        /\ faults' = faults + 1
        /\ UNCHANGED <<arrived, led, responded, status, lease, mails>>
      BY <1>9 DEF CrmFails, InHand
  <2>2. /\ faults' \in Nat /\ faults' >= faults
        /\ mails[a] >= mails[a] /\ mails[a] <= faults' /\ mails[a] <= 1 + faults'
      BY <1>1, <1>2, <2>1
  <2>3. mails' = [mails EXCEPT ![a] = mails[a]] /\ mails[a] \in Nat
      BY <1>1, <1>2, <2>1
  <2> QED
      BY <1>1, <2>1, <2>2, <2>3, HandStep
<1> QED
    BY <1>3, <1>4, <1>5, <1>6, <1>7, <1>8, <1>9 DEF Executing

\* A lease lapses, and an answer given by hand.
LEMMA LapseIInv ==
    ASSUME IInv, NEW a \in Id, LeaseExpires(a) PROVE IInv'
<1>1. /\ lease' = [lease EXCEPT ![a] = FALSE]
      /\ UNCHANGED <<arrived, led, responded, status, call, mails, faults>>
    BY DEF LeaseExpires
<1>2. TypeOK'
    BY <1>1 DEF IInv, TypeOK
<1> QED
    BY <1>1, <1>2 DEF IInv, HandInv, LeaseExclusive, MailInv, ResendNeedsFault, DoneInv, SentIsDone

LEMMA ByHandIInv ==
    ASSUME IInv, NEW i \in Inquiry, RespondByHand(i) PROVE IInv'
<1>1. /\ responded' = responded \cup {i}
      /\ UNCHANGED <<arrived, led, status, lease, call, mails, faults>>
    BY DEF RespondByHand
<1>2. TypeOK'
    BY <1>1 DEF IInv, TypeOK
<1> QED
    BY <1>1, <1>2 DEF IInv, HandInv, LeaseExclusive, MailInv, ResendNeedsFault, DoneInv, SentIsDone

\* The context of a submission finds an agent, or finds none any more.
LEMMA RelateIInv ==
    ASSUME IInv, NEW s \in Submission, Relate(s) PROVE IInv'
<1>1. /\ led' \subseteq Source
      /\ UNCHANGED <<arrived, responded, status, lease, call, mails, faults>>
    BY DEF Relate, IInv, TypeOK, Source
<1>2. TypeOK'
    BY <1>1 DEF IInv, TypeOK
<1> QED
    BY <1>1, <1>2 DEF IInv, HandInv, LeaseExclusive, MailInv, ResendNeedsFault, DoneInv, SentIsDone

\* Every step keeps the invariant.
LEMMA NextIInv == IInv /\ [Next]_vars => IInv'
<1> SUFFICES ASSUME IInv, [Next]_vars PROVE IInv'
    OBVIOUS
<1>1. ASSUME NEW c \in Call, Work(c) PROVE IInv'
    BY <1>1, DraftingIInv, CronIInv, ExecutingIInv, WriteIInv DEF Work
<1>2. ASSUME NEW c \in Call, Abort(c) PROVE IInv'
    BY <1>2, RequestIInv
<1>3. ASSUME NEW c \in Call, Recover(c) PROVE IInv'
    BY <1>3, CronIInv
<1>4. ASSUME NEW c \in Call, NEW s \in Source, Arrive(c, s) PROVE IInv'
    BY <1>4, ArriveIInv
<1>5. ASSUME NEW c \in Call, NEW a \in Id, NEW mail \in BOOLEAN, Execute(c, a, mail) PROVE IInv'
    BY <1>5, RequestIInv
<1>6. ASSUME NEW c \in Call, NEW a \in Id, NEW pc \in {"dismiss", "snooze"}, Decide(c, a, pc)
      PROVE  IInv'
    BY <1>6, RequestIInv
<1>7. ASSUME NEW a \in Id, LeaseExpires(a) PROVE IInv'
    BY <1>7, LapseIInv
<1>8. ASSUME NEW i \in Inquiry, RespondByHand(i) PROVE IInv'
    BY <1>8, ByHandIInv
<1>9. ASSUME NEW s \in Submission, Relate(s) PROVE IInv'
    BY <1>9, RelateIInv
<1>10. CASE UNCHANGED vars
    BY <1>10 DEF vars, IInv, TypeOK, HandInv, LeaseExclusive, MailInv, ResendNeedsFault,
                DoneInv, SentIsDone
<1> QED
    BY <1>1, <1>2, <1>3, <1>4, <1>5, <1>6, <1>7, <1>8, <1>9, <1>10 DEF Next

\* The invariant holds in every reachable state.
THEOREM Invariance == Spec => []IInv
<1>1. Init => IInv
    BY InitIInv
<1>2. IInv /\ [Next]_vars => IInv'
    BY NextIInv
<1> QED
    BY <1>1, <1>2, PTL DEF Spec

\* The variables keep their types, whatever the requests and faults.
THEOREM TypeCorrect == Spec => []TypeOK
<1>1. IInv => TypeOK
    BY DEF IInv
<1> QED
    BY <1>1, Invariance, PTL

\* executeLeadResponse: no two requests execute one action at a time, although
\* the lease may lapse under either of them.
THEOREM Exclusive == Spec => []LeaseExclusive
<1>1. IInv => LeaseExclusive
    BY DEF IInv
<1> QED
    BY <1>1, Invariance, PTL

\* executeLeadResponse: an action is mailed again only after a fault.
THEOREM NoNeedlessResend == Spec => []ResendNeedsFault
<1>1. IInv => ResendNeedsFault
    BY DEF IInv
<1> QED
    BY <1>1, Invariance, PTL

\* executeLeadResponse: SENT is never written before the mail and the CRM
\* changes it stands for.
THEOREM SentMeansDone == Spec => []SentIsDone
<1>1. IInv => SentIsDone
    BY DEF IInv
<1> QED
    BY <1>1, Invariance, PTL

\* markSourceResponded: an execution records an inquiry as answered only when
\* its mail was taken.
THEOREM RespondedMeansMailed == Spec => RespondedIsMailed
<1> DEFINE A == Provider /\ call' # call =>
                  \A i \in responded' \ responded : \E n \in 1..MaxDrafts : mails[<<i, n>>] > 0
<1>1. IInv /\ [Next]_vars => [A]_vars
  <2> SUFFICES ASSUME IInv, Next, Provider, call' # call,
                      NEW i \in responded' \ responded
               PROVE  \E n \in 1..MaxDrafts : mails[<<i, n>>] > 0
      OBVIOUS
  <2>1. PICK c \in Call : Crm(c)
      BY DEF Next, Work, Drafting, Executing, Abort, Recover, Arrive, Relate, Execute, Decide,
             LeaseExpires, RespondByHand, Enqueue, DraftFails, Persist, Filter, EachLead,
             CheckResponded, Expire, Acquire, Send, SendFails, CrmFails, MarkFailed,
             Finalize, Dismiss, Snooze
  <2>2. call[c].mail /\ i = call[c].act[1]
      BY <2>1 DEF Crm
  <2>3. call[c].act \in Id /\ mails[call[c].act] > 0
      BY <2>1, <2>2 DEF Crm, IInv, TypeOK, DoneInv, OnAction, InHand
  <2>4. PICK s \in Source, n \in 1..MaxDrafts : call[c].act = <<s, n>>
      BY <2>3 DEF Id
  <2> QED
      BY <2>2, <2>3, <2>4
<1> QED
    BY <1>1, Invariance, PTL DEF Spec, RespondedIsMailed

=============================================================================
