--------------------------- MODULE Accounts_proofs --------------------------
(***************************************************************************)
(* Proofs about the components of MCComponents that keep accounts: the     *)
(* token of the provider, the lifecycle mails, the Google account, the     *)
(* users and the portals, and that show visitors what they may see: the    *)
(* catalog and the cache of responses, for any constants the assumptions of *)
(* MCComponents allow.  v1 to v9 are the variables of a component as its   *)
(* instance names them.                                                    *)
(***************************************************************************)
EXTENDS MCComponents, Sequences, FiniteSetTheorems, TLAPS

\* A component that is not chosen stands still.
LEMMA Chosen ==
    ASSUME [Next]_vars
    PROVE  /\ part' = part
           /\ part = "worker" => [Worker!WorkerNext]_(Worker!vars)
           /\ part = "documents" => [Docs!Next]_(Docs!vars)
           /\ part = "setup" => [Setup!Next]_(Setup!vars)
           /\ part = "memory" => [Memory!Next]_(Memory!vars)
           /\ part = "calendar" => [Events!Next]_(Events!vars)
           /\ part = "google" => [Google!Next]_(Google!vars)
           /\ part = "users" => [People!Next]_(People!vars)
           /\ part = "portals" => [Sites!Next]_(Sites!vars)
           /\ part = "activity" => [Activity!Next]_(Activity!vars)
           /\ part = "tracks" => [Tracks!Next]_(Tracks!vars)
           /\ part = "links" => [Links!Next]_(Links!vars)
           /\ part = "index" => [Index!Next]_(Index!vars)
           /\ part = "migration" => [Migration!Next]_(Migration!vars)
           /\ part = "catalog" => [Homes!Next]_(Homes!vars)
           /\ part = "cache" => [Cache!Next]_(Cache!vars)
           /\ part = "saved" => [Alerts!Next]_(Alerts!vars)
           /\ part = "tags" => [Tags!Next]_(Tags!vars)
           /\ part = "photos" => [Photos!Next]_(Photos!vars)
           /\ part = "token" => [Token!Next]_(Token!vars)
           /\ part = "inbox" => [Inbox!Next]_(Inbox!vars)
           /\ part = "mail" => [Mail!Next]_(Mail!mailVars)
<1>1. CASE UNCHANGED vars
    BY <1>1 DEF vars, Worker!vars, Docs!vars, Setup!vars, Memory!vars, Events!vars,
       Google!vars, People!vars, Sites!vars, Activity!vars, Tracks!vars, Links!vars,
       Index!vars, Migration!vars, Homes!vars, Cache!vars, Alerts!vars, Tags!vars,
       Photos!vars, Token!vars, Inbox!vars, Mail!mailVars
<1>2. CASE Next
    BY <1>2 DEF Next
<1> QED
    BY <1>1, <1>2


-----------------------------------------------------------------------------
(* The token of the MLS provider.                                          *)
(* v1 now, v2 cached, v3 inflight, v4 call, v5 caller.                     *)

LEMMA TokenInitially == ASSUME Token!Bounds PROVE Token!Init => Token!IInv
    BY DEF Token!Bounds, Token!Init, Token!IInv, Token!NoToken, Token!Idle, Token!NotOut,
       Token!State, Token!Out, Token!Kept, Token!Settled, Token!Calls

LEMMA TokenTickStep == ASSUME Token!Bounds, Token!IInv, Token!Tick PROVE Token!IInv'
    BY DEF Token!Bounds, Token!Tick, Token!IInv, Token!Out, Token!Kept, Token!Settled

\* A request goes where it may be, and nothing else changes.
LEMMA TokenCallerStep ==
    ASSUME Token!IInv, NEW c \in Caller, NEW s \in {"idle", "waiting", "sent", "failed"},
           NEW n \in Token!Calls,
           v5' = [v5 EXCEPT ![c] = [step |-> s, of |-> n]],
           UNCHANGED <<v1, v3, v4>>,
           s = "waiting" => v4[n].state # "new",
           s = "sent" => v4[n].state = "token",
           v2' \in [of : {0} \cup Token!Calls, expires : Nat],
           v2'.of # 0 => v4[v2'.of].state = "token"
    PROVE  Token!IInv'
<1> USE DEF Token!IInv
<1> DEFINE r == [step |-> s, of |-> n]
<1>1. /\ r \in [step : {"idle", "waiting", "sent", "failed"}, of : {0} \cup Token!Calls]
      /\ r.step = s
      /\ r.of = n
    OBVIOUS
<1> HIDE DEF r
<1>2. /\ v5' \in [Caller -> [step : {"idle", "waiting", "sent", "failed"}, of : {0} \cup Token!Calls]]
      /\ v5'[c] = r /\ \A d \in Caller : d # c => v5'[d] = v5[d]
    BY <1>1 DEF r
<1>3. Token!Settled'
    BY <1>1, <1>2 DEF Token!Settled
<1> QED
    BY <1>2, <1>3 DEF Token!Kept, Token!Out

LEMMA TokenUseStep ==
    ASSUME Token!IInv, NEW c \in Caller, Token!UseCached(c)
    PROVE  Token!IInv'
<1>1. v2.of \in Token!Calls /\ v4[v2.of].state = "token"
    BY DEF Token!UseCached, Token!Valid, Token!IInv
<1> QED
    BY <1>1, TokenCallerStep DEF Token!UseCached, Token!IInv

LEMMA TokenAskStep == ASSUME Token!IInv, NEW c \in Caller, Token!Ask(c) PROVE Token!IInv'
<1>1. CASE v3 # 0
  <2>1. v3 \in Token!Calls /\ v4[v3].state = "out"
      BY <1>1 DEF Token!IInv, Token!Out
  <2> QED
      BY <1>1, <2>1, TokenCallerStep DEF Token!Ask, Token!IInv
<1>2. CASE v3 = 0
  <2> USE DEF Token!IInv
  <2>1. PICK n \in Token!Calls : Token!Calling(c, n)
      BY <1>2 DEF Token!Ask
  <2>2. /\ v4[n].state = "new" /\ v3' = n
        /\ v4' = [v4 EXCEPT ![n].state = "out"]
        /\ v5' = [v5 EXCEPT ![c] = [step |-> "waiting", of |-> n]]
        /\ UNCHANGED <<v1, v2>>
      BY <2>1 DEF Token!Calling, Token!Ask
  <2>3. /\ v4' \in [Token!Calls -> [state : Token!State, expires : Nat]]
        /\ v4'[n].state = "out"
        /\ \A m \in Token!Calls : m # n => v4'[m] = v4[m]
      BY <2>2 DEF Token!State
  <2>4. /\ v5' \in [Caller -> [step : {"idle", "waiting", "sent", "failed"}, of : {0} \cup Token!Calls]]
        /\ v5'[c].step = "waiting" /\ v5'[c].of = n
        /\ \A d \in Caller : d # c => v5'[d] = v5[d]
      BY <2>2
  <2>5. Token!Out = {}
      BY <1>2 DEF Token!Kept, Token!Out, Token!Calls
  <2>6. Token!Out' = {n}
      BY <2>3, <2>5 DEF Token!Out
  <2>7. Token!Settled'
      BY <2>2, <2>3, <2>4 DEF Token!Settled
  <2> QED
      BY <2>2, <2>3, <2>4, <2>6, <2>7 DEF Token!Kept
<1> QED
    BY <1>1, <1>2

LEMMA TokenAnswerStep ==
    ASSUME Token!Bounds, Token!IInv, NEW n \in Token!Calls, NEW ok \in BOOLEAN,
           Token!Answer(n, ok)
    PROVE  Token!IInv'
<1> USE DEF Token!IInv
<1> DEFINE a == IF ok THEN [state |-> "token", expires |-> v1 + Life]
                ELSE [state |-> "failed", expires |-> 0]
<1>1. v4[n].state = "out" /\ v4' = [v4 EXCEPT ![n] = a] /\ v3' = 0
      /\ UNCHANGED <<v1, v2, v5>>
    BY DEF Token!Answer
<1>2. a \in [state : Token!State, expires : Nat] /\ a.state \in {"token", "failed"}
    BY DEF Token!State, Token!Bounds
<1> HIDE DEF a
<1>3. /\ v4' \in [Token!Calls -> [state : Token!State, expires : Nat]] /\ v4'[n] = a
      /\ \A m \in Token!Calls : m # n => v4'[m] = v4[m]
    BY <1>1, <1>2
<1>4. Token!Out = {n}
    BY <1>1 DEF Token!Kept, Token!Out
<1>5. Token!Out' = {}
    BY <1>2, <1>3, <1>4 DEF Token!Out
<1>6. Token!Settled'
    BY <1>1, <1>2, <1>3 DEF Token!Settled
<1> QED
    BY <1>1, <1>3, <1>5, <1>6 DEF Token!Kept

LEMMA TokenResumeStep ==
    ASSUME Token!IInv, NEW c \in Caller, Token!Resume(c)
    PROVE  Token!IInv'
<1> DEFINE n == v5[c].of
<1>1. v5[c].step = "waiting" /\ n \in Token!Calls /\ n \notin Token!Out
    BY DEF Token!Resume, Token!IInv, Token!Settled
<1>2. /\ v4[n] \in [state : Token!State, expires : Nat]
      /\ v5 \in [Caller -> [step : {"idle", "waiting", "sent", "failed"}, of : {0} \cup Token!Calls]]
    BY <1>1 DEF Token!IInv
<1>3. \A s \in {"sent", "failed"} : [v5 EXCEPT ![c].step = s] = [v5 EXCEPT ![c] = [step |-> s, of |-> n]]
  <2> SUFFICES ASSUME NEW s \in {"sent", "failed"}
               PROVE  [v5 EXCEPT ![c].step = s] = [v5 EXCEPT ![c] = [step |-> s, of |-> n]]
      OBVIOUS
  <2>1. [v5[c] EXCEPT !.step = s] = [step |-> s, of |-> n]
      BY <1>2
  <2> QED
      BY <2>1
<1>4. CASE v4[n].state = "token"
  <2>1. /\ v2' = [of |-> n, expires |-> v4[n].expires]
        /\ v5' = [v5 EXCEPT ![c] = [step |-> "sent", of |-> n]]
        /\ UNCHANGED <<v1, v3, v4>>
      BY <1>3, <1>4 DEF Token!Resume
  <2> QED
      BY <1>1, <1>2, <1>4, <2>1, TokenCallerStep
<1>5. CASE v4[n].state # "token"
  <2>1. /\ v2' = v2
        /\ v5' = [v5 EXCEPT ![c] = [step |-> "failed", of |-> n]]
        /\ UNCHANGED <<v1, v3, v4>>
      BY <1>3, <1>5 DEF Token!Resume
  <2> QED
      BY <1>1, <2>1, TokenCallerStep DEF Token!IInv
<1> QED
    BY <1>4, <1>5

LEMMA TokenInductive ==
    ASSUME Token!Bounds
    PROVE  Token!IInv /\ [Token!Next]_(Token!vars) => Token!IInv'
<1> SUFFICES ASSUME Token!IInv, [Token!Next]_(Token!vars) PROVE Token!IInv'
    OBVIOUS
<1>1. CASE UNCHANGED Token!vars
    BY <1>1 DEF Token!vars, Token!IInv, Token!Out, Token!Kept, Token!Settled
<1> QED
    BY <1>1, TokenTickStep, TokenUseStep, TokenAskStep, TokenAnswerStep, TokenResumeStep
       DEF Token!Next

LEMMA TokenProperties ==
    ASSUME Token!Bounds
    PROVE  Token!IInv => Token!TypeOK /\ Token!SingleFlight
    BY DEF Token!IInv, Token!TypeOK, Token!Out, Token!State, Token!SingleFlight, Token!Kept,
       Token!Settled

-----------------------------------------------------------------------------
(* The lifecycle mails.                                                    *)
(* v1 row, v2 taken, v3 call, v4 faults.                                   *)

LEMMA MailInitially == ASSUME Mail!Bounds PROVE Mail!MailInit => Mail!IInv
<1> SUFFICES ASSUME Mail!MailInit PROVE Mail!IInv
    OBVIOUS
<1>1. (CHOOSE k \in MailKind : TRUE) \in MailKind
    BY DEF Mail!Bounds
<1>2. Mail!NoCall \in [step : Mail!Steps, kind : MailKind] /\ Mail!NoCall.step = "idle"
    BY <1>1 DEF Mail!NoCall, Mail!Steps
<1>3. Mail!Typed /\ \A c \in Sender : v3[c].step = "idle"
    BY <1>2 DEF Mail!MailInit, Mail!Typed, Mail!Bounds
<1> QED
    BY <1>3 DEF Mail!MailInit, Mail!IInv, Mail!Typed, Mail!Alone, Mail!Counted, Mail!Stands,
       Mail!Works, Mail!RowMeansMail, Mail!AtWork

\* A call takes a step and keeps its kind.
LEMMA MailStepped ==
    ASSUME Mail!IInv, NEW c \in Sender, NEW from, NEW to \in Mail!Steps,
           Mail!Step(c, from, to)
    PROVE  /\ v3' \in [Sender -> [step : Mail!Steps, kind : MailKind]]
           /\ v3[c].step = from /\ v3'[c].step = to
           /\ v3[c].kind \in MailKind /\ v3'[c].kind = v3[c].kind
           /\ \A d \in Sender : d # c => v3'[d] = v3[d]
<1> DEFINE r == [v3[c] EXCEPT !.step = to]
<1>1. v3[c] \in [step : Mail!Steps, kind : MailKind]
    BY DEF Mail!IInv, Mail!Typed
<1>2. r \in [step : Mail!Steps, kind : MailKind] /\ r.step = to /\ r.kind = v3[c].kind
    BY <1>1
<1>3. v3' = [v3 EXCEPT ![c] = r] /\ v3[c].step = from
    BY DEF Mail!Step
<1> HIDE DEF r
<1> QED
    BY <1>1, <1>2, <1>3 DEF Mail!IInv, Mail!Typed

-----------------------------------------------------------------------------

LEMMA MailAskStep ==
    ASSUME Mail!IInv, NEW c \in Sender, NEW k \in MailKind, Mail!Ask(c, k)
    PROVE  Mail!IInv'
<1>1. /\ v3' \in [Sender -> [step : Mail!Steps, kind : MailKind]]
      /\ v3'[c].step = "create" /\ v3[c].step = "idle"
      /\ \A d \in Sender : d # c => v3'[d] = v3[d]
    BY DEF Mail!Ask, Mail!IInv, Mail!Typed, Mail!Steps
<1>2. \A d \in Sender, j \in MailKind : (Mail!Works(d, j) <=> Mail!Works(d, j)')
    BY <1>1 DEF Mail!Works
<1> QED
    BY <1>1, <1>2 DEF Mail!Ask, Mail!IInv, Mail!Typed, Mail!Alone, Mail!Counted,
       Mail!Stands, Mail!Works, Mail!RowMeansMail, Mail!AtWork

LEMMA MailSkipStep ==
    ASSUME Mail!IInv, NEW c \in Sender, Mail!Step(c, "create", "idle"),
           UNCHANGED <<v1, v2, v4>>
    PROVE  Mail!IInv'
<1>1. /\ v3' \in [Sender -> [step : Mail!Steps, kind : MailKind]]
      /\ v3[c].step = "create" /\ v3'[c].step = "idle"
      /\ \A d \in Sender : d # c => v3'[d] = v3[d]
    BY MailStepped DEF Mail!Steps
<1>2. \A d \in Sender, j \in MailKind : (Mail!Works(d, j) <=> Mail!Works(d, j)')
    BY <1>1 DEF Mail!Works
<1> QED
    BY <1>1, <1>2 DEF Mail!IInv, Mail!Typed, Mail!Alone, Mail!Counted, Mail!Stands,
       Mail!Works, Mail!RowMeansMail, Mail!AtWork

LEMMA MailMakeStep ==
    ASSUME Mail!IInv, NEW c \in Sender, Mail!Step(c, "create", "send"),
           v1[v3[c].kind] = "none", v1' = [v1 EXCEPT ![v3[c].kind] = "made"],
           UNCHANGED <<v2, v4>>
    PROVE  Mail!IInv'
<1> DEFINE k == v3[c].kind
<1>1. /\ v3' \in [Sender -> [step : Mail!Steps, kind : MailKind]]
      /\ v3[c].step = "create" /\ v3'[c].step = "send"
      /\ k \in MailKind /\ v3'[c].kind = k
      /\ \A d \in Sender : d # c => v3'[d] = v3[d]
    BY MailStepped DEF Mail!Steps
<1>2. /\ v1' \in [MailKind -> {"none", "made", "sent"}]
      /\ v1'[k] = "made" /\ \A j \in MailKind : j # k => v1'[j] = v1[j]
    BY <1>1 DEF Mail!IInv, Mail!Typed
<1>3. v1[k] = "none"
    OBVIOUS
<1> HIDE DEF k
<1>4. \A d \in Sender : ~Mail!Works(d, k)
    BY <1>1, <1>3 DEF Mail!IInv, Mail!Alone
<1>5. \A d \in Sender, j \in MailKind : (Mail!Works(d, j)' <=> (Mail!Works(d, j) \/ (d = c /\ j = k)))
    BY <1>1 DEF Mail!Works
<1>6. Mail!Alone'
    BY <1>1, <1>2, <1>4, <1>5 DEF Mail!IInv, Mail!Alone
<1>7. v2[k] <= v4
    BY <1>1, <1>3 DEF Mail!IInv, Mail!Counted
<1>8. Mail!Counted'
    BY <1>1, <1>2, <1>4, <1>5, <1>7 DEF Mail!IInv, Mail!Counted
<1>9. Mail!RowMeansMail'
  <2> SUFFICES ASSUME NEW j \in MailKind, v1'[j] # "none", ~Mail!AtWork(j)'
               PROVE  v2[j] > 0 \/ v4 > 0
      BY DEF Mail!RowMeansMail
  <2>1. j # k
      BY <1>1, <1>5 DEF Mail!AtWork, Mail!Works
  <2>2. ~Mail!AtWork(j)
      BY <1>5, <2>1 DEF Mail!AtWork, Mail!Works
  <2> QED
      BY <1>2, <2>1, <2>2 DEF Mail!IInv, Mail!Stands, Mail!RowMeansMail
<1>10. Mail!Stands'
    BY <1>1, <1>9 DEF Mail!IInv, Mail!Stands
<1> QED
    BY <1>1, <1>2, <1>6, <1>8, <1>10 DEF Mail!IInv, Mail!Typed

\* A call that is at work goes on with its mail.
LEMMA MailSendStep ==
    ASSUME Mail!IInv, NEW c \in Sender, Mail!Send(c) PROVE Mail!IInv'
<1> DEFINE k == v3[c].kind
<1>1. /\ v3' \in [Sender -> [step : Mail!Steps, kind : MailKind]]
      /\ v3[c].step = "send" /\ v3'[c].step = "record"
      /\ k \in MailKind /\ v3'[c].kind = k
      /\ \A d \in Sender : d # c => v3'[d] = v3[d]
    BY MailStepped DEF Mail!Send, Mail!Steps
<1>2. /\ v2' \in [MailKind -> Nat]
      /\ v2'[k] = v2[k] + 1 /\ \A j \in MailKind : j # k => v2'[j] = v2[j]
    BY <1>1 DEF Mail!Send, Mail!IInv, Mail!Typed
<1>3. v1' = v1 /\ v4' = v4 /\ v4 \in Nat /\ v2 \in [MailKind -> Nat]
    BY DEF Mail!Send, Mail!IInv, Mail!Typed
<1> HIDE DEF k
<1>4. Mail!Works(c, k) /\ \A d \in Sender : d # c => ~Mail!Works(d, k)
  <2>1. Mail!Works(c, k)
      BY <1>1 DEF Mail!Works, k
  <2> QED
      BY <1>1, <2>1 DEF Mail!IInv, Mail!Alone
<1>5. \A d \in Sender, j \in MailKind : (Mail!Works(d, j)' <=> Mail!Works(d, j))
    BY <1>1 DEF Mail!Works, k
<1>6. Mail!Alone'
    BY <1>3, <1>5 DEF Mail!IInv, Mail!Alone
<1>7. v2[k] <= v4 /\ v1[k] = "made"
    BY <1>1, <1>4 DEF Mail!IInv, Mail!Counted, Mail!Alone
<1>8. Mail!Counted'
    BY <1>1, <1>2, <1>3, <1>4, <1>5, <1>7 DEF Mail!IInv, Mail!Counted
<1>9. Mail!RowMeansMail'
  <2>1. \A j \in MailKind : (Mail!AtWork(j)' <=> Mail!AtWork(j))
      BY <1>5 DEF Mail!AtWork, Mail!Works
  <2> QED
      BY <1>2, <1>3, <2>1 DEF Mail!IInv, Mail!Stands, Mail!RowMeansMail
<1>10. Mail!Stands'
    BY <1>1, <1>2, <1>3, <1>9, <1>4 DEF Mail!IInv, Mail!Stands, Mail!Works, Mail!Typed
<1> QED
    BY <1>1, <1>2, <1>3, <1>6, <1>8, <1>10 DEF Mail!IInv, Mail!Typed

LEMMA MailRefuseStep == ASSUME Mail!IInv, NEW c \in Sender, Mail!Refuse(c) PROVE Mail!IInv'
<1>1. /\ v3' \in [Sender -> [step : Mail!Steps, kind : MailKind]]
      /\ v3[c].step = "send" /\ v3'[c].step = "cleanup"
      /\ v3'[c].kind = v3[c].kind
      /\ \A d \in Sender : d # c => v3'[d] = v3[d]
    BY MailStepped DEF Mail!Refuse, Mail!Steps
<1>2. \A d \in Sender, j \in MailKind : (Mail!Works(d, j)' <=> Mail!Works(d, j))
    BY <1>1 DEF Mail!Works
<1>3. UNCHANGED <<v1, v2, v4>>
    BY DEF Mail!Refuse
<1>4. \A d \in Sender : v3'[d].step = "record" <=> v3[d].step = "record"
    BY <1>1
<1> QED
    BY <1>1, <1>2, <1>3, <1>4 DEF Mail!IInv, Mail!Typed, Mail!Alone, Mail!Counted,
       Mail!Stands, Mail!Works, Mail!RowMeansMail, Mail!AtWork

LEMMA MailLoseStep ==
    ASSUME Mail!Bounds, Mail!IInv, NEW c \in Sender, Mail!LoseAnswer(c)
    PROVE  Mail!IInv'
<1> DEFINE k == v3[c].kind
<1>1. /\ v3' \in [Sender -> [step : Mail!Steps, kind : MailKind]]
      /\ v3[c].step = "send" /\ v3'[c].step = "cleanup"
      /\ k \in MailKind /\ v3'[c].kind = k
      /\ \A d \in Sender : d # c => v3'[d] = v3[d]
    BY MailStepped DEF Mail!LoseAnswer, Mail!Steps
<1>2. /\ v2' \in [MailKind -> Nat]
      /\ v2'[k] = v2[k] + 1 /\ \A j \in MailKind : j # k => v2'[j] = v2[j]
    BY <1>1 DEF Mail!LoseAnswer, Mail!IInv, Mail!Typed
<1>3. /\ v1' = v1 /\ v4' = v4 + 1 /\ v4 \in Nat /\ v2 \in [MailKind -> Nat]
      /\ v4' \in 0..MailFaults
    BY DEF Mail!LoseAnswer, Mail!IInv, Mail!Typed, Mail!Bounds
<1> HIDE DEF k
<1>4. Mail!Works(c, k)
    BY <1>1 DEF Mail!Works, k
<1>5. \A d \in Sender, j \in MailKind : (Mail!Works(d, j)' <=> Mail!Works(d, j))
    BY <1>1 DEF Mail!Works, k
<1>6. Mail!Alone'
    BY <1>3, <1>5 DEF Mail!IInv, Mail!Alone
<1>7. v2[k] <= v4 /\ v1[k] = "made"
    BY <1>1, <1>4 DEF Mail!IInv, Mail!Counted, Mail!Alone
<1>8. \A d \in Sender : d # c => (v3'[d].step = v3[d].step /\ v3'[d].kind = v3[d].kind)
    BY <1>1
<1>9. Mail!Counted'
  <2>1. \A j \in MailKind : v2'[j] <= 1 + v4 /\ (j = k \/ v2'[j] = v2[j])
      BY <1>2, <1>3, <1>7 DEF Mail!IInv, Mail!Counted
  <2>2. \A j \in MailKind : v2'[j] <= v4'
      BY <1>3, <2>1
  <2> QED
      BY <1>3, <1>2, <2>2 DEF Mail!Counted
<1>10. Mail!Stands'
    BY <1>1, <1>2, <1>3 DEF Mail!IInv, Mail!Stands, Mail!RowMeansMail, Mail!Typed
<1> QED
    BY <1>1, <1>2, <1>3, <1>6, <1>9, <1>10 DEF Mail!IInv, Mail!Typed

LEMMA MailCleanupStep ==
    ASSUME Mail!IInv, NEW c \in Sender, Mail!Cleanup(c)
    PROVE  Mail!IInv'
<1> DEFINE k == v3[c].kind
<1>1. /\ v3' \in [Sender -> [step : Mail!Steps, kind : MailKind]]
      /\ v3[c].step = "cleanup" /\ v3'[c].step = "idle"
      /\ k \in MailKind /\ v3'[c].kind = k
      /\ \A d \in Sender : d # c => v3'[d] = v3[d]
    BY MailStepped DEF Mail!Cleanup, Mail!Steps
<1>2. /\ v1' \in [MailKind -> {"none", "made", "sent"}]
      /\ v1'[k] = "none" /\ \A j \in MailKind : j # k => v1'[j] = v1[j]
    BY <1>1 DEF Mail!Cleanup, Mail!IInv, Mail!Typed
<1>3. UNCHANGED <<v2, v4>>
    BY DEF Mail!Cleanup
<1> HIDE DEF k
<1>4. Mail!Works(c, k)
    BY <1>1 DEF Mail!Works, k
<1>5. \A d \in Sender, j \in MailKind : (Mail!Works(d, j)' <=> (Mail!Works(d, j) /\ d # c))
    BY <1>1 DEF Mail!Works, k
<1>6. \A d \in Sender, j \in MailKind : j = k => ~Mail!Works(d, j)'
    BY <1>1, <1>4, <1>5 DEF Mail!IInv, Mail!Alone
<1>7. Mail!Alone'
    BY <1>2, <1>5, <1>6 DEF Mail!IInv, Mail!Alone
<1>8. v2[k] <= v4
    BY <1>1, <1>4 DEF Mail!IInv, Mail!Counted
<1>9. Mail!Counted'
    BY <1>1, <1>2, <1>3, <1>5, <1>6, <1>8 DEF Mail!IInv, Mail!Counted
<1>10. Mail!RowMeansMail'
  <2> SUFFICES ASSUME NEW j \in MailKind, v1'[j] # "none", ~Mail!AtWork(j)'
               PROVE  v2[j] > 0 \/ v4 > 0
      BY <1>3 DEF Mail!RowMeansMail
  <2>1. j # k
      BY <1>2
  <2>2. ~Mail!Works(c, j)
      BY <1>1, <2>1 DEF Mail!Works, k
  <2>3. ~Mail!AtWork(j)
      BY <1>5, <2>2 DEF Mail!AtWork, Mail!Works
  <2> QED
      BY <1>2, <2>1, <2>3 DEF Mail!IInv, Mail!Stands, Mail!RowMeansMail
<1>11. Mail!Stands'
    BY <1>1, <1>3, <1>10 DEF Mail!IInv, Mail!Stands
<1> QED
    BY <1>1, <1>2, <1>3, <1>7, <1>9, <1>11 DEF Mail!IInv, Mail!Typed

LEMMA MailRecordStep == ASSUME Mail!IInv, NEW c \in Sender, Mail!Record(c) PROVE Mail!IInv'
<1> DEFINE k == v3[c].kind
<1>1. /\ v3' \in [Sender -> [step : Mail!Steps, kind : MailKind]]
      /\ v3[c].step = "record" /\ v3'[c].step = "idle"
      /\ k \in MailKind /\ v3'[c].kind = k
      /\ \A d \in Sender : d # c => v3'[d] = v3[d]
    BY MailStepped DEF Mail!Record, Mail!Steps
<1>2. /\ v1' \in [MailKind -> {"none", "made", "sent"}]
      /\ v1'[k] = "sent" /\ \A j \in MailKind : j # k => v1'[j] = v1[j]
    BY <1>1 DEF Mail!Record, Mail!IInv, Mail!Typed
<1>3. UNCHANGED <<v2, v4>>
    BY DEF Mail!Record
<1>4. v2[k] > 0
    BY <1>1 DEF Mail!IInv, Mail!Stands
<1> HIDE DEF k
<1>5. Mail!Works(c, k)
    BY <1>1 DEF Mail!Works, k
<1>6. \A d \in Sender, j \in MailKind : (Mail!Works(d, j)' <=> (Mail!Works(d, j) /\ d # c))
    BY <1>1 DEF Mail!Works, k
<1>7. \A d \in Sender, j \in MailKind : j = k => ~Mail!Works(d, j)'
    BY <1>1, <1>5, <1>6 DEF Mail!IInv, Mail!Alone
<1>8. Mail!Alone'
    BY <1>2, <1>6, <1>7 DEF Mail!IInv, Mail!Alone
<1>9. Mail!Counted'
    BY <1>1, <1>2, <1>3, <1>6, <1>7 DEF Mail!IInv, Mail!Counted
<1>10. Mail!RowMeansMail'
  <2> SUFFICES ASSUME NEW j \in MailKind, v1'[j] # "none", ~Mail!AtWork(j)', j # k
               PROVE  v2[j] > 0 \/ v4 > 0
      BY <1>3, <1>4 DEF Mail!RowMeansMail
  <2>1. ~Mail!Works(c, j)
      BY <1>1 DEF Mail!Works, k
  <2>2. ~Mail!AtWork(j)
      BY <1>6, <2>1 DEF Mail!AtWork, Mail!Works
  <2> QED
      BY <1>2, <2>2 DEF Mail!IInv, Mail!Stands, Mail!RowMeansMail
<1>11. Mail!Stands'
    BY <1>1, <1>3, <1>10 DEF Mail!IInv, Mail!Stands
<1> QED
    BY <1>1, <1>2, <1>3, <1>8, <1>9, <1>11 DEF Mail!IInv, Mail!Typed

LEMMA MailStopStep ==
    ASSUME Mail!Bounds, Mail!IInv, NEW c \in Sender, Mail!Stop(c)
    PROVE  Mail!IInv'
<1>1. Mail!Step(c, v3[c].step, "idle")
    BY DEF Mail!Stop, Mail!Step
<1>2. /\ v3' \in [Sender -> [step : Mail!Steps, kind : MailKind]]
      /\ v3'[c].step = "idle"
      /\ \A d \in Sender : d # c => v3'[d] = v3[d]
    BY <1>1, MailStepped DEF Mail!Steps
<1>3. /\ UNCHANGED <<v1, v2>> /\ v4' = v4 + 1 /\ v4 \in Nat
      /\ v4' \in 0..MailFaults /\ v2 \in [MailKind -> Nat]
    BY DEF Mail!Stop, Mail!IInv, Mail!Typed, Mail!Bounds
<1>4. \A d \in Sender, j \in MailKind : (Mail!Works(d, j)' <=> (Mail!Works(d, j) /\ d # c))
    BY <1>2 DEF Mail!Works
<1>5. Mail!Alone'
    BY <1>3, <1>4 DEF Mail!IInv, Mail!Alone
<1>6. Mail!Counted'
  <2>1. \A j \in MailKind : v2[j] <= v4'
      BY <1>3 DEF Mail!IInv, Mail!Counted
  <2> QED
      BY <1>3, <2>1 DEF Mail!Counted
<1>7. Mail!Stands'
    BY <1>2, <1>3 DEF Mail!IInv, Mail!Stands, Mail!RowMeansMail
<1> QED
    BY <1>2, <1>3, <1>5, <1>6, <1>7 DEF Mail!IInv, Mail!Typed

LEMMA MailInductive ==
    ASSUME Mail!Bounds
    PROVE  Mail!IInv /\ [Mail!Next]_(Mail!mailVars) => Mail!IInv'
<1> SUFFICES ASSUME Mail!IInv, [Mail!Next]_(Mail!mailVars) PROVE Mail!IInv'
    OBVIOUS
<1>1. CASE UNCHANGED Mail!mailVars
    BY <1>1 DEF Mail!mailVars, Mail!IInv, Mail!Typed, Mail!Alone, Mail!Counted, Mail!Stands,
       Mail!Works, Mail!RowMeansMail, Mail!AtWork
<1>2. ASSUME NEW c \in Sender, Mail!MakeRow(c) PROVE Mail!IInv'
    BY <1>2, MailMakeStep, MailSkipStep DEF Mail!MakeRow
<1>3. ASSUME NEW c \in Sender, Mail!Work(c) PROVE Mail!IInv'
    BY <1>2, <1>3, MailSendStep, MailRefuseStep, MailCleanupStep, MailRecordStep
       DEF Mail!Work
<1> QED
    BY <1>1, <1>3, MailAskStep, MailLoseStep, MailStopStep DEF Mail!Next, Mail!MailNext

LEMMA MailProperties ==
    ASSUME Mail!Bounds
    PROVE  Mail!IInv => Mail!MailTypeOK /\ Mail!OneMailPerKind /\ Mail!RowMeansMail
<1> SUFFICES ASSUME Mail!IInv PROVE Mail!MailTypeOK
    BY DEF Mail!IInv, Mail!Counted, Mail!OneMailPerKind, Mail!Stands
<1>1. ASSUME NEW k \in MailKind PROVE v2[k] \in 0..(MailFaults + 1)
    BY DEF Mail!IInv, Mail!Typed, Mail!Counted, Mail!Bounds
<1> QED
    BY <1>1 DEF Mail!IInv, Mail!Typed, Mail!Steps, Mail!MailTypeOK

-----------------------------------------------------------------------------
(* The Google account.                                                     *)
(* v1 row, v2 rows, v3 req, v4 mixed.                                      *)

LEMMA GoogleInitially == ASSUME MaxRows \in Nat PROVE Google!Init => Google!IInv
<1> SUFFICES ASSUME Google!Init PROVE Google!IInv
    OBVIOUS
<1>1. /\ Google!NoRow \in Google!Row
      /\ Google!NoRow.id = 0
      /\ Google!NoRow.access = Google!Nobody
      /\ Google!NoRow.refresh = Google!Nobody
    BY DEF Google!NoRow, Google!Row, Google!Owner
<1>2. Google!Idle \in Google!Requests /\ Google!Idle.pc = "idle" /\ Google!Idle.id = 0
    BY DEF Google!Idle, Google!Requests, Google!Pc, Google!Owner
<1>3. v1 = Google!NoRow /\ v2 = 0 /\ v3 = [c \in Request |-> Google!Idle]
    BY DEF Google!Init
<1>4. v4 \in BOOLEAN
    BY DEF Google!Init
<1>5. v2 \in 0..MaxRows /\ v3 \in [Request -> Google!Requests]
    BY <1>2, <1>3
<1>6. Google!TypeOK
    BY <1>1, <1>3, <1>4, <1>5 DEF Google!TypeOK, Google!Requests
<1>7. Google!Ids /\ Google!Own
    BY <1>1, <1>2, <1>3 DEF Google!Ids, Google!Own
<1>8. Google!TokensOfAccount
    BY <1>1, <1>3 DEF Google!TokensOfAccount
<1> QED
    BY <1>6, <1>7, <1>8 DEF Google!IInv

LEMMA GoogleTyped ==
    ASSUME Google!IInv, NEW c \in Request
    PROVE  /\ v3[c] \in Google!Requests /\ v1 \in Google!Row /\ v2 \in 0..MaxRows
           /\ v3 \in [Request -> Google!Requests]
    BY DEF Google!IInv, Google!TypeOK, Google!Requests

\* One request moves, and the row stays what it is.
LEMMA GoogleReqStep ==
    ASSUME Google!IInv, NEW c \in Request, NEW q \in Google!Requests,
           v3' = [v3 EXCEPT ![c] = q],
           UNCHANGED <<v1, v2, v4>>,
           q.id <= v2, q.pc \in {"refresh", "save"} => q.id # 0,
           ~v4 /\ q.id = v1.id /\ q.pc = "refresh" => q.refresh = v1.account,
           ~v4 /\ q.id = v1.id /\ q.pc = "save" => q.token = v1.account
    PROVE  Google!IInv'
<1>1. /\ v3' \in [Request -> Google!Requests] /\ v3'[c] = q
      /\ \A d \in Request : d # c => v3'[d] = v3[d]
    BY GoogleTyped
<1>2. Google!Ids'
    BY <1>1 DEF Google!IInv, Google!Ids
<1>3. ~v4' => Google!Own'
    BY <1>1 DEF Google!IInv, Google!Own
<1> QED
    BY <1>1, <1>2, <1>3 DEF Google!IInv, Google!TypeOK, Google!TokensOfAccount,
       Google!Requests

LEMMA GoogleIdleRequest ==
    ASSUME MaxRows \in Nat
    PROVE  Google!Idle \in Google!Requests /\ Google!Idle.pc = "idle" /\ Google!Idle.id = 0
    BY DEF Google!Idle, Google!Requests, Google!Pc, Google!Owner

\* A request that ends leaves nothing behind.
LEMMA GoogleAnswerStep ==
    ASSUME MaxRows \in Nat, Google!IInv, NEW c \in Request, Google!Answer(c),
           UNCHANGED <<v1, v2, v4>>
    PROVE  Google!IInv'
<1>1. 0 <= v2
    BY GoogleTyped
<1> QED
    BY <1>1, GoogleIdleRequest, GoogleReqStep DEF Google!Answer

\* The row changes with its requests: what holds of each is said once.
LEMMA GoogleRowStep ==
    ASSUME MaxRows \in Nat, Google!IInv, NEW c \in Request, v1' \in Google!Row,
           v1'.id <= v2,
           v3' \in [Request -> Google!Requests], UNCHANGED v2, v4' \in BOOLEAN,
           \A d \in Request : d # c => v3'[d] = v3[d],
           v3'[c].id <= v2, v3'[c].pc \notin {"refresh", "save"},
           ~v4' => /\ ~v4
                   /\ v1'.access \in {v1'.account, Google!Nobody}
                   /\ v1'.refresh \in {v1'.account, Google!Nobody}
                   /\ \/ v1'.id = v1.id /\ v1'.account = v1.account
                      \/ \A d \in Request : d # c /\ v3[d].pc \in {"refresh", "save"} => v3[d].id # v1'.id
    PROVE  Google!IInv'
<1>1. Google!Ids'
    BY DEF Google!IInv, Google!Ids
<1>2. ~v4' => Google!Own'
    BY DEF Google!IInv, Google!Own
<1> QED
    BY <1>1, <1>2 DEF Google!IInv, Google!TypeOK, Google!TokensOfAccount, Google!Requests

-----------------------------------------------------------------------------

LEMMA GoogleAuthorizeStep ==
    ASSUME MaxRows \in Nat, Google!IInv, NEW c \in Request, Google!Authorize(c)
    PROVE  Google!IInv'
<1> DEFINE q == [pc |-> IF v1.fresh THEN "call" ELSE "refresh", id |-> v1.id,
                 token |-> IF v1.fresh THEN v1.access ELSE Google!Nobody, refresh |-> v1.refresh]
<1>1. v1 \in Google!Row /\ v1.id <= v2 /\ v1.id # 0
    BY GoogleTyped DEF Google!Authorize, Google!IInv, Google!Ids
<1>2. q \in Google!Requests
    BY <1>1 DEF Google!Row, Google!Requests, Google!Owner, Google!Pc
<1>3. /\ q.id = v1.id /\ q.refresh = v1.refresh /\ q.pc # "save"
      /\ q.pc = "refresh" => ~v1.fresh
    OBVIOUS
<1>4. ~v4 /\ q.pc = "refresh" => q.refresh = v1.account
    BY <1>3 DEF Google!Authorize, Google!IInv, Google!TokensOfAccount
<1>5. v3' = [v3 EXCEPT ![c] = q] /\ UNCHANGED <<v1, v2, v4>>
    BY DEF Google!Authorize
<1> HIDE DEF q
<1> QED
    BY <1>1, <1>2, <1>3, <1>4, <1>5, GoogleReqStep

LEMMA GoogleRefreshStep ==
    ASSUME MaxRows \in Nat, Google!IInv, NEW c \in Request, Google!Refresh(c)
    PROVE  Google!IInv'
<1>1. CASE Google!Answer(c)
    BY <1>1, GoogleAnswerStep DEF Google!Refresh
<1>2. CASE v3' = [v3 EXCEPT ![c].pc = "save", ![c].token = v3[c].refresh]
  <2> DEFINE q1 == [v3[c] EXCEPT !.pc = "save"]
             q  == [v3[c] EXCEPT !.pc = "save", !.token = v3[c].refresh]
  <2>1. v3[c] \in Google!Requests /\ v3[c].id <= v2 /\ v3[c].id # 0 /\ v3[c].pc = "refresh"
      BY GoogleTyped DEF Google!Refresh, Google!At, Google!IInv, Google!Ids
  <2>2. q1 \in Google!Requests /\ q1.pc = "save" /\ q1.id = v3[c].id
      BY <2>1 DEF Google!Requests, Google!Pc
  <2>3. q = [q1 EXCEPT !.token = v3[c].refresh]
      BY Zenon
  <2>4. v3' = [v3 EXCEPT ![c] = q]
      BY <1>2
  <2> HIDE DEF q, q1
  <2>5. q \in Google!Requests /\ q.pc = "save" /\ q.id = v3[c].id /\ q.token = v3[c].refresh
      BY <2>1, <2>2, <2>3 DEF Google!Requests
  <2>6. ~v4 /\ q.id = v1.id => q.token = v1.account
      BY <2>1, <2>5 DEF Google!IInv, Google!Own
  <2>7. UNCHANGED <<v1, v2, v4>>
      BY DEF Google!Refresh
  <2> QED
      BY <2>1, <2>4, <2>5, <2>6, <2>7, GoogleReqStep
<1> QED
    BY <1>1, <1>2 DEF Google!Refresh

LEMMA GoogleSaveStep ==
    ASSUME MaxRows \in Nat, Google!IInv, NEW c \in Request, Google!SaveTokens(c)
    PROVE  Google!IInv'
<1>1. CASE v1.id # v3[c].id
    BY <1>1, GoogleAnswerStep DEF Google!SaveTokens
<1>2. CASE v1.id = v3[c].id
  <2>1. v3[c] \in Google!Requests /\ v1 \in Google!Row /\ v1.id <= v2 /\ v3[c].pc = "save"
      BY GoogleTyped DEF Google!SaveTokens, Google!At, Google!IInv, Google!Ids
  <2>2. PICK fresh \in BOOLEAN : v1' = [v1 EXCEPT !.access = v3[c].token, !.fresh = fresh]
      BY <1>2 DEF Google!SaveTokens
  <2> DEFINE r1 == [v1 EXCEPT !.access = v3[c].token]
             q  == [v3[c] EXCEPT !.pc = "call"]
  <2>3. /\ r1 \in Google!Row
        /\ r1.id = v1.id
        /\ r1.account = v1.account
        /\ r1.access = v3[c].token
        /\ r1.refresh = v1.refresh
      BY <2>1 DEF Google!Row, Google!Requests
  <2>4. v1' = [r1 EXCEPT !.fresh = fresh]
      BY <2>2, Zenon
  <2>5. q \in Google!Requests /\ q.pc = "call" /\ q.id = v3[c].id
      BY <2>1 DEF Google!Requests, Google!Pc
  <2>6. v3' = [v3 EXCEPT ![c] = q] /\ UNCHANGED <<v2, v4>>
      BY <1>2 DEF Google!SaveTokens
  <2> HIDE DEF r1, q
  <2>7. v1' \in Google!Row /\ v1'.id = v1.id /\ v1'.account = v1.account
        /\ v1'.access = v3[c].token /\ v1'.refresh = v1.refresh
      BY <2>3, <2>4 DEF Google!Row
  <2>8. /\ v3' \in [Request -> Google!Requests] /\ v3'[c] = q
        /\ \A d \in Request : d # c => v3'[d] = v3[d]
      BY <2>5, <2>6, GoogleTyped
  <2>9. ~v4 => v1'.access = v1'.account /\ v1'.refresh \in {v1'.account, Google!Nobody}
      BY <1>2, <2>1, <2>7 DEF Google!IInv, Google!Own, Google!TokensOfAccount
  <2>10. v4' \in BOOLEAN
      BY <2>6 DEF Google!IInv, Google!TypeOK
  <2> QED
      BY <1>2, <2>1, <2>5, <2>6, <2>7, <2>8, <2>9, <2>10, GoogleRowStep
<1> QED
    BY <1>1, <1>2

LEMMA GoogleExchangeStep ==
    ASSUME MaxRows \in Nat, Google!IInv, NEW c \in Request, NEW a \in Account,
           Google!Exchange(c, a)
    PROVE  Google!IInv'
<1>1. PICK refresh \in {a, v1.refresh} :
         v3' = [v3 EXCEPT ![c] = [pc |-> "authorizing", id |-> v1.id, token |-> a,
                                    refresh |-> refresh]]
    BY DEF Google!Exchange
<1> DEFINE q == [pc |-> "authorizing", id |-> v1.id, token |-> a, refresh |-> refresh]
<1>2. v1 \in Google!Row /\ v1.id <= v2
    BY GoogleTyped DEF Google!IInv, Google!Ids
<1>3. q \in Google!Requests /\ q.pc = "authorizing" /\ q.id = v1.id
    BY <1>2 DEF Google!Row, Google!Requests, Google!Owner, Google!Pc
<1>4. v3' = [v3 EXCEPT ![c] = q] /\ UNCHANGED <<v1, v2, v4>>
    BY <1>1 DEF Google!Exchange
<1> HIDE DEF q
<1> QED
    BY <1>2, <1>3, <1>4, GoogleReqStep

LEMMA GoogleDisconnectStep ==
    ASSUME MaxRows \in Nat, Google!IInv, NEW c \in Request, Google!Disconnect(c)
    PROVE  Google!IInv'
<1> DEFINE q1 == [Google!Idle EXCEPT !.pc = "revoke"]
           q  == [Google!Idle EXCEPT !.pc = "revoke", !.id = v1.id]
<1>1. v1 \in Google!Row /\ v1.id <= v2
    BY GoogleTyped DEF Google!IInv, Google!Ids
<1>2. q1 \in Google!Requests /\ q1.pc = "revoke"
    BY GoogleIdleRequest DEF Google!Requests, Google!Pc
<1>3. q = [q1 EXCEPT !.id = v1.id]
    BY Zenon
<1>4. v3' = [v3 EXCEPT ![c] = q] /\ UNCHANGED <<v1, v2, v4>>
    BY DEF Google!Disconnect
<1> HIDE DEF q, q1
<1>5. q \in Google!Requests /\ q.pc = "revoke" /\ q.id = v1.id
    BY <1>1, <1>2, <1>3 DEF Google!Requests, Google!Row
<1> QED
    BY <1>1, <1>4, <1>5, GoogleReqStep

\* A refresh was either of the row that is written anew, and counts as mixed, or
\* of one that is gone.
LEMMA GoogleConnectStep ==
    ASSUME MaxRows \in Nat, Google!IInv, NEW c \in Request, Google!Connect(c)
    PROVE  Google!IInv'
<1>1. CASE v1.id # v3[c].id
    BY <1>1, GoogleAnswerStep DEF Google!Connect
<1>2. CASE v1.id = v3[c].id
  <2> DEFINE id == IF v3[c].id = 0 THEN v2 + 1 ELSE v3[c].id
             r  == [id |-> id, account |-> v3[c].token, access |-> v3[c].token,
                    fresh |-> TRUE, refresh |-> v3[c].refresh]
  <2>1. /\ v3[c] \in Google!Requests
        /\ v1 \in Google!Row
        /\ v2 \in 0..MaxRows
        /\ v3[c].id <= v2
        /\ v3[c].pc = "authorizing"
      BY GoogleTyped DEF Google!Connect, Google!At, Google!IInv, Google!Ids
  <2>2. /\ v3[c].id = 0 => v2 < MaxRows
        /\ v1' = r
        /\ v2' = IF v3[c].id = 0 THEN v2 + 1 ELSE v2
        /\ v4' = (v4 \/ Google!Refreshing(v1.id) \/ v3[c].refresh \notin {v3[c].token, Google!Nobody})
        /\ v3' = [v3 EXCEPT ![c] = Google!Idle]
      BY <1>2 DEF Google!Connect, Google!Answer
  <2>3. v2' \in 0..MaxRows /\ id \in 0..MaxRows /\ id <= v2' /\ v2 <= v2'
      BY <2>1, <2>2 DEF Google!Requests
  <2>4. v1' \in Google!Row /\ v1'.id = id /\ v1'.account = v3[c].token
        /\ v1'.access = v3[c].token /\ v1'.refresh = v3[c].refresh
      BY <2>1, <2>2, <2>3 DEF Google!Row, Google!Requests
  <2>5. /\ v3' \in [Request -> Google!Requests] /\ v3'[c] = Google!Idle
        /\ \A d \in Request : d # c => v3'[d] = v3[d]
      BY <2>2, GoogleTyped, GoogleIdleRequest
  <2>6. v4' \in BOOLEAN
      BY <2>2, Zenon
  <2>7. Google!Ids'
    <3>1. \A d \in Request : v3[d].id \in 0..MaxRows /\ v3[d].id <= v2
        BY GoogleTyped DEF Google!Requests, Google!IInv, Google!Ids
    <3>2. \A d \in Request : v3'[d].id <= v2'
        BY <2>1, <2>3, <2>5, <3>1, GoogleIdleRequest
    <3>3. \A d \in Request : v3'[d].pc \in {"refresh", "save"} => v3'[d].id # 0
        BY <2>5, GoogleIdleRequest DEF Google!IInv, Google!Ids
    <3> QED
        BY <2>3, <2>4, <3>2, <3>3 DEF Google!Ids
  <2>8. ASSUME ~v4'
        PROVE  ~v4 /\ ~Google!Refreshing(v1.id) /\ v3[c].refresh \in {v3[c].token, Google!Nobody}
      BY <2>2, <2>8, Zenon
  <2>9. ~v4' => Google!Own'
    <3> SUFFICES ASSUME ~v4', NEW d \in Request, v3'[d].id = v1'.id
                 PROVE  v3'[d].pc \notin {"refresh", "save"}
        BY DEF Google!Own
    <3>1. CASE d = c
        BY <3>1, <2>5, GoogleIdleRequest
    <3>2. CASE d # c /\ v3[c].id = 0
      <4>1. v3[d].id <= v2 /\ v3[d].id = v2 + 1 /\ v3[d].id \in Nat /\ v2 \in Nat
          BY <2>1, <2>4, <2>5, <3>2, GoogleTyped DEF Google!IInv, Google!Ids,
             Google!Requests
      <4> QED
          BY <4>1
    <3>3. CASE d # c /\ v3[c].id # 0
        BY <1>2, <2>4, <2>5, <2>8, <3>3 DEF Google!Refreshing
    <3> QED
        BY <3>1, <3>2, <3>3
  <2>10. Google!TokensOfAccount'
      BY <2>4, <2>8 DEF Google!TokensOfAccount
  <2> QED
      BY <2>3, <2>4, <2>5, <2>6, <2>7, <2>9, <2>10 DEF Google!IInv, Google!TypeOK,
         Google!Requests
<1> QED
    BY <1>1, <1>2

LEMMA GoogleDeleteStep ==
    ASSUME MaxRows \in Nat, Google!IInv, NEW c \in Request, Google!Delete(c)
    PROVE  Google!IInv'
<1>1. CASE v1.id # v3[c].id
    BY <1>1, GoogleAnswerStep DEF Google!Delete
<1>2. CASE v1.id = v3[c].id
  <2>1. v1' = Google!NoRow /\ v3' = [v3 EXCEPT ![c] = Google!Idle] /\ UNCHANGED <<v2, v4>>
      BY <1>2 DEF Google!Delete, Google!Answer
  <2>2. /\ Google!NoRow \in Google!Row
        /\ Google!NoRow.id = 0
        /\ Google!NoRow.access = Google!Nobody
        /\ Google!NoRow.refresh = Google!Nobody
      BY DEF Google!NoRow, Google!Row, Google!Owner
  <2>3. /\ v3' \in [Request -> Google!Requests] /\ v3'[c] = Google!Idle
        /\ \A d \in Request : d # c => v3'[d] = v3[d]
      BY <2>1, GoogleTyped, GoogleIdleRequest
  <2>4. 0 <= v2 /\ v4' \in BOOLEAN
      BY <2>1, GoogleTyped DEF Google!IInv, Google!TypeOK
  <2>5. \A d \in Request : v3[d].pc \in {"refresh", "save"} => v3[d].id # 0
      BY DEF Google!IInv, Google!Ids
  <2> QED
      BY <2>1, <2>2, <2>3, <2>4, <2>5, GoogleIdleRequest, GoogleRowStep
<1> QED
    BY <1>1, <1>2

LEMMA GoogleExpireStep == ASSUME Google!IInv, Google!Expire PROVE Google!IInv'
<1>1. v1' = [v1 EXCEPT !.fresh = FALSE] /\ UNCHANGED <<v2, v3, v4>> /\ v1 \in Google!Row
    BY DEF Google!Expire, Google!IInv, Google!TypeOK
<1>2. v1' \in Google!Row /\ v1'.id = v1.id /\ v1'.account = v1.account
      /\ v1'.access = v1.access /\ v1'.refresh = v1.refresh
    BY <1>1 DEF Google!Row
<1> QED
    BY <1>1, <1>2 DEF Google!IInv, Google!TypeOK, Google!Ids, Google!Own,
       Google!TokensOfAccount

-----------------------------------------------------------------------------

LEMMA GoogleInductive ==
    ASSUME MaxRows \in Nat
    PROVE  Google!IInv /\ [Google!Next]_(Google!vars) => Google!IInv'
<1> SUFFICES ASSUME Google!IInv, [Google!Next]_(Google!vars) PROVE Google!IInv'
    OBVIOUS
<1>1. CASE UNCHANGED Google!vars
    BY <1>1 DEF Google!vars, Google!IInv, Google!TypeOK, Google!Ids, Google!Own,
       Google!TokensOfAccount
<1>2. ASSUME NEW c \in Request, Google!Call(c) \/ Google!Fail(c) PROVE Google!IInv'
    BY <1>2, GoogleAnswerStep DEF Google!Call, Google!Fail
<1> QED
    BY <1>1, <1>2, GoogleAuthorizeStep, GoogleRefreshStep, GoogleSaveStep,
       GoogleConnectStep, GoogleDisconnectStep, GoogleDeleteStep,
       GoogleExchangeStep, GoogleExpireStep DEF Google!Next

LEMMA GoogleProperties == Google!IInv => Google!TypeOK /\ Google!TokensOfAccount
    BY DEF Google!IInv

-----------------------------------------------------------------------------
(* The users and their sessions.                                           *)
(* v1 portal, v2 user, v3 identity, v4 session, v5 links, v6 req.          *)

LEMMA PeopleRowIs ==
    ASSUME People!Bounds, NEW e \in Address \cup {People!NoEmail}, NEW s \in People!Space,
           NEW role \in People!Role,
           NEW secret \in People!Secret
    PROVE  /\ People!Row(e, s, role, secret) \in People!Rows
           /\ People!Row(e, s, role, secret).space = s
           /\ People!Row(e, s, role, secret).role = role
<1>1. 0 \in 0..MaxResets
    BY DEF People!Bounds
<1>2. People!Row(e, s, role, secret) \in People!Rows
    BY <1>1 DEF People!Row, People!Rows
<1> QED
    BY <1>2 DEF People!Row

LEMMA PeopleIdleIs == ASSUME People!Bounds, Len(v2) \in Nat
    PROVE  /\ People!Idle \in People!Call /\ People!Idle.step = "idle" /\ People!Idle.space = People!Agents /\ People!Idle.email = People!NoEmail
           /\ \A answer \in {"done", "refused"} :
                 /\ [People!Idle EXCEPT !.step = answer] \in People!Call
                 /\ [People!Idle EXCEPT !.step = answer].step = answer
<1> DEFINE row == People!Row(People!NoEmail, People!Agents, "USER", "none")
<1>1. row \in People!Rows
    BY PeopleRowIs DEF People!Agents, People!Space, People!Role, People!Secret
<1>2. 0 \in 0..Len(v2) /\ People!Agents \in People!Space
    BY DEF People!Space
<1>3. People!Idle = [step |-> "idle", space |-> People!Agents, email |-> People!NoEmail, id |-> 0, row |-> row]
    BY Zenon DEF People!Idle
<1> HIDE DEF row
<1>4. /\ People!Idle \in People!Call
      /\ People!Idle.step = "idle"
      /\ People!Idle.space = People!Agents
      /\ People!Idle.email = People!NoEmail
    BY <1>1, <1>2, <1>3 DEF People!Call
<1>5. ASSUME NEW answer \in {"done", "refused"}
      PROVE  /\ [People!Idle EXCEPT !.step = answer] \in People!Call
             /\ [People!Idle EXCEPT !.step = answer].step = answer
    BY <1>4 DEF People!Call
<1> QED
    BY <1>4, <1>5

LEMMA PeopleInitially == ASSUME People!Bounds PROVE People!Init => People!IInv
<1> SUFFICES ASSUME People!Init PROVE People!IInv
    OBVIOUS
<1> DEFINE row == People!Row(OwnerAddress, People!Agents, "AGENT", "old")
<1>1. row \in People!Rows
    BY PeopleRowIs DEF People!Agents, People!Space, People!Role, People!Secret,
       People!Bounds
<1>2. v2 = <<row>>
    BY DEF People!Init
<1> HIDE DEF row
<1>3. v2 \in Seq(People!Rows) /\ Len(v2) = 1 /\ DOMAIN v2 = {1} /\ v2[1] \in People!Rows
    BY <1>1, <1>2
<1>4. /\ People!Idle \in People!Call
      /\ People!Idle.step = "idle"
      /\ People!Idle.space = People!Agents
    BY <1>3, PeopleIdleIs
<1>5. v6 \in [Client -> People!Call] /\ \A r \in Client : v6[r] = People!Idle
    BY <1>4 DEF People!Init
<1>6. People!TypeOK
  <2>1. /\ v1 \in [Tenant -> {"active", "inactive", "gone"}]
        /\ Len(v2) \in 1..MaxUsers /\ v3 \in [Address -> 0..Len(v2)]
        /\ v4 = {} /\ v5 \in 0..MaxResets
      BY <1>3 DEF People!Init, People!Bounds
  <2>2. \A u \in DOMAIN v2 : v2[u] \in People!Rows
      BY <1>3
  <2> QED
      BY <1>5, <2>1, <2>2 DEF People!TypeOK, People!Call
<1>7. People!Fit(People!Idle)
    BY <1>4 DEF People!Fit
<1> QED
    BY <1>3, <1>5, <1>6, <1>7 DEF People!IInv, People!Init

\* The rows, and what else the invariant says of them.
LEMMA PeopleRowsAre == ASSUME People!IInv
    PROVE  /\ v2 \in Seq(People!Rows) /\ Len(v2) \in 1..MaxUsers /\ Len(v2) \in Nat
           /\ DOMAIN v2 = 1..Len(v2) /\ \A u \in DOMAIN v2 : v2[u] \in People!Rows
           /\ v1 \in [Tenant -> {"active", "inactive", "gone"}]
           /\ v3 \in [Address -> 0..Len(v2)] /\ v5 \in 0..MaxResets
           /\ v4 \subseteq [at : People!Space, user : DOMAIN v2, role : People!Role, space : People!Space]
           /\ v6 \in [Client -> People!Call]
<1>1. v2 \in Seq(People!Rows) /\ People!TypeOK /\ v6 \in [Client -> People!Call]
    BY DEF People!IInv
<1>2. Len(v2) \in Nat /\ DOMAIN v2 = 1..Len(v2)
    BY <1>1
<1> QED
    BY <1>1, <1>2 DEF People!TypeOK

PeopleSessions == [at : People!Space, user : DOMAIN v2, role : People!Role, space : People!Space]

\* A step that lets no row out of the scope it had.
LEMMA PeopleStep ==
    ASSUME People!IInv, v2' \in Seq(People!Rows), Len(v2') \in 1..MaxUsers,
           v1' \in [Tenant -> {"active", "inactive", "gone"}],
           v3' \in [Address -> 0..Len(v2')], v5' \in 0..MaxResets,
           \A at, u, space : People!Scope(at, u, space) => People!Scope(at, u, space)',
           \A at, u : People!Signable(at, u) => People!Signable(at, u)',
           DOMAIN v2 \subseteq DOMAIN v2',
           v4' \subseteq PeopleSessions',
           \A s \in v4' \ v4 :
              People!Scope(s.at, s.user, s.space)' /\ People!Signable(s.at, s.user)',
           v6' \in [Client -> People!Call'],
           \A r \in Client : v6'[r] = v6[r] \/ People!Fit(v6[r])'
    PROVE  People!IInv'
<1>1. People!TypeOK'
  <2>1. \A u \in DOMAIN v2' : v2'[u] \in People!Rows
      OBVIOUS
  <2> QED
      BY <2>1 DEF People!TypeOK, People!Call, PeopleSessions
<1>2. ASSUME NEW s \in v4'
      PROVE  People!Scope(s.at, s.user, s.space)' /\ People!Signable(s.at, s.user)'
    BY <1>2 DEF People!IInv
<1>3. ASSUME NEW r \in Client PROVE People!Fit(v6[r])'
  <2>1. CASE v6'[r] = v6[r]
      BY <2>1 DEF People!IInv, People!Fit
  <2> QED
      BY <2>1
<1> QED
    BY <1>1, <1>2, <1>3 DEF People!IInv

\* A step of request r that makes no row and changes none.
LEMMA PeopleRequestStep ==
    ASSUME People!IInv, UNCHANGED <<v1, v2, v5>>, v3' \in [Address -> 0..Len(v2)],
           v4' \subseteq PeopleSessions,
           \A s \in v4' \ v4 : People!Scope(s.at, s.user, s.space) /\ People!Signable(s.at, s.user),
           NEW r \in Client, NEW q \in People!Call, People!Fit(q), v6' = [v6 EXCEPT ![r] = q]
    PROVE  People!IInv'
<1>1. People!Call' = People!Call /\ PeopleSessions' = PeopleSessions
    BY DEF People!Call, PeopleSessions
<1>2. \A at, u, space : People!Scope(at, u, space)' <=> People!Scope(at, u, space)
    BY DEF People!Scope
<1>3. \A at, u : People!Signable(at, u)' <=> People!Signable(at, u)
    BY <1>2 DEF People!Signable
<1>4. v6' \in [Client -> People!Call'] /\ \A p \in Client : v6'[p] = v6[p] \/ v6'[p] = q
    BY <1>1 DEF People!IInv
<1>5. \A p \in Client : v6'[p] = v6[p] \/ People!Fit(v6[p])'
    BY <1>2, <1>3, <1>4 DEF People!Fit
<1> QED
    BY <1>1, <1>2, <1>3, <1>4, <1>5, PeopleStep, PeopleRowsAre

LEMMA PeopleAnswerIs == ASSUME People!Bounds, People!IInv, NEW answer \in {"done", "refused"}
    PROVE  [People!Idle EXCEPT !.step = answer] \in People!Call /\ People!Fit([People!Idle EXCEPT !.step = answer])
    BY PeopleIdleIs, PeopleRowsAre DEF People!Fit

\* A request that is answered; a session may have been opened.
LEMMA PeopleAnswerStep ==
    ASSUME People!Bounds, People!IInv, UNCHANGED <<v1, v2, v5>>,
           v3' \in [Address -> 0..Len(v2)], v4' \subseteq PeopleSessions,
           \A s \in v4' \ v4 : People!Scope(s.at, s.user, s.space) /\ People!Signable(s.at, s.user),
           NEW r \in Client, NEW answer \in {"done", "refused"}, People!Answers(r, answer)
    PROVE  People!IInv'
<1> DEFINE q == [People!Idle EXCEPT !.step = answer]
<1>1. q \in People!Call /\ People!Fit(q)
    BY PeopleAnswerIs
<1>2. v6' = [v6 EXCEPT ![r] = q]
    BY DEF People!Answers
<1> HIDE DEF q
<1> QED
    BY <1>1, <1>2, PeopleRequestStep

\* A row that is made is in the scope of the session that is opened with it.
LEMMA PeopleCreateStep ==
    ASSUME People!Bounds, People!IInv, UNCHANGED <<v1, v5>>, Len(v2) < MaxUsers,
           NEW r \in Client, NEW row \in People!Rows, row.space = v6[r].space, People!Create(r, row),
           v3' \in [Address -> 0..Len(v2')]
    PROVE  People!IInv'
<1>1. CASE People!Unique(Append(v2, row))
  <2> PICK n : n = Len(v2) + 1
      OBVIOUS
  <2> PICK s : s = People!Signed(v6[r].space, n, row)
      OBVIOUS
  <2>1. /\ v2' = Append(v2, row) /\ v4' = v4 \cup {s}
        /\ People!Answers(r, "done")
      BY <1>1 DEF People!Create
  <2>2. /\ v2' \in Seq(People!Rows) /\ Len(v2') = n /\ Len(v2') \in 1..MaxUsers
        /\ DOMAIN v2' = 1..n /\ DOMAIN v2 = 1..Len(v2)
        /\ v2'[n] = row /\ \A u \in DOMAIN v2 : v2'[u] = v2[u]
      BY <2>1, PeopleRowsAre DEF People!Bounds
  <2>3. DOMAIN v2 \subseteq DOMAIN v2' /\ n \in DOMAIN v2'
      BY <2>2, PeopleRowsAre
  <2>4. \A at, u, space : People!Scope(at, u, space)' <=> People!Scope(at, u, space)
      BY DEF People!Scope
  <2>5. \A at, u : People!Signable(at, u) => People!Signable(at, u)'
      BY <2>2, <2>3, <2>4 DEF People!Signable
  <2>6. /\ s.at = row.space /\ s.user = n /\ s.space = row.space
        /\ s \in PeopleSessions'
      BY <2>3, PeopleRowsAre DEF People!Signed, PeopleSessions, People!Rows, People!Call
  <2>7. People!Scope(s.at, s.user, s.space)' /\ People!Signable(s.at, s.user)'
      BY <2>2, <2>3, <2>6 DEF People!Scope, People!Signable
  <2>8. v4' \subseteq PeopleSessions'
      BY <2>1, <2>3, <2>6, PeopleRowsAre DEF PeopleSessions
  <2>9. People!Call \subseteq People!Call'
    <3>1. 0..Len(v2) \subseteq 0..Len(v2')
        BY <2>2, PeopleRowsAre
    <3> QED
        BY <3>1 DEF People!Call
  <2>10. v6' \in [Client -> People!Call'] /\ \A p \in Client : v6'[p] = v6[p] \/ People!Fit(v6[p])'
    <3> DEFINE q == [People!Idle EXCEPT !.step = "done"]
    <3>1. q \in People!Call' /\ q.step = "done"
        BY <2>9, PeopleIdleIs, PeopleRowsAre
    <3>2. v6' = [v6 EXCEPT ![r] = q]
        BY <2>1 DEF People!Answers
    <3> HIDE DEF q
    <3>3. v6' \in [Client -> People!Call'] /\ \A p \in Client : v6'[p] = v6[p] \/ v6'[p] = q
        BY <2>9, <3>1, <3>2, PeopleRowsAre
    <3> QED
        BY <3>1, <3>3 DEF People!Fit
  <2> QED
      BY <2>1, <2>2, <2>3, <2>4, <2>5, <2>7, <2>8, <2>10, PeopleStep, PeopleRowsAre
<1>2. CASE ~People!Unique(Append(v2, row))
    BY <1>2, PeopleAnswerStep, PeopleRowsAre DEF People!Create, PeopleSessions
<1> QED
    BY <1>1, <1>2
\* Rows are only added.
LEMMA PeopleGrowsIs ==
    ASSUME People!IInv, NEW r, NEW row \in People!Rows, People!Create(r, row)
    PROVE  Len(v2') \in Nat /\ Len(v2) <= Len(v2') /\ 0..Len(v2) \subseteq 0..Len(v2')
<1>1. Len(v2') \in Nat /\ Len(v2) <= Len(v2')
    BY PeopleRowsAre DEF People!Create
<1> QED
    BY <1>1, PeopleRowsAre

LEMMA PeopleRegisterAgentStep ==
    ASSUME People!Bounds, People!IInv, NEW r \in Client, NEW e \in Address,
           People!RegisterAgent(r, e)
    PROVE  People!IInv'
<1> DEFINE row == People!Row(e, People!Agents, "AGENT", "old")
<1>1. row \in People!Rows /\ row.space = v6[r].space
    BY PeopleRowIs DEF People!RegisterAgent, People!Free, People!IInv, People!Fit,
       People!Agents, People!Space, People!Role, People!Secret
<1>2. /\ People!Create(r, row) /\ Len(v2) < MaxUsers
      /\ UNCHANGED <<v1, v3, v5>>
    BY DEF People!RegisterAgent
<1> HIDE DEF row
<1>3. v3' \in [Address -> 0..Len(v2')]
    BY <1>1, <1>2, PeopleGrowsIs, PeopleRowsAre
<1> QED
    BY <1>1, <1>2, <1>3, PeopleCreateStep

LEMMA PeopleEnterStep ==
    ASSUME People!Bounds, People!IInv, NEW r \in Client, NEW p \in Tenant,
           NEW e \in Address,
           NEW step \in {"register", "login", "google"}, People!EnterPortal(r, p, e, step)
    PROVE  People!IInv'
<1>1. CASE v1[p] = "active"
  <2> DEFINE q == [step |-> step, space |-> p, email |-> e, id |-> 0, row |-> People!Idle.row]
  <2>1. v6' = [v6 EXCEPT ![r] = q]
      BY <1>1 DEF People!EnterPortal, People!Idle
  <2>2. q \in People!Call /\ People!Fit(q)
      BY PeopleIdleIs, PeopleRowsAre DEF People!Call, People!Fit, People!Space
  <2> HIDE DEF q
  <2> QED
      BY <2>1, <2>2, PeopleRequestStep, PeopleRowsAre DEF People!EnterPortal, PeopleSessions
<1>2. CASE v1[p] # "active"
    BY <1>2, PeopleAnswerStep, PeopleRowsAre DEF People!EnterPortal, PeopleSessions
<1> QED
    BY <1>1, <1>2

\* The row of a new consumer.
LEMMA PeopleNewIs == ASSUME People!Bounds, NEW q \in People!Call, NEW secret \in People!Secret
    PROVE  /\ People!Row(q.email, q.space, "USER", secret) \in People!Rows
           /\ People!Row(q.email, q.space, "USER", secret).space = q.space
<1>1. /\ q.space \in People!Space
      /\ q.email \in Address \cup {People!NoEmail}
      /\ "USER" \in People!Role
    BY DEF People!Call, People!Role
<1> QED
    BY <1>1, PeopleRowIs

LEMMA PeopleRegisterConsumerStep ==
    ASSUME People!Bounds, People!IInv, NEW r \in Client, People!RegisterConsumer(r)
    PROVE  People!IInv'
<1>1. CASE v1[v6[r].space] = "gone"
    BY <1>1, PeopleAnswerStep, PeopleRowsAre DEF People!RegisterConsumer, PeopleSessions
<1>2. CASE v1[v6[r].space] # "gone"
  <2> DEFINE row == People!Row(v6[r].email, v6[r].space, "USER", "old")
  <2>1. row \in People!Rows /\ row.space = v6[r].space
    <3>1. v6[r] \in People!Call /\ "old" \in People!Secret
        BY PeopleRowsAre DEF People!Secret
    <3> QED
        BY <3>1, PeopleNewIs
  <2>2. /\ People!Create(r, row) /\ Len(v2) < MaxUsers
        /\ UNCHANGED <<v1, v3, v5>>
      BY <1>2 DEF People!RegisterConsumer
  <2> HIDE DEF row
  <2>3. v3' \in [Address -> 0..Len(v2')]
      BY <2>1, <2>2, PeopleGrowsIs, PeopleRowsAre
  <2> QED
      BY <2>1, <2>2, <2>3, PeopleCreateStep
<1> QED
    BY <1>1, <1>2

\* What a sign-in finds may be signed.
LEMMA PeopleFindStep ==
    ASSUME People!Bounds, People!IInv, NEW r \in Client, NEW s \in People!Space,
           NEW e \in Address \cup {People!NoEmail},
           People!FindUser(r, s, e), UNCHANGED <<v1, v2, v3, v4, v5>>
    PROVE  People!IInv'
<1>1. CASE \A u \in People!Candidates(e, s) : v2[u].secret = "none"
    BY <1>1, PeopleAnswerStep, PeopleRowsAre DEF People!FindUser, PeopleSessions
<1>2. CASE ~(\A u \in People!Candidates(e, s) : v2[u].secret = "none")
  <2>1. PICK u \in People!Candidates(e, s) :
          v6' = [v6 EXCEPT ![r] = [step |-> "compare", space |-> s, email |-> e,
                                     id |-> u, row |-> v2[u]]]
      BY <1>2 DEF People!FindUser
  <2> DEFINE q == [step |-> "compare", space |-> s, email |-> e, id |-> u, row |-> v2[u]]
  <2>2. v6' = [v6 EXCEPT ![r] = q]
      BY <2>1
  <2>3. u \in DOMAIN v2 /\ People!Scope(s, u, v2[u].space)
      BY DEF People!Candidates, People!Found, People!Live, People!Scope
  <2>4. q \in People!Call /\ People!Fit(q)
      BY <2>3, PeopleRowsAre DEF People!Call, People!Fit, People!Signable
  <2> HIDE DEF q
  <2> QED
      BY <2>2, <2>4, PeopleRequestStep, PeopleRowsAre DEF PeopleSessions
<1> QED
    BY <1>1, <1>2

LEMMA PeopleLoginStep ==
    ASSUME People!Bounds, People!IInv, NEW r \in Client, NEW e \in Address,
           People!LoginAgent(r, e) \/ People!LoginConsumer(r)
    PROVE  People!IInv'
<1>1. /\ v6[r].space \in People!Space
      /\ v6[r].email \in Address \cup {People!NoEmail}
      /\ People!Agents \in People!Space
    BY PeopleRowsAre DEF People!Call, People!Space
<1> QED
    BY <1>1, PeopleFindStep DEF People!LoginAgent, People!LoginConsumer

\* A session that is opened for what a request may sign.
LEMMA PeopleSessionStep ==
    ASSUME People!Bounds, People!IInv, UNCHANGED <<v1, v2, v5>>,
           v3' \in [Address -> 0..Len(v2)],
           NEW at \in People!Space, NEW u, NEW row \in People!Rows, People!Signable(at, u), People!Scope(at, u, row.space),
           v4' = v4 \cup {People!Signed(at, u, row)},
           NEW r \in Client, People!Answers(r, "done")
    PROVE  People!IInv'
<1> DEFINE s == People!Signed(at, u, row)
<1>1. /\ s.at = at /\ s.user = u /\ s.space = row.space
      /\ s \in PeopleSessions
    BY DEF People!Signed, PeopleSessions, People!Signable, People!Rows
<1>2. v4' \subseteq PeopleSessions
    BY <1>1, PeopleRowsAre DEF PeopleSessions
<1>3. \A t \in v4' \ v4 : People!Scope(t.at, t.user, t.space) /\ People!Signable(t.at, t.user)
    BY <1>1
<1> QED
    BY <1>2, <1>3, PeopleAnswerStep

LEMMA PeopleCompareStep ==
    ASSUME People!Bounds, People!IInv, NEW r \in Client, NEW secret,
           People!Compare(r, secret)
    PROVE  People!IInv'
<1>1. CASE secret = v6[r].row.secret
  <2>1. /\ v6[r].space \in People!Space /\ v6[r].row \in People!Rows
        /\ People!Signable(v6[r].space, v6[r].id)
        /\ People!Scope(v6[r].space, v6[r].id, v6[r].row.space)
      BY PeopleRowsAre DEF People!Compare, People!IInv, People!Fit, People!Call
  <2> QED
      BY <1>1, <2>1, PeopleSessionStep, PeopleRowsAre DEF People!Compare
<1>2. CASE secret # v6[r].row.secret
    BY <1>2, PeopleAnswerStep, PeopleRowsAre DEF People!Compare, PeopleSessions
<1> QED
    BY <1>1, <1>2

LEMMA PeopleRefreshStep ==
    ASSUME People!Bounds, People!IInv, NEW r \in Client, NEW s \in v4, People!Refresh(r, s)
    PROVE  People!IInv'
<1>1. CASE s.user \in People!Live
  <2>1. s.at \in People!Space /\ v2[s.user] \in People!Rows /\ People!Signable(s.at, s.user)
      BY PeopleRowsAre DEF People!IInv
  <2>2. People!Scope(s.at, s.user, v2[s.user].space)
      BY <2>1 DEF People!Signable
  <2> QED
      BY <1>1, <2>1, <2>2, PeopleSessionStep, PeopleRowsAre DEF People!Refresh
<1>2. CASE s.user \notin People!Live
    BY <1>2, PeopleAnswerStep, PeopleRowsAre DEF People!Refresh, PeopleSessions
<1> QED
    BY <1>1, <1>2
LEMMA PeopleGoogleFindStep ==
    ASSUME People!Bounds, People!IInv, NEW r \in Client, People!GoogleFind(r)
    PROVE  People!IInv'
<1> DEFINE e == v6[r].email
           s == v6[r].space
           linked == {u \in People!Live : u = v3[e] /\ v2[u].space = s}
           found == IF linked # {} THEN linked ELSE People!Found(e, s)
<1>1. UNCHANGED <<v1, v2, v3, v4, v5>> /\ v6[r] \in People!Call
    BY PeopleRowsAre DEF People!GoogleFind
<1>2. CASE found = {} /\ s = People!Agents
    BY <1>1, <1>2, PeopleAnswerStep, PeopleRowsAre DEF People!GoogleFind, PeopleSessions
<1>3. CASE found = {} /\ s # People!Agents
  <2> DEFINE q == [v6[r] EXCEPT !.step = "create"]
  <2>1. v6' = [v6 EXCEPT ![r] = q]
      BY <1>3 DEF People!GoogleFind
  <2>2. q \in People!Call /\ q.step = "create"
      BY <1>1 DEF People!Call
  <2> HIDE DEF q
  <2> QED
      BY <1>1, <2>1, <2>2, PeopleRequestStep, PeopleRowsAre DEF PeopleSessions, People!Fit
<1>4. CASE found # {}
  <2> DEFINE step == IF linked # {} THEN "update" ELSE "link"
  <2>1. PICK u \in found : v6' = [v6 EXCEPT ![r].step = step, ![r].id = u]
      BY <1>4 DEF People!GoogleFind
  <2>2. u \in People!Live /\ v2[u].space = s
      BY DEF People!Found
  <2> HIDE DEF found, linked
  <2>3. step \in {"update", "link"}
      OBVIOUS
  <2> DEFINE p == [v6[r] EXCEPT !.step = step]
             q == [p EXCEPT !.id = u]
  <2>4. v6' = [v6 EXCEPT ![r] = q]
      BY <2>1, PeopleRowsAre
  <2>5. u \in DOMAIN v2 /\ u \in 0..Len(v2)
      BY <2>2, PeopleRowsAre DEF People!Live
  <2>6. p \in People!Call /\ p.step = step /\ p.space = s
      BY <1>1, <2>3 DEF People!Call
  <2> HIDE DEF p, step
  <2>7. q \in People!Call /\ q.step = step /\ q.space = s /\ q.id = u
      BY <2>5, <2>6 DEF People!Call
  <2>8. People!Fit(q)
      BY <2>2, <2>3, <2>5, <2>7 DEF People!Fit, People!Signable, People!Scope
  <2> HIDE DEF q
  <2> QED
      BY <1>1, <2>4, <2>7, <2>8, PeopleRequestStep, PeopleRowsAre DEF PeopleSessions
<1> QED
    BY <1>2, <1>3, <1>4

LEMMA PeopleGoogleAgentStep ==
    ASSUME People!Bounds, People!IInv, NEW r \in Client, NEW e \in Address,
           People!GoogleAgent(r, e)
    PROVE  People!IInv'
<1> DEFINE p == [People!Idle EXCEPT !.step = "google"]
           q == [p EXCEPT !.email = e]
<1>1. v6' = [v6 EXCEPT ![r] = q] /\ UNCHANGED <<v1, v2, v3, v4, v5>>
    BY DEF People!GoogleAgent
<1>2. p \in People!Call /\ p.step = "google"
    BY PeopleIdleIs, PeopleRowsAre DEF People!Call
<1> HIDE DEF p
<1>3. q \in People!Call /\ q.step = "google"
    BY <1>2 DEF People!Call
<1> HIDE DEF q
<1> QED
    BY <1>1, <1>3, PeopleRequestStep, PeopleRowsAre DEF PeopleSessions, People!Fit

LEMMA PeopleGoogleUpdateStep ==
    ASSUME People!Bounds, People!IInv, NEW r \in Client, People!GoogleUpdate(r)
    PROVE  People!IInv'
<1> DEFINE u == v6[r].id
           e == v6[r].email
<1>1. CASE u \in People!Live
  <2>1. /\ v6[r].space \in People!Space /\ v2[u] \in People!Rows /\ u \in 0..Len(v2)
        /\ People!Signable(v6[r].space, u) /\ People!Scope(v6[r].space, u, v2[u].space)
      BY PeopleRowsAre DEF People!GoogleUpdate, People!IInv, People!Fit, People!Signable,
         People!Call
  <2>2. v3' = [v3 EXCEPT ![e] = IF @ = 0 /\ v6[r].step = "link" THEN u ELSE @]
      BY <1>1 DEF People!GoogleUpdate
  <2>3. v3' \in [Address -> 0..Len(v2)]
      BY <2>1, <2>2, PeopleRowsAre
  <2>4. /\ v4' = v4 \cup {People!Signed(v6[r].space, u, v2[u])}
        /\ People!Answers(r, "done") /\ UNCHANGED <<v1, v2, v5>>
      BY <1>1 DEF People!GoogleUpdate
  <2> HIDE DEF u
  <2> QED
      BY <2>1, <2>3, <2>4, PeopleSessionStep
<1>2. CASE u \notin People!Live
    BY <1>2, PeopleAnswerStep, PeopleRowsAre DEF People!GoogleUpdate, PeopleSessions
<1> QED
    BY <1>1, <1>2

LEMMA PeopleGoogleCreateStep ==
    ASSUME People!Bounds, People!IInv, NEW r \in Client, People!GoogleCreate(r)
    PROVE  People!IInv'
<1> DEFINE e == v6[r].email
           row == People!Row(e, v6[r].space, "USER", "none")
<1>1. CASE v1[v6[r].space] = "gone" \/ v3[e] # 0
    BY <1>1, PeopleAnswerStep, PeopleRowsAre DEF People!GoogleCreate, PeopleSessions
<1>2. CASE ~(v1[v6[r].space] = "gone" \/ v3[e] # 0)
  <2>1. row \in People!Rows /\ row.space = v6[r].space
    <3>1. v6[r] \in People!Call /\ "none" \in People!Secret
        BY PeopleRowsAre DEF People!Secret
    <3> QED
        BY <3>1, PeopleNewIs
  <2>2. /\ People!Create(r, row) /\ Len(v2) < MaxUsers /\ UNCHANGED <<v1, v5>>
        /\ v3' = IF v2' = v2 THEN v3 ELSE [v3 EXCEPT ![e] = Len(v2')]
      BY <1>2 DEF People!GoogleCreate
  <2> HIDE DEF row
  <2>3. 0..Len(v2) \subseteq 0..Len(v2') /\ Len(v2') \in 0..Len(v2')
      BY <2>1, <2>2, PeopleGrowsIs
  <2>4. v3' \in [Address -> 0..Len(v2')]
      BY <2>2, <2>3, PeopleRowsAre
  <2> QED
      BY <2>1, <2>2, <2>4, PeopleCreateStep
<1> QED
    BY <1>1, <1>2

\* Rows that change keep their number and their space.
LEMMA PeopleRowStep ==
    ASSUME People!Bounds, People!IInv, UNCHANGED <<v1, v4>>, v2' \in Seq(People!Rows),
           Len(v2') = Len(v2), \A u \in DOMAIN v2 : v2'[u].space = v2[u].space,
           v3' \in [Address -> 0..Len(v2)], v5' \in 0..MaxResets,
           NEW r \in Client, NEW answer \in {"done", "refused"}, People!Answers(r, answer)
    PROVE  People!IInv'
<1> DEFINE q == [People!Idle EXCEPT !.step = answer]
<1>1. q \in People!Call /\ q.step = answer
    BY PeopleIdleIs, PeopleRowsAre
<1>2. v6' = [v6 EXCEPT ![r] = q]
    BY DEF People!Answers
<1> HIDE DEF q
<1>3. DOMAIN v2' = DOMAIN v2 /\ Len(v2') \in 1..MaxUsers
    BY PeopleRowsAre
<1>4. People!Call' = People!Call /\ PeopleSessions' = PeopleSessions
    BY <1>3 DEF People!Call, PeopleSessions
<1>5. \A at, u, space : People!Scope(at, u, space)' <=> People!Scope(at, u, space)
    BY DEF People!Scope
<1>6. \A at, u : People!Signable(at, u) => People!Signable(at, u)'
    BY <1>3, <1>5 DEF People!Signable
<1>7. v6' \in [Client -> People!Call'] /\ \A p \in Client : v6'[p] = v6[p] \/ v6'[p] = q
    BY <1>1, <1>2, <1>4, PeopleRowsAre
<1>8. \A p \in Client : v6'[p] = v6[p] \/ People!Fit(v6[p])'
    BY <1>1, <1>7 DEF People!Fit
<1>9. v4' \subseteq PeopleSessions' /\ v4' \ v4 = {}
    BY <1>4, PeopleRowsAre DEF PeopleSessions
<1>10. /\ v3' \in [Address -> 0..Len(v2')]
       /\ v1' \in [Tenant -> {"active", "inactive", "gone"}]
    BY PeopleRowsAre
<1> QED
    BY <1>3, <1>5, <1>6, <1>7, <1>8, <1>9, <1>10, PeopleStep
LEMMA PeopleForgotStep ==
    ASSUME People!Bounds, People!IInv, NEW r \in Client, NEW e, People!ForgotPassword(r, e)
    PROVE  People!IInv'
<1>1. PICK u \in People!Found(e, People!Agents) : v2' = [v2 EXCEPT ![u].reset = v5 + 1]
    BY DEF People!ForgotPassword
<1>2. /\ v5' = v5 + 1 /\ v5 + 1 \in 0..MaxResets
      /\ UNCHANGED <<v1, v3, v4>> /\ People!Answers(r, "done")
    BY PeopleRowsAre DEF People!ForgotPassword, People!Bounds
<1>3. u \in DOMAIN v2
    BY DEF People!Found, People!Live
<1> DEFINE row == [v2[u] EXCEPT !.reset = v5 + 1]
<1>4. row \in People!Rows /\ row.space = v2[u].space
    BY <1>2, <1>3, PeopleRowsAre DEF People!Rows
<1>5. v2' = [v2 EXCEPT ![u] = row]
    BY <1>1
<1> HIDE DEF row
<1>6. /\ v2' \in Seq(People!Rows) /\ Len(v2') = Len(v2)
      /\ \A v \in DOMAIN v2 : v2'[v].space = v2[v].space
    BY <1>3, <1>4, <1>5, PeopleRowsAre
<1> QED
    BY <1>2, <1>6, PeopleRowStep, PeopleRowsAre

LEMMA PeopleCheckLinkStep ==
    ASSUME People!Bounds, People!IInv, NEW r \in Client, NEW u \in DOMAIN v2, NEW link,
           People!CheckLink(r, u, link)
    PROVE  People!IInv'
<1>1. CASE u \in People!Live /\ v2[u].reset = link
  <2> DEFINE q == [step |-> "reset", space |-> People!Idle.space, email |-> People!Idle.email, id |-> u,
                   row |-> v2[u]]
  <2>1. v6' = [v6 EXCEPT ![r] = q]
      BY <1>1 DEF People!CheckLink, People!Idle
  <2>2. q \in People!Call /\ People!Fit(q)
      BY PeopleIdleIs, PeopleRowsAre DEF People!Call, People!Fit
  <2> HIDE DEF q
  <2> QED
      BY <2>1, <2>2, PeopleRequestStep, PeopleRowsAre DEF People!CheckLink, PeopleSessions
<1>2. CASE ~(u \in People!Live /\ v2[u].reset = link)
    BY <1>2, PeopleAnswerStep, PeopleRowsAre DEF People!CheckLink, PeopleSessions
<1> QED
    BY <1>1, <1>2

LEMMA PeopleResetStep ==
    ASSUME People!Bounds, People!IInv, NEW r \in Client, People!ResetPassword(r)
    PROVE  People!IInv'
<1> DEFINE u == v6[r].id
<1>1. CASE u \in People!Live
  <2> DEFINE p == [v2[u] EXCEPT !.secret = "new"]
             row == [p EXCEPT !.reset = 0]
  <2>1. u \in DOMAIN v2
      BY <1>1 DEF People!Live
  <2>2. v2' = [v2 EXCEPT ![u] = row]
      BY <1>1, <2>1, PeopleRowsAre DEF People!ResetPassword
  <2>3. p \in People!Rows /\ p.space = v2[u].space
      BY <2>1, PeopleRowsAre DEF People!Rows, People!Secret
  <2> HIDE DEF p
  <2>4. row \in People!Rows /\ row.space = v2[u].space
      BY <2>3 DEF People!Rows, People!Bounds
  <2>5. UNCHANGED <<v1, v3, v4, v5>> /\ People!Answers(r, "done")
      BY <1>1 DEF People!ResetPassword
  <2> HIDE DEF row, u
  <2>6. /\ v2' \in Seq(People!Rows) /\ Len(v2') = Len(v2)
        /\ \A v \in DOMAIN v2 : v2'[v].space = v2[v].space
      BY <2>1, <2>2, <2>4, PeopleRowsAre
  <2> QED
      BY <2>5, <2>6, PeopleRowStep, PeopleRowsAre
<1>2. CASE u \notin People!Live
    BY <1>2, PeopleAnswerStep, PeopleRowsAre DEF People!ResetPassword, PeopleSessions
<1> QED
    BY <1>1, <1>2

LEMMA PeopleLookStep ==
    ASSUME People!Bounds, People!IInv, NEW r \in Client, NEW e \in Address,
           People!LookForAdmin(r, e)
    PROVE  People!IInv'
<1>1. CASE \E u \in People!Live : v2[u].role = "ADMIN"
    BY <1>1, PeopleAnswerStep, PeopleRowsAre DEF People!LookForAdmin, PeopleSessions
<1>2. CASE ~(\E u \in People!Live : v2[u].role = "ADMIN")
  <2> DEFINE p == [People!Idle EXCEPT !.step = "boot"]
             q == [p EXCEPT !.email = e]
  <2>1. v6' = [v6 EXCEPT ![r] = q] /\ UNCHANGED <<v1, v2, v3, v4, v5>>
      BY <1>2 DEF People!LookForAdmin
  <2>2. p \in People!Call /\ p.step = "boot"
      BY PeopleIdleIs, PeopleRowsAre DEF People!Call
  <2> HIDE DEF p
  <2>3. q \in People!Call /\ q.step = "boot"
      BY <2>2 DEF People!Call
  <2> HIDE DEF q
  <2> QED
      BY <2>1, <2>3, PeopleRequestStep, PeopleRowsAre DEF PeopleSessions, People!Fit
<1> QED
    BY <1>1, <1>2

LEMMA PeopleUpdateStep ==
    ASSUME People!Bounds, People!IInv, NEW r \in Client, NEW s \in v4, NEW u \in DOMAIN v2,
           NEW role \in People!Role, NEW e \in Address, People!UpdateUser(r, s, u, role, e)
    PROVE  People!IInv'
<1> DEFINE p == [v2[u] EXCEPT !.role = role]
           row == [p EXCEPT !.email = e]
           rows == [v2 EXCEPT ![u] = row]
<1>1. [v2 EXCEPT ![u].role = role, ![u].email = e] = rows
    BY PeopleRowsAre
<1>2. p \in People!Rows /\ p.space = v2[u].space
    BY PeopleRowsAre DEF People!Rows
<1> HIDE DEF p
<1>3. row \in People!Rows /\ row.space = v2[u].space
    BY <1>2 DEF People!Rows
<1> HIDE DEF row
<1>4. /\ rows \in Seq(People!Rows) /\ Len(rows) = Len(v2)
      /\ \A v \in DOMAIN v2 : rows[v].space = v2[v].space
    BY <1>3, PeopleRowsAre
<1>5. CASE People!Unique(rows)
    BY <1>1, <1>4, <1>5, PeopleRowStep, PeopleRowsAre DEF People!UpdateUser
<1>6. CASE ~People!Unique(rows)
    BY <1>1, <1>6, PeopleAnswerStep, PeopleRowsAre DEF People!UpdateUser, PeopleSessions
<1> QED
    BY <1>5, <1>6

LEMMA PeopleDeleteStep ==
    ASSUME People!Bounds, People!IInv, NEW r \in Client, NEW s \in v4, NEW u \in DOMAIN v2,
           People!DeleteUser(r, s, u)
    PROVE  People!IInv'
<1> DEFINE row == [v2[u] EXCEPT !.live = FALSE]
<1>1. v2' = [v2 EXCEPT ![u] = row] /\ People!Answers(r, "done")
      /\ UNCHANGED <<v1, v4, v5>>
    BY DEF People!DeleteUser
<1>2. row \in People!Rows /\ row.space = v2[u].space
    BY PeopleRowsAre DEF People!Rows
<1> HIDE DEF row
<1>3. /\ v2' \in Seq(People!Rows) /\ Len(v2') = Len(v2)
      /\ \A v \in DOMAIN v2 : v2'[v].space = v2[v].space
    BY <1>1, <1>2, PeopleRowsAre
<1>4. v3' \in [Address -> 0..Len(v2)]
    BY PeopleRowsAre DEF People!DeleteUser
<1> QED
    BY <1>1, <1>3, <1>4, PeopleRowStep, PeopleRowsAre
LEMMA PeopleBootStep ==
    ASSUME People!Bounds, People!IInv, NEW r \in Client, People!BootstrapAdmin(r)
    PROVE  People!IInv'
<1> DEFINE row == People!Row(v6[r].email, People!Agents, "ADMIN", "old")
<1>1. row \in People!Rows
  <2>1. /\ v6[r].email \in Address \cup {People!NoEmail} /\ People!Agents \in People!Space
        /\ "ADMIN" \in People!Role /\ "old" \in People!Secret
      BY PeopleRowsAre DEF People!Call, People!Space, People!Role, People!Secret
  <2> QED
      BY <2>1, PeopleRowIs
<1>2. /\ v2' = Append(v2, row) \/ v2' = v2
      /\ Len(v2) < MaxUsers /\ People!Answers(r, "done")
      /\ UNCHANGED <<v1, v3, v4, v5>>
    BY DEF People!BootstrapAdmin
<1> HIDE DEF row
<1>3. /\ v2' \in Seq(People!Rows) /\ Len(v2') \in 1..MaxUsers /\ Len(v2) <= Len(v2')
      /\ DOMAIN v2 \subseteq DOMAIN v2'
      /\ \A u \in DOMAIN v2 : v2'[u] = v2[u]
  <2>1. CASE v2' = v2
      BY <2>1, PeopleRowsAre
  <2>2. CASE v2' = Append(v2, row)
      BY <1>1, <1>2, <2>2, PeopleRowsAre DEF People!Bounds
  <2> QED
      BY <1>2, <2>1, <2>2
<1>4. 0..Len(v2) \subseteq 0..Len(v2') /\ People!Call \subseteq People!Call'
  <2>1. 0..Len(v2) \subseteq 0..Len(v2')
      BY <1>3, PeopleRowsAre
  <2> QED
      BY <2>1 DEF People!Call
<1> DEFINE q == [People!Idle EXCEPT !.step = "done"]
<1>5. q \in People!Call /\ q.step = "done" /\ v6' = [v6 EXCEPT ![r] = q]
    BY <1>2, PeopleIdleIs, PeopleRowsAre DEF People!Answers
<1> HIDE DEF q
<1>6. v6' \in [Client -> People!Call'] /\ \A p \in Client : v6'[p] = v6[p] \/ v6'[p] = q
    BY <1>4, <1>5, PeopleRowsAre
<1>7. \A p \in Client : v6'[p] = v6[p] \/ People!Fit(v6[p])'
    BY <1>5, <1>6 DEF People!Fit
<1>8. \A at, u, space : People!Scope(at, u, space)' <=> People!Scope(at, u, space)
    BY <1>2 DEF People!Scope
<1>9. \A at, u : People!Signable(at, u) => People!Signable(at, u)'
    BY <1>3, <1>8 DEF People!Signable
<1>10. v4' \subseteq PeopleSessions' /\ v4' \ v4 = {}
    BY <1>2, <1>3, PeopleRowsAre DEF PeopleSessions
<1>11. v3' \in [Address -> 0..Len(v2')]
    BY <1>2, <1>4, PeopleRowsAre
<1> QED
    BY <1>2, <1>3, <1>6, <1>7, <1>8, <1>9, <1>10, <1>11, PeopleStep, PeopleRowsAre

\* A portal is switched, or is deleted and its consumers join the agents.
LEMMA PeoplePortalStep ==
    ASSUME People!Bounds, People!IInv, NEW p \in Tenant,
           People!SwitchPortal(p) \/ People!DeletePortal(p)
    PROVE  People!IInv'
<1> DEFINE moved(u) == IF v2[u].live /\ v2[u].space = p
                       THEN [v2[u] EXCEPT !.space = People!Agents] ELSE v2[u]
<1>1. /\ v1[p] # "gone" /\ UNCHANGED <<v3, v4, v5, v6>>
      /\ v1' \in [Tenant -> {"active", "inactive", "gone"}]
      /\ \A s \in Tenant : v1[s] = "gone" => v1'[s] = "gone"
    BY PeopleRowsAre DEF People!SwitchPortal, People!DeletePortal
<1>2. \/ v2' = v2
      \/ v1'[p] = "gone" /\ v2' = [u \in DOMAIN v2 |-> moved(u)]
    BY PeopleRowsAre DEF People!SwitchPortal, People!DeletePortal
<1>3. \A u \in DOMAIN v2 :
         /\ moved(u) \in People!Rows
         /\ \/ moved(u).space = v2[u].space
            \/ v2[u].space = p /\ moved(u).space = People!Agents
  <2> TAKE u \in DOMAIN v2
  <2>1. v2[u] \in People!Rows /\ People!Agents \in People!Space
      BY PeopleRowsAre DEF People!Space
  <2> QED
      BY <2>1 DEF People!Rows
<1> HIDE DEF moved
<1>4. /\ v2' \in Seq(People!Rows) /\ Len(v2') = Len(v2) /\ DOMAIN v2' = DOMAIN v2
      /\ \A u \in DOMAIN v2 : \/ v2'[u].space = v2[u].space
                              \/ v2[u].space = p /\ v1'[p] = "gone"
  <2>1. CASE v2' = v2
      BY <2>1, PeopleRowsAre
  <2>2. CASE v1'[p] = "gone" /\ v2' = [u \in DOMAIN v2 |-> moved(u)]
    <3>1. DOMAIN v2 = 1..Len(v2) /\ Len(v2) \in Nat
        BY PeopleRowsAre
    <3>2. v2' \in [1..Len(v2) -> People!Rows]
        BY <1>3, <2>2, <3>1
    <3>3. v2' \in Seq(People!Rows) /\ Len(v2') = Len(v2)
        BY <3>1, <3>2
    <3> QED
        BY <1>3, <2>2, <3>3
  <2> QED
      BY <1>2, <2>1, <2>2
<1>5. \A at, u, space : People!Scope(at, u, space) => People!Scope(at, u, space)'
    BY <1>1 DEF People!Scope
<1>6. \A at, u : People!Signable(at, u) => People!Signable(at, u)'
  <2> SUFFICES ASSUME NEW at, NEW u, People!Signable(at, u) PROVE People!Signable(at, u)'
      OBVIOUS
  <2>1. u \in DOMAIN v2 /\ People!Scope(at, u, v2[u].space)
      BY DEF People!Signable
  <2>2. CASE v2'[u].space = v2[u].space
      BY <1>4, <1>5, <2>1, <2>2 DEF People!Signable
  <2>3. CASE v2[u].space = p /\ v1'[p] = "gone"
      BY <1>1, <1>4, <2>1, <2>3 DEF People!Signable, People!Scope
  <2> QED
      BY <1>4, <2>1, <2>2, <2>3
<1>7. /\ People!Call' = People!Call
      /\ PeopleSessions' = PeopleSessions
      /\ Len(v2') \in 1..MaxUsers
    BY <1>4, PeopleRowsAre DEF People!Call, PeopleSessions
<1>8. v4' \subseteq PeopleSessions' /\ v4' \ v4 = {}
    BY <1>1, <1>7, PeopleRowsAre DEF PeopleSessions
<1>9. v3' \in [Address -> 0..Len(v2')] /\ v6' \in [Client -> People!Call']
      /\ v5' \in 0..MaxResets /\ \A r \in Client : v6'[r] = v6[r]
    BY <1>1, <1>4, <1>7, PeopleRowsAre
<1> QED
    BY <1>1, <1>4, <1>5, <1>6, <1>7, <1>8, <1>9, PeopleStep

LEMMA PeopleInductive ==
    ASSUME People!Bounds
    PROVE  People!IInv /\ [People!Next]_(People!vars) => People!IInv'
<1> SUFFICES ASSUME People!IInv, [People!Next]_(People!vars) PROVE People!IInv'
    OBVIOUS
<1>1. CASE UNCHANGED People!vars
    BY <1>1 DEF People!vars, People!IInv, People!TypeOK, People!Fit, People!Signable,
       People!Scope, People!Call
<1>2. ASSUME NEW r \in Client, NEW e \in Address,
                   People!RegisterAgent(r, e) \/ People!LoginAgent(r, e) \/ People!GoogleAgent(r, e)
                   \/ People!ForgotPassword(r, e) \/ People!LookForAdmin(r, e)
      PROVE  People!IInv'
    BY <1>2, PeopleRegisterAgentStep, PeopleLoginStep, PeopleGoogleAgentStep,
       PeopleForgotStep, PeopleLookStep
<1>3. ASSUME NEW r \in Client, NEW p \in Tenant, NEW e \in Address,
                   NEW step \in {"register", "login", "google"}, People!EnterPortal(r, p, e, step)
      PROVE  People!IInv'
    BY <1>3, PeopleEnterStep
<1>4. ASSUME NEW r \in Client, NEW secret, People!Compare(r, secret)
      PROVE  People!IInv'
    BY <1>4, PeopleCompareStep
<1>5. ASSUME NEW r \in Client,
                   \/ People!RegisterConsumer(r) \/ People!LoginConsumer(r)
                   \/ People!GoogleFind(r) \/ People!GoogleUpdate(r) \/ People!GoogleCreate(r)
                   \/ People!ResetPassword(r) \/ People!BootstrapAdmin(r)
      PROVE  People!IInv'
    BY <1>5, PeopleRegisterConsumerStep, PeopleLoginStep, PeopleGoogleFindStep,
       PeopleGoogleUpdateStep,
       PeopleGoogleCreateStep, PeopleResetStep, PeopleBootStep DEF People!Bounds
<1>6. ASSUME NEW r \in Client, NEW u \in DOMAIN v2, NEW link, People!CheckLink(r, u, link)
      PROVE  People!IInv'
    BY <1>6, PeopleCheckLinkStep
<1>7. ASSUME NEW r \in Client, NEW s \in v4, People!Refresh(r, s)
      PROVE  People!IInv'
    BY <1>7, PeopleRefreshStep
<1>8. ASSUME NEW r \in Client, NEW s \in v4, NEW u \in DOMAIN v2,
                   People!DeleteUser(r, s, u)
      PROVE  People!IInv'
    BY <1>8, PeopleDeleteStep
<1>9. ASSUME NEW r \in Client, NEW s \in v4, NEW u \in DOMAIN v2,
                   NEW role \in People!Role, NEW e \in Address, People!UpdateUser(r, s, u, role, e)
      PROVE  People!IInv'
    BY <1>9, PeopleUpdateStep
<1>10. ASSUME NEW p \in Tenant, People!SwitchPortal(p) \/ People!DeletePortal(p)
      PROVE  People!IInv'
    BY <1>10, PeoplePortalStep
<1> QED
    BY <1>1, <1>2, <1>3, <1>4, <1>5, <1>6, <1>7, <1>8, <1>9, <1>10 DEF People!Next

LEMMA PeopleProperties == People!IInv => People!TypeOK /\ People!SessionInScope
    BY DEF People!IInv, People!SessionInScope, People!Scope, PeopleSessions

-----------------------------------------------------------------------------
(* A portal, its domains and its featured listings.                        *)
(* v1 portal, v2 published, v3 domain, v4 dns, v5 featured, v6 noticed, v7 *)
(* raced, v8 req.                                                          *)

\* The finite sets of the instance are those of FiniteSets.
LEMMA SitesSets ==
    \A S : /\ Sites!IsFiniteSet(S) <=> IsFiniteSet(S)
          /\ Sites!Cardinality(S) = Cardinality(S)
    BY DEF Sites!IsFiniteSet, IsFiniteSet, Sites!Cardinality, Cardinality

SitesRows == Sites!DomainRow \cup {Sites!Missing, Sites!Gone}
SitesBusy == {"set", "insert"}

\* The rows of a domain, and the lists of an update.
LEMMA SitesRowsAre ==
    /\ Sites!Missing \in SitesRows /\ Sites!Gone \in SitesRows /\ Sites!Gone # Sites!Missing
    /\ \A x \in Sites!DomainRow : /\ x # Sites!Missing /\ x # Sites!Gone
                                  /\ x.portal \in Website
                                  /\ x.status \in {"PENDING", "ACTIVE"}
                                  /\ x.canonical \in BOOLEAN
    /\ \A x \in SitesRows : x \notin {Sites!Missing, Sites!Gone} => x \in Sites!DomainRow
    BY DEF SitesRows, Sites!DomainRow, Sites!Missing, Sites!Gone

LEMMA SitesListsAre == ASSUME NEW list \in Sites!Lists
    PROVE \A x, y \in Sites!RowsOf(list) : x[2] = y[2] => x = y
    BY DEF Sites!RowsOf

LEMMA SitesIdleIs ==
    /\ Sites!Shape(Sites!Idle) /\ Sites!Idle.step = "idle"
    /\ \A answer \in {"done", "refused"} : \A q : q = [Sites!Idle EXCEPT !.step = answer] =>
          Sites!Shape(q) /\ q.step = answer
    BY DEF Sites!Idle, Sites!Shape

\* What the invariant says.
LEMMA SitesIs ==
    ASSUME Sites!IInv
    PROVE  /\ v3 \in [Hostname -> SitesRows] /\ DOMAIN v5 = Website /\ DOMAIN v8 = Visit
           /\ v7 \in BOOLEAN
           /\ \A d \in Hostname : Sites!Registered(d) => v3[d] \in Sites!DomainRow
           /\ \A p \in Website : \A d \in Sites!Canonical(p) : v3[d].status = "ACTIVE"
           /\ ~v7 => /\ \A p \in Website : \A c, d \in Sites!Canonical(p) : c = d
                     /\ \A p \in Website : \A x, y \in v5[p] : x[2] = y[2] => x = y
                     /\ \A q, r \in Visit : Sites!Replacing(q) /\ Sites!Replacing(r)
                          => q = r
           /\ \A r \in Visit : Sites!Shape(v8[r]) /\ Sites!Knows(v8[r])
<1>1. v3 \in [Hostname -> SitesRows]
    BY DEF Sites!IInv, SitesRows
<1>2. \A d \in Hostname : Sites!Registered(d) => v3[d] \in Sites!DomainRow
    BY <1>1, SitesRowsAre DEF Sites!Registered
<1>3. \A p \in Website : \A d \in Sites!Canonical(p) : v3[d].status = "ACTIVE"
    BY DEF Sites!IInv, Sites!CanonicalIsActive, Sites!Canonical
<1> QED
    BY <1>1, <1>2, <1>3 DEF Sites!IInv

\* One request moves.  A domain that was there is not made again, and keeps its portal
\* and its proof; what another request's replacement saw can only get less.
LEMMA SitesStep ==
    ASSUME Sites!IInv, NEW r \in Visit, NEW q, Sites!Shape(q), v8' = [v8 EXCEPT ![r] = q],
           v3' \in [Hostname -> SitesRows], DOMAIN v5' = Website,
           v7 => v7', v7' \in BOOLEAN,
           \A d \in Hostname : v3[d] # Sites!Missing =>
              /\ v3'[d] # Sites!Missing
              /\ Sites!Registered(d)' => /\ Sites!Registered(d)
                                         /\ v3'[d].portal = v3[d].portal
                                         /\ v3[d].status = "ACTIVE"
                                              => v3'[d].status = "ACTIVE",
           \A p \in Website : \A d \in Sites!Canonical(p)' : v3'[d].status = "ACTIVE",
           ~v7' => /\ \A p \in Website : \A c, d \in Sites!Canonical(p)' : c = d
                   /\ \A p \in Website : \A x, y \in v5'[p] : x[2] = y[2] => x = y,
           Sites!Knows(q)',
           ~v7' => \A z \in Visit \ {r} : Sites!Replacing(z) =>
              /\ q.step \notin SitesBusy
              /\ v8[z].step = "set" =>
                    \A p : p = v8[z].portal => Sites!Canonical(p)' \subseteq Sites!Canonical(p)
              /\ v8[z].step = "insert" => v5'[v8[z].portal] \subseteq v5[v8[z].portal]
    PROVE  Sites!IInv'
<1>1. /\ DOMAIN v8' = Visit /\ v8'[r] = q /\ \A z \in Visit \ {r} : v8'[z] = v8[z]
    BY SitesIs
<1>2. Sites!CanonicalIsActive'
    BY DEF Sites!CanonicalIsActive
<1>3. ~v7' => \A x, y \in Visit : Sites!Replacing(x)' /\ Sites!Replacing(y)' => x = y
    BY <1>1, SitesIs DEF Sites!Replacing, SitesBusy
<1>4. ASSUME NEW z \in Visit PROVE Sites!Shape(v8[z])' /\ Sites!Knows(v8[z])'
  <2>1. CASE z = r
      BY <1>1, <2>1 DEF Sites!Shape, Sites!Knows, Sites!Registered, Sites!Canonical
  <2>2. CASE z # r
    <3>1. v8'[z] = v8[z] /\ Sites!Shape(v8[z]) /\ Sites!Knows(v8[z])
        BY <1>1, <2>2, SitesIs
    <3>0. PICK p : p = v8[z].portal
        OBVIOUS
    <3>2. /\ v8[z].step = "set" /\ ~ v7' => Sites!Canonical(p)' \subseteq v8[z].seen
          /\ v8[z].step = "insert" /\ ~ v7' => v5'[v8[z].portal] \subseteq v8[z].seen
        BY <2>2, <3>0, <3>1 DEF Sites!Knows, Sites!Replacing
    <3>3. Sites!Shape(v8[z])'
        BY <3>1 DEF Sites!Shape
    <3>4. /\ v8[z].step \in {"verify", "proved", "unset", "set"} =>
                v8[z].domain \in Hostname /\ v3'[v8[z].domain] # Sites!Missing
          /\ v8[z].step \in {"unset", "set"} /\ Sites!Registered(v8[z].domain)' =>
                /\ v3'[v8[z].domain].status = "ACTIVE"
                /\ v3'[v8[z].domain].portal = v8[z].portal
          /\ v8[z].step \in {"clear", "insert"}
               => v8[z].portal \in Website /\ v8[z].list \in Sites!Lists
      <4> DEFINE d == v8[z].domain
      <4>1. v8[z].step \in {"verify", "proved", "unset", "set"} => d \in Hostname /\ v3[d] # Sites!Missing
          BY <3>1 DEF Sites!Knows
      <4>2. v8[z].step \in {"unset", "set"} /\ Sites!Registered(d) =>
               v3[d].status = "ACTIVE" /\ v3[d].portal = v8[z].portal
          BY <3>1 DEF Sites!Knows
      <4>3. v8[z].step \in {"clear", "insert"} => v8[z].portal \in Website /\ v8[z].list \in Sites!Lists
          BY <3>1 DEF Sites!Knows
      <4> QED
          BY <3>1, <4>1, <4>2, <4>3 DEF Sites!Registered
    <3> QED
        BY <3>0, <3>1, <3>2, <3>3, <3>4 DEF Sites!Knows, Sites!Registered, Sites!Canonical
  <2> QED
      BY <2>1, <2>2
<1> QED
    BY <1>1, <1>2, <1>3, <1>4 DEF Sites!IInv, SitesRows

\* A request moves, and no domain or list does.
LEMMA SitesMoveStep ==
    ASSUME Sites!IInv, NEW r \in Visit, NEW q, Sites!Shape(q), v8' = [v8 EXCEPT ![r] = q],
           UNCHANGED <<v3, v5, v7>>, q.step \notin SitesBusy, Sites!Knows(q)
    PROVE  Sites!IInv'
<1>1. \A p : Sites!Canonical(p)' = Sites!Canonical(p)
    BY DEF Sites!Canonical, Sites!Registered
<1>2. \A d : Sites!Registered(d)' <=> Sites!Registered(d)
    BY DEF Sites!Registered
<1>3. Sites!Knows(q)'
    BY <1>1, <1>2 DEF Sites!Knows
<1> QED
    BY <1>1, <1>2, <1>3, SitesIs, SitesStep

\* A request is answered, or goes on to a step about no domain and no list.
LEMMA SitesPlainStep ==
    ASSUME Sites!IInv, NEW r \in Visit, NEW q, Sites!Shape(q), v8' = [v8 EXCEPT ![r] = q],
           UNCHANGED <<v3, v5, v7>>,
           q.step \in {"done", "refused", "create", "update", "test", "ensure"}
    PROVE  Sites!IInv'
<1>1. Sites!Knows(q) /\ q.step \notin SitesBusy
    BY DEF Sites!Knows, SitesBusy
<1> QED
    BY <1>1, SitesMoveStep

LEMMA SitesCreatePortalStep ==
    ASSUME Sites!IInv, NEW r \in Visit, NEW slug, NEW patch,
           Sites!CreatePortal(r, slug, patch)
    PROVE  Sites!IInv'
<1>1. PICK f, q :
         /\ \/ q = [Sites!Idle EXCEPT !.step = "refused"]
            \/ q = [Sites!Idle EXCEPT !.step = "create", !.slug = slug, !.fields = f]
         /\ v8' = [v8 EXCEPT ![r] = q]
    BY DEF Sites!CreatePortal, Sites!Answers, Sites!Continues
<1>2. UNCHANGED <<v3, v5, v7>>
    BY DEF Sites!CreatePortal, Sites!rows
<1>3. Sites!Shape(q) /\ q.step \in {"refused", "create"}
    BY <1>1 DEF Sites!Idle, Sites!Shape
<1> QED
    BY <1>1, <1>2, <1>3, SitesPlainStep

LEMMA SitesAnswerStep ==
    ASSUME Sites!IInv, NEW r \in Visit, NEW answer \in {"done", "refused"},
           Sites!Answers(r, answer),
           UNCHANGED <<v3, v5, v7>>
    PROVE  Sites!IInv'
<1>1. PICK q : q = [Sites!Idle EXCEPT !.step = answer]
    OBVIOUS
<1>2. Sites!Shape(q) /\ q.step = answer /\ v8' = [v8 EXCEPT ![r] = q]
    BY <1>1, SitesIdleIs DEF Sites!Answers
<1> QED
    BY <1>2, SitesPlainStep

LEMMA SitesUpdatePortalStep ==
    ASSUME Sites!IInv, NEW r \in Visit, NEW p, NEW patch, Sites!UpdatePortal(r, p, patch)
    PROVE  Sites!IInv'
<1>1. PICK q : /\ \/ q = [Sites!Idle EXCEPT !.step = "refused"]
                  \/ q = [Sites!Idle EXCEPT !.step = "update", !.portal = p, !.fields = v1[p].fields,
                                      !.patch = patch]
               /\ v8' = [v8 EXCEPT ![r] = q]
    BY DEF Sites!UpdatePortal, Sites!Answers, Sites!Continues
<1>2. UNCHANGED <<v3, v5, v7>>
    BY DEF Sites!UpdatePortal, Sites!rows
<1>3. Sites!Shape(q) /\ q.step \in {"refused", "update"}
    BY <1>1 DEF Sites!Idle, Sites!Shape
<1> QED
    BY <1>1, <1>2, <1>3, SitesPlainStep

LEMMA SitesTestInquiryStep ==
    ASSUME Sites!IInv, NEW r \in Visit, NEW p, Sites!TestInquiry(r, p)
    PROVE  Sites!IInv'
<1>1. PICK q : /\ \/ q = [Sites!Idle EXCEPT !.step = "refused"]
                  \/ q = [Sites!Idle EXCEPT !.step = "test", !.portal = p]
               /\ v8' = [v8 EXCEPT ![r] = q]
    BY DEF Sites!TestInquiry, Sites!Answers, Sites!Continues
<1>2. UNCHANGED <<v3, v5, v7>>
    BY DEF Sites!TestInquiry, Sites!rows
<1>3. Sites!Shape(q) /\ q.step \in {"refused", "test"}
    BY <1>1 DEF Sites!Idle, Sites!Shape
<1> QED
    BY <1>1, <1>2, <1>3, SitesPlainStep

LEMMA SitesLookStep ==
    ASSUME Sites!IInv, NEW r \in Visit, Sites!LookForPortal(r)
    PROVE  Sites!IInv'
<1>1. PICK q : /\ \/ q = [Sites!Idle EXCEPT !.step = "done"]
                  \/ q = [Sites!Idle EXCEPT !.step = "ensure", !.slug = Site]
               /\ v8' = [v8 EXCEPT ![r] = q]
    BY DEF Sites!LookForPortal, Sites!Answers, Sites!Continues
<1>2. UNCHANGED <<v3, v5, v7>>
    BY DEF Sites!LookForPortal, Sites!rows
<1>3. Sites!Shape(q) /\ q.step \in {"done", "ensure"}
    BY <1>1 DEF Sites!Idle, Sites!Shape
<1> QED
    BY <1>1, <1>2, <1>3, SitesPlainStep

\* The steps that only write the row of a portal.
LEMMA SitesPortalRowStep ==
    ASSUME Sites!IInv, NEW r \in Visit, NEW p, NEW b,
           \/ Sites!StorePortal(r) \/ Sites!StoreUpdate(r) \/ Sites!StampRouting(r, b) \/ Sites!EnsurePortal(r, b)
           \/ Sites!Suspend(r, p, b)
    PROVE  Sites!IInv'
<1>1. UNCHANGED <<v3, v5, v7>> /\ (Sites!Answers(r, "done") \/ Sites!Answers(r, "refused"))
    BY DEF Sites!StorePortal, Sites!StoreUpdate, Sites!StampRouting, Sites!EnsurePortal,
       Sites!Suspend
<1> QED
    BY <1>1, SitesAnswerStep

LEMMA SitesEnvironmentStep == ASSUME Sites!IInv, Sites!Environment PROVE Sites!IInv'
    BY DEF Sites!IInv, Sites!Environment, Sites!rows, Sites!CanonicalIsActive,
       Sites!Canonical, Sites!Registered, Sites!Replacing, Sites!Shape, Sites!Knows

LEMMA SitesVerifyStep ==
    ASSUME Sites!IInv, NEW r \in Visit, NEW d \in Hostname, Sites!VerifyDomain(r, d)
    PROVE  Sites!IInv'
<1>1. PICK q : /\ \/ q = [Sites!Idle EXCEPT !.step = "done"]
                  \/ q = [Sites!Idle EXCEPT !.step = "verify", !.domain = d]
               /\ v8' = [v8 EXCEPT ![r] = q]
    BY DEF Sites!VerifyDomain, Sites!Answers, Sites!Continues
<1>2. UNCHANGED <<v3, v5, v7>> /\ Sites!Registered(d)
    BY DEF Sites!VerifyDomain, Sites!rows
<1>3. Sites!Shape(q) /\ q.step \in {"done", "verify"} /\ (q.step = "verify" => q.domain = d)
    BY <1>1 DEF Sites!Idle, Sites!Shape
<1>4. Sites!Knows(q) /\ q.step \notin SitesBusy
    BY <1>2, <1>3 DEF Sites!Knows, Sites!Registered, SitesBusy
<1> QED
    BY <1>1, <1>2, <1>3, <1>4, SitesMoveStep

LEMMA SitesResolveStep ==
    ASSUME Sites!IInv, NEW r \in Visit, Sites!ResolveTxt(r)
    PROVE  Sites!IInv'
<1>0. PICK k : k = v8[r]
    OBVIOUS
<1>1. PICK q : /\ \/ q = [Sites!Idle EXCEPT !.step = "refused"]
                  \/ q = [k EXCEPT !.step = "proved"]
               /\ v8' = [v8 EXCEPT ![r] = q]
    BY <1>0 DEF Sites!ResolveTxt, Sites!Answers, Sites!Continues
<1>2. UNCHANGED <<v3, v5, v7>> /\ k.step = "verify" /\ Sites!Shape(k) /\ Sites!Knows(k)
    BY <1>0, SitesIs DEF Sites!ResolveTxt, Sites!rows
<1>3. /\ Sites!Shape(q)
      /\ q.step \in {"refused", "proved"}
      /\ (q.step = "proved" => q.domain = k.domain)
    BY <1>1, <1>2 DEF Sites!Idle, Sites!Shape
<1>4. Sites!Knows(q) /\ q.step \notin SitesBusy
    BY <1>2, <1>3 DEF Sites!Knows, SitesBusy
<1> QED
    BY <1>1, <1>2, <1>3, <1>4, SitesMoveStep

LEMMA SitesChooseStep ==
    ASSUME Sites!IInv, NEW r \in Visit, NEW d \in Hostname, Sites!ChooseCanonical(r, d)
    PROVE  Sites!IInv'
<1>0. PICK p : p = v3[d].portal
    OBVIOUS
<1>1. PICK q : /\ \/ q = [Sites!Idle EXCEPT !.step = "refused"]
                  \/ /\ q = [Sites!Idle EXCEPT !.step = "unset", !.domain = d, !.portal = p]
                     /\ v3[d].status = "ACTIVE"
               /\ v8' = [v8 EXCEPT ![r] = q]
    BY <1>0 DEF Sites!ChooseCanonical, Sites!Answers, Sites!Continues
<1>2. UNCHANGED <<v3, v5, v7>> /\ Sites!Registered(d)
    BY DEF Sites!ChooseCanonical, Sites!rows
<1>3. /\ Sites!Shape(q) /\ q.step \in {"refused", "unset"}
      /\ q.step = "unset" => q.domain = d /\ q.portal = p /\ v3[d].status = "ACTIVE"
    BY <1>1 DEF Sites!Idle, Sites!Shape
<1>4. Sites!Knows(q) /\ q.step \notin SitesBusy
    BY <1>0, <1>2, <1>3 DEF Sites!Knows, Sites!Registered, SitesBusy
<1> QED
    BY <1>1, <1>2, <1>3, <1>4, SitesMoveStep

LEMMA SitesReplaceStep ==
    ASSUME Sites!IInv, NEW r \in Visit, NEW p \in Website, NEW list \in Sites!Lists,
           Sites!ReplaceFeatured(r, p, list)
    PROVE  Sites!IInv'
<1>1. PICK q : /\ q = [Sites!Idle EXCEPT !.step = "clear", !.portal = p, !.list = list]
               /\ v8' = [v8 EXCEPT ![r] = q]
    BY DEF Sites!ReplaceFeatured, Sites!Continues
<1>2. UNCHANGED <<v3, v5, v7>>
    BY DEF Sites!ReplaceFeatured, Sites!rows
<1>3. Sites!Shape(q) /\ q.step = "clear" /\ q.portal = p /\ q.list = list
    BY <1>1 DEF Sites!Idle, Sites!Shape
<1>4. Sites!Knows(q) /\ q.step \notin SitesBusy
    BY <1>3 DEF Sites!Knows, SitesBusy
<1> QED
    BY <1>1, <1>2, <1>3, <1>4, SitesMoveStep

\* A replacement begins; one that overlaps another is marked.
LEMMA SitesBeginStep ==
    ASSUME Sites!IInv, NEW r \in Visit, Sites!UnsetCanonical(r) \/ Sites!ClearFeatured(r)
    PROVE  Sites!IInv'
<1>0. PICK k, seen, step :
         /\ k = v8[r] /\ seen = IF k.step = "unset" THEN Sites!Canonical(k.portal) ELSE v5[k.portal]
         /\ step = IF k.step = "unset" THEN "set" ELSE "insert"
    OBVIOUS
<1>1. PICK q : /\ q = [k EXCEPT !.step = step, !.seen = seen]
               /\ v8' = [v8 EXCEPT ![r] = q]
    BY <1>0 DEF Sites!UnsetCanonical, Sites!ClearFeatured, Sites!Begins, Sites!Continues
<1>2. /\ UNCHANGED <<v3, v5>>
      /\ k.step \in {"unset", "clear"}
      /\ Sites!Shape(k)
      /\ Sites!Knows(k)
      /\ v7' = (v7 \/ \E z \in Visit \ {r} : Sites!Replacing(z))
    BY <1>0, SitesIs DEF Sites!UnsetCanonical, Sites!ClearFeatured, Sites!Begins
<1>3. /\ Sites!Shape(q)
      /\ q.step = step
      /\ q.seen = seen
      /\ q.portal = k.portal
      /\ q.domain = k.domain
      /\ q.list = k.list
  <2>1. PICK j : j = [k EXCEPT !.step = step]
      OBVIOUS
  <2>2. /\ Sites!Shape(j)
        /\ j.step = step
        /\ j.portal = k.portal
        /\ j.domain = k.domain
        /\ j.list = k.list
      BY <1>2, <2>1 DEF Sites!Shape
  <2>3. q = [j EXCEPT !.seen = seen]
      BY <1>1, <1>2, <2>1 DEF Sites!Shape
  <2> QED
      BY <2>2, <2>3 DEF Sites!Shape
<1>4. v7' \in BOOLEAN
    BY <1>2
<1>5. /\ \A p : Sites!Canonical(p)' = Sites!Canonical(p)
      /\ \A d : Sites!Registered(d)' <=> Sites!Registered(d)
    BY <1>2 DEF Sites!Canonical, Sites!Registered
<1>6. Sites!Knows(q)'
    BY <1>0, <1>2, <1>3, <1>5 DEF Sites!Knows
<1>7. /\ v3' \in [Hostname -> SitesRows] /\ DOMAIN v5' = Website /\ (v7 => v7')
      /\ \A d \in Hostname : v3[d] # Sites!Missing =>
            /\ v3'[d] # Sites!Missing
            /\ Sites!Registered(d)' => /\ Sites!Registered(d)
                                       /\ v3'[d].portal = v3[d].portal
                                       /\ v3[d].status = "ACTIVE"
                                            => v3'[d].status = "ACTIVE"
      /\ \A p \in Website : \A d \in Sites!Canonical(p)' : v3'[d].status = "ACTIVE"
    BY <1>2, <1>5, SitesIs
<1>8. ~v7' => \A z \in Visit : z # r => ~Sites!Replacing(z)
    BY <1>2
<1>9. v8' = [v8 EXCEPT ![r] = q] /\ Sites!Shape(q)
    BY <1>1, <1>3
<1>10. ~v7' => \A z \in Visit \ {r} : Sites!Replacing(z) =>
          /\ q.step \notin SitesBusy
          /\ v8[z].step = "set" =>
                \A p : p = v8[z].portal => Sites!Canonical(p)' \subseteq Sites!Canonical(p)
          /\ v8[z].step = "insert" => v5'[v8[z].portal] \subseteq v5[v8[z].portal]
  <2> SUFFICES ASSUME ~v7', NEW z \in Visit \ {r}, Sites!Replacing(z) PROVE FALSE
      OBVIOUS
  <2> QED
      BY <1>8
<1>11. ~v7' => /\ \A p \in Website : \A c, d \in Sites!Canonical(p)' : c = d
               /\ \A p \in Website : \A x, y \in v5'[p] : x[2] = y[2] => x = y
    BY <1>2, <1>5, SitesIs
<1> QED
    BY <1>4, <1>6, <1>7, <1>9, <1>10, <1>11, SitesStep

\* Domains change, none is made canonical, and the request is answered.
LEMMA SitesDomainStep ==
    ASSUME Sites!IInv, NEW r \in Visit,
           Sites!Answers(r, "done") \/ Sites!Answers(r, "refused"), v7' = v7,
           v3' \in [Hostname -> SitesRows], DOMAIN v5' = Website,
           \A p \in Website : v5'[p] \subseteq v5[p],
           \A d \in Hostname : v3[d] # Sites!Missing =>
              /\ v3'[d] # Sites!Missing
              /\ Sites!Registered(d)' => /\ Sites!Registered(d)
                                         /\ v3'[d].portal = v3[d].portal
                                         /\ v3'[d].canonical = v3[d].canonical
                                         /\ v3[d].status = "ACTIVE"
                                              => v3'[d].status = "ACTIVE",
           \A d \in Hostname : v3[d] = Sites!Missing /\ Sites!Registered(d)' => v3'[d].canonical = FALSE
    PROVE  Sites!IInv'
<1>1. PICK q : /\ q = [Sites!Idle EXCEPT !.step = "done"] \/ q = [Sites!Idle EXCEPT !.step = "refused"]
               /\ v8' = [v8 EXCEPT ![r] = q]
    BY DEF Sites!Answers
<1>2. Sites!Shape(q) /\ q.step \in {"done", "refused"}
    BY <1>1, SitesIdleIs
<1>3. ASSUME NEW p, NEW d \in Sites!Canonical(p)'
      PROVE  d \in Sites!Canonical(p) /\ (v3[d].status = "ACTIVE" => v3'[d].status = "ACTIVE")
  <2>1. d \in Hostname /\ Sites!Registered(d)' /\ v3'[d].portal = p /\ v3'[d].canonical
      BY <1>3 DEF Sites!Canonical
  <2>2. v3[d] # Sites!Missing
      BY <2>1
  <2> QED
      BY <2>1, <2>2 DEF Sites!Canonical
<1>4. /\ \A p \in Website : \A d \in Sites!Canonical(p)' : v3'[d].status = "ACTIVE"
      /\ ~v7' => /\ \A p \in Website : \A c, d \in Sites!Canonical(p)' : c = d
                 /\ \A p \in Website : \A x, y \in v5'[p] : x[2] = y[2] => x = y
    BY <1>3, SitesIs
<1>5. Sites!Knows(q)' /\ q.step \notin SitesBusy
    BY <1>2 DEF Sites!Knows, SitesBusy
<1>6. \A z \in Visit \ {r} :
         /\ \A p : Sites!Canonical(p)' \subseteq Sites!Canonical(p)
         /\ v8[z].step = "insert" => v5'[v8[z].portal] \subseteq v5[v8[z].portal]
    BY <1>3, SitesIs DEF Sites!Knows
<1>7. /\ v3' \in [Hostname -> SitesRows] /\ DOMAIN v5' = Website /\ (v7 => v7')
      /\ v7' \in BOOLEAN
      /\ \A d \in Hostname : v3[d] # Sites!Missing =>
            /\ v3'[d] # Sites!Missing
            /\ Sites!Registered(d)' => /\ Sites!Registered(d)
                                       /\ v3'[d].portal = v3[d].portal
                                       /\ v3[d].status = "ACTIVE"
                                            => v3'[d].status = "ACTIVE"
    BY SitesIs
<1>8. v8' = [v8 EXCEPT ![r] = q] /\ Sites!Shape(q)
    BY <1>1, <1>2
<1> QED
    BY <1>4, <1>5, <1>6, <1>7, <1>8, SitesStep

LEMMA SitesDeletePortalStep ==
    ASSUME Sites!IInv, NEW r \in Visit, NEW p \in Website, Sites!DeletePortal(r, p)
    PROVE  Sites!IInv'
<1>1. /\ v3' = [d \in Hostname |->
                      IF Sites!Registered(d) /\ v3[d].portal = p THEN Sites!Gone ELSE v3[d]]
      /\ v5' = [v5 EXCEPT ![p] = {}] /\ Sites!Answers(r, "done") /\ v7' = v7
    BY DEF Sites!DeletePortal
<1>2. v3' \in [Hostname -> SitesRows] /\ \A d \in Hostname : v3'[d] = Sites!Gone \/ v3'[d] = v3[d]
    BY <1>1, SitesIs, SitesRowsAre
<1>3. DOMAIN v5' = Website /\ \A s \in Website : v5'[s] \subseteq v5[s]
    BY <1>1, SitesIs
<1>4. \A d \in Hostname : Sites!Registered(d)' => Sites!Registered(d) /\ v3'[d] = v3[d]
    BY <1>2 DEF Sites!Registered
<1>5. \A d \in Hostname : Sites!Registered(d) => v3[d] # Sites!Missing
    BY DEF Sites!Registered
<1> QED
    BY <1>1, <1>2, <1>3, <1>4, <1>5, SitesRowsAre, SitesDomainStep

LEMMA SitesRemoveStep ==
    ASSUME Sites!IInv, NEW r \in Visit, NEW d \in Hostname, Sites!RemoveDomain(r, d)
    PROVE  Sites!IInv'
<1>1. /\ v3' = [v3 EXCEPT ![d] = Sites!Gone]
      /\ UNCHANGED <<v5, v7>>
      /\ Sites!Answers(r, "done")
    BY DEF Sites!RemoveDomain
<1>2. v3' \in [Hostname -> SitesRows] /\ \A c \in Hostname : v3'[c] = Sites!Gone \/ v3'[c] = v3[c]
    BY <1>1, SitesIs, SitesRowsAre
<1>3. \A c \in Hostname : Sites!Registered(c)' => Sites!Registered(c) /\ v3'[c] = v3[c]
    BY <1>2 DEF Sites!Registered
<1>4. \A c \in Hostname : Sites!Registered(c) => v3[c] # Sites!Missing
    BY DEF Sites!Registered
<1> QED
    BY <1>1, <1>2, <1>3, <1>4, SitesIs, SitesRowsAre, SitesDomainStep

LEMMA SitesCreateDomainStep ==
    ASSUME Sites!IInv, NEW r \in Visit, NEW p \in Website, NEW d \in Hostname,
           Sites!CreateDomain(r, p, d)
    PROVE  Sites!IInv'
<1>0. PICK row : row = [portal |-> p, status |-> "PENDING", canonical |-> FALSE]
    OBVIOUS
<1>1. /\ \/ v3' = [v3 EXCEPT ![d] = row] /\ Sites!Answers(r, "done")
         \/ v3' = v3 /\ Sites!Answers(r, "refused")
      /\ UNCHANGED <<v5, v7>> /\ v3[d] = Sites!Missing
    BY <1>0 DEF Sites!CreateDomain
<1>2. row \in Sites!DomainRow /\ row.canonical = FALSE
    BY <1>0 DEF Sites!DomainRow
<1>3. /\ v3' \in [Hostname -> SitesRows] /\ \A c \in Hostname \ {d} : v3'[c] = v3[c]
      /\ v3'[d] = Sites!Missing \/ v3'[d] = row
    BY <1>1, <1>2, SitesIs DEF SitesRows
<1>4. \A c \in Hostname \ {d} : Sites!Registered(c)' => Sites!Registered(c)
    BY <1>3 DEF Sites!Registered
<1>5. \A c \in Hostname : Sites!Registered(c)' => v3'[c] # Sites!Missing
    BY DEF Sites!Registered
<1>6. \A c \in Hostname : v3[c] = Sites!Missing /\ Sites!Registered(c)' => v3'[c].canonical = FALSE
    BY <1>1, <1>2, <1>3, <1>5
<1>7. \A c \in Hostname : v3[c] # Sites!Missing => c # d
    BY <1>1
<1> QED
    BY <1>1, <1>3, <1>4, <1>6, <1>7, SitesIs, SitesDomainStep

LEMMA SitesActivateStep ==
    ASSUME Sites!IInv, NEW r \in Visit, Sites!ActivateDomain(r)
    PROVE  Sites!IInv'
<1>0. PICK d, row : d = v8[r].domain /\ row = [v3[d] EXCEPT !.status = "ACTIVE"]
    OBVIOUS
<1>1. /\ \/ v3' = [v3 EXCEPT ![d] = row] /\ Sites!Answers(r, "done") /\ Sites!Registered(d)
         \/ v3' = v3 /\ Sites!Answers(r, "refused")
      /\ UNCHANGED <<v5, v7>> /\ v8[r].step = "proved"
    BY <1>0 DEF Sites!ActivateDomain
<1>2. d \in Hostname
    BY <1>0, <1>1, SitesIs DEF Sites!Knows
<1>3. Sites!Registered(d) => /\ row \in Sites!DomainRow /\ row.status = "ACTIVE" /\ v3[d] # Sites!Missing
                             /\ row.portal = v3[d].portal /\ row.canonical = v3[d].canonical
  <2> SUFFICES ASSUME Sites!Registered(d)
               PROVE  /\ row \in Sites!DomainRow /\ row.status = "ACTIVE" /\ v3[d] # Sites!Missing
                      /\ row.portal = v3[d].portal /\ row.canonical = v3[d].canonical
      OBVIOUS
  <2>1. v3[d] \in Sites!DomainRow /\ v3[d] # Sites!Missing
      BY <1>2, SitesIs DEF Sites!Registered
  <2> QED
      BY <1>0, <2>1 DEF Sites!DomainRow
<1>4. /\ v3' \in [Hostname -> SitesRows] /\ \A c \in Hostname \ {d} : v3'[c] = v3[c]
      /\ v3'[d] = v3[d] \/ (v3'[d] = row /\ Sites!Registered(d))
    BY <1>1, <1>2, <1>3, SitesIs DEF SitesRows
<1>5. \A c \in Hostname : Sites!Registered(c)' => Sites!Registered(c)
    BY <1>4 DEF Sites!Registered
<1>6. \A c \in Hostname : Sites!Registered(c) => v3[c] # Sites!Missing
    BY DEF Sites!Registered
<1> QED
    BY <1>1, <1>2, <1>3, <1>4, <1>5, <1>6, SitesIs, SitesRowsAre, SitesDomainStep

\* The replacement commits, and no other had begun unless that is marked.
LEMMA SitesSetStep ==
    ASSUME Sites!IInv, NEW r \in Visit, Sites!SetCanonical(r)
    PROVE  Sites!IInv'
<1>0. PICK k, d : k = v8[r] /\ d = k.domain
    OBVIOUS
<1>1. CASE Sites!Answers(r, "refused") /\ v3' = v3
  <2>1. UNCHANGED <<v3, v5, v7>>
      BY <1>1 DEF Sites!SetCanonical
  <2> QED
      BY <1>1, <2>1, SitesAnswerStep
<1>2. CASE /\ Sites!Registered(d) /\ Sites!Answers(r, "done")
           /\ v3' = [c \in Hostname |->
                           IF c = d THEN [v3[c] EXCEPT !.canonical = TRUE]
                           ELSE IF c \in k.seen /\ Sites!Registered(c)
                                THEN [v3[c] EXCEPT !.canonical = FALSE] ELSE v3[c]]
  <2>1. k.step = "set" /\ UNCHANGED <<v5, v7>>
      BY <1>0 DEF Sites!SetCanonical
  <2>2. /\ d \in Hostname /\ v3[d].status = "ACTIVE" /\ v3[d].portal = k.portal
        /\ ~v7 => Sites!Canonical(k.portal) \subseteq k.seen
      BY <1>0, <1>2, <2>1, SitesIs DEF Sites!Knows
  <2>3. PICK q : q = [Sites!Idle EXCEPT !.step = "done"] /\ v8' = [v8 EXCEPT ![r] = q]
      BY <1>2 DEF Sites!Answers
  <2>4. Sites!Shape(q) /\ q.step = "done"
      BY <2>3, SitesIdleIs
  <2>5. Sites!Knows(q)' /\ q.step \notin SitesBusy
      BY <2>4 DEF Sites!Knows, SitesBusy
  <2>6. ASSUME NEW c \in Hostname
        PROVE  /\ v3'[c] \in SitesRows
               /\ Sites!Registered(c) => /\ v3[c] # Sites!Missing /\ v3'[c] \in Sites!DomainRow
                                         /\ v3'[c].portal = v3[c].portal
                                         /\ v3'[c].status = v3[c].status
               /\ ~Sites!Registered(c) => v3'[c] = v3[c]
               /\ c # d /\ Sites!Registered(c)
                    => v3'[c].canonical = (c \notin k.seen /\ v3[c].canonical)
    <3>1. CASE Sites!Registered(c)
      <4>1. v3[c] \in Sites!DomainRow /\ v3[c] # Sites!Missing
          BY <3>1, SitesIs DEF Sites!Registered
      <4>2. PICK row : row = v3[c]
          OBVIOUS
      <4>3. /\ [row EXCEPT !.canonical = TRUE] \in Sites!DomainRow
            /\ [row EXCEPT !.canonical = TRUE].portal = row.portal
            /\ [row EXCEPT !.canonical = TRUE].status = row.status
            /\ [row EXCEPT !.canonical = FALSE] \in Sites!DomainRow
            /\ [row EXCEPT !.canonical = FALSE].portal = row.portal
            /\ [row EXCEPT !.canonical = FALSE].status = row.status
            /\ [row EXCEPT !.canonical = FALSE].canonical = FALSE
            /\ row.canonical \in BOOLEAN
          BY <4>1, <4>2 DEF Sites!DomainRow
      <4>4. \/ v3'[c] = [row EXCEPT !.canonical = TRUE] /\ c = d
            \/ v3'[c] = [row EXCEPT !.canonical = FALSE] /\ c # d /\ c \in k.seen
            \/ v3'[c] = row /\ c # d /\ c \notin k.seen
          BY <1>2, <3>1, <4>2
      <4> QED
          BY <3>1, <4>1, <4>2, <4>3, <4>4 DEF SitesRows
    <3>2. CASE ~Sites!Registered(c)
        BY <1>2, <3>2, SitesIs
    <3> QED
        BY <3>1, <3>2
  <2>7. v3' \in [Hostname -> SitesRows]
      BY <1>2, <2>6
  <2>8. \A c \in Hostname : Sites!Registered(c)' <=> Sites!Registered(c)
      BY <2>6, SitesRowsAre DEF Sites!Registered
  <2>9. \A c \in Hostname : v3[c] # Sites!Missing =>
           /\ v3'[c] # Sites!Missing
           /\ Sites!Registered(c)' => /\ Sites!Registered(c)
                                      /\ v3'[c].portal = v3[c].portal
                                      /\ v3[c].status = "ACTIVE" => v3'[c].status = "ACTIVE"
      BY <2>6, <2>8, SitesRowsAre
  <2>10. ASSUME NEW p, NEW c \in Sites!Canonical(p)'
         PROVE  /\ v3'[c].status = "ACTIVE"
                /\ ~v7 => IF p = k.portal THEN c = d ELSE c \in Sites!Canonical(p)
    <3>1. c \in Hostname /\ Sites!Registered(c) /\ v3'[c].portal = p /\ v3'[c].canonical
        BY <2>8, <2>10 DEF Sites!Canonical
    <3>2. v3[c].portal = p /\ v3'[c].status = v3[c].status
        BY <2>6, <3>1
    <3>3. c # d => c \notin k.seen /\ c \in Sites!Canonical(p)
        BY <2>6, <3>1, <3>2 DEF Sites!Canonical
    <3>4. p \in Website
        BY <3>1, <3>2, SitesIs, SitesRowsAre
    <3>5. v3[c].status = "ACTIVE"
        BY <2>2, <3>3, <3>4, SitesIs
    <3> QED
        BY <2>2, <3>2, <3>3, <3>5
  <2>11. \A p \in Website : \A c \in Sites!Canonical(p)' : v3'[c].status = "ACTIVE"
      BY <2>10
  <2>12. ~v7' => /\ \A p \in Website : \A c, e \in Sites!Canonical(p)' : c = e
                 /\ \A p \in Website : \A x, y \in v5'[p] : x[2] = y[2] => x = y
      BY <2>1, <2>10, SitesIs
  <2>13. ~v7' => \A z \in Visit \ {r} : Sites!Replacing(z) =>
            /\ q.step \notin SitesBusy
            /\ v8[z].step = "set" =>
                  \A p : p = v8[z].portal => Sites!Canonical(p)' \subseteq Sites!Canonical(p)
            /\ v8[z].step = "insert" => v5'[v8[z].portal] \subseteq v5[v8[z].portal]
    <3> SUFFICES ASSUME ~v7', NEW z \in Visit \ {r}, Sites!Replacing(z) PROVE FALSE
        OBVIOUS
    <3>1. Sites!Replacing(r)
        BY <1>0, <2>1 DEF Sites!Replacing
    <3> QED
        BY <2>1, <3>1, SitesIs
  <2>14. (v7 => v7') /\ v7' \in BOOLEAN /\ DOMAIN v5' = Website
      BY <2>1, SitesIs
  <2> QED
      BY <2>3, <2>4, <2>5, <2>7, <2>9, <2>11, <2>12, <2>13, <2>14, SitesStep
<1> QED
    BY <1>0, <1>1, <1>2 DEF Sites!SetCanonical

\* The new list is all there is, unless another replacement had begun.
LEMMA SitesInsertStep ==
    ASSUME Sites!IInv, NEW r \in Visit, Sites!InsertFeatured(r)
    PROVE  Sites!IInv'
<1>0. PICK k, p : k = v8[r] /\ p = k.portal
    OBVIOUS
<1>1. CASE Sites!Answers(r, "refused") /\ v5' = v5
  <2>1. UNCHANGED <<v3, v5, v7>>
      BY <1>1 DEF Sites!InsertFeatured
  <2> QED
      BY <1>1, <2>1, SitesAnswerStep
<1>2. CASE /\ Sites!Answers(r, "done")
           /\ v5' = [v5 EXCEPT ![p] = (v5[p] \ k.seen) \cup Sites!RowsOf(k.list)]
  <2>1. k.step = "insert" /\ UNCHANGED <<v3, v7>>
      BY <1>0 DEF Sites!InsertFeatured
  <2>2. p \in Website /\ k.list \in Sites!Lists /\ (~v7 => v5[p] \subseteq k.seen)
      BY <1>0, <2>1, SitesIs DEF Sites!Knows
  <2>3. PICK q : q = [Sites!Idle EXCEPT !.step = "done"] /\ v8' = [v8 EXCEPT ![r] = q]
      BY <1>2 DEF Sites!Answers
  <2>4. Sites!Shape(q) /\ q.step = "done"
      BY <2>3, SitesIdleIs
  <2>5. Sites!Knows(q)' /\ q.step \notin SitesBusy
      BY <2>4 DEF Sites!Knows, SitesBusy
  <2>6. /\ \A s : Sites!Canonical(s)' = Sites!Canonical(s)
        /\ \A d : Sites!Registered(d)' <=> Sites!Registered(d)
      BY <2>1 DEF Sites!Canonical, Sites!Registered
  <2>7. /\ v3' \in [Hostname -> SitesRows] /\ DOMAIN v5' = Website /\ (v7 => v7')
        /\ v7' \in BOOLEAN
        /\ \A d \in Hostname : v3[d] # Sites!Missing =>
              /\ v3'[d] # Sites!Missing
              /\ Sites!Registered(d)' => /\ Sites!Registered(d)
                                         /\ v3'[d].portal = v3[d].portal
                                         /\ v3[d].status = "ACTIVE"
                                              => v3'[d].status = "ACTIVE"
        /\ \A s \in Website : \A d \in Sites!Canonical(s)' : v3'[d].status = "ACTIVE"
      BY <1>2, <2>1, <2>6, SitesIs
  <2>8. ~v7 => v5'[p] = Sites!RowsOf(k.list)
      BY <1>2, <2>2, SitesIs
  <2>9. \A s \in Website \ {p} : v5'[s] = v5[s]
      BY <1>2, SitesIs
  <2>10. ~v7 => \A s \in Website : \A x, y \in v5'[s] : x[2] = y[2] => x = y
    <3> SUFFICES ASSUME ~v7, NEW s \in Website, NEW x \in v5'[s], NEW y \in v5'[s],
                        x[2] = y[2]
                 PROVE  x = y
        OBVIOUS
    <3>1. CASE s = p
      <4>1. x \in Sites!RowsOf(k.list) /\ y \in Sites!RowsOf(k.list)
          BY <2>8, <3>1
      <4> QED
          BY <2>2, <4>1, SitesListsAre
    <3>2. CASE s # p
        BY <2>9, <3>2, SitesIs
    <3> QED
        BY <3>1, <3>2
  <2>11. ~v7' => /\ \A s \in Website : \A c, d \in Sites!Canonical(s)' : c = d
                 /\ \A s \in Website : \A x, y \in v5'[s] : x[2] = y[2] => x = y
      BY <2>1, <2>6, <2>10, SitesIs
  <2>12. ~v7' => \A z \in Visit \ {r} : Sites!Replacing(z) =>
            /\ q.step \notin SitesBusy
            /\ v8[z].step = "set" =>
                  \A s : s = v8[z].portal => Sites!Canonical(s)' \subseteq Sites!Canonical(s)
            /\ v8[z].step = "insert" => v5'[v8[z].portal] \subseteq v5[v8[z].portal]
    <3> SUFFICES ASSUME ~v7', NEW z \in Visit \ {r}, Sites!Replacing(z) PROVE FALSE
        OBVIOUS
    <3>1. Sites!Replacing(r)
        BY <1>0, <2>1 DEF Sites!Replacing
    <3> QED
        BY <2>1, <3>1, SitesIs
  <2> QED
      BY <2>3, <2>4, <2>5, <2>7, <2>11, <2>12, SitesStep
<1> QED
    BY <1>0, <1>1, <1>2 DEF Sites!InsertFeatured

LEMMA SitesInitially == ASSUME Sites!Bounds, Sites!Init PROVE Sites!IInv
<1>1. /\ v5 = [p \in Website |-> {}] /\ v7 = FALSE /\ v8 = [r \in Visit |-> Sites!Idle]
    BY DEF Sites!Init
<1>2. \A r \in Visit : v8[r] = Sites!Idle /\ Sites!Shape(v8[r]) /\ v8[r].step = "idle"
    BY <1>1, SitesIdleIs
<1>3. \A r \in Visit : Sites!Knows(v8[r]) /\ ~Sites!Replacing(r)
    BY <1>2 DEF Sites!Knows, Sites!Replacing
<1>4. /\ v3 \in [Hostname -> SitesRows] /\ Sites!CanonicalIsActive
      /\ \A p \in Website : \A c, d \in Sites!Canonical(p) : c = d
  <2>1. CASE v3 = [d \in Hostname |-> Sites!Missing]
    <3>1. v3 \in [Hostname -> SitesRows] /\ \A d \in Hostname : ~Sites!Registered(d)
        BY <2>1, SitesRowsAre DEF Sites!Registered
    <3> QED
        BY <3>1 DEF Sites!CanonicalIsActive, Sites!Canonical
  <2>2. CASE \E p \in Website, proved \in SUBSET Hostname, first \in BOOLEAN :
               v3 = Sites!Proved(p, proved, first)
    <3>0. PICK p \in Website, proved \in SUBSET Hostname, first \in BOOLEAN :
             v3 = Sites!Proved(p, proved, first)
        BY <2>2
    <3>1. \A d \in Hostname : d \in proved =>
             /\ v3[d] = [portal |-> p, status |-> "ACTIVE",
                             canonical |-> first /\ \A c \in proved : c >= d]
             /\ v3[d] \in Sites!DomainRow
        BY <3>0 DEF Sites!DomainRow, Sites!Proved
    <3>2. \A d \in Hostname : d \notin proved => v3[d] = Sites!Missing
        BY <3>0 DEF Sites!Proved
    <3>3. v3 \in [Hostname -> SitesRows]
        BY <3>0, <3>1, <3>2 DEF SitesRows, Sites!Proved
    <3>4. ASSUME NEW s, NEW d \in Sites!Canonical(s)
          PROVE  d \in proved /\ v3[d].status = "ACTIVE" /\ \A c \in proved : c >= d
      <4>1. d \in Hostname /\ Sites!Registered(d) /\ v3[d].canonical
          BY <3>4 DEF Sites!Canonical
      <4>2. d \in proved
          BY <3>2, <4>1 DEF Sites!Registered
      <4>3. v3[d] = [portal |-> p, status |-> "ACTIVE",
                         canonical |-> first /\ \A c \in proved : c >= d]
          BY <3>1, <4>1, <4>2
      <4>4. v3[d].canonical = (first /\ \A c \in proved : c >= d) /\ v3[d].status = "ACTIVE"
          BY <4>3
      <4>5. \A c \in proved : c >= d
          BY <4>1, <4>4
      <4> QED
          BY <4>2, <4>4, <4>5
    <3>5. \A s \in Website : \A c, d \in Sites!Canonical(s) : c = d
      <4> SUFFICES ASSUME NEW s \in Website, NEW c \in Sites!Canonical(s),
                          NEW d \in Sites!Canonical(s)
                   PROVE  c = d
          OBVIOUS
      <4>1. c \in proved /\ d \in proved /\ c >= d /\ d >= c
          BY <3>4
      <4>2. c \in Int /\ d \in Int
          BY <4>1 DEF Sites!Bounds
      <4> QED
          BY <4>1, <4>2
    <3>6. Sites!CanonicalIsActive
        BY <3>4 DEF Sites!CanonicalIsActive
    <3> QED
        BY <3>3, <3>5, <3>6
  <2> QED
      BY <2>1, <2>2 DEF Sites!Init, Sites!Start
<1> QED
    BY <1>1, <1>2, <1>3, <1>4 DEF Sites!IInv, SitesRows

LEMMA SitesInductive == ASSUME Sites!IInv, [Sites!Next]_(Sites!vars) PROVE Sites!IInv'
<1>1. CASE UNCHANGED Sites!vars
    BY <1>1 DEF Sites!vars, Sites!IInv, Sites!CanonicalIsActive, Sites!Canonical,
       Sites!Registered, Sites!Replacing, Sites!Shape, Sites!Knows
<1>2. ASSUME NEW r \in Visit, NEW patch \in Body,
             \/ \E slug \in Slug : Sites!CreatePortal(r, slug, patch)
             \/ \E p \in Website : Sites!UpdatePortal(r, p, patch)
      PROVE  Sites!IInv'
    BY <1>2, SitesCreatePortalStep, SitesUpdatePortalStep
<1>3. ASSUME NEW r \in Visit, NEW p \in Website,
             \/ Sites!DeletePortal(r, p) \/ Sites!TestInquiry(r, p)
             \/ \E b \in BOOLEAN : Sites!Suspend(r, p, b)
             \/ \E d \in Hostname : Sites!CreateDomain(r, p, d)
             \/ \E list \in Sites!Lists : Sites!ReplaceFeatured(r, p, list)
      PROVE  Sites!IInv'
    BY <1>3, SitesDeletePortalStep, SitesTestInquiryStep, SitesPortalRowStep,
       SitesCreateDomainStep, SitesReplaceStep
<1>4. ASSUME NEW r \in Visit, NEW d \in Hostname,
             Sites!VerifyDomain(r, d) \/ Sites!ChooseCanonical(r, d) \/ Sites!RemoveDomain(r, d)
      PROVE  Sites!IInv'
    BY <1>4, SitesVerifyStep, SitesChooseStep, SitesRemoveStep
<1>5. ASSUME NEW r \in Visit, NEW b \in BOOLEAN,
             Sites!StampRouting(r, b) \/ Sites!EnsurePortal(r, b)
      PROVE  Sites!IInv'
    BY <1>5, SitesPortalRowStep
<1>6. ASSUME NEW r \in Visit,
             \/ Sites!StorePortal(r) \/ Sites!StoreUpdate(r) \/ Sites!LookForPortal(r)
             \/ Sites!ResolveTxt(r) \/ Sites!ActivateDomain(r)
             \/ Sites!UnsetCanonical(r) \/ Sites!SetCanonical(r) \/ Sites!ClearFeatured(r) \/ Sites!InsertFeatured(r)
      PROVE  Sites!IInv'
  <2>1. CASE Sites!StorePortal(r) \/ Sites!StoreUpdate(r)
      BY <2>1, SitesPortalRowStep
  <2>2. CASE Sites!LookForPortal(r)
      BY <2>2, SitesLookStep
  <2>3. CASE Sites!ResolveTxt(r) \/ Sites!ActivateDomain(r)
      BY <2>3, SitesResolveStep, SitesActivateStep
  <2>4. CASE Sites!UnsetCanonical(r) \/ Sites!ClearFeatured(r)
      BY <2>4, SitesBeginStep
  <2>5. CASE Sites!SetCanonical(r) \/ Sites!InsertFeatured(r)
      BY <2>5, SitesSetStep, SitesInsertStep
  <2> QED
      BY <1>6, <2>1, <2>2, <2>3, <2>4, <2>5
<1>7. CASE Sites!Environment
    BY <1>7, SitesEnvironmentStep
<1> QED
    BY <1>1, <1>2, <1>3, <1>4, <1>5, <1>6, <1>7 DEF Sites!Next

LEMMA SitesProperties ==
    ASSUME Sites!IInv
    PROVE  Sites!ReplacedWhole /\ Sites!CanonicalIsActive
<1>1. Sites!CanonicalIsActive
    BY DEF Sites!IInv
<1>2. ASSUME ~v7, NEW p \in Website PROVE Cardinality(Sites!Canonical(p)) <= 1
  <2>1. \A c, d \in Sites!Canonical(p) : c = d
      BY <1>2, SitesIs
  <2>2. CASE Sites!Canonical(p) = {}
      BY <2>2, FS_EmptySet
  <2>3. CASE Sites!Canonical(p) # {}
    <3>1. PICK c : c \in Sites!Canonical(p)
        BY <2>3
    <3>2. Sites!Canonical(p) = {c}
        BY <2>1, <3>1
    <3>3. Cardinality({c}) = 1
        BY FS_Singleton
    <3> QED
        BY <3>2, <3>3
  <2> QED
      BY <2>2, <2>3
<1> QED
    BY <1>1, <1>2, SitesIs, SitesSets DEF Sites!ReplacedWhole

-----------------------------------------------------------------------------
(* The types of all the state. *)

SitesPortalRows == Sites!PortalRow \cup {Sites!Missing, Sites!Gone}

LEMMA SitesPortalRowsAre ==
    /\ Sites!Missing \in SitesPortalRows /\ Sites!Gone \in SitesPortalRows
    /\ \A x \in SitesPortalRows : x \notin {Sites!Missing, Sites!Gone}
         => x \in Sites!PortalRow
    BY DEF SitesPortalRows

\* What a body writes leaves a portal with all its fields.
LEMMA SitesMergedIs ==
    ASSUME Sites!Bounds, NEW patch \in Body, NEW f \in [Sites!Fields -> BOOLEAN]
    PROVE  Sites!Merged(patch, f) \in [Sites!Fields -> BOOLEAN]
<1>1. \A x \in DOMAIN patch : patch[x] \in BOOLEAN
    BY DEF Sites!Bounds
<1> QED
    BY <1>1 DEF Sites!Merged

LEMMA SitesRowIs ==
    ASSUME NEW slug \in Slug, NEW f \in [Sites!Fields -> BOOLEAN]
    PROVE  Sites!Row(slug, f) \in SitesPortalRows
    BY DEF Sites!Row, Sites!PortalRow, SitesPortalRows

SitesSteps == {"idle", "done", "refused", "create", "update", "test", "ensure", "verify", "proved",
          "unset", "set", "clear", "insert"}

LEMMA SitesTypedIs ==
    ASSUME Sites!Typed
    PROVE  /\ v1 \in [Website -> SitesPortalRows] /\ v2 \in BOOLEAN
           /\ v4 \subseteq Hostname /\ v6 \subseteq Website
           /\ \A p \in Website : v5[p] \subseteq Starred \X {1, 2}
           /\ \A r \in Visit : v8[r].step \in SitesSteps /\ Sites!Carries(v8[r])
    BY DEF Sites!Typed, Sites!TypeOK, SitesPortalRows, SitesSteps

\* One request moves, and what it writes has its type.
LEMMA SitesTypedStep ==
    ASSUME Sites!IInv, Sites!IInv', Sites!Typed, NEW r \in Visit, NEW q,
           v8' = [v8 EXCEPT ![r] = q],
           q.step \in SitesSteps, Sites!Carries(q), v1' \in [Website -> SitesPortalRows],
           v2' \in BOOLEAN, v4' \subseteq Hostname, v6' \subseteq Website,
           \A p \in Website : v5'[p] \subseteq Starred \X {1, 2}
    PROVE  Sites!Typed'
<1>1. v8'[r] = q /\ \A z \in Visit \ {r} : v8'[z] = v8[z]
    BY SitesIs
<1>2. \A z \in Visit : v8'[z].step \in SitesSteps
    BY <1>1, SitesTypedIs
<1>3. \A z \in Visit : Sites!Carries(v8'[z])
    BY <1>1, SitesTypedIs
<1>4. /\ v3' \in [Hostname -> Sites!DomainRow \cup {Sites!Missing, Sites!Gone}]
      /\ v7' \in BOOLEAN
    BY DEF Sites!IInv
<1>5. Sites!TypeOK'
    BY <1>2, <1>4 DEF Sites!TypeOK, SitesSteps, SitesPortalRows
<1>6. (\A z \in Visit : Sites!Carries(v8[z]))'
    BY <1>3 DEF Sites!Carries
<1> QED
    BY <1>5, <1>6 DEF Sites!Typed

\* A request moves on, no row or list does.
LEMMA SitesTypedMove ==
    ASSUME Sites!IInv, Sites!IInv', Sites!Typed, NEW r \in Visit, NEW q,
           v8' = [v8 EXCEPT ![r] = q],
           q.step \in SitesSteps, Sites!Carries(q),
           UNCHANGED <<v1, v2, v4, v6, v5>>
    PROVE  Sites!Typed'
    BY SitesTypedIs, SitesTypedStep

\* A request is answered.
LEMMA SitesTypedAnswer ==
    ASSUME Sites!IInv, Sites!IInv', Sites!Typed, NEW r \in Visit,
           Sites!Answers(r, "done") \/ Sites!Answers(r, "refused"),
           v1' \in [Website -> SitesPortalRows], UNCHANGED <<v2, v4>>, v6' \subseteq Website,
           \A p \in Website : v5'[p] \subseteq Starred \X {1, 2}
    PROVE  Sites!Typed'
<1>1. PICK q : /\ q = [Sites!Idle EXCEPT !.step = "done"] \/ q = [Sites!Idle EXCEPT !.step = "refused"]
               /\ v8' = [v8 EXCEPT ![r] = q]
    BY DEF Sites!Answers
<1>2. q.step \in {"done", "refused"}
    BY <1>1 DEF Sites!Idle
<1>3. Sites!Carries(q) /\ q.step \in SitesSteps
    BY <1>2 DEF Sites!Carries, SitesSteps
<1> QED
    BY <1>1, <1>3, SitesTypedIs, SitesTypedStep

LEMMA SitesBlankIs == Sites!Blank \in [Sites!Fields -> BOOLEAN]
    BY DEF Sites!Blank

\* Calls that only begin, or are refused.
LEMMA SitesTypedCreate ==
    ASSUME Sites!Bounds, Sites!IInv, Sites!IInv', Sites!Typed, NEW r \in Visit,
           NEW patch \in Body, NEW slug \in Slug,
           Sites!CreatePortal(r, slug, patch)
    PROVE  Sites!Typed'
<1>1. UNCHANGED <<v1, v2, v4, v6, v5>>
    BY DEF Sites!CreatePortal, Sites!rows, Sites!world
<1>2. CASE Sites!Answers(r, "done") \/ Sites!Answers(r, "refused")
    BY <1>1, <1>2, SitesTypedIs, SitesTypedAnswer
<1>3. CASE ~Sites!Answers(r, "done") /\ ~Sites!Answers(r, "refused")
  <2>1. PICK f, q :
             q = [Sites!Idle EXCEPT !.step = "create", !.slug = slug, !.fields = f] /\ v8' = [v8 EXCEPT ![r] = q]
               /\ f = Sites!Merged(patch, Sites!Blank)
      BY <1>3 DEF Sites!CreatePortal, Sites!Continues
  <2>2. q.step = "create" /\ q.slug = slug /\ q.fields = f
      BY <2>1 DEF Sites!Idle
  <2>3. f \in [Sites!Fields -> BOOLEAN]
      BY <2>1, SitesMergedIs, SitesBlankIs
  <2>4. Sites!Carries(q) /\ q.step \in SitesSteps
      BY <2>2, <2>3 DEF Sites!Carries, SitesSteps
  <2> QED
      BY <1>1, <2>1, <2>4, SitesTypedMove
<1> QED
    BY <1>2, <1>3

LEMMA SitesTypedUpdate ==
    ASSUME Sites!Bounds, Sites!IInv, Sites!IInv', Sites!Typed, NEW r \in Visit,
           NEW p \in Website, NEW patch \in Body,
           Sites!UpdatePortal(r, p, patch)
    PROVE  Sites!Typed'
<1>1. UNCHANGED <<v1, v2, v4, v6, v5>>
    BY DEF Sites!UpdatePortal, Sites!rows, Sites!world
<1>2. CASE Sites!Answers(r, "done") \/ Sites!Answers(r, "refused")
    BY <1>1, <1>2, SitesTypedIs, SitesTypedAnswer
<1>3. CASE ~Sites!Answers(r, "done") /\ ~Sites!Answers(r, "refused")
  <2>1. PICK f, q :
             q = [Sites!Idle EXCEPT !.step = "update", !.portal = p, !.fields = f, !.patch = patch] /\ v8' = [v8 EXCEPT ![r] = q]
      BY <1>3 DEF Sites!UpdatePortal, Sites!Continues
  <2>2. q.step = "update" /\ q.portal = p /\ q.patch = patch
      BY <2>1 DEF Sites!Idle
  <2>4. Sites!Carries(q) /\ q.step \in SitesSteps
      BY <2>2 DEF Sites!Carries, SitesSteps
  <2> QED
      BY <1>1, <2>1, <2>4, SitesTypedMove
<1> QED
    BY <1>2, <1>3

LEMMA SitesTypedTest ==
    ASSUME Sites!Bounds, Sites!IInv, Sites!IInv', Sites!Typed, NEW r \in Visit,
           NEW p \in Website, Sites!TestInquiry(r, p)
    PROVE  Sites!Typed'
<1>1. UNCHANGED <<v1, v2, v4, v6, v5>>
    BY DEF Sites!TestInquiry, Sites!rows, Sites!world
<1>2. CASE Sites!Answers(r, "done") \/ Sites!Answers(r, "refused")
    BY <1>1, <1>2, SitesTypedIs, SitesTypedAnswer
<1>3. CASE ~Sites!Answers(r, "done") /\ ~Sites!Answers(r, "refused")
  <2>1. PICK q :
             q = [Sites!Idle EXCEPT !.step = "test", !.portal = p] /\ v8' = [v8 EXCEPT ![r] = q]
      BY <1>3 DEF Sites!TestInquiry, Sites!Continues
  <2>2. q.step = "test" /\ q.portal = p
      BY <2>1 DEF Sites!Idle
  <2>4. Sites!Carries(q) /\ q.step \in SitesSteps
      BY <2>2 DEF Sites!Carries, SitesSteps
  <2> QED
      BY <1>1, <2>1, <2>4, SitesTypedMove
<1> QED
    BY <1>2, <1>3

LEMMA SitesTypedLook ==
    ASSUME Sites!Bounds, Sites!IInv, Sites!IInv', Sites!Typed, NEW r \in Visit,
           Sites!LookForPortal(r)
    PROVE  Sites!Typed'
<1>1. UNCHANGED <<v1, v2, v4, v6, v5>>
    BY DEF Sites!LookForPortal, Sites!rows, Sites!world
<1>2. CASE Sites!Answers(r, "done") \/ Sites!Answers(r, "refused")
    BY <1>1, <1>2, SitesTypedIs, SitesTypedAnswer
<1>3. CASE ~Sites!Answers(r, "done") /\ ~Sites!Answers(r, "refused")
  <2>1. PICK q :
             q = [Sites!Idle EXCEPT !.step = "ensure", !.slug = Site] /\ v8' = [v8 EXCEPT ![r] = q]
      BY <1>3 DEF Sites!LookForPortal, Sites!Continues
  <2>2. q.step = "ensure"
      BY <2>1 DEF Sites!Idle
  <2>4. Sites!Carries(q) /\ q.step \in SitesSteps
      BY <2>2 DEF Sites!Carries, SitesSteps
  <2> QED
      BY <1>1, <2>1, <2>4, SitesTypedMove
<1> QED
    BY <1>2, <1>3

LEMMA SitesTypedVerify ==
    ASSUME Sites!Bounds, Sites!IInv, Sites!IInv', Sites!Typed, NEW r \in Visit,
           NEW d \in Hostname, Sites!VerifyDomain(r, d)
    PROVE  Sites!Typed'
<1>1. UNCHANGED <<v1, v2, v4, v6, v5>>
    BY DEF Sites!VerifyDomain, Sites!rows, Sites!world
<1>2. CASE Sites!Answers(r, "done") \/ Sites!Answers(r, "refused")
    BY <1>1, <1>2, SitesTypedIs, SitesTypedAnswer
<1>3. CASE ~Sites!Answers(r, "done") /\ ~Sites!Answers(r, "refused")
  <2>1. PICK q :
             q = [Sites!Idle EXCEPT !.step = "verify", !.domain = d] /\ v8' = [v8 EXCEPT ![r] = q]
      BY <1>3 DEF Sites!VerifyDomain, Sites!Continues
  <2>2. q.step = "verify"
      BY <2>1 DEF Sites!Idle
  <2>4. Sites!Carries(q) /\ q.step \in SitesSteps
      BY <2>2 DEF Sites!Carries, SitesSteps
  <2> QED
      BY <1>1, <2>1, <2>4, SitesTypedMove
<1> QED
    BY <1>2, <1>3

LEMMA SitesTypedChoose ==
    ASSUME Sites!Bounds, Sites!IInv, Sites!IInv', Sites!Typed, NEW r \in Visit,
           NEW d \in Hostname, Sites!ChooseCanonical(r, d)
    PROVE  Sites!Typed'
<1>1. UNCHANGED <<v1, v2, v4, v6, v5>>
    BY DEF Sites!ChooseCanonical, Sites!rows, Sites!world
<1>2. CASE Sites!Answers(r, "done") \/ Sites!Answers(r, "refused")
    BY <1>1, <1>2, SitesTypedIs, SitesTypedAnswer
<1>3. CASE ~Sites!Answers(r, "done") /\ ~Sites!Answers(r, "refused")
  <2>1. PICK p, q :
             q = [Sites!Idle EXCEPT !.step = "unset", !.domain = d, !.portal = p] /\ v8' = [v8 EXCEPT ![r] = q]
      BY <1>3 DEF Sites!ChooseCanonical, Sites!Continues
  <2>2. q.step = "unset"
      BY <2>1 DEF Sites!Idle
  <2>4. Sites!Carries(q) /\ q.step \in SitesSteps
      BY <2>2 DEF Sites!Carries, SitesSteps
  <2> QED
      BY <1>1, <2>1, <2>4, SitesTypedMove
<1> QED
    BY <1>2, <1>3

LEMMA SitesTypedReplace ==
    ASSUME Sites!Bounds, Sites!IInv, Sites!IInv', Sites!Typed, NEW r \in Visit,
           NEW p \in Website, NEW list \in Sites!Lists,
           Sites!ReplaceFeatured(r, p, list)
    PROVE  Sites!Typed'
<1>1. UNCHANGED <<v1, v2, v4, v6, v5>>
    BY DEF Sites!ReplaceFeatured, Sites!rows, Sites!world
<1>2. CASE Sites!Answers(r, "done") \/ Sites!Answers(r, "refused")
    BY <1>1, <1>2, SitesTypedIs, SitesTypedAnswer
<1>3. CASE ~Sites!Answers(r, "done") /\ ~Sites!Answers(r, "refused")
  <2>1. PICK q :
             q = [Sites!Idle EXCEPT !.step = "clear", !.portal = p, !.list = list] /\ v8' = [v8 EXCEPT ![r] = q]
      BY <1>3 DEF Sites!ReplaceFeatured, Sites!Continues
  <2>2. q.step = "clear"
      BY <2>1 DEF Sites!Idle
  <2>4. Sites!Carries(q) /\ q.step \in SitesSteps
      BY <2>2 DEF Sites!Carries, SitesSteps
  <2> QED
      BY <1>1, <2>1, <2>4, SitesTypedMove
<1> QED
    BY <1>2, <1>3

\* The row of a portal, when it is written.
LEMMA SitesTypedRow ==
    ASSUME Sites!Bounds, Sites!IInv, Sites!IInv', Sites!Typed, NEW r \in Visit, NEW p,
           NEW b \in BOOLEAN,
           \/ Sites!StorePortal(r) \/ Sites!StoreUpdate(r) \/ Sites!StampRouting(r, b) \/ Sites!EnsurePortal(r, b)
           \/ p \in Website /\ (Sites!Suspend(r, p, b) \/ Sites!DeletePortal(r, p))
    PROVE  Sites!Typed'
<1>1. v1 \in [Website -> SitesPortalRows] /\ v6 \subseteq Website /\ Sites!Carries(v8[r])
    BY SitesTypedIs
<1>2. (Sites!Answers(r, "done") \/ Sites!Answers(r, "refused")) /\ UNCHANGED <<v2, v4>>
    BY DEF Sites!StorePortal, Sites!StoreUpdate, Sites!StampRouting, Sites!EnsurePortal,
       Sites!Suspend, Sites!DeletePortal, Sites!world
<1>3. \A k \in Website : v5'[k] \subseteq Starred \X {1, 2}
  <2>1. v5' = v5 \/ v5' = [v5 EXCEPT ![p] = {}]
      BY DEF Sites!StorePortal, Sites!StoreUpdate, Sites!StampRouting, Sites!EnsurePortal,
         Sites!Suspend, Sites!DeletePortal
  <2> QED
      BY <2>1, SitesIs, SitesTypedIs
<1>4. ASSUME v1' \in [Website -> SitesPortalRows], v6' \subseteq Website
      PROVE  Sites!Typed'
    BY <1>2, <1>3, <1>4, SitesTypedAnswer
<1>5. CASE Sites!StorePortal(r)
  <2>1. v8[r].slug \in Slug /\ v8[r].fields \in [Sites!Fields -> BOOLEAN]
      BY <1>1, <1>5 DEF Sites!StorePortal, Sites!Carries
  <2>2. PICK row : row = Sites!Row(v8[r].slug, v8[r].fields)
      OBVIOUS
  <2>3. row \in SitesPortalRows
      BY <2>1, <2>2, SitesRowIs
  <2>4. \/ UNCHANGED <<v1, v6>>
        \/ \E k \in Website : /\ v1' = [v1 EXCEPT ![k] = row]
                              /\ v6' = v6 \/ v6' = v6 \cup {k}
      BY <1>5, <2>2 DEF Sites!StorePortal
  <2> QED
      BY <1>1, <1>4, <2>3, <2>4
<1>6. CASE Sites!StoreUpdate(r)
  <2>1. PICK k \in Website : k = v8[r].portal
      BY <1>1, <1>6 DEF Sites!StoreUpdate, Sites!Carries
  <2>2. PICK patch \in Body : patch = v8[r].patch
      BY <1>1, <1>6 DEF Sites!StoreUpdate, Sites!Carries
  <2>3. CASE ~Sites!Exists(k)
      BY <1>1, <1>4, <1>6, <2>1, <2>3 DEF Sites!StoreUpdate
  <2>4. CASE Sites!Exists(k)
    <3>1. PICK f : f = Sites!Merged(patch, v1[k].fields)
        OBVIOUS
    <3>2. v1' = [v1 EXCEPT ![k].fields = f] /\ v6' \subseteq v6 \cup {k}
        BY <1>6, <2>1, <2>2, <2>4, <3>1 DEF Sites!StoreUpdate
    <3>3. v1[k] \in Sites!PortalRow
        BY <1>1, <2>4, SitesPortalRowsAre DEF Sites!Exists
    <3>4. f \in [Sites!Fields -> BOOLEAN]
        BY <3>1, <3>3, SitesMergedIs DEF Sites!PortalRow
    <3>5. PICK old, row : old = v1[k] /\ row = [old EXCEPT !.fields = f]
        OBVIOUS
    <3>6. row \in Sites!PortalRow /\ v1' = [v1 EXCEPT ![k] = row]
        BY <3>2, <3>3, <3>4, <3>5 DEF Sites!PortalRow
    <3> QED
        BY <1>1, <1>4, <3>2, <3>6 DEF SitesPortalRows
  <2> QED
      BY <2>3, <2>4
<1>7. CASE Sites!StampRouting(r, b)
  <2>1. PICK k \in Website : k = v8[r].portal
      BY <1>1, <1>7 DEF Sites!StampRouting, Sites!Carries
  <2>2. CASE ~Sites!Exists(k)
      BY <1>1, <1>4, <1>7, <2>1, <2>2 DEF Sites!StampRouting
  <2>3. CASE Sites!Exists(k)
    <3>1. PICK old, row : old = v1[k] /\ row = [old EXCEPT !.routed = TRUE]
        OBVIOUS
    <3>2. old \in Sites!PortalRow
        BY <1>1, <2>3, <3>1, SitesPortalRowsAre DEF Sites!Exists
    <3>3. row \in SitesPortalRows
        BY <3>1, <3>2 DEF Sites!PortalRow, SitesPortalRows
    <3>4. UNCHANGED v6 /\ (UNCHANGED v1 \/ v1' = [v1 EXCEPT ![k] = row])
        BY <1>7, <2>1, <3>1 DEF Sites!StampRouting
    <3> QED
        BY <1>1, <1>4, <3>3, <3>4
  <2> QED
      BY <2>2, <2>3
<1>8. CASE Sites!EnsurePortal(r, b)
  <2>1. PICK f : f = [x \in Sites!Fields |-> x # "email" \/ b]
      OBVIOUS
  <2>2. Sites!Row(Site, f) \in SitesPortalRows
    <3>1. f \in [Sites!Fields -> BOOLEAN]
        BY <2>1
    <3>2. Site \in Slug
        BY DEF Sites!Bounds
    <3> QED
        BY <3>1, <3>2, SitesRowIs
  <2>3. \/ UNCHANGED v1
        \/ \E k \in Website : v1' = [v1 EXCEPT ![k] = Sites!Row(Site, f)]
      BY <1>8, <2>1 DEF Sites!EnsurePortal
  <2>4. UNCHANGED v6
      BY <1>8 DEF Sites!EnsurePortal
  <2> QED
      BY <1>1, <1>4, <2>2, <2>3, <2>4
<1>9. CASE p \in Website /\ Sites!Suspend(r, p, b)
  <2>1. PICK old, row : old = v1[p] /\ row = [old EXCEPT !.suspended = b]
      OBVIOUS
  <2>2. old \in Sites!PortalRow
      BY <1>1, <1>9, <2>1, SitesPortalRowsAre DEF Sites!Suspend, Sites!Exists
  <2>3. row \in SitesPortalRows
      BY <2>1, <2>2 DEF Sites!PortalRow, SitesPortalRows
  <2>4. UNCHANGED v6 /\ v1' = [v1 EXCEPT ![p] = row]
      BY <1>9, <2>1 DEF Sites!Suspend
  <2> QED
      BY <1>1, <1>4, <2>3, <2>4
<1>10. CASE p \in Website /\ Sites!DeletePortal(r, p)
  <2>1. UNCHANGED v6 /\ v1' = [v1 EXCEPT ![p] = Sites!Gone]
      BY <1>10 DEF Sites!DeletePortal
  <2> QED
      BY <1>1, <1>4, <2>1, SitesPortalRowsAre
<1> QED
    BY <1>5, <1>6, <1>7, <1>8, <1>9, <1>10

LEMMA SitesListRows ==
    ASSUME NEW list \in Sites!Lists
    PROVE  Sites!RowsOf(list) \subseteq Starred \X {1, 2}
<1>1. CASE list = <<>>
    BY <1>1 DEF Sites!RowsOf
<1>2. CASE \E x \in Starred : list = <<x>>
    BY <1>2 DEF Sites!RowsOf
<1>3. CASE list \in Starred \X Starred
    BY <1>3 DEF Sites!RowsOf
<1> QED
    BY <1>1, <1>2, <1>3 DEF Sites!Lists

\* Domains and featured listings.
LEMMA SitesTypedRest ==
    ASSUME Sites!Bounds, Sites!IInv, Sites!IInv', Sites!Typed, NEW r \in Visit, NEW p,
           NEW d,
           \/ Sites!CreateDomain(r, p, d) \/ Sites!RemoveDomain(r, d) \/ Sites!ResolveTxt(r) \/ Sites!ActivateDomain(r)
           \/ Sites!UnsetCanonical(r) \/ Sites!SetCanonical(r) \/ Sites!ClearFeatured(r) \/ Sites!InsertFeatured(r)
    PROVE  Sites!Typed'
<1>1. CASE Sites!CreateDomain(r, p, d) \/ Sites!RemoveDomain(r, d) \/ Sites!ActivateDomain(r) \/ Sites!SetCanonical(r)
  <2>1. /\ Sites!Answers(r, "done") \/ Sites!Answers(r, "refused")
        /\ UNCHANGED <<v1, v2, v4, v6, v5>>
      BY <1>1 DEF Sites!CreateDomain, Sites!RemoveDomain, Sites!ActivateDomain,
         Sites!SetCanonical, Sites!world
  <2> QED
      BY <2>1, SitesTypedIs, SitesTypedAnswer
<1>2. CASE Sites!ResolveTxt(r) \/ Sites!UnsetCanonical(r) \/ Sites!ClearFeatured(r)
  <2>1. UNCHANGED <<v1, v2, v4, v6, v5>>
      BY <1>2 DEF Sites!ResolveTxt, Sites!UnsetCanonical, Sites!ClearFeatured, Sites!rows,
         Sites!world
  <2>2. Sites!Answers(r, "refused") => Sites!Typed'
      BY <2>1, SitesTypedIs, SitesTypedAnswer
  <2>3. PICK k : k = v8[r]
      OBVIOUS
  <2>4. Sites!Shape(k)
      BY <2>3, SitesIs
  <2>5. \/ Sites!Answers(r, "refused")
        \/ \E q : /\ v8' = [v8 EXCEPT ![r] = q]
                  /\ \/ q = [k EXCEPT !.step = "proved"]
                     \/ \E seen : q = [k EXCEPT !.step = "set", !.seen = seen]
                     \/ \E seen : q = [k EXCEPT !.step = "insert", !.seen = seen]
      BY <1>2, <2>3 DEF Sites!ResolveTxt, Sites!UnsetCanonical, Sites!ClearFeatured,
         Sites!Begins, Sites!Continues
  <2>6. ASSUME NEW q, v8' = [v8 EXCEPT ![r] = q],
               \/ q = [k EXCEPT !.step = "proved"]
               \/ \E seen : q = [k EXCEPT !.step = "set", !.seen = seen]
               \/ \E seen : q = [k EXCEPT !.step = "insert", !.seen = seen]
        PROVE  Sites!Typed'
    <3>1. q.step \in {"proved", "set", "insert"}
        BY <2>4, <2>6 DEF Sites!Shape
    <3>2. Sites!Carries(q) /\ q.step \in SitesSteps
        BY <3>1 DEF Sites!Carries, SitesSteps
    <3> QED
        BY <2>1, <2>6, <3>2, SitesTypedMove
  <2> QED
      BY <2>2, <2>5, <2>6
<1>3. CASE Sites!InsertFeatured(r)
  <2>1. PICK k \in Website, list \in Sites!Lists : k = v8[r].portal /\ list = v8[r].list
    <3>1. Sites!Knows(v8[r]) /\ v8[r].step = "insert"
        BY <1>3, SitesIs DEF Sites!InsertFeatured
    <3> QED
        BY <3>1 DEF Sites!Knows
  <2>2. /\ \/ v5' = v5
           \/ v5' = [v5 EXCEPT ![k] = (v5[k] \ v8[r].seen) \cup Sites!RowsOf(list)]
        /\ Sites!Answers(r, "done") \/ Sites!Answers(r, "refused")
        /\ UNCHANGED <<v1, v2, v4, v6>>
      BY <1>3, <2>1 DEF Sites!InsertFeatured, Sites!world
  <2>3. \A z \in Website : v5'[z] \subseteq Starred \X {1, 2}
      BY <2>2, SitesIs, SitesTypedIs, SitesListRows
  <2> QED
      BY <2>2, <2>3, SitesTypedIs, SitesTypedAnswer
<1> QED
    BY <1>1, <1>2, <1>3

LEMMA SitesTypedInitially == ASSUME Sites!Bounds, Sites!Init PROVE Sites!Typed
<1>1. v1 \in [Website -> SitesPortalRows]
  <2>1. CASE v1 = [p \in Website |-> Sites!Missing]
      BY <2>1, SitesPortalRowsAre
  <2>2. ASSUME NEW p \in Website,
               v1 = [q \in Website |-> IF q = p THEN Sites!Row(Site, [f \in Sites!Fields |-> TRUE]) ELSE Sites!Missing]
        PROVE  v1 \in [Website -> SitesPortalRows]
    <3>1. PICK all : all = [f \in Sites!Fields |-> TRUE]
        OBVIOUS
    <3>2. all \in [Sites!Fields -> BOOLEAN] /\ Site \in Slug
        BY <3>1 DEF Sites!Bounds
    <3>3. Sites!Row(Site, all) \in SitesPortalRows
        BY <3>2, SitesRowIs
    <3> QED
        BY <2>2, <3>1, <3>3, SitesPortalRowsAre
  <2> QED
      BY <2>1, <2>2 DEF Sites!Init, Sites!Start
<1>2. /\ v2 \in BOOLEAN /\ v4 \subseteq Hostname /\ v6 \subseteq Website
      /\ \A p \in Website : v5[p] \subseteq Starred \X {1, 2}
    BY DEF Sites!Init
<1>3. \A r \in Visit : v8[r] = Sites!Idle
    BY DEF Sites!Init
<1>4. Sites!Carries(Sites!Idle) /\ Sites!Idle.step \in SitesSteps
    BY SitesIdleIs DEF Sites!Carries, SitesSteps
<1>5. \A r \in Visit : v8[r].step \in SitesSteps /\ Sites!Carries(v8[r])
    BY <1>3, <1>4
<1>6. /\ v3 \in [Hostname -> Sites!DomainRow \cup {Sites!Missing, Sites!Gone}]
      /\ v7 \in BOOLEAN
    BY SitesInitially DEF Sites!IInv
<1>7. Sites!TypeOK
    BY <1>1, <1>2, <1>5, <1>6 DEF Sites!TypeOK, SitesPortalRows, SitesSteps
<1> QED
    BY <1>5, <1>7 DEF Sites!Typed

LEMMA SitesTypedInductive ==
    ASSUME Sites!Bounds, Sites!IInv, Sites!IInv', Sites!Typed, [Sites!Next]_(Sites!vars)
    PROVE  Sites!Typed'
<1>1. CASE UNCHANGED Sites!vars
    BY <1>1 DEF Sites!vars, Sites!Typed, Sites!TypeOK, Sites!Carries
<1>2. CASE Sites!Environment
  <2>1. UNCHANGED <<v1, v4, v6, v5, v8>> /\ v2' \in BOOLEAN
      BY <1>2 DEF Sites!Environment, Sites!rows
  <2>2. /\ v3' \in [Hostname -> Sites!DomainRow \cup {Sites!Missing, Sites!Gone}]
        /\ v7' \in BOOLEAN
      BY DEF Sites!IInv
  <2>3. Sites!TypeOK'
      BY <2>1, <2>2 DEF Sites!Typed, Sites!TypeOK
  <2>4. (\A r \in Visit : Sites!Carries(v8[r]))'
      BY <2>1 DEF Sites!Typed, Sites!Carries
  <2> QED
      BY <2>3, <2>4 DEF Sites!Typed
<1>3. ASSUME NEW r \in Visit, NEW patch \in Body,
             \/ \E slug \in Slug : Sites!CreatePortal(r, slug, patch)
             \/ \E p \in Website : Sites!UpdatePortal(r, p, patch)
      PROVE  Sites!Typed'
    BY <1>3, SitesTypedCreate, SitesTypedUpdate
<1>4. ASSUME NEW r \in Visit, NEW p \in Website,
             \/ Sites!DeletePortal(r, p) \/ Sites!TestInquiry(r, p)
             \/ \E b \in BOOLEAN : Sites!Suspend(r, p, b)
             \/ \E d \in Hostname : Sites!CreateDomain(r, p, d)
             \/ \E list \in Sites!Lists : Sites!ReplaceFeatured(r, p, list)
      PROVE  Sites!Typed'
  <2>1. CASE Sites!DeletePortal(r, p) \/ \E b \in BOOLEAN : Sites!Suspend(r, p, b)
      BY <2>1, SitesTypedRow
  <2>2. CASE Sites!TestInquiry(r, p)
      BY <2>2, SitesTypedTest
  <2>3. CASE \E d \in Hostname : Sites!CreateDomain(r, p, d)
      BY <2>3, SitesTypedRest
  <2>4. CASE \E list \in Sites!Lists : Sites!ReplaceFeatured(r, p, list)
      BY <2>4, SitesTypedReplace
  <2> QED
      BY <1>4, <2>1, <2>2, <2>3, <2>4
<1>5. ASSUME NEW r \in Visit, NEW d \in Hostname,
             Sites!VerifyDomain(r, d) \/ Sites!ChooseCanonical(r, d) \/ Sites!RemoveDomain(r, d)
      PROVE  Sites!Typed'
    BY <1>5, SitesTypedVerify, SitesTypedChoose, SitesTypedRest
<1>6. ASSUME NEW r \in Visit, NEW b \in BOOLEAN,
             Sites!StampRouting(r, b) \/ Sites!EnsurePortal(r, b)
      PROVE  Sites!Typed'
    BY <1>6, SitesTypedRow
<1>7. ASSUME NEW r \in Visit,
             \/ Sites!StorePortal(r) \/ Sites!StoreUpdate(r) \/ Sites!LookForPortal(r)
             \/ Sites!ResolveTxt(r) \/ Sites!ActivateDomain(r)
             \/ Sites!UnsetCanonical(r) \/ Sites!SetCanonical(r) \/ Sites!ClearFeatured(r) \/ Sites!InsertFeatured(r)
      PROVE  Sites!Typed'
  <2>1. CASE Sites!StorePortal(r) \/ Sites!StoreUpdate(r)
      BY <2>1, SitesTypedRow
  <2>2. CASE Sites!LookForPortal(r)
      BY <2>2, SitesTypedLook
  <2>3. CASE \/ Sites!ResolveTxt(r) \/ Sites!ActivateDomain(r)
             \/ Sites!UnsetCanonical(r) \/ Sites!SetCanonical(r) \/ Sites!ClearFeatured(r) \/ Sites!InsertFeatured(r)
      BY <2>3, SitesTypedRest
  <2> QED
      BY <1>7, <2>1, <2>2, <2>3
<1> QED
    BY <1>1, <1>2, <1>3, <1>4, <1>5, <1>6, <1>7 DEF Sites!Next

LEMMA SitesTyping == Sites!Typed => Sites!TypeOK
    BY DEF Sites!Typed

-----------------------------------------------------------------------------
(* What visitors are shown.                                                *)
(* v1 listing, v2 index, v3 override, v4 portal, v5 env, v6 answer, v7     *)
(* changes.                                                                *)

\* The finite sets of the instance are those of FiniteSets.
LEMMA HomesSets ==
    \A S : /\ Homes!IsFiniteSet(S) <=> IsFiniteSet(S)
          /\ Homes!Cardinality(S) = Cardinality(S)
    BY DEF Homes!IsFiniteSet, IsFiniteSet, Homes!Cardinality, Cardinality

LEMMA HomesTypes ==
    ASSUME Homes!IInv
    PROVE  /\ v1 \in [Homes!Listing -> Offer \cup {Homes!NoListing}]
           /\ v2 \in [House -> Offer \cup {Homes!NoListing}]
           /\ v3 \in [House -> {"NONE", "INCLUDE", "EXCLUDE"}]
           /\ v4 \in Homes!Portals
           /\ v5 \in [display : BOOLEAN, engine : {"off", "up", "down"}]
           /\ v7 \in 0..HomeChanges
    BY DEF Homes!IInv, Homes!TypeOK

-----------------------------------------------------------------------------
(* What the surfaces show. *)

LEMMA HomesShownIs ==
    ASSUME NEW p, NEW ids, NEW item \in Homes!Shown(p, ids)
    PROVE  item.of = p /\ \E i \in ids : item.listing = v1[i]
    BY DEF Homes!Shown

\* Items of public listings, and no others.
HomesOpen(items) ==
    \A item \in items : /\ item.of \in House /\ item.listing \in Offer
                        /\ item.listing.active /\ item.listing.idx
                        /\ v5.display \/ ~item.listing.mls

LEMMA HomesPublicIs ==
    ASSUME NEW l \in Offer \cup {Homes!NoListing}, Homes!Public(l)
    PROVE  l \in Offer /\ l.active /\ l.idx /\ (v5.display \/ ~l.mls)
    BY DEF Homes!Public, Homes!NoListing

LEMMA HomesShownOpen ==
    ASSUME Homes!IInv, NEW p \in House, NEW ids, ids \subseteq Homes!PublicOf(p)
    PROVE  HomesOpen(Homes!Shown(p, ids))
<1> SUFFICES ASSUME NEW item \in Homes!Shown(p, ids)
             PROVE  /\ item.of \in House /\ item.listing \in Offer
                    /\ item.listing.active /\ item.listing.idx
                    /\ v5.display \/ ~item.listing.mls
    BY DEF HomesOpen
<1>1. PICK i \in ids : item.listing = v1[i]
    BY HomesShownIs
<1>2. i \in Homes!Listing /\ Homes!Public(v1[i])
    BY <1>1 DEF Homes!PublicOf, Homes!OfProperty
<1>3. v1[i] \in Offer \cup {Homes!NoListing}
    BY <1>2, HomesTypes
<1>4. item.of = p
    BY HomesShownIs
<1> QED
    BY <1>1, <1>2, <1>3, <1>4, HomesPublicIs

LEMMA HomesOpenEmpty == HomesOpen({})
    BY DEF HomesOpen

LEMMA HomesSearchServiceOpen ==
    ASSUME Homes!IInv, NEW q
    PROVE  HomesOpen(Homes!SearchService(q))
<1>1. ASSUME NEW p \in House, Homes!Public(v2[p])
      PROVE  /\ v2[p] \in Offer /\ v2[p].active /\ v2[p].idx
             /\ v5.display \/ ~v2[p].mls
  <2>1. v2[p] \in Offer \cup {Homes!NoListing}
      BY HomesTypes
  <2> QED
      BY <1>1, <2>1, HomesPublicIs
<1> SUFFICES ASSUME NEW item \in Homes!SearchService(q)
             PROVE  /\ item.of \in House /\ item.listing \in Offer
                    /\ item.listing.active /\ item.listing.idx
                    /\ v5.display \/ ~item.listing.mls
    BY DEF HomesOpen
<1>2. PICK p \in House : Homes!Public(v2[p]) /\ item = [of |-> p, listing |-> v2[p]]
    BY DEF Homes!SearchService
<1>3. item.of = p /\ item.listing = v2[p]
    BY <1>2
<1> QED
    BY <1>1, <1>2, <1>3

LEMMA HomesPostgresOpen == ASSUME Homes!IInv, NEW q PROVE HomesOpen(Homes!Postgres(q))
<1>1. \A p \in House : HomesOpen(Homes!Shown(p, Homes!PublicOf(p)))
    BY HomesShownOpen
<1> QED
    BY <1>1 DEF HomesOpen, Homes!Postgres

LEMMA HomesSearchOpen == ASSUME Homes!IInv, NEW q PROVE HomesOpen(Homes!Search(q))
    BY HomesSearchServiceOpen, HomesPostgresOpen DEF Homes!Search

LEMMA HomesGeoOpen ==
    ASSUME Homes!Bounds, Homes!IInv, NEW q
    PROVE  HomesOpen(Homes!Geo(q)) /\ \A item \in Homes!Geo(q) : Homes!InRange(item.listing.price, q)
<1> SUFFICES ASSUME NEW item \in Homes!Geo(q)
             PROVE  /\ item.of \in House /\ item.listing \in Offer
                    /\ item.listing.active /\ item.listing.idx
                    /\ v5.display \/ ~item.listing.mls
                    /\ Homes!InRange(item.listing.price, q)
    BY DEF HomesOpen
<1>1. PICK i \in Homes!Listing : /\ Homes!Public(v1[i]) /\ Homes!Asked(v1[i], q)
                                 /\ item = [of |-> ListedOn[i], listing |-> v1[i]]
    BY DEF Homes!Geo
<1>2. item.of = ListedOn[i] /\ item.listing = v1[i] /\ ListedOn[i] \in House
    BY <1>1, HomesSets DEF Homes!Bounds
<1>3. v1[i] \in Offer \cup {Homes!NoListing}
    BY HomesTypes
<1>4. Homes!InRange(item.listing.price, q)
    BY <1>1, <1>2 DEF Homes!Asked
<1> QED
    BY <1>1, <1>2, <1>3, <1>4, HomesPublicIs

LEMMA HomesPropertiesOpen ==
    ASSUME Homes!IInv, NEW q
    PROVE  HomesOpen(Homes!Properties(q)) /\ \A item \in Homes!Properties(q) : Homes!InRange(item.listing.price, q)
<1>1. \A p \in House : HomesOpen(Homes!Shown(p, {i \in Homes!PublicOf(p) : Homes!Asked(v1[i], q)}))
    BY HomesShownOpen
<1>2. ASSUME NEW p \in House,
             NEW item \in Homes!Shown(p, {i \in Homes!PublicOf(p) : Homes!Asked(v1[i], q)})
      PROVE  Homes!InRange(item.listing.price, q)
  <2>1. PICK i \in {j \in Homes!PublicOf(p) : Homes!Asked(v1[j], q)} : item.listing = v1[i]
      BY HomesShownIs
  <2> QED
      BY <2>1 DEF Homes!Asked
<1>3. HomesOpen(Homes!Properties(q))
    BY <1>1 DEF HomesOpen, Homes!Properties
<1> QED
    BY <1>2, <1>3 DEF Homes!Properties

LEMMA HomesDisplayableIs ==
    ASSUME NEW p, NEW q
    PROVE  /\ Homes!Displayable(p, q) \subseteq Homes!PublicOf(p)
           /\ \A i \in Homes!Displayable(p, q) : Homes!InRange(v1[i].price, q)
    BY DEF Homes!Displayable

LEMMA HomesPortalListingsOpen ==
    ASSUME Homes!IInv, NEW q
    PROVE  /\ HomesOpen(Homes!PortalListings(q))
           /\ \A item \in Homes!PortalListings(q) : Homes!InRange(item.listing.price, q)
           /\ Homes!PortalListings(q) # {} => Homes!Reachable
<1>1. \A p \in House : HomesOpen(Homes!Shown(p, Homes!Displayable(p, q)))
    BY HomesShownOpen, HomesDisplayableIs
<1>2. ASSUME NEW p \in House, NEW item \in Homes!Shown(p, Homes!Displayable(p, q))
      PROVE  Homes!InRange(item.listing.price, q)
  <2>1. PICK i \in Homes!Displayable(p, q) : item.listing = v1[i]
      BY HomesShownIs
  <2> QED
      BY <2>1, HomesDisplayableIs
<1>3. \A item \in Homes!PortalListings(q) : \E p \in House : item \in Homes!Shown(p, Homes!Displayable(p, q))
    BY DEF Homes!PortalListings
<1> QED
    BY <1>1, <1>2, <1>3 DEF HomesOpen, Homes!PortalListings

LEMMA HomesPortalPropertyOpen ==
    ASSUME Homes!IInv, NEW p \in House
    PROVE  HomesOpen(Homes!PortalProperty(p)) /\ (Homes!PortalProperty(p) # {} => Homes!Reachable)
<1>1. HomesOpen(Homes!Shown(p, Homes!Displayable(p, Homes!NoQuery)))
    BY HomesShownOpen, HomesDisplayableIs
<1> QED
    BY <1>1, HomesOpenEmpty DEF Homes!PortalProperty

LEMMA HomesPortalSlugOpen ==
    ASSUME Homes!Bounds, Homes!IInv, NEW i \in Homes!Listing
    PROVE  HomesOpen(Homes!PortalSlug(i)) /\ (Homes!PortalSlug(i) # {} => Homes!Reachable)
<1>1. PICK p \in House : p = ListedOn[i]
    BY HomesSets DEF Homes!Bounds
<1>2. i \in Homes!Displayable(p, Homes!NoQuery) => HomesOpen(Homes!Shown(p, {i}))
    BY HomesShownOpen, HomesDisplayableIs
<1>3. Homes!PortalSlug(i) = IF Homes!Reachable /\ Homes!CanShow /\ Homes!InPortal(p, Homes!NoQuery) /\ i \in Homes!Displayable(p, Homes!NoQuery)
                      THEN Homes!Shown(p, {i}) ELSE {}
    BY <1>1 DEF Homes!PortalSlug
<1> QED
    BY <1>2, <1>3, HomesOpenEmpty

LEMMA HomesLandingOpen ==
    ASSUME Homes!IInv
    PROVE  HomesOpen(Homes!Landing) /\ (Homes!Landing # {} => Homes!Reachable)
<1>1. \A p \in House :
         HomesOpen(Homes!Shown(p, {i \in Homes!PublicOf(p) : Homes!Scoped(v1[i], BoardLimit, ~v4.approved)}))
    BY HomesShownOpen
<1> QED
    BY <1>1 DEF HomesOpen, Homes!Landing

LEMMA HomesFeaturedOpen == ASSUME Homes!IInv PROVE HomesOpen(Homes!Featured)
<1>1. \A p \in House : \A i \in Homes!PublicOf(p) : HomesOpen(Homes!Shown(p, {i}))
    BY HomesShownOpen
<1>2. ASSUME NEW item \in Homes!Featured
      PROVE  \E p \in House : \E i \in Homes!PublicOf(p) : item \in Homes!Shown(p, {i})
  <2>1. PICK p \in House : item \in UNION {Homes!Shown(p, {i}) : i \in Homes!PublicOf(p)}
      BY DEF Homes!Featured
  <2> QED
      BY <2>1
<1> QED
    BY <1>1, <1>2 DEF HomesOpen

LEMMA HomesPropertyByIdOpen ==
    ASSUME Homes!IInv, NEW p \in House
    PROVE  HomesOpen(Homes!PropertyById(p))
    BY HomesShownOpen DEF Homes!PropertyById

LEMMA HomesPropertyBySlugOpen ==
    ASSUME Homes!Bounds, Homes!IInv, NEW i \in Homes!Listing
    PROVE  HomesOpen(Homes!PropertyBySlug(i))
<1>1. PICK p \in House : p = ListedOn[i]
    BY HomesSets DEF Homes!Bounds
<1>2. v1[i] \in Offer \cup {Homes!NoListing} /\ ~Homes!Public(Homes!NoListing)
    BY HomesTypes DEF Homes!Public, Homes!NoListing
<1>3. Homes!Public(v1[i]) => i \in Homes!PublicOf(p)
    BY <1>1, <1>2 DEF Homes!PublicOf, Homes!OfProperty
<1>4. Homes!Public(v1[i]) => HomesOpen(Homes!Shown(p, {i}))
    BY <1>3, HomesShownOpen
<1> QED
    BY <1>1, <1>4, HomesOpenEmpty DEF Homes!PropertyBySlug

\* The palette shows what the deployment withholds, and nothing that is not there.
LEMMA HomesPaletteIs ==
    ASSUME Homes!IInv
    PROVE  \A item \in Homes!Palette : item.of \in House /\ item.listing \in Offer
<1>1. ASSUME NEW p \in House,
             NEW item \in Homes!Shown(p, {i \in Homes!OfProperty(p) : v1[i].active /\ v1[i].idx})
      PROVE  item.of \in House /\ item.listing \in Offer
  <2>1. item.of = p
      BY HomesShownIs
  <2>2. PICK i \in {j \in Homes!OfProperty(p) : v1[j].active /\ v1[j].idx} :
           item.listing = v1[i]
      BY HomesShownIs
  <2>3. i \in Homes!Listing /\ v1[i] # Homes!NoListing
      BY <2>2 DEF Homes!OfProperty
  <2> QED
      BY <2>1, <2>2, <2>3, HomesTypes
<1> QED
    BY <1>1 DEF Homes!Palette

-----------------------------------------------------------------------------
(* Every step. *)

\* Another state with the same answers or none is still good.
LEMMA HomesAsks ==
    ASSUME Homes!Bounds, Homes!IInv, NEW surface, NEW q, NEW items,
           Homes!Answer(surface, q, items),
           \A item \in items : item.of \in House /\ item.listing \in Offer,
           surface # "palette" => HomesOpen(items),
           surface \in {"portalListings", "portalProperty", "landing", "portal"} /\ items # {} => Homes!Reachable,
           surface = "domain" /\ items # {} => v4.active,
           surface \in {"properties", "portalListings", "geo"} =>
               \A item \in items : Homes!InRange(item.listing.price, q)
    PROVE  Homes!IInv'
<1>1. v6'.surface = surface /\ v6'.query = q /\ v6'.items = items
    BY DEF Homes!Answer
<1>2. UNCHANGED <<v1, v2, v3, v4, v5, v7>>
    BY DEF Homes!Answer
<1>3. Homes!TypeOK' /\ (v4 \in Homes!Portals)'
    BY <1>1, <1>2, HomesTypes DEF Homes!TypeOK, Homes!IInv
<1>4. Homes!NothingHiddenIsShown'
    BY <1>1, <1>2 DEF Homes!NothingHiddenIsShown, HomesOpen
<1>5. Homes!PagesAreGated'
    BY <1>1, <1>2 DEF Homes!PagesAreGated, Homes!Reachable
<1>6. Homes!ShownIsMatched'
    BY <1>1 DEF Homes!ShownIsMatched, Homes!InRange
<1> QED
    BY <1>3, <1>4, <1>5, <1>6 DEF Homes!IInv

\* What is open is of properties and has listings.
LEMMA HomesOpenIs ==
    ASSUME NEW items, HomesOpen(items)
    PROVE  \A item \in items : item.of \in House /\ item.listing \in Offer
    BY DEF HomesOpen

LEMMA HomesAskStep == ASSUME Homes!Bounds, Homes!IInv, Homes!Ask PROVE Homes!IInv'
<1>1. ASSUME NEW q, Homes!Answer("search", q, Homes!Search(q)) PROVE Homes!IInv'
    BY <1>1, HomesAsks, HomesSearchOpen, HomesOpenIs
<1>2. ASSUME NEW q, Homes!Answer("geo", q, Homes!Geo(q)) PROVE Homes!IInv'
    BY <1>2, HomesAsks, HomesGeoOpen, HomesOpenIs
<1>3. ASSUME NEW q, Homes!Answer("properties", q, Homes!Properties(q)) PROVE Homes!IInv'
    BY <1>3, HomesAsks, HomesPropertiesOpen, HomesOpenIs
<1>4. ASSUME NEW q, Homes!Answer("portalListings", q, Homes!PortalListings(q))
      PROVE  Homes!IInv'
    BY <1>4, HomesAsks, HomesPortalListingsOpen, HomesOpenIs
<1>5. ASSUME NEW p \in House, Homes!Answer("property", Homes!NoQuery, Homes!PropertyById(p))
      PROVE  Homes!IInv'
    BY <1>5, HomesAsks, HomesPropertyByIdOpen, HomesOpenIs
<1>6. ASSUME NEW p \in House,
             Homes!Answer("portalProperty", Homes!NoQuery, Homes!PortalProperty(p))
      PROVE  Homes!IInv'
    BY <1>6, HomesAsks, HomesPortalPropertyOpen, HomesOpenIs
<1>7. ASSUME NEW i \in Homes!Listing,
             Homes!Answer("slug", Homes!NoQuery, Homes!PropertyBySlug(i))
      PROVE  Homes!IInv'
    BY <1>7, HomesAsks, HomesPropertyBySlugOpen, HomesOpenIs
<1>8. ASSUME NEW i \in Homes!Listing,
             Homes!Answer("portalProperty", Homes!NoQuery, Homes!PortalSlug(i))
      PROVE  Homes!IInv'
    BY <1>8, HomesAsks, HomesPortalSlugOpen, HomesOpenIs
<1>9. Homes!Answer("landing", Homes!NoQuery, Homes!Landing) => Homes!IInv'
    BY HomesAsks, HomesLandingOpen, HomesOpenIs
<1>10. Homes!Answer("palette", Homes!NoQuery, Homes!Palette) => Homes!IInv'
    BY HomesAsks, HomesPaletteIs
<1>11. ASSUME NEW items, items = (IF Homes!Reachable THEN Homes!Featured ELSE {}),
              Homes!Answer("portal", Homes!NoQuery, items)
       PROVE  Homes!IInv'
  <2>1. HomesOpen(items) /\ (items # {} => Homes!Reachable)
      BY <1>11, HomesFeaturedOpen, HomesOpenEmpty
  <2> QED
      BY <1>11, <2>1, HomesAsks, HomesOpenIs
<1>12. ASSUME NEW items, items = (IF v4.active THEN Homes!Featured ELSE {}),
              Homes!Answer("domain", Homes!NoQuery, items)
       PROVE  Homes!IInv'
  <2>1. HomesOpen(items)
      BY <1>12, HomesFeaturedOpen, HomesOpenEmpty
  <2> QED
      BY <1>12, <2>1, HomesAsks, HomesOpenIs
<1> QED
    BY <1>1, <1>2, <1>3, <1>4, <1>5, <1>6, <1>7, <1>8, <1>9, <1>10, <1>11, <1>12
       DEF Homes!Ask

\* A change drops the answer: nothing has been shown since.
LEMMA HomesChanges ==
    ASSUME Homes!Bounds, Homes!IInv, Homes!Change,
           v1' \in [Homes!Listing -> Offer \cup {Homes!NoListing}],
           v2' \in [House -> Offer \cup {Homes!NoListing}],
           v3' \in [House -> {"NONE", "INCLUDE", "EXCLUDE"}], v4' \in Homes!Portals,
           v5' \in [display : BOOLEAN, engine : {"off", "up", "down"}]
    PROVE  Homes!IInv'
<1>1. v6'.surface = "none" /\ v6'.items = {} /\ v7' \in 0..HomeChanges
    BY HomesTypes, HomesSets DEF Homes!Change, Homes!None, Homes!Bounds
<1>2. v4'.predicate \in HomePredicate
    BY DEF Homes!Portals
<1>3. Homes!TypeOK'
    BY <1>1, <1>2 DEF Homes!TypeOK
<1>4. Homes!NothingHiddenIsShown' /\ Homes!PagesAreGated' /\ Homes!ShownIsMatched'
    BY <1>1 DEF Homes!NothingHiddenIsShown, Homes!PagesAreGated, Homes!ShownIsMatched
<1> QED
    BY <1>3, <1>4 DEF Homes!IInv

LEMMA HomesReconciledIs ==
    ASSUME NEW p, NEW f \in [Homes!Listing -> Offer \cup {Homes!NoListing}], NEW display
    PROVE  Homes!Reconciled(p, f, display) \in Offer \cup {Homes!NoListing}
<1>1. PICK newest : /\ newest \subseteq Homes!Listing
                    /\ Homes!Reconciled(p, f, display) =
                          IF newest = {} THEN Homes!NoListing ELSE f[CHOOSE i \in newest : TRUE]
    BY DEF Homes!Reconciled
<1>2. newest # {} => (CHOOSE i \in newest : TRUE) \in newest
    OBVIOUS
<1> QED
    BY <1>1, <1>2

LEMMA HomesChangeListingStep ==
    ASSUME Homes!Bounds, Homes!IInv, NEW i \in Homes!Listing, Homes!ChangeListing(i)
    PROVE  Homes!IInv'
<1>1. PICK l \in Offer \cup {Homes!NoListing} : v1' = [v1 EXCEPT ![i] = l]
    BY DEF Homes!ChangeListing
<1>2. v1' \in [Homes!Listing -> Offer \cup {Homes!NoListing}]
    BY <1>1, HomesTypes
<1>3. PICK d : d = Homes!Reconciled(ListedOn[i], v1', v5.display)
    OBVIOUS
<1>4. d \in Offer \cup {Homes!NoListing}
    BY <1>2, <1>3, HomesReconciledIs
<1>5. /\ v2' = [v2 EXCEPT ![ListedOn[i]] = d] /\ Homes!Change
      /\ UNCHANGED <<v3, v4, v5>>
    BY <1>3 DEF Homes!ChangeListing
<1>6. v2' \in [House -> Offer \cup {Homes!NoListing}]
    BY <1>4, <1>5, HomesTypes
<1> QED
    BY <1>2, <1>5, <1>6, HomesTypes, HomesChanges

LEMMA HomesDecideStep ==
    ASSUME Homes!Bounds, Homes!IInv, NEW p \in House, Homes!Decide(p)
    PROVE  Homes!IInv'
<1>1. v3' \in [House -> {"NONE", "INCLUDE", "EXCLUDE"}]
    BY HomesTypes DEF Homes!Decide
<1>2. Homes!Change /\ UNCHANGED <<v1, v2, v4, v5>>
    BY DEF Homes!Decide
<1> QED
    BY <1>1, <1>2, HomesTypes, HomesChanges

LEMMA HomesToggleStep ==
    ASSUME Homes!Bounds, Homes!IInv, NEW f \in {"active", "suspended", "published"},
           Homes!Toggle(f)
    PROVE  Homes!IInv'
<1>1. v4' = [v4 EXCEPT ![f] = ~v4[f]]
    BY DEF Homes!Toggle
<1>2. v4 \in Homes!Portals
    BY HomesTypes
<1>3. v4' \in Homes!Portals
  <2>1. CASE f = "active"
      BY <1>1, <1>2, <2>1 DEF Homes!Portals
  <2>2. CASE f = "suspended"
      BY <1>1, <1>2, <2>2 DEF Homes!Portals
  <2>3. CASE f = "published"
      BY <1>1, <1>2, <2>3 DEF Homes!Portals
  <2> QED
      BY <2>1, <2>2, <2>3
<1>4. Homes!Change /\ UNCHANGED <<v1, v2, v3, v5>>
    BY DEF Homes!Toggle
<1> QED
    BY <1>3, <1>4, HomesTypes, HomesChanges

LEMMA HomesPortalSteps ==
    ASSUME Homes!Bounds, Homes!IInv, Homes!Suspend \/ Homes!Launch \/ Homes!Publish
    PROVE  Homes!IInv'
    BY HomesToggleStep DEF Homes!Suspend, Homes!Launch, Homes!Publish

LEMMA HomesChangeEnvStep ==
    ASSUME Homes!Bounds, Homes!IInv, Homes!ChangeEnv
    PROVE  Homes!IInv'
<1>1. v5' \in [display : BOOLEAN, engine : {"off", "up", "down"}]
  <2>1. CASE v5' = [v5 EXCEPT !.display = ~@]
      BY <2>1, HomesTypes
  <2>2. CASE \E e \in {"off", "up", "down"} : v5' = [v5 EXCEPT !.engine = e]
      BY <2>2, HomesTypes
  <2> QED
      BY <2>1, <2>2 DEF Homes!ChangeEnv
<1>2. Homes!Change /\ UNCHANGED <<v1, v2, v3, v4>>
    BY DEF Homes!ChangeEnv
<1> QED
    BY <1>1, <1>2, HomesTypes, HomesChanges

LEMMA HomesInitially == ASSUME Homes!Bounds PROVE Homes!Init => Homes!IInv
<1> SUFFICES ASSUME Homes!Init PROVE Homes!IInv
    OBVIOUS
<1>1. v1 \in [Homes!Listing -> Offer \cup {Homes!NoListing}] /\ v5.display = TRUE
    BY DEF Homes!Init
<1>2. v2 \in [House -> Offer \cup {Homes!NoListing}]
  <2>1. \A p \in House : Homes!Reconciled(p, v1, TRUE) \in Offer \cup {Homes!NoListing}
      BY <1>1, HomesReconciledIs
  <2> QED
      BY <2>1 DEF Homes!Init
<1>3. v6.surface = "none" /\ v6.items = {}
    BY DEF Homes!Init, Homes!None
<1>4. v4 \in Homes!Portals /\ v4.predicate \in HomePredicate
    BY DEF Homes!Init, Homes!Portals
<1>5. /\ v3 \in [House -> {"NONE", "INCLUDE", "EXCLUDE"}]
      /\ v5 \in [display : BOOLEAN, engine : {"off", "up", "down"}]
      /\ v7 \in 0..HomeChanges
    BY HomesSets DEF Homes!Init, Homes!Bounds
<1>6. Homes!TypeOK
    BY <1>1, <1>2, <1>3, <1>4, <1>5 DEF Homes!TypeOK
<1> QED
    BY <1>3, <1>4, <1>6 DEF Homes!IInv, Homes!NothingHiddenIsShown, Homes!PagesAreGated,
       Homes!ShownIsMatched

LEMMA HomesInductive ==
    ASSUME Homes!Bounds
    PROVE  Homes!IInv /\ [Homes!Next]_(Homes!vars) => Homes!IInv'
<1> SUFFICES ASSUME Homes!IInv, [Homes!Next]_(Homes!vars) PROVE Homes!IInv'
    OBVIOUS
<1>1. CASE UNCHANGED Homes!vars
    BY <1>1 DEF Homes!vars, Homes!IInv, Homes!TypeOK, Homes!NothingHiddenIsShown,
       Homes!PagesAreGated, Homes!ShownIsMatched,
       Homes!InRange
<1>2. CASE Homes!Next
    BY <1>2, HomesChangeListingStep, HomesDecideStep, HomesPortalSteps,
       HomesChangeEnvStep, HomesAskStep DEF Homes!Next
<1> QED
    BY <1>1, <1>2

-----------------------------------------------------------------------------
(* Both engines, and what a collection compiles to. *)

LEMMA HomesShownOne ==
    ASSUME Homes!Bounds, NEW p, NEW i \in Homes!Listing
    PROVE  Homes!Shown(p, {i}) = {[of |-> p, listing |-> v1[i]]}
<1>1. i \in Nat /\ i <= i
    BY HomesSets DEF Homes!Bounds
<1> QED
    BY <1>1 DEF Homes!Shown

LEMMA HomesPublicOfIs ==
    ASSUME NEW p
    PROVE  Homes!PublicOf(p) = {i \in Homes!Listing : ListedOn[i] = p /\ Homes!Public(v1[i])}
<1>1. ~Homes!Public(Homes!NoListing)
    BY DEF Homes!Public, Homes!NoListing
<1> QED
    BY <1>1 DEF Homes!PublicOf, Homes!OfProperty

LEMMA HomesPublicFinite == ASSUME Homes!Bounds, NEW p PROVE IsFiniteSet(Homes!PublicOf(p))
<1>1. Homes!PublicOf(p) \subseteq Homes!Listing /\ IsFiniteSet(Homes!Listing)
    BY HomesSets DEF Homes!Bounds, Homes!PublicOf, Homes!OfProperty
<1> QED
    BY <1>1, FS_Subset

LEMMA HomesAtMostOne ==
    ASSUME NEW S, IsFiniteSet(S), Cardinality(S) <= 1
    PROVE  S = {} \/ \E i : S = {i}
<1>1. Cardinality(S) \in Nat
    BY FS_CardinalityType
<1>2. Cardinality(S) = 0 \/ Cardinality(S) = 1
    BY <1>1
<1>3. Cardinality(S) = 0 => S = {}
    BY FS_EmptySet
<1>4. Cardinality(S) = 1 => \E i : S = {i}
    BY FS_Singleton
<1> QED
    BY <1>2, <1>3, <1>4

\* The document of a property with at most one public listing is that listing.
LEMMA HomesReconciledOne ==
    ASSUME Homes!Bounds, NEW p \in House
    PROVE  /\ Homes!PublicOf(p) = {} => Homes!Reconciled(p, v1, v5.display) = Homes!NoListing
           /\ \A i : Homes!PublicOf(p) = {i} => Homes!Reconciled(p, v1, v5.display) = v1[i]
<1>1. PICK ids, newest :
         /\ ids = {i \in Homes!Listing : /\ ListedOn[i] = p /\ v1[i].active /\ v1[i].idx
                                         /\ v5.display \/ ~v1[i].mls}
         /\ newest = {i \in ids : \A k \in ids : \/ v1[k].date < v1[i].date
                                                 \/ v1[k].date = v1[i].date /\ k <= i}
         /\ Homes!Reconciled(p, v1, v5.display) =
               IF newest = {} THEN Homes!NoListing ELSE v1[CHOOSE i \in newest : TRUE]
    BY DEF Homes!Reconciled
<1>2. ids = Homes!PublicOf(p)
    BY <1>1, HomesPublicOfIs DEF Homes!Public
<1>3. Homes!PublicOf(p) = {} => newest = {}
    BY <1>1, <1>2
<1>4. ASSUME NEW i, Homes!PublicOf(p) = {i}
      PROVE  newest = {i}
  <2>1. i \in Homes!Listing
      BY <1>1, <1>2, <1>4
  <2>2. i \in Nat
      BY <2>1, HomesSets DEF Homes!Bounds
  <2>3. i <= i
      BY <2>2
  <2> QED
      BY <1>1, <1>2, <1>4, <2>1, <2>3
<1> QED
    BY <1>1, <1>3, <1>4

LEMMA HomesEnginesDo == ASSUME Homes!Bounds PROVE Homes!EnginesAgree
<1> SUFFICES ASSUME \A p \in House : /\ Cardinality(Homes!PublicOf(p)) <= 1
                                     /\ v2[p] = Homes!Reconciled(p, v1, v5.display),
                    NEW q \in Asking
             PROVE  Homes!SearchService(q) = Homes!Postgres(q)
    BY HomesSets DEF Homes!EnginesAgree
<1>1. ASSUME NEW p \in House
      PROVE  \/ Homes!PublicOf(p) = {} /\ ~Homes!Public(v2[p])
             \/ \E i \in Homes!Listing : Homes!PublicOf(p) = {i} /\ v2[p] = v1[i] /\ Homes!Public(v2[p])
  <2>1. CASE Homes!PublicOf(p) = {}
      BY <2>1, HomesReconciledOne DEF Homes!Public, Homes!NoListing
  <2>2. ASSUME NEW i, Homes!PublicOf(p) = {i}
        PROVE  i \in Homes!Listing /\ v2[p] = v1[i] /\ Homes!Public(v2[p])
    <3>1. i \in Homes!Listing /\ Homes!Public(v1[i])
        BY <2>2, HomesPublicOfIs
    <3>2. v2[p] = v1[i]
        BY <2>2, HomesReconciledOne
    <3> QED
        BY <3>1, <3>2
  <2>3. Homes!PublicOf(p) = {} \/ \E i : Homes!PublicOf(p) = {i}
      BY HomesAtMostOne, HomesPublicFinite
  <2> QED
      BY <2>1, <2>2, <2>3
\* One property's part of either answer.
<1> DEFINE Here(p) == [of |-> p, listing |-> v2[p]]
<1>2. ASSUME NEW p \in House, NEW i \in Homes!Listing, Homes!PublicOf(p) = {i},
             v2[p] = v1[i]
      PROVE  Homes!Shown(p, Homes!PublicOf(p)) = {Here(p)}
    BY <1>2, HomesShownOne
<1>3. ASSUME NEW p \in House
      PROVE  (\E i \in Homes!PublicOf(p) : Homes!Asked(v1[i], q)) <=> Homes!Public(v2[p]) /\ Homes!Asked(v2[p], q)
    BY <1>1
<1>4. ASSUME NEW p \in House, Homes!Public(v2[p])
      PROVE  Homes!Shown(p, Homes!PublicOf(p)) = {Here(p)}
    BY <1>1, <1>2, <1>4
<1>5. Homes!SearchService(q) = {Here(p) : p \in {r \in House : Homes!Public(v2[r]) /\ Homes!Asked(v2[r], q)}}
    BY DEF Homes!SearchService
<1>6. Homes!Postgres(q) = UNION {Homes!Shown(p, Homes!PublicOf(p)) :
                              p \in {r \in House : Homes!Public(v2[r]) /\ Homes!Asked(v2[r], q)}}
    BY <1>3 DEF Homes!Postgres
<1> HIDE DEF Here
<1>7. \A x : x \in Homes!Postgres(q) <=>
                \E p \in House : Homes!Public(v2[p]) /\ Homes!Asked(v2[p], q) /\ x \in Homes!Shown(p, Homes!PublicOf(p))
    BY <1>6
<1>8. \A x : x \in Homes!SearchService(q) <=>
                \E p \in House : Homes!Public(v2[p]) /\ Homes!Asked(v2[p], q) /\ x = Here(p)
    BY <1>5
<1>9. \A x : x \in Homes!SearchService(q) <=> x \in Homes!Postgres(q)
    BY <1>4, <1>7, <1>8
<1> QED
    BY <1>9

\* What evaluateCollectionPredicate asks of one value.
HomesMatches(value, rule) ==
    \/ rule.nulls = "none"
    \/ value = 0 /\ rule.nulls \in {"include", "only"}
    \/ value # 0 /\ rule.nulls # "only" /\ value >= rule.min /\ value <= rule.max

LEMMA HomesMatchesAny ==
    ASSUME NEW value, NEW rule, rule.nulls = "none"
    PROVE  /\ HomesMatches(value, rule)
           /\ value \in 0..99 /\ rule.min = 0 /\ rule.max = 99 => Homes!InRule(value, rule)
<1>1. HomesMatches(value, rule)
    BY DEF HomesMatches
<1>2. value \in 0..99 /\ rule.min = 0 /\ rule.max = 99 => Homes!InRule(value, rule)
    BY DEF Homes!InRule
<1> QED
    BY <1>1, <1>2

LEMMA HomesMatchesRule ==
    ASSUME NEW value \in 0..99, NEW rule \in Homes!Rule, rule.nulls # "none"
    PROVE  /\ Homes!InRule(value, rule) <=> HomesMatches(value, Homes!InEffect(rule))
           /\ HomesMatches(value, rule) => HomesMatches(value, Homes!InEffect(rule))
<1>1. PICK low \in 0..99, high \in 0..99 : rule.min = low /\ rule.max = high
    BY DEF Homes!Rule
<1>2. CASE rule.nulls = "only"
    BY <1>2 DEF Homes!InRule, HomesMatches, Homes!Vacuous, Homes!InEffect
<1>3. CASE rule.nulls = "include"
    BY <1>1, <1>3 DEF Homes!InRule, HomesMatches, Homes!Vacuous, Homes!InEffect
<1>4. CASE rule.nulls = "exclude"
    BY <1>1, <1>4 DEF Homes!InRule, HomesMatches, Homes!Vacuous, Homes!InEffect
<1> QED
    BY <1>2, <1>3, <1>4 DEF Homes!Rule

\* A rule that does not ask is in effect as it is.
LEMMA HomesNoRuleInEffect ==
    ASSUME NEW rule, rule.nulls = "none"
    PROVE  Homes!InEffect(rule) = rule
    BY DEF Homes!InEffect, Homes!Vacuous

LEMMA HomesCollectionDoes ==
    ASSUME Homes!Bounds, Homes!IInv
    PROVE  Homes!CollectionIsPredicate
<1> SUFFICES ASSUME NEW p \in House,
                    NEW one, one = {i \in Homes!OfProperty(p) : Homes!Public(v1[i])}
             PROVE  /\ v3[p] = "EXCLUDE" => ~Homes!Compiled(p, v4.predicate, {}, FALSE, TRUE)
                    /\ Cardinality(one) = 1 /\ v3[p] = "NONE" =>
                       /\ Homes!Compiled(p, v4.predicate, {}, FALSE, TRUE) <=>
                          Homes!Evaluated([price |-> v1[CHOOSE i \in one : TRUE].price,
                                     beds |-> HouseOf[p].beds, tags |-> HouseOf[p].tags],
                                    [beds |-> Homes!InEffect(v4.predicate.beds),
                                     price |-> Homes!InEffect(v4.predicate.price),
                                     any |-> v4.predicate.any, exclude |-> v4.predicate.exclude])
                       /\ Homes!Evaluated([price |-> v1[CHOOSE i \in one : TRUE].price,
                                     beds |-> HouseOf[p].beds, tags |-> HouseOf[p].tags], v4.predicate)
                          => Homes!Evaluated([price |-> v1[CHOOSE i \in one : TRUE].price,
                                     beds |-> HouseOf[p].beds, tags |-> HouseOf[p].tags],
                                    [beds |-> Homes!InEffect(v4.predicate.beds),
                                     price |-> Homes!InEffect(v4.predicate.price),
                                     any |-> v4.predicate.any, exclude |-> v4.predicate.exclude])
    BY HomesSets DEF Homes!CollectionIsPredicate
<1>1. v3[p] = "EXCLUDE" => ~Homes!Compiled(p, v4.predicate, {}, FALSE, TRUE)
    BY DEF Homes!Compiled, Homes!Collected
<1>2. PICK c \in HomePredicate : c = v4.predicate
    BY HomesTypes DEF Homes!Portals
<1>3. ASSUME Cardinality(one) = 1, v3[p] = "NONE",
             NEW compiles, compiles = [beds |-> Homes!InEffect(c.beds), price |-> Homes!InEffect(c.price),
                                       any |-> c.any, exclude |-> c.exclude],
             NEW row, row = [price |-> v1[CHOOSE i \in one : TRUE].price,
                             beds |-> HouseOf[p].beds, tags |-> HouseOf[p].tags]
      PROVE  /\ Homes!Compiled(p, c, {}, FALSE, TRUE) <=> Homes!Evaluated(row, compiles)
             /\ Homes!Evaluated(row, c) => Homes!Evaluated(row, compiles)
  <2>1. one = Homes!PublicOf(p) /\ IsFiniteSet(one)
      BY HomesPublicFinite DEF Homes!PublicOf
  <2>2. PICK i : one = {i}
      BY <1>3, <2>1, FS_Singleton
  <2>3. (CHOOSE k \in one : TRUE) = i
      BY <2>2
  <2>4. i \in Homes!Listing /\ i \in Homes!OfProperty(p) /\ Homes!Public(v1[i])
      BY <2>2 DEF Homes!OfProperty
  <2>5. PICK price : price = v1[i].price
      OBVIOUS
  <2>6. price \in 0..99
    <3>1. v1[i] \in Offer
        BY <2>4, HomesTypes, HomesPublicIs
    <3> QED
        BY <2>5, <3>1, HomesSets DEF Homes!Bounds
  <2>7. PICK eligible : /\ eligible = {k \in Homes!OfProperty(p) :
                              /\ Homes!Public(v1[k]) /\ Homes!Scoped(v1[k], {}, FALSE)
                              /\ c.price.nulls # "none"
                                   => Homes!InRule(v1[k].price, c.price)}
                        /\ Homes!Compiled(p, c, {}, FALSE, TRUE) = Homes!Collected(p, c, eligible # {})
      BY DEF Homes!Compiled
  <2>8. eligible # {} <=> (c.price.nulls # "none" => Homes!InRule(price, c.price))
    <3>1. \A k : k \in Homes!OfProperty(p) /\ Homes!Public(v1[k]) <=> k = i
        BY <2>2
    <3>2. Homes!Scoped(v1[i], {}, FALSE)
        BY DEF Homes!Scoped
    <3> QED
        BY <2>5, <2>7, <3>1, <3>2
  <2>9. PICK beds \in 0..99 : beds = HouseOf[p].beds
      BY HomesSets DEF Homes!Bounds
  <2>10. /\ c.price \in Homes!Rule
         /\ (c.price.nulls = "none" => c.price.min = 0 /\ c.price.max = 99)
         /\ c.beds \in Homes!Rule
         /\ (c.beds.nulls = "none" => c.beds.min = 0 /\ c.beds.max = 99)
      BY HomesSets DEF Homes!Bounds
  <2>11. row.price = price /\ row.beds = beds /\ row.tags = HouseOf[p].tags
      BY <1>3, <2>3, <2>5, <2>9
  <2>12. Homes!Evaluated(row, c) <=>
            /\ c.any # {} => HouseOf[p].tags \cap c.any # {}
            /\ HouseOf[p].tags \cap c.exclude = {}
            /\ HomesMatches(price, c.price) /\ HomesMatches(beds, c.beds)
      BY <2>11 DEF Homes!Evaluated, HomesMatches
  <2>13. /\ compiles.any = c.any /\ compiles.exclude = c.exclude
         /\ compiles.price = Homes!InEffect(c.price) /\ compiles.beds = Homes!InEffect(c.beds)
      BY <1>3
  <2>14. Homes!Evaluated(row, compiles) <=>
            /\ c.any # {} => HouseOf[p].tags \cap c.any # {}
            /\ HouseOf[p].tags \cap c.exclude = {}
            /\ HomesMatches(price, Homes!InEffect(c.price))
            /\ HomesMatches(beds, Homes!InEffect(c.beds))
      BY <2>11, <2>13 DEF Homes!Evaluated, HomesMatches
  <2>15. /\ eligible # {} <=> HomesMatches(price, Homes!InEffect(c.price))
         /\ HomesMatches(price, c.price) => HomesMatches(price, Homes!InEffect(c.price))
      BY <2>6, <2>8, <2>10, HomesMatchesRule, HomesMatchesAny, HomesNoRuleInEffect
  <2>16. /\ Homes!InRule(beds, c.beds) <=> HomesMatches(beds, Homes!InEffect(c.beds))
         /\ HomesMatches(beds, c.beds) => HomesMatches(beds, Homes!InEffect(c.beds))
      BY <2>9, <2>10, HomesMatchesRule, HomesMatchesAny, HomesNoRuleInEffect
  <2>17. Homes!Compiled(p, c, {}, FALSE, TRUE) <=>
            eligible # {} /\ (Homes!NoGroups(c) \/ Homes!Groups(p, c))
      BY <1>3, <2>7 DEF Homes!Collected
  <2>18. Homes!NoGroups(c) \/ Homes!Groups(p, c) <=>
            /\ c.any # {} => HouseOf[p].tags \cap c.any # {}
            /\ HouseOf[p].tags \cap c.exclude = {}
            /\ HomesMatches(beds, Homes!InEffect(c.beds))
      BY <2>9, <2>16, HomesMatchesAny, HomesNoRuleInEffect DEF Homes!NoGroups, Homes!Groups
  <2> QED
      BY <2>12, <2>14, <2>15, <2>16, <2>17, <2>18
<1> QED
    BY <1>1, <1>2, <1>3

LEMMA HomesPromised ==
    ASSUME Homes!Bounds, Homes!IInv
    PROVE  /\ Homes!TypeOK /\ Homes!NothingHiddenIsShown /\ Homes!PagesAreGated /\ Homes!ShownIsMatched
           /\ Homes!EnginesAgree /\ Homes!CollectionIsPredicate
<1>1. Homes!EnginesAgree /\ Homes!CollectionIsPredicate
    BY HomesEnginesDo, HomesCollectionDoes
<1> QED
    BY <1>1 DEF Homes!IInv

-----------------------------------------------------------------------------
(* The cache of responses.                                                 *)
(* v1 display, v2 up, v3 isConnected, v4 entry, v5 req, v6 storing, v7     *)
(* faults.                                                                 *)

LEMMA CacheTypes ==
    ASSUME Cache!IInv
    PROVE  /\ v1 \in [WebServer -> BOOLEAN] /\ v2 \in BOOLEAN
           /\ v3 \in [WebServer -> BOOLEAN]
           /\ v4 \in [Cache!Keys -> Cache!Responses \cup {Cache!Nothing}]
           /\ v5 \in [Visitor -> Cache!Requests] /\ v6 \in [Visitor -> BOOLEAN]
           /\ v7 \in 0..RedisFaults
    BY DEF Cache!IInv, Cache!TypeOK

\* What a request may be, given what its server's switch is.
CacheHonest(q, on) ==
    /\ q.step \in {"hit", "answered"} /\ q.got.mls => on
    /\ q.step = "hit" => q.got.ok

LEMMA CacheTypesAre ==
    ASSUME v1' \in [WebServer -> BOOLEAN], v2' \in BOOLEAN,
           v3' \in [WebServer -> BOOLEAN], v4' \in [Cache!Keys -> Cache!Responses \cup {Cache!Nothing}],
           v5' \in [Visitor -> Cache!Requests], v6' \in [Visitor -> BOOLEAN],
           v7' \in 0..RedisFaults,
           \A r \in Visitor : CacheHonest(v5'[r], v1'[v5'[r].server]),
           \A k \in Cache!Keys : v4'[k] # Cache!Nothing => v4'[k].ok /\ (v4'[k].mls => k[2]),
           \A r \in Visitor : v6'[r] => /\ v5'[r].step = "answered"
                                              /\ v5'[r].got \in Cache!Responses
                                              /\ v5'[r].got.ok
    PROVE  Cache!IInv'
<1>1. \A r \in Visitor : v5'[r] \in Cache!Requests
    OBVIOUS
<1>2. Cache!TypeOK'
    BY <1>1 DEF Cache!TypeOK, Cache!Requests
<1>3. Cache!SwitchHolds'
    BY DEF Cache!SwitchHolds, CacheHonest
<1> QED
    BY <1>2, <1>3 DEF Cache!IInv

LEMMA CacheHolds ==
    ASSUME Cache!IInv
    PROVE  /\ \A r \in Visitor : CacheHonest(v5[r], v1[v5[r].server])
           /\ \A k \in Cache!Keys : v4[k] # Cache!Nothing => v4[k].ok /\ (v4[k].mls => k[2])
           /\ \A r \in Visitor : v6[r] => /\ v5[r].step = "answered"
                                                /\ v5[r].got \in Cache!Responses
                                                /\ v5[r].got.ok
    BY DEF Cache!IInv, Cache!SwitchHolds, CacheHonest

\* One request moves on.
LEMMA CacheRequestStep ==
    ASSUME Cache!IInv, NEW r \in Visitor, NEW q \in Cache!Requests,
           v5' = [v5 EXCEPT ![r] = q],
           CacheHonest(q, v1[q.server]), v6' \in [Visitor -> BOOLEAN],
           \A x \in Visitor \ {r} : v6'[x] = v6[x],
           v6'[r] => q.step = "answered" /\ q.got \in Cache!Responses /\ q.got.ok,
           UNCHANGED <<v1, v2, v3, v4, v7>>
    PROVE  Cache!IInv'
<1>1. v5' \in [Visitor -> Cache!Requests] /\ v5'[r] = q /\ \A x \in Visitor \ {r} : v5'[x] = v5[x]
    BY CacheTypes
<1>2. \A x \in Visitor : CacheHonest(v5'[x], v1[v5'[x].server])
    BY <1>1, CacheHolds
<1>3. \A x \in Visitor : v6'[x] => /\ v5'[x].step = "answered"
                                         /\ v5'[x].got \in Cache!Responses /\ v5'[x].got.ok
    BY <1>1, CacheHolds
<1> QED
    BY <1>1, <1>2, <1>3, CacheTypes, CacheHolds, CacheTypesAre

LEMMA CacheInitially == ASSUME Cache!Bounds PROVE Cache!Init => Cache!IInv
<1> SUFFICES ASSUME Cache!Init PROVE Cache!IInv
    OBVIOUS
<1>1. Cache!Fresh \in Cache!Requests /\ Cache!Fresh.step = "new"
    BY DEF Cache!Bounds, Cache!Fresh, Cache!Requests
<1>2. v5 \in [Visitor -> Cache!Requests] /\ \A r \in Visitor : v5[r].step = "new"
    BY <1>1 DEF Cache!Init
<1>3. v4 \in [Cache!Keys -> Cache!Responses \cup {Cache!Nothing}] /\ \A k \in Cache!Keys : v4[k] = Cache!Nothing
    BY DEF Cache!Init
<1>4. v6 \in [Visitor -> BOOLEAN] /\ \A r \in Visitor : ~v6[r]
    BY DEF Cache!Init
<1>5. v3 \in [WebServer -> BOOLEAN] /\ v1 \in [WebServer -> BOOLEAN] /\ v2 \in BOOLEAN
    BY DEF Cache!Init
<1>6. \A r \in Visitor : v5[r] \in Cache!Requests
    BY <1>2
<1>7. v7 \in 0..RedisFaults
    BY DEF Cache!Init, Cache!Bounds
<1>8. Cache!TypeOK
    BY <1>3, <1>4, <1>5, <1>6, <1>7 DEF Cache!TypeOK, Cache!Requests
<1>9. Cache!SwitchHolds
    BY <1>2 DEF Cache!SwitchHolds
<1> QED
    BY <1>2, <1>3, <1>4, <1>8, <1>9 DEF Cache!IInv

LEMMA CacheConnectStep ==
    ASSUME Cache!Bounds, Cache!IInv, NEW s \in WebServer, Cache!Connect(s)
    PROVE  Cache!IInv'
<1>1. v3' \in [WebServer -> BOOLEAN]
    BY CacheTypes DEF Cache!Connect
<1>2. UNCHANGED <<v1, v2, v4, v5, v6, v7>>
    BY DEF Cache!Connect
<1> QED
    BY <1>1, <1>2, CacheTypes, CacheHolds, CacheTypesAre

LEMMA CacheDisconnectStep ==
    ASSUME Cache!Bounds, Cache!IInv, NEW s \in WebServer, Cache!Disconnect(s)
    PROVE  Cache!IInv'
<1>1. v3' \in [WebServer -> BOOLEAN]
    BY CacheTypes DEF Cache!Disconnect
<1>2. UNCHANGED <<v1, v2, v4, v5, v6, v7>>
    BY DEF Cache!Disconnect
<1> QED
    BY <1>1, <1>2, CacheTypes, CacheHolds, CacheTypesAre

LEMMA CacheRedisBreaksStep ==
    ASSUME Cache!Bounds, Cache!IInv, Cache!RedisBreaks
    PROVE  Cache!IInv'
<1>1. v2' \in BOOLEAN
    BY DEF Cache!RedisBreaks
<1>2. /\ v4' \in [Cache!Keys -> Cache!Responses \cup {Cache!Nothing}]
      /\ \A k \in Cache!Keys : v4'[k] # Cache!Nothing => v4'[k].ok /\ (v4'[k].mls => k[2])
  <2>1. CASE v4' = v4
      BY <2>1, CacheTypes, CacheHolds
  <2>2. CASE v4' = [k \in Cache!Keys |-> Cache!Nothing]
      BY <2>2
  <2> QED
      BY <2>1, <2>2 DEF Cache!RedisBreaks
<1>3. UNCHANGED <<v1, v3, v5, v6>>
    BY DEF Cache!RedisBreaks
<1>4. v7' \in 0..RedisFaults
    BY CacheTypes DEF Cache!RedisBreaks, Cache!Bounds
<1> QED
    BY <1>1, <1>2, <1>3, <1>4, CacheTypes, CacheHolds, CacheTypesAre

LEMMA CacheRedisReturnsStep ==
    ASSUME Cache!Bounds, Cache!IInv, Cache!RedisReturns
    PROVE  Cache!IInv'
<1>1. v2' \in BOOLEAN /\ UNCHANGED <<v1, v3, v4, v5, v6, v7>>
    BY DEF Cache!RedisReturns
<1> QED
    BY <1>1, CacheTypes, CacheHolds, CacheTypesAre

LEMMA CacheRestartStep ==
    ASSUME Cache!Bounds, Cache!IInv, NEW s \in WebServer, Cache!Restart(s)
    PROVE  Cache!IInv'
<1>1. /\ v1' \in [WebServer -> BOOLEAN] /\ \A z \in WebServer \ {s} : v1'[z] = v1[z]
      /\ v3' \in [WebServer -> BOOLEAN]
  <2>1. v1' = [v1 EXCEPT ![s] = ~v1[s]] /\ (~v1[s]) \in BOOLEAN
      BY DEF Cache!Restart
  <2>2. v3' = [v3 EXCEPT ![s] = FALSE]
      BY DEF Cache!Restart
  <2> QED
      BY <2>1, <2>2, CacheTypes
<1>2. UNCHANGED <<v2, v4>>
    BY DEF Cache!Restart
<1>3. v7' \in 0..RedisFaults
    BY CacheTypes DEF Cache!Restart, Cache!Bounds
<1>4. \A r \in Visitor : v6'[r] = (v6[r] /\ v5[r].server # s)
    BY DEF Cache!Restart
<1>5. v6' \in [Visitor -> BOOLEAN]
    BY DEF Cache!Restart
<1>6. ASSUME NEW r \in Visitor
      PROVE  /\ v5'[r] \in Cache!Requests
             /\ v5[r].server # s => v5'[r] = v5[r]
             /\ v5[r].server = s
                  => v5'[r].server = s /\ v5'[r].step \notin {"hit", "answered"}
  <2>1. v5[r] \in Cache!Requests
      BY CacheTypes
  <2>2. v5'[r] = IF v5[r].server = s /\ v5[r].step \in {"reading", "computing"}
                  THEN [v5[r] EXCEPT !.step = "lost"]
                  ELSE IF v5[r].server = s /\ v5[r].step \in {"hit", "answered"}
                  THEN [v5[r] EXCEPT !.step = "past"] ELSE v5[r]
      BY DEF Cache!Restart
  <2> QED
      BY <2>1, <2>2 DEF Cache!Requests
<1>7. v5' \in [Visitor -> Cache!Requests]
  <2>1. \E f : v5' = [r \in Visitor |-> f[r]]
    <3> DEFINE g(r) == IF v5[r].server = s /\ v5[r].step \in {"reading", "computing"}
                       THEN [v5[r] EXCEPT !.step = "lost"]
                       ELSE IF v5[r].server = s /\ v5[r].step \in {"hit", "answered"}
                       THEN [v5[r] EXCEPT !.step = "past"] ELSE v5[r]
    <3>1. v5' = [r \in Visitor |-> g(r)]
        BY DEF Cache!Restart
    <3> HIDE DEF g
    <3>2. v5' = [r \in Visitor |-> v5'[r]]
        BY <3>1
    <3> QED
        BY <3>2
  <2>2. v5' = [r \in Visitor |-> v5'[r]]
      BY <2>1
  <2> QED
      BY <1>6, <2>2
<1>8. \A r \in Visitor : CacheHonest(v5'[r], v1'[v5'[r].server])
  <2> TAKE r \in Visitor
  <2>1. CASE v5[r].server = s
      BY <1>6, <2>1 DEF CacheHonest
  <2>2. CASE v5[r].server # s
    <3>1. v5[r].server \in WebServer
        BY CacheTypes DEF Cache!Requests
    <3> QED
        BY <1>1, <1>6, <2>2, <3>1, CacheHolds
  <2> QED
      BY <2>1, <2>2
<1>9. ASSUME NEW r \in Visitor, v6'[r]
      PROVE  v5'[r].step = "answered" /\ v5'[r].got \in Cache!Responses /\ v5'[r].got.ok
  <2>1. v6[r] /\ v5'[r] = v5[r]
      BY <1>4, <1>6, <1>9
  <2> QED
      BY <2>1, CacheHolds
<1> QED
    BY <1>1, <1>2, <1>3, <1>5, <1>7, <1>8, <1>9, CacheTypes, CacheHolds, CacheTypesAre

LEMMA CacheExpireStep ==
    ASSUME Cache!Bounds, Cache!IInv, NEW k \in Cache!Keys, Cache!Expire(k)
    PROVE  Cache!IInv'
<1>1. v4' = [v4 EXCEPT ![k] = Cache!Nothing] /\ UNCHANGED <<v1, v2, v3, v5, v6, v7>>
    BY DEF Cache!Expire
<1>2. /\ v4' \in [Cache!Keys -> Cache!Responses \cup {Cache!Nothing}]
      /\ v4'[k] = Cache!Nothing
      /\ \A j \in Cache!Keys \ {k} : v4'[j] = v4[j]
    BY <1>1, CacheTypes
<1>3. \A j \in Cache!Keys : v4'[j] # Cache!Nothing => v4'[j].ok /\ (v4'[j].mls => j[2])
    BY <1>2, CacheHolds
<1> QED
    BY <1>1, <1>2, <1>3, CacheTypes, CacheHolds, CacheTypesAre

LEMMA CacheArriveStep ==
    ASSUME Cache!Bounds, Cache!IInv, NEW r \in Visitor, NEW s \in WebServer,
           NEW q \in Searched, Cache!Arrive(r, s, q)
    PROVE  Cache!IInv'
<1>1. PICK new : new = [step |-> IF v3[s] THEN "reading" ELSE "computing",
                        server |-> s, query |-> q, got |-> Cache!Nothing]
    OBVIOUS
<1>2. new \in Cache!Requests /\ new.step \in {"reading", "computing"}
    BY <1>1 DEF Cache!Requests
<1>3. v5' = [v5 EXCEPT ![r] = new] /\ UNCHANGED <<v1, v2, v3, v4, v6, v7>>
    BY <1>1 DEF Cache!Arrive
<1>4. ~v6[r]
    BY CacheHolds DEF Cache!Arrive
<1>5. CacheHonest(new, v1[new.server])
    BY <1>2 DEF CacheHonest
<1> QED
    BY <1>2, <1>3, <1>4, <1>5, CacheTypes, CacheRequestStep

\* A request whose step and answer change is still one.
CacheChanged(q, step, got) == [q EXCEPT !.step = step, !.got = got]

CacheSteps == {"reading", "computing", "hit", "answered"}

CacheAnswers == Cache!Responses \cup {Cache!Nothing}

LEMMA CacheMoves ==
    ASSUME NEW q \in Cache!Requests, NEW step \in CacheSteps, NEW got \in CacheAnswers
    PROVE  /\ CacheChanged(q, step, got) \in Cache!Requests
           /\ CacheChanged(q, step, got).step = step /\ CacheChanged(q, step, got).got = got
           /\ CacheChanged(q, step, got).server = q.server
<1>1. PICK j : j = [q EXCEPT !.step = step]
    OBVIOUS
<1>2. j \in Cache!Requests /\ j.step = step /\ j.server = q.server
    BY <1>1 DEF Cache!Requests, CacheSteps, CacheAnswers
<1>3. PICK k : k = [j EXCEPT !.got = got]
    OBVIOUS
<1>4. k \in Cache!Requests /\ k.step = step /\ k.got = got /\ k.server = q.server
    BY <1>2, <1>3 DEF Cache!Requests, CacheSteps, CacheAnswers
<1>5. k = CacheChanged(q, step, got)
    BY <1>1, <1>2, <1>3, <1>4 DEF Cache!Requests, CacheSteps, CacheAnswers, CacheChanged
<1> QED
    BY <1>4, <1>5

LEMMA CacheReadStep ==
    ASSUME Cache!Bounds, Cache!IInv, NEW r \in Visitor, Cache!Read(r)
    PROVE  Cache!IInv'
<1>1. PICK found : found = v4[Cache!SearchKey(r)]
    OBVIOUS
<1>2. v5[r] \in Cache!Requests /\ v5[r].server \in WebServer /\ v5[r].query \in Searched
    BY CacheTypes DEF Cache!Requests
<1>3. Cache!SearchKey(r) \in Cache!Keys /\ Cache!SearchKey(r)[2] = v1[v5[r].server]
    BY <1>2, CacheTypes DEF Cache!SearchKey, Cache!Keys
<1>4. found \in Cache!Responses \cup {Cache!Nothing}
      /\ (found # Cache!Nothing => found.ok /\ (found.mls => v1[v5[r].server]))
  <2>1. PICK k \in Cache!Keys : k = Cache!SearchKey(r)
      BY <1>3
  <2>2. found = v4[k] /\ k[2] = v1[v5[r].server]
      BY <1>1, <1>3, <2>1
  <2>3. found \in Cache!Responses \cup {Cache!Nothing}
      BY <2>2, CacheTypes
  <2> QED
      BY <2>2, <2>3, CacheHolds
<1>5. PICK step \in {"computing", "hit"} :
           step = IF found = Cache!Nothing THEN "computing" ELSE "hit"
    OBVIOUS
<1>6. PICK k \in Cache!Requests : /\ k = CacheChanged(v5[r], step, found)
                                  /\ k.step = step
                                  /\ k.got = found
                                  /\ k.server = v5[r].server
  <2>1. v5[r] \in Cache!Requests
      BY <1>2
  <2>2. found \in CacheAnswers
      BY <1>4 DEF CacheAnswers
  <2>3. step \in CacheSteps
      BY <1>5 DEF CacheSteps
  <2>4. PICK old \in Cache!Requests : old = v5[r]
      BY <2>1
  <2>5. /\ CacheChanged(old, step, found) \in Cache!Requests
        /\ CacheChanged(old, step, found).got = found
        /\ CacheChanged(old, step, found).step = step
        /\ CacheChanged(old, step, found).server = old.server
      BY <2>1, <2>2, <2>3, CacheMoves
  <2> QED
      BY <2>4, <2>5
<1>7. v5' = [v5 EXCEPT ![r] = k] /\ UNCHANGED <<v1, v2, v3, v4, v6, v7>>
    BY <1>1, <1>5, <1>6 DEF Cache!Read, CacheChanged
<1>8. CacheHonest(k, v1[k.server])
    BY <1>4, <1>5, <1>6 DEF CacheHonest
<1>9. ~v6[r]
    BY CacheHolds DEF Cache!Read
<1> QED
    BY <1>7, <1>8, <1>9, CacheTypes, CacheRequestStep

LEMMA CacheReadFailsStep ==
    ASSUME Cache!Bounds, Cache!IInv, NEW r \in Visitor, Cache!ReadFails(r)
    PROVE  Cache!IInv'
<1>1. PICK k : k = [v5[r] EXCEPT !.step = "computing"]
    OBVIOUS
<1>2. v5[r] \in Cache!Requests
    BY CacheTypes
<1>3. k \in Cache!Requests /\ k.step = "computing"
    BY <1>1, <1>2 DEF Cache!Requests
<1>4. v5' = [v5 EXCEPT ![r] = k] /\ UNCHANGED <<v1, v2, v3, v4, v6, v7>>
    BY <1>1 DEF Cache!ReadFails
<1>5. ~v6[r]
    BY CacheHolds DEF Cache!ReadFails
<1>6. CacheHonest(k, v1[k.server])
    BY <1>3 DEF CacheHonest
<1> QED
    BY <1>3, <1>4, <1>5, <1>6, CacheTypes, CacheRequestStep

LEMMA CacheAnswerStep ==
    ASSUME Cache!Bounds, Cache!IInv, NEW r \in Visitor, NEW response \in Cache!Responses,
           Cache!Answer(r, response)
    PROVE  Cache!IInv'
<1>1. v5[r] \in Cache!Requests /\ response \in Cache!Responses \cup {Cache!Nothing}
    BY CacheTypes
<1>2. PICK k \in Cache!Requests : /\ k = CacheChanged(v5[r], "answered", response)
                                  /\ k.step = "answered"
                                  /\ k.got = response
                                  /\ k.server = v5[r].server
  <2>1. "answered" \in CacheSteps
      BY DEF CacheSteps
  <2>2. v5[r] \in Cache!Requests
      BY <1>1
  <2>3. response \in CacheAnswers
      BY <1>1 DEF CacheAnswers
  <2>4. PICK old \in Cache!Requests : old = v5[r]
      BY <2>2
  <2>5. /\ CacheChanged(old, "answered", response) \in Cache!Requests
        /\ CacheChanged(old, "answered", response).got = response
        /\ CacheChanged(old, "answered", response).step = "answered"
        /\ CacheChanged(old, "answered", response).server = old.server
      BY <2>1, <2>2, <2>3, CacheMoves
  <2> QED
      BY <2>4, <2>5
<1>3. /\ v5' = [v5 EXCEPT ![r] = k] /\ UNCHANGED <<v1, v2, v3, v4, v7>>
      /\ v6' = [v6 EXCEPT ![r] = Cache!Stores(r, response)]
      /\ response.mls => v1[v5[r].server]
    BY <1>2 DEF Cache!Answer, CacheChanged
<1>4. Cache!Stores(r, response) \in BOOLEAN /\ (Cache!Stores(r, response) => response.ok)
    BY DEF Cache!Stores
<1>5. /\ v6' \in [Visitor -> BOOLEAN] /\ v6'[r] = Cache!Stores(r, response)
      /\ \A x \in Visitor \ {r} : v6'[x] = v6[x]
    BY <1>3, <1>4, CacheTypes
<1>6. CacheHonest(k, v1[k.server])
    BY <1>2, <1>3 DEF CacheHonest
<1>7. v6'[r] => k.step = "answered" /\ k.got \in Cache!Responses /\ k.got.ok
    BY <1>2, <1>4, <1>5
<1> QED
    BY <1>3, <1>5, <1>6, <1>7, CacheRequestStep

LEMMA CacheStoreStep ==
    ASSUME Cache!Bounds, Cache!IInv, NEW r \in Visitor, Cache!Store(r)
    PROVE  Cache!IInv'
<1>1. PICK k : k = Cache!SearchKey(r)
    OBVIOUS
<1>2. v5[r] \in Cache!Requests /\ v5[r].server \in WebServer /\ v5[r].query \in Searched
    BY CacheTypes DEF Cache!Requests
<1>3. k \in Cache!Keys /\ k[2] = v1[v5[r].server]
    BY <1>1, <1>2, CacheTypes DEF Cache!SearchKey, Cache!Keys
<1>4. /\ v6[r] /\ v4' = [v4 EXCEPT ![k] = v5[r].got]
      /\ v6' = [v6 EXCEPT ![r] = FALSE]
      /\ UNCHANGED <<v1, v2, v3, v5, v7>>
    BY <1>1 DEF Cache!Store
<1>5. v5[r].step = "answered" /\ v5[r].got \in Cache!Responses /\ v5[r].got.ok
      /\ (v5[r].got.mls => v1[v5[r].server])
    BY <1>4, CacheHolds DEF CacheHonest
<1>6. /\ v4' \in [Cache!Keys -> Cache!Responses \cup {Cache!Nothing}] /\ v4'[k] = v5[r].got
      /\ \A j \in Cache!Keys \ {k} : v4'[j] = v4[j]
    BY <1>3, <1>4, <1>5, CacheTypes
<1>7. \A j \in Cache!Keys : v4'[j] # Cache!Nothing => v4'[j].ok /\ (v4'[j].mls => j[2])
    BY <1>3, <1>5, <1>6, CacheHolds
<1>8. v6' \in [Visitor -> BOOLEAN] /\ \A x \in Visitor : v6'[x] => v6[x]
    BY <1>4, CacheTypes
<1> QED
    BY <1>4, <1>6, <1>7, <1>8, CacheTypes, CacheHolds, CacheTypesAre

LEMMA CacheStoreFailsStep ==
    ASSUME Cache!Bounds, Cache!IInv, NEW r \in Visitor, Cache!StoreFails(r)
    PROVE  Cache!IInv'
<1>1. v6' = [v6 EXCEPT ![r] = FALSE] /\ UNCHANGED <<v1, v2, v3, v4, v5, v7>>
    BY DEF Cache!StoreFails
<1>2. v6' \in [Visitor -> BOOLEAN] /\ \A x \in Visitor : v6'[x] => v6[x]
    BY <1>1, CacheTypes
<1> QED
    BY <1>1, <1>2, CacheTypes, CacheHolds, CacheTypesAre

LEMMA CacheInductive ==
    ASSUME Cache!Bounds
    PROVE  Cache!IInv /\ [Cache!Next]_(Cache!vars) => Cache!IInv'
<1> SUFFICES ASSUME Cache!IInv, [Cache!Next]_(Cache!vars) PROVE Cache!IInv'
    OBVIOUS
<1>1. CASE UNCHANGED Cache!vars
    BY <1>1 DEF Cache!vars, Cache!IInv, Cache!TypeOK, Cache!SwitchHolds
<1>2. CASE Cache!Next
  <2>1. ASSUME NEW s \in WebServer, Cache!Connect(s) \/ Cache!Disconnect(s) \/ Cache!Restart(s)
        PROVE  Cache!IInv'
      BY <2>1, CacheConnectStep, CacheDisconnectStep, CacheRestartStep
  <2>2. Cache!RedisBreaks \/ Cache!RedisReturns => Cache!IInv'
      BY CacheRedisBreaksStep, CacheRedisReturnsStep
  <2>3. ASSUME NEW k \in Cache!Keys, Cache!Expire(k) PROVE Cache!IInv'
      BY <2>3, CacheExpireStep
  <2>4. ASSUME NEW r \in Visitor, \/ \E s \in WebServer, q \in Searched : Cache!Arrive(r, s, q)
                                  \/ \E response \in Cache!Responses : Cache!Answer(r, response)
        PROVE  Cache!IInv'
      BY <2>4, CacheArriveStep, CacheAnswerStep
  <2>5. ASSUME NEW r \in Visitor,
               Cache!Read(r) \/ Cache!ReadFails(r) \/ Cache!Store(r) \/ Cache!StoreFails(r)
        PROVE  Cache!IInv'
      BY <2>5, CacheReadStep, CacheReadFailsStep, CacheStoreStep, CacheStoreFailsStep
  <2> QED
      BY <1>2, <2>1, <2>2, <2>3, <2>4, <2>5 DEF Cache!Next
<1> QED
    BY <1>1, <1>2

LEMMA CacheProperties == Cache!IInv => Cache!TypeOK /\ Cache!SwitchHolds
    BY DEF Cache!IInv

-----------------------------------------------------------------------------
\* Concurrent requests share one call of the token endpoint, whatever fails: at most
\* one is under way, no request shares a failure of before it asked, and no header is
\* made of anything but a token (OAuth2ClientCredentialsAuth).
THEOREM OneTokenCall == Spec => []SingleFlight
<1> DEFINE Inv == part = "token" => Token!IInv
<1>1. Init => Inv
    BY TokenInitially, AccountsAssumption DEF Init
<1>2. Inv /\ [Next]_vars => Inv'
    BY Chosen, TokenInductive, AccountsAssumption
<1>3. Inv => SingleFlight
    BY TokenProperties, AccountsAssumption DEF SingleFlight
<1> QED
    BY <1>1, <1>2, <1>3, PTL DEF Spec

\* A session is for the space where it was asked for, however sign-up, sign-in,
\* refreshes, links of Google accounts, password resets and the deletion of portals
\* interleave; but for the owner's, and those of a portal that is gone (auth.ts).
THEOREM SessionsStayInScope == Spec => []SessionInScope
<1> DEFINE Inv == part = "users" => People!IInv
<1>1. Init => Inv
    BY PeopleInitially, PortalsAssumption DEF Init
<1>2. Inv /\ [Next]_vars => Inv'
    BY Chosen, PeopleInductive, PortalsAssumption
<1>3. Inv => SessionInScope
    BY PeopleProperties DEF SessionInScope
<1> QED
    BY <1>1, <1>2, <1>3, PTL DEF Spec

\* No public page shows a listing that is inactive, not to be displayed or an MLS's
\* while the deployment withholds those, although search documents are older than what
\* forbids it (buildPublicListingWhere); no page of a portal shows one once the portal
\* is not active, and none but the lookup by domain, which does not ask, while it is
\* suspended (sendPublicPortal, GET /domain/:hostname); and a server with the display
\* off answers nothing of a server with it on from a shared cache (cacheSearch).
THEOREM HiddenStaysHidden == Spec => []NothingHiddenIsShown
<1> DEFINE Inv == /\ part = "catalog" => Homes!IInv
                  /\ part = "cache" => Cache!IInv
<1>1. Init => Inv
    BY HomesInitially, CacheInitially, PublicAssumption DEF Init
<1>2. Inv /\ [Next]_vars => Inv'
    BY Chosen, HomesInductive, CacheInductive, PublicAssumption
<1>3. Inv => NothingHiddenIsShown
    BY HomesPromised, CacheProperties, PublicAssumption DEF NothingHiddenIsShown
<1> QED
    BY <1>1, <1>2, <1>3, PTL DEF Spec

\* While no property has two public listings both engines answer a query with the same
\* properties and listings; an answer's listings match what was asked for; and a
\* collection compiles to what its predicate says of a row, a rule that leaves nulls
\* out without a bound counting as none, which lets in more than the evaluation does
\* (searchProperties, listingWhere, compileCollectionPredicate,
\* evaluateCollectionPredicate).
THEOREM AnswersMean == Spec => []AnswersMeanTheQuery
<1> DEFINE Inv == part = "catalog" => Homes!IInv
<1>1. Init => Inv
    BY HomesInitially, PublicAssumption DEF Init
<1>2. Inv /\ [Next]_vars => Inv'
    BY Chosen, HomesInductive, PublicAssumption
<1>3. Inv => AnswersMeanTheQuery
    BY HomesPromised, PublicAssumption DEF AnswersMeanTheQuery
<1> QED
    BY <1>1, <1>2, <1>3, PTL DEF Spec
=============================================================================
