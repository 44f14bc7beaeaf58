-------------------------- MODULE Background_proofs -------------------------
(***************************************************************************)
(* Proofs about what the API does by itself: the instances of MCBackground, *)
(* and what MCBackground promises of them, for any constants its assumption *)
(* allows.                                                                 *)
(***************************************************************************)
EXTENDS MCBackground, LeadAction_proofs, FiniteSetTheorems, SequenceTheorems, TLAPS

\* A set changes by one element.
LEMMA OneOff ==
    ASSUME NEW S, NEW T, IsFiniteSet(S), NEW c, S \ {c} = T \ {c}
    PROVE  /\ IsFiniteSet(T) /\ Cardinality(S) \in Nat /\ Cardinality(T) \in Nat
           /\ c \in S /\ c \in T => Cardinality(T) = Cardinality(S)
           /\ c \notin S /\ c \notin T => Cardinality(T) = Cardinality(S)
           /\ c \in S /\ c \notin T => Cardinality(T) = Cardinality(S) - 1
           /\ c \notin S /\ c \in T => Cardinality(T) = Cardinality(S) + 1
<1> DEFINE R == S \ {c}
<1>1. IsFiniteSet(R) /\ Cardinality(R) \in Nat /\ Cardinality(S) \in Nat
    BY FS_Subset, FS_CardinalityType
<1>2. IsFiniteSet(R \cup {c}) /\ Cardinality(R \cup {c}) = Cardinality(R) + 1
    BY <1>1, FS_AddElement
<1>3. /\ c \in S => S = R \cup {c}
      /\ c \notin S => S = R
      /\ c \in T => T = R \cup {c}
      /\ c \notin T => T = R
    OBVIOUS
<1> HIDE DEF R
<1>4. /\ c \in S => Cardinality(S) = Cardinality(R) + 1
      /\ c \notin S => Cardinality(S) = Cardinality(R)
    BY <1>2, <1>3
<1>5. /\ c \in T => IsFiniteSet(T) /\ Cardinality(T) = Cardinality(R) + 1
      /\ c \notin T => IsFiniteSet(T) /\ Cardinality(T) = Cardinality(R)
    BY <1>1, <1>2, <1>3
<1> QED
    BY <1>1, <1>4, <1>5

-----------------------------------------------------------------------------
(* The synchronisation of a transaction with its mails.                    *)

\* The finite sets of the instance are those of FiniteSets.
LEMMA SyncSets ==
    \A S : /\ Sync!IsFiniteSet(S) <=> IsFiniteSet(S)
          /\ Sync!Cardinality(S) = Cardinality(S)
    BY DEF Sync!IsFiniteSet, IsFiniteSet, Sync!Cardinality, Cardinality

LEMMA SyncInitially == ASSUME Sync!Bounds PROVE Sync!Init => Sync!IInv
<1> SUFFICES ASSUME Sync!Init PROVE Sync!IInv
    OBVIOUS
<1>1. Sync!Asleep \in Sync!Process /\ Sync!Asleep.pc = "idle"
    BY DEF Sync!Asleep, Sync!Process
<1>2. sync \in [Run -> Sync!Process] /\ \A r \in Run : sync[r].pc = "idle"
    BY <1>1 DEF Sync!Init
<1>3. Sync!TypeOK
    BY <1>2 DEF Sync!Init, Sync!TypeOK, Sync!OnMail
<1>4. \A m \in Message : Sync!Adding(m) = {} /\ people[m] = 0
    BY <1>2 DEF Sync!Adding, Sync!At, Sync!Init
<1>5. Cardinality({}) = 0 /\ Cardinality(Run) \in Nat
    BY FS_EmptySet, FS_CardinalityType, SyncSets DEF Sync!Bounds
<1>6. ASSUME NEW m \in Message
      PROVE  people[m] + Cardinality(Sync!Adding(m)) <= Cardinality(Run)
  <2>1. Cardinality(Sync!Adding(m)) = 0 /\ people[m] = 0
      BY <1>4, <1>5
  <2> QED
      BY <1>5, <2>1
<1> QED
    BY <1>3, <1>6, SyncSets DEF Sync!IInv

\* The runs that are about to add a participant, when only run r moves.
LEMMA SyncAddingIs ==
    ASSUME Sync!Bounds, NEW r, NEW m, \A q \in Run \ {r} : sync'[q] = sync[q]
    PROVE  /\ Cardinality(Sync!Adding(m)) \in Nat /\ Cardinality(Sync!Adding(m)') \in Nat
           /\ Cardinality(Run) \in Nat
           /\ Cardinality(Sync!Adding(m)') <= Cardinality(Run)
           /\ r \in Sync!Adding(m) /\ r \in Sync!Adding(m)'
                => Cardinality(Sync!Adding(m)') = Cardinality(Sync!Adding(m))
           /\ r \notin Sync!Adding(m) /\ r \notin Sync!Adding(m)'
                => Cardinality(Sync!Adding(m)') = Cardinality(Sync!Adding(m))
           /\ r \in Sync!Adding(m) /\ r \notin Sync!Adding(m)'
                => Cardinality(Sync!Adding(m)') = Cardinality(Sync!Adding(m)) - 1
           /\ r \notin Sync!Adding(m) /\ r \in Sync!Adding(m)'
                => Cardinality(Sync!Adding(m)') = Cardinality(Sync!Adding(m)) + 1
<1>1. Sync!Adding(m) \ {r} = Sync!Adding(m)' \ {r}
    BY DEF Sync!Adding, Sync!At
<1>2. IsFiniteSet(Sync!Adding(m)) /\ Sync!Adding(m)' \in SUBSET Run
    BY FS_Subset, SyncSets DEF Sync!Adding, Sync!Bounds
<1>3. Cardinality(Run) \in Nat /\ Cardinality(Sync!Adding(m)') <= Cardinality(Run)
    BY <1>2, FS_Subset, FS_CardinalityType, SyncSets DEF Sync!Bounds
<1> QED
    BY <1>1, <1>2, <1>3, OneOff

LEMMA SyncRowsAre == ASSUME Sync!IInv
    PROVE  /\ alive \in BOOLEAN /\ known \subseteq Sync!Attachment
           /\ mail \in [Message -> {"NONE", "PENDING", "CONFIRMED", "DISMISSED"}]
           /\ people \in [Message -> Nat] /\ syncFaults \in Nat
           /\ run \in [Run -> {"NONE", "RUNNING", "COMPLETED", "FAILED"}]
           /\ sync \in [Run -> Sync!Process]
           /\ \A r \in Run : sync[r].pc \in Sync!OnMail => sync[r].on \in Message
    BY SyncSets DEF Sync!IInv, Sync!TypeOK

\* The rows have their types.
SyncRows ==
    /\ alive \in BOOLEAN /\ known \subseteq Sync!Attachment
    /\ mail \in [Message -> {"NONE", "PENDING", "CONFIRMED", "DISMISSED"}]
    /\ syncFaults \in Nat
    /\ run \in [Run -> {"NONE", "RUNNING", "COMPLETED", "FAILED"}]

\* A step of run r: it turns to another mail or step of it, having found no participant
\* if it is to add one, or having added it.
LEMMA SyncRunStep ==
    ASSUME Sync!Bounds, Sync!IInv, NEW r \in Run, NEW q \in Sync!Process,
           sync' = [sync EXCEPT ![r] = q],
           SyncRows', q.pc \in Sync!OnMail => q.on \in Message,
           \/ /\ people' = people
              /\ q.pc = "person" => people[q.on] = 0
           \/ \E m \in Message : /\ Sync!At(r, "person", m) /\ q.pc # "person"
                                 /\ people' = [people EXCEPT ![m] = people[m] + 1]
    PROVE  Sync!IInv'
<1>1. /\ sync' \in [Run -> Sync!Process] /\ sync'[r] = q
      /\ \A p \in Run \ {r} : sync'[p] = sync[p]
    BY SyncRowsAre
<1>2. people' \in [Message -> Nat]
    BY SyncRowsAre
<1>3. \A p \in Run : sync'[p].pc \in Sync!OnMail => sync'[p].on \in Message
    BY <1>1, SyncRowsAre
<1>4. ASSUME NEW m \in Message
      PROVE  people'[m] + Cardinality(Sync!Adding(m)') <= Cardinality(Run)
  <2>1. people[m] \in Nat /\ people[m] + Cardinality(Sync!Adding(m)) <= Cardinality(Run)
      BY SyncRowsAre, SyncSets DEF Sync!IInv
  <2>2. /\ Cardinality(Sync!Adding(m)) \in Nat /\ Cardinality(Sync!Adding(m)') \in Nat
        /\ Cardinality(Run) \in Nat /\ Cardinality(Sync!Adding(m)') <= Cardinality(Run)
      BY <1>1, SyncAddingIs
  <2>3. CASE people' = people /\ (q.pc = "person" => people[q.on] = 0)
    <3>1. people[m] = 0 \/ r \notin Sync!Adding(m)'
        BY <1>1, <2>3 DEF Sync!Adding, Sync!At
    <3>2. people[m] = 0 \/ Cardinality(Sync!Adding(m)') <= Cardinality(Sync!Adding(m))
        BY <1>1, <2>2, <3>1, SyncAddingIs
    <3> QED
        BY <2>1, <2>2, <2>3, <3>2
  <2>4. ASSUME NEW n \in Message, Sync!At(r, "person", n), q.pc # "person",
               people' = [people EXCEPT ![n] = people[n] + 1]
        PROVE  people'[m] + Cardinality(Sync!Adding(m)') <= Cardinality(Run)
    <3>1. r \notin Sync!Adding(m)'
        BY <1>1, <2>4 DEF Sync!Adding, Sync!At
    <3>2. CASE m = n
      <4>1. r \in Sync!Adding(m)
          BY <2>4, <3>2 DEF Sync!Adding
      <4>2. Cardinality(Sync!Adding(m)') = Cardinality(Sync!Adding(m)) - 1
          BY <1>1, <3>1, <4>1, SyncAddingIs
      <4>3. people'[m] = people[m] + 1
          BY <2>4, <3>2, SyncRowsAre
      <4> QED
          BY <2>1, <2>2, <4>2, <4>3
    <3>3. CASE m # n
      <4>1. people'[m] = people[m]
          BY <2>4, <3>3, SyncRowsAre
      <4>2. Cardinality(Sync!Adding(m)') <= Cardinality(Sync!Adding(m))
          BY <1>1, <2>2, <3>1, SyncAddingIs
      <4> QED
          BY <2>1, <2>2, <4>1, <4>2
    <3> QED
        BY <3>2, <3>3
  <2> QED
      BY <2>3, <2>4
<1> QED
    BY <1>1, <1>2, <1>3, <1>4, SyncSets DEF Sync!IInv, Sync!TypeOK, SyncRows

LEMMA SyncAsleepIs ==
    /\ Sync!Asleep \in Sync!Process /\ Sync!Asleep.pc \notin Sync!OnMail
    /\ Sync!Asleep.pc # "person"
    BY DEF Sync!Asleep, Sync!Process, Sync!OnMail

\* A run that writes nothing but its step.
LEMMA SyncMoved == ASSUME Sync!IInv, NEW r \in Run,
                      NEW pc \in {"idle", "search", "next", "fail"} \cup Sync!OnMail,
                      sync' = [sync EXCEPT ![r].pc = pc]
    PROVE  \E q \in Sync!Process :
             q.pc = pc /\ q.on = sync[r].on /\ sync' = [sync EXCEPT ![r] = q]
<1> DEFINE q == [sync[r] EXCEPT !.pc = pc]
<1>1. q \in Sync!Process /\ q.pc = pc /\ q.on = sync[r].on
    BY SyncRowsAre DEF Sync!Process
<1>2. sync' = [sync EXCEPT ![r] = q]
    OBVIOUS
<1> QED
    BY <1>1, <1>2

LEMMA SyncTurned == ASSUME Sync!IInv, NEW r \in Run, Sync!Onward(r)
    PROVE  \E q \in Sync!Process : q.pc = "next" /\ sync' = [sync EXCEPT ![r] = q]
<1> DEFINE q1 == [sync[r] EXCEPT !.pc = "next"]
           q == [q1 EXCEPT !.on = Sync!NoMail]
<1>1. q1 \in Sync!Process /\ q1.pc = "next"
    BY SyncRowsAre DEF Sync!Process
<1>2. q \in Sync!Process /\ q.pc = "next"
    BY <1>1 DEF Sync!Process
<1>3. sync' = [sync EXCEPT ![r] = q]
    BY SyncRowsAre DEF Sync!Onward, Sync!Process
<1> QED
    BY <1>2, <1>3

LEMMA SyncNamesAre ==
    /\ {"idle", "search", "next", "fail"} \cap Sync!OnMail = {}
    /\ {"classify", "attach", "people", "person"} \subseteq Sync!OnMail
    BY DEF Sync!OnMail

LEMMA SyncStartStep ==
    ASSUME Sync!Bounds, Sync!IInv, NEW r \in Run, Sync!StartSync(r)
    PROVE  Sync!IInv'
<1>1. PICK q \in Sync!Process : q.pc = "search" /\ sync' = [sync EXCEPT ![r] = q]
    BY SyncMoved DEF Sync!StartSync, Sync!Step
<1>2. SyncRows' /\ people' = people
    BY SyncRowsAre DEF Sync!StartSync, SyncRows
<1> QED
    BY <1>1, <1>2, SyncRunStep, SyncNamesAre

LEMMA SyncSearchStep ==
    ASSUME Sync!Bounds, Sync!IInv, NEW r \in Run, Sync!Search(r)
    PROVE  Sync!IInv'
<1>1. SyncRows' /\ people' = people
    BY SyncRowsAre DEF Sync!Search, SyncRows, Sync!rowVars
<1>2. CASE Sync!Step(r, "fail")
  <2>1. PICK q \in Sync!Process : q.pc = "fail" /\ sync' = [sync EXCEPT ![r] = q]
      BY <1>2, SyncMoved DEF Sync!Step
  <2> QED
      BY <1>1, <2>1, SyncRunStep, SyncNamesAre
<1>3. ASSUME NEW found \in SUBSET Message,
             sync' = [sync EXCEPT ![r] = [pc |-> "next", on |-> Sync!NoMail, todo |-> found]]
      PROVE  Sync!IInv'
  <2> DEFINE q == [pc |-> "next", on |-> Sync!NoMail, todo |-> found]
  <2>1. q \in Sync!Process /\ q.pc = "next"
      BY DEF Sync!Process
  <2>2. sync' = [sync EXCEPT ![r] = q]
      BY <1>3
  <2> HIDE DEF q
  <2> QED
      BY <1>1, <2>1, <2>2, SyncRunStep, SyncNamesAre
<1> QED
    BY <1>2, <1>3 DEF Sync!Search

LEMMA SyncTakeStep ==
    ASSUME Sync!Bounds, Sync!IInv, NEW r \in Run, NEW m \in Message, Sync!TakeMail(r, m)
    PROVE  Sync!IInv'
<1> DEFINE rest == sync[r].todo \ {m}
           q1 == [sync[r] EXCEPT !.todo = rest]
           q2 == [pc |-> "classify", on |-> m, todo |-> rest]
           q == IF mail[m] = "DISMISSED" THEN q1 ELSE q2
<1>1. SyncRows' /\ people' = people /\ sync[r].pc = "next" /\ sync' = [sync EXCEPT ![r] = q]
    BY SyncRowsAre DEF Sync!TakeMail, SyncRows, Sync!rowVars
<1>2. rest \in SUBSET Message
    BY SyncRowsAre DEF Sync!Process
<1> HIDE DEF rest
<1>3. q1 \in Sync!Process /\ q1.pc = "next"
    BY <1>1, <1>2, SyncRowsAre DEF Sync!Process
<1>4. q2 \in Sync!Process /\ q2.pc = "classify" /\ q2.on = m
    BY <1>2, SyncNamesAre DEF Sync!Process
<1> HIDE DEF q1, q2
<1>5. q \in Sync!Process /\ q.pc # "person" /\ (q.pc \in Sync!OnMail => q.on \in Message)
    BY <1>3, <1>4, SyncNamesAre
<1> HIDE DEF q
<1> QED
    BY <1>1, <1>5, SyncRunStep

LEMMA SyncStoreStep ==
    ASSUME Sync!Bounds, Sync!IInv, NEW r \in Run, NEW m \in Message, Sync!StoreMail(r, m)
    PROVE  Sync!IInv'
<1>1. PICK q \in Sync!Process :
           q.pc = "attach" /\ q.on = sync[r].on /\ sync' = [sync EXCEPT ![r] = q]
    BY SyncMoved, SyncNamesAre DEF Sync!StoreMail, Sync!Step
<1>2. SyncRows' /\ people' = people /\ sync[r].on = m
    BY SyncRowsAre DEF Sync!StoreMail, SyncRows, Sync!At
<1> QED
    BY <1>1, <1>2, SyncRunStep, SyncNamesAre

LEMMA SyncAttachStep ==
    ASSUME Sync!Bounds, Sync!IInv, NEW r \in Run, NEW m \in Message,
           Sync!StoreAttachment(r, m)
    PROVE  Sync!IInv'
<1>1. people' = people /\ sync[r].on = m /\ Sync!At(r, "attach", m)
      /\ UNCHANGED <<alive, mail, run, syncFaults>>
    BY DEF Sync!StoreAttachment, Sync!At
<1>2. ASSUME NEW i \in 1..PerMessage, known' = known \cup {<<m, i>>}, sync' = sync
      PROVE  Sync!IInv'
  <2>1. <<m, i>> \in Sync!Attachment
      BY DEF Sync!Attachment
  <2>2. Sync!TypeOK'
      BY <1>1, <1>2, <2>1, SyncSets DEF Sync!IInv, Sync!TypeOK
  <2>3. \A n \in Message : Sync!Adding(n)' = Sync!Adding(n)
      BY <1>2 DEF Sync!Adding, Sync!At
  <2> QED
      BY <1>1, <2>2, <2>3, SyncSets DEF Sync!IInv
<1>3. CASE Sync!Step(r, "people") /\ UNCHANGED known
  <2>1. PICK q \in Sync!Process :
             q.pc = "people" /\ q.on = sync[r].on /\ sync' = [sync EXCEPT ![r] = q]
      BY <1>3, SyncMoved, SyncNamesAre DEF Sync!Step
  <2>2. SyncRows'
      BY <1>1, <1>3, SyncRowsAre DEF SyncRows
  <2> QED
      BY <1>1, <2>1, <2>2, SyncRunStep, SyncNamesAre
<1> QED
    BY <1>2, <1>3 DEF Sync!StoreAttachment

LEMMA SyncFindStep ==
    ASSUME Sync!Bounds, Sync!IInv, NEW r \in Run, NEW m \in Message, Sync!FindPerson(r, m)
    PROVE  Sync!IInv'
<1>1. SyncRows' /\ people' = people /\ sync[r].on = m
    BY SyncRowsAre DEF Sync!FindPerson, SyncRows, Sync!rowVars, Sync!At
<1>2. CASE people[m] > 0
  <2>1. PICK q \in Sync!Process : q.pc = "next" /\ sync' = [sync EXCEPT ![r] = q]
      BY <1>2, SyncTurned DEF Sync!FindPerson
  <2> QED
      BY <1>1, <2>1, SyncRunStep, SyncNamesAre
<1>3. CASE ~(people[m] > 0)
  <2>1. PICK q \in Sync!Process :
             q.pc = "person" /\ q.on = sync[r].on /\ sync' = [sync EXCEPT ![r] = q]
      BY <1>3, SyncMoved, SyncNamesAre DEF Sync!FindPerson, Sync!Step
  <2>2. people[m] = 0
      BY <1>3, SyncRowsAre
  <2> QED
      BY <1>1, <2>1, <2>2, SyncRunStep
<1> QED
    BY <1>2, <1>3

LEMMA SyncAddStep ==
    ASSUME Sync!Bounds, Sync!IInv, NEW r \in Run, NEW m \in Message, Sync!AddPerson(r, m)
    PROVE  Sync!IInv'
<1>1. /\ SyncRows'
      /\ people' = [people EXCEPT ![m] = people[m] + 1]
      /\ Sync!At(r, "person", m)
    BY SyncRowsAre DEF Sync!AddPerson, SyncRows
<1>2. PICK q \in Sync!Process : q.pc = "next" /\ sync' = [sync EXCEPT ![r] = q]
    BY SyncTurned DEF Sync!AddPerson
<1> QED
    BY <1>1, <1>2, SyncRunStep, SyncNamesAre

LEMMA SyncFailsStep ==
    ASSUME Sync!Bounds, Sync!IInv, NEW r \in Run, NEW m \in Message, Sync!MailFails(r, m)
    PROVE  Sync!IInv'
<1>1. SyncRows' /\ people' = people
    BY SyncRowsAre DEF Sync!MailFails, SyncRows, Sync!rowVars
<1>2. PICK q \in Sync!Process : q.pc = "next" /\ sync' = [sync EXCEPT ![r] = q]
    BY SyncTurned DEF Sync!MailFails
<1> QED
    BY <1>1, <1>2, SyncRunStep, SyncNamesAre

LEMMA SyncEndStep ==
    ASSUME Sync!Bounds, Sync!IInv, NEW r \in Run, Sync!Complete(r) \/ Sync!RecordFailure(r)
    PROVE  Sync!IInv'
<1>1. SyncRows' /\ people' = people /\ sync' = [sync EXCEPT ![r] = Sync!Asleep]
    BY SyncRowsAre DEF Sync!Complete, Sync!RecordFailure, SyncRows
<1> QED
    BY <1>1, SyncAsleepIs, SyncRunStep

LEMMA SyncWriteFailsStep ==
    ASSUME Sync!Bounds, Sync!IInv, NEW r \in Run, Sync!RunWriteFails(r)
    PROVE  Sync!IInv'
<1>1. SyncRows' /\ people' = people
    BY SyncRowsAre DEF Sync!RunWriteFails, SyncRows, Sync!rowVars
<1>2. CASE Sync!Step(r, "fail")
  <2>1. PICK q \in Sync!Process : q.pc = "fail" /\ sync' = [sync EXCEPT ![r] = q]
      BY <1>2, SyncMoved DEF Sync!Step
  <2> QED
      BY <1>1, <2>1, SyncRunStep, SyncNamesAre
<1>3. CASE sync' = [sync EXCEPT ![r] = Sync!Asleep]
    BY <1>1, <1>3, SyncAsleepIs, SyncRunStep
<1> QED
    BY <1>2, <1>3 DEF Sync!RunWriteFails

LEMMA SyncAgentStep ==
    ASSUME Sync!Bounds, Sync!IInv, NEW m \in Message, Sync!Confirm(m) \/ Sync!Dismiss(m)
    PROVE  Sync!IInv'
<1>1. /\ mail' \in [Message -> {"NONE", "PENDING", "CONFIRMED", "DISMISSED"}]
      /\ UNCHANGED <<alive, known, people, run, sync, syncFaults>>
    BY SyncRowsAre DEF Sync!Confirm, Sync!Dismiss
<1>2. \A n \in Message : Sync!Adding(n)' = Sync!Adding(n)
    BY <1>1 DEF Sync!Adding, Sync!At
<1> QED
    BY <1>1, <1>2, SyncSets DEF Sync!IInv, Sync!TypeOK

LEMMA SyncDeleteStep ==
    ASSUME Sync!Bounds, Sync!IInv, Sync!DeleteTransaction
    PROVE  Sync!IInv'
<1>1. /\ alive' = FALSE /\ known' = {} /\ UNCHANGED <<sync, syncFaults>>
      /\ people' = [m \in Message |-> 0] /\ mail' = [m \in Message |-> "NONE"]
      /\ run' = [r \in Run |-> "NONE"]
    BY DEF Sync!DeleteTransaction
<1>2. Sync!TypeOK'
    BY <1>1, SyncSets DEF Sync!IInv, Sync!TypeOK
<1>3. ASSUME NEW m \in Message
      PROVE  people'[m] + Cardinality(Sync!Adding(m)') <= Cardinality(Run)
  <2>1. Cardinality(Sync!Adding(m)') \in Nat /\ Cardinality(Run) \in Nat
        /\ Cardinality(Sync!Adding(m)') <= Cardinality(Run)
      BY <1>1, SyncAddingIs
  <2> QED
      BY <1>1, <2>1
<1> QED
    BY <1>2, <1>3, SyncSets DEF Sync!IInv

LEMMA SyncCrashStep == ASSUME Sync!Bounds, Sync!IInv, Sync!Crash PROVE Sync!IInv'
<1>1. /\ syncFaults' \in Nat /\ UNCHANGED <<alive, mail, known, people, run>>
      /\ sync' = [r \in Run |-> Sync!Asleep]
    BY SyncRowsAre DEF Sync!Crash, Sync!rowVars
<1>2. Sync!TypeOK'
    BY <1>1, SyncAsleepIs, SyncSets DEF Sync!IInv, Sync!TypeOK
<1>3. \A m \in Message : Sync!Adding(m)' = {}
    BY <1>1, SyncAsleepIs DEF Sync!Adding, Sync!At
<1>4. ASSUME NEW m \in Message
      PROVE  people'[m] + Cardinality(Sync!Adding(m)') <= Cardinality(Run)
  <2>1. people[m] \in Nat /\ people[m] + Cardinality(Sync!Adding(m)) <= Cardinality(Run)
      BY SyncRowsAre, SyncSets DEF Sync!IInv
  <2>2. /\ Cardinality({}) = 0
        /\ Cardinality(Run) \in Nat
        /\ Cardinality(Sync!Adding(m)) \in Nat
      BY FS_EmptySet, FS_Subset, FS_CardinalityType, SyncSets DEF Sync!Adding, Sync!Bounds
  <2>3. people'[m] = people[m] /\ Cardinality(Sync!Adding(m)') = 0
      BY <1>1, <1>3, <2>2
  <2>4. people[m] + 0 <= Cardinality(Run)
      BY <2>1, <2>2
  <2> QED
      BY <2>3, <2>4
<1> QED
    BY <1>2, <1>4, SyncSets DEF Sync!IInv

LEMMA SyncInductive ==
    ASSUME Sync!Bounds
    PROVE  Sync!IInv /\ [Sync!Next]_(Sync!vars) => Sync!IInv'
<1> SUFFICES ASSUME Sync!IInv, [Sync!Next]_(Sync!vars) PROVE Sync!IInv'
    OBVIOUS
<1>1. CASE UNCHANGED Sync!vars
    BY <1>1, SyncSets DEF Sync!vars, Sync!IInv, Sync!TypeOK, Sync!Adding, Sync!At
<1>2. ASSUME NEW r \in Run, Sync!StartSync(r) \/ Sync!Work(r) \/ Sync!RunWriteFails(r)
      PROVE  Sync!IInv'
    BY <1>2, SyncStartStep, SyncSearchStep, SyncEndStep, SyncWriteFailsStep, SyncTakeStep,
       SyncStoreStep, SyncAttachStep,
       SyncFindStep, SyncAddStep, SyncFailsStep DEF Sync!Work, Sync!WorkMail
<1> QED
    BY <1>1, <1>2, SyncAgentStep, SyncDeleteStep, SyncCrashStep DEF Sync!Next

LEMMA SyncProperties ==
    ASSUME Sync!Bounds
    PROVE  Sync!IInv => Sync!TypeOK /\ Sync!ParticipantsBounded
<1> SUFFICES ASSUME Sync!IInv, NEW m \in Message PROVE people[m] <= Cardinality(Run)
    BY SyncSets DEF Sync!IInv, Sync!ParticipantsBounded
<1>1. Cardinality(Sync!Adding(m)) \in Nat /\ Cardinality(Run) \in Nat
    BY FS_Subset, FS_CardinalityType, SyncSets DEF Sync!Adding, Sync!Bounds
<1> QED
    BY <1>1, SyncRowsAre, SyncSets DEF Sync!IInv

\* Whatever moves a run leaves a dismissed message dismissed.
LEMMA SyncStays ==
    ASSUME Sync!IInv, [Sync!Next]_(Sync!vars), sync' # sync, NEW m \in Message,
           mail[m] = "DISMISSED"
    PROVE  mail'[m] = "DISMISSED"
<1>1. ASSUME NEW r \in Run, \/ Sync!StartSync(r) \/ Sync!RunWriteFails(r) \/ Sync!Search(r)
             \/ Sync!Complete(r) \/ Sync!RecordFailure(r)
      PROVE  mail' = mail
    BY <1>1 DEF Sync!StartSync, Sync!RunWriteFails, Sync!Search, Sync!Complete,
       Sync!RecordFailure, Sync!rowVars
<1>2. ASSUME NEW r \in Run, NEW n \in Message,
             \/ Sync!TakeMail(r, n) \/ Sync!StoreAttachment(r, n) \/ Sync!FindPerson(r, n)
             \/ Sync!AddPerson(r, n) \/ Sync!MailFails(r, n)
      PROVE  mail' = mail
    BY <1>2 DEF Sync!TakeMail, Sync!StoreAttachment, Sync!FindPerson, Sync!AddPerson,
       Sync!MailFails, Sync!rowVars
<1>3. ASSUME NEW r \in Run, NEW n \in Message, Sync!StoreMail(r, n)
      PROVE  mail'[m] = "DISMISSED"
    BY <1>3, SyncRowsAre DEF Sync!StoreMail
<1>4. Sync!Crash => mail' = mail
    BY DEF Sync!Crash, Sync!rowVars
<1>5. \/ \E n \in Message : Sync!Confirm(n) \/ Sync!Dismiss(n)
      \/ Sync!DeleteTransaction \/ UNCHANGED Sync!vars
      => sync' = sync
    BY DEF Sync!Confirm, Sync!Dismiss, Sync!DeleteTransaction, Sync!vars
<1> QED
    BY <1>1, <1>2, <1>3, <1>4, <1>5 DEF Sync!Next, Sync!Work, Sync!WorkMail

-----------------------------------------------------------------------------
(* Scans for transactions at risk.                                         *)

\* The finite sets of the instance are those of FiniteSets.
LEMMA RiskSets ==
    \A S : /\ Risk!IsFiniteSet(S) <=> IsFiniteSet(S)
          /\ Risk!Cardinality(S) = Cardinality(S)
    BY DEF Risk!IsFiniteSet, IsFiniteSet, Risk!Cardinality, Cardinality

RiskScanType == [pc: {"idle", "fetched", "analyse"}, todo: Seq(Transaction),
             judged: [Transaction -> Risk!Severity], active: SUBSET Transaction,
             left: 0..MaxItems]

LEMMA RiskIdleIs == ASSUME Risk!Bounds PROVE
    Risk!Idle \in RiskScanType /\ Risk!Idle.pc = "idle" /\ Risk!Injective(Risk!Idle.todo)
<1>1. Risk!Calmly \in [Transaction -> Risk!Severity] /\ 0 \in 0..MaxItems
    BY RiskSets DEF Risk!Calmly, Risk!Severity, Risk!Bounds
<1> QED
    BY <1>1 DEF Risk!Idle, RiskScanType, Risk!Injective

LEMMA RiskInitially == ASSUME Risk!Bounds PROVE Risk!Init => Risk!IInv
<1> SUFFICES ASSUME Risk!Init PROVE Risk!IInv
    OBVIOUS
<1>1. /\ scan \in [Scans -> RiskScanType]
      /\ \A s \in Scans : scan[s].pc = "idle" /\ Risk!Injective(scan[s].todo)
    BY RiskIdleIs DEF Risk!Init
<1>2. /\ live \in [Transaction -> Nat]
      /\ rated \in [Transaction -> Risk!Severity]
      /\ riskChanges \in 0..Edits
    BY RiskSets DEF Risk!Init, Risk!Calmly, Risk!Severity, Risk!Bounds
<1>3. Risk!TypeOK
    BY <1>1, <1>2 DEF Risk!Init, Risk!TypeOK, RiskScanType
<1>4. \A t \in Transaction : Risk!Wants(t) = {} /\ live[t] = 0
    BY <1>1 DEF Risk!Wants, Risk!Init
<1>7. \A t \in Transaction \ beside : live[t] <= 1 /\ (live[t] = 1 => Risk!Wants(t) = {})
    BY <1>4
<1>5. Cardinality({}) = 0 /\ Cardinality(Scans) \in Nat
    BY FS_EmptySet, FS_CardinalityType, RiskSets DEF Risk!Bounds
<1>6. ASSUME NEW t \in Transaction
      PROVE  live[t] + Cardinality(Risk!Wants(t)) <= Cardinality(Scans)
  <2>1. live[t] + Cardinality(Risk!Wants(t)) = 0
      BY <1>4, <1>5
  <2> QED
      BY <1>5, <2>1
<1> QED
    BY <1>1, <1>3, <1>6, <1>7, RiskSets DEF Risk!IInv

\* The counts of a step by which only scan s moves, or none.
LEMMA RiskWantsIs ==
    ASSUME Risk!Bounds, NEW s, NEW t, \A r \in Scans \ {s} : scan'[r] = scan[r]
    PROVE  /\ Cardinality(Risk!Wants(t)) \in Nat /\ Cardinality(Risk!Wants(t)') \in Nat
           /\ Cardinality(Scans) \in Nat
           /\ Cardinality(Risk!Wants(t)') <= Cardinality(Scans)
           /\ s \in Risk!Wants(t) /\ s \in Risk!Wants(t)'
                => Cardinality(Risk!Wants(t)') = Cardinality(Risk!Wants(t))
           /\ s \notin Risk!Wants(t) /\ s \notin Risk!Wants(t)'
                => Cardinality(Risk!Wants(t)') = Cardinality(Risk!Wants(t))
           /\ s \in Risk!Wants(t) /\ s \notin Risk!Wants(t)'
                => Cardinality(Risk!Wants(t)') = Cardinality(Risk!Wants(t)) - 1
           /\ s \notin Risk!Wants(t) /\ s \in Risk!Wants(t)'
                => Cardinality(Risk!Wants(t)') = Cardinality(Risk!Wants(t)) + 1
<1>1. Risk!Wants(t) \ {s} = Risk!Wants(t)' \ {s}
    BY DEF Risk!Wants
<1>2. IsFiniteSet(Risk!Wants(t)) /\ Risk!Wants(t)' \in SUBSET Scans
    BY FS_Subset, RiskSets DEF Risk!Wants, Risk!Bounds
<1>3. Cardinality(Scans) \in Nat /\ Cardinality(Risk!Wants(t)') <= Cardinality(Scans)
    BY <1>2, FS_Subset, FS_CardinalityType, RiskSets DEF Risk!Bounds
<1> QED
    BY <1>1, <1>2, <1>3, OneOff

LEMMA RiskScanIs == ASSUME Risk!IInv, NEW s \in Scans
    PROVE  scan[s] \in RiskScanType /\ Risk!Injective(scan[s].todo)
    BY RiskSets DEF Risk!IInv, Risk!TypeOK, RiskScanType

LEMMA RiskRestIs == ASSUME Risk!IInv
    PROVE  /\ tx \in [Transaction -> Profile] /\ live \in [Transaction -> Nat]
           /\ beside \in SUBSET Transaction
           /\ rated \in [Transaction -> Risk!Severity] /\ riskChanges \in 0..Edits
    BY RiskSets DEF Risk!IInv, Risk!TypeOK

\* A step of scan s that queues nothing.
LEMMA RiskScanStep ==
    ASSUME Risk!Bounds, Risk!IInv, NEW s \in Scans, NEW q \in RiskScanType,
           scan' = [scan EXCEPT ![s] = q],
           UNCHANGED <<tx, live, rated, beside>>, riskChanges' \in 0..Edits, Risk!Injective(q.todo),
           \A t \in Transaction : (/\ q.pc = "analyse" /\ t \notin q.active
                                   /\ \E i \in DOMAIN q.todo : q.todo[i] = t)
              => live[t] = 0 \/ s \in Risk!Wants(t)
    PROVE  Risk!IInv'
<1>1. /\ scan' \in [Scans -> RiskScanType] /\ scan'[s] = q
      /\ \A r \in Scans \ {s} : scan'[r] = scan[r]
    BY RiskSets DEF Risk!IInv, Risk!TypeOK, RiskScanType
<1>2. Risk!TypeOK'
    BY <1>1, RiskRestIs DEF Risk!TypeOK, RiskScanType
<1>3. \A r \in Scans : Risk!Injective(scan'[r].todo)
    BY <1>1, RiskSets DEF Risk!IInv
<1>4. ASSUME NEW t \in Transaction
      PROVE  live'[t] + Cardinality(Risk!Wants(t)') <= Cardinality(Scans)
  <2>1. live[t] \in Nat /\ live[t] + Cardinality(Risk!Wants(t)) <= Cardinality(Scans)
      BY RiskSets DEF Risk!IInv, Risk!TypeOK
  <2>2. s \in Risk!Wants(t)' => live[t] = 0 \/ s \in Risk!Wants(t)
      BY <1>1 DEF Risk!Wants
  <2>3. live[t] = 0 \/ Cardinality(Risk!Wants(t)') <= Cardinality(Risk!Wants(t))
      BY <1>1, <2>2, RiskWantsIs
  <2>4. /\ Cardinality(Risk!Wants(t)) \in Nat /\ Cardinality(Risk!Wants(t)') \in Nat
        /\ Cardinality(Scans) \in Nat /\ Cardinality(Risk!Wants(t)') <= Cardinality(Scans)
      BY <1>1, RiskWantsIs
  <2> QED
      BY <2>1, <2>3, <2>4
<1>5. ASSUME NEW t \in Transaction \ beside
      PROVE  live'[t] <= 1 /\ (live'[t] = 1 => Risk!Wants(t)' = {})
  <2>1. live[t] <= 1 /\ (live[t] = 1 => Risk!Wants(t) = {})
      BY RiskSets DEF Risk!IInv
  <2>2. s \in Risk!Wants(t)' => live[t] = 0 \/ s \in Risk!Wants(t)
      BY <1>1 DEF Risk!Wants
  <2>3. Risk!Wants(t)' \subseteq Risk!Wants(t) \cup {s}
      BY <1>1 DEF Risk!Wants
  <2> QED
      BY <2>1, <2>2, <2>3
<1> QED
    BY <1>2, <1>3, <1>4, <1>5, RiskSets DEF Risk!IInv

LEMMA RiskSeverityIs == \A p : Risk!HighestSeverity(p) \in Risk!Severity
    BY DEF Risk!HighestSeverity, Risk!Severity

LEMMA RiskFetchStep ==
    ASSUME Risk!Bounds, Risk!IInv, NEW s \in Scans, Risk!Fetch(s)
    PROVE  Risk!IInv'
<1>1. PICK n \in 0..Take : \E todo \in [1..n -> Risk!Open] :
         /\ Risk!Page(todo)
         /\ scan' = [scan EXCEPT ![s] =
                [Risk!Idle EXCEPT !.pc = "fetched", !.todo = todo, !.left = MaxItems,
                    !.judged = [t \in Transaction |-> Risk!HighestSeverity(tx[t])]]]
    BY DEF Risk!Fetch
<1>2. PICK todo \in [1..n -> Risk!Open] :
         /\ Risk!Page(todo)
         /\ scan' = [scan EXCEPT ![s] =
                [Risk!Idle EXCEPT !.pc = "fetched", !.todo = todo, !.left = MaxItems,
                    !.judged = [t \in Transaction |-> Risk!HighestSeverity(tx[t])]]]
    BY <1>1
<1>3. todo \in Seq(Transaction) /\ Risk!Injective(todo)
    BY <1>2, RiskSets DEF Risk!Open, Risk!Bounds, Risk!Page
<1> DEFINE sev == [t \in Transaction |-> Risk!HighestSeverity(tx[t])]
           q1 == [Risk!Idle EXCEPT !.pc = "fetched"]
           q2 == [q1 EXCEPT !.todo = todo]
           q3 == [q2 EXCEPT !.left = MaxItems]
           q == [q3 EXCEPT !.judged = sev]
<1>4. scan' = [scan EXCEPT ![s] = q]
    BY <1>2, Zenon
<1>5. sev \in [Transaction -> Risk!Severity]
    BY RiskSeverityIs
<1> HIDE DEF sev
<1>6. q1 \in RiskScanType /\ q1.pc = "fetched"
    BY RiskIdleIs DEF RiskScanType
<1> HIDE DEF q1
<1>7. q2 \in RiskScanType /\ q2.pc = "fetched" /\ q2.todo = todo
    BY <1>3, <1>6 DEF RiskScanType
<1> HIDE DEF q2
<1>8. q3 \in RiskScanType /\ q3.pc = "fetched" /\ q3.todo = todo
    BY <1>7, RiskSets DEF RiskScanType, Risk!Bounds
<1> HIDE DEF q3
<1>9. q \in RiskScanType /\ q.pc = "fetched" /\ q.todo = todo
    BY <1>5, <1>8 DEF RiskScanType
<1> HIDE DEF q
<1>10. UNCHANGED <<tx, live, rated, beside>> /\ riskChanges' \in 0..Edits
    BY RiskRestIs DEF Risk!Fetch
<1> QED
    BY <1>3, <1>4, <1>9, <1>10, RiskScanStep

LEMMA RiskReadStep ==
    ASSUME Risk!Bounds, Risk!IInv, NEW s \in Scans, Risk!ReadActive(s)
    PROVE  Risk!IInv'
<1> DEFINE now == {t \in Transaction : live[t] > 0}
           q1 == [scan[s] EXCEPT !.pc = "analyse"]
           q == [q1 EXCEPT !.active = now]
<1>1. /\ scan' = [scan EXCEPT ![s] = q]
      /\ UNCHANGED <<tx, live, rated, beside>>
      /\ riskChanges' \in 0..Edits
    BY RiskRestIs DEF Risk!ReadActive
<1>2. q1 \in RiskScanType /\ q1.todo = scan[s].todo
    BY RiskScanIs DEF RiskScanType
<1>3. now \in SUBSET Transaction /\ \A t \in Transaction : t \notin now => live[t] = 0
    BY RiskRestIs
<1> HIDE DEF now, q1
<1>4. q \in RiskScanType /\ q.todo = scan[s].todo /\ q.active = now
    BY <1>2, <1>3 DEF RiskScanType
<1> HIDE DEF q
<1> QED
    BY <1>1, <1>3, <1>4, RiskScanIs, RiskScanStep

\* What is left after the first transaction.
LEMMA RiskTailIs ==
    ASSUME NEW todo \in Seq(Transaction), todo # <<>>, Risk!Injective(todo)
    PROVE  /\ Head(todo) \in Transaction /\ Tail(todo) \in Seq(Transaction) /\ Risk!Injective(Tail(todo))
           /\ \A i \in DOMAIN Tail(todo) : Tail(todo)[i] # Head(todo)
           /\ \A i \in DOMAIN Tail(todo) : \E j \in DOMAIN todo : Tail(todo)[i] = todo[j]
           /\ \E j \in DOMAIN todo : todo[j] = Head(todo)
<1>1. /\ Len(todo) \in Nat \ {0} /\ Len(Tail(todo)) = Len(todo) - 1 /\ Head(todo) = todo[1]
      /\ \A i \in 1..(Len(todo) - 1) : Tail(todo)[i] = todo[i + 1]
      /\ DOMAIN todo = 1..Len(todo) /\ Tail(todo) \in Seq(Transaction)
      /\ DOMAIN Tail(todo) = 1..(Len(todo) - 1)
    OBVIOUS
<1> QED
    BY <1>1 DEF Risk!Injective

LEMMA RiskSkipStep ==
    ASSUME Risk!Bounds, Risk!IInv, NEW s \in Scans, Risk!Turn(s),
           scan' = [scan EXCEPT ![s].todo = Tail(scan[s].todo)],
           UNCHANGED <<tx, live, rated, beside>>, riskChanges' \in 0..Edits
    PROVE  Risk!IInv'
<1> DEFINE todo == scan[s].todo
           q == [scan[s] EXCEPT !.todo = Tail(todo)]
<1>1. /\ todo \in Seq(Transaction)
      /\ todo # <<>>
      /\ Risk!Injective(todo)
      /\ scan[s].pc = "analyse"
    BY RiskScanIs DEF Risk!Turn, RiskScanType
<1>2. scan' = [scan EXCEPT ![s] = q]
    OBVIOUS
<1>3. q \in RiskScanType /\ q.todo = Tail(todo) /\ q.active = scan[s].active
    BY <1>1, RiskTailIs, RiskScanIs DEF RiskScanType
<1> HIDE DEF q
<1>5. \A t \in Transaction :
        (t \notin q.active /\ \E i \in DOMAIN q.todo : q.todo[i] = t) => s \in Risk!Wants(t)
    BY <1>1, <1>3, RiskTailIs DEF Risk!Wants
<1> HIDE DEF todo
<1> QED
    BY <1>1, <1>2, <1>3, <1>5, RiskTailIs, RiskScanStep

LEMMA RiskQueueStep ==
    ASSUME Risk!Bounds, Risk!IInv, NEW s \in Scans, Risk!Queue(s)
    PROVE  Risk!IInv'
<1> DEFINE todo == scan[s].todo
           h == Head(todo)
           q1 == [scan[s] EXCEPT !.todo = Tail(todo)]
           q == [q1 EXCEPT !.left = scan[s].left - 1]
<1>1. /\ Risk!Turn(s) /\ h \notin scan[s].active /\ UNCHANGED <<tx, riskChanges>>
      /\ live' = [live EXCEPT ![h] = live[h] + 1]
      /\ rated' = [rated EXCEPT ![h] = scan[s].judged[h]]
      /\ beside' = IF \E z \in Scans \ {s} : scan[z].pc # "idle" THEN beside \cup {h} ELSE beside
      /\ scan' = [scan EXCEPT ![s].todo = Tail(scan[s].todo), ![s].left = scan[s].left - 1]
    BY DEF Risk!Queue, Risk!Needed
<1>2. /\ todo \in Seq(Transaction)
      /\ todo # <<>>
      /\ Risk!Injective(todo)
      /\ scan[s].pc = "analyse"
      /\ h \in Transaction /\ scan[s].judged[h] \in Risk!Severity
    BY <1>1, RiskScanIs, RiskTailIs DEF Risk!Turn, RiskScanType
<1>3. /\ q1 \in RiskScanType
      /\ q1.todo = Tail(todo)
      /\ q1.active = scan[s].active
      /\ q1.left = scan[s].left
    BY <1>2, RiskTailIs, RiskScanIs DEF RiskScanType
<1>4. scan[s].left - 1 \in 0..MaxItems
    BY <1>1, RiskScanIs, RiskSets DEF Risk!Turn, RiskScanType, Risk!Bounds
<1>5. scan' = [scan EXCEPT ![s] = q]
    BY <1>1, RiskScanIs, RiskRestIs, RiskSets DEF Risk!IInv, Risk!TypeOK
<1> HIDE DEF q1
<1>6. q \in RiskScanType /\ q.todo = Tail(todo) /\ q.active = scan[s].active
    BY <1>3, <1>4 DEF RiskScanType
<1> HIDE DEF q
<1>7. /\ scan' \in [Scans -> RiskScanType] /\ scan'[s] = q
      /\ \A r \in Scans \ {s} : scan'[r] = scan[r]
    BY <1>5, <1>6, RiskSets DEF Risk!IInv, Risk!TypeOK, RiskScanType
<1>8. /\ live' \in [Transaction -> Nat] /\ rated' \in [Transaction -> Risk!Severity]
      /\ \A t \in Transaction : live'[t] = IF t = h THEN live[t] + 1 ELSE live[t]
    BY <1>1, <1>2, RiskRestIs
<1>9. Risk!TypeOK'
  <2>1. beside' \subseteq Transaction
      BY <1>1, <1>2, RiskRestIs
  <2> QED
      BY <1>1, <1>7, <1>8, <2>1, RiskRestIs DEF Risk!TypeOK, RiskScanType
<1>10. \A r \in Scans : Risk!Injective(scan'[r].todo)
    BY <1>2, <1>6, <1>7, RiskTailIs, RiskSets DEF Risk!IInv
<1>11. ASSUME NEW t \in Transaction
       PROVE  live'[t] + Cardinality(Risk!Wants(t)') <= Cardinality(Scans)
  <2>1. live[t] \in Nat /\ live[t] + Cardinality(Risk!Wants(t)) <= Cardinality(Scans)
      BY RiskSets DEF Risk!IInv, Risk!TypeOK
  <2>2. /\ Cardinality(Risk!Wants(t)) \in Nat /\ Cardinality(Risk!Wants(t)') \in Nat
        /\ Cardinality(Scans) \in Nat
      BY <1>7, RiskWantsIs
  <2>3. CASE t = h
    <3>1. s \in Risk!Wants(t)
        BY <1>1, <1>2, <2>3, RiskTailIs DEF Risk!Wants
    <3>2. s \notin Risk!Wants(t)'
        BY <1>2, <1>6, <1>7, <2>3, RiskTailIs DEF Risk!Wants
    <3>3. Cardinality(Risk!Wants(t)') = Cardinality(Risk!Wants(t)) - 1
        BY <1>7, <3>1, <3>2, RiskWantsIs
    <3> QED
        BY <1>8, <2>1, <2>2, <2>3, <3>3
  <2>4. CASE t # h
    <3>1. s \in Risk!Wants(t)' => s \in Risk!Wants(t)
      <4>1. \A i \in DOMAIN q.todo : \E j \in DOMAIN todo : q.todo[i] = todo[j]
          BY <1>2, <1>6, RiskTailIs
      <4> QED
          BY <1>2, <1>6, <1>7, <4>1 DEF Risk!Wants
    <3>2. Cardinality(Risk!Wants(t)') <= Cardinality(Risk!Wants(t))
        BY <1>7, <2>2, <3>1, RiskWantsIs
    <3> QED
        BY <1>8, <2>1, <2>2, <2>4, <3>2
  <2> QED
      BY <2>3, <2>4
<1>12. ASSUME NEW t \in Transaction \ beside'
       PROVE  live'[t] <= 1 /\ (live'[t] = 1 => Risk!Wants(t)' = {})
  <2>1. t \notin beside /\ live[t] \in Nat
      BY <1>1, RiskRestIs
  <2>2. live[t] <= 1 /\ (live[t] = 1 => Risk!Wants(t) = {})
      BY <2>1, RiskSets DEF Risk!IInv
  <2>3. CASE t = h
    <3>1. \A z \in Scans \ {s} : scan[z].pc = "idle"
        BY <1>1, <2>3
    <3>2. s \in Risk!Wants(t)
        BY <1>1, <1>2, <2>3, RiskTailIs DEF Risk!Wants
    <3>3. s \notin Risk!Wants(t)'
        BY <1>2, <1>6, <1>7, <2>3, RiskTailIs DEF Risk!Wants
    <3>4. Risk!Wants(t)' = {}
        BY <1>7, <3>1, <3>3 DEF Risk!Wants
    <3>5. live[t] # 1
        BY <2>2, <3>2
    <3>6. live[t] = 0
        BY <2>1, <2>2, <3>5
    <3>7. live'[t] = 1
        BY <1>8, <2>3, <3>6
    <3> QED
        BY <3>4, <3>7
  <2>4. CASE t # h
    <3>1. \A i \in DOMAIN q.todo : \E j \in DOMAIN todo : q.todo[i] = todo[j]
        BY <1>2, <1>6, RiskTailIs
    <3>2. s \in Risk!Wants(t)' => s \in Risk!Wants(t)
        BY <1>2, <1>6, <1>7, <3>1 DEF Risk!Wants
    <3>3. Risk!Wants(t)' \subseteq Risk!Wants(t) \cup {s}
        BY <1>7 DEF Risk!Wants
    <3>4. live'[t] = live[t] /\ (Risk!Wants(t) = {} => Risk!Wants(t)' = {})
        BY <1>8, <2>4, <3>2, <3>3
    <3> QED
        BY <2>2, <3>4
  <2> QED
      BY <2>3, <2>4
<1> QED
    BY <1>9, <1>10, <1>11, <1>12, RiskSets DEF Risk!IInv

LEMMA RiskEndStep ==
    ASSUME Risk!Bounds, Risk!IInv, NEW s \in Scans, scan' = [scan EXCEPT ![s] = Risk!Idle],
           UNCHANGED <<tx, live, rated, beside>>, riskChanges' \in 0..Edits
    PROVE  Risk!IInv'
<1> DEFINE q == Risk!Idle
<1>1. /\ q \in RiskScanType
      /\ q.pc # "analyse"
      /\ Risk!Injective(q.todo)
      /\ scan' = [scan EXCEPT ![s] = q]
    BY RiskIdleIs
<1> HIDE DEF q
<1> QED
    BY <1>1, RiskScanStep

LEMMA RiskFailStep ==
    ASSUME Risk!Bounds, Risk!IInv, NEW s \in Scans, Risk!Fail(s)
    PROVE  Risk!IInv'
<1>1. riskChanges' \in 0..Edits /\ UNCHANGED <<tx, live, rated, beside>>
    BY RiskRestIs, RiskSets DEF Risk!Fail, Risk!Count, Risk!Bounds
<1> QED
    BY <1>1, RiskEndStep, RiskSkipStep DEF Risk!Fail

LEMMA RiskAgentStep ==
    ASSUME Risk!Bounds, Risk!IInv, NEW t \in Transaction, Risk!Edit(t) \/ Risk!Decide(t)
    PROVE  Risk!IInv'
<1>1. riskChanges' \in 0..Edits /\ scan' = scan /\ rated' = rated /\ beside' = beside
    BY RiskRestIs, RiskSets DEF Risk!Edit, Risk!Decide, Risk!Count, Risk!Bounds
<1>2. tx' \in [Transaction -> Profile]
    BY RiskRestIs DEF Risk!Edit, Risk!Decide
<1>3. live' \in [Transaction -> Nat] /\ \A u \in Transaction : live'[u] <= live[u]
    BY RiskRestIs DEF Risk!Edit, Risk!Decide
<1>4. \A u \in Transaction : Risk!Wants(u)' = Risk!Wants(u)
    BY <1>1 DEF Risk!Wants
<1>5. ASSUME NEW u \in Transaction
      PROVE  live'[u] + Cardinality(Risk!Wants(u)') <= Cardinality(Scans)
  <2>1. /\ live[u] \in Nat /\ live'[u] \in Nat /\ live'[u] <= live[u]
        /\ live[u] + Cardinality(Risk!Wants(u)) <= Cardinality(Scans)
      BY <1>3, RiskRestIs, RiskSets DEF Risk!IInv
  <2>2. Cardinality(Risk!Wants(u)) \in Nat /\ Cardinality(Scans) \in Nat
      BY <1>1, RiskWantsIs
  <2> QED
      BY <1>4, <2>1, <2>2
<1>6. ASSUME NEW u \in Transaction \ beside
      PROVE  live'[u] <= 1 /\ (live'[u] = 1 => Risk!Wants(u)' = {})
  <2>1. /\ live[u] \in Nat /\ live'[u] \in Nat /\ live'[u] <= live[u]
        /\ live[u] <= 1 /\ (live[u] = 1 => Risk!Wants(u) = {})
      BY <1>3, RiskRestIs, RiskSets DEF Risk!IInv
  <2> QED
      BY <1>4, <2>1
<1> QED
    BY <1>1, <1>2, <1>3, <1>5, <1>6, RiskSets DEF Risk!IInv, Risk!TypeOK

LEMMA RiskInductive ==
    ASSUME Risk!Bounds
    PROVE  Risk!IInv /\ [Risk!Next]_(Risk!vars) => Risk!IInv'
<1> SUFFICES ASSUME Risk!IInv, [Risk!Next]_(Risk!vars) PROVE Risk!IInv'
    OBVIOUS
<1>1. CASE UNCHANGED Risk!vars
  <2>1. UNCHANGED <<tx, live, rated, scan, beside, riskChanges>>
      BY <1>1 DEF Risk!vars
  <2>2. Risk!TypeOK'
      BY <2>1, RiskSets DEF Risk!IInv, Risk!TypeOK
  <2>3. \A t \in Transaction : Risk!Wants(t)' = Risk!Wants(t)
      BY <2>1 DEF Risk!Wants
  <2> QED
      BY <2>1, <2>2, <2>3, RiskSets DEF Risk!IInv
<1>2. ASSUME NEW s \in Scans, Risk!Finish(s) PROVE Risk!IInv'
    BY <1>2, RiskEndStep, RiskRestIs DEF Risk!Finish
<1>3. ASSUME NEW s \in Scans, Risk!Skip(s) PROVE Risk!IInv'
    BY <1>3, RiskSkipStep, RiskRestIs DEF Risk!Skip
<1> QED
    BY <1>1, <1>2, <1>3, RiskFetchStep, RiskReadStep, RiskQueueStep, RiskFailStep,
       RiskAgentStep DEF Risk!Next, Risk!Work

LEMMA RiskProperties ==
    ASSUME Risk!Bounds
    PROVE  Risk!IInv => Risk!TypeOK /\ Risk!RiskActionsBounded
<1> SUFFICES ASSUME Risk!IInv, NEW t \in Transaction
             PROVE  /\ live[t] > 1 => t \in beside
                    /\ live[t] <= Cardinality(Scans)
    BY RiskSets DEF Risk!IInv, Risk!RiskActionsBounded
<1>1. Cardinality(Risk!Wants(t)) \in Nat /\ Cardinality(Scans) \in Nat
    BY FS_Subset, FS_CardinalityType, RiskSets DEF Risk!Wants, Risk!Bounds
<1> QED
    BY <1>1, RiskSets DEF Risk!IInv, Risk!TypeOK

-----------------------------------------------------------------------------
(* A message to the assistant.                                             *)

LEMMA ChatInitially == ASSUME Chat!Bounds PROVE Chat!Init => Chat!IInv
<1> SUFFICES ASSUME Chat!Init PROVE Chat!IInv
    OBVIOUS
<1>1. DOMAIN Chat!NoCalls = {} /\ Chat!NoCalls \in [{} -> DOMAIN Chat!Results \cup {Chat!Custom}]
    BY DEF Chat!NoCalls
<1>2. chunks \in BOOLEAN
    BY Zenon DEF Chat!Init
<1>3. /\ mine \subseteq Chat!Owned
      /\ open \subseteq Chat!Closable
      /\ step = "idle"
      /\ round = 0
      /\ calls = Chat!NoCalls /\ answered = {} /\ entities = {} /\ seen = {}
    BY Zenon DEF Chat!Init
<1>4. Chat!TypeOK
  <2>1. /\ DOMAIN calls \subseteq Asked
        /\ answered \subseteq Asked
        /\ entities \subseteq Chat!Item
      BY <1>1, <1>3
  <2> QED
      BY <1>2, <1>3, <2>1 DEF Chat!TypeOK, Chat!Rounds
<1>5. /\ calls \in [DOMAIN calls -> DOMAIN Chat!Results \cup {Chat!Custom}]
      /\ answered = Chat!Functions
    BY <1>1, <1>3 DEF Chat!Functions
<1>6. Chat!CallsAreAnswered
    BY <1>3, <1>5 DEF Chat!CallsAreAnswered
<1>7. round < Chat!Rounds
    BY <1>3 DEF Chat!Rounds
<1> QED
    BY <1>4, <1>5, <1>6, <1>7, Zenon DEF Chat!IInv

\* A tool finds what is the agent's own.
LEMMA ChatResultsAreOwn ==
    ASSUME NEW tool \in DOMAIN Chat!Results
    PROVE  Chat!Results[tool] \subseteq Chat!Own
<1>1. /\ Chat!ListContacts \subseteq Chat!Own
      /\ Chat!ListTasks \subseteq Chat!Own
      /\ Chat!ListActions \subseteq Chat!Own
      /\ Chat!SummarizeTransaction \subseteq Chat!Own
      /\ Chat!ListProperties \subseteq Chat!Own
    BY DEF Chat!ListContacts, Chat!ListTasks, Chat!ListActions, Chat!SummarizeTransaction,
       Chat!ListProperties, Chat!Own
<1> QED
    BY <1>1 DEF Chat!Results

LEMMA ChatExecuteStep ==
    ASSUME Chat!IInv, NEW c \in Asked, NEW found \in SUBSET Chat!Item,
           Chat!Execute(c, found)
    PROVE  Chat!IInv'
<1>1. DOMAIN Chat!Results' = DOMAIN Chat!Results
    BY DEF Chat!Results
<1>2. calls[c] \in DOMAIN Chat!Results
    BY DEF Chat!Execute, Chat!Functions, Chat!IInv
<1>3. found \subseteq Chat!Own
    BY <1>2, ChatResultsAreOwn DEF Chat!Execute
<1> QED
    BY <1>1, <1>3 DEF Chat!Execute, Chat!Functions, Chat!IInv, Chat!TypeOK, Chat!CallsAreAnswered

LEMMA ChatInductive ==
    ASSUME Chat!Bounds
    PROVE  Chat!IInv /\ [Chat!Next]_(Chat!vars) => Chat!IInv'
<1> SUFFICES ASSUME Chat!IInv, [Chat!Next]_(Chat!vars) PROVE Chat!IInv'
    OBVIOUS
<1> DEFINE names == DOMAIN Chat!Results
<1>0. names' = names
    BY DEF Chat!Results
<1> USE DEF Chat!IInv, Chat!TypeOK, Chat!CallsAreAnswered, Chat!Functions
<1>1. CASE UNCHANGED Chat!vars
    BY <1>0, <1>1 DEF Chat!vars
<1>2. ASSUME NEW i \in Chat!Owned, Chat!Move(i) PROVE Chat!IInv'
    BY <1>0, <1>2 DEF Chat!Move
<1>3. ASSUME NEW i \in Chat!Closable, Chat!Close(i) PROVE Chat!IInv'
    BY <1>0, <1>3 DEF Chat!Close
<1>4. CASE Chat!Open \/ Chat!Ask
    BY <1>0, <1>4 DEF Chat!Open, Chat!Ask
<1>5. CASE Chat!NextRound
    BY <1>0, <1>5 DEF Chat!NextRound, Chat!Rounds
<1>6. CASE Chat!Stream \/ Chat!Finish \/ Chat!ModelFails
    BY <1>0, <1>6 DEF Chat!Stream, Chat!Finish, Chat!ModelFails
<1>7. ASSUME NEW text \in BOOLEAN, Chat!AnswerWithText(text) PROVE Chat!IInv'
    BY <1>0, <1>7 DEF Chat!AnswerWithText, Chat!NoCalls
<1>8. ASSUME NEW called \in SUBSET Asked,
             NEW asked \in [called -> names \cup {Chat!Custom}], Chat!AnswerWithCalls(asked)
      PROVE  Chat!IInv'
    BY <1>0, <1>8 DEF Chat!AnswerWithCalls, Chat!Rounds
<1>9. ASSUME NEW c \in Asked, Chat!ExecuteFails(c) PROVE Chat!IInv'
    BY <1>0, <1>9 DEF Chat!ExecuteFails
<1> QED
    BY <1>1, <1>2, <1>3, <1>4, <1>5, <1>6, <1>7, <1>8, <1>9, ChatExecuteStep DEF Chat!Next

LEMMA ChatProperties == Chat!IInv => Chat!TypeOK /\ Chat!CallsAreAnswered
    BY DEF Chat!IInv

-----------------------------------------------------------------------------
(* The alerts of an account that the roster no longer holds.               *)

LEMMA AccessMailInitially ==
    ASSUME Access!Mail!Bounds
    PROVE  Access!Mail!MailInit => Access!Mail!IInv
<1> SUFFICES ASSUME Access!Mail!MailInit PROVE Access!Mail!IInv
    OBVIOUS
<1>1. (CHOOSE k \in Access!Alert : TRUE) \in Access!Alert
    BY DEF Access!Mail!Bounds
<1>2. /\ Access!Mail!NoCall \in [step : Access!Mail!Steps, kind : Access!Alert]
      /\ Access!Mail!NoCall.step = "idle"
    BY <1>1 DEF Access!Mail!NoCall, Access!Mail!Steps
<1>3. Access!Mail!Typed /\ \A c \in RosterCheck : sending[c].step = "idle"
    BY <1>2 DEF Access!Mail!MailInit, Access!Mail!Typed, Access!Mail!Bounds
<1> QED
    BY <1>3 DEF Access!Mail!MailInit, Access!Mail!IInv, Access!Mail!Typed,
       Access!Mail!Alone, Access!Mail!Counted, Access!Mail!Stands, Access!Mail!Works,
       Access!Mail!RowMeansMail, Access!Mail!AtWork

\* A call takes a step and keeps its kind.
LEMMA AccessMailStepped ==
    ASSUME Access!Mail!IInv, NEW c \in RosterCheck, NEW from, NEW to \in Access!Mail!Steps,
           Access!Mail!Step(c, from, to)
    PROVE  /\ sending' \in [RosterCheck -> [step : Access!Mail!Steps, kind : Access!Alert]]
           /\ sending[c].step = from /\ sending'[c].step = to
           /\ sending[c].kind \in Access!Alert /\ sending'[c].kind = sending[c].kind
           /\ \A d \in RosterCheck : d # c => sending'[d] = sending[d]
<1> DEFINE r == [sending[c] EXCEPT !.step = to]
<1>1. sending[c] \in [step : Access!Mail!Steps, kind : Access!Alert]
    BY DEF Access!Mail!IInv, Access!Mail!Typed
<1>2. /\ r \in [step : Access!Mail!Steps, kind : Access!Alert]
      /\ r.step = to
      /\ r.kind = sending[c].kind
    BY <1>1
<1>3. sending' = [sending EXCEPT ![c] = r] /\ sending[c].step = from
    BY DEF Access!Mail!Step
<1> HIDE DEF r
<1> QED
    BY <1>1, <1>2, <1>3 DEF Access!Mail!IInv, Access!Mail!Typed

-----------------------------------------------------------------------------

LEMMA AccessMailAskStep ==
    ASSUME Access!Mail!IInv, NEW c \in RosterCheck, NEW k \in Access!Alert,
           Access!Mail!Ask(c, k)
    PROVE  Access!Mail!IInv'
<1>1. /\ sending' \in [RosterCheck -> [step : Access!Mail!Steps, kind : Access!Alert]]
      /\ sending'[c].step = "create" /\ sending[c].step = "idle"
      /\ \A d \in RosterCheck : d # c => sending'[d] = sending[d]
    BY DEF Access!Mail!Ask, Access!Mail!IInv, Access!Mail!Typed, Access!Mail!Steps
<1>2. \A d \in RosterCheck, j \in Access!Alert : (Access!Mail!Works(d, j) <=> Access!Mail!Works(d, j)')
    BY <1>1 DEF Access!Mail!Works
<1> QED
    BY <1>1, <1>2 DEF Access!Mail!Ask, Access!Mail!IInv, Access!Mail!Typed,
       Access!Mail!Alone, Access!Mail!Counted, Access!Mail!Stands, Access!Mail!Works,
       Access!Mail!RowMeansMail, Access!Mail!AtWork

LEMMA AccessMailSkipStep ==
    ASSUME Access!Mail!IInv, NEW c \in RosterCheck, Access!Mail!Step(c, "create", "idle"),
           UNCHANGED <<alert, taken, mailFaults>>
    PROVE  Access!Mail!IInv'
<1>1. /\ sending' \in [RosterCheck -> [step : Access!Mail!Steps, kind : Access!Alert]]
      /\ sending[c].step = "create" /\ sending'[c].step = "idle"
      /\ \A d \in RosterCheck : d # c => sending'[d] = sending[d]
    BY AccessMailStepped DEF Access!Mail!Steps
<1>2. \A d \in RosterCheck, j \in Access!Alert : (Access!Mail!Works(d, j) <=> Access!Mail!Works(d, j)')
    BY <1>1 DEF Access!Mail!Works
<1> QED
    BY <1>1, <1>2 DEF Access!Mail!IInv, Access!Mail!Typed, Access!Mail!Alone,
       Access!Mail!Counted, Access!Mail!Stands, Access!Mail!Works, Access!Mail!RowMeansMail,
       Access!Mail!AtWork

LEMMA AccessMailMakeStep ==
    ASSUME Access!Mail!IInv, NEW c \in RosterCheck, Access!Mail!Step(c, "create", "send"),
           alert[sending[c].kind] = "none", alert' = [alert EXCEPT ![sending[c].kind] = "made"],
           UNCHANGED <<taken, mailFaults>>
    PROVE  Access!Mail!IInv'
<1> DEFINE k == sending[c].kind
<1>1. /\ sending' \in [RosterCheck -> [step : Access!Mail!Steps, kind : Access!Alert]]
      /\ sending[c].step = "create" /\ sending'[c].step = "send"
      /\ k \in Access!Alert /\ sending'[c].kind = k
      /\ \A d \in RosterCheck : d # c => sending'[d] = sending[d]
    BY AccessMailStepped DEF Access!Mail!Steps
<1>2. /\ alert' \in [Access!Alert -> {"none", "made", "sent"}]
      /\ alert'[k] = "made" /\ \A j \in Access!Alert : j # k => alert'[j] = alert[j]
    BY <1>1 DEF Access!Mail!IInv, Access!Mail!Typed
<1>3. alert[k] = "none"
    OBVIOUS
<1> HIDE DEF k
<1>4. \A d \in RosterCheck : ~Access!Mail!Works(d, k)
    BY <1>1, <1>3 DEF Access!Mail!IInv, Access!Mail!Alone
<1>5. \A d \in RosterCheck, j \in Access!Alert : (Access!Mail!Works(d, j)' <=> (Access!Mail!Works(d, j) \/ (d = c /\ j = k)))
    BY <1>1 DEF Access!Mail!Works
<1>6. Access!Mail!Alone'
    BY <1>1, <1>2, <1>4, <1>5 DEF Access!Mail!IInv, Access!Mail!Alone
<1>7. taken[k] <= mailFaults
    BY <1>1, <1>3 DEF Access!Mail!IInv, Access!Mail!Counted
<1>8. Access!Mail!Counted'
    BY <1>1, <1>2, <1>4, <1>5, <1>7 DEF Access!Mail!IInv, Access!Mail!Counted
<1>9. Access!Mail!RowMeansMail'
  <2> SUFFICES ASSUME NEW j \in Access!Alert, alert'[j] # "none", ~Access!Mail!AtWork(j)'
               PROVE  taken[j] > 0 \/ mailFaults > 0
      BY DEF Access!Mail!RowMeansMail
  <2>1. j # k
      BY <1>1, <1>5 DEF Access!Mail!AtWork, Access!Mail!Works
  <2>2. ~Access!Mail!AtWork(j)
      BY <1>5, <2>1 DEF Access!Mail!AtWork, Access!Mail!Works
  <2> QED
      BY <1>2, <2>1, <2>2 DEF Access!Mail!IInv, Access!Mail!Stands, Access!Mail!RowMeansMail
<1>10. Access!Mail!Stands'
    BY <1>1, <1>9 DEF Access!Mail!IInv, Access!Mail!Stands
<1> QED
    BY <1>1, <1>2, <1>6, <1>8, <1>10 DEF Access!Mail!IInv, Access!Mail!Typed

\* A call that is at work goes on with its mail.
LEMMA AccessMailSendStep ==
    ASSUME Access!Mail!IInv, NEW c \in RosterCheck, Access!Mail!Send(c)
    PROVE  Access!Mail!IInv'
<1> DEFINE k == sending[c].kind
<1>1. /\ sending' \in [RosterCheck -> [step : Access!Mail!Steps, kind : Access!Alert]]
      /\ sending[c].step = "send" /\ sending'[c].step = "record"
      /\ k \in Access!Alert /\ sending'[c].kind = k
      /\ \A d \in RosterCheck : d # c => sending'[d] = sending[d]
    BY AccessMailStepped DEF Access!Mail!Send, Access!Mail!Steps
<1>2. /\ taken' \in [Access!Alert -> Nat]
      /\ taken'[k] = taken[k] + 1 /\ \A j \in Access!Alert : j # k => taken'[j] = taken[j]
    BY <1>1 DEF Access!Mail!Send, Access!Mail!IInv, Access!Mail!Typed
<1>3. /\ alert' = alert
      /\ mailFaults' = mailFaults
      /\ mailFaults \in Nat
      /\ taken \in [Access!Alert -> Nat]
    BY DEF Access!Mail!Send, Access!Mail!IInv, Access!Mail!Typed
<1> HIDE DEF k
<1>4. Access!Mail!Works(c, k) /\ \A d \in RosterCheck : d # c => ~Access!Mail!Works(d, k)
  <2>1. Access!Mail!Works(c, k)
      BY <1>1 DEF Access!Mail!Works, k
  <2> QED
      BY <1>1, <2>1 DEF Access!Mail!IInv, Access!Mail!Alone
<1>5. \A d \in RosterCheck, j \in Access!Alert : (Access!Mail!Works(d, j)' <=> Access!Mail!Works(d, j))
    BY <1>1 DEF Access!Mail!Works, k
<1>6. Access!Mail!Alone'
    BY <1>3, <1>5 DEF Access!Mail!IInv, Access!Mail!Alone
<1>7. taken[k] <= mailFaults /\ alert[k] = "made"
    BY <1>1, <1>4 DEF Access!Mail!IInv, Access!Mail!Counted, Access!Mail!Alone
<1>8. Access!Mail!Counted'
    BY <1>1, <1>2, <1>3, <1>4, <1>5, <1>7 DEF Access!Mail!IInv, Access!Mail!Counted
<1>9. Access!Mail!RowMeansMail'
  <2>1. \A j \in Access!Alert : (Access!Mail!AtWork(j)' <=> Access!Mail!AtWork(j))
      BY <1>5 DEF Access!Mail!AtWork, Access!Mail!Works
  <2> QED
      BY <1>2, <1>3, <2>1 DEF Access!Mail!IInv, Access!Mail!Stands, Access!Mail!RowMeansMail
<1>10. Access!Mail!Stands'
    BY <1>1, <1>2, <1>3, <1>9, <1>4 DEF Access!Mail!IInv, Access!Mail!Stands,
       Access!Mail!Works, Access!Mail!Typed
<1> QED
    BY <1>1, <1>2, <1>3, <1>6, <1>8, <1>10 DEF Access!Mail!IInv, Access!Mail!Typed

LEMMA AccessMailRefuseStep ==
    ASSUME Access!Mail!IInv, NEW c \in RosterCheck, Access!Mail!Refuse(c)
    PROVE  Access!Mail!IInv'
<1>1. /\ sending' \in [RosterCheck -> [step : Access!Mail!Steps, kind : Access!Alert]]
      /\ sending[c].step = "send" /\ sending'[c].step = "cleanup"
      /\ sending'[c].kind = sending[c].kind
      /\ \A d \in RosterCheck : d # c => sending'[d] = sending[d]
    BY AccessMailStepped DEF Access!Mail!Refuse, Access!Mail!Steps
<1>2. \A d \in RosterCheck, j \in Access!Alert : (Access!Mail!Works(d, j)' <=> Access!Mail!Works(d, j))
    BY <1>1 DEF Access!Mail!Works
<1>3. UNCHANGED <<alert, taken, mailFaults>>
    BY DEF Access!Mail!Refuse
<1>4. \A d \in RosterCheck : sending'[d].step = "record" <=> sending[d].step = "record"
    BY <1>1
<1> QED
    BY <1>1, <1>2, <1>3, <1>4 DEF Access!Mail!IInv, Access!Mail!Typed, Access!Mail!Alone,
       Access!Mail!Counted, Access!Mail!Stands, Access!Mail!Works, Access!Mail!RowMeansMail,
       Access!Mail!AtWork

LEMMA AccessMailLoseStep ==
    ASSUME Access!Mail!Bounds, Access!Mail!IInv, NEW c \in RosterCheck,
           Access!Mail!LoseAnswer(c)
    PROVE  Access!Mail!IInv'
<1> DEFINE k == sending[c].kind
<1>1. /\ sending' \in [RosterCheck -> [step : Access!Mail!Steps, kind : Access!Alert]]
      /\ sending[c].step = "send" /\ sending'[c].step = "cleanup"
      /\ k \in Access!Alert /\ sending'[c].kind = k
      /\ \A d \in RosterCheck : d # c => sending'[d] = sending[d]
    BY AccessMailStepped DEF Access!Mail!LoseAnswer, Access!Mail!Steps
<1>2. /\ taken' \in [Access!Alert -> Nat]
      /\ taken'[k] = taken[k] + 1 /\ \A j \in Access!Alert : j # k => taken'[j] = taken[j]
    BY <1>1 DEF Access!Mail!LoseAnswer, Access!Mail!IInv, Access!Mail!Typed
<1>3. /\ alert' = alert
      /\ mailFaults' = mailFaults + 1
      /\ mailFaults \in Nat
      /\ taken \in [Access!Alert -> Nat]
      /\ mailFaults' \in 0..AlertFaults
    BY DEF Access!Mail!LoseAnswer, Access!Mail!IInv, Access!Mail!Typed, Access!Mail!Bounds
<1> HIDE DEF k
<1>4. Access!Mail!Works(c, k)
    BY <1>1 DEF Access!Mail!Works, k
<1>5. \A d \in RosterCheck, j \in Access!Alert : (Access!Mail!Works(d, j)' <=> Access!Mail!Works(d, j))
    BY <1>1 DEF Access!Mail!Works, k
<1>6. Access!Mail!Alone'
    BY <1>3, <1>5 DEF Access!Mail!IInv, Access!Mail!Alone
<1>7. taken[k] <= mailFaults /\ alert[k] = "made"
    BY <1>1, <1>4 DEF Access!Mail!IInv, Access!Mail!Counted, Access!Mail!Alone
<1>8. \A d \in RosterCheck : d # c => (sending'[d].step = sending[d].step /\ sending'[d].kind = sending[d].kind)
    BY <1>1
<1>9. Access!Mail!Counted'
  <2>1. \A j \in Access!Alert : taken'[j] <= 1 + mailFaults /\ (j = k \/ taken'[j] = taken[j])
      BY <1>2, <1>3, <1>7 DEF Access!Mail!IInv, Access!Mail!Counted
  <2>2. \A j \in Access!Alert : taken'[j] <= mailFaults'
      BY <1>3, <2>1
  <2> QED
      BY <1>3, <1>2, <2>2 DEF Access!Mail!Counted
<1>10. Access!Mail!Stands'
    BY <1>1, <1>2, <1>3 DEF Access!Mail!IInv, Access!Mail!Stands, Access!Mail!RowMeansMail,
       Access!Mail!Typed
<1> QED
    BY <1>1, <1>2, <1>3, <1>6, <1>9, <1>10 DEF Access!Mail!IInv, Access!Mail!Typed

LEMMA AccessMailCleanupStep ==
    ASSUME Access!Mail!IInv, NEW c \in RosterCheck, Access!Mail!Cleanup(c)
    PROVE  Access!Mail!IInv'
<1> DEFINE k == sending[c].kind
<1>1. /\ sending' \in [RosterCheck -> [step : Access!Mail!Steps, kind : Access!Alert]]
      /\ sending[c].step = "cleanup" /\ sending'[c].step = "idle"
      /\ k \in Access!Alert /\ sending'[c].kind = k
      /\ \A d \in RosterCheck : d # c => sending'[d] = sending[d]
    BY AccessMailStepped DEF Access!Mail!Cleanup, Access!Mail!Steps
<1>2. /\ alert' \in [Access!Alert -> {"none", "made", "sent"}]
      /\ alert'[k] = "none" /\ \A j \in Access!Alert : j # k => alert'[j] = alert[j]
    BY <1>1 DEF Access!Mail!Cleanup, Access!Mail!IInv, Access!Mail!Typed
<1>3. UNCHANGED <<taken, mailFaults>>
    BY DEF Access!Mail!Cleanup
<1> HIDE DEF k
<1>4. Access!Mail!Works(c, k)
    BY <1>1 DEF Access!Mail!Works, k
<1>5. \A d \in RosterCheck, j \in Access!Alert : (Access!Mail!Works(d, j)' <=> (Access!Mail!Works(d, j) /\ d # c))
    BY <1>1 DEF Access!Mail!Works, k
<1>6. \A d \in RosterCheck, j \in Access!Alert : j = k => ~Access!Mail!Works(d, j)'
    BY <1>1, <1>4, <1>5 DEF Access!Mail!IInv, Access!Mail!Alone
<1>7. Access!Mail!Alone'
    BY <1>2, <1>5, <1>6 DEF Access!Mail!IInv, Access!Mail!Alone
<1>8. taken[k] <= mailFaults
    BY <1>1, <1>4 DEF Access!Mail!IInv, Access!Mail!Counted
<1>9. Access!Mail!Counted'
    BY <1>1, <1>2, <1>3, <1>5, <1>6, <1>8 DEF Access!Mail!IInv, Access!Mail!Counted
<1>10. Access!Mail!RowMeansMail'
  <2> SUFFICES ASSUME NEW j \in Access!Alert, alert'[j] # "none", ~Access!Mail!AtWork(j)'
               PROVE  taken[j] > 0 \/ mailFaults > 0
      BY <1>3 DEF Access!Mail!RowMeansMail
  <2>1. j # k
      BY <1>2
  <2>2. ~Access!Mail!Works(c, j)
      BY <1>1, <2>1 DEF Access!Mail!Works, k
  <2>3. ~Access!Mail!AtWork(j)
      BY <1>5, <2>2 DEF Access!Mail!AtWork, Access!Mail!Works
  <2> QED
      BY <1>2, <2>1, <2>3 DEF Access!Mail!IInv, Access!Mail!Stands, Access!Mail!RowMeansMail
<1>11. Access!Mail!Stands'
    BY <1>1, <1>3, <1>10 DEF Access!Mail!IInv, Access!Mail!Stands
<1> QED
    BY <1>1, <1>2, <1>3, <1>7, <1>9, <1>11 DEF Access!Mail!IInv, Access!Mail!Typed

LEMMA AccessMailRecordStep ==
    ASSUME Access!Mail!IInv, NEW c \in RosterCheck, Access!Mail!Record(c)
    PROVE  Access!Mail!IInv'
<1> DEFINE k == sending[c].kind
<1>1. /\ sending' \in [RosterCheck -> [step : Access!Mail!Steps, kind : Access!Alert]]
      /\ sending[c].step = "record" /\ sending'[c].step = "idle"
      /\ k \in Access!Alert /\ sending'[c].kind = k
      /\ \A d \in RosterCheck : d # c => sending'[d] = sending[d]
    BY AccessMailStepped DEF Access!Mail!Record, Access!Mail!Steps
<1>2. /\ alert' \in [Access!Alert -> {"none", "made", "sent"}]
      /\ alert'[k] = "sent" /\ \A j \in Access!Alert : j # k => alert'[j] = alert[j]
    BY <1>1 DEF Access!Mail!Record, Access!Mail!IInv, Access!Mail!Typed
<1>3. UNCHANGED <<taken, mailFaults>>
    BY DEF Access!Mail!Record
<1>4. taken[k] > 0
    BY <1>1 DEF Access!Mail!IInv, Access!Mail!Stands
<1> HIDE DEF k
<1>5. Access!Mail!Works(c, k)
    BY <1>1 DEF Access!Mail!Works, k
<1>6. \A d \in RosterCheck, j \in Access!Alert : (Access!Mail!Works(d, j)' <=> (Access!Mail!Works(d, j) /\ d # c))
    BY <1>1 DEF Access!Mail!Works, k
<1>7. \A d \in RosterCheck, j \in Access!Alert : j = k => ~Access!Mail!Works(d, j)'
    BY <1>1, <1>5, <1>6 DEF Access!Mail!IInv, Access!Mail!Alone
<1>8. Access!Mail!Alone'
    BY <1>2, <1>6, <1>7 DEF Access!Mail!IInv, Access!Mail!Alone
<1>9. Access!Mail!Counted'
    BY <1>1, <1>2, <1>3, <1>6, <1>7 DEF Access!Mail!IInv, Access!Mail!Counted
<1>10. Access!Mail!RowMeansMail'
  <2> SUFFICES ASSUME NEW j \in Access!Alert, alert'[j] # "none", ~Access!Mail!AtWork(j)', j # k
               PROVE  taken[j] > 0 \/ mailFaults > 0
      BY <1>3, <1>4 DEF Access!Mail!RowMeansMail
  <2>1. ~Access!Mail!Works(c, j)
      BY <1>1 DEF Access!Mail!Works, k
  <2>2. ~Access!Mail!AtWork(j)
      BY <1>6, <2>1 DEF Access!Mail!AtWork, Access!Mail!Works
  <2> QED
      BY <1>2, <2>2 DEF Access!Mail!IInv, Access!Mail!Stands, Access!Mail!RowMeansMail
<1>11. Access!Mail!Stands'
    BY <1>1, <1>3, <1>10 DEF Access!Mail!IInv, Access!Mail!Stands
<1> QED
    BY <1>1, <1>2, <1>3, <1>8, <1>9, <1>11 DEF Access!Mail!IInv, Access!Mail!Typed

LEMMA AccessMailStopStep ==
    ASSUME Access!Mail!Bounds, Access!Mail!IInv, NEW c \in RosterCheck, Access!Mail!Stop(c)
    PROVE  Access!Mail!IInv'
<1>1. Access!Mail!Step(c, sending[c].step, "idle")
    BY DEF Access!Mail!Stop, Access!Mail!Step
<1>2. /\ sending' \in [RosterCheck -> [step : Access!Mail!Steps, kind : Access!Alert]]
      /\ sending'[c].step = "idle"
      /\ \A d \in RosterCheck : d # c => sending'[d] = sending[d]
    BY <1>1, AccessMailStepped DEF Access!Mail!Steps
<1>3. /\ UNCHANGED <<alert, taken>> /\ mailFaults' = mailFaults + 1 /\ mailFaults \in Nat
      /\ mailFaults' \in 0..AlertFaults /\ taken \in [Access!Alert -> Nat]
    BY DEF Access!Mail!Stop, Access!Mail!IInv, Access!Mail!Typed, Access!Mail!Bounds
<1>4. \A d \in RosterCheck, j \in Access!Alert : (Access!Mail!Works(d, j)' <=> (Access!Mail!Works(d, j) /\ d # c))
    BY <1>2 DEF Access!Mail!Works
<1>5. Access!Mail!Alone'
    BY <1>3, <1>4 DEF Access!Mail!IInv, Access!Mail!Alone
<1>6. Access!Mail!Counted'
  <2>1. \A j \in Access!Alert : taken[j] <= mailFaults'
      BY <1>3 DEF Access!Mail!IInv, Access!Mail!Counted
  <2> QED
      BY <1>3, <2>1 DEF Access!Mail!Counted
<1>7. Access!Mail!Stands'
    BY <1>2, <1>3 DEF Access!Mail!IInv, Access!Mail!Stands, Access!Mail!RowMeansMail
<1> QED
    BY <1>2, <1>3, <1>5, <1>6, <1>7 DEF Access!Mail!IInv, Access!Mail!Typed

LEMMA AccessMailInductive ==
    ASSUME Access!Mail!Bounds
    PROVE  Access!Mail!IInv /\ [Access!Mail!Next]_(Access!Mail!mailVars) => Access!Mail!IInv'
<1> SUFFICES ASSUME Access!Mail!IInv, [Access!Mail!Next]_(Access!Mail!mailVars)
             PROVE  Access!Mail!IInv'
    OBVIOUS
<1>1. CASE UNCHANGED Access!Mail!mailVars
    BY <1>1 DEF Access!Mail!mailVars, Access!Mail!IInv, Access!Mail!Typed,
       Access!Mail!Alone, Access!Mail!Counted, Access!Mail!Stands, Access!Mail!Works,
       Access!Mail!RowMeansMail, Access!Mail!AtWork
<1>2. ASSUME NEW c \in RosterCheck, Access!Mail!MakeRow(c) PROVE Access!Mail!IInv'
    BY <1>2, AccessMailMakeStep, AccessMailSkipStep DEF Access!Mail!MakeRow
<1>3. ASSUME NEW c \in RosterCheck, Access!Mail!Work(c) PROVE Access!Mail!IInv'
    BY <1>2, <1>3, AccessMailSendStep, AccessMailRefuseStep, AccessMailCleanupStep,
       AccessMailRecordStep DEF Access!Mail!Work
<1> QED
    BY <1>1, <1>3, AccessMailAskStep, AccessMailLoseStep, AccessMailStopStep
       DEF Access!Mail!Next, Access!Mail!MailNext

LEMMA AccessMailProperties ==
    ASSUME Access!Mail!Bounds
    PROVE  Access!Mail!IInv => Access!Mail!MailTypeOK /\ Access!Mail!OneMailPerKind /\ Access!Mail!RowMeansMail
<1> SUFFICES ASSUME Access!Mail!IInv PROVE Access!Mail!MailTypeOK
    BY DEF Access!Mail!IInv, Access!Mail!Counted, Access!Mail!OneMailPerKind,
       Access!Mail!Stands
<1>1. ASSUME NEW k \in Access!Alert PROVE taken[k] \in 0..(AlertFaults + 1)
    BY DEF Access!Mail!IInv, Access!Mail!Typed, Access!Mail!Counted, Access!Mail!Bounds
<1> QED
    BY <1>1 DEF Access!Mail!IInv, Access!Mail!Typed, Access!Mail!Steps,
       Access!Mail!MailTypeOK

-----------------------------------------------------------------------------
(* The access to the MLS board and its daily check.                        *)

LEMMA AccessMailBounds == Access!Bounds => Access!Mail!Bounds
<1> SUFFICES ASSUME Access!Bounds PROVE Access!Alert # {} /\ AlertFaults \in Nat
    BY DEF Access!Mail!Bounds
<1>1. PICK m \in Membership, d \in Day : TRUE
    BY DEF Access!Bounds
<1>2. <<m, d>> \in Access!Alert
    BY <1>1 DEF Access!Alert
<1> QED
    BY <1>2 DEF Access!Bounds

\* A check as it may be between two steps.
Checking == {q \in [step : {"idle", "read", "compare", "alert"}, flagged : BOOLEAN,
                    membership : Membership \cup {Access!None}, status : Access!Standing, on : Day] :
                q.step # "idle" => q.membership \in Membership}

LEMMA AccessChecks ==
    ASSUME Access!Bounds
    PROVE  /\ Access!IInv => check \in [RosterCheck -> Checking]
           /\ Access!Idle \in Checking
<1>1. Access!IInv => check \in [RosterCheck -> Checking]
    BY DEF Access!IInv, Access!Typed, Access!Looks, Checking
<1>2. Access!Idle \in Checking
    BY DEF Access!Idle, Checking, Access!Standing, Access!None, Access!Bounds
<1> QED
    BY <1>1, <1>2

\* What a step has to leave.
LEMMA AccessAgain ==
    ASSUME roster' \in [Membership -> Access!Standing],
           access' \in [membership : Membership \cup {Access!None}, flagged : BOOLEAN],
           linking' \in Membership \cup {Access!None},
           check' \in [RosterCheck -> Checking],
           day' \in Day, rosterChanges' \in 0..RosterChanges, Access!Mail!IInv'
    PROVE  Access!IInv'
    BY DEF Access!IInv, Access!Typed, Access!Looks, Checking

\* The invariant of the mails is about their variables only.
LEMMA AccessMailStays ==
    ASSUME Access!Mail!IInv, UNCHANGED Access!mailVars PROVE Access!Mail!IInv'
    BY DEF Access!mailVars, Access!Mail!IInv, Access!Mail!Typed, Access!Mail!Alone,
       Access!Mail!Counted, Access!Mail!Stands, Access!Mail!Works, Access!Mail!RowMeansMail,
       Access!Mail!AtWork

\* A fault that leaves the mails alone.
LEMMA AccessMailFault ==
    ASSUME Access!Mail!IInv, Access!Bounds, mailFaults < AlertFaults,
           mailFaults' = mailFaults + 1, UNCHANGED <<alert, taken, sending>>
    PROVE  Access!Mail!IInv'
<1>1. mailFaults \in Nat /\ mailFaults' \in 0..AlertFaults
    BY DEF Access!Bounds, Access!Mail!IInv, Access!Mail!Typed
<1>2. taken \in [Access!Alert -> Nat]
    BY DEF Access!Mail!IInv, Access!Mail!Typed
<1>3. Access!Mail!Typed' /\ Access!Mail!Alone'
    BY <1>1 DEF Access!Mail!IInv, Access!Mail!Typed, Access!Mail!Alone, Access!Mail!Works
<1>4. Access!Mail!Counted'
    BY <1>1, <1>2 DEF Access!Mail!IInv, Access!Mail!Counted, Access!Mail!Works
<1>5. Access!Mail!Stands'
    BY <1>1 DEF Access!Mail!IInv, Access!Mail!Stands, Access!Mail!RowMeansMail,
       Access!Mail!AtWork
<1> QED
    BY <1>3, <1>4, <1>5 DEF Access!Mail!IInv

LEMMA AccessInitially == ASSUME Access!Bounds PROVE Access!Init => Access!IInv
<1> SUFFICES ASSUME Access!Init PROVE Access!IInv
    OBVIOUS
<1>1. Access!Mail!IInv
    BY AccessMailInitially, AccessMailBounds DEF Access!Init
<1>2. /\ Access!Idle.step = "idle"
      /\ Access!Idle \in [step : {"idle", "read", "compare", "alert"}, flagged : BOOLEAN,
                          membership : Membership \cup {Access!None}, status : Access!Standing,
                          on : Day]
    BY DEF Access!Idle, Access!Standing, Access!None, Access!Bounds
<1>3. check = [r \in RosterCheck |-> Access!Idle]
    BY DEF Access!Init
<1>4. access \in [membership : Membership \cup {Access!None}, flagged : BOOLEAN]
    BY DEF Access!Init
<1>5. roster \in [Membership -> Access!Standing] /\ linking = Access!None
    BY DEF Access!Init
<1>6. day \in Day /\ rosterChanges \in 0..RosterChanges
    BY DEF Access!Init, Access!Bounds
<1>7. Access!Typed /\ Access!Looks
    BY <1>2, <1>3, <1>4, <1>5, <1>6 DEF Access!Typed, Access!Looks
<1> QED
    BY <1>1, <1>7 DEF Access!IInv

-----------------------------------------------------------------------------

\* One check moves to a step it may be at.
LEMMA AccessMoved ==
    ASSUME Access!Bounds, Access!IInv, NEW r \in RosterCheck, NEW q \in Checking,
           check' = [check EXCEPT ![r] = q]
    PROVE  check' \in [RosterCheck -> Checking]
    BY AccessChecks

LEMMA AccessLinkStep ==
    ASSUME Access!Bounds, Access!IInv, (\E m \in Membership : Access!Verify(m)) \/ Access!Link
    PROVE  Access!IInv'
<1>1. /\ access' \in [membership : Membership \cup {Access!None}, flagged : BOOLEAN]
      /\ linking' \in Membership \cup {Access!None}
    BY DEF Access!IInv, Access!Typed, Access!Verify, Access!Link
<1>2. UNCHANGED <<roster, check, day, rosterChanges>> /\ UNCHANGED Access!mailVars
    BY DEF Access!Verify, Access!Link
<1>3. Access!Mail!IInv'
    BY <1>2, AccessMailStays DEF Access!IInv
<1> QED
    BY <1>1, <1>2, <1>3, AccessAgain, AccessChecks DEF Access!IInv, Access!Typed

LEMMA AccessCheckStep ==
    ASSUME Access!Bounds, Access!IInv, NEW r \in RosterCheck, Access!Check(r)
    PROVE  Access!IInv'
<1>1. PICK q : q = [Access!Idle EXCEPT !.step = "read", !.membership = access.membership,
                                       !.flagged = access.flagged]
    OBVIOUS
<1>2. q \in Checking
    BY <1>1 DEF Access!Check, Access!Bounds, Access!IInv, Access!Typed, Access!Idle, Checking, Access!Standing,
       Access!None
<1>3. check' = [check EXCEPT ![r] = q]
    BY <1>1 DEF Access!Check
<1>4. UNCHANGED <<roster, access, linking, day, rosterChanges>> /\ UNCHANGED Access!mailVars
    BY DEF Access!Check
<1>5. Access!Mail!IInv'
    BY <1>4, AccessMailStays DEF Access!IInv
<1> QED
    BY <1>2, <1>3, <1>4, <1>5, AccessMoved, AccessAgain DEF Access!IInv, Access!Typed

LEMMA AccessReadStep ==
    ASSUME Access!Bounds, Access!IInv, NEW r \in RosterCheck, Access!ReadRoster(r)
    PROVE  Access!IInv'
<1>1. PICK q : q = [check[r] EXCEPT !.step = "compare", !.status = roster[check[r].membership]]
    OBVIOUS
<1>2. check[r] \in Checking /\ check[r].step = "read"
    BY AccessChecks DEF Access!ReadRoster
<1>3. roster[check[r].membership] \in Access!Standing
    BY <1>2 DEF Checking, Access!IInv, Access!Typed
<1>4. q \in Checking
    BY <1>1, <1>2, <1>3 DEF Checking
<1>5. check' = [check EXCEPT ![r] = q]
    BY <1>1, AccessChecks DEF Access!ReadRoster
<1>6. UNCHANGED <<roster, access, linking, day, rosterChanges>> /\ UNCHANGED Access!mailVars
    BY DEF Access!ReadRoster
<1>7. Access!Mail!IInv'
    BY <1>6, AccessMailStays DEF Access!IInv
<1> QED
    BY <1>4, <1>5, <1>6, <1>7, AccessMoved, AccessAgain DEF Access!IInv, Access!Typed

LEMMA AccessCompareStep ==
    ASSUME Access!Bounds, Access!IInv, NEW r \in RosterCheck, Access!Compare(r)
    PROVE  Access!IInv'
<1>1. PICK q : q = [check[r] EXCEPT !.step = "alert", !.on = day]
    OBVIOUS
<1>2. check[r] \in Checking /\ check[r].step = "compare"
    BY AccessChecks DEF Access!Compare
<1>3. q \in Checking
    BY <1>1, <1>2 DEF Checking, Access!IInv, Access!Typed
<1>4. check' = [check EXCEPT ![r] = q] \/ check' = [check EXCEPT ![r] = Access!Idle]
    BY <1>1 DEF Access!Compare
<1>5. check' \in [RosterCheck -> Checking]
    BY <1>3, <1>4, AccessMoved, AccessChecks
<1>6. access' \in [membership : Membership \cup {Access!None}, flagged : BOOLEAN]
    BY DEF Access!Compare, Access!IInv, Access!Typed
<1>7. UNCHANGED <<roster, linking, day, rosterChanges>> /\ UNCHANGED Access!mailVars
    BY DEF Access!Compare
<1>8. Access!Mail!IInv'
    BY <1>7, AccessMailStays DEF Access!IInv
<1> QED
    BY <1>5, <1>6, <1>7, <1>8, AccessAgain DEF Access!IInv, Access!Typed

LEMMA AccessAlertStep ==
    ASSUME Access!Bounds, Access!IInv, NEW r \in RosterCheck, Access!SendAlert(r)
    PROVE  Access!IInv'
<1>1. check[r] \in Checking /\ check[r].step = "alert"
    BY AccessChecks DEF Access!SendAlert
<1>2. <<check[r].membership, check[r].on>> \in Access!Alert
    BY <1>1 DEF Checking, Access!Alert, Access!IInv, Access!Typed
<1>3. Access!Mail!Ask(r, <<check[r].membership, check[r].on>>)
    BY DEF Access!SendAlert
<1>4. Access!Mail!IInv'
    BY <1>2, <1>3, AccessMailAskStep DEF Access!IInv
<1>5. check' = [check EXCEPT ![r] = Access!Idle] /\ UNCHANGED <<roster, access, linking, day, rosterChanges>>
    BY DEF Access!SendAlert
<1> QED
    BY <1>4, <1>5, AccessChecks, AccessMoved, AccessAgain DEF Access!IInv, Access!Typed

LEMMA AccessStopStep ==
    ASSUME Access!Bounds, Access!IInv, NEW r \in RosterCheck, Access!StopCheck(r)
    PROVE  Access!IInv'
<1>1. Access!Mail!IInv'
    BY AccessMailFault DEF Access!StopCheck, Access!IInv
<1>2. check' = [check EXCEPT ![r] = Access!Idle] /\ UNCHANGED <<roster, access, linking, day, rosterChanges>>
    BY DEF Access!StopCheck
<1> QED
    BY <1>1, <1>2, AccessChecks, AccessMoved, AccessAgain DEF Access!IInv, Access!Typed

LEMMA AccessWorldStep ==
    ASSUME Access!Bounds, Access!IInv,
           Access!NextDay \/ \E m \in Membership, s \in Access!Standing : Access!Sync(m, s)
    PROVE  Access!IInv'
<1>1. roster' \in [Membership -> Access!Standing]
    BY DEF Access!NextDay, Access!Sync, Access!IInv, Access!Typed
<1>2. day' \in Day /\ rosterChanges' \in 0..RosterChanges
    BY DEF Access!NextDay, Access!Sync, Access!IInv, Access!Typed, Access!Bounds
<1>3. UNCHANGED <<access, linking, check>> /\ UNCHANGED Access!mailVars
    BY DEF Access!NextDay, Access!Sync
<1>4. Access!Mail!IInv'
    BY <1>3, AccessMailStays DEF Access!IInv
<1> QED
    BY <1>1, <1>2, <1>3, <1>4, AccessChecks, AccessAgain DEF Access!IInv, Access!Typed

LEMMA AccessDeliverStep == ASSUME Access!Bounds, Access!IInv, Access!Deliver PROVE Access!IInv'
<1>1. Access!Mail!IInv'
    BY AccessMailInductive, AccessMailBounds DEF Access!Deliver, Access!IInv, Access!Mail!Next
<1> QED
    BY <1>1, AccessChecks, AccessAgain DEF Access!Deliver, Access!IInv, Access!Typed

LEMMA AccessInductive ==
    ASSUME Access!Bounds
    PROVE  Access!IInv /\ [Access!Next]_(Access!vars) => Access!IInv'
<1> SUFFICES ASSUME Access!IInv, [Access!Next]_(Access!vars) PROVE Access!IInv'
    OBVIOUS
<1>1. CASE UNCHANGED Access!vars
  <2>1. UNCHANGED <<roster, access, linking, check, day, rosterChanges>> /\ UNCHANGED Access!mailVars
      BY <1>1 DEF Access!vars, Access!mailVars
  <2>2. Access!Mail!IInv'
      BY <2>1, AccessMailStays DEF Access!IInv
  <2> QED
      BY <2>1, <2>2, AccessChecks, AccessAgain DEF Access!IInv, Access!Typed
<1>2. ASSUME NEW r \in RosterCheck,
             Access!Check(r) \/ Access!ReadRoster(r) \/ Access!Compare(r) \/ Access!SendAlert(r)
                \/ Access!StopCheck(r)
      PROVE  Access!IInv'
    BY <1>2, AccessCheckStep, AccessReadStep, AccessCompareStep, AccessAlertStep, AccessStopStep
<1> QED
    BY <1>1, <1>2, AccessLinkStep, AccessWorldStep, AccessDeliverStep DEF Access!Next

LEMMA AccessProperties == ASSUME Access!Bounds PROVE Access!IInv => Access!TypeOK
    BY AccessMailProperties, AccessMailBounds DEF Access!IInv, Access!TypeOK

-----------------------------------------------------------------------------
(* What MCBackground promises.                                             *)

\* Every part does its own steps or stands still.
LEMMA EachStep ==
    ASSUME [AllNext]_allVars
    PROVE  /\ [Next]_vars /\ [Sync!Next]_(Sync!vars) /\ [Risk!Next]_(Risk!vars)
           /\ [Access!Next]_(Access!vars) /\ [Chat!Next]_(Chat!vars)
<1>1. [Next]_vars
    BY Zenon DEF AllNext, Only, allVars, leadVars
<1>2. [Access!Next]_(Access!vars)
    BY Zenon DEF AllNext, Only, allVars, accessVars, Access!vars
<1>3. [Sync!Next]_(Sync!vars) /\ [Risk!Next]_(Risk!vars) /\ [Chat!Next]_(Chat!vars)
    BY Zenon DEF AllNext, Only, allVars, syncVars, riskVars, chatVars, Sync!vars, Risk!vars,
       Chat!vars
<1> QED
    BY <1>1, <1>2, <1>3

\* The state of every part keeps its types, the one of the lead response agent too,
\* whichever part moves (LeadResponseService, TransactionSyncService, runRiskScan,
\* checkMlsStatuses, chatWithTools).
THEOREM TypesAreKept == AllSpec => []AllTypesOK
<1> DEFINE Inv == IInv /\ Sync!IInv /\ Risk!IInv /\ Access!IInv /\ Chat!IInv
<1>1. AllInit => Inv
    BY InitIInv, SyncInitially, RiskInitially, AccessInitially, ChatInitially,
       BackgroundAssumption DEF AllInit
<1>2. Inv /\ [AllNext]_allVars => Inv'
    BY EachStep, NextIInv, SyncInductive, RiskInductive, AccessInductive, ChatInductive,
       BackgroundAssumption
<1>3. Inv => AllTypesOK
  <2>1. IInv => TypeOK
      BY DEF IInv
  <2> QED
      BY <2>1, SyncProperties, RiskProperties, AccessProperties, ChatProperties,
         BackgroundAssumption DEF AllTypesOK
<1> QED
    BY <1>1, <1>2, <1>3, PTL DEF AllSpec

\* In the run of all that the API does by itself, a participant of a mail is added
\* once for each sync run that overlaps at most; and a transaction has a second open risk
\* action only where one scan queued it while another was running, and no more than
\* scans overlap (TransactionSyncService, runRiskScan).
THEOREM WorkStaysBounded == AllSpec => []WorkIsBounded
<1> DEFINE Inv == Sync!IInv /\ Risk!IInv
<1>1. AllInit => Inv
    BY SyncInitially, RiskInitially, BackgroundAssumption DEF AllInit
<1>2. Inv /\ [AllNext]_allVars => Inv'
    BY EachStep, SyncInductive, RiskInductive, BackgroundAssumption
<1>3. Inv => WorkIsBounded
    BY SyncProperties, RiskProperties, BackgroundAssumption DEF WorkIsBounded
<1> QED
    BY <1>1, <1>2, <1>3, PTL DEF AllSpec

\* A model that is asked again finds a result for each of its calls of functions, and
\* every card is of something that was the agent's own when a tool read it
\* (chatWithTools).
THEOREM CallsGetAnswers == AllSpec => []CallsAreAnswered
<1>1. AllInit => Chat!IInv
    BY ChatInitially, BackgroundAssumption DEF AllInit
<1>2. Chat!IInv /\ [AllNext]_allVars => Chat!IInv'
    BY EachStep, ChatInductive, BackgroundAssumption
<1>3. Chat!IInv => CallsAreAnswered
    BY ChatProperties DEF CallsAreAnswered
<1> QED
    BY <1>1, <1>2, <1>3, PTL DEF AllSpec

\* "DISMISSED messages are permanent": no step of a sync run brings one back, of
\* however many that overlap, crash and fail (persistMessage).
THEOREM DismissedForever == AllSpec => DismissedStays
<1> DEFINE Stay == \A m \in Message :
                     mail[m] = "DISMISSED" /\ sync' # sync => mail'[m] = "DISMISSED"
<1>1. AllInit => Sync!IInv
    BY SyncInitially, BackgroundAssumption DEF AllInit
<1>2. Sync!IInv /\ [AllNext]_allVars => Sync!IInv'
    BY EachStep, SyncInductive, BackgroundAssumption
<1>3. Sync!IInv /\ [AllNext]_allVars => [Stay]_(Sync!vars)
    BY EachStep, SyncStays
<1> QED
    BY <1>1, <1>2, <1>3, PTL DEF AllSpec, DismissedStays, Sync!DismissedStays

\* The alert about a membership goes out once a day, again only after a fault, and one
\* that was refused never blocks the next attempt, whichever checks overlap or stop
\* (checkMlsStatuses, sendInternalMlsStatusFlaggedAlert).
THEOREM AlertsGoOnce == AllSpec => [](Access!OneMailPerKind /\ Access!RowMeansMail)
<1>1. AllInit => Access!IInv
    BY AccessInitially, BackgroundAssumption DEF AllInit
<1>2. Access!IInv /\ [AllNext]_allVars => Access!IInv'
    BY EachStep, AccessInductive, BackgroundAssumption
<1>3. Access!IInv => Access!OneMailPerKind /\ Access!RowMeansMail
    BY AccessMailProperties, AccessMailBounds, BackgroundAssumption
       DEF Access!IInv, Access!OneMailPerKind, Access!RowMeansMail
<1> QED
    BY <1>1, <1>2, <1>3, PTL DEF AllSpec
=============================================================================
