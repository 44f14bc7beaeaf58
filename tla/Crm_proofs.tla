----------------------------- MODULE Crm_proofs -----------------------------
(***************************************************************************)
(* Proofs about the components of MCComponents that work on transactions   *)
(* and contacts: the slots and folders of documents, the setup from        *)
(* milestones, the copies of calendar events, the scans for neglected      *)
(* contacts, the tracks, links and activity of a contact, and the          *)
(* documents contacts and transactions are searched by, for any constants  *)
(* the assumptions of MCComponents allow.  v1 to v9 are the variables of   *)
(* a component as its instance names them.                                 *)
(***************************************************************************)
EXTENDS Accounts_proofs, NaturalsInduction, FunctionTheorems

\* Two sets that differ in one element at most.
LEMMA OneOff ==
    ASSUME NEW S, NEW T, IsFiniteSet(S), NEW c, S \ {c} = T \ {c}
    PROVE  /\ IsFiniteSet(T) /\ Cardinality(S) \in Nat /\ Cardinality(T) \in Nat
           /\ c \in S /\ c \in T => Cardinality(T) = Cardinality(S)
           /\ c \notin S /\ c \notin T => Cardinality(T) = Cardinality(S)
           /\ c \in S /\ c \notin T => Cardinality(T) = Cardinality(S) - 1
           /\ c \notin S /\ c \in T => Cardinality(T) = Cardinality(S) + 1
<1> DEFINE R == S \ {c}
<1>1. IsFiniteSet(R) /\ Cardinality(R) \in Nat /\ Cardinality(S) \in Nat
    BY FS_Subset, FS_CardinalityType
<1>2. IsFiniteSet(R \cup {c}) /\ Cardinality(R \cup {c}) = Cardinality(R) + 1
    BY <1>1, FS_AddElement
<1>3. /\ c \in S => S = R \cup {c}
      /\ c \notin S => S = R
      /\ c \in T => T = R \cup {c}
      /\ c \notin T => T = R
    OBVIOUS
<1> HIDE DEF R
<1>4. /\ c \in S => Cardinality(S) = Cardinality(R) + 1
      /\ c \notin S => Cardinality(S) = Cardinality(R)
    BY <1>2, <1>3
<1>5. /\ c \in T => IsFiniteSet(T) /\ Cardinality(T) = Cardinality(R) + 1
      /\ c \notin T => IsFiniteSet(T) /\ Cardinality(T) = Cardinality(R)
    BY <1>1, <1>2, <1>3
<1> QED
    BY <1>1, <1>4, <1>5

\* Two parts of a finite set that have nothing in common.
LEMMA Disjoint ==
    ASSUME NEW S, IsFiniteSet(S), NEW A \in SUBSET S, NEW B \in SUBSET S, A \cap B = {}
    PROVE  /\ IsFiniteSet(A) /\ IsFiniteSet(B)
           /\ Cardinality(A) \in Nat /\ Cardinality(B) \in Nat /\ Cardinality(S) \in Nat
           /\ Cardinality(A) + Cardinality(B) <= Cardinality(S)
<1> DEFINE U == A \cup B
<1>4. U \in SUBSET S
    OBVIOUS
<1> HIDE DEF U
<1>1. /\ IsFiniteSet(A) /\ IsFiniteSet(B) /\ IsFiniteSet(U)
      /\ Cardinality(U) <= Cardinality(S)
    BY <1>4, FS_Subset
<1>2. /\ Cardinality(A) \in Nat /\ Cardinality(B) \in Nat /\ Cardinality(S) \in Nat
    BY <1>1, FS_CardinalityType
<1>3. Cardinality(A \cap B) = 0
    BY FS_EmptySet
<1>5. Cardinality(U) = Cardinality(A) + Cardinality(B) - Cardinality(A \cap B)
    BY <1>1, FS_Union DEF U
<1> QED
    BY <1>1, <1>2, <1>3, <1>5

\* What holds of no least number holds of none: this is how induction is used.
LEMMA Least ==
    ASSUME NEW T \in SUBSET Nat, T # {}
    PROVE  \E k \in T : \A j \in T : k <= j
<1> DEFINE R == {ss \in Nat \X Nat : ss[1] < ss[2]}
<1>1. IsWellFoundedOn(R, Nat)
    BY NatLessThanWellFounded DEF OpToRel
<1> HIDE DEF R
<1>2. PICK k \in T : \A j \in T : ~ (<<j, k>> \in R)
    BY <1>1, WFMin
<1>3. \A j \in T : ~ (j < k)
    BY <1>2 DEF R
<1> QED
    BY <1>3

\* A finite set of numbers has a greatest: the one with the fewest above it.
LEMMA Greatest ==
    ASSUME NEW S \in SUBSET Nat, IsFiniteSet(S), S # {}
    PROVE  \E l \in S : \A k \in S : k <= l
<1> DEFINE Above(l) == {k \in S : k > l}
           T == {Cardinality(Above(l)) : l \in S}
<1>1. \A l \in S : Above(l) \in SUBSET S /\ IsFiniteSet(Above(l)) /\ Cardinality(Above(l)) \in Nat
    BY FS_Subset, FS_CardinalityType
<1>2. T \in SUBSET Nat /\ T # {}
    BY <1>1
<1>3. PICK c \in T : \A j \in T : c <= j
    BY <1>2, Least
<1>4. PICK l \in S : c = Cardinality(Above(l))
    BY <1>3
<1>5. ASSUME NEW k \in S, k > l PROVE FALSE
  <2>0. l \in Nat /\ k \in Nat /\ ~(k > k) /\ \A j \in S : j > k => j > l
    <3>1. l \in Nat /\ k \in Nat /\ \A j \in S : j \in Nat
        OBVIOUS
    <3> QED
        BY <3>1, <1>5
  <2>1. Above(k) \in SUBSET Above(l) /\ k \in Above(l) /\ k \notin Above(k)
      BY <2>0, <1>5
  <2>2. IsFiniteSet(Above(l))
      BY <1>1
  <2> HIDE DEF Above
  <2>3. Cardinality(Above(k)) <= Cardinality(Above(l)) /\ Cardinality(Above(k)) # Cardinality(Above(l))
      BY <2>1, <2>2, FS_Subset
  <2>4. Cardinality(Above(l)) <= Cardinality(Above(k))
      BY <1>3, <1>4
  <2>5. Cardinality(Above(k)) \in Nat /\ Cardinality(Above(l)) \in Nat
      BY <1>1
  <2> QED
      BY <2>3, <2>4, <2>5
<1>6. \A k \in S : k <= l
  <2> TAKE k \in S
  <2>1. k \in Nat /\ l \in Nat
      OBVIOUS
  <2> QED
      BY <2>1, <1>5
<1> QED
    BY <1>6

-----------------------------------------------------------------------------
(* Slots and folders.                                                      *)
(* v1 alive, v2 doc, v3 known, v4 folder, v5 made, v6 req, v7 faults.      *)

\* The finite sets of the instance are those of FiniteSets.
LEMMA DocsSets ==
    \A S : /\ Docs!IsFiniteSet(S) <=> IsFiniteSet(S)
          /\ Docs!Cardinality(S) = Cardinality(S)
    BY DEF Docs!IsFiniteSet, IsFiniteSet, Docs!Cardinality, Cardinality

LEMMA DocsInitially == ASSUME Docs!Bounds PROVE Docs!Init => Docs!IInv
    BY DocsSets DEF Docs!Bounds, Docs!Init, Docs!IInv, Docs!TypeOK, Docs!MatchHas,
       Docs!SlotsConsistent, Docs!Document, Docs!Requests, Docs!Idle, Docs!NoDoc, Docs!OnDoc

-----------------------------------------------------------------------------
(* What happens to the requests.                                           *)

\* A request goes where its step says.
LEMMA DocsReqSet ==
    ASSUME Docs!IInv, NEW c \in Request, NEW q \in Docs!Requests,
           v6' = [v6 EXCEPT ![c] = q],
           q.pc \in Docs!OnDoc => q.slot \in Docs!Slot,
           q.pc = "match" => q.att \in Attachment
    PROVE  /\ v6' \in [Request -> Docs!Requests]
           /\ \A d \in Request : v6'[d].pc \in Docs!OnDoc => v6'[d].slot \in Docs!Slot
           /\ Docs!MatchHas'
    BY DEF Docs!IInv, Docs!TypeOK, Docs!MatchHas

LEMMA DocsAnswerSet ==
    ASSUME Docs!Bounds, Docs!IInv, NEW c \in Request, Docs!Answer(c)
    PROVE  /\ v6' \in [Request -> Docs!Requests]
           /\ \A d \in Request : v6'[d].pc \in Docs!OnDoc => v6'[d].slot \in Docs!Slot
           /\ Docs!MatchHas'
<1>1. Docs!Idle \in Docs!Requests /\ Docs!Idle.pc = "idle"
    BY DocsSets DEF Docs!Bounds, Docs!Idle, Docs!Requests
<1>2. "idle" \notin Docs!OnDoc
    BY DEF Docs!OnDoc
<1> QED
    BY <1>1, <1>2, DocsReqSet DEF Docs!Answer

LEMMA DocsGoesSet ==
    ASSUME Docs!Bounds, Docs!IInv, NEW c \in Request, NEW pc \in Docs!OnDoc,
           NEW s \in Docs!Slot, NEW a \in Attachment \cup {Docs!NoAtt},
           pc = "match" => a \in Attachment,
           Docs!Goes(c, pc, s, a)
    PROVE  /\ v6' \in [Request -> Docs!Requests]
           /\ \A d \in Request : v6'[d].pc \in Docs!OnDoc => v6'[d].slot \in Docs!Slot
           /\ Docs!MatchHas'
<1> DEFINE q == [pc |-> pc, slot |-> s, att |-> a, was |-> v2[s].att, mine |-> 0]
<1>1. v2[s].att \in Attachment \cup {Docs!NoAtt}
    BY DEF Docs!IInv, Docs!TypeOK, Docs!Document
<1>2. s \in 0..MaxSlots
    BY DocsSets DEF Docs!Bounds, Docs!Slot
<1>3. q \in Docs!Requests /\ q.pc = pc /\ q.slot = s /\ q.att = a
    BY <1>1, <1>2 DEF Docs!Requests
<1>4. v6' = [v6 EXCEPT ![c] = q]
    BY DEF Docs!Goes
<1> HIDE DEF q
<1> QED
    BY <1>3, <1>4, DocsReqSet

-----------------------------------------------------------------------------
(* What happens to the rows.                                               *)

\* One row is written, which keeps its attachment or holds none.
LEMMA DocsRowSet ==
    ASSUME Docs!Bounds, Docs!IInv, NEW s \in Docs!Slot, NEW d \in Docs!Document,
           v2' = [v2 EXCEPT ![s] = d],
           d.att \in {Docs!NoAtt, v2[s].att},
           d.status = "MISSING" => d.att = Docs!NoAtt,
           d.status = "MATCHED" => d.att # Docs!NoAtt
    PROVE  v2' \in [Docs!Slot -> Docs!Document] /\ Docs!SlotsConsistent'
<1>1. v2' \in [Docs!Slot -> Docs!Document] /\ v2'[s] = d /\ \A t \in Docs!Slot : t # s => v2'[t] = v2[t]
    BY DEF Docs!IInv, Docs!TypeOK
<1>2. ASSUME NEW t \in Docs!Slot, NEW u \in Docs!Slot, t # u, v2'[t].att = v2'[u].att
      PROVE  v2'[t].att = Docs!NoAtt
    BY <1>1, <1>2 DEF Docs!IInv, Docs!SlotsConsistent
<1> QED
    BY <1>1, <1>2 DEF Docs!IInv, Docs!SlotsConsistent

\* An update by id of a row that may be gone.
LEMMA DocsUpdateSet ==
    ASSUME Docs!Bounds, Docs!IInv, NEW s \in Docs!Slot, NEW d, Docs!Update(s, d),
           Docs!Exists(s) => d \in Docs!Document,
           d.att \in {Docs!NoAtt, v2[s].att},
           d.status = "MISSING" => d.att = Docs!NoAtt,
           d.status = "MATCHED" => d.att # Docs!NoAtt
    PROVE  v2' \in [Docs!Slot -> Docs!Document] /\ Docs!SlotsConsistent'
<1>1. CASE Docs!Exists(s)
    BY <1>1, DocsRowSet DEF Docs!Update
<1>2. CASE ~Docs!Exists(s)
    BY <1>2 DEF Docs!Update, Docs!IInv, Docs!TypeOK, Docs!SlotsConsistent
<1> QED
    BY <1>1, <1>2

LEMMA DocsMissingDoc ==
    ASSUME NEW d \in Def \cup {Custom}
    PROVE  Docs!Missing(d) \in Docs!Document
    BY DEF Docs!Missing, Docs!Document

-----------------------------------------------------------------------------
(* The steps that write rows.                                              *)

LEMMA DocsCreateStep ==
    ASSUME Docs!Bounds, Docs!IInv, NEW c \in Request, Docs!CreateSlots(c)
    PROVE  Docs!IInv'
<1>1. /\ v6' \in [Request -> Docs!Requests]
      /\ \A d \in Request : v6'[d].pc \in Docs!OnDoc => v6'[d].slot \in Docs!Slot
      /\ Docs!MatchHas'
    BY DocsAnswerSet, DocsSets DEF Docs!CreateSlots
<1>2. v2' \in [Docs!Slot -> Docs!Document] /\ Docs!SlotsConsistent'
  <2>1. CASE UNCHANGED v2
      BY <2>1 DEF Docs!IInv, Docs!TypeOK, Docs!SlotsConsistent
  <2>2. CASE \E f \in [Def -> Docs!Free] :
                v2' = [s \in Docs!Slot |-> IF \E d \in Def : f[d] = s
                                       THEN Docs!Missing(CHOOSE d \in Def : f[d] = s) ELSE v2[s]]
    <3>1. PICK f \in [Def -> Docs!Free] :
             v2' = [s \in Docs!Slot |-> IF \E d \in Def : f[d] = s
                                    THEN Docs!Missing(CHOOSE d \in Def : f[d] = s) ELSE v2[s]]
        BY <2>2
    <3>2. ASSUME NEW s \in Docs!Slot
          PROVE  v2'[s] = v2[s] \/ \E d \in Def : v2'[s] = Docs!Missing(d)
      <4>1. CASE \E d \in Def : f[d] = s
        <5>1. (CHOOSE d \in Def : f[d] = s) \in Def
            BY <4>1
        <5> QED
            BY <3>1, <4>1, <5>1
      <4> QED
          BY <3>1, <4>1
    <3>3. \A d : Docs!Missing(d).att = Docs!NoAtt /\ Docs!Missing(d).status = "MISSING"
        BY DEF Docs!Missing
    <3>4. v2' \in [Docs!Slot -> Docs!Document]
        BY <3>1, <3>2, DocsMissingDoc DEF Docs!IInv, Docs!TypeOK
    <3> QED
        BY <3>2, <3>3, <3>4 DEF Docs!IInv, Docs!SlotsConsistent
  <2> QED
      BY <2>1, <2>2, DocsSets DEF Docs!CreateSlots
<1> QED
    BY <1>1, <1>2, DocsSets DEF Docs!CreateSlots, Docs!IInv, Docs!TypeOK

LEMMA DocsAddStep == ASSUME Docs!Bounds, Docs!IInv, Docs!AddCustom PROVE Docs!IInv'
<1>1. PICK s \in Docs!Slot : v2' = [v2 EXCEPT ![s] = Docs!Missing(Custom)]
    BY DEF Docs!AddCustom, Docs!Free
<1>2. /\ Docs!Missing(Custom) \in Docs!Document
      /\ Docs!Missing(Custom).att = Docs!NoAtt
      /\ Docs!Missing(Custom).status = "MISSING"
    BY DocsMissingDoc DEF Docs!Missing
<1>3. v2' \in [Docs!Slot -> Docs!Document] /\ Docs!SlotsConsistent'
    BY <1>1, <1>2, DocsRowSet
<1> QED
    BY <1>3 DEF Docs!AddCustom, Docs!IInv, Docs!TypeOK, Docs!MatchHas

LEMMA DocsMatchStep ==
    ASSUME Docs!Bounds, Docs!IInv, NEW c \in Request, Docs!Match(c)
    PROVE  Docs!IInv'
<1> DEFINE s == v6[c].slot
           a == v6[c].att
           kept == IF v6[c].was \in {Docs!NoAtt, a} THEN v2[s].file ELSE Docs!NoAtt
           mine == [v2[s] EXCEPT !.att = a, !.status = "MATCHED", !.file = kept]
<1>1. s \in Docs!Slot /\ a \in Attachment /\ a # Docs!NoAtt
    BY DocsSets DEF Docs!Match, Docs!IInv, Docs!TypeOK, Docs!OnDoc, Docs!MatchHas,
       Docs!Bounds
<1>2. v2[s] \in Docs!Document /\ v2 \in [Docs!Slot -> Docs!Document]
    BY <1>1 DEF Docs!IInv, Docs!TypeOK
<1>3. mine \in Docs!Document /\ mine.att = a /\ mine.status = "MATCHED"
    BY <1>1, <1>2 DEF Docs!Document
<1>4. /\ v6' \in [Request -> Docs!Requests]
      /\ \A d \in Request : v6'[d].pc \in Docs!OnDoc => v6'[d].slot \in Docs!Slot
      /\ Docs!MatchHas'
    BY DocsAnswerSet DEF Docs!Match
<1>5. v2' \in [Docs!Slot -> Docs!Document] /\ Docs!SlotsConsistent'
  <2>1. CASE ~Docs!Exists(s)
      BY <2>1 DEF Docs!Match, Docs!IInv, Docs!TypeOK, Docs!SlotsConsistent
  <2>2. CASE Docs!Exists(s)
    <3>1. v2' = [t \in Docs!Slot |-> IF t = s THEN mine
                                 ELSE IF v2[t].att = a /\ a # Docs!NoAtt THEN Docs!Missing(v2[t].def)
                                 ELSE v2[t]]
        BY <2>2 DEF Docs!Match
    <3> HIDE DEF mine, s, a, kept
    <3>2. v2'[s] = mine
        BY <1>1, <3>1
    <3>3. \A t \in Docs!Slot : t # s => \/ v2'[t] = v2[t] /\ v2[t].att # a
                                        \/ v2'[t] = Docs!Missing(v2[t].def)
        BY <1>1, <3>1
    <3>4. \A t \in Docs!Slot : Docs!Missing(v2[t].def) \in Docs!Document
        BY <1>2, DocsMissingDoc DEF Docs!Document
    <3>5. \A d : Docs!Missing(d).att = Docs!NoAtt /\ Docs!Missing(d).status = "MISSING"
        BY DEF Docs!Missing
    <3>6. v2' \in [Docs!Slot -> Docs!Document]
        BY <1>2, <1>3, <3>1, <3>4
    <3>7. ASSUME NEW t \in Docs!Slot, NEW u \in Docs!Slot, t # u, v2'[t].att = v2'[u].att
          PROVE  v2'[t].att = Docs!NoAtt
      <4>1. t # s => v2'[t].att # a
          BY <1>1, <3>3, <3>5
      <4>2. u # s => v2'[u].att # a
          BY <1>1, <3>3, <3>5
      <4>3. t # s /\ u # s
          BY <1>3, <3>2, <3>7, <4>1, <4>2
      <4> QED
          BY <3>3, <3>5, <3>7, <4>3 DEF Docs!IInv, Docs!SlotsConsistent
    <3>8. ASSUME NEW t \in Docs!Slot
          PROVE  /\ v2'[t].status = "MISSING" => v2'[t].att = Docs!NoAtt
                 /\ v2'[t].status = "MATCHED" => v2'[t].att # Docs!NoAtt
        BY <1>1, <1>3, <3>2, <3>3, <3>5 DEF Docs!IInv, Docs!SlotsConsistent
    <3> QED
        BY <3>6, <3>7, <3>8 DEF Docs!SlotsConsistent
  <2> QED
      BY <2>1, <2>2
<1> QED
    BY <1>4, <1>5 DEF Docs!Match, Docs!IInv, Docs!TypeOK

\* The requests that write one row by its id.
LEMMA DocsWriteStep ==
    ASSUME Docs!Bounds, Docs!IInv, NEW c \in Request,
           Docs!Unmatch(c) \/ Docs!Verify(c) \/ Docs!Delete(c) \/ Docs!FinishCopy(c)
    PROVE  Docs!IInv'
<1> DEFINE s == v6[c].slot
<1>1. s \in Docs!Slot /\ v6[c] \in Docs!Requests
    BY DEF Docs!Unmatch, Docs!Verify, Docs!Delete, Docs!FinishCopy, Docs!IInv, Docs!TypeOK,
       Docs!OnDoc
<1>2. v2[s] \in Docs!Document /\ v2 \in [Docs!Slot -> Docs!Document]
    BY <1>1 DEF Docs!IInv, Docs!TypeOK
<1>3. /\ v6' \in [Request -> Docs!Requests]
      /\ \A d \in Request : v6'[d].pc \in Docs!OnDoc => v6'[d].slot \in Docs!Slot
      /\ Docs!MatchHas'
    BY DocsAnswerSet DEF Docs!Unmatch, Docs!Verify, Docs!Delete, Docs!FinishCopy
<1>4. /\ v2[s].status = "MISSING" => v2[s].att = Docs!NoAtt
      /\ v2[s].status = "MATCHED" => v2[s].att # Docs!NoAtt
    BY <1>1 DEF Docs!IInv, Docs!SlotsConsistent
<1>5. v2' \in [Docs!Slot -> Docs!Document] /\ Docs!SlotsConsistent'
  <2>1. CASE Docs!Unmatch(c)
    <3>1. v2[s].def \in Def \cup {Custom}
        BY <1>2 DEF Docs!Document
    <3>2. /\ Docs!Missing(v2[s].def) \in Docs!Document
          /\ Docs!Missing(v2[s].def).att = Docs!NoAtt
          /\ Docs!Missing(v2[s].def).status = "MISSING"
        BY <3>1, DocsMissingDoc DEF Docs!Missing
    <3> QED
        BY <1>1, <2>1, <3>2, DocsUpdateSet DEF Docs!Unmatch
  <2>2. CASE Docs!Verify(c)
    <3> DEFINE d == [v2[s] EXCEPT !.status = "VERIFIED"]
    <3>1. d \in Docs!Document /\ d.att = v2[s].att /\ d.status = "VERIFIED"
        BY <1>2 DEF Docs!Document
    <3>2. Docs!Update(s, d)
        BY <2>2 DEF Docs!Verify
    <3> HIDE DEF d
    <3> QED
        BY <1>1, <3>1, <3>2, DocsUpdateSet
  <2>3. CASE Docs!Delete(c)
    <3>1. /\ Docs!NoDoc \in Docs!Document
          /\ Docs!NoDoc.att = Docs!NoAtt
          /\ Docs!NoDoc.status = "NONE"
        BY DEF Docs!NoDoc, Docs!Document
    <3> QED
        BY <1>1, <2>3, <3>1, DocsUpdateSet DEF Docs!Delete
  <2>4. CASE Docs!FinishCopy(c)
    <3> DEFINE d == [v2[s] EXCEPT !.file = v6[c].att]
    <3>1. v6[c].att \in Attachment \cup {Docs!NoAtt}
        BY <1>1 DEF Docs!Requests
    <3>2. d \in Docs!Document /\ d.att = v2[s].att /\ d.status = v2[s].status
        BY <1>2, <3>1 DEF Docs!Document
    <3>3. Docs!Update(s, d)
        BY <2>4 DEF Docs!FinishCopy
    <3> HIDE DEF d
    <3> QED
        BY <1>1, <1>4, <3>2, <3>3, DocsUpdateSet
  <2> QED
      BY <2>1, <2>2, <2>3, <2>4
<1> QED
    BY <1>3, <1>5 DEF Docs!Unmatch, Docs!Verify, Docs!Delete, Docs!FinishCopy, Docs!IInv,
       Docs!TypeOK

LEMMA DocsDeleteTransactionStep ==
    ASSUME Docs!Bounds, Docs!IInv, Docs!DeleteTransaction
    PROVE  Docs!IInv'
    BY DEF Docs!DeleteTransaction, Docs!IInv, Docs!TypeOK, Docs!MatchHas,
       Docs!SlotsConsistent, Docs!Document, Docs!NoDoc

-----------------------------------------------------------------------------
(* The steps that do not.                                                  *)

\* A request reads a slot.
LEMMA DocsLookStep ==
    ASSUME Docs!Bounds, Docs!IInv, NEW c \in Request, NEW s \in Docs!Slot,
           \/ \E a \in Attachment : Docs!MatchCheck(c, s, a)
           \/ \E pc \in {"unmatch", "verify", "delete", "folder"} : Docs!Begin(c, s, pc)
    PROVE  Docs!IInv'
<1>1. v2[s].att \in Attachment \cup {Docs!NoAtt}
    BY DEF Docs!IInv, Docs!TypeOK, Docs!Document
<1>2. /\ v6' \in [Request -> Docs!Requests]
      /\ \A d \in Request : v6'[d].pc \in Docs!OnDoc => v6'[d].slot \in Docs!Slot
      /\ Docs!MatchHas'
  <2>1. CASE \E a \in Attachment : Docs!MatchCheck(c, s, a)
    <3>1. PICK a \in Attachment : Docs!Goes(c, "match", s, a)
        BY <2>1 DEF Docs!MatchCheck
    <3>2. "match" \in Docs!OnDoc
        BY DEF Docs!OnDoc
    <3> QED
        BY <3>1, <3>2, DocsGoesSet
  <2>2. CASE \E pc \in {"unmatch", "verify", "delete", "folder"} : Docs!Begin(c, s, pc)
    <3>1. PICK pc \in {"unmatch", "verify", "delete", "folder"} :
               Docs!Goes(c, pc, s, v2[s].att)
        BY <2>2 DEF Docs!Begin
    <3>2. pc \in Docs!OnDoc /\ pc # "match"
        BY <3>1 DEF Docs!OnDoc
    <3> QED
        BY <1>1, <3>1, <3>2, DocsGoesSet
  <2> QED
      BY <2>1, <2>2
<1>3. UNCHANGED <<v1, v2, v3, v4, v5, v7>>
    BY DEF Docs!MatchCheck, Docs!Begin, Docs!rowVars
<1> QED
    BY <1>2, <1>3 DEF Docs!IInv, Docs!TypeOK, Docs!SlotsConsistent

\* A request goes to its next step, or ends.
LEMMA DocsFolderStep ==
    ASSUME Docs!Bounds, Docs!IInv, NEW c \in Request,
           \/ Docs!CountSlots(c) \/ Docs!FindFolder(c) \/ Docs!MakeFolder(c) \/ Docs!StoreFolder(c)
           \/ Docs!Refused(c) \/ Docs!Abort(c)
    PROVE  Docs!IInv'
<1>1. /\ v6[c] \in Docs!Requests
      /\ (v6[c].pc \in Docs!OnDoc => v6[c].slot \in Docs!Slot)
      /\ v5 \in Nat
    BY DEF Docs!IInv, Docs!TypeOK
<1>2. /\ v6' \in [Request -> Docs!Requests]
      /\ \A d \in Request : v6'[d].pc \in Docs!OnDoc => v6'[d].slot \in Docs!Slot
      /\ Docs!MatchHas'
  <2>1. CASE Docs!CountSlots(c)
    <3> DEFINE q == [v6[c] EXCEPT !.pc = "create"]
    <3>1. q \in Docs!Requests /\ q.pc = "create" /\ "create" \notin Docs!OnDoc
        BY <1>1 DEF Docs!Requests, Docs!OnDoc
    <3>2. v6' = [v6 EXCEPT ![c] = q]
        BY <2>1 DEF Docs!CountSlots
    <3> HIDE DEF q
    <3> QED
        BY <3>1, <3>2, DocsReqSet
  <2>2. CASE Docs!FindFolder(c) \/ Docs!StoreFolder(c)
    <3>1. PICK pc \in {"make", "upload"} : v6' = [v6 EXCEPT ![c].pc = pc]
        BY <2>2 DEF Docs!FindFolder, Docs!StoreFolder
    <3> DEFINE q == [v6[c] EXCEPT !.pc = pc]
    <3>2. q \in Docs!Requests /\ q.pc = pc /\ q.slot = v6[c].slot
        BY <1>1, <3>1 DEF Docs!Requests, Docs!OnDoc
    <3>3. v6' = [v6 EXCEPT ![c] = q] /\ v6[c].slot \in Docs!Slot /\ pc # "match"
        BY <1>1, <2>2, <3>1 DEF Docs!FindFolder, Docs!StoreFolder, Docs!OnDoc
    <3> HIDE DEF q
    <3> QED
        BY <3>2, <3>3, DocsReqSet
  <2>3. CASE Docs!MakeFolder(c)
    <3> DEFINE q == [v6[c] EXCEPT !.pc = "store", !.mine = v5 + 1]
    <3> DEFINE q1 == [v6[c] EXCEPT !.pc = "store"]
    <3>4. q1 \in Docs!Requests /\ q1.pc = "store" /\ q1.slot = v6[c].slot
        BY <1>1 DEF Docs!Requests, Docs!OnDoc
    <3>5. q = [q1 EXCEPT !.mine = v5 + 1]
        BY Zenon
    <3>2. v6' = [v6 EXCEPT ![c] = q] /\ v6[c].slot \in Docs!Slot
        BY <1>1, <2>3 DEF Docs!MakeFolder, Docs!OnDoc
    <3> HIDE DEF q, q1
    <3>1. q \in Docs!Requests /\ q.pc = "store" /\ q.slot = v6[c].slot
        BY <1>1, <3>4, <3>5 DEF Docs!Requests, Docs!OnDoc
    <3> QED
        BY <3>1, <3>2, DocsReqSet
  <2>4. CASE Docs!Refused(c) \/ Docs!Abort(c)
      BY <2>4, DocsAnswerSet DEF Docs!Refused, Docs!Abort
  <2> QED
      BY <2>1, <2>2, <2>3, <2>4
<1>3. v4' \in Nat /\ v5' \in Nat /\ v7' \in Nat /\ UNCHANGED <<v1, v2, v3>>
    BY <1>1 DEF Docs!CountSlots, Docs!FindFolder, Docs!MakeFolder, Docs!StoreFolder,
       Docs!Refused, Docs!Abort, Docs!rowVars, Docs!IInv, Docs!TypeOK, Docs!Requests
<1> QED
    BY <1>2, <1>3 DEF Docs!IInv, Docs!TypeOK, Docs!SlotsConsistent

LEMMA DocsDiscoverStep ==
    ASSUME Docs!IInv, NEW a \in Attachment, Docs!Discover(a)
    PROVE  Docs!IInv'
    BY DEF Docs!Discover, Docs!IInv, Docs!TypeOK, Docs!MatchHas, Docs!SlotsConsistent

-----------------------------------------------------------------------------

LEMMA DocsInductive ==
    ASSUME Docs!Bounds
    PROVE  Docs!IInv /\ [Docs!Next]_(Docs!vars) => Docs!IInv'
<1> SUFFICES ASSUME Docs!IInv, [Docs!Next]_(Docs!vars) PROVE Docs!IInv'
    OBVIOUS
<1>1. CASE UNCHANGED Docs!vars
    BY <1>1 DEF Docs!vars, Docs!rowVars, Docs!IInv, Docs!TypeOK, Docs!MatchHas,
       Docs!SlotsConsistent
<1>2. ASSUME NEW c \in Request, Docs!Serve(c) PROVE Docs!IInv'
    BY <1>2, DocsCreateStep, DocsMatchStep, DocsWriteStep, DocsFolderStep DEF Docs!Serve
<1> QED
    BY <1>1, <1>2, DocsAddStep, DocsLookStep, DocsDiscoverStep, DocsDeleteTransactionStep
       DEF Docs!Next

-----------------------------------------------------------------------------
(* Folders.                                                                *)

\* A request counts among those that make or store a folder by its own step.
LEMMA DocsCounts ==
    ASSUME Docs!Bounds, NEW c \in Request, \A d \in Request \ {c} : v6'[d] = v6[d]
    PROVE  /\ Cardinality(Docs!Making) \in Nat /\ Cardinality(Docs!Storing) \in Nat
           /\ Cardinality(Docs!Making') \in Nat /\ Cardinality(Docs!Storing') \in Nat
           /\ Cardinality(Docs!Making') = Cardinality(Docs!Making)
                  + (IF v6'[c].pc = "make" THEN 1 ELSE 0) - (IF v6[c].pc = "make" THEN 1 ELSE 0)
           /\ Cardinality(Docs!Storing') = Cardinality(Docs!Storing)
                  + (IF v6'[c].pc = "store" THEN 1 ELSE 0) - (IF v6[c].pc = "store" THEN 1 ELSE 0)
<1>1. IsFiniteSet(Docs!Making) /\ IsFiniteSet(Docs!Storing)
    BY FS_Subset, DocsSets DEF Docs!Making, Docs!Storing, Docs!Bounds
<1>2. Docs!Making \ {c} = Docs!Making' \ {c} /\ Docs!Storing \ {c} = Docs!Storing' \ {c}
    BY DEF Docs!Making, Docs!Storing
<1>3. /\ (c \in Docs!Making <=> v6[c].pc = "make")
      /\ (c \in Docs!Making' <=> v6'[c].pc = "make")
      /\ (c \in Docs!Storing <=> v6[c].pc = "store")
      /\ (c \in Docs!Storing' <=> v6'[c].pc = "store")
    BY DEF Docs!Making, Docs!Storing
<1>4. /\ Cardinality(Docs!Making) \in Nat /\ Cardinality(Docs!Making') \in Nat
      /\ c \in Docs!Making /\ c \in Docs!Making'
           => Cardinality(Docs!Making') = Cardinality(Docs!Making)
      /\ c \notin Docs!Making /\ c \notin Docs!Making'
           => Cardinality(Docs!Making') = Cardinality(Docs!Making)
      /\ c \in Docs!Making /\ c \notin Docs!Making'
           => Cardinality(Docs!Making') = Cardinality(Docs!Making) - 1
      /\ c \notin Docs!Making /\ c \in Docs!Making'
           => Cardinality(Docs!Making') = Cardinality(Docs!Making) + 1
    BY <1>1, <1>2, OneOff
<1>5. /\ Cardinality(Docs!Storing) \in Nat /\ Cardinality(Docs!Storing') \in Nat
      /\ c \in Docs!Storing /\ c \in Docs!Storing'
           => Cardinality(Docs!Storing') = Cardinality(Docs!Storing)
      /\ c \notin Docs!Storing /\ c \notin Docs!Storing'
           => Cardinality(Docs!Storing') = Cardinality(Docs!Storing)
      /\ c \in Docs!Storing /\ c \notin Docs!Storing'
           => Cardinality(Docs!Storing') = Cardinality(Docs!Storing) - 1
      /\ c \notin Docs!Storing /\ c \in Docs!Storing'
           => Cardinality(Docs!Storing') = Cardinality(Docs!Storing) + 1
    BY <1>1, <1>2, OneOff
<1> QED
    BY <1>3, <1>4, <1>5

\* Nobody makes a folder and stores one at the same time.
LEMMA DocsApart ==
    ASSUME Docs!Bounds
    PROVE  /\ Cardinality(Docs!Making) \in Nat /\ Cardinality(Docs!Storing) \in Nat
           /\ Cardinality(Request) \in Nat
           /\ Cardinality(Docs!Making) + Cardinality(Docs!Storing) <= Cardinality(Request)
<1>1. /\ Docs!Making \in SUBSET Request
      /\ Docs!Storing \in SUBSET Request
      /\ Docs!Making \cap Docs!Storing = {}
    BY DEF Docs!Making, Docs!Storing
<1> QED
    BY <1>1, Disjoint, DocsSets DEF Docs!Bounds

\* A step after which a request neither makes nor stores a folder, and which loses
\* none, unless it counts a fault or leaves no row.
LEMMA DocsLeaveStep ==
    ASSUME Docs!Bounds, Docs!TypeOK, Docs!FolderInv, NEW c \in Request,
           \A d \in Request \ {c} : v6'[d] = v6[d],
           v6'[c].pc \notin {"make", "store"},
           v5' = v5, v1' => v1 /\ v4' = v4,
           v7' \in {v7, v7 + 1},
           v6[c].pc = "store" => ~v1' \/ v4' # 0 \/ v7' = v7 + 1
    PROVE  Docs!FolderInv'
<1>1. /\ Cardinality(Docs!Making') \in Nat
      /\ Cardinality(Docs!Making') <= Cardinality(Docs!Making)
      /\ Cardinality(Docs!Storing') \in Nat
      /\ Cardinality(Docs!Storing') = IF v6[c].pc = "store" THEN Cardinality(Docs!Storing) - 1
                                 ELSE Cardinality(Docs!Storing)
    BY DocsCounts, DocsApart
<1>2. /\ Cardinality(Docs!Making) \in Nat
      /\ Cardinality(Docs!Storing) \in Nat
      /\ Cardinality(Request) \in Nat
    BY DocsApart
<1>3. v5 \in Nat /\ v7 \in Nat
    BY DEF Docs!TypeOK
<1>4. \A d \in Docs!Storing' : d \in Docs!Storing /\ v6'[d] = v6[d]
    BY DEF Docs!Storing
<1> QED
    BY <1>1, <1>2, <1>3, <1>4, DocsSets DEF Docs!FolderInv

\* A step that leaves requests and folders alone.
LEMMA DocsRestStep ==
    ASSUME Docs!FolderInv, UNCHANGED <<v5, v6, v7>>, v1' => v1 /\ v4' = v4
    PROVE  Docs!FolderInv'
    BY DocsSets DEF Docs!FolderInv, Docs!Making, Docs!Storing

LEMMA DocsFindStep ==
    ASSUME Docs!Bounds, Docs!IInv, Docs!FolderInv, NEW c \in Request, Docs!FindFolder(c)
    PROVE  Docs!FolderInv'
<1>1. /\ v6 \in [Request -> Docs!Requests] /\ v5 \in Nat /\ v7 \in Nat
      /\ v6[c].pc = "folder" /\ UNCHANGED <<v1, v4, v5, v7>> /\ v1
      /\ \A d \in Request \ {c} : v6'[d] = v6[d]
      /\ v6'[c].pc = IF v4 = 0 THEN "make" ELSE "upload"
    BY DEF Docs!FindFolder, Docs!rowVars, Docs!IInv, Docs!TypeOK, Docs!Requests
<1>2. CASE v4 # 0
    BY <1>1, <1>2, DocsLeaveStep DEF Docs!IInv
<1>3. CASE v4 = 0
  <2>1. /\ Cardinality(Docs!Making') = Cardinality(Docs!Making) + 1
        /\ Cardinality(Docs!Storing') = Cardinality(Docs!Storing)
      BY <1>1, <1>3, DocsCounts
  <2>2. /\ Cardinality(Docs!Making') \in Nat /\ Cardinality(Docs!Storing') \in Nat
        /\ Cardinality(Docs!Making') + Cardinality(Docs!Storing') <= Cardinality(Request)
        /\ Cardinality(Request) \in Nat
    <3>1. /\ Docs!Making' \in SUBSET Request
          /\ Docs!Storing' \in SUBSET Request
          /\ Docs!Making' \cap Docs!Storing' = {}
        BY DEF Docs!Making, Docs!Storing
    <3> QED
        BY <3>1, Disjoint, DocsSets DEF Docs!Bounds
  <2>3. \A d \in Docs!Storing' : d \in Docs!Storing /\ v6'[d] = v6[d]
      BY <1>1, <1>3 DEF Docs!Storing
  <2> QED
      BY <1>1, <1>3, <2>1, <2>2, <2>3, DocsSets DEF Docs!FolderInv
<1> QED
    BY <1>2, <1>3

LEMMA DocsMakeStep ==
    ASSUME Docs!Bounds, Docs!IInv, Docs!FolderInv, NEW c \in Request, Docs!MakeFolder(c)
    PROVE  Docs!FolderInv'
<1>1. /\ v6 \in [Request -> Docs!Requests] /\ v5 \in Nat /\ v7 \in Nat
      /\ v6[c].pc = "make" /\ UNCHANGED <<v1, v4, v7>> /\ v5' = v5 + 1
      /\ \A d \in Request \ {c} : v6'[d] = v6[d]
      /\ v6'[c].pc = "store" /\ v6'[c].mine = v5 + 1
    BY DEF Docs!MakeFolder, Docs!rowVars, Docs!IInv, Docs!TypeOK, Docs!Requests
<1>2. /\ Cardinality(Docs!Making') = Cardinality(Docs!Making) - 1
      /\ Cardinality(Docs!Storing') = Cardinality(Docs!Storing) + 1
    BY <1>1, DocsCounts
<1>3. /\ Cardinality(Docs!Making) \in Nat
      /\ Cardinality(Docs!Storing) \in Nat
      /\ Cardinality(Request) \in Nat
    BY DocsApart
<1>4. \A d \in Docs!Storing' : d = c \/ (d \in Docs!Storing /\ v6'[d] = v6[d])
  <2>1. \A d \in Request : d # c => v6'[d] = v6[d]
      BY <1>1
  <2> QED
      BY <2>1 DEF Docs!Storing
<1> QED
    BY <1>1, <1>2, <1>3, <1>4, DocsSets DEF Docs!FolderInv

LEMMA DocsStoreStep ==
    ASSUME Docs!Bounds, Docs!IInv, Docs!FolderInv, NEW c \in Request, Docs!StoreFolder(c)
    PROVE  Docs!FolderInv'
<1>1. /\ v6 \in [Request -> Docs!Requests] /\ v5 \in Nat /\ v7 \in Nat
      /\ v6[c].pc = "store" /\ v4' = v6[c].mine /\ UNCHANGED <<v5, v7>>
      /\ \A d \in Request \ {c} : v6'[d] = v6[d]
      /\ v6'[c].pc = "upload"
    BY DEF Docs!StoreFolder, Docs!IInv, Docs!TypeOK, Docs!Requests
<1>2. v4' # 0
    BY <1>1, DocsSets DEF Docs!FolderInv, Docs!Storing
<1>3. Cardinality(Docs!Making') = Cardinality(Docs!Making)
    BY <1>1, DocsCounts
<1>4. \A d \in Docs!Storing' : d \in Docs!Storing /\ v6'[d] = v6[d]
    BY <1>1 DEF Docs!Storing
<1> QED
    BY <1>1, <1>2, <1>3, <1>4, DocsSets DEF Docs!FolderInv

LEMMA DocsFolderInvStep ==
    ASSUME Docs!Bounds
    PROVE  Docs!IInv /\ Docs!FolderInv /\ [Docs!Next]_(Docs!vars) => Docs!FolderInv'
<1> SUFFICES ASSUME Docs!IInv, Docs!FolderInv, [Docs!Next]_(Docs!vars) PROVE Docs!FolderInv'
    OBVIOUS
<1> USE DEF Docs!rowVars
<1>1. /\ v6 \in [Request -> Docs!Requests] /\ v7 \in Nat
    BY DEF Docs!IInv, Docs!TypeOK
<1>2. CASE UNCHANGED Docs!vars
    BY <1>2, DocsRestStep DEF Docs!vars
<1>3. ASSUME NEW c \in Request, Docs!Answer(c)
      PROVE  v6'[c].pc = "idle" /\ \A d \in Request \ {c} : v6'[d] = v6[d]
    BY <1>1, <1>3 DEF Docs!Answer, Docs!Idle
<1>4. ASSUME NEW c \in Request, NEW pc, NEW s, NEW a, Docs!Goes(c, pc, s, a)
      PROVE  v6'[c].pc = pc /\ \A d \in Request \ {c} : v6'[d] = v6[d]
    BY <1>1, <1>4 DEF Docs!Goes
<1>5. ASSUME NEW c \in Request,
             Docs!CountSlots(c) \/ Docs!CreateSlots(c) \/ Docs!Match(c) \/ Docs!Unmatch(c) \/ Docs!Verify(c)
             \/ Docs!Delete(c) \/ Docs!FinishCopy(c) \/ Docs!Refused(c) \/ Docs!Abort(c)
      PROVE  Docs!FolderInv'
  <2>1. v6'[c].pc \in {"idle", "create"} /\ \A d \in Request \ {c} : v6'[d] = v6[d]
    <3>1. CASE Docs!CountSlots(c)
        BY <1>1, <3>1 DEF Docs!CountSlots, Docs!Requests
    <3>2. CASE ~ Docs!CountSlots(c)
        BY <1>3, <1>5, <3>2, DocsSets DEF Docs!CreateSlots, Docs!Match, Docs!Unmatch,
           Docs!Verify, Docs!Delete, Docs!FinishCopy, Docs!Refused, Docs!Abort
    <3> QED
        BY <3>1, <3>2
  <2>2. /\ UNCHANGED <<v5, v1, v4>>
        /\ v7' = v7 \/ v7' = v7 + 1
        /\ v6[c].pc = "store" => ~v1 \/ v7' = v7 + 1
      BY <1>5, DocsSets DEF Docs!CountSlots, Docs!CreateSlots, Docs!Match, Docs!Unmatch,
         Docs!Verify, Docs!Delete, Docs!FinishCopy, Docs!Refused, Docs!Abort
  <2> QED
      BY <2>1, <2>2, DocsLeaveStep DEF Docs!IInv
<1>6. ASSUME NEW c \in Request, NEW s \in Docs!Slot, NEW a \in Attachment,
             Docs!MatchCheck(c, s, a)
      PROVE  Docs!FolderInv'
  <2>1. /\ v6[c].pc = "idle" /\ UNCHANGED <<v5, v1, v4, v7>>
        /\ v6'[c].pc = "match" /\ \A d \in Request \ {c} : v6'[d] = v6[d]
      BY <1>4, <1>6 DEF Docs!MatchCheck
  <2> QED
      BY <2>1, DocsLeaveStep DEF Docs!IInv
<1>7. ASSUME NEW c \in Request, NEW s \in Docs!Slot,
             NEW pc \in {"unmatch", "verify", "delete", "folder"}, Docs!Begin(c, s, pc)
      PROVE  Docs!FolderInv'
  <2>1. /\ v6[c].pc = "idle" /\ UNCHANGED <<v5, v1, v4, v7>>
        /\ v6'[c].pc = pc /\ \A d \in Request \ {c} : v6'[d] = v6[d]
      BY <1>4, <1>7 DEF Docs!Begin
  <2> QED
      BY <2>1, DocsLeaveStep DEF Docs!IInv
<1>8. ASSUME NEW a \in Attachment, Docs!Discover(a) PROVE Docs!FolderInv'
    BY <1>8, DocsRestStep DEF Docs!Discover
<1>9. CASE Docs!AddCustom \/ Docs!DeleteTransaction
    BY <1>9, DocsRestStep DEF Docs!AddCustom, Docs!DeleteTransaction
<1> QED
    BY <1>2, <1>5, <1>6, <1>7, <1>8, <1>9, DocsFindStep, DocsMakeStep, DocsStoreStep
       DEF Docs!Next, Docs!Serve

LEMMA DocsFolderInitially == ASSUME Docs!Bounds PROVE Docs!Init => Docs!FolderInv
<1> SUFFICES ASSUME Docs!Init PROVE Docs!FolderInv
    OBVIOUS
<1>1. Docs!Making = {} /\ Docs!Storing = {} /\ v5 = 0 /\ v7 = 0
    BY DEF Docs!Init, Docs!Making, Docs!Storing, Docs!Idle
<1> QED
    BY <1>1, FS_EmptySet, FS_CardinalityType, DocsSets DEF Docs!FolderInv, Docs!Bounds

LEMMA DocsFoldersFollow ==
    ASSUME Docs!Bounds
    PROVE  Docs!IInv /\ Docs!FolderInv => Docs!FoldersBounded
    BY DocsApart, DocsSets DEF Docs!FolderInv, Docs!FoldersBounded, Docs!IInv, Docs!TypeOK

LEMMA DocsProperties ==
    ASSUME Docs!Bounds
    PROVE  Docs!IInv /\ Docs!FolderInv => Docs!TypeOK /\ Docs!SlotsConsistent /\ Docs!FoldersBounded
    BY DocsFoldersFollow DEF Docs!IInv

-----------------------------------------------------------------------------
(* Setting a transaction up.                                               *)
(* v1 template, v2 created, v3 req.                                        *)

LEMMA SetupInitially == Setup!Init => Setup!IInv
    BY DEF Setup!Init, Setup!IInv, Setup!TypeOK, Setup!Idle, Setup!Kind

LEMMA SetupOrdered ==
    ASSUME Setup!Template, NEW dates \in Setup!Dates, Setup!Accepted(dates),
           NEW m \in Setup!Milestone, NEW n \in Setup!Milestone, m < n
    PROVE  dates[m] <= dates[n]
<1> DEFINE Later == {k \in Setup!Milestone : m < k /\ dates[m] > dates[k]}
<1>1. \A k \in Setup!Milestone : dates[k] \in Nat /\ dates[k] # Setup!NoDate
    BY DEF Setup!Accepted, Setup!Missing, Setup!Template, Setup!Dates, Setup!NoDate
<1>2. \A k \in Setup!Milestone : k # 1 => k - 1 \in Setup!Milestone /\ k - 1 \in Nat
    BY DEF Setup!Milestone, Setup!Template
<1>3. ASSUME NEW k \in Setup!Milestone, k # 1 PROVE dates[k - 1] <= dates[k]
  <2>1. k \notin Setup!OrderErrors(dates)
      BY DEF Setup!Accepted
  <2> QED
      BY <1>1, <1>2, <1>3, <2>1 DEF Setup!OrderErrors
<1>4. m \in Nat /\ n \in Nat /\ Later \subseteq Nat
    BY DEF Setup!Milestone
<1>5. ASSUME NEW k \in Later PROVE k - 1 \in Later
  <2>1. k \in Setup!Milestone /\ k \in Nat /\ m < k /\ k # 1
      BY <1>4 DEF Setup!Milestone
  <2>2. dates[k - 1] <= dates[k] /\ k - 1 \in Setup!Milestone
      BY <1>2, <1>3, <2>1
  <2>3. k - 1 # m
      BY <1>1, <2>1, <2>2
  <2> QED
      BY <1>1, <1>4, <2>1, <2>2, <2>3
<1> HIDE DEF Later
<1>6. Later = {}
  <2> SUFFICES ASSUME Later # {} PROVE FALSE
      OBVIOUS
  <2>1. PICK k \in Later : \A j \in Later : k <= j
      BY <1>4, Least
  <2> QED
      BY <1>4, <1>5, <2>1
<1> QED
    BY <1>1, <1>6 DEF Later

LEMMA SetupSamePlan ==
    ASSUME Setup!Template, NEW dates \in Setup!Dates
    PROVE  Setup!MadePlan(dates) = Setup!PreviewPlan(dates)
    BY DEF Setup!Template, Setup!MadePlan, Setup!PreviewPlan

LEMMA SetupProperties ==
    ASSUME Setup!Template
    PROVE  Setup!IInv => Setup!PlanAsShown /\ Setup!CreatedInOrder /\ Setup!CreatedWithSlots
    BY SetupOrdered, SetupSamePlan DEF Setup!IInv, Setup!TypeOK, Setup!PlanAsShown,
       Setup!CreatedInOrder, Setup!CreatedWithSlots

LEMMA SetupInductive == Setup!IInv /\ [Setup!Next]_(Setup!vars) => Setup!IInv'
<1> SUFFICES ASSUME Setup!IInv, [Setup!Next]_(Setup!vars) PROVE Setup!IInv'
    OBVIOUS
<1> USE DEF Setup!IInv, Setup!TypeOK, Setup!Kind, Setup!Idle
<1>1. ASSUME NEW c \in Request, NEW kind \in Setup!Kind, Setup!Look(c, kind)
      PROVE  Setup!IInv'
    BY <1>1 DEF Setup!Look
<1>2. ASSUME NEW c \in Request, Setup!CommitTemplate(c) PROVE Setup!IInv'
    BY <1>2 DEF Setup!CommitTemplate, Setup!Ensured
<1>3. ASSUME NEW c \in Request, Setup!Rollback(c) PROVE Setup!IInv'
    BY <1>3 DEF Setup!Rollback
<1>4. ASSUME NEW c \in Request, NEW dates \in Setup!Dates, Setup!CommitCreate(c, dates)
      PROVE  Setup!IInv'
    BY <1>4 DEF Setup!CommitCreate, Setup!Ensured
<1>5. CASE UNCHANGED Setup!vars
    BY <1>5 DEF Setup!vars
<1> QED
    BY <1>1, <1>2, <1>3, <1>4, <1>5 DEF Setup!Next

-----------------------------------------------------------------------------
(* Events and their copies.                                                *)
(* v1 row, v2 copy, v3 made, v4 connected, v5 req, v6 blurred, v7 faults,   *)
(* v8 cut.                                                                 *)

\* The finite sets of the instance are those of FiniteSets.
LEMMA EventsSets ==
    \A S : /\ Events!IsFiniteSet(S) <=> IsFiniteSet(S)
          /\ Events!Cardinality(S) = Cardinality(S)
    BY DEF Events!IsFiniteSet, IsFiniteSet, Events!Cardinality, Cardinality

LEMMA EventsInitially == ASSUME Events!Bounds PROVE Events!Init => Events!IInv
<1> SUFFICES ASSUME Events!Init PROVE Events!IInv
    OBVIOUS
<1>1. /\ Events!Calling = {} /\ Events!Storing = {}
      /\ Cardinality(Events!Calling) = 0
      /\ Cardinality(Events!Storing) = 0
      /\ Cardinality(Request) \in Nat
  <2>1. Events!Calling = {} /\ Events!Storing = {}
      BY DEF Events!Init, Events!Calling, Events!Storing, Events!Idle
  <2> QED
      BY <2>1, FS_EmptySet, FS_CardinalityType, EventsSets DEF Events!Bounds
<1>2. Events!TypeOK
  <2>1. 0 \in 0..MaxVersion /\ 0 \in 0..MaxFaults
      BY EventsSets DEF Events!Bounds
  <2>2. Events!NoRow \in [exists: BOOLEAN, version: 0..MaxVersion, remote: Nat, error: BOOLEAN]
      BY <2>1 DEF Events!NoRow
  <2>3. Events!Idle \in [pc: Events!Pc, version: 0..MaxVersion, remote: Nat]
      BY <2>1 DEF Events!Idle, Events!Pc
  <2> HIDE DEF Events!NoRow, Events!Idle
  <2> QED
      BY <2>1, <2>2, <2>3 DEF Events!Init, Events!TypeOK
<1>3. Events!CopyInv
    BY <1>1, EventsSets DEF Events!Init, Events!CopyInv, Events!AtRest, Events!Idle,
       Events!NoRow, Events!Bounds
<1> QED
    BY <1>2, <1>3 DEF Events!IInv, Events!Init, Events!NoRow

-----------------------------------------------------------------------------
(* What happens to the requests.                                           *)

\* Request c goes to q, and only it moves.
EventsMoves(c, q) ==
    /\ v5' \in [Request -> [pc: Events!Pc, version: 0..MaxVersion, remote: Nat]]
    /\ v5'[c] = q /\ \A d \in Request \ {c} : v5'[d] = v5[d]

LEMMA EventsGoesIs ==
    ASSUME Events!TypeOK, NEW c \in Request, NEW pc \in Events!Pc, Events!Goes(c, pc)
    PROVE  /\ EventsMoves(c, v5'[c])
           /\ v5'[c].pc = pc
           /\ v5'[c].version = v5[c].version
           /\ v5'[c].remote = v5[c].remote
    BY DEF Events!TypeOK, Events!Goes, EventsMoves

LEMMA EventsAnswerIs ==
    ASSUME Events!Bounds, Events!TypeOK, NEW c \in Request, Events!Answer(c)
    PROVE  EventsMoves(c, Events!Idle) /\ Events!Idle.pc = "idle" /\ Events!Idle.remote = 0
    BY EventsSets DEF Events!TypeOK, Events!Answer, EventsMoves, Events!Idle, Events!Pc,
       Events!Bounds

\* A request counts among those that make or note a copy by its own step.
LEMMA EventsCounts ==
    ASSUME Events!Bounds, NEW c \in Request, \A d \in Request \ {c} : v5'[d] = v5[d]
    PROVE  /\ Cardinality(Events!Calling) \in Nat /\ Cardinality(Events!Calling') \in Nat
           /\ Cardinality(Events!Storing) \in Nat /\ Cardinality(Events!Storing') \in Nat
           /\ Cardinality(Request) \in Nat
           /\ Cardinality(Events!Calling') + Cardinality(Events!Storing') <= Cardinality(Request)
           /\ c \in Events!Calling /\ c \in Events!Calling'
                => Cardinality(Events!Calling') = Cardinality(Events!Calling)
           /\ c \notin Events!Calling /\ c \notin Events!Calling'
                => Cardinality(Events!Calling') = Cardinality(Events!Calling)
           /\ c \in Events!Calling /\ c \notin Events!Calling'
                => Cardinality(Events!Calling') = Cardinality(Events!Calling) - 1
           /\ c \notin Events!Calling /\ c \in Events!Calling'
                => Cardinality(Events!Calling') = Cardinality(Events!Calling) + 1
           /\ c \in Events!Storing /\ c \in Events!Storing'
                => Cardinality(Events!Storing') = Cardinality(Events!Storing)
           /\ c \notin Events!Storing /\ c \notin Events!Storing'
                => Cardinality(Events!Storing') = Cardinality(Events!Storing)
           /\ c \in Events!Storing /\ c \notin Events!Storing'
                => Cardinality(Events!Storing') = Cardinality(Events!Storing) - 1
           /\ c \notin Events!Storing /\ c \in Events!Storing'
                => Cardinality(Events!Storing') = Cardinality(Events!Storing) + 1
<1>1. IsFiniteSet(Events!Calling) /\ IsFiniteSet(Events!Storing)
    BY FS_Subset, EventsSets DEF Events!Calling, Events!Storing, Events!Bounds
<1>2. /\ Events!Calling \ {c} = Events!Calling' \ {c}
      /\ Events!Storing \ {c} = Events!Storing' \ {c}
    BY DEF Events!Calling, Events!Storing
<1>3. /\ Cardinality(Events!Calling) \in Nat /\ Cardinality(Events!Calling') \in Nat
      /\ c \in Events!Calling /\ c \in Events!Calling'
           => Cardinality(Events!Calling') = Cardinality(Events!Calling)
      /\ c \notin Events!Calling /\ c \notin Events!Calling'
           => Cardinality(Events!Calling') = Cardinality(Events!Calling)
      /\ c \in Events!Calling /\ c \notin Events!Calling'
           => Cardinality(Events!Calling') = Cardinality(Events!Calling) - 1
      /\ c \notin Events!Calling /\ c \in Events!Calling'
           => Cardinality(Events!Calling') = Cardinality(Events!Calling) + 1
    BY <1>1, <1>2, OneOff
<1>4. /\ Cardinality(Events!Storing) \in Nat /\ Cardinality(Events!Storing') \in Nat
      /\ c \in Events!Storing /\ c \in Events!Storing'
           => Cardinality(Events!Storing') = Cardinality(Events!Storing)
      /\ c \notin Events!Storing /\ c \notin Events!Storing'
           => Cardinality(Events!Storing') = Cardinality(Events!Storing)
      /\ c \in Events!Storing /\ c \notin Events!Storing'
           => Cardinality(Events!Storing') = Cardinality(Events!Storing) - 1
      /\ c \notin Events!Storing /\ c \in Events!Storing'
           => Cardinality(Events!Storing') = Cardinality(Events!Storing) + 1
    BY <1>1, <1>2, OneOff
<1>5. /\ Events!Calling' \in SUBSET Request
      /\ Events!Storing' \in SUBSET Request
      /\ Events!Calling' \cap Events!Storing' = {}
    BY DEF Events!Calling, Events!Storing
<1>6. /\ Cardinality(Request) \in Nat
      /\ Cardinality(Events!Calling') + Cardinality(Events!Storing') <= Cardinality(Request)
    BY <1>5, Disjoint, EventsSets DEF Events!Bounds
<1> QED
    BY <1>3, <1>4, <1>6

\* A copy is made within the bound.
LEMMA EventsCopiesFollow ==
    ASSUME Events!Bounds, Events!TypeOK, Events!CopyInv
    PROVE  Events!CopiesBounded
<1>1. Cardinality(Events!Calling) \in Nat /\ Cardinality(Request) \in Nat
    BY FS_Subset, FS_CardinalityType, EventsSets DEF Events!Calling, Events!Bounds
<1> QED
    BY <1>1, EventsSets DEF Events!CopyInv, Events!TypeOK, Events!CopiesBounded,
       Events!MaxCopies, Events!Bounds

-----------------------------------------------------------------------------
(* Copies.                                                                 *)

\* A step that makes no copy: only the step of ReadBack adds to Calling, and only a
\* step of PatchCopy adds to Storing.
LEMMA EventsCopyKept ==
    ASSUME Events!Bounds, Events!TypeOK, Events!CopyInv, NEW c \in Request,
           \A d \in Request \ {c} : v5'[d] = v5[d],
           v3' = v3, v1.version # 0, v1'.version # 0, v1'.remote <= v3, v5'[c].remote <= v3,
           v7' \in {v7, v7 + 1}, v8' = v8, v7' + v8 <= MaxFaults,
           v5'[c].pc \in {"stamp", "store"} => v5'[c].remote # 0,
           v1'.exists => v1.exists /\ (v1'.remote = 0 => v1.remote = 0),
           v5[c].pc \in {"stamp", "store"} => v5'[c].pc \in {"stamp", "store"} \/ ~v1'.exists \/ v1'.remote # 0 \/ v7' = v7 + 1,
           c \in Events!Calling' => c \in Events!Calling \/ (v1.exists /\ v1.remote = 0 /\ v5[c].pc \notin {"stamp", "store"})
    PROVE  Events!CopyInv'
<1>1. v7 \in Nat /\ v8 \in Nat /\ v3 \in Nat /\ v1'.version # 0
    BY DEF Events!TypeOK
<1>2. \A d \in Request : v5'[d].remote <= v3 /\ (d \in Events!Storing' => v5'[d].remote # 0)
    BY EventsSets DEF Events!CopyInv, Events!Storing
<1>3. c \in Events!Storing <=> v5[c].pc \in {"stamp", "store"}
    BY DEF Events!Storing
<1>4. c \in Events!Storing' <=> v5'[c].pc \in {"stamp", "store"}
    BY DEF Events!Storing
<1>5. /\ v1'.exists /\ v1'.remote = 0 => v3 <= Cardinality(Events!Storing') + v7' + v8'
    BY <1>1, <1>3, <1>4, EventsCounts, EventsSets DEF Events!CopyInv
<1>6. v3 + Cardinality(Events!Calling') <= Cardinality(Request) + v7' + v8'
  <2>1. CASE c \in Events!Calling' /\ c \notin Events!Calling
    <3>1. c \notin Events!Storing' /\ c \notin Events!Storing
        BY <2>1 DEF Events!Calling, Events!Storing
    <3>2. v3 <= Cardinality(Events!Storing) + v7 + v8
        BY <2>1, EventsSets DEF Events!CopyInv
    <3>3. Cardinality(Events!Storing') = Cardinality(Events!Storing)
        BY <3>1, EventsCounts
    <3>4. /\ Cardinality(Events!Calling') + Cardinality(Events!Storing') <= Cardinality(Request)
          /\ Cardinality(Events!Calling') \in Nat
          /\ Cardinality(Events!Storing) \in Nat
          /\ Cardinality(Request) \in Nat
        BY EventsCounts
    <3> QED
        BY <1>1, <3>2, <3>3, <3>4
  <2>2. CASE ~(c \in Events!Calling' /\ c \notin Events!Calling)
      BY <1>1, <2>2, EventsCounts, EventsSets DEF Events!CopyInv
  <2> QED
      BY <2>1, <2>2
<1> QED
    BY <1>1, <1>2, <1>5, <1>6, EventsSets DEF Events!CopyInv, Events!Storing

\* Requests whose row has a version other than 0 are the only ones that run.
LEMMA EventsVersioned ==
    ASSUME Events!TypeOK, Events!CopyInv, NEW c \in Request, v1.exists \/ v5[c].pc # "idle"
    PROVE  v1.version # 0
    BY EventsSets DEF Events!CopyInv, Events!AtRest

\* What row and request are, and that they have copies that were made.
LEMMA EventsKnown ==
    ASSUME Events!Bounds, Events!IInv, NEW c \in Request
    PROVE  /\ v1 \in [exists: BOOLEAN, version: 0..MaxVersion, remote: Nat, error: BOOLEAN]
           /\ v5[c] \in [pc: Events!Pc, version: 0..MaxVersion, remote: Nat]
           /\ v2 \in [1..(Events!MaxCopies + 1) -> 0..MaxVersion]
           /\ v7 \in Nat /\ v7 <= MaxFaults /\ v3 \in Nat
           /\ v8 \in Nat /\ v7 + v8 <= MaxFaults
           /\ v4 \in BOOLEAN /\ v6 \in BOOLEAN
           /\ v1.remote <= v3 /\ v5[c].remote <= v3
           /\ v1.exists \/ v5[c].pc # "idle" => v1.version # 0
           /\ v5[c].pc \in {"stamp", "store"} => v5[c].remote # 0
    BY EventsSets DEF Events!IInv, Events!TypeOK, Events!CopyInv, Events!Bounds,
       Events!AtRest, Events!Storing

LEMMA EventsCreateStep ==
    ASSUME Events!Bounds, Events!IInv, NEW c \in Request, Events!Create(c)
    PROVE  Events!IInv'
<1> USE DEF Events!IInv
<1>1. /\ v1.version = 0 /\ ~v1.exists /\ v3 = 0 /\ Events!AtRest
    BY EventsSets DEF Events!Create, Events!CopyInv
<1>2. /\ EventsMoves(c, v5'[c]) /\ v5'[c].pc = "read" /\ v5'[c].remote = v5[c].remote
    BY EventsGoesIs DEF Events!Create, Events!Pc
<1>3. v1' = [exists |-> TRUE, version |-> 1, remote |-> 0, error |-> FALSE]
    BY DEF Events!Create, Events!NoRow
<1>4. v1' \in [exists: BOOLEAN, version: 0..MaxVersion, remote: Nat, error: BOOLEAN]
    BY <1>3, EventsSets DEF Events!Bounds
<1>12. UNCHANGED <<v2, v3, v4, v6, v7, v8>>
    BY DEF Events!Create
<1>5. Events!TypeOK'
    BY <1>2, <1>4, <1>12 DEF Events!TypeOK, EventsMoves
<1>6. \A d \in Request : v5'[d].pc \in {"idle", "read"}
    BY <1>1, <1>2 DEF EventsMoves, Events!AtRest
<1>7. Events!Calling' = {} /\ Events!Storing' = {}
    BY <1>6 DEF Events!Calling, Events!Storing
<1>8. /\ Cardinality(Events!Calling') = 0
      /\ Cardinality(Events!Storing') = 0
      /\ Cardinality(Request) \in Nat
    BY <1>7, FS_EmptySet, FS_CardinalityType, EventsSets DEF Events!Bounds
<1>9. Events!CopyInv'
  <2>1. \A d \in Request : v5'[d].remote <= v3'
      BY <1>2, <1>12, EventsSets DEF EventsMoves, Events!CopyInv
  <2>2. /\ v1'.version = 1 /\ v1'.remote = 0 /\ v3' = 0
        /\ v7' \in Nat /\ v8' \in Nat /\ v7' + v8' <= MaxFaults
      BY <1>1, <1>3, <1>12, EventsKnown
  <2> QED
      BY <1>7, <1>8, <2>1, <2>2, EventsSets DEF Events!CopyInv
<1>10. Events!Pending'
    BY <1>2 DEF Events!Pending
<1>11. Events!StaleInv'
    BY <1>6, <1>10 DEF Events!StaleInv, Events!Holds
<1> QED
    BY <1>5, <1>9, <1>11

\* A step that makes no copy, in one.
LEMMA EventsKeptStep ==
    ASSUME Events!Bounds, Events!IInv, NEW c \in Request, EventsMoves(c, v5'[c]),
           v1' \in [exists: BOOLEAN, version: 0..MaxVersion, remote: Nat, error: BOOLEAN],
           v2' \in [1..(Events!MaxCopies + 1) -> 0..MaxVersion],
           v3' = v3, v4' \in BOOLEAN, v6' \in BOOLEAN,
           v7' \in {v7, v7 + 1}, v7' <= MaxFaults, v8' = v8, v7' + v8 <= MaxFaults,
           v1.version # 0, v1'.version # 0, v1'.remote <= v3, v5'[c].remote <= v3,
           v5'[c].pc \in {"stamp", "store"} => v5'[c].remote # 0,
           v1'.exists => v1.exists /\ (v1'.remote = 0 => v1.remote = 0),
           v5[c].pc \in {"stamp", "store"} => v5'[c].pc \in {"stamp", "store"} \/ ~v1'.exists \/ v1'.remote # 0 \/ v7' = v7 + 1,
           c \in Events!Calling' => c \in Events!Calling \/ (v1.exists /\ v1.remote = 0 /\ v5[c].pc \notin {"stamp", "store"}),
           v1'.exists /\ ~v6' /\ v7' = 0 /\ ~Events!Deleting' => Events!StaleInv'
    PROVE  Events!IInv'
<1>1. Events!TypeOK'
    BY DEF Events!IInv, Events!TypeOK, EventsMoves
<1>2. Events!CopyInv'
    BY EventsCopyKept DEF Events!IInv, EventsMoves
<1> QED
    BY <1>1, <1>2 DEF Events!IInv

\* The event will be read again, by c or by who else would.
LEMMA EventsPendingStep ==
    ASSUME Events!IInv, NEW c \in Request, EventsMoves(c, v5'[c]),
           v5'[c].pc \in {"commit", "read"},
           v1'.remote = v1.remote, UNCHANGED <<v2, v6, v7, v8>>, v1'.exists => v1.exists,
           v5[c].pc \in {"idle", "commit"},
           v1'.exists /\ ~v6' /\ v7' = 0 /\ ~Events!Deleting'
    PROVE  Events!StaleInv'
<1>1. Events!StaleInv
    BY DEF Events!IInv, Events!Deleting, EventsMoves
<1>2. Events!Pending' /\ ~Events!Holds(c)'
    BY DEF Events!Pending, Events!Holds
<1>3. \A d \in Request : Events!Holds(d)' => d # c /\ Events!Holds(d) /\ v5'[d] = v5[d]
    BY <1>2 DEF Events!Holds, EventsMoves
<1> QED
    BY <1>1, <1>2, <1>3 DEF Events!StaleInv, Events!Holds

LEMMA EventsFindStep ==
    ASSUME Events!Bounds, Events!IInv, NEW c \in Request, Events!Find(c)
    PROVE  Events!IInv'
<1>1. EventsMoves(c, v5'[c]) /\ v5'[c].pc = "commit" /\ v5'[c].remote = v5[c].remote
    BY EventsGoesIs DEF Events!Find, Events!Pc, Events!IInv
<1>2. v1.exists /\ v5[c].pc = "idle" /\ UNCHANGED <<v1, v2, v3, v4, v6, v7, v8>>
    BY DEF Events!Find, Events!At
<1>3. v1'.exists /\ ~v6' /\ v7' = 0 /\ ~Events!Deleting' => Events!StaleInv'
    BY <1>1, <1>2, EventsPendingStep
<1>4. c \notin Events!Calling'
    BY <1>1 DEF Events!Calling
<1> QED
    BY <1>1, <1>2, <1>3, <1>4, EventsKnown, EventsKeptStep

LEMMA EventsChangeStep ==
    ASSUME Events!Bounds, Events!IInv, NEW c \in Request, Events!ChangeAttendees(c)
    PROVE  Events!IInv'
<1>1. EventsMoves(c, v5'[c]) /\ v5'[c].pc = "commit" /\ v5'[c].remote = v5[c].remote
    BY EventsGoesIs DEF Events!ChangeAttendees, Events!Pc, Events!IInv
<1>2. /\ v1.exists /\ v5[c].pc = "idle" /\ UNCHANGED <<v2, v3, v4, v6, v7, v8>>
      /\ v1.version < MaxVersion /\ v1' = [v1 EXCEPT !.version = v1.version + 1]
    BY DEF Events!ChangeAttendees, Events!At
<1>3. /\ v1' \in [exists: BOOLEAN, version: 0..MaxVersion, remote: Nat, error: BOOLEAN]
      /\ v1'.version # 0 /\ v1'.remote = v1.remote /\ v1'.exists
    BY <1>2, EventsKnown, EventsSets DEF Events!Bounds
<1>4. v1'.exists /\ ~v6' /\ v7' = 0 /\ ~Events!Deleting' => Events!StaleInv'
    BY <1>1, <1>2, <1>3, EventsPendingStep
<1>5. c \notin Events!Calling'
    BY <1>1 DEF Events!Calling
<1> QED
    BY <1>1, <1>2, <1>3, <1>4, <1>5, EventsKnown, EventsKeptStep

LEMMA EventsCommitStep ==
    ASSUME Events!Bounds, Events!IInv, NEW c \in Request, Events!Commit(c)
    PROVE  Events!IInv'
<1>1. v5[c].pc = "commit" /\ UNCHANGED <<v2, v3, v4, v6, v7, v8>>
    BY DEF Events!Commit, Events!At
<1>2. CASE v1.exists
  <2>1. EventsMoves(c, v5'[c]) /\ v5'[c].pc = "read" /\ v5'[c].remote = v5[c].remote
      BY <1>2, EventsGoesIs DEF Events!Commit, Events!Pc, Events!IInv
  <2>2. PICK v \in {v1.version, v1.version + 1} \cap 0..MaxVersion :
             v1' = [v1 EXCEPT !.version = v]
      BY <1>2 DEF Events!Commit
  <2>3. /\ v1' \in [exists: BOOLEAN, version: 0..MaxVersion, remote: Nat, error: BOOLEAN]
        /\ v1'.version # 0 /\ v1'.remote = v1.remote /\ v1'.exists
      BY <1>2, <2>2, EventsKnown
  <2>4. v1'.exists /\ ~v6' /\ v7' = 0 /\ ~Events!Deleting' => Events!StaleInv'
      BY <1>1, <1>2, <2>1, <2>3, EventsPendingStep
  <2>5. c \notin Events!Calling'
      BY <2>1 DEF Events!Calling
  <2> QED
      BY <1>1, <1>2, <2>1, <2>3, <2>4, <2>5, EventsKnown, EventsKeptStep
<1>3. CASE ~v1.exists
  <2>1. EventsMoves(c, v5'[c]) /\ v5'[c].pc = "idle" /\ v5'[c].remote = 0 /\ v1' = v1
      BY <1>3, EventsAnswerIs DEF Events!Commit, Events!IInv, EventsMoves
  <2>2. c \notin Events!Calling'
      BY <2>1 DEF Events!Calling
  <2>3. /\ v1' \in [exists: BOOLEAN, version: 0..MaxVersion, remote: Nat, error: BOOLEAN]
        /\ v2' \in [1..(Events!MaxCopies + 1) -> 0..MaxVersion]
        /\ v4' \in BOOLEAN /\ v6' \in BOOLEAN
        /\ v7' = v7 /\ v7' <= MaxFaults /\ v8' = v8 /\ v7' + v8 <= MaxFaults
        /\ v1.version # 0 /\ v1'.version # 0 /\ v1'.remote <= v3 /\ v5'[c].remote <= v3
        /\ ~v1'.exists /\ v3' = v3
      BY <1>1, <1>3, <2>1, EventsKnown
  <2>4. v5[c].pc \notin {"stamp", "store"} /\ v5'[c].pc \notin {"stamp", "store"}
      BY <1>1, <2>1
  <2> QED
      BY <2>1, <2>2, <2>3, <2>4, EventsKeptStep
<1> QED
    BY <1>2, <1>3

LEMMA EventsReadBackStep ==
    ASSUME Events!Bounds, Events!IInv, NEW c \in Request, Events!ReadBack(c)
    PROVE  Events!IInv'
<1>1. /\ v5[c].pc = "read" /\ UNCHANGED <<v1, v2, v3, v4, v7, v8>>
      /\ v6' = (v6 \/ \E d \in Request : Events!Holds(d)) /\ v6' \in BOOLEAN
    BY EventsKnown DEF Events!ReadBack, Events!At, Events!Holds
<1>2. CASE v1.exists
  <2> DEFINE q == [pc |-> "call", version |-> v1.version, remote |-> v1.remote]
  <2>1. q \in [pc: Events!Pc, version: 0..MaxVersion, remote: Nat]
      BY EventsKnown DEF Events!Pc
  <2>2. EventsMoves(c, v5'[c]) /\ v5'[c] = q
      BY <1>2, <2>1 DEF Events!ReadBack, EventsMoves, Events!IInv, Events!TypeOK
  <2>3. v1'.exists /\ ~v6' /\ v7' = 0 /\ ~Events!Deleting' => Events!StaleInv'
    <3> SUFFICES ASSUME v1'.exists /\ ~v6' /\ v7' = 0 /\ ~Events!Deleting'
                 PROVE  Events!StaleInv'
        OBVIOUS
    <3>1. \A d \in Request \ {c} : ~Events!Holds(d)'
        BY <1>1, <2>2 DEF Events!Holds, EventsMoves
    <3>2. Events!Holds(c)'
        BY <2>2 DEF Events!Holds
    <3>3. \A d \in Request \ {c} : v5'[d].pc \notin {"call", "stamp", "store"}
        BY <3>1 DEF Events!Holds
    <3> QED
        BY <1>1, <2>2, <3>1, <3>2, <3>3 DEF Events!StaleInv
  <2>4. c \in Events!Calling' => v1.remote = 0
      BY <2>2 DEF Events!Calling
  <2> QED
      BY <1>1, <1>2, <2>2, <2>3, <2>4, EventsKnown, EventsKeptStep
<1>3. CASE ~v1.exists
  <2>1. EventsMoves(c, v5'[c]) /\ v5'[c].pc = "idle" /\ v5'[c].remote = 0
      BY <1>3, EventsAnswerIs DEF Events!ReadBack, Events!Answer, Events!IInv, EventsMoves
  <2>2. c \notin Events!Calling'
      BY <2>1 DEF Events!Calling
  <2> QED
      BY <1>1, <1>3, <2>1, <2>2, EventsKnown, EventsKeptStep
<1> QED
    BY <1>2, <1>3

\* The one request that holds what it read has called Google.
LEMMA EventsMakeStep ==
    ASSUME Events!Bounds, Events!IInv, NEW c \in Request, Events!MakeCopy(c)
    PROVE  Events!IInv'
<1> DEFINE n == v3 + 1
           q == [v5[c] EXCEPT !.pc = "stamp", !.remote = n]
<1>1. /\ v5[c].pc = "call" /\ v5[c].remote = 0 /\ UNCHANGED <<v1, v4, v6, v7, v8>>
      /\ v3' = n /\ v2' = [v2 EXCEPT ![n] = v5[c].version]
      /\ v5' = [v5 EXCEPT ![c] = q]
    BY DEF Events!MakeCopy, Events!At
<1>2. n \in Nat /\ n # 0
    BY EventsKnown
<1>3. /\ q \in [pc: Events!Pc, version: 0..MaxVersion, remote: Nat]
      /\ q.pc = "stamp" /\ q.remote = n /\ q.version = v5[c].version
    BY <1>2, EventsKnown DEF Events!Pc
<1> HIDE DEF q
<1>4. EventsMoves(c, q)
    BY <1>1, <1>3 DEF EventsMoves, Events!IInv, Events!TypeOK
<1>5. /\ c \in Events!Calling
      /\ c \notin Events!Calling'
      /\ c \notin Events!Storing
      /\ c \in Events!Storing'
    BY <1>1, <1>3, <1>4 DEF Events!Calling, Events!Storing, EventsMoves
<1>6. /\ Cardinality(Events!Calling') = Cardinality(Events!Calling) - 1
      /\ Cardinality(Events!Storing') = Cardinality(Events!Storing) + 1
      /\ Cardinality(Events!Calling) \in Nat /\ Cardinality(Events!Calling') \in Nat
      /\ Cardinality(Events!Storing) \in Nat /\ Cardinality(Request) \in Nat
    BY <1>4, <1>5, EventsCounts DEF EventsMoves
<1>7. n \in 1..(Events!MaxCopies + 1) /\ Events!MaxCopies \in Nat
  <2>1. Events!MaxCopies = Cardinality(Request) + MaxFaults /\ MaxFaults \in Nat
      BY EventsSets DEF Events!MaxCopies, Events!Bounds
  <2>2. v3 + Cardinality(Events!Calling) <= Cardinality(Request) + v7 + v8
      BY EventsSets DEF Events!IInv, Events!CopyInv
  <2>3. v3 \in Nat /\ v7 \in Nat /\ v8 \in Nat /\ v7 + v8 <= MaxFaults
      BY EventsKnown
  <2> QED
      BY <1>6, <2>1, <2>2, <2>3
<1>8. Events!TypeOK'
  <2>1. v2' \in [1..(Events!MaxCopies + 1) -> 0..MaxVersion]
      BY <1>1, EventsKnown
  <2> QED
      BY <1>1, <1>2, <1>4, <2>1 DEF EventsMoves, Events!IInv, Events!TypeOK
<1>9. Events!CopyInv'
  <2>1. \A d \in Request : v5'[d].remote <= v3' /\ (d \in Events!Storing' => v5'[d].remote # 0)
      BY <1>1, <1>2, <1>3, <1>4, EventsKnown DEF EventsMoves, Events!Storing
  <2>2. v1.version # 0 /\ v1.remote <= v3'
      BY <1>1, <1>2, EventsKnown
  <2>3. /\ v7 \in Nat /\ v3 \in Nat /\ v1' = v1 /\ v7' = v7
        /\ v8 \in Nat /\ v8' = v8 /\ v7 + v8 <= MaxFaults
      BY <1>1, EventsKnown
  <2> QED
      BY <1>1, <1>6, <2>1, <2>2, <2>3, EventsSets DEF Events!IInv, Events!CopyInv,
         Events!Storing
<1>10. ASSUME v1'.exists /\ ~v6' /\ v7' = 0 /\ ~Events!Deleting' PROVE Events!StaleInv'
  <2>1. Events!StaleInv
      BY <1>1, <1>10, <1>4 DEF Events!IInv, Events!Deleting, EventsMoves
  <2>2. Events!Holds(c) /\ Events!Holds(c)'
      BY <1>1, <1>3, <1>4 DEF Events!Holds, EventsMoves
  <2>3. \A d \in Request \ {c} : ~Events!Holds(d)' /\ v5'[d] = v5[d]
      BY <1>4, <2>1, <2>2 DEF Events!StaleInv, Events!Holds, EventsMoves
  <2>4. \A d \in Request \ {c} : v5'[d].pc \notin {"call", "stamp", "store"}
      BY <2>3 DEF Events!Holds
  <2>5. Events!Pending' <=> Events!Pending
      BY <1>1, <1>3, <1>4 DEF Events!Pending, EventsMoves
  <2>6. v2'[n] = v5[c].version
      BY <1>1, <1>7, EventsKnown
  <2> QED
      BY <1>1, <1>3, <1>4, <2>1, <2>2, <2>3, <2>4, <2>5, <2>6 DEF Events!StaleInv,
         EventsMoves
<1> QED
    BY <1>8, <1>9, <1>10 DEF Events!IInv

LEMMA EventsPatchStep ==
    ASSUME Events!Bounds, Events!IInv, NEW c \in Request, Events!PatchCopy(c)
    PROVE  Events!IInv'
<1> DEFINE i == v5[c].remote
<1>1. /\ v5[c].pc = "call" /\ i # 0 /\ UNCHANGED <<v1, v3, v4, v6, v7, v8>>
      /\ v2' = IF v2[i] = 0 THEN v2 ELSE [v2 EXCEPT ![i] = v5[c].version]
      /\ Events!Goes(c, IF v2[i] = 0 THEN "error" ELSE "stamp")
    BY DEF Events!PatchCopy, Events!At
<1>2. /\ EventsMoves(c, v5'[c]) /\ v5'[c].pc = (IF v2[i] = 0 THEN "error" ELSE "stamp")
      /\ v5'[c].version = v5[c].version /\ v5'[c].remote = i
    BY <1>1, EventsGoesIs DEF Events!Pc, Events!IInv
<1>3. v2' \in [1..(Events!MaxCopies + 1) -> 0..MaxVersion]
    BY <1>1, EventsKnown
<1>4. i \in 1..(Events!MaxCopies + 1)
  <2>1. v3 <= Events!MaxCopies /\ Events!MaxCopies \in Nat
    <3>1. v3 <= Cardinality(Request) + v7 + v8
        BY EventsCopiesFollow, EventsSets DEF Events!IInv, Events!CopiesBounded
    <3>2. Cardinality(Request) \in Nat /\ MaxFaults \in Nat
        BY FS_CardinalityType, EventsSets DEF Events!Bounds
    <3>3. Events!MaxCopies = Cardinality(Request) + MaxFaults
        BY EventsSets DEF Events!MaxCopies
    <3> QED
        BY <3>1, <3>2, <3>3, EventsKnown
  <2> QED
      BY <1>1, <2>1, EventsKnown
<1>5. ASSUME v1'.exists /\ ~v6' /\ v7' = 0 /\ ~Events!Deleting' PROVE Events!StaleInv'
  <2>1. Events!StaleInv
      BY <1>1, <1>5, <1>2 DEF Events!IInv, Events!Deleting, EventsMoves
  <2>2. Events!Holds(c) /\ Events!Holds(c)'
      BY <1>1, <1>2 DEF Events!Holds, EventsMoves
  <2>3. \A d \in Request \ {c} : ~Events!Holds(d)' /\ v5'[d] = v5[d]
      BY <1>2, <2>1, <2>2 DEF Events!StaleInv, Events!Holds, EventsMoves
  <2>4. \A d \in Request \ {c} : v5'[d].pc \notin {"call", "stamp", "store"}
      BY <2>3 DEF Events!Holds
  <2>5. Events!Pending' <=> Events!Pending
      BY <1>1, <1>2 DEF Events!Pending, EventsMoves
  <2>6. v2[i] # 0 => v2'[i] = v5[c].version
      BY <1>1, <1>4, EventsKnown
  <2> QED
      BY <1>1, <1>2, <2>1, <2>2, <2>3, <2>4, <2>5, <2>6 DEF Events!StaleInv, EventsMoves
<1>6. c \notin Events!Calling'
    BY <1>2 DEF Events!Calling
<1> QED
    BY <1>1, <1>2, <1>3, <1>5, <1>6, EventsKnown, EventsKeptStep

\* Google's answer is written to its account: the request goes on to the row.
LEMMA EventsStampStep ==
    ASSUME Events!Bounds, Events!IInv, NEW c \in Request, Events!Stamp(c)
    PROVE  Events!IInv'
<1>1. v5[c].pc = "stamp" /\ UNCHANGED <<v1, v2, v3, v4, v6, v7, v8>>
    BY DEF Events!Stamp, Events!At
<1>2. /\ EventsMoves(c, v5'[c]) /\ v5'[c].pc = "store"
      /\ v5'[c].version = v5[c].version /\ v5'[c].remote = v5[c].remote
    BY EventsGoesIs DEF Events!Stamp, Events!Pc, Events!IInv
<1>3. ASSUME v1'.exists /\ ~v6' /\ v7' = 0 /\ ~Events!Deleting' PROVE Events!StaleInv'
  <2>1. Events!StaleInv
      BY <1>1, <1>3, <1>2 DEF Events!IInv, Events!Deleting, EventsMoves
  <2>2. Events!Holds(c) /\ Events!Holds(c)'
      BY <1>1, <1>2 DEF Events!Holds, EventsMoves
  <2>3. \A d \in Request \ {c} : ~Events!Holds(d)' /\ v5'[d] = v5[d]
      BY <1>2, <2>1, <2>2 DEF Events!StaleInv, Events!Holds, EventsMoves
  <2>4. \A d \in Request \ {c} : v5'[d].pc \notin {"call", "stamp", "store"}
      BY <2>3 DEF Events!Holds
  <2>5. Events!Pending' <=> Events!Pending
      BY <1>1, <1>2 DEF Events!Pending, EventsMoves
  <2> QED
      BY <1>1, <1>2, <2>1, <2>2, <2>3, <2>4, <2>5 DEF Events!StaleInv, EventsMoves
<1>4. c \notin Events!Calling'
    BY <1>2 DEF Events!Calling
<1> QED
    BY <1>1, <1>2, <1>3, <1>4, EventsKnown, EventsKeptStep

\* The calls that a disconnect cuts off end as errors, each one counted: what they were
\* to store is lost, and made is bounded by the cuts in their place.
LEMMA EventsDisconnectStep ==
    ASSUME Events!Bounds, Events!IInv, Events!Disconnect PROVE Events!IInv'
<1> DEFINE G == Events!Stamping
<1>1. /\ UNCHANGED <<v1, v2, v3, v6, v7>> /\ v4' = FALSE
      /\ v5' = [c \in Request |-> IF v5[c].pc = "stamp" THEN [v5[c] EXCEPT !.pc = "error"]
                                                       ELSE v5[c]]
      /\ v8' = v8 + Cardinality(G) /\ v7 + v8 + Cardinality(G) <= MaxFaults
    BY EventsSets DEF Events!Disconnect, Events!At
<1>2. v5 \in [Request -> [pc: Events!Pc, version: 0..MaxVersion, remote: Nat]]
    BY DEF Events!IInv, Events!TypeOK
<1>3. /\ v5' \in [Request -> [pc: Events!Pc, version: 0..MaxVersion, remote: Nat]]
      /\ \A c \in Request :
            /\ v5[c].pc = "stamp" => v5'[c].pc = "error"
            /\ v5[c].pc # "stamp" => v5'[c] = v5[c]
            /\ v5'[c].remote = v5[c].remote /\ v5'[c].version = v5[c].version
    BY <1>1, <1>2 DEF Events!Pc
<1>4. /\ Events!Calling' = Events!Calling
      /\ Events!Storing' \in SUBSET Events!Storing /\ G \in SUBSET Events!Storing
      /\ Events!Storing \ G = Events!Storing'
      /\ Events!AtRest' <=> Events!AtRest
      /\ Events!Pending' <=> Events!Pending
      /\ Events!Deleting' <=> Events!Deleting
      /\ \A c \in Request : Events!Holds(c)' <=> Events!Holds(c)
  <2>1. /\ Events!Calling' = Events!Calling
        /\ Events!AtRest' <=> Events!AtRest
        /\ Events!Pending' <=> Events!Pending
        /\ Events!Deleting' <=> Events!Deleting
      BY <1>3 DEF Events!Calling, Events!AtRest, Events!Pending, Events!Deleting
  <2>2. /\ Events!Storing' \in SUBSET Events!Storing /\ G \in SUBSET Events!Storing
        /\ Events!Storing \ G = Events!Storing'
      BY <1>3 DEF Events!Storing, Events!Stamping
  <2>3. \A c \in Request : Events!Holds(c)' <=> Events!Holds(c)
      BY <1>3 DEF Events!Holds
  <2> QED
      BY <2>1, <2>2, <2>3
<1>5. IsFiniteSet(Request) /\ IsFiniteSet(Events!Storing) /\ IsFiniteSet(Events!Calling)
    BY FS_Subset, EventsSets DEF Events!Bounds, Events!Storing, Events!Calling
<1>6. /\ Cardinality(G) \in Nat /\ Cardinality(Events!Storing) \in Nat
      /\ Cardinality(Events!Storing') \in Nat /\ Cardinality(Request) \in Nat
      /\ Cardinality(Events!Calling) \in Nat
      /\ Cardinality(Events!Storing') = Cardinality(Events!Storing) - Cardinality(G)
  <2>1. Events!Storing \cap G = G
      BY <1>4
  <2> HIDE DEF G
  <2>2. Cardinality(Events!Storing \ G) = Cardinality(Events!Storing) - Cardinality(G)
      BY <1>4, <1>5, <2>1, FS_Difference
  <2>3. IsFiniteSet(G) /\ IsFiniteSet(Events!Storing')
      BY <1>4, <1>5, FS_Subset
  <2> QED
      BY <1>4, <1>5, <2>2, <2>3, FS_CardinalityType
<1>7. /\ v7 \in Nat /\ v8 \in Nat /\ v3 \in Nat /\ v8' \in 0..MaxFaults
      /\ v7' + v8' <= MaxFaults
    BY <1>1, <1>6, EventsSets DEF Events!IInv, Events!TypeOK, Events!Bounds
<1>8. Events!TypeOK'
    BY <1>1, <1>3, <1>7 DEF Events!IInv, Events!TypeOK
<1>9. Events!CopyInv'
  <2>1. \A c \in Request : v5'[c].remote <= v3' /\ (c \in Events!Storing' => v5'[c].remote # 0)
      BY <1>1, <1>3, <1>4, EventsSets DEF Events!IInv, Events!CopyInv
  <2>2. v1.exists /\ v1.remote = 0 => v3 <= Cardinality(Events!Storing') + v7' + v8'
      BY <1>1, <1>6, <1>7, EventsSets DEF Events!IInv, Events!CopyInv
  <2>3. v3 + Cardinality(Events!Calling') <= Cardinality(Request) + v7' + v8'
      BY <1>1, <1>4, <1>6, <1>7, EventsSets DEF Events!IInv, Events!CopyInv
  <2>4. /\ v1.version = 0 => ~v1.exists /\ v3 = 0 /\ Events!AtRest'
        /\ v1.remote <= v3
      BY <1>4, EventsSets DEF Events!IInv, Events!CopyInv
  <2>5. UNCHANGED <<v1, v3>>
      BY <1>1
  <2> QED
      BY <1>7, <2>1, <2>2, <2>3, <2>4, <2>5, EventsSets DEF Events!CopyInv, Events!Storing
<1>10. ASSUME v1'.exists /\ ~v6' /\ v7' = 0 /\ ~Events!Deleting' PROVE Events!StaleInv'
  <2>1. Events!StaleInv
      BY <1>1, <1>4, <1>10 DEF Events!IInv
  <2>2. \A c \in Request : v5'[c].pc \in {"call", "stamp", "store"} => v5'[c] = v5[c]
      BY <1>3
  <2> QED
      BY <1>1, <1>3, <1>4, <2>1, <2>2 DEF Events!StaleInv
<1> QED
    BY <1>8, <1>9, <1>10 DEF Events!IInv

\* A request that holds what it read lets it go, once the row says what came of it.
LEMMA EventsLetGo ==
    ASSUME Events!IInv, NEW c \in Request, Events!Holds(c), EventsMoves(c, v5'[c]),
           v5'[c].pc = "idle",
           UNCHANGED <<v2, v6, v7, v8>>, v1'.exists => v1.exists,
           v1.exists /\ ~v6 /\ v7 = 0 /\ ~Events!Deleting /\ Events!StaleInv
              => Events!Pending \/ v1'.error \/ v1'.remote = 0 \/ v2[v1'.remote] = v1'.version,
           v1'.exists /\ ~v6' /\ v7' = 0 /\ ~Events!Deleting'
    PROVE  Events!StaleInv'
<1>1. v1.exists /\ ~v6 /\ v7 = 0 /\ ~Events!Deleting /\ Events!StaleInv
    BY DEF Events!IInv, Events!Deleting, EventsMoves, Events!Holds
<1>2. \A d \in Request : ~Events!Holds(d)'
    BY <1>1 DEF Events!StaleInv, Events!Holds, EventsMoves
<1>3. \A d \in Request : v5'[d].pc \notin {"call", "stamp", "store"}
    BY <1>2 DEF Events!Holds
<1>4. Events!Pending => Events!Pending'
    BY DEF Events!Pending, EventsMoves, Events!Holds
<1> QED
    BY <1>1, <1>2, <1>3, <1>4 DEF Events!StaleInv

LEMMA EventsRefusedStep ==
    ASSUME Events!Bounds, Events!IInv, NEW c \in Request, Events!Refused(c)
    PROVE  Events!IInv'
<1>1. /\ v5[c].pc = "call" /\ UNCHANGED <<v1, v2, v3, v4, v7, v8>>
      /\ v6' = (IF v4 THEN v6 ELSE TRUE)
    BY DEF Events!Refused, Events!At
<1>2. CASE v4
  <2>1. /\ EventsMoves(c, v5'[c]) /\ v5'[c].pc = "error" /\ v5'[c].remote = v5[c].remote
      BY <1>2, EventsGoesIs DEF Events!Refused, Events!Pc, Events!IInv
  <2>2. ASSUME v1'.exists /\ ~v6' /\ v7' = 0 /\ ~Events!Deleting' PROVE Events!StaleInv'
    <3>1. Events!StaleInv
        BY <1>1, <1>2, <2>1, <2>2 DEF Events!IInv, Events!Deleting, EventsMoves
    <3>2. Events!Holds(c) /\ Events!Holds(c)'
        BY <1>1, <2>1 DEF Events!Holds, EventsMoves
    <3>3. \A d \in Request \ {c} : ~Events!Holds(d)' /\ v5'[d] = v5[d]
        BY <2>1, <3>1, <3>2 DEF Events!StaleInv, Events!Holds, EventsMoves
    <3>4. \A d \in Request : v5'[d].pc \notin {"call", "stamp", "store"}
        BY <2>1, <3>3 DEF Events!Holds
    <3> QED
        BY <3>2, <3>3, <3>4 DEF Events!StaleInv
  <2>3. c \notin Events!Calling'
      BY <2>1 DEF Events!Calling
  <2> QED
      BY <1>1, <1>2, <2>1, <2>2, <2>3, EventsKnown, EventsKeptStep
<1>3. CASE ~v4
  <2>1. EventsMoves(c, v5'[c]) /\ v5'[c].pc = "idle" /\ v5'[c].remote = 0
      BY <1>3, EventsAnswerIs DEF Events!Refused, Events!IInv, EventsMoves
  <2>2. c \notin Events!Calling'
      BY <2>1 DEF Events!Calling
  <2> QED
      BY <1>1, <1>3, <2>1, <2>2, EventsKnown, EventsKeptStep
<1> QED
    BY <1>2, <1>3

LEMMA EventsStoreStep ==
    ASSUME Events!Bounds, Events!IInv, NEW c \in Request, Events!Store(c)
    PROVE  Events!IInv'
<1>1. /\ v5[c].pc = "store" /\ UNCHANGED <<v2, v3, v4, v6, v7, v8>>
      /\ v1' = IF v1.exists THEN [v1 EXCEPT !.remote = v5[c].remote, !.error = FALSE] ELSE v1
    BY DEF Events!Store, Events!At
<1>2. EventsMoves(c, v5'[c]) /\ v5'[c].pc = "idle" /\ v5'[c].remote = 0
    BY EventsAnswerIs DEF Events!Store, Events!IInv, EventsMoves
<1>3. /\ v1' \in [exists: BOOLEAN, version: 0..MaxVersion, remote: Nat, error: BOOLEAN]
      /\ v1'.version = v1.version /\ v1'.exists = v1.exists
      /\ v1.exists => v1'.remote = v5[c].remote
      /\ ~v1.exists => v1' = v1
    BY <1>1, EventsKnown
<1>4. ASSUME v1'.exists /\ ~v6' /\ v7' = 0 /\ ~Events!Deleting' PROVE Events!StaleInv'
    BY <1>1, <1>2, <1>3, <1>4, EventsLetGo DEF Events!Holds, Events!StaleInv
<1>5. c \notin Events!Calling'
    BY <1>2 DEF Events!Calling
<1> QED
    BY <1>1, <1>2, <1>3, <1>4, <1>5, EventsKnown, EventsKeptStep

LEMMA EventsStoreErrorStep ==
    ASSUME Events!Bounds, Events!IInv, NEW c \in Request, Events!StoreError(c)
    PROVE  Events!IInv'
<1>1. /\ v5[c].pc = "error" /\ UNCHANGED <<v2, v3, v4, v6, v7, v8>>
      /\ v1' = IF v1.exists THEN [v1 EXCEPT !.error = TRUE] ELSE v1
    BY DEF Events!StoreError, Events!At
<1>2. EventsMoves(c, v5'[c]) /\ v5'[c].pc = "idle" /\ v5'[c].remote = 0
    BY EventsAnswerIs DEF Events!StoreError, Events!IInv, EventsMoves
<1>3. /\ v1' \in [exists: BOOLEAN, version: 0..MaxVersion, remote: Nat, error: BOOLEAN]
      /\ v1'.version = v1.version /\ v1'.exists = v1.exists /\ v1'.remote = v1.remote
      /\ v1.exists => v1'.error
    BY <1>1, EventsKnown
<1>4. ASSUME v1'.exists /\ ~v6' /\ v7' = 0 /\ ~Events!Deleting' PROVE Events!StaleInv'
    BY <1>1, <1>2, <1>3, <1>4, EventsLetGo DEF Events!Holds
<1>5. c \notin Events!Calling'
    BY <1>2 DEF Events!Calling
<1>6. /\ v1.version # 0 /\ v1.remote <= v3 /\ v3 \in Nat /\ v4 \in BOOLEAN
      /\ v6 \in BOOLEAN
      /\ v7 <= MaxFaults /\ v7 + v8 <= MaxFaults
      /\ v2 \in [1..(Events!MaxCopies + 1) -> 0..MaxVersion]
    BY <1>1, EventsKnown
<1>7. /\ UNCHANGED <<v2, v3, v4, v6, v7, v8>> /\ v5[c].pc \notin {"stamp", "store"}
    BY <1>1
<1> QED
    BY <1>2, <1>3, <1>4, <1>5, <1>6, <1>7, EventsKeptStep

LEMMA EventsForgetStep ==
    ASSUME Events!Bounds, Events!IInv, NEW c \in Request, Events!Forget(c)
    PROVE  Events!IInv'
<1> DEFINE pc == IF v1.remote = 0 THEN "remove" ELSE "recall"
           q == [Events!Idle EXCEPT !.pc = pc, !.remote = v1.remote]
<1>1. /\ v5[c].pc = "idle" /\ v1.exists /\ UNCHANGED <<v1, v2, v3, v4, v6, v7, v8>>
      /\ v5' = [v5 EXCEPT ![c] = q]
    BY DEF Events!Forget, Events!At
<1>2. /\ q \in [pc: Events!Pc, version: 0..MaxVersion, remote: Nat]
      /\ q.pc \in {"remove", "recall"} /\ q.remote = v1.remote
  <2>1. /\ pc \in Events!Pc
        /\ pc \in {"remove", "recall"}
        /\ v1.remote \in Nat
        /\ 0 \in 0..MaxVersion
      BY EventsKnown, EventsSets DEF Events!Pc, Events!Bounds
  <2> HIDE DEF pc
  <2> DEFINE q1 == [Events!Idle EXCEPT !.pc = pc]
  <2>2. q1 \in [pc: Events!Pc, version: 0..MaxVersion, remote: Nat] /\ q1.pc = pc
      BY <2>1 DEF Events!Idle
  <2>3. q = [q1 EXCEPT !.remote = v1.remote]
      BY Zenon
  <2> HIDE DEF q, q1
  <2> QED
      BY <2>1, <2>2, <2>3
<1> HIDE DEF q
<1>3. /\ EventsMoves(c, v5'[c])
      /\ v5'[c].pc \in {"remove", "recall"}
      /\ v5'[c].remote = v1.remote
    BY <1>1, <1>2 DEF EventsMoves, Events!IInv, Events!TypeOK
<1>4. Events!Deleting' /\ c \notin Events!Calling'
    BY <1>3 DEF Events!Deleting, Events!Calling
<1> QED
    BY <1>1, <1>3, <1>4, EventsKnown, EventsKeptStep

LEMMA EventsRecallStep ==
    ASSUME Events!Bounds, Events!IInv, NEW c \in Request, Events!Recall(c)
    PROVE  Events!IInv'
<1>1. /\ v5[c].pc = "recall" /\ UNCHANGED <<v1, v3, v4, v6, v7, v8>>
      /\ v2' = [v2 EXCEPT ![v5[c].remote] = 0] \/ v2' = v2
    BY DEF Events!Recall, Events!At
<1>2. EventsMoves(c, v5'[c]) /\ v5'[c].pc = "remove" /\ v5'[c].remote = v5[c].remote
    BY EventsGoesIs DEF Events!Recall, Events!Pc, Events!IInv
<1>3. v2' \in [1..(Events!MaxCopies + 1) -> 0..MaxVersion]
  <2>1. 0 \in 0..MaxVersion
      BY EventsSets DEF Events!Bounds
  <2> QED
      BY <1>1, <2>1, EventsKnown
<1>4. Events!Deleting' /\ c \notin Events!Calling'
    BY <1>2 DEF Events!Deleting, Events!Calling
<1> QED
    BY <1>1, <1>2, <1>3, <1>4, EventsKnown, EventsKeptStep

LEMMA EventsRemoveStep ==
    ASSUME Events!Bounds, Events!IInv, NEW c \in Request, Events!Remove(c)
    PROVE  Events!IInv'
<1>1. /\ v5[c].pc = "remove" /\ UNCHANGED <<v2, v3, v4, v6, v7, v8>>
      /\ v1' = [exists |-> FALSE, version |-> v1.version, remote |-> 0, error |-> FALSE]
    BY DEF Events!Remove, Events!At, Events!NoRow
<1>2. EventsMoves(c, v5'[c]) /\ v5'[c].pc = "idle" /\ v5'[c].remote = 0
    BY EventsAnswerIs DEF Events!Remove, Events!IInv, EventsMoves
<1>3. /\ v1' \in [exists: BOOLEAN, version: 0..MaxVersion, remote: Nat, error: BOOLEAN]
      /\ v1'.version = v1.version /\ ~v1'.exists /\ v1'.remote = 0
    BY <1>1, EventsKnown
<1>4. c \notin Events!Calling'
    BY <1>2 DEF Events!Calling
<1> QED
    BY <1>1, <1>2, <1>3, <1>4, EventsKnown, EventsKeptStep

LEMMA EventsFaultStep ==
    ASSUME Events!Bounds, Events!IInv, NEW c \in Request, Events!Fault(c)
    PROVE  Events!IInv'
<1>1. /\ v5[c].pc # "idle" /\ v7 + v8 < MaxFaults /\ v7' = v7 + 1
      /\ UNCHANGED <<v1, v2, v3, v4, v6, v8>>
    BY DEF Events!Fault, Events!At
<1>2. /\ EventsMoves(c, v5'[c])
      /\ v5'[c].pc \in {"idle", "error"}
      /\ v5'[c].remote \in {0, v5[c].remote}
    BY EventsAnswerIs, EventsGoesIs DEF Events!Fault, Events!IInv, EventsMoves, Events!Pc
<1>3. /\ c \notin Events!Calling' /\ v7' # 0
      /\ v7' <= MaxFaults /\ v7' + v8 <= MaxFaults
    BY <1>1, <1>2, EventsKnown, EventsSets DEF Events!Calling, Events!Bounds
<1> QED
    BY <1>1, <1>2, <1>3, EventsKnown, EventsKeptStep, EventsSets DEF Events!Bounds

LEMMA EventsInductive ==
    ASSUME Events!Bounds
    PROVE  Events!IInv /\ [Events!Next]_(Events!vars) => Events!IInv'
<1> SUFFICES ASSUME Events!IInv, [Events!Next]_(Events!vars) PROVE Events!IInv'
    OBVIOUS
<1>1. CASE UNCHANGED Events!vars \/ Events!Connect
  <2>1. UNCHANGED <<v1, v2, v3, v5, v6, v7, v8>> /\ v4' \in BOOLEAN
      BY <1>1 DEF Events!vars, Events!Connect, Events!IInv, Events!TypeOK
  <2> QED
      BY <2>1, EventsSets DEF Events!IInv, Events!TypeOK, Events!CopyInv, Events!StaleInv,
         Events!AtRest, Events!Calling, Events!Storing, Events!Holds, Events!Pending,
         Events!Deleting
<1>2. ASSUME NEW c \in Request, Events!Serve(c) PROVE Events!IInv'
    BY <1>2, EventsCreateStep, EventsFindStep, EventsChangeStep, EventsCommitStep,
       EventsReadBackStep, EventsMakeStep, EventsPatchStep, EventsStampStep,
       EventsRefusedStep, EventsStoreStep, EventsStoreErrorStep, EventsForgetStep,
       EventsRecallStep, EventsRemoveStep, EventsFaultStep DEF Events!Serve
<1> QED
    BY <1>1, <1>2, EventsDisconnectStep DEF Events!Next

\* The copies are told: without a request that holds or deletes, StaleInv says it.
LEMMA EventsProperties ==
    ASSUME Events!Bounds
    PROVE  Events!IInv => Events!TypeOK /\ Events!CopiesBounded /\ Events!StaleCopyIsTold
<1> SUFFICES ASSUME Events!IInv
             PROVE  Events!TypeOK /\ Events!CopiesBounded /\ Events!StaleCopyIsTold
    OBVIOUS
<1>1. Events!AtRest => ~Events!Deleting /\ ~Events!Pending /\ \A c \in Request : ~Events!Holds(c)
    BY DEF Events!AtRest, Events!Deleting, Events!Pending, Events!Holds
<1> QED
    BY <1>1, EventsCopiesFollow DEF Events!IInv, Events!StaleInv, Events!StaleCopyIsTold

-----------------------------------------------------------------------------
(* Scans for neglected contacts.                                           *)
(* v1 contact, v2 live, v3 scan, v4 beside, v5 changes.                    *)

\* The finite sets of the instance are those of FiniteSets.
LEMMA MemorySets ==
    \A S : /\ Memory!IsFiniteSet(S) <=> IsFiniteSet(S)
          /\ Memory!Cardinality(S) = Cardinality(S)
    BY DEF Memory!IsFiniteSet, IsFiniteSet, Memory!Cardinality, Cardinality

MemoryScanType == [pc: {"idle", "found", "queue"}, agent: Agent, todo: Seq(Contact), active: SUBSET Contact]

LEMMA MemoryIdleIs == ASSUME NEW a \in Agent
    PROVE  /\ Memory!Idle(a) \in MemoryScanType /\ Memory!Idle(a).pc = "idle" /\ Memory!Idle(a).todo = <<>>
           /\ Memory!Injective(Memory!Idle(a).todo)
    BY DEF Memory!Idle, MemoryScanType, Memory!Injective

\* An action that no other scan ran beside is the only one, and no scan wants another.
MemoryAlone(a, c) ==
    <<a, c>> \notin v4 => v2[a][c] <= 1 /\ (v2[a][c] = 1 => Memory!Wants(a, c) = {})

LEMMA MemoryInitially == ASSUME Memory!Bounds PROVE Memory!Init => Memory!IInv
<1> SUFFICES ASSUME Memory!Init PROVE Memory!IInv
    OBVIOUS
<1>1. \A s \in Scan : /\ v3[s] \in MemoryScanType /\ v3[s].pc = "idle"
                      /\ Memory!Injective(v3[s].todo) /\ v3[s].todo = <<>>
    BY MemoryIdleIs DEF Memory!Init
<1>2. \A s \in Scan : Len(v3[s].todo) <= MaxItems
    BY <1>1, MemorySets DEF Memory!Bounds
<1>3. v3 \in [Scan -> MemoryScanType]
    BY <1>1 DEF Memory!Init
<1>4. Memory!TypeOK
    BY <1>2, <1>3, MemorySets DEF Memory!Init, Memory!TypeOK, MemoryScanType, Memory!Bounds
<1>5. \A a \in Agent, c \in Contact : Memory!Wants(a, c) = {} /\ v2[a][c] = 0
    BY <1>1 DEF Memory!Wants, Memory!Init
<1>6. Cardinality({}) = 0 /\ Cardinality(Scan) \in Nat
    BY FS_EmptySet, FS_CardinalityType, MemorySets DEF Memory!Bounds
<1>7. ASSUME NEW a \in Agent, NEW c \in Contact
      PROVE  v2[a][c] + Cardinality(Memory!Wants(a, c)) <= Cardinality(Scan)
  <2>1. Memory!Wants(a, c) = {} /\ v2[a][c] = 0
      BY <1>5
  <2>2. v2[a][c] + Cardinality(Memory!Wants(a, c)) = 0
      BY <1>6, <2>1
  <2> QED
      BY <1>6, <2>2
<1>8. \A s \in Scan : Memory!Injective(v3[s].todo)
    BY <1>1
<1>9. \A a \in Agent, c \in Contact : MemoryAlone(a, c)
    BY <1>5 DEF MemoryAlone
<1> QED
    BY <1>4, <1>7, <1>8, <1>9, MemorySets DEF Memory!IInv, MemoryAlone

\* The counts of a step by which only scan s moves, or none.
LEMMA MemoryWantsIs ==
    ASSUME Memory!Bounds, NEW s, NEW a, NEW c, \A r \in Scan \ {s} : v3'[r] = v3[r]
    PROVE  /\ Cardinality(Memory!Wants(a, c)) \in Nat /\ Cardinality(Memory!Wants(a, c)') \in Nat
           /\ Cardinality(Scan) \in Nat
           /\ Cardinality(Memory!Wants(a, c)') <= Cardinality(Scan)
           /\ s \in Memory!Wants(a, c) /\ s \in Memory!Wants(a, c)'
                => Cardinality(Memory!Wants(a, c)') = Cardinality(Memory!Wants(a, c))
           /\ s \notin Memory!Wants(a, c) /\ s \notin Memory!Wants(a, c)'
                => Cardinality(Memory!Wants(a, c)') = Cardinality(Memory!Wants(a, c))
           /\ s \in Memory!Wants(a, c) /\ s \notin Memory!Wants(a, c)'
                => Cardinality(Memory!Wants(a, c)') = Cardinality(Memory!Wants(a, c)) - 1
           /\ s \notin Memory!Wants(a, c) /\ s \in Memory!Wants(a, c)'
                => Cardinality(Memory!Wants(a, c)') = Cardinality(Memory!Wants(a, c)) + 1
<1>1. Memory!Wants(a, c) \ {s} = Memory!Wants(a, c)' \ {s}
    BY DEF Memory!Wants
<1>2. IsFiniteSet(Memory!Wants(a, c)) /\ Memory!Wants(a, c)' \in SUBSET Scan
    BY FS_Subset, MemorySets DEF Memory!Wants, Memory!Bounds
<1>3. Cardinality(Scan) \in Nat /\ Cardinality(Memory!Wants(a, c)') <= Cardinality(Scan)
    BY <1>2, FS_Subset, FS_CardinalityType, MemorySets DEF Memory!Bounds
<1> QED
    BY <1>1, <1>2, <1>3, OneOff

\* A step of scan s that queues nothing: it gives up, goes on to the next contact, or
\* begins to queue for those that have no action.
LEMMA MemoryScanStep ==
    ASSUME Memory!Bounds, Memory!IInv, NEW s \in Scan, NEW q \in MemoryScanType,
           v3' = [v3 EXCEPT ![s] = q],
           v1' \in [Contact -> Profile], v2' = v2, v4' = v4, v5' \in 0..MaxChanges,
           Len(q.todo) <= MaxItems, Memory!Injective(q.todo),
           \A c \in Contact : (/\ q.pc = "queue" /\ c \notin q.active
                               /\ \E i \in DOMAIN q.todo : q.todo[i] = c)
              => v2[q.agent][c] = 0 \/ s \in Memory!Wants(q.agent, c)
    PROVE  Memory!IInv'
<1>1. v3' \in [Scan -> MemoryScanType] /\ v3'[s] = q /\ \A r \in Scan \ {s} : v3'[r] = v3[r]
    BY MemorySets DEF Memory!IInv, Memory!TypeOK, MemoryScanType
<1>2. Memory!TypeOK'
    BY <1>1, MemorySets DEF Memory!IInv, Memory!TypeOK, MemoryScanType
<1>3. \A r \in Scan : Memory!Injective(v3'[r].todo)
    BY <1>1, MemorySets DEF Memory!IInv
<1>4. ASSUME NEW a \in Agent, NEW c \in Contact
      PROVE  v2'[a][c] + Cardinality(Memory!Wants(a, c)') <= Cardinality(Scan)
  <2>1. v2[a][c] \in Nat /\ v2[a][c] + Cardinality(Memory!Wants(a, c)) <= Cardinality(Scan)
      BY MemorySets DEF Memory!IInv, Memory!TypeOK
  <2>2. s \in Memory!Wants(a, c)' => v2[a][c] = 0 \/ s \in Memory!Wants(a, c)
      BY <1>1 DEF Memory!Wants
  <2>3. \/ v2[a][c] = 0
        \/ Cardinality(Memory!Wants(a, c)') <= Cardinality(Memory!Wants(a, c))
      BY <1>1, <2>2, MemoryWantsIs
  <2>4. /\ Cardinality(Memory!Wants(a, c)) \in Nat
        /\ Cardinality(Memory!Wants(a, c)') \in Nat
        /\ Cardinality(Scan) \in Nat
        /\ Cardinality(Memory!Wants(a, c)') <= Cardinality(Scan)
      BY <1>1, MemoryWantsIs
  <2> QED
      BY <2>1, <2>3, <2>4
<1>5. ASSUME NEW a \in Agent, NEW c \in Contact
      PROVE  MemoryAlone(a, c)'
  <2>1. MemoryAlone(a, c)
      BY DEF Memory!IInv, MemoryAlone
  <2>2. v2[a][c] = 1 => Memory!Wants(a, c)' \subseteq Memory!Wants(a, c)
      BY <1>1 DEF Memory!Wants
  <2> QED
      BY <2>1, <2>2 DEF MemoryAlone
<1> QED
    BY <1>2, <1>3, <1>4, <1>5, MemorySets DEF Memory!IInv, MemoryAlone

LEMMA MemoryScanIs == ASSUME Memory!IInv, NEW s \in Scan
    PROVE  /\ v3[s] \in MemoryScanType /\ Len(v3[s].todo) <= MaxItems /\ Memory!Injective(v3[s].todo)
           /\ v1 \in [Contact -> Profile] /\ v4 \subseteq Agent \X Contact /\ v5 \in 0..MaxChanges
           /\ v2 \in [Agent -> [Contact -> Nat]]
    BY MemorySets DEF Memory!IInv, Memory!TypeOK, MemoryScanType

LEMMA MemoryFindStep ==
    ASSUME Memory!Bounds, Memory!IInv, NEW s \in Scan, NEW a \in Agent,
           Memory!FindCandidates(s, a)
    PROVE  Memory!IInv'
<1>7. PICK r1 \in Memory!FindOverdueTasks(a), r2 \in Memory!FindActiveNoActivity,
           r3 \in Memory!FindQualifiedNoConsult, r4 \in Memory!FindStaleLeads,
           r5 \in Memory!FindPastClientCheckins :
         \E n \in 0..MaxItems : \E todo \in [1..n -> Memory!Found(<<r1, r2, r3, r4, r5>>)] :
            /\ Memory!Injective(todo)
            /\ v3' = [v3 EXCEPT ![s] = [Memory!Idle(a) EXCEPT !.pc = "found", !.todo = todo]]
    BY DEF Memory!FindCandidates
<1>8. PICK n \in 0..MaxItems : \E todo \in [1..n -> Memory!Found(<<r1, r2, r3, r4, r5>>)] :
         /\ Memory!Injective(todo)
         /\ v3' = [v3 EXCEPT ![s] = [Memory!Idle(a) EXCEPT !.pc = "found", !.todo = todo]]
    BY <1>7
<1>1. PICK todo \in [1..n -> Memory!Found(<<r1, r2, r3, r4, r5>>)] :
         /\ Memory!Injective(todo)
         /\ v3' = [v3 EXCEPT ![s] = [Memory!Idle(a) EXCEPT !.pc = "found", !.todo = todo]]
    BY <1>8
<1>2. Memory!Found(<<r1, r2, r3, r4, r5>>) \subseteq Contact
  <2>1. r1 \in SUBSET Contact
    <3>1. PICK read : /\ r1 = {task[1] : task \in read}
                      /\ read \subseteq
                           UNION {{<<c, t>> : t \in {u \in v1[c].overdue : u[1] = a}} : c \in Contact}
        BY DEF Memory!FindOverdueTasks, Memory!Pages
    <3>2. \A task \in read : task[1] \in Contact
        BY <3>1
    <3> QED
        BY <3>1, <3>2
  <2>2. r2 \in SUBSET Contact /\ r3 \in SUBSET Contact
      BY DEF Memory!FindActiveNoActivity, Memory!FindQualifiedNoConsult, Memory!Pages
  <2>3. r4 \in SUBSET Contact /\ r5 \in SUBSET Contact
      BY DEF Memory!FindStaleLeads, Memory!FindPastClientCheckins, Memory!Pages
  <2>4. \A r \in Memory!Rule : <<r1, r2, r3, r4, r5>>[r] \in SUBSET Contact
      BY <2>1, <2>2, <2>3 DEF Memory!Rule
  <2> QED
      BY <2>4 DEF Memory!Found
<1>3. todo \in Seq(Contact) /\ Len(todo) = n /\ n <= MaxItems
    BY <1>2, MemorySets DEF Memory!Bounds
<1> DEFINE q1 == [Memory!Idle(a) EXCEPT !.pc = "found"]
           q == [q1 EXCEPT !.todo = todo]
<1>5. v3' = [v3 EXCEPT ![s] = q]
    BY <1>1, Zenon
<1>9. q1 \in MemoryScanType /\ q1.pc = "found"
    BY MemoryIdleIs DEF MemoryScanType
<1> HIDE DEF q1
<1>4. q \in MemoryScanType /\ q.pc = "found" /\ q.todo = todo
    BY <1>3, <1>9 DEF MemoryScanType
<1>6. v1' = v1 /\ v2' = v2 /\ v4' = v4 /\ v5' = v5
    BY DEF Memory!FindCandidates
<1> HIDE DEF q
<1> QED
    BY <1>1, <1>3, <1>4, <1>5, <1>6, MemoryScanIs, MemoryScanStep, MemorySets
       DEF Memory!Bounds

LEMMA MemoryReadStep ==
    ASSUME Memory!Bounds, Memory!IInv, NEW s \in Scan, Memory!ReadActive(s)
    PROVE  Memory!IInv'
<1> DEFINE now == {c \in Contact : v2[v3[s].agent][c] > 0}
           q1 == [v3[s] EXCEPT !.pc = "queue"]
           q == [q1 EXCEPT !.active = now]
<1>1. v3' = [v3 EXCEPT ![s] = q] /\ UNCHANGED <<v1, v2, v4, v5>>
    BY DEF Memory!ReadActive
<1>2. q1 \in MemoryScanType /\ q1.todo = v3[s].todo /\ q1.agent = v3[s].agent
    BY MemoryScanIs DEF MemoryScanType
<1>3. now \in SUBSET Contact
    OBVIOUS
<1> HIDE DEF now, q1
<1>4. q \in MemoryScanType /\ q.todo = v3[s].todo /\ q.agent = v3[s].agent /\ q.active = now
    BY <1>2, <1>3 DEF MemoryScanType
<1> HIDE DEF q
<1>5. \A c \in Contact : c \notin now => v2[v3[s].agent][c] = 0
    BY MemoryScanIs DEF now, MemoryScanType
<1>6. /\ Len(q.todo) <= MaxItems /\ Memory!Injective(q.todo)
      /\ v1' \in [Contact -> Profile] /\ v2' = v2 /\ v4' = v4 /\ v5' \in 0..MaxChanges
    BY <1>1, <1>4, MemoryScanIs
<1>7. \A c \in Contact : c \notin q.active => v2[q.agent][c] = 0
    BY <1>4, <1>5
<1> QED
    BY <1>1, <1>4, <1>6, <1>7, MemoryScanStep

\* What is left after the first contact.
LEMMA MemoryTailIs ==
    ASSUME NEW todo \in Seq(Contact), todo # <<>>, Memory!Injective(todo)
    PROVE  /\ Head(todo) \in Contact /\ Tail(todo) \in Seq(Contact)
           /\ Len(Tail(todo)) <= Len(todo) /\ Memory!Injective(Tail(todo))
           /\ \A i \in DOMAIN Tail(todo) : Tail(todo)[i] # Head(todo)
           /\ \A i \in DOMAIN Tail(todo) : \E j \in DOMAIN todo : Tail(todo)[i] = todo[j]
           /\ \E j \in DOMAIN todo : todo[j] = Head(todo)
<1>1. /\ Len(todo) \in Nat \ {0} /\ Len(Tail(todo)) = Len(todo) - 1 /\ Head(todo) = todo[1]
      /\ \A i \in 1..(Len(todo) - 1) : Tail(todo)[i] = todo[i + 1]
      /\ DOMAIN todo = 1..Len(todo) /\ Tail(todo) \in Seq(Contact)
      /\ DOMAIN Tail(todo) = 1..(Len(todo) - 1)
    OBVIOUS
<1> QED
    BY <1>1 DEF Memory!Injective

LEMMA MemorySkipStep ==
    ASSUME Memory!Bounds, Memory!IInv, NEW s \in Scan, Memory!Turn(s),
           v3' = [v3 EXCEPT ![s].todo = Tail(v3[s].todo)],
           UNCHANGED <<v1, v2, v4>>, v5' \in 0..MaxChanges
    PROVE  Memory!IInv'
<1> DEFINE todo == v3[s].todo
           q == [v3[s] EXCEPT !.todo = Tail(todo)]
<1>1. todo \in Seq(Contact) /\ todo # <<>> /\ Memory!Injective(todo) /\ v3[s].pc = "queue"
    BY MemoryScanIs DEF Memory!Turn, MemoryScanType
<1>2. v3' = [v3 EXCEPT ![s] = q]
    OBVIOUS
<1>3. /\ q \in MemoryScanType /\ q.todo = Tail(todo) /\ q.agent = v3[s].agent
      /\ q.active = v3[s].active
    BY <1>1, MemoryTailIs, MemoryScanIs DEF MemoryScanType
<1> HIDE DEF q
<1>4. Len(q.todo) <= MaxItems
  <2>1. /\ Len(todo) \in Nat
        /\ Len(Tail(todo)) \in Nat
        /\ Len(todo) <= MaxItems
        /\ Len(Tail(todo)) <= Len(todo)
      BY <1>1, MemoryTailIs, MemoryScanIs
  <2> QED
      BY <1>3, <2>1, MemorySets DEF Memory!Bounds
<1>5. \A c \in Contact : (/\ c \notin q.active
                          /\ \E i \in DOMAIN q.todo : q.todo[i] = c) => s \in Memory!Wants(q.agent, c)
    BY <1>1, <1>3, MemoryTailIs DEF Memory!Wants
<1>6. Memory!Injective(q.todo) /\ v1' \in [Contact -> Profile] /\ v2' = v2 /\ v4' = v4
    BY <1>1, <1>3, MemoryTailIs, MemoryScanIs
<1>7. q \in MemoryScanType
    BY <1>3
<1>8. \A c \in Contact : (/\ q.pc = "queue" /\ c \notin q.active
                          /\ \E i \in DOMAIN q.todo : q.todo[i] = c)
          => v2[q.agent][c] = 0 \/ s \in Memory!Wants(q.agent, c)
    BY <1>5
<1> HIDE DEF todo
<1> QED
    BY <1>2, <1>4, <1>6, <1>7, <1>8, MemoryScanStep

LEMMA MemoryQueueStep ==
    ASSUME Memory!Bounds, Memory!IInv, NEW s \in Scan, Memory!Queue(s)
    PROVE  Memory!IInv'
<1> DEFINE todo == v3[s].todo
           h == Head(todo)
           b == v3[s].agent
<1>1. /\ Memory!Turn(s)
      /\ v3' = [v3 EXCEPT ![s].todo = Tail(v3[s].todo)]
      /\ UNCHANGED <<v1, v5>>
      /\ v2' = IF h \in v3[s].active THEN v2 ELSE [v2 EXCEPT ![b][h] = v2[b][h] + 1]
      /\ v4' = IF \/ h \in v3[s].active
                  \/ \A z \in Scan \ {s} : ~(v3[z].pc # "idle" /\ v3[z].agent = b)
               THEN v4 ELSE v4 \cup {<<b, h>>}
    BY DEF Memory!Queue
<1>2. CASE h \in v3[s].active
    BY <1>1, <1>2, MemorySkipStep, MemoryScanIs
<1>3. CASE h \notin v3[s].active
  <2>1. /\ todo \in Seq(Contact)
        /\ todo # <<>>
        /\ Memory!Injective(todo)
        /\ v3[s].pc = "queue"
        /\ h \in Contact /\ b \in Agent
      BY <1>1, MemoryScanIs, MemoryTailIs DEF Memory!Turn, MemoryScanType
  <2> DEFINE q == [v3[s] EXCEPT !.todo = Tail(todo)]
  <2>2. /\ q \in MemoryScanType /\ q.todo = Tail(todo) /\ q.agent = b
        /\ q.active = v3[s].active /\ q.pc = "queue"
      BY <2>1, MemoryTailIs, MemoryScanIs DEF MemoryScanType
  <2>3. v3' = [v3 EXCEPT ![s] = q]
      BY <1>1
  <2> HIDE DEF q
  <2>4. v3' \in [Scan -> MemoryScanType] /\ v3'[s] = q /\ \A r \in Scan \ {s} : v3'[r] = v3[r]
      BY <2>2, <2>3, MemorySets DEF Memory!IInv, Memory!TypeOK, MemoryScanType
  <2>5. Len(q.todo) <= MaxItems /\ Memory!Injective(q.todo)
    <3>1. /\ Len(todo) \in Nat
          /\ Len(Tail(todo)) \in Nat
          /\ Len(todo) <= MaxItems
          /\ Len(Tail(todo)) <= Len(todo)
        BY <2>1, MemoryTailIs, MemoryScanIs
    <3> QED
        BY <2>1, <2>2, <3>1, MemoryTailIs, MemorySets DEF Memory!Bounds
  <2>6. /\ v2' \in [Agent -> [Contact -> Nat]]
        /\ \A a \in Agent, c \in Contact : v2'[a][c] = IF a = b /\ c = h THEN v2[a][c] + 1 ELSE v2[a][c]
      BY <1>1, <1>3, <2>1, MemoryScanIs
  <2>10. v4 \subseteq v4' /\ v4' \subseteq Agent \X Contact
      BY <1>1, <2>1, MemoryScanIs
  <2>7. Memory!TypeOK'
      BY <1>1, <2>4, <2>5, <2>6, <2>10, MemorySets DEF Memory!IInv, Memory!TypeOK, MemoryScanType
  <2>8. \A r \in Scan : Memory!Injective(v3'[r].todo)
      BY <2>4, <2>5, MemorySets DEF Memory!IInv
  <2>9. ASSUME NEW a \in Agent, NEW c \in Contact
        PROVE  v2'[a][c] + Cardinality(Memory!Wants(a, c)') <= Cardinality(Scan)
    <3>1. /\ v2[a][c] \in Nat
          /\ v2[a][c] + Cardinality(Memory!Wants(a, c)) <= Cardinality(Scan)
        BY MemorySets DEF Memory!IInv, Memory!TypeOK
    <3>2. /\ Cardinality(Memory!Wants(a, c)) \in Nat
          /\ Cardinality(Memory!Wants(a, c)') \in Nat
          /\ Cardinality(Scan) \in Nat
        BY <2>4, MemoryWantsIs
    <3>3. CASE a = b /\ c = h
      <4>1. s \in Memory!Wants(a, c)
          BY <1>3, <2>1, <3>3, MemoryTailIs DEF Memory!Wants
      <4>2. s \notin Memory!Wants(a, c)'
          BY <2>1, <2>2, <2>4, <3>3, MemoryTailIs DEF Memory!Wants
      <4>3. Cardinality(Memory!Wants(a, c)') = Cardinality(Memory!Wants(a, c)) - 1
          BY <2>4, <4>1, <4>2, MemoryWantsIs
      <4> QED
          BY <2>6, <3>1, <3>2, <3>3, <4>3
    <3>4. CASE ~(a = b /\ c = h)
      <4>1. s \in Memory!Wants(a, c)' => s \in Memory!Wants(a, c)
        <5>1. \A i \in DOMAIN q.todo : \E j \in DOMAIN todo : q.todo[i] = todo[j]
            BY <2>1, <2>2, MemoryTailIs
        <5> QED
            BY <2>1, <2>2, <2>4, <5>1 DEF Memory!Wants
      <4>2. Cardinality(Memory!Wants(a, c)') <= Cardinality(Memory!Wants(a, c))
          BY <2>4, <3>2, <4>1, MemoryWantsIs
      <4> QED
          BY <2>6, <3>1, <3>2, <3>4, <4>2
    <3> QED
        BY <3>3, <3>4
  <2>11. ASSUME NEW a \in Agent, NEW c \in Contact
         PROVE  MemoryAlone(a, c)'
    <3> SUFFICES ASSUME <<a, c>> \notin v4'
                 PROVE  v2'[a][c] <= 1 /\ (v2'[a][c] = 1 => Memory!Wants(a, c)' = {})
        BY DEF MemoryAlone
    <3>1. v2[a][c] \in Nat /\ v2[a][c] <= 1 /\ (v2[a][c] = 1 => Memory!Wants(a, c) = {})
        BY <2>10, MemoryScanIs DEF Memory!IInv
    <3>2. CASE a = b /\ c = h
      <4>1. s \in Memory!Wants(a, c)
          BY <1>3, <2>1, <3>2, MemoryTailIs DEF Memory!Wants
      <4>2. s \notin Memory!Wants(a, c)'
          BY <2>1, <2>2, <2>4, <3>2, MemoryTailIs DEF Memory!Wants
      <4>3. \A z \in Scan \ {s} : ~(v3[z].pc # "idle" /\ v3[z].agent = b)
          BY <1>1, <1>3, <3>2
      <4>4. Memory!Wants(a, c)' = {}
        <5>1. ASSUME NEW z \in Memory!Wants(a, c)' PROVE FALSE
          <6>1. z \in Scan /\ z # s
              BY <4>2 DEF Memory!Wants
          <6>2. v3'[z] = v3[z] /\ v3'[z].pc = "queue" /\ v3'[z].agent = a
              BY <2>4, <5>1, <6>1 DEF Memory!Wants
          <6> QED
              BY <3>2, <4>3, <6>1, <6>2
        <5> QED
            BY <5>1
      <4>5. v2[a][c] # 1
          BY <3>1, <4>1
      <4>6. v2'[a][c] = v2[a][c] + 1
          BY <2>6, <3>2
      <4>7. v2'[a][c] = 1
          BY <3>1, <4>5, <4>6
      <4> QED
          BY <4>4, <4>7
    <3>3. CASE ~(a = b /\ c = h)
      <4>1. s \in Memory!Wants(a, c)' => s \in Memory!Wants(a, c)
        <5>1. \A i \in DOMAIN q.todo : \E j \in DOMAIN todo : q.todo[i] = todo[j]
            BY <2>1, <2>2, MemoryTailIs
        <5> QED
            BY <2>1, <2>2, <2>4, <5>1 DEF Memory!Wants
      <4>2. Memory!Wants(a, c)' \subseteq Memory!Wants(a, c)
          BY <2>4, <4>1 DEF Memory!Wants
      <4> QED
          BY <2>6, <3>1, <3>3, <4>2
    <3> QED
        BY <3>2, <3>3
  <2> QED
      BY <2>7, <2>8, <2>9, <2>11, MemorySets DEF Memory!IInv, MemoryAlone
<1> QED
    BY <1>2, <1>3

LEMMA MemoryEndStep ==
    ASSUME Memory!Bounds, Memory!IInv, NEW s \in Scan,
           v3' = [v3 EXCEPT ![s] = Memory!Idle(v3[s].agent)],
           UNCHANGED <<v1, v2, v4>>, v5' \in 0..MaxChanges
    PROVE  Memory!IInv'
<1>1. v3[s].agent \in Agent
    BY MemoryScanIs DEF MemoryScanType
<1> DEFINE q == Memory!Idle(v3[s].agent)
<1>2. q \in MemoryScanType /\ q.pc = "idle" /\ q.todo = <<>> /\ Memory!Injective(q.todo)
    BY <1>1, MemoryIdleIs
<1> HIDE DEF q
<1>3. Len(q.todo) <= MaxItems
    BY <1>2, MemorySets DEF Memory!Bounds
<1>4. v3' = [v3 EXCEPT ![s] = q]
    BY DEF q
<1> QED
    BY <1>2, <1>3, <1>4, MemoryScanIs, MemoryScanStep

LEMMA MemoryFailStep ==
    ASSUME Memory!Bounds, Memory!IInv, NEW s \in Scan, Memory!Fail(s)
    PROVE  Memory!IInv'
<1>1. v5' \in 0..MaxChanges /\ UNCHANGED <<v1, v2, v4>>
    BY MemoryScanIs, MemorySets DEF Memory!Fail, Memory!Count, Memory!Bounds
<1> QED
    BY <1>1, MemoryEndStep, MemorySkipStep DEF Memory!Fail

LEMMA MemoryContactStep ==
    ASSUME Memory!Bounds, Memory!IInv, NEW c \in Contact,
           Memory!Edit(c) \/ \E a \in Agent : Memory!Decide(a, c)
    PROVE  Memory!IInv'
<1>1. v5' \in 0..MaxChanges /\ v3' = v3 /\ v4' = v4
    BY MemorySets DEF Memory!Edit, Memory!Decide, Memory!Count, Memory!Bounds, Memory!IInv,
       Memory!TypeOK
<1>2. v1' \in [Contact -> Profile]
    BY MemorySets DEF Memory!Edit, Memory!Decide, Memory!IInv, Memory!TypeOK
<1>3. /\ v2' \in [Agent -> [Contact -> Nat]]
      /\ \A a \in Agent, d \in Contact : v2'[a][d] <= v2[a][d]
  <2>1. CASE Memory!Edit(c)
      BY <2>1, MemorySets DEF Memory!Edit, Memory!IInv, Memory!TypeOK
  <2>2. CASE \E a \in Agent : Memory!Decide(a, c)
    <3>1. PICK a \in Agent : Memory!Decide(a, c)
        BY <2>2
    <3>2. v2 \in [Agent -> [Contact -> Nat]] /\ v2[a][c] > 0
        BY <3>1, MemorySets DEF Memory!Decide, Memory!IInv, Memory!TypeOK
    <3>3. v2' = [v2 EXCEPT ![a][c] = v2[a][c] - 1]
        BY <3>1 DEF Memory!Decide
    <3> QED
        BY <3>2, <3>3
  <2> QED
      BY <2>1, <2>2
<1>4. \A a \in Agent, d \in Contact : Memory!Wants(a, d)' = Memory!Wants(a, d)
    BY <1>1 DEF Memory!Wants
<1>5. ASSUME NEW a \in Agent, NEW d \in Contact
      PROVE  v2'[a][d] + Cardinality(Memory!Wants(a, d)') <= Cardinality(Scan)
  <2>1. /\ v2[a][d] \in Nat /\ v2'[a][d] \in Nat /\ v2'[a][d] <= v2[a][d]
        /\ v2[a][d] + Cardinality(Memory!Wants(a, d)) <= Cardinality(Scan)
      BY <1>3, MemorySets DEF Memory!IInv, Memory!TypeOK
  <2>2. Cardinality(Memory!Wants(a, d)) \in Nat /\ Cardinality(Scan) \in Nat
      BY <1>1, MemoryWantsIs
  <2> QED
      BY <1>4, <2>1, <2>2
<1>6. ASSUME NEW a \in Agent, NEW d \in Contact
      PROVE  MemoryAlone(a, d)'
  <2>1. v2[a][d] \in Nat /\ v2'[a][d] \in Nat /\ v2'[a][d] <= v2[a][d]
      BY <1>3, MemorySets DEF Memory!IInv, Memory!TypeOK
  <2>2. <<a, d>> \notin v4 => v2[a][d] <= 1 /\ (v2[a][d] = 1 => Memory!Wants(a, d) = {})
      BY DEF Memory!IInv
  <2>3. <<a, d>> \notin v4 => v2'[a][d] <= 1 /\ (v2'[a][d] = 1 => v2[a][d] = 1)
      BY <2>1, <2>2
  <2>4. Memory!Wants(a, d)' = Memory!Wants(a, d)
      BY <1>4
  <2> QED
      BY <1>1, <2>2, <2>3, <2>4 DEF MemoryAlone
<1> QED
    BY <1>1, <1>2, <1>3, <1>5, <1>6, MemorySets DEF Memory!IInv, Memory!TypeOK, MemoryAlone

LEMMA MemoryInductive ==
    ASSUME Memory!Bounds
    PROVE  Memory!IInv /\ [Memory!Next]_(Memory!vars) => Memory!IInv'
<1> SUFFICES ASSUME Memory!IInv, [Memory!Next]_(Memory!vars) PROVE Memory!IInv'
    OBVIOUS
<1>1. CASE UNCHANGED Memory!vars
  <2>1. UNCHANGED <<v1, v2, v3, v4, v5>>
      BY <1>1 DEF Memory!vars
  <2>2. \A a \in Agent, c \in Contact : Memory!Wants(a, c)' = Memory!Wants(a, c)
      BY <2>1 DEF Memory!Wants
  <2>3. Memory!TypeOK'
      BY <2>1, MemorySets DEF Memory!IInv, Memory!TypeOK
  <2>4. \A s \in Scan : Memory!Injective(v3'[s].todo)
      BY <2>1, MemorySets DEF Memory!IInv
  <2>5. \A a \in Agent, c \in Contact :
           v2'[a][c] + Cardinality(Memory!Wants(a, c)') <= Cardinality(Scan)
      BY <2>1, <2>2, MemorySets DEF Memory!IInv
  <2>6. \A a \in Agent, c \in Contact : MemoryAlone(a, c)'
      BY <2>1, <2>2 DEF Memory!IInv, MemoryAlone
  <2> QED
      BY <2>3, <2>4, <2>5, <2>6, MemorySets DEF Memory!IInv, MemoryAlone
<1>2. ASSUME NEW s \in Scan, Memory!Finish(s) PROVE Memory!IInv'
    BY <1>2, MemoryEndStep, MemoryScanIs DEF Memory!Finish
<1> QED
    BY <1>1, <1>2, MemoryFindStep, MemoryReadStep, MemoryQueueStep, MemoryFailStep,
       MemoryContactStep DEF Memory!Next

LEMMA MemoryProperties ==
    ASSUME Memory!Bounds
    PROVE  Memory!IInv => Memory!TypeOK /\ Memory!ContactActionsBounded
<1> SUFFICES ASSUME Memory!IInv, NEW a \in Agent, NEW c \in Contact
             PROVE  (v2[a][c] > 1 => <<a, c>> \in v4) /\ v2[a][c] <= Cardinality(Scan)
    BY MemorySets DEF Memory!IInv, Memory!ContactActionsBounded
<1>1. /\ IsFiniteSet(Memory!Wants(a, c))
      /\ Cardinality(Memory!Wants(a, c)) \in Nat
      /\ Cardinality(Scan) \in Nat
    BY FS_Subset, FS_CardinalityType, MemorySets DEF Memory!Wants, Memory!Bounds
<1> QED
    BY <1>1, MemorySets DEF Memory!IInv, Memory!TypeOK

-----------------------------------------------------------------------------
(* The tracks of a contact.                                                *)
(* v1 active, v2 tx, v3 raced.                                             *)

\* The finite sets of the instance are those of FiniteSets.
LEMMA TracksSets ==
    \A S : /\ Tracks!IsFiniteSet(S) <=> IsFiniteSet(S)
          /\ Tracks!Cardinality(S) = Cardinality(S)
    BY DEF Tracks!IsFiniteSet, IsFiniteSet, Tracks!Cardinality, Cardinality

TracksTxType == [phase : Tracks!Phases, stage : Stage \cup {""}, fields : BOOLEAN, drop : SUBSET TrackUpdate]

LEMMA TracksPhasesAre == {"begun", "looked", "dropped", "done"} \subseteq Tracks!Phases
    BY DEF Tracks!Phases

LEMMA TracksInitially == ASSUME Tracks!Bounds PROVE Tracks!Init => Tracks!IInv
<1> SUFFICES ASSUME Tracks!Init PROVE Tracks!IInv
    OBVIOUS
<1>1. Tracks!New \in TracksTxType /\ Tracks!New.phase = "new"
    BY DEF Tracks!New, TracksTxType, Tracks!Phases
<1>2. /\ v1 = {}
      /\ v2 \in [TrackUpdate -> TracksTxType]
      /\ (\A u \in TrackUpdate : v2[u].phase = "new")
    BY <1>1 DEF Tracks!Init
<1>3. v3 \in BOOLEAN
    BY DEF Tracks!Init
<1> QED
    BY <1>2, <1>3 DEF Tracks!IInv, Tracks!TypeOK, TracksTxType, Tracks!Open

\* A step of one update that leaves the tracks alone.
LEMMA TracksTxStep ==
    ASSUME Tracks!IInv, NEW u \in TrackUpdate, NEW q \in TracksTxType,
           v2' = [v2 EXCEPT ![u] = q],
           UNCHANGED v1, v3' \in BOOLEAN, ~v3' => ~v3,
           ~v3' /\ q.phase \in {"begun", "looked", "dropped"} => \A v \in TrackUpdate \ {u} : ~Tracks!Open(v),
           q.phase = "dropped" => {t.by : t \in v1} \subseteq q.drop
    PROVE  Tracks!IInv'
<1>1. v2' \in [TrackUpdate -> TracksTxType] /\ v2'[u] = q /\ \A v \in TrackUpdate \ {u} : v2'[v] = v2[v]
    BY DEF Tracks!IInv, Tracks!TypeOK, TracksTxType
<1>2. Tracks!TypeOK'
    BY <1>1 DEF Tracks!IInv, Tracks!TypeOK, TracksTxType
<1>3. ASSUME ~v3'
      PROVE  /\ \A s, t \in v1' : s = t
             /\ \A v, w \in TrackUpdate : Tracks!Open(v)' /\ Tracks!Open(w)' => v = w
             /\ \A v \in TrackUpdate : v2'[v].phase = "dropped"
                  => {t.by : t \in v1'} \subseteq v2'[v].drop
    BY <1>1, <1>3 DEF Tracks!IInv, Tracks!Open
<1> QED
    BY <1>2, <1>3 DEF Tracks!IInv

LEMMA TracksTxIs == ASSUME Tracks!IInv, NEW u \in TrackUpdate
    PROVE v2[u] \in TracksTxType
    BY DEF Tracks!IInv, Tracks!TypeOK, TracksTxType

LEMMA TracksRacedIs == Tracks!IInv => v3 \in BOOLEAN
    BY DEF Tracks!IInv, Tracks!TypeOK

LEMMA TracksByIs == Tracks!IInv => {t.by : t \in v1} \in SUBSET TrackUpdate
<1> SUFFICES ASSUME Tracks!IInv PROVE \A t \in v1 : t.by \in TrackUpdate
    OBVIOUS
<1> QED
    BY DEF Tracks!IInv, Tracks!TypeOK

LEMMA TracksBeginStep ==
    ASSUME Tracks!IInv, NEW u \in TrackUpdate, NEW stage \in Stage \cup {""},
           NEW fields \in BOOLEAN,
           Tracks!Begin(u, stage, fields)
    PROVE  Tracks!IInv'
<1> DEFINE q1 == [Tracks!New EXCEPT !.phase = "begun"]
           q2 == [q1 EXCEPT !.stage = stage]
           q == [q2 EXCEPT !.fields = fields]
<1>1. v2' = [v2 EXCEPT ![u] = q] /\ UNCHANGED v1
    BY Zenon DEF Tracks!Begin
<1>2. q1 \in TracksTxType /\ q1.phase = "begun"
    BY TracksPhasesAre DEF Tracks!New, TracksTxType
<1> HIDE DEF q1
<1>3. q2 \in TracksTxType /\ q2.phase = "begun"
    BY <1>2 DEF TracksTxType
<1> HIDE DEF q2
<1>4. q \in TracksTxType /\ q.phase = "begun"
    BY <1>3 DEF TracksTxType
<1> HIDE DEF q
<1>5. v3' = (v3 \/ \E v \in Tracks!Others(u) : ~fields \/ ~v2[v].fields)
    BY DEF Tracks!Begin
<1>6. ~v3' => ~v3 /\ \A v \in TrackUpdate \ {u} : ~Tracks!Open(v)
  <2>1. ASSUME ~v3' PROVE Tracks!Others(u) = {}
      BY <1>5, <2>1 DEF Tracks!Begin, Tracks!Waits
  <2> QED
      BY <1>5, <2>1 DEF Tracks!Others
<1>7. v3' \in BOOLEAN
    BY <1>5
<1> QED
    BY <1>1, <1>4, <1>6, <1>7, TracksTxStep

LEMMA TracksLookStep ==
    ASSUME Tracks!IInv, NEW u \in TrackUpdate, Tracks!Look(u)
    PROVE  Tracks!IInv'
<1>1. PICK p \in {"done", "looked"} : v2' = [v2 EXCEPT ![u].phase = p]
    BY DEF Tracks!Look
<1> DEFINE q == [v2[u] EXCEPT !.phase = p]
<1>2. q \in TracksTxType /\ q.phase = p
    BY TracksTxIs, TracksPhasesAre DEF TracksTxType
<1>3. v2' = [v2 EXCEPT ![u] = q]
    BY <1>1
<1> HIDE DEF q
<1>4. ~v3 => \A v \in TrackUpdate \ {u} : ~Tracks!Open(v)
    BY DEF Tracks!Look, Tracks!IInv, Tracks!Open
<1> QED
    BY <1>2, <1>3, <1>4, TracksTxIs, TracksRacedIs, TracksTxStep DEF Tracks!Look

LEMMA TracksDropStep ==
    ASSUME Tracks!IInv, NEW u \in TrackUpdate, Tracks!Drop(u)
    PROVE  Tracks!IInv'
<1> DEFINE seen == {t.by : t \in v1}
           q1 == [v2[u] EXCEPT !.phase = "dropped"]
           q == [q1 EXCEPT !.drop = seen]
<1>1. v2' = [v2 EXCEPT ![u].phase = "dropped", ![u].drop = seen]
    BY DEF Tracks!Drop
<1>2. q1 \in TracksTxType /\ q1.phase = "dropped"
    BY TracksTxIs, TracksPhasesAre DEF TracksTxType
<1>3. q \in TracksTxType /\ q.phase = "dropped" /\ q.drop = seen
    BY <1>2, TracksByIs DEF TracksTxType
<1>4. v2' = [v2 EXCEPT ![u] = q]
    BY <1>1, TracksTxIs DEF Tracks!IInv, Tracks!TypeOK, TracksTxType
<1> HIDE DEF q, q1
<1>5. ~v3 => \A v \in TrackUpdate \ {u} : ~Tracks!Open(v)
    BY DEF Tracks!Drop, Tracks!IInv, Tracks!Open
<1> QED
    BY <1>3, <1>4, <1>5, TracksTxIs, TracksRacedIs, TracksTxStep DEF Tracks!Drop

LEMMA TracksOverStep == ASSUME Tracks!IInv, NEW u \in TrackUpdate, Tracks!Commit(u) \/ Tracks!Abort(u) 
    PROVE  /\ v2' \in [TrackUpdate -> TracksTxType] /\ v2'[u].phase = "done"
           /\ \A v \in TrackUpdate \ {u} : v2'[v] = v2[v]
<1> DEFINE q1 == [v2[u] EXCEPT !.phase = "done"]
           q == [q1 EXCEPT !.drop = {}]
<1>1. v2' = [v2 EXCEPT ![u].phase = "done", ![u].drop = {}]
    BY TracksSets DEF Tracks!Commit, Tracks!Abort
<1>2. q1 \in TracksTxType /\ q1.phase = "done"
    BY TracksTxIs, TracksPhasesAre DEF TracksTxType
<1>3. q \in TracksTxType /\ q.phase = "done"
    BY <1>2 DEF TracksTxType
<1>4. v2' = [v2 EXCEPT ![u] = q]
    BY <1>1, TracksTxIs DEF Tracks!IInv, Tracks!TypeOK, TracksTxType
<1> HIDE DEF q, q1
<1> QED
    BY <1>3, <1>4 DEF Tracks!IInv, Tracks!TypeOK, TracksTxType

LEMMA TracksCommitStep ==
    ASSUME Tracks!Bounds, Tracks!IInv, NEW u \in TrackUpdate, Tracks!Commit(u)
    PROVE  Tracks!IInv'
<1> DEFINE n == Cardinality(Tracks!Over)
           fresh == {[by |-> u, stage |-> s, at |-> n] : s \in {v2[u].stage} \ {""}}
<1>1. /\ v1' = {t \in v1 : t.by \notin v2[u].drop} \cup fresh
      /\ v3' = v3 /\ v2[u].phase = "dropped"
    BY TracksSets DEF Tracks!Commit
<1>2. n \in Nat
    BY FS_Subset, FS_CardinalityType, TracksSets DEF Tracks!Bounds, Tracks!Over
<1> HIDE DEF n
<1>6. v2[u].stage \in Stage \cup {""}
    BY TracksTxIs DEF TracksTxType
<1>3. /\ fresh \subseteq [by : TrackUpdate, stage : Stage, at : Nat]
      /\ \A s, t \in fresh : s = t
  <2>1. ASSUME NEW s \in Stage, NEW t \in fresh, t = [by |-> u, stage |-> s, at |-> n]
        PROVE  t \in [by : TrackUpdate, stage : Stage, at : Nat]
      BY <1>2, <2>1
  <2>2. \A t \in fresh : \E s \in Stage : t = [by |-> u, stage |-> s, at |-> n]
      BY <1>6
  <2> QED
      BY <2>1, <2>2
<1>4. Tracks!TypeOK'
    BY <1>1, <1>3, TracksOverStep DEF Tracks!IInv, Tracks!TypeOK, TracksTxType
<1>5. ASSUME ~v3
      PROVE  /\ \A s, t \in v1' : s = t
             /\ \A v, w \in TrackUpdate : Tracks!Open(v)' /\ Tracks!Open(w)' => v = w
             /\ \A v \in TrackUpdate : v2'[v].phase = "dropped"
                  => {t.by : t \in v1'} \subseteq v2'[v].drop
  <2>1. \A v \in TrackUpdate \ {u} : ~Tracks!Open(v)
      BY <1>1, <1>5 DEF Tracks!IInv, Tracks!Open
  <2>2. {t.by : t \in v1} \subseteq v2[u].drop
      BY <1>1, <1>5 DEF Tracks!IInv
  <2>3. v1' = fresh
      BY <1>1, <2>2
  <2>4. \A v \in TrackUpdate : ~Tracks!Open(v)'
      BY <2>1, TracksOverStep DEF Tracks!Open
  <2> QED
      BY <1>3, <2>3, <2>4 DEF Tracks!Open
<1> QED
    BY <1>1, <1>4, <1>5 DEF Tracks!IInv

LEMMA TracksAbortStep ==
    ASSUME Tracks!IInv, NEW u \in TrackUpdate, Tracks!Abort(u)
    PROVE  Tracks!IInv'
<1>1. v1' = v1 /\ v3' = v3
    BY DEF Tracks!Abort
<1>2. Tracks!TypeOK'
    BY <1>1, TracksOverStep DEF Tracks!IInv, Tracks!TypeOK, TracksTxType
<1>3. ASSUME ~v3
      PROVE  /\ \A v, w \in TrackUpdate : Tracks!Open(v)' /\ Tracks!Open(w)' => v = w
             /\ \A v \in TrackUpdate : v2'[v].phase = "dropped"
                  => {t.by : t \in v1} \subseteq v2'[v].drop
    BY <1>3, TracksOverStep DEF Tracks!IInv, Tracks!Open
<1> QED
    BY <1>1, <1>2, <1>3 DEF Tracks!IInv

LEMMA TracksInductive ==
    ASSUME Tracks!Bounds
    PROVE  Tracks!IInv /\ [Tracks!Next]_(Tracks!vars) => Tracks!IInv'
<1> SUFFICES ASSUME Tracks!IInv, [Tracks!Next]_(Tracks!vars) PROVE Tracks!IInv'
    OBVIOUS
<1>1. CASE UNCHANGED Tracks!vars
    BY <1>1 DEF Tracks!vars, Tracks!IInv, Tracks!TypeOK, Tracks!Open
<1> QED
    BY <1>1, TracksBeginStep, TracksLookStep, TracksDropStep, TracksCommitStep,
       TracksAbortStep DEF Tracks!Next

LEMMA TracksProperties ==
    ASSUME Tracks!Bounds
    PROVE  Tracks!IInv => Tracks!TypeOK /\ Tracks!OneActiveTrack
    BY DEF Tracks!IInv, Tracks!OneActiveTrack

-----------------------------------------------------------------------------
(* Contacts and the submissions and users behind them.                     *)
(* v1 contact, v2 submission, v3 req, v4 lost, v5 raced, v6 requests.      *)

LinksSubType == [phase : Links!Phases, email : Email \cup {Links!None}, of : Contact \cup {Links!None}]
LinksReqType == [op : {"idle", "look", "write"}, of : Contact \cup {Links!None}, user : Links!User \cup {Links!None}]

LEMMA LinksInitially == ASSUME Links!Bounds PROVE Links!Init => Links!IInv
    BY DEF Links!Init, Links!IInv, Links!TypeOK, Links!Phases, Links!Idle, Links!NoContact,
       Links!Bounds

\* A contact stands in its record while it lives.
LEMMA LinksLiveIs == ASSUME Links!Bounds, Links!IInv, NEW c \in Contact
    PROVE  /\ c \in Links!Live <=> v1[c] \in Links!Record
           /\ c \notin Links!Live => v1[c].user = Links!None
           /\ Links!NoContact \notin Links!Record /\ Links!Gone \notin Links!Record
<1>1. Links!NoContact \notin Links!Record /\ Links!Gone \notin Links!Record
    BY DEF Links!NoContact, Links!Gone, Links!Record, Links!Bounds, Links!None
<1>2. Links!NoContact.user = Links!None /\ Links!Gone.user = Links!None
    BY DEF Links!NoContact, Links!Gone
<1>3. v1[c] \in Links!Record \/ v1[c] \in {Links!NoContact, Links!Gone}
    BY DEF Links!IInv
<1> QED
    BY <1>1, <1>2, <1>3 DEF Links!Live

\* Requests stand as the invariant wants them.
LinksReqInv ==
    /\ v3 \in [Request -> LinksReqType] /\ v5 \subseteq Contact
    /\ \A r \in Request : v3[r].op # "idle" => v3[r].of \in Contact
    /\ \A r \in Request :
          v3[r].op = "write" => /\ v3[r].user \in Links!User
                                /\ \/ v3[r].of \in v5
                                   \/ v1[v3[r].of].user \in {Links!None, v3[r].user}
LinksSubInv ==
    /\ v2 \in [Submission -> LinksSubType] /\ v4 \subseteq Submission
    /\ \A s \in Submission :
          v2[s].phase \in {"linked", "done"} /\ s \notin v4 => v2[s].of \in Links!Live
LinksContactInv ==
    /\ v1 \in [Contact -> [email : Email \cup {"absent", "gone", Links!None}, user : Links!User \cup {Links!None}]]
    /\ \A c \in Contact : v1[c] \in Links!Record \/ v1[c] \in {Links!NoContact, Links!Gone}

\* One contact is written; the submissions it has lose it when it goes.
LEMMA LinksContactStep ==
    ASSUME Links!Bounds, Links!IInv, NEW c \in Contact,
           NEW x, x \in Links!Record \/ x = Links!Gone, v1' = [v1 EXCEPT ![c] = x],
           v5' = v5,
           \A r \in Request : v3[r].op = "write" /\ v3[r].of = c
                => c \in v5 \/ x.user \in {Links!None, v3[r].user}
    PROVE  /\ LinksContactInv'
           /\ \A d \in Links!Live : d \in Links!Live' \/ d = c
           /\ \A r \in Request : v3[r].op = "write" =>
                /\ v3[r].user \in Links!User
                /\ \/ v3[r].of \in v5'
                   \/ v1'[v3[r].of].user \in {Links!None, v3[r].user}
<1>1. x \in [email : Email \cup {"absent", "gone", Links!None}, user : Links!User \cup {Links!None}]
    BY DEF Links!Record, Links!Gone
<1>2. /\ v1' \in [Contact -> [email : Email \cup {"absent", "gone", Links!None}, user : Links!User \cup {Links!None}]]
      /\ \A d \in Contact \ {c} : v1'[d] = v1[d]
    BY <1>1 DEF Links!IInv, Links!TypeOK
<1>3. \A d \in Contact : v1'[d] \in Links!Record \/ v1'[d] \in {Links!NoContact, Links!Gone}
    BY <1>2 DEF Links!IInv
<1>4. /\ Links!NoContact \notin Links!Record
      /\ Links!Gone \notin Links!Record
      /\ Links!NoContact # Links!Gone
    BY LinksLiveIs DEF Links!NoContact, Links!Gone
<1>6. \A d \in Links!Live : d \in Links!Live' \/ d = c
    BY <1>2 DEF Links!Live
<1>7. \A r \in Request : v3[r].op = "write" =>
                /\ v3[r].user \in Links!User
                /\ \/ v3[r].of \in v5'
                   \/ v1'[v3[r].of].user \in {Links!None, v3[r].user}
    BY <1>2 DEF Links!IInv
<1> QED
    BY <1>2, <1>3, <1>6, <1>7 DEF LinksContactInv

LEMMA LinksStaysLive ==
    ASSUME Links!Bounds, Links!IInv, NEW c \in Contact, v1'[c] \in Links!Record,
           \A d \in Links!Live : d \in Links!Live' \/ d = c
    PROVE  Links!Live \subseteq Links!Live'
    BY LinksLiveIs DEF Links!Live

LEMMA LinksParts == Links!IInv <=> LinksContactInv /\ LinksSubInv /\ LinksReqInv /\ v6 \in 0..MaxRequests
    BY DEF Links!IInv, Links!TypeOK, LinksContactInv, LinksSubInv, LinksReqInv,
       LinksSubType, LinksReqType

LEMMA LinksPartsNext == Links!IInv' <=> LinksContactInv' /\ LinksSubInv' /\ LinksReqInv' /\ v6' \in 0..MaxRequests
    BY DEF Links!IInv, Links!TypeOK, LinksContactInv, LinksSubInv, LinksReqInv,
       LinksSubType, LinksReqType

LEMMA LinksAskedIs ==
    ASSUME Links!Bounds, Links!IInv, Links!Asked
    PROVE  v6' \in 0..MaxRequests
    BY LinksParts DEF Links!Asked, Links!Bounds

\* Nothing about the contacts changes for the requests or the submissions.
LEMMA LinksSame == ASSUME Links!IInv
    PROVE  /\ UNCHANGED v1 => LinksContactInv'
           /\ UNCHANGED <<v1, v2, v4>> => LinksSubInv'
           /\ UNCHANGED <<v1, v3, v5>> => LinksReqInv'
           /\ UNCHANGED v6 => v6' \in 0..MaxRequests
    BY LinksParts DEF LinksContactInv, LinksSubInv, LinksReqInv, Links!Live

\* One request is put or done.
LEMMA LinksReqStep ==
    ASSUME Links!IInv, NEW r \in Request, NEW q \in LinksReqType,
           v3' = [v3 EXCEPT ![r] = q],
           q.op # "idle" => q.of \in Contact,
           q.op = "write" => q.user \in Links!User /\ v1[q.of].user \in {Links!None, q.user},
           UNCHANGED <<v1, v5>>
    PROVE  LinksReqInv'
<1>1. v3' \in [Request -> LinksReqType] /\ v3'[r] = q /\ \A p \in Request \ {r} : v3'[p] = v3[p]
    BY LinksParts DEF LinksReqInv
<1> QED
    BY <1>1, LinksParts DEF LinksReqInv

LEMMA LinksIdleIs == Links!Idle \in LinksReqType /\ Links!Idle.op = "idle"
    BY DEF Links!Idle, LinksReqType

\* Submissions keep their contacts where these live on.
LEMMA LinksSubSame ==
    ASSUME Links!IInv, UNCHANGED <<v2, v4>>, Links!Live \subseteq Links!Live'
    PROVE  LinksSubInv'
    BY LinksParts DEF LinksSubInv

LEMMA LinksCreateStep ==
    ASSUME Links!Bounds, Links!IInv, NEW c \in Contact, NEW e \in Email \cup {Links!None},
           NEW r \in Request,
           Links!CreateContact(c, e, r)
    PROVE  Links!IInv'
<1> DEFINE x == [email |-> e, user |-> Links!None]
           q == IF e = Links!None THEN Links!Idle ELSE [op |-> "look", of |-> c, user |-> Links!None]
<1>1. /\ v1' = [v1 EXCEPT ![c] = x] /\ v3' = [v3 EXCEPT ![r] = q]
      /\ UNCHANGED <<v2, v4, v5>> /\ v1[c] = Links!NoContact
    BY DEF Links!CreateContact
<1>2. x \in Links!Record /\ x.user = Links!None
    BY DEF Links!Record
<1>3. q \in LinksReqType /\ q.op # "write" /\ (q.op # "idle" => q.of \in Contact)
    BY LinksIdleIs DEF LinksReqType
<1> HIDE DEF x, q
<1>4. \A r0 \in Request : v3[r0].op = "write" /\ v3[r0].of = c
                => c \in v5 \/ x.user \in {Links!None, v3[r0].user}
    BY <1>2, LinksLiveIs
<1>10. (x \in Links!Record \/ x = Links!Gone) /\ v1' = [v1 EXCEPT ![c] = x] /\ v5' = v5
    BY <1>1, <1>2
<1>11. LinksContactInv' /\ \A d \in Links!Live : d \in Links!Live' \/ d = c
    BY <1>4, <1>10, LinksContactStep, Zenon
<1>12. v1'[c] = x
    BY <1>1, LinksParts DEF LinksContactInv
<1>5. LinksContactInv' /\ Links!Live \subseteq Links!Live'
    BY <1>2, <1>11, <1>12, LinksStaysLive
<1>6. LinksSubInv'
    BY <1>1, <1>5, LinksSubSame
<1>7. v3' \in [Request -> LinksReqType] /\ v3'[r] = q /\ \A p \in Request \ {r} : v3'[p] = v3[p]
    BY <1>1, <1>3, LinksParts DEF LinksReqInv
<1>8. \A p \in Request : v3[p].op = "write" =>
                /\ v3[p].user \in Links!User
                /\ \/ v3[p].of \in v5'
                   \/ v1'[v3[p].of].user \in {Links!None, v3[p].user}
    BY <1>4, <1>10, LinksContactStep, Zenon
<1>9. LinksReqInv'
    BY <1>1, <1>3, <1>7, <1>8, LinksParts DEF LinksReqInv
<1> QED
    BY <1>5, <1>6, <1>9, LinksAskedIs, LinksPartsNext DEF Links!CreateContact

\* An agent's change of a contact that lives on.
LEMMA LinksKeepStep ==
    ASSUME Links!Bounds, Links!IInv, NEW c \in Contact, c \in Links!Live, NEW x,
           x \in Links!Record,
           v1' = [v1 EXCEPT ![c] = x], x.user \in {Links!None, v1[c].user}, Links!Asked, UNCHANGED <<v2, v3, v4, v5>>
    PROVE  Links!IInv'
<1>1. v5' = v5 /\ (x \in Links!Record \/ x = Links!Gone)
    OBVIOUS
<1>2. \A r \in Request : v3[r].op = "write" /\ v3[r].of = c
                => c \in v5 \/ x.user \in {Links!None, v3[r].user}
    BY LinksParts DEF LinksReqInv
<1>7. LinksContactInv' /\ \A d \in Links!Live : d \in Links!Live' \/ d = c
    BY <1>1, <1>2, LinksContactStep, Zenon
<1>3. \A r \in Request : v3[r].op = "write" =>
                /\ v3[r].user \in Links!User
                /\ \/ v3[r].of \in v5'
                   \/ v1'[v3[r].of].user \in {Links!None, v3[r].user}
    BY <1>1, <1>2, LinksContactStep, Zenon
<1>4. LinksReqInv'
    BY <1>3, LinksParts DEF LinksReqInv
<1>6. v1'[c] = x
    BY LinksParts DEF LinksContactInv
<1>5. Links!Live \subseteq Links!Live'
    BY <1>1, <1>6, <1>7, LinksStaysLive
<1> QED
    BY <1>4, <1>5, <1>7, LinksSubSame, LinksAskedIs, LinksPartsNext

\* The agent's update may give the contact a user while a link of it is on its way,
\* and counts it among the raced ones then.
LEMMA LinksUpdateStep ==
    ASSUME Links!Bounds, Links!IInv, NEW c \in Contact, NEW e \in Email \cup {Links!None},
           NEW u \in Links!User \cup {Links!None},
           Links!UpdateContact(c, e, u)
    PROVE  Links!IInv'
<1> DEFINE x == [email |-> e, user |-> u]
<1>1. x \in Links!Record /\ x.user = u
    BY DEF Links!Record
<1>2. v1' = [v1 EXCEPT ![c] = x] /\ UNCHANGED <<v2, v3, v4>> /\ Links!Asked
    BY DEF Links!UpdateContact
<1>3. /\ v5' = v5 \/ v5' = v5 \cup {c}
      /\ \A r \in Request : v3[r].op = "write" /\ v3[r].of = c => u = v1[c].user \/ c \in v5'
    BY DEF Links!UpdateContact
<1>4. x \in [email : Email \cup {"absent", "gone", Links!None}, user : Links!User \cup {Links!None}]
    BY DEF x
<1> HIDE DEF x
<1>5. v1'[c] = x /\ \A d \in Contact \ {c} : v1'[d] = v1[d]
    BY <1>2, LinksParts DEF LinksContactInv
<1>6. LinksContactInv'
  <2>1. v1' \in [Contact -> [email : Email \cup {"absent", "gone", Links!None}, user : Links!User \cup {Links!None}]]
      BY <1>2, <1>4, LinksParts DEF LinksContactInv
  <2>2. \A d \in Contact : v1'[d] \in Links!Record \/ v1'[d] \in {Links!NoContact, Links!Gone}
      BY <1>1, <1>5, LinksParts DEF LinksContactInv
  <2> QED
      BY <2>1, <2>2 DEF LinksContactInv
<1>7. Links!Live \subseteq Links!Live'
  <2>1. \A d \in Links!Live : d \in Links!Live' \/ d = c
      BY <1>5 DEF Links!Live
  <2>2. v1'[c] \in Links!Record
      BY <1>1, <1>5
  <2> QED
      BY <2>1, <2>2, LinksStaysLive
<1>8. LinksReqInv'
  <2>1. v5 \subseteq v5' /\ v5' \subseteq Contact /\ v3' \in [Request -> LinksReqType] /\ v3' = v3
      BY <1>2, <1>3, LinksParts DEF LinksReqInv
  <2>2. ASSUME NEW r \in Request, v3[r].op = "write"
        PROVE  v3[r].user \in Links!User
               /\ (v3[r].of \in v5' \/ v1'[v3[r].of].user \in {Links!None, v3[r].user})
    <3>1. /\ v3[r].of \in Contact /\ v3[r].user \in Links!User
          /\ v3[r].of \in v5 \/ v1[v3[r].of].user \in {Links!None, v3[r].user}
        BY <2>2, LinksParts DEF LinksReqInv
    <3>2. CASE v3[r].of = c
        BY <1>1, <1>3, <1>5, <2>1, <2>2, <3>1, <3>2
    <3>3. CASE v3[r].of # c
        BY <1>5, <2>1, <3>1, <3>3
    <3> QED
        BY <3>1, <3>2, <3>3
  <2> QED
      BY <2>1, <2>2, LinksParts DEF LinksReqInv
<1> QED
    BY <1>2, <1>6, <1>7, <1>8, LinksSubSame, LinksAskedIs, LinksPartsNext

LEMMA LinksUnlinkStep ==
    ASSUME Links!Bounds, Links!IInv, NEW c \in Contact, Links!Unlink(c)
    PROVE  Links!IInv'
<1> DEFINE x == [v1[c] EXCEPT !.user = Links!None]
<1>1. x \in Links!Record /\ x.user = Links!None
    BY LinksLiveIs DEF Links!Unlink, Links!Record
<1>2. v1' = [v1 EXCEPT ![c] = x]
    BY DEF Links!Unlink
<1> HIDE DEF x
<1> QED
    BY <1>1, <1>2, LinksKeepStep DEF Links!Unlink

LEMMA LinksDeleteStep ==
    ASSUME Links!Bounds, Links!IInv, NEW c \in Contact, Links!DeleteContact(c)
    PROVE  Links!IInv'
<1>1. v1' = [v1 EXCEPT ![c] = Links!Gone] /\ UNCHANGED <<v3, v5>> /\ Links!Asked
    BY DEF Links!DeleteContact
<1>2. v5' = v5 /\ (Links!Gone \in Links!Record \/ Links!Gone = Links!Gone) /\ \A r0 \in Request : v3[r0].op = "write" /\ v3[r0].of = c
                => c \in v5 \/ Links!Gone.user \in {Links!None, v3[r0].user}
    BY <1>1 DEF Links!Gone
<1>3. /\ LinksContactInv' /\ \A d \in Links!Live : d \in Links!Live' \/ d = c
      /\ \A r \in Request : v3[r].op = "write" =>
                /\ v3[r].user \in Links!User
                /\ \/ v3[r].of \in v5'
                   \/ v1'[v3[r].of].user \in {Links!None, v3[r].user}
    BY <1>1, <1>2, LinksContactStep, Zenon
<1>4. LinksReqInv'
    BY <1>1, <1>3, LinksParts DEF LinksReqInv
<1> DEFINE attached == {s \in Submission : v2[s].of = c /\ v2[s].phase \in {"linked", "done"}}
<1>5. /\ v4' = v4 \cup attached
      /\ v2' = [s \in Submission |->
                IF s \in attached THEN [v2[s] EXCEPT !.of = Links!None] ELSE v2[s]]
    BY DEF Links!DeleteContact
<1>6. v2 \in [Submission -> LinksSubType] /\ v4 \subseteq Submission
    BY LinksParts DEF LinksSubInv
<1>7. v2' \in [Submission -> LinksSubType] /\ v4' \subseteq Submission
  <2>1. \A s \in Submission : [v2[s] EXCEPT !.of = Links!None] \in LinksSubType
      BY <1>6 DEF LinksSubType
  <2> QED
      BY <1>5, <1>6, <2>1
<1>8. ASSUME NEW s \in Submission, v2'[s].phase \in {"linked", "done"}, s \notin v4'
      PROVE  v2'[s].of \in Links!Live'
  <2>1. s \notin attached /\ v2'[s] = v2[s] /\ s \notin v4
      BY <1>5, <1>8
  <2>2. v2[s].of \in Links!Live /\ v2[s].of # c
      BY <1>8, <2>1, LinksParts DEF LinksSubInv
  <2> QED
      BY <1>3, <2>1, <2>2
<1> QED
    BY <1>1, <1>3, <1>4, <1>7, <1>8, LinksAskedIs, LinksPartsNext DEF LinksSubInv

LEMMA LinksLookStep ==
    ASSUME Links!Bounds, Links!IInv, NEW c \in Contact, NEW u \in Links!User,
           NEW r \in Request, Links!LinkLook(c, u, r)
    PROVE  Links!IInv'
<1> DEFINE q == [op |-> "write", of |-> c, user |-> u]
<1>1. q \in LinksReqType /\ q.of = c /\ q.user = u
    BY DEF LinksReqType
<1>2. v3' = [v3 EXCEPT ![r] = q] /\ v1[c].user \in {Links!None, u} /\ Links!Asked
      /\ UNCHANGED <<v1, v2, v4, v5>>
    BY DEF Links!LinkLook, Links!MayLink
<1> HIDE DEF q
<1> QED
    BY <1>1, <1>2, LinksReqStep, LinksSame, LinksAskedIs, LinksPartsNext

LEMMA LinksAutoStep ==
    ASSUME Links!Bounds, Links!IInv, NEW r \in Request, Links!AutoLook(r)
    PROVE  Links!IInv'
<1>1. UNCHANGED <<v1, v2, v4, v5, v6>>
    BY DEF Links!AutoLook
<1>2. LinksReqInv'
  <2>1. CASE v3' = [v3 EXCEPT ![r] = Links!Idle]
      BY <1>1, <2>1, LinksIdleIs, LinksReqStep
  <2>2. CASE /\ v3[r].of \in Links!Live /\ v1[v3[r].of].user = Links!None
             /\ \E u \in Links!User : v3' = [v3 EXCEPT ![r] = [op |-> "write", of |-> v3[r].of, user |-> u]]
    <3>1. PICK u \in Links!User :
               v3' = [v3 EXCEPT ![r] = [op |-> "write", of |-> v3[r].of, user |-> u]]
        BY <2>2
    <3> DEFINE q == [op |-> "write", of |-> v3[r].of, user |-> u]
    <3>2. q \in LinksReqType /\ q.of = v3[r].of /\ q.user = u /\ q.of \in Contact
        BY <2>2 DEF LinksReqType, Links!Live
    <3>3. v3' = [v3 EXCEPT ![r] = q]
        BY <3>1
    <3> HIDE DEF q
    <3> QED
        BY <1>1, <2>2, <3>2, <3>3, LinksReqStep
  <2> QED
      BY <2>1, <2>2 DEF Links!AutoLook
<1> QED
    BY <1>1, <1>2, LinksSame, LinksPartsNext

LEMMA LinksWriteStep ==
    ASSUME Links!Bounds, Links!IInv, NEW r \in Request, Links!LinkWrite(r)
    PROVE  Links!IInv'
<1> DEFINE c == v3[r].of
           u == v3[r].user
           x == [v1[c] EXCEPT !.user = u]
<1>1. /\ c \in Contact /\ u \in Links!User /\ v3[r].op = "write"
      /\ c \in v5 \/ v1[c].user \in {Links!None, u}
    BY LinksParts DEF Links!LinkWrite, LinksReqInv
<1>2. /\ v1' = IF c \in Links!Live /\ Links!UserFree(c, u) THEN [v1 EXCEPT ![c] = x] ELSE v1
      /\ v5' = IF \E q \in Request \ {r} : v3[q].op = "write" /\ v3[q].of = c
                  THEN v5 \cup {c} ELSE v5
      /\ v3' = [v3 EXCEPT ![r] = Links!Idle]
      /\ UNCHANGED <<v2, v4, v6>>
    BY DEF Links!LinkWrite
<1>3. c \in Links!Live => x \in Links!Record
    BY <1>1, LinksLiveIs DEF Links!Record
<1> HIDE DEF c, u, x
<1>4. v5' \subseteq Contact /\ v5 \subseteq v5'
    BY <1>1, <1>2, LinksParts DEF LinksReqInv
<1>5. /\ v3' \in [Request -> LinksReqType] /\ v3'[r].op = "idle"
      /\ \A p \in Request \ {r} : v3'[p] = v3[p]
    BY <1>2, LinksIdleIs, LinksParts DEF LinksReqInv
<1>6. \A p \in Request \ {r} : v3[p].op = "write" /\ v3[p].of = c => c \in v5'
    BY <1>2
<1>7. \A d \in Contact \ {c} : v1'[d] = v1[d]
    BY <1>2, LinksParts DEF LinksContactInv
<1>8. LinksReqInv'
  <2>1. ASSUME NEW p \in Request, v3'[p].op = "write"
        PROVE  /\ v3'[p].user \in Links!User
               /\ v3'[p].of \in v5' \/ v1'[v3'[p].of].user \in {Links!None, v3'[p].user}
    <3>1. /\ p # r /\ v3'[p] = v3[p] /\ v3[p].op = "write" /\ v3[p].user \in Links!User
          /\ v3[p].of \in Contact
          /\ v3[p].of \in v5 \/ v1[v3[p].of].user \in {Links!None, v3[p].user}
        BY <1>5, <2>1, LinksParts DEF LinksReqInv
    <3> QED
        BY <1>4, <1>6, <1>7, <3>1
  <2>2. \A p \in Request : v3'[p].op # "idle" => v3'[p].of \in Contact
      BY <1>5, LinksParts DEF LinksReqInv
  <2> QED
      BY <1>4, <1>5, <2>1, <2>2 DEF LinksReqInv
<1>9. LinksContactInv' /\ Links!Live \subseteq Links!Live'
  <2>1. CASE v1' = v1
      BY <2>1, LinksParts DEF LinksContactInv, Links!Live
  <2>2. CASE c \in Links!Live /\ v1' = [v1 EXCEPT ![c] = x]
    <3>1. x \notin {Links!NoContact, Links!Gone}
        BY <1>1, <1>3, <2>2, LinksLiveIs
    <3>2. x \in [email : Email \cup {"absent", "gone", Links!None}, user : Links!User \cup {Links!None}]
        BY <1>3, <2>2 DEF Links!Record
    <3>3. /\ v1'[c] = x
          /\ v1' \in [Contact -> [email : Email \cup {"absent", "gone", Links!None}, user : Links!User \cup {Links!None}]]
        BY <1>1, <2>2, <3>2, LinksParts DEF LinksContactInv
    <3> QED
        BY <1>3, <1>7, <2>2, <3>1, <3>3, LinksParts DEF LinksContactInv, Links!Live
  <2> QED
      BY <1>2, <2>1, <2>2
<1>10. v6' \in 0..MaxRequests
    BY <1>2, LinksParts
<1> QED
    BY <1>2, <1>8, <1>9, <1>10, LinksSubSame, LinksPartsNext

\* One submission moves on.
LEMMA LinksSubStep ==
    ASSUME Links!IInv, NEW s \in Submission, NEW q \in LinksSubType,
           v2' = [v2 EXCEPT ![s] = q],
           v4' \subseteq Submission, v4 \subseteq v4', Links!Live \subseteq Links!Live',
           q.phase \in {"linked", "done"} /\ s \notin v4' => q.of \in Links!Live'
    PROVE  LinksSubInv'
<1>1. v2' \in [Submission -> LinksSubType] /\ v2'[s] = q /\ \A t \in Submission \ {s} : v2'[t] = v2[t]
    BY LinksParts DEF LinksSubInv
<1> QED
    BY <1>1, LinksParts DEF LinksSubInv

LEMMA LinksSubIs ==
    ASSUME Links!IInv, NEW s \in Submission
    PROVE  v2[s] \in LinksSubType /\ v4 \subseteq Submission
    BY LinksParts DEF LinksSubInv

LEMMA LinksSubmitStep ==
    ASSUME Links!Bounds, Links!IInv, NEW s \in Submission, NEW e \in Email,
           Links!Submit(s, e)
    PROVE  Links!IInv'
<1> DEFINE q == [phase |-> "sent", email |-> e, of |-> Links!None]
<1>1. q \in LinksSubType /\ q.phase = "sent"
    BY DEF LinksSubType, Links!Phases
<1>2. /\ v2' = [v2 EXCEPT ![s] = q]
      /\ UNCHANGED <<v1, v3, v4, v5, v6>>
    BY DEF Links!Submit
<1> HIDE DEF q
<1>3. Links!Live' = Links!Live
    BY <1>2 DEF Links!Live
<1> QED
    BY <1>1, <1>2, <1>3, LinksSubStep, LinksSubIs, LinksSame, LinksPartsNext

LEMMA LinksFindStep ==
    ASSUME Links!Bounds, Links!IInv, NEW s \in Submission, Links!Find(s)
    PROVE  Links!IInv'
<1>1. UNCHANGED <<v1, v3, v4, v5, v6>>
    BY DEF Links!Find
<1>2. Links!Live' = Links!Live /\ Links!Live \subseteq Contact
    BY <1>1 DEF Links!Live
<1>3. PICK p \in {"found", "make"}, c \in Contact \cup {Links!None} :
          v2' = [v2 EXCEPT ![s] = [[v2[s] EXCEPT !.phase = p] EXCEPT !.of = c]]
  <2>1. CASE \E c \in Links!Live : v2' = [v2 EXCEPT ![s].phase = "found", ![s].of = c]
    <3>1. PICK c \in Links!Live : v2' = [v2 EXCEPT ![s].phase = "found", ![s].of = c]
        BY <2>1
    <3>2. v2' = [v2 EXCEPT ![s] = [[v2[s] EXCEPT !.phase = "found"] EXCEPT !.of = c]]
        BY <3>1, LinksSubIs, LinksParts DEF LinksSubInv, LinksSubType
    <3> QED
        BY <1>2, <3>2
  <2>2. CASE v2' = [v2 EXCEPT ![s].phase = "make"]
    <3> DEFINE q == [v2[s] EXCEPT !.phase = "make"]
    <3>1. q \in LinksSubType
        BY LinksSubIs DEF LinksSubType, Links!Phases
    <3>2. [q EXCEPT !.of = q.of] = q
        BY <3>1 DEF LinksSubType
    <3>3. v2' = [v2 EXCEPT ![s] = q]
        BY <2>2
    <3>4. v2' = [v2 EXCEPT ![s] = [q EXCEPT !.of = q.of]]
        BY <3>2, <3>3
    <3> QED
        BY <3>1, <3>4 DEF LinksSubType
  <2> QED
      BY <2>1, <2>2 DEF Links!Find
<1> DEFINE q1 == [v2[s] EXCEPT !.phase = p]
           q == [q1 EXCEPT !.of = c]
<1>4. q1 \in LinksSubType /\ q1.phase = p
    BY LinksSubIs DEF LinksSubType, Links!Phases
<1> HIDE DEF q1
<1>5. q \in LinksSubType /\ q.phase = p
    BY <1>4 DEF LinksSubType
<1>6. v2' = [v2 EXCEPT ![s] = q]
    BY <1>3 DEF q1
<1> HIDE DEF q
<1> QED
    BY <1>1, <1>2, <1>5, <1>6, LinksSubStep, LinksSubIs, LinksSame, LinksPartsNext

\* The two fields a step of a submission writes.
LEMMA LinksMoved == ASSUME Links!IInv, NEW s \in Submission, NEW p \in Links!Phases, NEW c \in Contact \cup {Links!None},
        v2' = [v2 EXCEPT ![s].phase = p, ![s].of = c]
    PROVE  \E q \in LinksSubType : q.phase = p /\ q.of = c /\ v2' = [v2 EXCEPT ![s] = q]
<1> DEFINE q1 == [v2[s] EXCEPT !.phase = p]
           q == [q1 EXCEPT !.of = c]
<1>1. q1 \in LinksSubType /\ q1.phase = p
    BY LinksSubIs DEF LinksSubType
<1>2. q \in LinksSubType /\ q.phase = p /\ q.of = c
    BY <1>1 DEF LinksSubType
<1>3. v2' = [v2 EXCEPT ![s] = q]
    BY LinksSubIs, LinksParts DEF LinksSubInv, LinksSubType
<1> QED
    BY <1>2, <1>3

LEMMA LinksMovedOn == ASSUME Links!IInv, NEW s \in Submission, NEW p \in Links!Phases,
        v2' = [v2 EXCEPT ![s].phase = p]
    PROVE  \E q \in LinksSubType : q.phase = p /\ q.of = v2[s].of /\ v2' = [v2 EXCEPT ![s] = q]
<1> DEFINE q == [v2[s] EXCEPT !.phase = p]
<1>1. q \in LinksSubType /\ q.phase = p /\ q.of = v2[s].of
    BY LinksSubIs DEF LinksSubType
<1>2. v2' = [v2 EXCEPT ![s] = q]
    OBVIOUS
<1> QED
    BY <1>1, <1>2

LEMMA LinksMakeStep ==
    ASSUME Links!Bounds, Links!IInv, NEW s \in Submission, NEW c \in Contact,
           Links!Make(s, c)
    PROVE  Links!IInv'
<1>1. UNCHANGED <<v3, v5, v6>> /\ v1[c] = Links!NoContact /\ v2[s].phase = "make"
    BY DEF Links!Make
<1>2. CASE Links!EmailFree(c, v2[s].email)
  <2> DEFINE x == [email |-> v2[s].email, user |-> Links!None]
  <2>1. /\ v1' = [v1 EXCEPT ![c] = x] /\ v4' = v4
        /\ v2' = [v2 EXCEPT ![s].phase = "found", ![s].of = c]
      BY <1>2 DEF Links!Make
  <2>2. x \in Links!Record /\ x.user = Links!None
      BY LinksSubIs DEF Links!Record, LinksSubType
  <2> HIDE DEF x
  <2>3. v5' = v5 /\ (x \in Links!Record \/ x = Links!Gone) /\ \A r0 \in Request : v3[r0].op = "write" /\ v3[r0].of = c
                => c \in v5 \/ x.user \in {Links!None, v3[r0].user}
      BY <1>1, <2>2, LinksLiveIs
  <2>4. /\ LinksContactInv' /\ \A d \in Links!Live : d \in Links!Live' \/ d = c
        /\ \A r \in Request : v3[r].op = "write" =>
                /\ v3[r].user \in Links!User
                /\ \/ v3[r].of \in v5'
                   \/ v1'[v3[r].of].user \in {Links!None, v3[r].user}
      BY <2>1, <2>3, LinksContactStep, Zenon
  <2>5. LinksReqInv'
      BY <1>1, <2>4, LinksParts DEF LinksReqInv
  <2>11. v1'[c] = x
      BY <2>1, LinksParts DEF LinksContactInv
  <2>10. Links!Live \subseteq Links!Live'
      BY <2>2, <2>4, <2>11, LinksStaysLive
  <2>6. "found" \in Links!Phases
      BY DEF Links!Phases
  <2>7. PICK q \in LinksSubType : q.phase = "found" /\ v2' = [v2 EXCEPT ![s] = q]
      BY <2>1, <2>6, LinksMoved
  <2>8. LinksSubInv'
      BY <2>1, <2>7, <2>10, LinksSubStep, LinksSubIs
  <2>9. v6' \in 0..MaxRequests
      BY <1>1, LinksParts
  <2> QED
      BY <2>4, <2>5, <2>8, <2>9, LinksPartsNext
<1>3. CASE ~Links!EmailFree(c, v2[s].email)
  <2>1. /\ v1' = v1 /\ v4' = v4 \cup {s}
        /\ v2' = [v2 EXCEPT ![s].phase = "done"]
      BY <1>3 DEF Links!Make
  <2>2. Links!Live' = Links!Live
      BY <2>1 DEF Links!Live
  <2>6. "done" \in Links!Phases
      BY DEF Links!Phases
  <2>3. PICK q \in LinksSubType : v2' = [v2 EXCEPT ![s] = q]
      BY <2>1, <2>6, LinksMovedOn
  <2>4. LinksSubInv'
      BY <2>1, <2>2, <2>3, LinksSubStep, LinksSubIs
  <2> QED
      BY <1>1, <2>1, <2>4, LinksSame, LinksPartsNext
<1> QED
    BY <1>2, <1>3

LEMMA LinksAttachStep ==
    ASSUME Links!Bounds, Links!IInv, NEW s \in Submission, Links!Attach(s)
    PROVE  Links!IInv'
<1>1. UNCHANGED <<v1, v3, v5, v6>>
    BY DEF Links!Attach
<1>2. Links!Live' = Links!Live
    BY <1>1 DEF Links!Live
<1>3. "linked" \in Links!Phases /\ "done" \in Links!Phases
    BY DEF Links!Phases
<1>4. LinksSubInv'
  <2>1. CASE v2[s].of \in Links!Live
    <3>1. v2' = [v2 EXCEPT ![s].phase = "linked"] /\ v4' = v4
        BY <2>1 DEF Links!Attach
    <3>2. PICK q \in LinksSubType : q.of = v2[s].of /\ v2' = [v2 EXCEPT ![s] = q]
        BY <1>3, <3>1, LinksMovedOn
    <3> QED
        BY <1>2, <2>1, <3>1, <3>2, LinksSubStep, LinksSubIs
  <2>2. CASE v2[s].of \notin Links!Live
    <3>1. v2' = [v2 EXCEPT ![s].phase = "done", ![s].of = Links!None] /\ v4' = v4 \cup {s}
        BY <2>2 DEF Links!Attach
    <3>2. PICK q \in LinksSubType : v2' = [v2 EXCEPT ![s] = q]
        BY <1>3, <3>1, LinksMoved
    <3> QED
        BY <1>2, <3>1, <3>2, LinksSubStep, LinksSubIs
  <2> QED
      BY <2>1, <2>2
<1> QED
    BY <1>1, <1>4, LinksSame, LinksPartsNext

LEMMA LinksFinishStep ==
    ASSUME Links!Bounds, Links!IInv, NEW s \in Submission, NEW r \in Request,
           Links!Finish(s, r)
    PROVE  Links!IInv'
<1> DEFINE q == IF v2[s].of = Links!None \/ v1[v2[s].of].user # Links!None
                THEN Links!Idle ELSE [op |-> "look", of |-> v2[s].of, user |-> Links!None]
<1>1. /\ v2[s].phase = "linked" /\ v2' = [v2 EXCEPT ![s].phase = "done"]
      /\ v3' = [v3 EXCEPT ![r] = q] /\ UNCHANGED <<v1, v4, v5, v6>>
    BY DEF Links!Finish
<1>2. q \in LinksReqType /\ q.op # "write" /\ (q.op # "idle" => q.of \in Contact)
    BY LinksIdleIs, LinksSubIs DEF LinksReqType, LinksSubType
<1> HIDE DEF q
<1>3. LinksReqInv'
    BY <1>1, <1>2, LinksReqStep
<1>4. Links!Live' = Links!Live
    BY <1>1 DEF Links!Live
<1>5. "done" \in Links!Phases
    BY DEF Links!Phases
<1>6. PICK p \in LinksSubType : p.of = v2[s].of /\ v2' = [v2 EXCEPT ![s] = p]
    BY <1>1, <1>5, LinksMovedOn
<1>7. s \notin v4 => v2[s].of \in Links!Live
    BY <1>1, LinksParts DEF LinksSubInv
<1>8. LinksSubInv'
    BY <1>1, <1>4, <1>6, <1>7, LinksSubStep, LinksSubIs
<1> QED
    BY <1>1, <1>3, <1>8, LinksSame, LinksPartsNext

LEMMA LinksGiveUpStep ==
    ASSUME Links!Bounds, Links!IInv, NEW s \in Submission, Links!GiveUp(s)
    PROVE  Links!IInv'
<1>1. /\ v2' = [v2 EXCEPT ![s].phase = "done", ![s].of = Links!None]
      /\ v4' = v4 \cup {s} /\ UNCHANGED <<v1, v3, v5, v6>>
    BY DEF Links!GiveUp
<1>2. Links!Live' = Links!Live
    BY <1>1 DEF Links!Live
<1>3. "done" \in Links!Phases
    BY DEF Links!Phases
<1>4. PICK q \in LinksSubType : v2' = [v2 EXCEPT ![s] = q]
    BY <1>1, <1>3, LinksMoved
<1>5. LinksSubInv'
    BY <1>1, <1>2, <1>4, LinksSubStep, LinksSubIs
<1> QED
    BY <1>1, <1>5, LinksSame, LinksPartsNext

LEMMA LinksInductive ==
    ASSUME Links!Bounds
    PROVE  Links!IInv /\ [Links!Next]_(Links!vars) => Links!IInv'
<1> SUFFICES ASSUME Links!IInv, [Links!Next]_(Links!vars) PROVE Links!IInv'
    OBVIOUS
<1>1. CASE UNCHANGED Links!vars
    BY <1>1, LinksSame, LinksPartsNext DEF Links!vars
<1>2. ASSUME NEW c \in Contact,
             \/ \E e \in Email \cup {Links!None}, u \in Links!User \cup {Links!None} :
                   Links!UpdateContact(c, e, u)
             \/ \E e \in Email \cup {Links!None}, r \in Request : Links!CreateContact(c, e, r)
             \/ \E u \in Links!User, r \in Request : Links!LinkLook(c, u, r)
             \/ Links!DeleteContact(c) \/ Links!Unlink(c)
             \/ \E s \in Submission : Links!Make(s, c)
      PROVE  Links!IInv'
    BY <1>2, LinksUpdateStep, LinksCreateStep, LinksLookStep, LinksDeleteStep,
       LinksUnlinkStep, LinksMakeStep
<1>3. ASSUME NEW s \in Submission,
             \/ \E e \in Email : Links!Submit(s, e)
             \/ Links!Find(s) \/ Links!Attach(s) \/ Links!GiveUp(s)
             \/ \E r \in Request : Links!Finish(s, r)
      PROVE  Links!IInv'
    BY <1>3, LinksSubmitStep, LinksFindStep, LinksAttachStep, LinksGiveUpStep,
       LinksFinishStep
<1> QED
    BY <1>1, <1>2, <1>3, LinksAutoStep, LinksWriteStep DEF Links!Next

LEMMA LinksProperties ==
    ASSUME Links!Bounds
    PROVE  Links!IInv => Links!TypeOK /\ Links!SubmissionsLand
    BY DEF Links!IInv, Links!SubmissionsLand

\* Only the agent's update and the write of a link give a contact another user.
LEMMA LinksKept ==
    ASSUME Links!Bounds
    PROVE  Links!IInv /\ [Links!Next]_(Links!vars) => Links!LinkKept
<1> SUFFICES ASSUME Links!IInv, [Links!Next]_(Links!vars), NEW c \in Contact, v1[c].user # Links!None,
                    v1'[c].user \notin {Links!None, v1[c].user}
             PROVE  \/ c \in v5'
                    \/ \E e \in Email \cup {Links!None} : Links!UpdateContact(c, e, v1'[c].user)
    BY DEF Links!LinkKept
<1>1. v1[c].user # Links!None => v1[c] # Links!NoContact
    BY DEF Links!NoContact
<1>2. v1 \in [Contact -> [email : Email \cup {"absent", "gone", Links!None}, user : Links!User \cup {Links!None}]]
    BY LinksParts DEF LinksContactInv
<1>3. ASSUME NEW r \in Request, Links!LinkWrite(r) PROVE c \in v5'
  <2>1. v3[r].of = c /\ v1'[c].user = v3[r].user
      BY <1>2, <1>3 DEF Links!LinkWrite
  <2>2. v3[r].op = "write"
      BY <1>3 DEF Links!LinkWrite
  <2>3. c \in v5
      BY <2>1, <2>2, LinksParts DEF LinksReqInv
  <2> QED
      BY <1>3, <2>3 DEF Links!LinkWrite
<1>4. ASSUME NEW d \in Contact,
             \/ \E e \in Email \cup {Links!None}, r \in Request : Links!CreateContact(d, e, r)
             \/ Links!DeleteContact(d) \/ Links!Unlink(d)
             \/ \E s \in Submission : Links!Make(s, d)
      PROVE  v1'[c].user \in {Links!None, v1[c].user}
  <2>2. CASE \E e \in Email \cup {Links!None}, r \in Request : Links!CreateContact(d, e, r)
      BY <1>1, <1>2, <2>2 DEF Links!CreateContact
  <2>3. CASE Links!DeleteContact(d)
      BY <1>2, <2>3 DEF Links!DeleteContact, Links!Gone
  <2>4. CASE Links!Unlink(d)
      BY <1>2, <2>4 DEF Links!Unlink
  <2>5. CASE \E s \in Submission : Links!Make(s, d)
      BY <1>1, <1>2, <2>5 DEF Links!Make
  <2> QED
      BY <1>4, <2>2, <2>3, <2>4, <2>5
<1>9. ASSUME NEW d \in Contact, NEW e \in Email \cup {Links!None},
             NEW u \in Links!User \cup {Links!None}, Links!UpdateContact(d, e, u)
      PROVE  Links!UpdateContact(c, e, v1'[c].user)
  <2>1. v1' = [v1 EXCEPT ![d] = [email |-> e, user |-> u]]
      BY <1>9 DEF Links!UpdateContact
  <2>2. c = d /\ v1'[c].user = u
      BY <1>2, <2>1
  <2> QED
      BY <1>9, <2>2
<1>5. CASE UNCHANGED v1
    BY <1>5
<1>6. ASSUME NEW d \in Contact, NEW u \in Links!User, NEW r \in Request,
             Links!LinkLook(d, u, r)
      PROVE  UNCHANGED v1
    BY <1>6 DEF Links!LinkLook
<1>7. ASSUME NEW r \in Request, Links!AutoLook(r) PROVE UNCHANGED v1
    BY <1>7 DEF Links!AutoLook
<1>8. ASSUME NEW s \in Submission,
             \/ \E e \in Email : Links!Submit(s, e)
             \/ Links!Find(s) \/ Links!Attach(s) \/ Links!GiveUp(s)
             \/ \E r \in Request : Links!Finish(s, r)
      PROVE  UNCHANGED v1
    BY <1>8 DEF Links!Submit, Links!Find, Links!Attach, Links!GiveUp, Links!Finish
<1> QED
    BY <1>3, <1>4, <1>5, <1>6, <1>7, <1>8, <1>9 DEF Links!Next, Links!vars

-----------------------------------------------------------------------------
(* The activity fields of a contact.                                       *)
(* v1 interaction, v2 task, v3 field, v4 refresh, v5 stale, v6 changes.    *)

\* The finite sets of the instance are those of FiniteSets.
LEMMA ActivitySets ==
    \A S : /\ Activity!IsFiniteSet(S) <=> IsFiniteSet(S)
          /\ Activity!Cardinality(S) = Cardinality(S)
    BY DEF Activity!IsFiniteSet, IsFiniteSet, Activity!Cardinality, Cardinality

ActivityTimes == Day \cup {0}

LEMMA ActivityTypes ==
    ASSUME Activity!Bounds, Activity!IInv
    PROVE  /\ v1 \in [Touch -> Activity!Interactions] /\ v2 \in [Todo -> Activity!Tasks]
           /\ v3 \in [Known -> [Activity!Field -> ActivityTimes]]
           /\ v4 \in [Recount -> Activity!Runs]
           /\ v5 \in SUBSET Known /\ v6 \in 0..ActivityChanges
           /\ \A c \in Known \ v5 : Activity!Follows(c)
           /\ Known \subseteq Nat \ {0}
           /\ ActivityTimes \subseteq Nat
           /\ 0 \in ActivityTimes
    BY ActivitySets DEF Activity!Bounds, Activity!IInv, Activity!TypeOK, ActivityTimes

LEMMA ActivityTypesAre ==
    ASSUME v1' \in [Touch -> Activity!Interactions], v2' \in [Todo -> Activity!Tasks],
           v3' \in [Known -> [Activity!Field -> ActivityTimes]], v4' \in [Recount -> Activity!Runs],
           v5' \in SUBSET Known, v6' \in 0..ActivityChanges,
           \A c \in Known \ v5' : Activity!Follows(c)'
    PROVE  Activity!IInv'
<1>1. \A i \in Touch : v1'[i] \in Activity!Interactions
    OBVIOUS
<1>2. \A t \in Todo : v2'[t] \in Activity!Tasks
    OBVIOUS
<1>3. \A r \in Recount : v4'[r] \in Activity!Runs
    OBVIOUS
<1>4. \A q \in Activity!Runs : q.of \in Known \cup {Activity!Nobody} /\ DOMAIN q.got \subseteq Activity!Field
  <2> TAKE q \in Activity!Runs
  <2>1. PICK F \in SUBSET Activity!Field : q.got \in [F -> ActivityTimes]
      BY DEF Activity!Runs, ActivityTimes
  <2>2. DOMAIN q.got = F
      BY <2>1
  <2> QED
      BY <2>2 DEF Activity!Runs
<1>5. Activity!TypeOK'
    BY <1>1, <1>2, <1>3, <1>4 DEF Activity!TypeOK, Activity!Interactions, Activity!Tasks,
       ActivityTimes
<1> QED
    BY <1>5 DEF Activity!IInv

LEMMA ActivityGotIs ==
    ASSUME NEW q \in Activity!Runs
    PROVE  \E F \in SUBSET Activity!Field : q.got \in [F -> ActivityTimes] /\ DOMAIN q.got = F
<1>1. PICK F \in SUBSET Activity!Field : q.got \in [F -> ActivityTimes]
    BY DEF Activity!Runs, ActivityTimes
<1>2. DOMAIN q.got = F
    BY <1>1
<1> QED
    BY <1>1, <1>2

LEMMA ActivityLatestIs ==
    ASSUME Activity!Bounds, Activity!IInv, NEW c, NEW types
    PROVE  Activity!Latest(c, types) \in ActivityTimes
<1> DEFINE J == {j \in Touch : v1[j].of = c /\ v1[j].type \in types}
           f == [j \in J |-> v1[j].at]
           A == {v1[i].at : i \in J}
           S == {0} \cup A
<1>1. IsFiniteSet(Touch)
    BY ActivitySets DEF Activity!Bounds
<1>2. J \in SUBSET Touch
    OBVIOUS
<1>3. IsFiniteSet(J)
  <2> HIDE DEF J
  <2> QED
      BY <1>1, <1>2, FS_Subset
<1>4. f \in Surjection(J, A)
    BY DEF Surjection
<1>5. IsFiniteSet(A)
  <2> HIDE DEF J, f, A
  <2> QED
      BY <1>3, <1>4, FS_Surjection
<1>6. \A i \in Touch : v1[i].at \in ActivityTimes
    BY ActivityTypes DEF Activity!Interactions, ActivityTimes
<1>7. A \in SUBSET ActivityTimes
    BY <1>6
<1>8. Activity!Latest(c, types) = Activity!Max(S)
    BY DEF Activity!Latest
<1>9. S \in SUBSET ActivityTimes /\ S # {} /\ S \in SUBSET Nat
    BY <1>7, ActivityTypes
<1>10. IsFiniteSet(S)
  <2> HIDE DEF A
  <2>1. IsFiniteSet({0})
      BY FS_Singleton
  <2> QED
      BY <2>1, <1>5, FS_Union
<1> HIDE DEF S
<1>11. PICK l \in S : \A k \in S : l >= k
  <2>1. PICK l \in S : \A k \in S : k <= l
      BY <1>9, <1>10, Greatest
  <2>2. \A k \in S : k \in Nat /\ l \in Nat
      BY <1>9
  <2> QED
      BY <2>1, <2>2
<1> QED
    BY <1>8, <1>9, <1>11 DEF Activity!Max

LEMMA ActivityValueIs ==
    ASSUME Activity!Bounds, Activity!IInv, NEW c, NEW f \in Activity!Field
    PROVE  Activity!Value(c, f) \in ActivityTimes
<1> DEFINE due == Activity!Due(c)
<1>1. CASE f = "task"
  <2>1. Activity!Value(c, f) = IF due = {} THEN 0 ELSE Activity!Min(due)
      BY <1>1 DEF Activity!Value
  <2>2. \A t \in Todo : v2[t].due \in ActivityTimes
      BY ActivityTypes DEF Activity!Tasks, ActivityTimes
  <2>3. due \in SUBSET ActivityTimes /\ due \in SUBSET Nat
    <3>1. due \in SUBSET ActivityTimes
        BY <2>2 DEF Activity!Due
    <3> QED
        BY <3>1, ActivityTypes
  <2> HIDE DEF due
  <2>4. due # {} => \E l \in due : \A k \in due : l <= k
      BY <2>3, Least
  <2>5. due # {} => Activity!Min(due) \in due
      BY <2>4 DEF Activity!Min
  <2> QED
      BY <2>1, <2>3, <2>5, ActivityTypes
<1>2. CASE f # "task"
  <2>1. Activity!Value(c, f) \in {Activity!Latest(c, Activity!Type), Activity!Latest(c, {"CONSULT"}), Activity!Latest(c, {"MEETING"})}
      BY <1>2 DEF Activity!Value, Activity!Field
  <2> QED
      BY <2>1, ActivityLatestIs
<1> QED
    BY <1>1, <1>2

\* What is read of a contact is as its own rows are.
LEMMA ActivityValueSame ==
    ASSUME NEW z,
           \A j \in Touch : \/ v1'[j] = v1[j]
                            \/ v1[j].of # z /\ v1'[j].of # z,
           \A t \in Todo : \/ v2'[t] = v2[t]
                           \/ v2[t].of # z /\ v2'[t].of # z
    PROVE  \A f : Activity!Value(z, f)' = Activity!Value(z, f)
<1>1. \A types : Activity!Latest(z, types)' = Activity!Latest(z, types)
  <2> TAKE types
  <2>1. {j \in Touch : v1'[j].of = z /\ v1'[j].type \in types}
            = {j \in Touch : v1[j].of = z /\ v1[j].type \in types}
      OBVIOUS
  <2>2. {v1'[i].at : i \in {j \in Touch : v1[j].of = z /\ v1[j].type \in types}}
            = {v1[i].at : i \in {j \in Touch : v1[j].of = z /\ v1[j].type \in types}}
      OBVIOUS
  <2> QED
      BY <2>1, <2>2 DEF Activity!Latest
<1>2. {u \in Todo : v2'[u].of = z /\ v2'[u].open} = {u \in Todo : v2[u].of = z /\ v2[u].open}
  <2>1. \A u \in Todo : v2'[u].of = z /\ v2'[u].open <=> v2[u].of = z /\ v2[u].open
    <3> TAKE u \in Todo
    <3>1. CASE v2'[u] = v2[u]
        BY <3>1
    <3>2. CASE v2[u].of # z /\ v2'[u].of # z
        BY <3>2
    <3> QED
        BY <3>1, <3>2
  <2> QED
      BY <2>1
<1>3. {v2'[t].due : t \in {u \in Todo : v2[u].of = z /\ v2[u].open}}
          = {v2[t].due : t \in {u \in Todo : v2[u].of = z /\ v2[u].open}}
  <2>1. \A u \in {v \in Todo : v2[v].of = z /\ v2[v].open} : v2'[u].due = v2[u].due
      OBVIOUS
  <2> QED
      BY <2>1
<1>4. Activity!Due(z)' = Activity!Due(z)
    BY <1>2, <1>3 DEF Activity!Due
<1>5. ASSUME NEW f PROVE Activity!Value(z, f)' = Activity!Value(z, f)
    BY <1>1, <1>4 DEF Activity!Value
<1> QED
    BY <1>5

\* What is true of a contact that nothing happens to stays so.
LEMMA ActivitySame ==
    ASSUME NEW z, Activity!Follows(z), \A f : Activity!Value(z, f)' = Activity!Value(z, f),
           v3'[z] = v3[z],
           Activity!Running(z)' = Activity!Running(z), \A r \in Activity!Running(z) : v4'[r] = v4[r]
    PROVE  Activity!Follows(z)'
    BY DEF Activity!Follows

\* Rows of some contacts change and nobody refreshes them.
LEMMA ActivityUnrefreshedStep ==
    ASSUME Activity!Bounds, Activity!IInv,
           v1' \in [Touch -> Activity!Interactions], v2' \in [Todo -> Activity!Tasks],
           NEW c \in Known,
           \A j \in Touch : \/ v1'[j] = v1[j]
                            \/ v1[j].of \in {c, Activity!Nobody} /\ v1'[j].of \in {c, Activity!Nobody},
           \A t \in Todo : \/ v2'[t] = v2[t]
                           \/ v2[t].of \in {c, Activity!Nobody} /\ v2'[t].of \in {c, Activity!Nobody},
           Activity!Unrefreshed(c)
    PROVE  Activity!IInv'
<1>1. /\ v6 < ActivityChanges /\ v6' = v6 + 1 /\ v5' = v5 \cup {c}
      /\ UNCHANGED <<v3, v4>>
    BY DEF Activity!Unrefreshed
<1>2. v6' \in 0..ActivityChanges
    BY <1>1, ActivityTypes, ActivitySets DEF Activity!Bounds
<1>3. ASSUME NEW z \in Known \ v5' PROVE Activity!Follows(z)'
  <2>1. z # c /\ z # Activity!Nobody /\ Activity!Follows(z)
      BY <1>1, <1>3, ActivityTypes DEF Activity!Nobody
  <2>2. \A f : Activity!Value(z, f)' = Activity!Value(z, f)
      BY <2>1, ActivityValueSame
  <2>3. Activity!Running(z)' = Activity!Running(z)
      BY <1>1 DEF Activity!Running
  <2> QED
      BY <1>1, <2>1, <2>2, <2>3, ActivitySame
<1>4. v5' \in SUBSET Known
    BY <1>1, ActivityTypes
<1> QED
    BY <1>1, <1>2, <1>3, <1>4, ActivityTypes, ActivityTypesAre

\* Rows change of a contact whose refresh begins; others of theirs are stale.
LEMMA ActivityRefreshedStep ==
    ASSUME Activity!Bounds, Activity!IInv,
           v1' \in [Touch -> Activity!Interactions], v2' \in [Todo -> Activity!Tasks],
           NEW c \in Known, NEW r \in Recount, NEW D \in SUBSET Known,
           \A j \in Touch : \/ v1'[j] = v1[j]
                            \/ v1[j].of \in D \cup {c, Activity!Nobody} /\ v1'[j].of \in D \cup {c, Activity!Nobody},
           \A t \in Todo : \/ v2'[t] = v2[t]
                           \/ v2[t].of \in D \cup {c, Activity!Nobody} /\ v2'[t].of \in D \cup {c, Activity!Nobody},
           v6 < ActivityChanges, v6' = v6 + 1, v4[r].of = Activity!Nobody,
           v4' = [v4 EXCEPT ![r] = [Activity!NotRunning EXCEPT !.of = c]],
           v5' \in SUBSET Known, v5 \cup (D \ {c}) \subseteq v5',
           Activity!Running(c) # {} => c \in v5', UNCHANGED v3
    PROVE  Activity!IInv'
<1>1. PICK q : q = [Activity!NotRunning EXCEPT !.of = c]
    OBVIOUS
<1>2. q \in Activity!Runs /\ q.of = c /\ DOMAIN q.got = {}
  <2>1. /\ {} \in SUBSET Activity!Field
        /\ [f \in {} |-> 0] \in [{} -> Day \cup {0}]
        /\ DOMAIN [f \in {} |-> 0] = {}
      OBVIOUS
  <2> QED
      BY <1>1, <2>1 DEF Activity!NotRunning, Activity!Runs
<1>3. v4' \in [Recount -> Activity!Runs] /\ v4'[r] = q /\ \A x \in Recount \ {r} : v4'[x] = v4[x]
    BY <1>1, <1>2, ActivityTypes
<1>4. v6' \in 0..ActivityChanges
    BY ActivityTypes, ActivitySets DEF Activity!Bounds
<1>5. ASSUME NEW z \in Known \ v5' PROVE Activity!Follows(z)'
  <2>1. z # Activity!Nobody /\ Activity!Follows(z)
      BY <1>5, ActivityTypes DEF Activity!Nobody
  <2>2. CASE z # c
    <3>1. z \notin D
        BY <1>5, <2>2
    <3>2. \A f : Activity!Value(z, f)' = Activity!Value(z, f)
        BY <2>1, <2>2, <3>1, ActivityValueSame
    <3>3. r \notin Activity!Running(z) /\ r \notin Activity!Running(z)'
        BY <1>2, <1>3, <2>1, <2>2 DEF Activity!Running
    <3>4. Activity!Running(z)' = Activity!Running(z) /\ \A x \in Activity!Running(z) : v4'[x] = v4[x]
        BY <1>3, <3>3 DEF Activity!Running
    <3> QED
        BY <2>1, <3>2, <3>4, ActivitySame
  <2>3. CASE z = c
    <3>1. Activity!Running(c) = {}
        BY <1>5, <2>3
    <3>2. Activity!Running(c)' = {r}
        BY <1>2, <1>3, <3>1 DEF Activity!Running
    <3>3. DOMAIN v4'[r].got = {}
        BY <1>2, <1>3
    <3> QED
        BY <2>3, <3>2, <3>3 DEF Activity!Follows
  <2> QED
      BY <2>2, <2>3
<1> QED
    BY <1>3, <1>4, <1>5, ActivityTypes, ActivityTypesAre

LEMMA ActivityAddInteractionStep ==
    ASSUME Activity!Bounds, Activity!IInv, NEW i \in Touch, NEW r \in Recount,
           NEW c \in Known,
           NEW type \in Activity!Type, NEW at \in Day, Activity!AddInteraction(i, r, c, type, at)
    PROVE  Activity!IInv'
<1> DEFINE row == [of |-> c, type |-> type, at |-> at]
<1>1. row \in Activity!Interactions /\ row.of = c
    BY DEF Activity!Interactions
<1>2. /\ v1' = [v1 EXCEPT ![i] = row] /\ v1[i].of = Activity!Nobody
      /\ UNCHANGED v2 /\ Activity!Refreshed(r, c) /\ c # Activity!Nobody
    BY ActivityTypes DEF Activity!AddInteraction, Activity!Nobody
<1> HIDE DEF row
<1>3. v1' \in [Touch -> Activity!Interactions] /\ v1'[i].of = c
      /\ \A j \in Touch \ {i} : v1'[j] = v1[j]
    BY <1>1, <1>2, ActivityTypes
<1>4. /\ v6 < ActivityChanges /\ v6' = v6 + 1 /\ v4[r].of = Activity!Nobody
      /\ v4' = [v4 EXCEPT ![r] = [Activity!NotRunning EXCEPT !.of = c]]
      /\ v5' = IF Activity!Running(c) = {} THEN v5 ELSE v5 \cup {c}
      /\ UNCHANGED v3
    BY <1>2 DEF Activity!Refreshed
<1>5. v5' \in SUBSET Known /\ v5 \subseteq v5' /\ (Activity!Running(c) # {} => c \in v5')
    BY <1>4, ActivityTypes
<1>6. PICK D \in SUBSET Known : D = {}
    OBVIOUS
<1>7. \A j \in Touch : \/ v1'[j] = v1[j]
                       \/ v1[j].of \in D \cup {c, Activity!Nobody} /\ v1'[j].of \in D \cup {c, Activity!Nobody}
    BY <1>2, <1>3
<1>8. \A t \in Todo : \/ v2'[t] = v2[t]
                      \/ v2[t].of \in D \cup {c, Activity!Nobody} /\ v2'[t].of \in D \cup {c, Activity!Nobody}
    BY <1>2
<1>9. v2' \in [Todo -> Activity!Tasks] /\ v5 \cup (D \ {c}) \subseteq v5'
    BY <1>2, <1>5, <1>6, ActivityTypes
<1> QED
    BY <1>3, <1>4, <1>5, <1>7, <1>8, <1>9, ActivityRefreshedStep

LEMMA ActivityUpdateInteractionStep ==
    ASSUME Activity!Bounds, Activity!IInv, NEW i \in Touch, NEW type \in Activity!Type,
           NEW at \in Day,
           Activity!UpdateInteraction(i, type, at)
    PROVE  Activity!IInv'
<1>0. v1[i] \in Activity!Interactions
    BY ActivityTypes
<1>1. PICK c \in Known : c = v1[i].of
    BY <1>0 DEF Activity!UpdateInteraction, Activity!Interactions, Activity!Nobody
<1> DEFINE row == [of |-> c, type |-> type, at |-> at]
<1>2. row \in Activity!Interactions /\ row.of = c
    BY DEF Activity!Interactions
<1>3. v1' = [v1 EXCEPT ![i] = row] /\ UNCHANGED v2 /\ Activity!Unrefreshed(c)
    BY <1>1 DEF Activity!UpdateInteraction
<1> HIDE DEF row
<1>4. /\ v1' \in [Touch -> Activity!Interactions] /\ v1'[i].of = c
      /\ \A j \in Touch \ {i} : v1'[j] = v1[j]
    BY <1>2, <1>3, ActivityTypes
<1>5. \A j \in Touch : \/ v1'[j] = v1[j]
                       \/ v1[j].of \in {c, Activity!Nobody} /\ v1'[j].of \in {c, Activity!Nobody}
    BY <1>1, <1>4
<1>6. \A t \in Todo : v2'[t] = v2[t]
    BY <1>3
<1> QED
    BY <1>3, <1>4, <1>5, <1>6, ActivityTypes, ActivityUnrefreshedStep

LEMMA ActivityDeleteInteractionStep ==
    ASSUME Activity!Bounds, Activity!IInv, NEW i \in Touch, Activity!DeleteInteraction(i)
    PROVE  Activity!IInv'
<1>0. v1[i] \in Activity!Interactions
    BY ActivityTypes
<1>1. PICK c \in Known : c = v1[i].of
    BY <1>0 DEF Activity!DeleteInteraction, Activity!Interactions, Activity!Nobody
<1>2. /\ Activity!NoInteraction \in Activity!Interactions
      /\ Activity!NoInteraction.of = Activity!Nobody
    BY DEF Activity!NoInteraction, Activity!Interactions, Activity!Type
<1>3. /\ v1' = [v1 EXCEPT ![i] = Activity!NoInteraction]
      /\ UNCHANGED v2
      /\ Activity!Unrefreshed(c)
    BY <1>1 DEF Activity!DeleteInteraction
<1>4. /\ v1' \in [Touch -> Activity!Interactions] /\ v1'[i].of = Activity!Nobody
      /\ \A j \in Touch \ {i} : v1'[j] = v1[j]
    BY <1>2, <1>3, ActivityTypes
<1>5. \A j \in Touch : \/ v1'[j] = v1[j]
                       \/ v1[j].of \in {c, Activity!Nobody} /\ v1'[j].of \in {c, Activity!Nobody}
    BY <1>1, <1>4
<1>6. \A t \in Todo : v2'[t] = v2[t]
    BY <1>3
<1> QED
    BY <1>3, <1>4, <1>5, <1>6, ActivityTypes, ActivityUnrefreshedStep

LEMMA ActivityCreateTaskStep ==
    ASSUME Activity!Bounds, Activity!IInv, NEW t \in Todo, NEW r \in Recount,
           NEW c \in Known,
           NEW due \in Day \cup {0}, Activity!CreateTask(t, r, c, due)
    PROVE  Activity!IInv'
<1> DEFINE row == [of |-> c, open |-> TRUE, due |-> due]
<1>1. row \in Activity!Tasks /\ row.of = c
    BY DEF Activity!Tasks
<1>2. /\ v2' = [v2 EXCEPT ![t] = row] /\ v2[t].of = Activity!Nobody
      /\ UNCHANGED v1 /\ Activity!Refreshed(r, c) /\ c # Activity!Nobody
    BY ActivityTypes DEF Activity!CreateTask, Activity!Nobody
<1> HIDE DEF row
<1>3. v2' \in [Todo -> Activity!Tasks] /\ v2'[t].of = c /\ \A j \in Todo \ {t} : v2'[j] = v2[j]
    BY <1>1, <1>2, ActivityTypes
<1>4. /\ v6 < ActivityChanges /\ v6' = v6 + 1 /\ v4[r].of = Activity!Nobody
      /\ v4' = [v4 EXCEPT ![r] = [Activity!NotRunning EXCEPT !.of = c]]
      /\ v5' = IF Activity!Running(c) = {} THEN v5 ELSE v5 \cup {c}
      /\ UNCHANGED v3
    BY <1>2 DEF Activity!Refreshed
<1>5. v5' \in SUBSET Known /\ v5 \subseteq v5' /\ (Activity!Running(c) # {} => c \in v5')
    BY <1>4, ActivityTypes
<1>6. PICK D \in SUBSET Known : D = {}
    OBVIOUS
<1>7. \A j \in Todo : \/ v2'[j] = v2[j]
                      \/ v2[j].of \in D \cup {c, Activity!Nobody} /\ v2'[j].of \in D \cup {c, Activity!Nobody}
    BY <1>2, <1>3
<1>8. \A j \in Touch : \/ v1'[j] = v1[j]
                       \/ v1[j].of \in D \cup {c, Activity!Nobody} /\ v1'[j].of \in D \cup {c, Activity!Nobody}
    BY <1>2
<1>9. v1' \in [Touch -> Activity!Interactions] /\ v5 \cup (D \ {c}) \subseteq v5'
    BY <1>2, <1>5, <1>6, ActivityTypes
<1> QED
    BY <1>3, <1>4, <1>5, <1>7, <1>8, <1>9, ActivityRefreshedStep

LEMMA ActivityUpdateTaskStep ==
    ASSUME Activity!Bounds, Activity!IInv, NEW t \in Todo, NEW r \in Recount,
           NEW c \in Known \cup {Activity!Nobody},
           NEW open \in BOOLEAN, NEW due \in Day \cup {0}, Activity!UpdateTask(t, r, c, open, due)
    PROVE  Activity!IInv'
<1>0. v2[t] \in Activity!Tasks
    BY ActivityTypes
<1>1. PICK old \in Known : old = v2[t].of
    BY <1>0 DEF Activity!UpdateTask, Activity!Tasks, Activity!Nobody
<1> DEFINE row == IF c = Activity!Nobody THEN Activity!NoTask ELSE [of |-> c, open |-> open, due |-> due]
<1>2. row \in Activity!Tasks /\ row.of = c
    BY DEF Activity!Tasks, Activity!NoTask
<1>3. v2' = [v2 EXCEPT ![t] = row] /\ UNCHANGED v1
    BY DEF Activity!UpdateTask
<1> HIDE DEF row
<1>4. v2' \in [Todo -> Activity!Tasks] /\ v2'[t].of = c /\ \A j \in Todo \ {t} : v2'[j] = v2[j]
    BY <1>2, <1>3, ActivityTypes
<1>5. v1' \in [Touch -> Activity!Interactions]
    BY <1>3, ActivityTypes
<1>6. CASE c = Activity!Nobody
  <2>1. Activity!Unrefreshed(old)
      BY <1>1, <1>6 DEF Activity!UpdateTask
  <2>2. \A j \in Todo : \/ v2'[j] = v2[j]
                        \/ v2[j].of \in {old, Activity!Nobody} /\ v2'[j].of \in {old, Activity!Nobody}
      BY <1>1, <1>4, <1>6
  <2>3. \A j \in Touch : \/ v1'[j] = v1[j]
                         \/ v1[j].of \in {old, Activity!Nobody} /\ v1'[j].of \in {old, Activity!Nobody}
      BY <1>3
  <2> QED
      BY <1>4, <1>5, <2>1, <2>2, <2>3, ActivityUnrefreshedStep
<1>7. CASE c # Activity!Nobody
  <2>1. /\ v6 < ActivityChanges /\ v6' = v6 + 1 /\ v4[r].of = Activity!Nobody
        /\ v4' = [v4 EXCEPT ![r] = [Activity!NotRunning EXCEPT !.of = c]]
        /\ v5' = v5 \cup (IF Activity!Running(c) = {} THEN {} ELSE {c}) \cup (IF old = c THEN {} ELSE {old})
        /\ UNCHANGED v3
      BY <1>1, <1>7 DEF Activity!UpdateTask
  <2>2. PICK D \in SUBSET Known : D = {old}
      OBVIOUS
  <2>3. c \in Known
      BY <1>7
  <2>4. /\ v5' \in SUBSET Known
        /\ v5 \cup (D \ {c}) \subseteq v5'
        /\ (Activity!Running(c) # {} => c \in v5')
      BY <2>1, <2>2, <2>3, ActivityTypes
  <2>5. \A j \in Todo : \/ v2'[j] = v2[j]
                        \/ v2[j].of \in D \cup {c, Activity!Nobody} /\ v2'[j].of \in D \cup {c, Activity!Nobody}
      BY <1>1, <1>4, <2>2
  <2>6. \A j \in Touch : \/ v1'[j] = v1[j]
                         \/ v1[j].of \in D \cup {c, Activity!Nobody} /\ v1'[j].of \in D \cup {c, Activity!Nobody}
      BY <1>3
  <2> QED
      BY <1>4, <1>5, <2>1, <2>3, <2>4, <2>5, <2>6, ActivityRefreshedStep
<1> QED
    BY <1>6, <1>7

LEMMA ActivityDeleteTaskStep ==
    ASSUME Activity!Bounds, Activity!IInv, NEW t \in Todo, NEW r \in Recount,
           Activity!DeleteTask(t, r)
    PROVE  Activity!IInv'
<1>0. v2[t] \in Activity!Tasks
    BY ActivityTypes
<1>1. PICK c \in Known : c = v2[t].of /\ c # Activity!Nobody
    BY <1>0 DEF Activity!DeleteTask, Activity!Tasks, Activity!Nobody
<1>2. Activity!NoTask \in Activity!Tasks /\ Activity!NoTask.of = Activity!Nobody
    BY DEF Activity!NoTask, Activity!Tasks
<1>3. v2' = [v2 EXCEPT ![t] = Activity!NoTask] /\ UNCHANGED v1 /\ Activity!Refreshed(r, c)
    BY <1>1 DEF Activity!DeleteTask
<1>4. v2' \in [Todo -> Activity!Tasks] /\ v2'[t].of = Activity!Nobody /\ \A j \in Todo \ {t} : v2'[j] = v2[j]
    BY <1>2, <1>3, ActivityTypes
<1>5. /\ v6 < ActivityChanges /\ v6' = v6 + 1 /\ v4[r].of = Activity!Nobody
      /\ v4' = [v4 EXCEPT ![r] = [Activity!NotRunning EXCEPT !.of = c]]
      /\ v5' = IF Activity!Running(c) = {} THEN v5 ELSE v5 \cup {c}
      /\ UNCHANGED v3
    BY <1>1, <1>3 DEF Activity!Refreshed
<1>6. PICK D \in SUBSET Known : D = {}
    OBVIOUS
<1>7. \A j \in Todo : \/ v2'[j] = v2[j]
                      \/ v2[j].of \in D \cup {c, Activity!Nobody} /\ v2'[j].of \in D \cup {c, Activity!Nobody}
    BY <1>1, <1>4
<1>8. \A j \in Touch : \/ v1'[j] = v1[j]
                       \/ v1[j].of \in D \cup {c, Activity!Nobody} /\ v1'[j].of \in D \cup {c, Activity!Nobody}
    BY <1>3
<1>9. /\ v1' \in [Touch -> Activity!Interactions] /\ v5' \in SUBSET Known
      /\ v5 \cup (D \ {c}) \subseteq v5' /\ (Activity!Running(c) # {} => c \in v5')
    BY <1>3, <1>5, <1>6, ActivityTypes
<1> QED
    BY <1>4, <1>5, <1>7, <1>8, <1>9, ActivityRefreshedStep

-----------------------------------------------------------------------------

\* Nothing that is read changes.
LEMMA ActivityValueKept ==
    ASSUME UNCHANGED <<v1, v2>> PROVE \A z, f : Activity!Value(z, f)' = Activity!Value(z, f)
<1> TAKE z
<1> QED
    BY ActivityValueSame

\* A refresh that runs moves on or ends.
LEMMA ActivityOtherRuns ==
    ASSUME Activity!Bounds, Activity!IInv, NEW r \in Recount, NEW q \in Activity!Runs,
           v4' = [v4 EXCEPT ![r] = q],
           q.of \in {v4[r].of, Activity!Nobody}, NEW z \in Known, z # v4[r].of
    PROVE  Activity!Running(z)' = Activity!Running(z) /\ \A x \in Activity!Running(z) : v4'[x] = v4[x]
<1>1. v4'[r] = q /\ \A x \in Recount \ {r} : v4'[x] = v4[x]
    BY ActivityTypes
<1>2. z # Activity!Nobody
    BY ActivityTypes DEF Activity!Nobody
<1>3. r \notin Activity!Running(z) /\ r \notin Activity!Running(z)'
    BY <1>1, <1>2 DEF Activity!Running
<1> QED
    BY <1>1, <1>3 DEF Activity!Running

LEMMA ActivityReadStep ==
    ASSUME Activity!Bounds, Activity!IInv, NEW r \in Recount, NEW f \in Activity!Field,
           Activity!Read(r, f)
    PROVE  Activity!IInv'
<1>0. v4[r] \in Activity!Runs
    BY ActivityTypes
<1>1. PICK c \in Known : c = v4[r].of
    BY <1>0 DEF Activity!Read, Activity!Runs, Activity!Nobody
<1>2. PICK F \in SUBSET Activity!Field :
           v4[r].got \in [F -> ActivityTimes] /\ DOMAIN v4[r].got = F
    BY <1>0, ActivityGotIs
<1>3. PICK got :
           got = [g \in F \cup {f} |-> IF g = f THEN Activity!Value(c, f) ELSE v4[r].got[g]]
    OBVIOUS
<1>4. PICK G \in SUBSET Activity!Field : G = F \cup {f}
    OBVIOUS
<1>5. got \in [G -> ActivityTimes] /\ DOMAIN got = G
      /\ \A g \in G : got[g] = IF g = f THEN Activity!Value(c, f) ELSE v4[r].got[g]
  <2>1. Activity!Value(c, f) \in ActivityTimes
      BY ActivityValueIs
  <2>2. \A g \in F : v4[r].got[g] \in ActivityTimes
      BY <1>2
  <2> QED
      BY <1>3, <1>4, <2>1, <2>2
<1>6. PICK q : q = [v4[r] EXCEPT !.got = got]
    OBVIOUS
<1>7. q \in Activity!Runs /\ q.of = c /\ q.got = got
    BY <1>0, <1>1, <1>5, <1>6 DEF Activity!Runs, ActivityTimes
<1>8. v4' = [v4 EXCEPT ![r] = q]
    BY <1>1, <1>2, <1>3, <1>6 DEF Activity!Read
<1>9. UNCHANGED <<v1, v2, v3, v5, v6>>
    BY DEF Activity!Read
<1>10. v4' \in [Recount -> Activity!Runs] /\ v4'[r] = q /\ \A x \in Recount \ {r} : v4'[x] = v4[x]
    BY <1>7, <1>8, ActivityTypes
<1>11. \A z, g : Activity!Value(z, g)' = Activity!Value(z, g)
    BY <1>9, ActivityValueKept
<1>12. ASSUME NEW z \in Known \ v5 PROVE Activity!Follows(z)'
  <2>1. Activity!Follows(z)
      BY ActivityTypes
  <2>2. CASE z # c
    <3>1. Activity!Running(z)' = Activity!Running(z) /\ \A x \in Activity!Running(z) : v4'[x] = v4[x]
        BY <1>1, <1>7, <1>8, <2>2, ActivityOtherRuns
    <3> QED
        BY <1>9, <1>11, <2>1, <3>1, ActivitySame
  <2>3. CASE z = c
    <3>1. r \in Activity!Running(c)
        BY <1>1 DEF Activity!Running
    <3>2. Activity!Running(c) = {r} /\ \A g \in F : v4[r].got[g] = Activity!Value(c, g)
        BY <1>2, <2>1, <2>3, <3>1 DEF Activity!Follows
    <3>3. Activity!Running(c)' = {r}
        BY <1>7, <1>10, <3>2 DEF Activity!Running
    <3>4. \A g \in G : v4'[r].got[g] = Activity!Value(c, g)'
        BY <1>4, <1>5, <1>7, <1>10, <1>11, <3>2
    <3>5. DOMAIN v4'[r].got = G
        BY <1>5, <1>7, <1>10
    <3> QED
        BY <2>3, <3>3, <3>4, <3>5 DEF Activity!Follows
  <2> QED
      BY <2>2, <2>3
<1> QED
    BY <1>9, <1>10, <1>12, ActivityTypes, ActivityTypesAre

LEMMA ActivityNotRunningIs == Activity!NotRunning \in Activity!Runs /\ Activity!NotRunning.of = Activity!Nobody
<1>1. {} \in SUBSET Activity!Field /\ [f \in {} |-> 0] \in [{} -> Day \cup {0}]
    OBVIOUS
<1> QED
    BY <1>1 DEF Activity!NotRunning, Activity!Runs

LEMMA ActivityWriteStep ==
    ASSUME Activity!Bounds, Activity!IInv, NEW r \in Recount, Activity!Write(r)
    PROVE  Activity!IInv'
<1>0. v4[r] \in Activity!Runs
    BY ActivityTypes
<1>1. PICK c \in Known : c = v4[r].of
    BY <1>0 DEF Activity!Write, Activity!Runs, Activity!Nobody
<1>2. PICK got \in [Activity!Field -> ActivityTimes] : got = v4[r].got
  <2>1. PICK F \in SUBSET Activity!Field :
             v4[r].got \in [F -> ActivityTimes] /\ DOMAIN v4[r].got = F
      BY <1>0, ActivityGotIs
  <2>2. F = Activity!Field
      BY <2>1 DEF Activity!Write
  <2> QED
      BY <2>1, <2>2
<1>3. /\ v3' = [v3 EXCEPT ![c] = got] /\ v4' = [v4 EXCEPT ![r] = Activity!NotRunning]
      /\ v5' = IF Activity!Running(c) = {r} /\ \A f \in Activity!Field : got[f] = Activity!Value(c, f)
                  THEN v5 \ {c} ELSE v5
      /\ UNCHANGED <<v1, v2, v6>>
    BY <1>1, <1>2 DEF Activity!Write
<1>4. v3' \in [Known -> [Activity!Field -> ActivityTimes]] /\ v3'[c] = got /\ \A z \in Known \ {c} : v3'[z] = v3[z]
    BY <1>3, ActivityTypes
<1>5. /\ v4' \in [Recount -> Activity!Runs] /\ v4'[r].of = Activity!Nobody
      /\ \A x \in Recount \ {r} : v4'[x] = v4[x]
    BY <1>3, ActivityNotRunningIs, ActivityTypes
<1>6. \A z, g : Activity!Value(z, g)' = Activity!Value(z, g)
    BY <1>3, ActivityValueKept
<1>7. ASSUME NEW z \in Known \ v5' PROVE Activity!Follows(z)'
  <2>2. CASE z # c
    <3>1. Activity!Running(z)' = Activity!Running(z) /\ \A x \in Activity!Running(z) : v4'[x] = v4[x]
        BY <1>1, <1>3, <2>2, ActivityNotRunningIs, ActivityOtherRuns
    <3>2. Activity!Follows(z)
        BY <1>3, <1>7, <2>2, ActivityTypes
    <3> QED
        BY <1>4, <1>6, <2>2, <3>1, <3>2, ActivitySame
  <2>3. CASE z = c
    <3>1. Activity!Running(c) = {r} /\ \A f \in Activity!Field : got[f] = Activity!Value(c, f)
      <4>1. CASE c \in v5
          BY <1>3, <1>7, <2>3, <4>1
      <4>2. CASE c \notin v5
        <5>1. Activity!Follows(c) /\ r \in Activity!Running(c)
            BY <1>1, <4>2, ActivityTypes DEF Activity!Running
        <5>2. DOMAIN v4[r].got = Activity!Field
            BY <1>2
        <5> QED
            BY <1>2, <5>1, <5>2 DEF Activity!Follows
      <4> QED
          BY <4>1, <4>2
    <3>2. c # Activity!Nobody
        BY ActivityTypes DEF Activity!Nobody
    <3>3. Activity!Running(c)' = {}
        BY <1>5, <3>1, <3>2 DEF Activity!Running
    <3> QED
        BY <1>4, <1>6, <2>3, <3>1, <3>3 DEF Activity!Follows
  <2> QED
      BY <2>2, <2>3
<1>8. v5' \in SUBSET Known
    BY <1>3, ActivityTypes
<1> QED
    BY <1>3, <1>4, <1>5, <1>7, <1>8, ActivityTypes, ActivityTypesAre

LEMMA ActivityFailStep ==
    ASSUME Activity!Bounds, Activity!IInv, NEW r \in Recount, Activity!Fail(r)
    PROVE  Activity!IInv'
<1>0. v4[r] \in Activity!Runs
    BY ActivityTypes
<1>1. PICK c \in Known : c = v4[r].of
    BY <1>0 DEF Activity!Fail, Activity!Runs, Activity!Nobody
<1>2. /\ v4' = [v4 EXCEPT ![r] = Activity!NotRunning] /\ v5' = v5 \cup {c}
      /\ UNCHANGED <<v1, v2, v3, v6>>
    BY <1>1 DEF Activity!Fail
<1>3. v4' \in [Recount -> Activity!Runs]
    BY <1>2, ActivityNotRunningIs, ActivityTypes
<1>4. \A z, g : Activity!Value(z, g)' = Activity!Value(z, g)
    BY <1>2, ActivityValueKept
<1>5. ASSUME NEW z \in Known \ v5' PROVE Activity!Follows(z)'
  <2>1. z # c /\ Activity!Follows(z)
      BY <1>2, <1>5, ActivityTypes
  <2>2. Activity!Running(z)' = Activity!Running(z) /\ \A x \in Activity!Running(z) : v4'[x] = v4[x]
      BY <1>1, <1>2, <2>1, ActivityNotRunningIs, ActivityOtherRuns
  <2> QED
      BY <1>2, <1>4, <2>1, <2>2, ActivitySame
<1>6. v5' \in SUBSET Known
    BY <1>2, ActivityTypes
<1> QED
    BY <1>2, <1>3, <1>5, <1>6, ActivityTypes, ActivityTypesAre

LEMMA ActivityInitially == ASSUME Activity!Bounds PROVE Activity!Init => Activity!IInv
<1> SUFFICES ASSUME Activity!Init PROVE Activity!IInv
    OBVIOUS
<1>1. v1 \in [Touch -> Activity!Interactions] /\ \A i \in Touch : v1[i].of = Activity!Nobody
    BY DEF Activity!Init, Activity!NoInteraction, Activity!Interactions, Activity!Type
<1>2. v2 \in [Todo -> Activity!Tasks] /\ \A t \in Todo : v2[t].of = Activity!Nobody
    BY DEF Activity!Init, Activity!NoTask, Activity!Tasks
<1>3. v4 \in [Recount -> Activity!Runs] /\ \A r \in Recount : v4[r].of = Activity!Nobody
    BY ActivityNotRunningIs DEF Activity!Init
<1>4. /\ v3 \in [Known -> [Activity!Field -> Day \cup {0}]]
      /\ \A c \in Known, f \in Activity!Field : v3[c][f] = 0
    BY DEF Activity!Init
<1>5. v5 \in SUBSET Known /\ v6 \in 0..ActivityChanges
    BY ActivitySets DEF Activity!Init, Activity!Bounds
<1>6. Activity!TypeOK
  <2>1. \A i \in Touch : v1[i].of \in Known \cup {Activity!Nobody}
      BY <1>1
  <2>2. \A t \in Todo : v2[t].of \in Known \cup {Activity!Nobody}
      BY <1>2
  <2>3. \A r \in Recount : v4[r].of \in Known \cup {Activity!Nobody} /\ DOMAIN v4[r].got \subseteq Activity!Field
    <3>1. DOMAIN Activity!NotRunning.got = {}
        BY DEF Activity!NotRunning
    <3> QED
        BY <1>3, <3>1 DEF Activity!Init
  <2> QED
      BY <1>4, <1>5, <2>1, <2>2, <2>3 DEF Activity!TypeOK
<1>7. \A c \in Known : Activity!Follows(c)
  <2> TAKE c \in Known
  <2>1. c # Activity!Nobody
      BY ActivitySets DEF Activity!Bounds, Activity!Nobody
  <2>2. Activity!Running(c) = {}
      BY <1>3, <2>1 DEF Activity!Running
  <2>3. \A f \in Activity!Field : Activity!Value(c, f) = 0
    <3>1. \A types : {j \in Touch : v1[j].of = c /\ v1[j].type \in types} = {}
        BY <1>1, <2>1
    <3>2. \A types : {0} \cup {v1[i].at : i \in {j \in Touch : v1[j].of = c /\ v1[j].type \in types}} = {0}
        BY <3>1
    <3>3. Activity!Max({0}) = 0
        BY DEF Activity!Max
    <3>4. \A types : Activity!Latest(c, types) = 0
        BY <3>2, <3>3 DEF Activity!Latest
    <3>5. {u \in Todo : v2[u].of = c /\ v2[u].open} = {}
        BY <1>2, <2>1
    <3>6. Activity!Due(c) = {}
        BY <3>5 DEF Activity!Due
    <3> QED
        BY <3>4, <3>6 DEF Activity!Value
  <2> QED
      BY <1>4, <2>2, <2>3 DEF Activity!Follows
<1> QED
    BY <1>1, <1>2, <1>3, <1>6, <1>7 DEF Activity!IInv

LEMMA ActivityInductive ==
    ASSUME Activity!Bounds
    PROVE  Activity!IInv /\ [Activity!Next]_(Activity!vars) => Activity!IInv'
<1> SUFFICES ASSUME Activity!IInv, [Activity!Next]_(Activity!vars) PROVE Activity!IInv'
    OBVIOUS
<1>1. CASE UNCHANGED Activity!vars
  <2>1. UNCHANGED <<v1, v2, v3, v4, v5, v6>>
      BY <1>1 DEF Activity!vars
  <2>2. \A z, g : Activity!Value(z, g)' = Activity!Value(z, g)
      BY <2>1, ActivityValueKept
  <2>3. ASSUME NEW z \in Known \ v5 PROVE Activity!Follows(z)'
    <3>1. Activity!Running(z)' = Activity!Running(z) /\ Activity!Follows(z)
        BY <2>1, ActivityTypes DEF Activity!Running
    <3> QED
        BY <2>1, <2>2, <3>1, ActivitySame
  <2> QED
      BY <2>1, <2>3, ActivityTypes, ActivityTypesAre
<1>2. CASE Activity!Next
  <2>1. ASSUME NEW i \in Touch, NEW type \in Activity!Type, NEW at \in Day,
               \/ Activity!UpdateInteraction(i, type, at)
               \/ \E r \in Recount, c \in Known : Activity!AddInteraction(i, r, c, type, at)
        PROVE  Activity!IInv'
      BY <2>1, ActivityUpdateInteractionStep, ActivityAddInteractionStep
  <2>2. ASSUME NEW i \in Touch, Activity!DeleteInteraction(i) PROVE Activity!IInv'
      BY <2>2, ActivityDeleteInteractionStep
  <2>3. ASSUME NEW t \in Todo, NEW r \in Recount, NEW due \in Day \cup {0},
               \/ \E c \in Known : Activity!CreateTask(t, r, c, due)
               \/ \E c \in Known \cup {Activity!Nobody}, open \in BOOLEAN : Activity!UpdateTask(t, r, c, open, due)
        PROVE  Activity!IInv'
      BY <2>3, ActivityCreateTaskStep, ActivityUpdateTaskStep
  <2>4. ASSUME NEW t \in Todo, NEW r \in Recount, Activity!DeleteTask(t, r)
        PROVE  Activity!IInv'
      BY <2>4, ActivityDeleteTaskStep
  <2>5. ASSUME NEW r \in Recount,
               Activity!Write(r) \/ Activity!Fail(r) \/ \E f \in Activity!Field : Activity!Read(r, f)
        PROVE  Activity!IInv'
      BY <2>5, ActivityWriteStep, ActivityFailStep, ActivityReadStep
  <2> QED
      BY <1>2, <2>1, <2>2, <2>3, <2>4, <2>5 DEF Activity!Next
<1> QED
    BY <1>1, <1>2

LEMMA ActivityProperties == Activity!IInv => Activity!TypeOK /\ Activity!FieldsFollowRows
    BY DEF Activity!IInv, Activity!FieldsFollowRows, Activity!Follows

-----------------------------------------------------------------------------
(* The documents of the search for the CRM.                                *)
(* v1 alive, v2 row, v3 doc, v4 call, v5 import, v6 stale, v7 faults.      *)

IndexRows == [there : BOOLEAN, version : 0..RowVersions]
IndexCalls == [op : {"idle", "read", "upsert", "delete"}, of : Indexed, version : 0..RowVersions]
IndexImports == [on : BOOLEAN, docs : [Indexed -> 0..RowVersions]]

LEMMA IndexTypes ==
    ASSUME Index!Bounds, Index!IInv
    PROVE  /\ v1 \in BOOLEAN /\ v2 \in [Indexed -> IndexRows] /\ v3 \in [Indexed -> 0..RowVersions]
           /\ v4 \in [IndexCall -> IndexCalls]
           /\ v5 \in IndexImports
           /\ v6 \in SUBSET Indexed
           /\ v7 \in 0..IndexFaults
           /\ \A e \in Indexed \ v6 : Index!Follows(e)
    BY DEF Index!IInv, Index!TypeOK, IndexRows, IndexCalls, IndexImports

LEMMA IndexTypesAre ==
    ASSUME v1' \in BOOLEAN,
           v2' \in [Indexed -> IndexRows], v3' \in [Indexed -> 0..RowVersions],
           v4' \in [IndexCall -> IndexCalls], v5' \in IndexImports, v6' \in SUBSET Indexed,
           v7' \in 0..IndexFaults, \A e \in Indexed \ v6' : Index!Follows(e)'
    PROVE  Index!IInv'
    BY DEF Index!IInv, Index!TypeOK, IndexRows, IndexCalls, IndexImports

LEMMA IndexBusyIs == ASSUME NEW e PROVE Index!Busy(e) <=> v5.on \/ Index!On(e) # {}
    BY DEF Index!Busy, Index!On

LEMMA IndexOfIs ==
    ASSUME Index!Bounds, NEW r \in IndexRows
    PROVE  Index!Of(r) \in 0..RowVersions
    BY DEF Index!Bounds, IndexRows, Index!Of

LEMMA IndexIdleIs ==
    ASSUME Index!Bounds
    PROVE  Index!Idle \in IndexCalls /\ Index!Idle.op = "idle"
    BY DEF Index!Bounds, Index!Idle, IndexCalls

LEMMA IndexNoImportIs ==
    ASSUME Index!Bounds
    PROVE  Index!NoImport \in IndexImports /\ ~Index!NoImport.on
    BY DEF Index!Bounds, Index!NoImport, IndexImports

LEMMA IndexInitially == ASSUME Index!Bounds PROVE Index!Init => Index!IInv
<1> SUFFICES ASSUME Index!Init PROVE Index!IInv
    OBVIOUS
<1>1. 0 \in 0..RowVersions /\ 0 \in 0..IndexFaults
    BY DEF Index!Bounds
<1>2. v4 \in [IndexCall -> IndexCalls] /\ \A c \in IndexCall : v4[c].op = "idle"
    BY IndexIdleIs DEF Index!Init
<1>3. v5 \in IndexImports /\ ~v5.on
    BY IndexNoImportIs DEF Index!Init
<1>4. v2 \in [Indexed -> IndexRows] /\ \A e \in Indexed : Index!Of(v2[e]) = 0
    BY <1>1 DEF Index!Init, IndexRows, Index!Of
<1>5. v3 \in [Indexed -> 0..RowVersions] /\ \A e \in Indexed : v3[e] = 0
    BY <1>1 DEF Index!Init
<1>6. \A e \in Indexed : Index!Follows(e)
  <2> TAKE e \in Indexed
  <2>1. Index!On(e) = {}
      BY <1>2 DEF Index!On
  <2> QED
      BY <2>1, <1>3, <1>4, <1>5 DEF Index!Follows
<1> QED
    BY <1>1, <1>2, <1>3, <1>4, <1>5, <1>6 DEF Index!Init, Index!IInv, Index!TypeOK,
       IndexRows, IndexCalls, IndexImports

\* What is true of an entity that nothing happens to stays so.
LEMMA IndexSame ==
    ASSUME NEW e \in Indexed, Index!Follows(e), v2'[e] = v2[e], v3'[e] = v3[e], v5' = v5,
           Index!On(e)' = Index!On(e), \A c \in Index!On(e) : v4'[c] = v4[c]
    PROVE  Index!Follows(e)'
<1>1. Index!Busy(e)' <=> Index!Busy(e)
  <2>1. Index!Busy(e) <=> v5.on \/ Index!On(e) # {}
      BY IndexBusyIs
  <2>2. Index!Busy(e)' <=> v5'.on \/ Index!On(e)' # {}
      BY DEF Index!Busy, Index!On
  <2> QED
      BY <2>1, <2>2
<1> QED
    BY <1>1 DEF Index!Follows

\* A call of an entity moves or begins: it is on its way to that entity alone.
LEMMA IndexOthers ==
    ASSUME Index!Bounds, Index!IInv, NEW c \in IndexCall, NEW w \in IndexCalls,
           v4' = [v4 EXCEPT ![c] = w],
           v4[c].op = "idle" \/ v4[c].of = w.of, NEW e \in Indexed, e # w.of
    PROVE  Index!On(e)' = Index!On(e) /\ \A d \in Index!On(e) : v4'[d] = v4[d]
<1>1. v4'[c] = w /\ \A d \in IndexCall \ {c} : v4'[d] = v4[d]
    BY IndexTypes
<1>2. c \notin Index!On(e) /\ c \notin Index!On(e)'
    BY <1>1 DEF Index!On
<1> QED
    BY <1>1, <1>2 DEF Index!On

\* A row is written and a write is sent that will make the document the row's.
LEMMA IndexSendStep ==
    ASSUME Index!Bounds, Index!IInv, NEW e \in Indexed, NEW c \in IndexCall,
           NEW w \in IndexCalls,
           NEW r \in IndexRows, v2' = [v2 EXCEPT ![e] = r],
           w.of = e, w.op # "idle",
           IF w.op = "read" THEN r.there ELSE w.version = Index!Of(r),
           Index!Send(c, e, w)
    PROVE  Index!IInv'
<1>1. /\ v4' = [v4 EXCEPT ![c] = w] /\ v4[c].op = "idle"
      /\ v6' = IF Index!Busy(e) THEN v6 \cup {e} ELSE v6
      /\ UNCHANGED <<v1, v3, v5, v7>>
    BY DEF Index!Send
<1>2. v4' \in [IndexCall -> IndexCalls] /\ v4'[c] = w /\ \A d \in IndexCall \ {c} : v4'[d] = v4[d]
    BY <1>1, IndexTypes
<1>3. v2' \in [Indexed -> IndexRows] /\ v2'[e] = r /\ \A z \in Indexed \ {e} : v2'[z] = v2[z]
    BY IndexTypes
<1>4. ASSUME NEW z \in Indexed \ v6' PROVE Index!Follows(z)'
  <2>1. z \notin v6 /\ Index!Follows(z)
      BY <1>1, <1>4, IndexTypes
  <2>2. CASE z # e
    <3>1. Index!On(z)' = Index!On(z) /\ \A d \in Index!On(z) : v4'[d] = v4[d]
        BY <1>1, <2>2, IndexOthers
    <3> QED
        BY <1>1, <1>3, <2>1, <2>2, <3>1, IndexSame
  <2>3. CASE z = e
    <3>1. ~Index!Busy(e)
        BY <1>1, <1>4, <2>3
    <3>2. ~v5.on /\ Index!On(e) = {}
        BY <3>1, IndexBusyIs
    <3>3. Index!On(e)' = {c}
        BY <1>2, <3>2 DEF Index!On
    <3>4. Index!Busy(e)'
        BY <3>3 DEF Index!Busy, Index!On
    <3>5. ~v5'.on
        BY <1>1, <3>2
    <3> QED
        BY <1>2, <1>3, <2>3, <3>3, <3>4, <3>5 DEF Index!Follows
  <2> QED
      BY <2>2, <2>3
<1>5. v6' \in SUBSET Indexed
    BY <1>1, IndexTypes
<1> QED
    BY <1>1, <1>2, <1>3, <1>4, <1>5, IndexTypes, IndexTypesAre

LEMMA IndexCreateStep ==
    ASSUME Index!Bounds, Index!IInv, NEW e \in Indexed, NEW c \in IndexCall,
           Index!Create(e, c)
    PROVE  Index!IInv'
<1> DEFINE r == [there |-> TRUE, version |-> 1]
           w == [op |-> "upsert", of |-> e, version |-> 1]
<1>1. 1 \in 0..RowVersions
    BY DEF Index!Bounds
<1>2. /\ r \in IndexRows
      /\ w \in IndexCalls
      /\ w.of = e
      /\ w.op = "upsert"
      /\ w.version = Index!Of(r)
    BY <1>1 DEF IndexRows, IndexCalls, Index!Of
<1>3. v2' = [v2 EXCEPT ![e] = r] /\ Index!Send(c, e, w)
    BY DEF Index!Create
<1> HIDE DEF r, w
<1> QED
    BY <1>2, <1>3, IndexSendStep

\* One more version of a row that is there.
LEMMA IndexNewerIs ==
    ASSUME Index!Bounds, Index!IInv, NEW e \in Indexed, v2[e].there,
           v2[e].version < RowVersions
    PROVE  /\ [v2[e] EXCEPT !.version = @ + 1] \in IndexRows
           /\ [v2[e] EXCEPT !.version = @ + 1].there
           /\ Index!Of([v2[e] EXCEPT !.version = @ + 1]) = v2[e].version + 1
           /\ v2[e].version + 1 \in 0..RowVersions
<1>1. v2[e] \in IndexRows
    BY IndexTypes
<1>2. v2[e].version + 1 \in 0..RowVersions
    BY <1>1 DEF Index!Bounds, IndexRows
<1> QED
    BY <1>1, <1>2 DEF IndexRows, Index!Of

LEMMA IndexUpdateStep ==
    ASSUME Index!Bounds, Index!IInv, NEW e \in Indexed, NEW c \in IndexCall,
           Index!Update(e, c)
    PROVE  Index!IInv'
<1> DEFINE r == [v2[e] EXCEPT !.version = @ + 1]
           w == [op |-> "upsert", of |-> e, version |-> v2[e].version + 1]
<1>1. /\ r \in IndexRows
      /\ Index!Of(r) = v2[e].version + 1
      /\ v2[e].version + 1 \in 0..RowVersions
    BY IndexNewerIs DEF Index!Update
<1>2. w \in IndexCalls /\ w.of = e /\ w.op = "upsert" /\ w.version = v2[e].version + 1
    BY <1>1 DEF IndexCalls
<1>3. v2' = [v2 EXCEPT ![e] = r] /\ Index!Send(c, e, w)
    BY DEF Index!Update
<1> HIDE DEF r, w
<1> QED
    BY <1>1, <1>2, <1>3, IndexSendStep

LEMMA IndexUpdateContactStep ==
    ASSUME Index!Bounds, Index!IInv, NEW e \in Indexed, NEW c \in IndexCall,
           Index!UpdateContact(e, c)
    PROVE  Index!IInv'
<1> DEFINE r == [v2[e] EXCEPT !.version = @ + 1]
           w == [op |-> "read", of |-> e, version |-> 0]
<1>1. r \in IndexRows /\ r.there
    BY IndexNewerIs DEF Index!UpdateContact
<1>2. w \in IndexCalls /\ w.of = e /\ w.op = "read"
    BY DEF IndexCalls, Index!Bounds
<1>3. v2' = [v2 EXCEPT ![e] = r] /\ Index!Send(c, e, w)
    BY DEF Index!UpdateContact
<1> HIDE DEF r, w
<1> QED
    BY <1>1, <1>2, <1>3, IndexSendStep

LEMMA IndexDeleteStep ==
    ASSUME Index!Bounds, Index!IInv, NEW e \in Indexed, NEW c \in IndexCall,
           Index!Delete(e, c)
    PROVE  Index!IInv'
<1> DEFINE r == [v2[e] EXCEPT !.there = FALSE]
           w == [op |-> "delete", of |-> e, version |-> 0]
<1>0. v2[e] \in IndexRows
    BY IndexTypes
<1>1. r \in IndexRows /\ Index!Of(r) = 0
    BY <1>0 DEF IndexRows, Index!Of
<1>2. w \in IndexCalls /\ w.of = e /\ w.op = "delete" /\ w.version = 0
    BY DEF IndexCalls, Index!Bounds
<1>3. v2' = [v2 EXCEPT ![e] = r] /\ Index!Send(c, e, w)
    BY DEF Index!Delete
<1> HIDE DEF r, w
<1> QED
    BY <1>1, <1>2, <1>3, IndexSendStep

LEMMA IndexUnsentStep ==
    ASSUME Index!Bounds, Index!IInv, NEW e \in Indexed, Index!Unsent(e)
    PROVE  Index!IInv'
<1> DEFINE r == [there |-> TRUE, version |-> v2[e].version + 1]
<1>1. v2[e] \in IndexRows
    BY IndexTypes
<1>2. r \in IndexRows
    BY <1>1 DEF Index!Unsent, Index!Bounds, IndexRows
<1>3. v2' = [v2 EXCEPT ![e] = r] /\ v6' = v6 \cup {e}
      /\ UNCHANGED <<v1, v3, v4, v5, v7>>
    BY DEF Index!Unsent
<1> HIDE DEF r
<1>4. v2' \in [Indexed -> IndexRows] /\ \A z \in Indexed \ {e} : v2'[z] = v2[z]
    BY <1>2, <1>3, IndexTypes
<1>5. ASSUME NEW z \in Indexed \ v6' PROVE Index!Follows(z)'
  <2>1. z # e /\ Index!Follows(z)
      BY <1>3, <1>5, IndexTypes
  <2>2. Index!On(z)' = Index!On(z)
      BY <1>3 DEF Index!On
  <2> QED
      BY <1>3, <1>4, <2>1, <2>2, IndexSame
<1> QED
    BY <1>3, <1>4, <1>5, IndexTypes, IndexTypesAre

LEMMA IndexReadBackStep ==
    ASSUME Index!Bounds, Index!IInv, NEW c \in IndexCall, Index!ReadBack(c)
    PROVE  Index!IInv'
<1>1. PICK e \in Indexed : e = v4[c].of
    BY IndexTypes DEF IndexCalls
<1>2. PICK r \in IndexRows : r = v2[e]
    BY IndexTypes
<1>3. PICK j : j = [v4[c] EXCEPT !.op = "upsert"]
    OBVIOUS
<1>4. v4[c] \in IndexCalls /\ v4[c].op = "read"
    BY IndexTypes DEF Index!ReadBack
<1>5. j \in IndexCalls /\ j.op = "upsert" /\ j.of = e
    BY <1>1, <1>3, <1>4 DEF IndexCalls
<1>6. PICK w : w = IF r.there THEN [j EXCEPT !.version = r.version] ELSE Index!Idle
    OBVIOUS
<1>7. /\ w \in IndexCalls
      /\ r.there => w.op = "upsert" /\ w.of = e /\ w.version = Index!Of(r)
      /\ ~r.there => w.op = "idle"
    BY <1>5, <1>6, IndexIdleIs DEF IndexCalls, IndexRows, Index!Of
<1>8. v4' = [v4 EXCEPT ![c] = w] /\ UNCHANGED <<v1, v2, v3, v5, v6, v7>>
    BY <1>1, <1>2, <1>3, <1>4, <1>5, <1>6 DEF Index!ReadBack, IndexCalls
<1>9. v4' \in [IndexCall -> IndexCalls] /\ v4'[c] = w /\ \A d \in IndexCall \ {c} : v4'[d] = v4[d]
    BY <1>7, <1>8, IndexTypes
<1>10. c \in Index!On(e)
    BY <1>1, <1>4 DEF Index!On
<1>11. ASSUME NEW z \in Indexed \ v6 PROVE Index!Follows(z)'
  <2>1. Index!Follows(z)
      BY IndexTypes
  <2>2. CASE z # e
    <3>1. c \notin Index!On(z) /\ c \notin Index!On(z)'
        BY <1>1, <1>7, <1>9, <2>2 DEF Index!On
    <3>2. Index!On(z)' = Index!On(z) /\ \A d \in Index!On(z) : v4'[d] = v4[d]
        BY <1>9, <3>1 DEF Index!On
    <3> QED
        BY <1>8, <2>1, <3>2, IndexSame
  <2>3. CASE z = e
    <3>1. r.there /\ Index!On(e) = {c} /\ ~v5.on
        BY <1>2, <1>4, <1>10, <2>1, <2>3 DEF Index!Follows
    <3>2. Index!On(e)' = {c}
        BY <1>7, <1>9, <3>1 DEF Index!On
    <3>3. Index!Busy(e)'
        BY <3>2 DEF Index!Busy, Index!On
    <3> QED
        BY <1>2, <1>7, <1>8, <1>9, <2>3, <3>1, <3>2, <3>3 DEF Index!Follows
  <2> QED
      BY <2>2, <2>3
<1> QED
    BY <1>8, <1>9, <1>11, IndexTypes, IndexTypesAre

LEMMA IndexArriveStep ==
    ASSUME Index!Bounds, Index!IInv, NEW c \in IndexCall, Index!Arrive(c)
    PROVE  Index!IInv'
<1>1. PICK e \in Indexed : e = v4[c].of
    BY IndexTypes DEF IndexCalls
<1>2. PICK v \in 0..RowVersions : v = v4[c].version
    BY IndexTypes DEF IndexCalls
<1>3. v4[c].op \in {"upsert", "delete"} /\ c \in Index!On(e)
    BY <1>1 DEF Index!Arrive, Index!On
<1>4. /\ v3' = [v3 EXCEPT ![e] = v] /\ v4' = [v4 EXCEPT ![c] = Index!Idle]
      /\ v6' \in {v6, v6 \ {e}}
      /\ e \in v6 /\ e \notin v6' =>
            ~v5.on /\ v = Index!Of(v2[e]) /\ \A d \in IndexCall \ {c} : v4[d].op = "idle" \/ v4[d].of # e
      /\ UNCHANGED <<v1, v2, v5, v7>>
    BY <1>1, <1>2 DEF Index!Arrive
<1>5. v4' \in [IndexCall -> IndexCalls] /\ v4'[c].op = "idle" /\ \A d \in IndexCall \ {c} : v4'[d] = v4[d]
    BY <1>4, IndexIdleIs, IndexTypes
<1>6. v3' \in [Indexed -> 0..RowVersions] /\ v3'[e] = v /\ \A z \in Indexed \ {e} : v3'[z] = v3[z]
    BY <1>4, IndexTypes
<1>7. ASSUME NEW z \in Indexed \ v6' PROVE Index!Follows(z)'
  <2>2. CASE z # e
    <3>1. c \notin Index!On(z) /\ c \notin Index!On(z)'
        BY <1>1, <1>5, <2>2 DEF Index!On
    <3>2. Index!On(z)' = Index!On(z) /\ \A d \in Index!On(z) : v4'[d] = v4[d]
        BY <1>5, <3>1 DEF Index!On
    <3>3. Index!Follows(z)
        BY <1>4, <1>7, <2>2, IndexTypes
    <3> QED
        BY <1>4, <1>6, <2>2, <3>2, <3>3, IndexSame
  <2>3. CASE z = e
    <3>1. ~v5.on /\ v = Index!Of(v2[e]) /\ Index!On(e) = {c}
      <4>1. CASE e \in v6
          BY <1>3, <1>4, <1>7, <2>3, <4>1 DEF Index!On
      <4>2. CASE e \notin v6
        <5>1. Index!Follows(e)
            BY <4>2, IndexTypes
        <5>2. v4[c].op # "read"
            BY <1>3
        <5> QED
            BY <1>2, <1>3, <5>1, <5>2 DEF Index!Follows
      <4> QED
          BY <4>1, <4>2
    <3>2. Index!On(e)' = {}
        BY <1>5, <3>1 DEF Index!On
    <3> QED
        BY <1>4, <1>6, <2>3, <3>1, <3>2 DEF Index!Follows
  <2> QED
      BY <2>2, <2>3
<1>8. v6' \in SUBSET Indexed
    BY <1>4, IndexTypes
<1> QED
    BY <1>4, <1>5, <1>6, <1>7, <1>8, IndexTypes, IndexTypesAre

LEMMA IndexRefusedStep ==
    ASSUME Index!Bounds, Index!IInv, NEW c \in IndexCall, Index!Refused(c)
    PROVE  Index!IInv'
<1>1. /\ v7' = IF TRUE THEN v7 + 1 ELSE v7
      /\ TRUE => v7 < IndexFaults
      /\ v1' = FALSE /\ v6' = v6 \cup {e \in Indexed : Index!Busy(e)}
      /\ v4' = [d \in IndexCall |-> Index!Idle]
      /\ v5' = Index!NoImport
      /\ UNCHANGED <<v2, v3>>
    BY DEF Index!Refused
<1>2. v7' \in 0..IndexFaults
    BY <1>1, IndexTypes DEF Index!Bounds
<1>3. v4' \in [IndexCall -> IndexCalls] /\ \A d \in IndexCall : v4'[d].op = "idle"
    BY <1>1, IndexIdleIs
<1>4. v5' \in IndexImports /\ ~v5'.on
    BY <1>1, IndexNoImportIs
<1>5. ASSUME NEW z \in Indexed \ v6' PROVE Index!Follows(z)'
  <2>1. Index!Follows(z) /\ ~Index!Busy(z)
      BY <1>1, <1>5, IndexTypes
  <2>2. Index!On(z)' = {}
      BY <1>3 DEF Index!On
  <2> QED
      BY <1>1, <1>4, <2>1, <2>2 DEF Index!Follows
<1>6. v6' \in SUBSET Indexed
    BY <1>1, IndexTypes
<1> QED
    BY <1>1, <1>2, <1>3, <1>4, <1>5, <1>6, IndexTypes, IndexTypesAre

LEMMA IndexRestartStep == ASSUME Index!Bounds, Index!IInv, Index!Restart PROVE Index!IInv'
<1>1. v1' = TRUE /\ UNCHANGED <<v2, v3, v4, v5, v6, v7>>
    BY DEF Index!Restart
<1>2. ASSUME NEW z \in Indexed \ v6 PROVE Index!Follows(z)'
    BY <1>1, IndexTypes DEF Index!Follows, Index!On, Index!Busy
<1> QED
    BY <1>1, <1>2, IndexTypes, IndexTypesAre

LEMMA IndexReindexReadStep ==
    ASSUME Index!Bounds, Index!IInv, Index!ReindexRead
    PROVE  Index!IInv'
<1>1. PICK docs : docs = [e \in Indexed |-> Index!Of(v2[e])]
    OBVIOUS
<1>2. docs \in [Indexed -> 0..RowVersions] /\ \A e \in Indexed : docs[e] = Index!Of(v2[e])
    BY <1>1, IndexOfIs, IndexTypes
<1>3. /\ v5' = [on |-> TRUE, docs |-> docs] /\ ~v5.on
      /\ v6' = v6 \cup {e \in Indexed : Index!Busy(e)}
      /\ UNCHANGED <<v1, v2, v3, v4, v7>>
    BY <1>1 DEF Index!ReindexRead
<1>4. v5' \in IndexImports /\ v5'.on /\ v5'.docs = docs
    BY <1>2, <1>3 DEF IndexImports
<1>5. ASSUME NEW z \in Indexed \ v6' PROVE Index!Follows(z)'
  <2>1. Index!Follows(z) /\ ~Index!Busy(z)
      BY <1>3, <1>5, IndexTypes
  <2>2. Index!On(z) = {}
      BY <2>1, IndexBusyIs
  <2>3. Index!On(z)' = {}
      BY <1>3, <2>2 DEF Index!On
  <2>4. v3[z] = Index!Of(v2[z])
      BY <2>1 DEF Index!Follows
  <2>5. Index!Busy(z)'
      BY <1>4 DEF Index!Busy
  <2> QED
      BY <1>2, <1>3, <1>4, <2>3, <2>4, <2>5 DEF Index!Follows
<1>6. v6' \in SUBSET Indexed
    BY <1>3, IndexTypes
<1> QED
    BY <1>3, <1>4, <1>5, <1>6, IndexTypes, IndexTypesAre

LEMMA IndexReindexWriteStep ==
    ASSUME Index!Bounds, Index!IInv, Index!ReindexWrite
    PROVE  Index!IInv'
<1>0. v5.docs \in [Indexed -> 0..RowVersions]
    BY IndexTypes DEF IndexImports
<1>1. /\ v3' = [e \in Indexed |-> IF v5.docs[e] = 0 THEN v3[e] ELSE v5.docs[e]]
      /\ v6' = v6 \ {e \in Indexed : /\ v5.docs[e] # 0
                                     /\ v5.docs[e] = Index!Of(v2[e])
                                     /\ \A c \in IndexCall : v4[c].op = "idle" \/ v4[c].of # e}
      /\ v5.on /\ v5' = Index!NoImport /\ UNCHANGED <<v1, v2, v4, v7>>
    BY DEF Index!ReindexWrite
<1>2. v3' \in [Indexed -> 0..RowVersions]
    BY <1>0, <1>1, IndexTypes
<1>3. v5' \in IndexImports /\ ~v5'.on
    BY <1>1, IndexNoImportIs
<1>4. ASSUME NEW z \in Indexed \ v6' PROVE Index!Follows(z)'
  <2>1. Index!On(z) = {} /\ v3'[z] = Index!Of(v2[z])
    <3>1. CASE z \in v6
      <4>1. v5.docs[z] # 0 /\ v5.docs[z] = Index!Of(v2[z]) /\ Index!On(z) = {}
          BY <1>1, <1>4, <3>1 DEF Index!On
      <4> QED
          BY <1>1, <4>1
    <3>2. CASE z \notin v6
      <4>1. Index!On(z) = {} /\ v5.docs[z] = Index!Of(v2[z]) /\ v3[z] = Index!Of(v2[z])
          BY <1>1, <3>2, IndexTypes DEF Index!Follows
      <4> QED
          BY <1>1, <4>1
    <3> QED
        BY <3>1, <3>2
  <2>2. Index!On(z)' = {}
      BY <1>1, <2>1 DEF Index!On
  <2> QED
      BY <1>1, <1>3, <2>1, <2>2 DEF Index!Follows
<1>5. v6' \in SUBSET Indexed
    BY <1>1, IndexTypes
<1> QED
    BY <1>1, <1>2, <1>3, <1>4, <1>5, IndexTypes, IndexTypesAre

LEMMA IndexInductive ==
    ASSUME Index!Bounds
    PROVE  Index!IInv /\ [Index!Next]_(Index!vars) => Index!IInv'
<1> SUFFICES ASSUME Index!IInv, [Index!Next]_(Index!vars) PROVE Index!IInv'
    OBVIOUS
<1>1. CASE UNCHANGED Index!vars
    BY <1>1 DEF Index!vars, Index!IInv, Index!TypeOK, Index!Follows, Index!On, Index!Busy
<1>2. CASE Index!Next
  <2>1. ASSUME NEW e \in Indexed, NEW c \in IndexCall,
               Index!Create(e, c) \/ Index!Update(e, c) \/ Index!UpdateContact(e, c) \/ Index!Delete(e, c)
        PROVE  Index!IInv'
      BY <2>1, IndexCreateStep, IndexUpdateStep, IndexUpdateContactStep, IndexDeleteStep
  <2>2. ASSUME NEW e \in Indexed, Index!Unsent(e) PROVE Index!IInv'
      BY <2>2, IndexUnsentStep
  <2>3. ASSUME NEW c \in IndexCall, Index!ReadBack(c) \/ Index!Arrive(c) \/ Index!Refused(c)
        PROVE  Index!IInv'
      BY <2>3, IndexReadBackStep, IndexArriveStep, IndexRefusedStep
  <2>4. Index!Restart \/ Index!ReindexRead \/ Index!ReindexWrite => Index!IInv'
      BY IndexRestartStep, IndexReindexReadStep, IndexReindexWriteStep
  <2> QED
      BY <1>2, <2>1, <2>2, <2>3, <2>4 DEF Index!Next
<1> QED
    BY <1>1, <1>2

LEMMA IndexProperties == Index!IInv => Index!TypeOK /\ Index!DocumentFollowsRow
    BY DEF Index!IInv, Index!DocumentFollowsRow, Index!Follows

-----------------------------------------------------------------------------
\* A slot that waits for its document holds none, a matched one holds one and no
\* attachment serves two, however many requests act on slots they read before
\* (transactionDocumentService); and a transaction that was created from milestones
\* has its dates in order, the plan its agent was shown for them and the slots of a
\* complete template (transactionCreationFlowService).
THEOREM TransactionsHold == Spec => []TransactionsConsistent
<1> DEFINE Inv == /\ part = "documents" => Docs!IInv
                  /\ part = "setup" => Setup!IInv
<1>1. Init => Inv
    BY DocsInitially, SetupInitially, TransactionsAssumption DEF Init
<1>2. Inv /\ [Next]_vars => Inv'
    BY Chosen, DocsInductive, SetupInductive, TransactionsAssumption
<1>3. Inv => TransactionsConsistent
    BY SetupProperties, TransactionsAssumption DEF TransactionsConsistent, Docs!IInv
<1> QED
    BY <1>1, <1>2, <1>3, PTL DEF Spec

\* A submission that was dealt with has its contact, a contact has one active track
\* of a side, and it passes from one portal user to another only where two links of
\* it overlapped or the body of an agent's update names the other one
\* (processContactSubmission, syncContactTracks, tryLinkContactToUser, updateContact).
THEOREM ContactsHold == Spec => ContactsWhole
<1> DEFINE Inv == /\ part = "tracks" => Tracks!IInv
                  /\ part = "links" => Links!IInv
<1>1. Init => Inv
    BY TracksInitially, LinksInitially, ContactsAssumption DEF Init
<1>2. Inv /\ [Next]_vars => Inv'
    BY Chosen, TracksInductive, LinksInductive, ContactsAssumption
<1>3. Inv => (part = "links" => Links!SubmissionsLand)
    BY LinksProperties, ContactsAssumption
<1>4. Inv => (part = "tracks" => Tracks!OneActiveTrack)
    BY TracksProperties, ContactsAssumption
<1>5. Inv /\ [Next]_vars => [part = "links" => Links!LinkKept]_<<part, v1, v2, v3, v4, v5, v6>>
    BY Chosen, LinksKept, ContactsAssumption
<1> QED
    BY <1>1, <1>2, <1>3, <1>4, <1>5, PTL DEF Spec, ContactsWhole

\* What is copied from rows comes to be the rows again: the activity fields of a
\* contact and the documents its search reads, but where writes or refreshes overlapped,
\* one was lost with its process, or a row was changed and nothing copies it: an
\* interaction edited or deleted, the old contact of a moved task, and the rows that no
\* document is sent for (contactActivityService, the CRM's search service).
THEOREM CopiesFollow == Spec => []CopiesFollowRows
<1> DEFINE Inv == /\ part = "activity" => Activity!IInv
                  /\ part = "index" => Index!IInv
<1>1. Init => Inv
    BY ActivityInitially, IndexInitially, CopiesAssumption DEF Init
<1>2. Inv /\ [Next]_vars => Inv'
    BY Chosen, ActivityInductive, IndexInductive, CopiesAssumption
<1>3. Inv => CopiesFollowRows
    BY ActivityProperties, IndexProperties, CopiesAssumption DEF CopiesFollowRows
<1> QED
    BY <1>1, <1>2, <1>3, PTL DEF Spec
=============================================================================
