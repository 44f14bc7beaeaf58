------------------------ MODULE TransactionDocuments ------------------------
(***************************************************************************)
(* The document slots of one transaction (apps/api) and its Drive folder.  *)
(* Requests await the database, Gmail or Drive between their steps, so     *)
(* they interleave.  TransactionSync discovers the attachments that the    *)
(* slots are matched with; here they just appear.                          *)
(*                                                                         *)
(* The copy of an attachment in Drive is named by the attachment.          *)
(***************************************************************************)
EXTENDS Naturals, FiniteSets

CONSTANTS
    Def,         \* document definitions of the transaction's template
    Custom,      \* stands for the definition of a slot the agent added
    Attachment,  \* attachments of the mails about the transaction
    Request,     \* slots for the agent's requests
    MaxSlots,    \* bound: rows of TransactionDocument
    MaxFaults    \* bound: crashes and failed database calls

Slot == 1..MaxSlots

VARIABLES
    alive,   \* the Transaction row exists
    doc,     \* doc[s]: the TransactionDocument rows
    known,   \* the TransactionDiscoveredAttachment rows
    folder,  \* driveFolderId, 0 for null
    made,    \* history: folders created in Drive
    req,     \* req[c]: a running request
    faults   \* faults so far

rowVars == <<alive, doc, known, folder>>
vars == <<alive, doc, known, folder, made, req, faults>>

-----------------------------------------------------------------------------

NoAtt == "no attachment"

NoDoc == [def |-> Custom, status |-> "NONE", att |-> NoAtt, file |-> NoAtt]

Missing(d) == [def |-> d, status |-> "MISSING", att |-> NoAtt, file |-> NoAtt]

Document == [def: Def \cup {Custom}, status: {"NONE", "MISSING", "MATCHED", "VERIFIED"},
             att: Attachment \cup {NoAtt}, file: Attachment \cup {NoAtt}]

OnDoc == {"match", "unmatch", "verify", "delete", "folder", "make", "store", "upload"}

Idle == [pc |-> "idle", slot |-> 0, att |-> NoAtt, was |-> NoAtt, mine |-> 0]

Requests == [pc: {"idle", "create"} \cup OnDoc, slot: 0..MaxSlots,
             att: Attachment \cup {NoAtt}, was: Attachment \cup {NoAtt}, mine: Nat]

TypeOK ==
    /\ alive \in BOOLEAN
    /\ doc \in [Slot -> Document]
    /\ known \subseteq Attachment
    /\ folder \in Nat /\ made \in Nat
    /\ req \in [Request -> Requests]
    /\ \A c \in Request : req[c].pc \in OnDoc => req[c].slot \in Slot
    /\ faults \in Nat

Init ==
    /\ alive = TRUE
    /\ doc = [s \in Slot |-> NoDoc]
    /\ known = {}
    /\ folder = 0 /\ made = 0
    /\ req = [c \in Request |-> Idle]
    /\ faults = 0

Exists(s) == doc[s].status # "NONE"

Free == {s \in Slot : ~Exists(s)}

\* A request ends, whatever it found.
Answer(c) == req' = [req EXCEPT ![c] = Idle]

\* It goes on to pc with the row and attachment it has read.
Goes(c, pc, s, a) ==
    req' = [req EXCEPT ![c] = [pc |-> pc, slot |-> s, att |-> a, was |-> doc[s].att, mine |-> 0]]

\* The update of one row by its id; it rejects when the row is gone.
Update(s, d) == doc' = IF Exists(s) THEN [doc EXCEPT ![s] = d] ELSE doc

-----------------------------------------------------------------------------

\* ensureTransactionDocumentsForTransaction, called by every reading of the
\* documents: a look, then the rows of all definitions at once.
CountSlots(c) ==
    /\ req[c].pc = "idle" /\ alive /\ Def # {}
    /\ Free = Slot
    /\ req' = [req EXCEPT ![c].pc = "create"]
    /\ UNCHANGED <<rowVars, made, faults>>

CreateSlots(c) ==
    /\ req[c].pc = "create"
    /\ \/ /\ alive
          /\ \E f \in [Def -> Free] :
                /\ \A d, e \in Def : f[d] = f[e] => d = e
                /\ \A d \in Def, s \in Free : s < f[d] => \E e \in Def : f[e] = s
                /\ doc' = [s \in Slot |-> IF \E d \in Def : f[d] = s
                                          THEN Missing(CHOOSE d \in Def : f[d] = s) ELSE doc[s]]
       \/ /\ ~alive \/ Cardinality(Free) < Cardinality(Def)
          /\ UNCHANGED doc
    /\ Answer(c)
    /\ UNCHANGED <<alive, known, folder, made, faults>>

\* addCustomDocument.
AddCustom ==
    /\ alive
    /\ \E s \in Free :
          /\ \A t \in Free : s <= t
          /\ doc' = [doc EXCEPT ![s] = Missing(Custom)]
    /\ UNCHANGED <<alive, known, folder, made, req, faults>>

\* matchDocumentToAttachment reads the slot and the attachment.
MatchCheck(c, s, a) ==
    /\ req[c].pc = "idle"
    /\ doc[s].status \in {"MISSING", "MATCHED"} /\ a \in known
    /\ \A t \in Slot \ {s} : doc[t].att # a
    /\ Goes(c, "match", s, a)
    /\ UNCHANGED <<rowVars, made, faults>>

\* Mutant: the slot that lost the attachment keeps its status.
Match_KeepsOther(c) ==
    LET s == req[c].slot
        a == req[c].att
    IN  /\ req[c].pc = "match"
        /\ doc' = IF ~Exists(s) THEN doc
                  ELSE [t \in Slot |->
                          IF t = s THEN [doc[s] EXCEPT !.att = a, !.status = "MATCHED"]
                          ELSE IF doc[t].att = a THEN [doc[t] EXCEPT !.att = NoAtt]
                          ELSE doc[t]]
        /\ Answer(c)
        /\ UNCHANGED <<alive, known, folder, made, faults>>

\* Its transaction: what the slot held when it was read is let go, as is any
\* other slot of the attachment.
Match(c) ==
    LET s    == req[c].slot
        a    == req[c].att
        kept == IF req[c].was \in {NoAtt, a} THEN doc[s].file ELSE NoAtt
    IN  /\ req[c].pc = "match"
        /\ doc' = IF ~Exists(s) THEN doc
                  ELSE [t \in Slot |->
                          IF t = s THEN [doc[s] EXCEPT !.att = a, !.status = "MATCHED", !.file = kept]
                          ELSE IF doc[t].att = a /\ a # NoAtt THEN Missing(doc[t].def)
                          ELSE doc[t]]
        /\ Answer(c)
        /\ UNCHANGED <<alive, known, folder, made, faults>>

\* The requests that look at one slot before they write it.
Begin(c, s, pc) ==
    /\ req[c].pc = "idle" /\ Exists(s)
    /\ pc = "verify" => doc[s].status = "MATCHED" /\ doc[s].att # NoAtt
    /\ pc = "delete" => doc[s].def = Custom
    /\ pc = "folder" => doc[s].att # NoAtt
    /\ Goes(c, pc, s, doc[s].att)
    /\ UNCHANGED <<rowVars, made, faults>>

Unmatch(c) ==
    /\ req[c].pc = "unmatch"
    /\ Update(req[c].slot, Missing(doc[req[c].slot].def))
    /\ Answer(c)
    /\ UNCHANGED <<alive, known, folder, made, faults>>

\* verifyDocument writes the status by id alone.
Verify(c) ==
    /\ req[c].pc = "verify"
    /\ Update(req[c].slot, [doc[req[c].slot] EXCEPT !.status = "VERIFIED"])
    /\ Answer(c)
    /\ UNCHANGED <<alive, known, folder, made, faults>>

Delete(c) ==
    /\ req[c].pc = "delete"
    /\ Update(req[c].slot, NoDoc)
    /\ Answer(c)
    /\ UNCHANGED <<alive, known, folder, made, faults>>

-----------------------------------------------------------------------------

\* getOrCreateTransactionFolder: the folder of the row, if it has one.
FindFolder(c) ==
    /\ req[c].pc = "folder" /\ alive
    /\ req' = [req EXCEPT ![c].pc = IF folder = 0 THEN "make" ELSE "upload"]
    /\ UNCHANGED <<rowVars, made, faults>>

\* Drive creates it ...
MakeFolder(c) ==
    /\ req[c].pc = "make"
    /\ made' = made + 1
    /\ req' = [req EXCEPT ![c].pc = "store", ![c].mine = made + 1]
    /\ UNCHANGED <<rowVars, faults>>

\* ... and the row remembers it.
StoreFolder(c) ==
    /\ req[c].pc = "store" /\ alive
    /\ folder' = req[c].mine
    /\ req' = [req EXCEPT ![c].pc = "upload"]
    /\ UNCHANGED <<alive, doc, known, made, faults>>

\* The attachment is uploaded and the slot names its copy.
FinishCopy(c) ==
    LET s == req[c].slot
    IN  /\ req[c].pc = "upload"
        /\ Update(s, [doc[s] EXCEPT !.file = req[c].att])
        /\ Answer(c)
        /\ UNCHANGED <<alive, known, folder, made, faults>>

\* Google refuses or a token is missing, a statement finds its row gone: the
\* request is answered with an error.
Refused(c) ==
    /\ \/ req[c].pc \in {"folder", "make", "upload"}
       \/ req[c].pc = "store" /\ ~alive
    /\ Answer(c)
    /\ UNCHANGED <<rowVars, made, faults>>

\* A database call of a request fails, or its process ends.
Abort(c) ==
    /\ req[c].pc # "idle" /\ faults < MaxFaults
    /\ faults' = faults + 1
    /\ Answer(c)
    /\ UNCHANGED <<rowVars, made>>

\* A sync run stores an attachment.
Discover(a) ==
    /\ alive /\ a \notin known
    /\ known' = known \cup {a}
    /\ UNCHANGED <<alive, doc, folder, made, req, faults>>

\* deleteTransaction takes every row of it along.
DeleteTransaction ==
    /\ alive
    /\ alive' = FALSE
    /\ doc' = [s \in Slot |-> NoDoc]
    /\ known' = {}
    /\ folder' = 0
    /\ UNCHANGED <<made, req, faults>>

-----------------------------------------------------------------------------

Serve(c) ==
    \/ CountSlots(c) \/ CreateSlots(c) \/ Match(c) \/ Unmatch(c) \/ Verify(c) \/ Delete(c)
    \/ FindFolder(c) \/ MakeFolder(c) \/ StoreFolder(c) \/ FinishCopy(c)
    \/ Refused(c) \/ Abort(c)

Next ==
    \/ \E c \in Request : Serve(c)
    \/ \E c \in Request, s \in Slot :
          \/ \E a \in Attachment : MatchCheck(c, s, a)
          \/ \E pc \in {"unmatch", "verify", "delete", "folder"} : Begin(c, s, pc)
    \/ \E a \in Attachment : Discover(a)
    \/ AddCustom \/ DeleteTransaction

Spec == Init /\ [][Next]_vars

-----------------------------------------------------------------------------

\* A slot that waits for its document holds none, one that is matched holds
\* one, and no attachment serves two slots, whatever stale checks the requests
\* act on. (A slot may lose its attachment between the check and the write of
\* verifyDocument, so VERIFIED promises nothing.)
SlotsConsistent ==
    /\ \A s \in Slot : doc[s].status = "MISSING" => doc[s].att = NoAtt
    /\ \A s \in Slot : doc[s].status = "MATCHED" => doc[s].att # NoAtt
    /\ \A s, t \in Slot : s # t /\ doc[s].att = doc[t].att => doc[s].att = NoAtt

\* Drive gets one folder, and beyond it only one for each request that looked
\* before another's id was stored, or was lost before it could store its own.
FoldersBounded == made <= Cardinality(Request) + faults

-----------------------------------------------------------------------------

\* A matching request carries an attachment.
MatchHas == \A c \in Request : req[c].pc = "match" => req[c].att \in Attachment

\* The inductive invariant of the slots.
IInv == TypeOK /\ MatchHas /\ SlotsConsistent

\* The requests that found no folder, before and after they made one.
Making == {c \in Request : req[c].pc = "make"}
Storing == {c \in Request : req[c].pc = "store"}

\* What the folders need: as long as the row has none, each that was made is
\* about to be stored or was lost with its request.
FolderInv ==
    /\ \A c \in Storing : req[c].mine # 0
    /\ alive /\ folder = 0 => made <= Cardinality(Storing) + faults
    /\ made + Cardinality(Making) <= Cardinality(Request) + faults

\* What the constants have to be.
Bounds ==
    /\ NoAtt \notin Attachment /\ MaxSlots \in Nat /\ MaxFaults \in Nat
    /\ IsFiniteSet(Request)

=============================================================================
