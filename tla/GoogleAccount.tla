---------------------------- MODULE GoogleAccount ----------------------------
(***************************************************************************)
(* The Google account an agent has connected (apps/api) and the tokens     *)
(* stored for it.  Every call of Gmail, Calendar and Drive first asks for  *)
(* an access token, refreshing one that is about to expire; meanwhile the  *)
(* agent may disconnect, or connect again, with another account.           *)
(***************************************************************************)
EXTENDS Naturals, FiniteSets

CONSTANTS
    Account,   \* Google accounts of the agent
    Request,   \* slots for requests
    MaxRows    \* bound: ConnectedAccount rows ever created

Nobody == "nobody"

VARIABLES
    row,    \* the ConnectedAccount row of the agent; id 0 for none
    rows,   \* rows created so far
    req,    \* req[c]: a running request
    mixed   \* history: an authorization overlapped a refresh of the same row,
            \* or came without a refresh token for a row of another account

vars == <<row, rows, req, mixed>>

-----------------------------------------------------------------------------

Owner == Account \cup {Nobody}

\* Tokens are told apart by whose they are.
NoRow == [id |-> 0, account |-> Nobody, access |-> Nobody, fresh |-> FALSE, refresh |-> Nobody]

Row == [id: 0..MaxRows, account: Owner, access: Owner, fresh: BOOLEAN, refresh: Owner]

Idle == [pc |-> "idle", id |-> 0, token |-> Nobody, refresh |-> Nobody]

\* authorizing: the code was exchanged and the row looked up.
Pc == {"idle", "refresh", "save", "call", "authorizing", "revoke"}

TypeOK ==
    /\ row \in Row
    /\ rows \in 0..MaxRows
    /\ req \in [Request -> [pc: Pc, id: 0..MaxRows, token: Owner, refresh: Owner]]
    /\ mixed \in BOOLEAN

Init ==
    /\ row = NoRow
    /\ rows = 0
    /\ req = [c \in Request |-> Idle]
    /\ mixed = FALSE

At(c, pc) == req[c].pc = pc

Answer(c) == req' = [req EXCEPT ![c] = Idle]

\* A refresh of the row id is on its way.
Refreshing(id) == \E c \in Request : req[c].pc \in {"refresh", "save"} /\ req[c].id = id

-----------------------------------------------------------------------------

\* getAuthorizedAccount: the stored access token while it is fresh, else a
\* refresh, which needs a refresh token; without an account there is an error.
Authorize(c) ==
    /\ At(c, "idle") /\ row.id # 0
    /\ row.fresh \/ row.refresh # Nobody
    /\ req' = [req EXCEPT ![c] =
                 [pc |-> IF row.fresh THEN "call" ELSE "refresh", id |-> row.id,
                  token |-> IF row.fresh THEN row.access ELSE Nobody, refresh |-> row.refresh]]
    /\ UNCHANGED <<row, rows, mixed>>

\* Google answers with an access token of the account that was read, or it
\* refuses.
Refresh(c) ==
    /\ At(c, "refresh")
    /\ \/ req' = [req EXCEPT ![c].pc = "save", ![c].token = req[c].refresh]
       \/ Answer(c)
    /\ UNCHANGED <<row, rows, mixed>>

\* Mutant: the tokens are saved for the agent's row, whichever it is now.
SaveTokens_ByAgent(c) ==
    /\ At(c, "save")
    /\ IF row.id # 0
       THEN /\ \E fresh \in BOOLEAN : row' = [row EXCEPT !.access = req[c].token, !.fresh = fresh]
            /\ req' = [req EXCEPT ![c].pc = "call"]
       ELSE Answer(c) /\ UNCHANGED row
    /\ UNCHANGED <<rows, mixed>>

\* saveTokensForAccount, by the id of the row that was read; an answer without
\* a lifetime leaves a token that is never fresh. The update rejects when the
\* row is gone.
SaveTokens(c) ==
    /\ At(c, "save")
    /\ IF row.id = req[c].id
       THEN /\ \E fresh \in BOOLEAN : row' = [row EXCEPT !.access = req[c].token, !.fresh = fresh]
            /\ req' = [req EXCEPT ![c].pc = "call"]
       ELSE Answer(c) /\ UNCHANGED row
    /\ UNCHANGED <<rows, mixed>>

\* The call itself, then lastSyncedAt or a sync token in the row, if there
\* still is one.
Call(c) ==
    /\ At(c, "call")
    /\ Answer(c)
    /\ UNCHANGED <<row, rows, mixed>>

-----------------------------------------------------------------------------

\* completeOAuthCallback exchanges the code for tokens of account a, perhaps
\* without a refresh token, and looks the row up.
Exchange(c, a) ==
    /\ At(c, "idle")
    /\ \E refresh \in {a, row.refresh} :
          req' = [req EXCEPT ![c] = [pc |-> "authorizing", id |-> row.id, token |-> a,
                                     refresh |-> refresh]]
    /\ UNCHANGED <<row, rows, mixed>>

\* It updates the row it found, or creates one; the update rejects when the
\* row is gone, the creation when there is one already.
Connect(c) ==
    LET id == IF req[c].id = 0 THEN rows + 1 ELSE req[c].id
    IN  /\ At(c, "authorizing")
        /\ \/ /\ row.id = req[c].id
              /\ req[c].id = 0 => rows < MaxRows
              /\ row' = [id |-> id, account |-> req[c].token, access |-> req[c].token,
                         fresh |-> TRUE, refresh |-> req[c].refresh]
              /\ rows' = IF req[c].id = 0 THEN rows + 1 ELSE rows
              /\ mixed' = (mixed \/ Refreshing(row.id) \/ req[c].refresh \notin {req[c].token, Nobody})
           \/ /\ row.id # req[c].id
              /\ UNCHANGED <<row, rows, mixed>>
        /\ Answer(c)

\* disconnectGoogleAccount revokes the token, come what may, ...
Disconnect(c) ==
    /\ At(c, "idle") /\ row.id # 0
    /\ req' = [req EXCEPT ![c] = [Idle EXCEPT !.pc = "revoke", !.id = row.id]]
    /\ UNCHANGED <<row, rows, mixed>>

\* ... and deletes the row it found.
Delete(c) ==
    /\ At(c, "revoke")
    /\ row' = IF row.id = req[c].id THEN NoRow ELSE row
    /\ Answer(c)
    /\ UNCHANGED <<rows, mixed>>

\* The access token comes near its end.
Expire ==
    /\ row.fresh
    /\ row' = [row EXCEPT !.fresh = FALSE]
    /\ UNCHANGED <<rows, req, mixed>>

\* A failed call, or the end of the process.
Fail(c) ==
    /\ ~At(c, "idle")
    /\ Answer(c)
    /\ UNCHANGED <<row, rows, mixed>>

Next ==
    \/ \E c \in Request :
          \/ Authorize(c) \/ Refresh(c) \/ SaveTokens(c) \/ Call(c)
          \/ Connect(c) \/ Disconnect(c) \/ Delete(c) \/ Fail(c)
          \/ \E a \in Account : Exchange(c, a)
    \/ Expire

Spec == Init /\ [][Next]_vars

-----------------------------------------------------------------------------

\* The stored tokens belong to the account the agent is shown, whatever calls,
\* disconnections and connections overlap: a refresh of a row that was deleted
\* since cannot write its token into the row of the next account. There are
\* two exceptions: a refresh under way while the same row is authorized anew,
\* and an authorization of another account without a refresh token, which
\* keeps the old one.
TokensOfAccount ==
    ~mixed => row.access \in {row.account, Nobody} /\ row.refresh \in {row.account, Nobody}

-----------------------------------------------------------------------------

Requests == [pc : Pc, id : 0..MaxRows, token : Owner, refresh : Owner]

\* Ids are given in turn, and never again.
Ids ==
    /\ row.id <= rows
    /\ \A c \in Request : req[c].id <= rows
    /\ \A c \in Request : req[c].pc \in {"refresh", "save"} => req[c].id # 0

\* A refresh of the row that is stored is of the account it shows.
Own ==
    \A c \in Request :
        req[c].id = row.id =>
            /\ req[c].pc = "refresh" => req[c].refresh = row.account
            /\ req[c].pc = "save" => req[c].token = row.account

\* The inductive invariant.
IInv == TypeOK /\ Ids /\ TokensOfAccount /\ (~mixed => Own)

=============================================================================
