---------------------------- MODULE TokenRefresh ----------------------------
(***************************************************************************)
(* The bearer token of the MLS provider (OAuth2ClientCredentialsAuth).     *)
(* Requests that find it expired share one call of the token endpoint: the *)
(* promise of it is kept in `inflight` and cleared once it is settled.     *)
(* Those who wait go on a moment later, each writing `cached` again, and   *)
(* others may ask in between.                                              *)
(***************************************************************************)
EXTENDS Naturals

CONSTANTS
    Caller,      \* requests to the provider that may be under way
    Life,        \* how long a token counts as valid: expires_in less the buffer
    MaxTime,
    MaxCalls     \* bound on the calls of the token endpoint

VARIABLES
    now,
    cached,      \* [of, expires]: the call that brought the token, 0 for none
    inflight,    \* the call whose promise is kept, 0 for none
    call,        \* call -> [state, expires]: "new", "out", "failed" or "token", and when that expires
    caller       \* caller -> [step, of]: what it waits for or was given

vars == <<now, cached, inflight, call, caller>>

Calls == 1..MaxCalls
NoToken == [of |-> 0, expires |-> 0]
Idle == [step |-> "idle", of |-> 0]
NotOut == [state |-> "new", expires |-> 0]

\* The calls of the token endpoint that have not been answered.
Out == {n \in Calls : call[n].state = "out"}

Init ==
    /\ now = 1
    /\ cached = NoToken /\ inflight = 0
    /\ call = [n \in Calls |-> NotOut]
    /\ caller = [c \in Caller |-> Idle]

-----------------------------------------------------------------------------

\* Time passes while nobody has a settled promise to go on from.
Tick ==
    /\ now < MaxTime
    /\ \A c \in Caller : caller[c].step = "waiting" => caller[c].of \in Out
    /\ now' = now + 1
    /\ UNCHANGED <<cached, inflight, call, caller>>

Valid(token) == token.of # 0 /\ token.expires > now

\* A header from the token that is there.
UseCached(c) ==
    /\ caller[c].step # "waiting" /\ Valid(cached)
    /\ caller' = [caller EXCEPT ![c] = [step |-> "sent", of |-> cached.of]]
    /\ UNCHANGED <<now, cached, inflight, call>>

\* A call n is made, and its promise kept.
Calling(c, n) ==
    /\ call[n].state = "new" /\ \A k \in Calls : k < n => call[k].state # "new"
    /\ call' = [call EXCEPT ![n].state = "out"]
    /\ inflight' = n
    /\ caller' = [caller EXCEPT ![c] = [step |-> "waiting", of |-> n]]

\* The call under way is shared; without one, a call is made.
Ask(c) ==
    /\ caller[c].step # "waiting" /\ ~Valid(cached)
    /\ IF inflight # 0
       THEN /\ caller' = [caller EXCEPT ![c] = [step |-> "waiting", of |-> inflight]]
            /\ UNCHANGED <<inflight, call>>
       ELSE \E n \in Calls : Calling(c, n)
    /\ UNCHANGED <<now, cached>>

\* Mutant: only a call that succeeds is cleared.
Answer_Sticks(n, ok) ==
    /\ call[n].state = "out"
    /\ call' = [call EXCEPT ![n] = IF ok THEN [state |-> "token", expires |-> now + Life]
                                   ELSE [state |-> "failed", expires |-> 0]]
    /\ inflight' = IF ok THEN 0 ELSE inflight
    /\ UNCHANGED <<now, cached, caller>>

\* The endpoint answers or fails; either way the promise is cleared.
Answer(n, ok) ==
    /\ call[n].state = "out"
    /\ call' = [call EXCEPT ![n] = IF ok THEN [state |-> "token", expires |-> now + Life]
                                   ELSE [state |-> "failed", expires |-> 0]]
    /\ inflight' = 0
    /\ UNCHANGED <<now, cached, caller>>

\* One who waited goes on: with the token, which becomes the cached one, or with
\* the error.
Resume(c) ==
    LET n == caller[c].of IN
    /\ caller[c].step = "waiting" /\ n \notin Out
    /\ IF call[n].state = "token"
       THEN /\ cached' = [of |-> n, expires |-> call[n].expires]
            /\ caller' = [caller EXCEPT ![c].step = "sent"]
       ELSE caller' = [caller EXCEPT ![c].step = "failed"] /\ UNCHANGED cached
    /\ UNCHANGED <<now, inflight, call>>

Next ==
    \/ Tick
    \/ \E c \in Caller : UseCached(c) \/ Ask(c) \/ Resume(c)
    \/ \E n \in Calls, ok \in BOOLEAN : Answer(n, ok)

Spec == Init /\ [][Next]_vars

-----------------------------------------------------------------------------

TypeOK ==
    /\ now \in 1..MaxTime
    /\ cached.of \in {0} \cup Calls
    /\ inflight \in {0} \cup Calls
    /\ \A n \in Calls : call[n].state \in {"new", "out", "failed", "token"}
    /\ \A c \in Caller : caller[c].step \in {"idle", "waiting", "sent", "failed"}

\* However many requests find the token expired, at most one call of the token
\* endpoint is under way; a promise that is kept is of a call under way, so that
\* no request shares a failure of before it asked; and whoever has a header has
\* it from a call that brought a token.
SingleFlight ==
    /\ \A m, n \in Out : m = n
    /\ inflight # 0 => inflight \in Out
    /\ \A c \in Caller : caller[c].step = "sent" => call[caller[c].of].state = "token"

-----------------------------------------------------------------------------

State == {"new", "out", "failed", "token"}

\* A call that is out is the one whose promise is kept.
Kept == \A n \in Out : inflight = n

\* Whoever waits, waits for a call that was made; a header is of a token.
Settled ==
    \A c \in Caller :
        /\ caller[c].step = "waiting" => caller[c].of \in Calls /\ call[caller[c].of].state # "new"
        /\ caller[c].step = "sent" => caller[c].of \in Calls /\ call[caller[c].of].state = "token"

\* The inductive invariant.
IInv ==
    /\ call \in [Calls -> [state : State, expires : Nat]]
    /\ caller \in [Caller -> [step : {"idle", "waiting", "sent", "failed"}, of : {0} \cup Calls]]
    /\ cached \in [of : {0} \cup Calls, expires : Nat]
    /\ now \in 1..MaxTime
    /\ inflight # 0 => inflight \in Out
    /\ cached.of # 0 => call[cached.of].state = "token"
    /\ Kept /\ Settled

\* What the constants have to be.
Bounds == Life \in Nat /\ MaxTime \in Nat \ {0} /\ MaxCalls \in Nat

=============================================================================
