--------------------------- MODULE ResponseCache ---------------------------
(***************************************************************************)
(* The response cache: the middleware cache() with the keys of cacheSearch *)
(* (apps/api/src/middleware/cache.ts) over the client of packages/cache.   *)
(* Several servers share one Redis.  Each has its own value of the switch  *)
(* MLS_PUBLIC_DISPLAY_ENABLED, changed by restarting it, so that servers   *)
(* of both kinds run while a change is rolled out.                         *)
(*                                                                         *)
(* The flag isConnected follows the events of the connection; commands are *)
(* sent only while it is set.  A command that is out when the connection   *)
(* breaks waits for the next one (maxRetriesPerRequest: null).  Storing a  *)
(* response is not awaited: the request is answered meanwhile.             *)
(***************************************************************************)
EXTENDS Naturals

CONSTANTS
    Server,
    Query,       \* what a search asks for
    Request,
    Connects,    \* whether the program calls connect(); the API server does not
    MaxFaults    \* bound on restarts of servers and breaks of Redis

VARIABLES
    display,     \* server -> the switch it was started with
    up,          \* Redis can be reached
    isConnected, \* server -> the client's flag
    entry,       \* key -> the response stored under it, Nothing when there is none
    req,         \* request -> [step, server, query, got]
    storing,     \* request -> its response is on the way to Redis
    faults

vars == <<display, up, isConnected, entry, req, storing, faults>>

\* A response says whether the search succeeded and whether it holds MLS listings.
Responses == [ok : BOOLEAN, mls : BOOLEAN]
Nothing == [ok |-> FALSE, mls |-> FALSE, none |-> TRUE]
Fresh == [step |-> "new", server |-> CHOOSE s \in Server : TRUE,
          query |-> CHOOSE q \in Query : TRUE, got |-> Nothing]

Keys == Query \X BOOLEAN

\* generateSearchKey: the query, its filters, and the switch of this server.
SearchKey(r) == <<req[r].query, display[req[r].server]>>

Init ==
    /\ display \in [Server -> BOOLEAN]
    /\ up = TRUE
    /\ isConnected = [s \in Server |-> FALSE]
    /\ entry = [k \in Keys |-> Nothing]
    /\ req = [r \in Request |-> Fresh]
    /\ storing = [r \in Request |-> FALSE]
    /\ faults = 0

-----------------------------------------------------------------------------

\* connect(), or the client's own reconnection: the event sets the flag.
Connect(s) ==
    /\ Connects /\ up /\ ~isConnected[s]
    /\ isConnected' = [isConnected EXCEPT ![s] = TRUE]
    /\ UNCHANGED <<display, up, entry, req, storing, faults>>

\* Redis goes away, and may lose what it held.
RedisBreaks ==
    /\ up /\ faults < MaxFaults
    /\ up' = FALSE
    /\ entry' \in {entry, [k \in Keys |-> Nothing]}
    /\ faults' = faults + 1
    /\ UNCHANGED <<display, isConnected, req, storing>>

\* A server hears of its own connection only, whose close or error clears its flag.
Disconnect(s) ==
    /\ isConnected[s]
    /\ isConnected' = [isConnected EXCEPT ![s] = FALSE]
    /\ UNCHANGED <<display, up, entry, req, storing, faults>>

RedisReturns ==
    /\ ~up /\ up' = TRUE
    /\ UNCHANGED <<display, isConnected, entry, req, storing, faults>>

\* A server is restarted with the other value of the switch: its requests, and
\* the responses it was still storing, are gone.
Restart(s) ==
    /\ faults < MaxFaults
    /\ display' = [display EXCEPT ![s] = ~@]
    /\ isConnected' = [isConnected EXCEPT ![s] = FALSE]
    /\ req' = [r \in Request |-> IF req[r].server = s /\ req[r].step \in {"reading", "computing"}
                                 THEN [req[r] EXCEPT !.step = "lost"]
                                 ELSE IF req[r].server = s /\ req[r].step \in {"hit", "answered"}
                                 THEN [req[r] EXCEPT !.step = "past"] ELSE req[r]]
    /\ storing' = [r \in Request |-> storing[r] /\ req[r].server # s]
    /\ faults' = faults + 1
    /\ UNCHANGED <<up, entry>>

\* The lifetime of an entry ends.
Expire(k) ==
    /\ entry[k] # Nothing
    /\ entry' = [entry EXCEPT ![k] = Nothing]
    /\ UNCHANGED <<display, up, isConnected, req, storing, faults>>

-----------------------------------------------------------------------------

\* A search arrives: get() asks Redis, or answers null at once without it.
Arrive(r, s, q) ==
    /\ req[r].step = "new"
    /\ req' = [req EXCEPT ![r] = [step |-> IF isConnected[s] THEN "reading" ELSE "computing",
                                  server |-> s, query |-> q, got |-> Nothing]]
    /\ UNCHANGED <<display, up, isConnected, entry, storing, faults>>

\* Redis answers: a hit is sent as it is, a miss goes on to the search.
Read(r) ==
    LET found == entry[SearchKey(r)] IN
    /\ req[r].step = "reading" /\ up /\ isConnected[req[r].server]
    /\ req' = [req EXCEPT ![r].step = IF found = Nothing THEN "computing" ELSE "hit",
                          ![r].got = found]
    /\ UNCHANGED <<display, up, isConnected, entry, storing, faults>>

\* The command fails or what is stored cannot be parsed: get() answers null.
ReadFails(r) ==
    /\ req[r].step = "reading"
    /\ req' = [req EXCEPT ![r].step = "computing"]
    /\ UNCHANGED <<display, up, isConnected, entry, storing, faults>>

\* res.json stores responses whose status is 2xx, when there is a connection.
Stores(r, response) == response.ok /\ isConnected[req[r].server]

\* The search is done and answered: it shows MLS listings only with the switch
\* on.  Its response sets out for Redis.
Answer(r, response) ==
    /\ req[r].step = "computing"
    /\ response.mls => response.ok /\ display[req[r].server]
    /\ req' = [req EXCEPT ![r].step = "answered", ![r].got = response]
    /\ storing' = [storing EXCEPT ![r] = Stores(r, response)]
    /\ UNCHANGED <<display, up, isConnected, entry, faults>>

\* The response reaches Redis, however late.
Store(r) ==
    /\ storing[r] /\ up /\ isConnected[req[r].server]
    /\ entry' = [entry EXCEPT ![SearchKey(r)] = req[r].got]
    /\ storing' = [storing EXCEPT ![r] = FALSE]
    /\ UNCHANGED <<display, up, isConnected, req, faults>>

\* setex fails: the error is logged.
StoreFails(r) ==
    /\ storing[r]
    /\ storing' = [storing EXCEPT ![r] = FALSE]
    /\ UNCHANGED <<display, up, isConnected, entry, req, faults>>

Next ==
    \/ \E s \in Server : Connect(s) \/ Disconnect(s) \/ Restart(s)
    \/ RedisBreaks \/ RedisReturns
    \/ \E k \in Keys : Expire(k)
    \/ \E r \in Request, s \in Server, q \in Query : Arrive(r, s, q)
    \/ \E r \in Request, response \in Responses : Answer(r, response)
    \/ \E r \in Request : Read(r) \/ ReadFails(r) \/ Store(r) \/ StoreFails(r)

Spec == Init /\ [][Next]_vars

-----------------------------------------------------------------------------

TypeOK ==
    /\ display \in [Server -> BOOLEAN] /\ up \in BOOLEAN
    /\ isConnected \in [Server -> BOOLEAN]
    /\ \A k \in Keys : entry[k] \in Responses \cup {Nothing}
    /\ \A r \in Request :
        /\ req[r].step \in {"new", "reading", "computing", "hit", "answered", "lost", "past"}
        /\ req[r].got \in Responses \cup {Nothing}
    /\ storing \in [Request -> BOOLEAN] /\ faults \in 0..MaxFaults

\* While the switch is rolled out, with every server sharing one cache, a server
\* that runs with the switch off never answers a search with MLS listings that a
\* server with it on computed; and a failed search is never served again from the
\* cache.
SwitchHolds ==
    \A r \in Request :
        /\ req[r].step \in {"hit", "answered"} /\ req[r].got.mls => display[req[r].server]
        /\ req[r].step = "hit" => req[r].got.ok

-----------------------------------------------------------------------------

Requests ==
    [step : {"new", "reading", "computing", "hit", "answered", "lost", "past"},
     server : Server, query : Query, got : Responses \cup {Nothing}]

\* The inductive invariant: a key with the switch off holds no MLS listings, and what
\* is on the way to Redis is what its server, not restarted since, answered.
IInv ==
    /\ TypeOK /\ SwitchHolds
    /\ req \in [Request -> Requests] /\ entry \in [Keys -> Responses \cup {Nothing}]
    /\ \A k \in Keys : entry[k] # Nothing => entry[k].ok /\ (entry[k].mls => k[2])
    /\ \A r \in Request : storing[r] => /\ req[r].step = "answered"
                                        /\ req[r].got \in Responses /\ req[r].got.ok

\* What the constants have to be.
Bounds == Server # {} /\ Query # {} /\ MaxFaults \in Nat

=============================================================================
