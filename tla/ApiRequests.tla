----------------------------- MODULE ApiRequests -----------------------------
(***************************************************************************)
(* Concurrent requests to the API: authMiddleware and the rate limiter of  *)
(* api/security.go, in the order of Router, the cache of api/server.go     *)
(* with the two answers kept in it (handleTopAddresses and                 *)
(* handleHubEntities), and the label an investigator saves                 *)
(* (handleLabelEntity), here of one address that both answers show.        *)
(*                                                                         *)
(* A process seeds the labels before it serves (SeedKnownEntities).  What  *)
(* a label sets off besides is in ContractAnalysis.  Public paths and      *)
(* preflights pass by and read none of this state.                         *)
(***************************************************************************)
EXTENDS Integers, Sequences, FiniteSetsExt

CONSTANTS
    Request,        \* requests served at once
    Client,         \* what requestIP tells apart
    Path,           \* what is requested: "top", "hubs" or "label"
    Null,           \* no window, no entry, not read
    Limit,          \* RATE_LIMIT_PER_MINUTE
    Minute,         \* length of a window
    Ttl,            \* how long an answer is kept
    MaxWait,        \* how long a request waits for the limiter's lock at most
    MaxLoad,        \* how long a load takes at most
    MaxTime,        \* bound on the clock
    MaxLabels,      \* bound: labels investigators save
    MaxErrors,      \* bound: failing loads
    MaxRestarts     \* bound: restarts of the process

ASSUME ApiAssumption ==
    /\ IsFiniteSet(Request) /\ IsFiniteSet(Client)
    /\ Path \subseteq {"top", "hubs", "label"}
    /\ {Limit, Minute, Ttl} \subseteq Nat \ {0}
    /\ {MaxWait, MaxLoad, MaxTime, MaxLabels, MaxErrors, MaxRestarts} \subseteq Nat
    /\ Null \notin [count : Nat, resetAt : Nat]

VARIABLES
    now,            \* the clock
    windows,        \* rateLimiter.clients: client -> its clientWindow
    cache,          \* Server.cache: path -> answer and when it expires
    known,          \* the row of known_entities
    request,        \* request -> the step it takes next, with its locals
    admitted,       \* history: client -> when it was admitted by this process
    labelled,       \* history: when each label of an investigator was saved
    errors, restarts

apiVars == <<now, windows, cache, known, request, admitted, labelled, errors, restarts>>

Cached == Path \ {"label"}

\* A seeded row carries the release that seeded it, a manual one counts the labels.
Entity == [source : {"seed", "manual"}, number : Nat]

\* The answer shows the label's name and, on hubs, the risk of the address.
Answer == [name : Entity, risk : Entity \cup {Null}]

\* A request that has left: without a result (401, 500) or with nothing to show, refused
\* (429), or answered.
Over == [pc : {"over", "refused"}] \cup [pc : {"answered"}, answer : Answer]

\* at: the clock as the limiter read it, then when the load began.
Open ==
    [pc : {"limit", "lookup", "label", "name", "risk", "store"}, client : Client, path : Path,
     at : Nat, name : Entity \cup {Null}, risk : Entity \cup {Null}]

ApiInit ==
    /\ now = 0
    /\ windows = [c \in Client |-> Null]
    /\ cache = [p \in Cached |-> Null]
    /\ known = [source |-> "seed", number |-> 0]
    /\ request = [r \in Request |-> [pc |-> "over"]]
    /\ admitted = [c \in Client |-> <<>>]
    /\ labelled = <<>>
    /\ errors = 0 /\ restarts = 0

At(r, phase) == request[r].pc = phase

GoTo(r, next) == request' = [request EXCEPT ![r] = next]

Loading(r) == request[r].pc \in {"name", "risk", "store"}

\* No request waits or loads for longer than the bounds say.
ClockTicks ==
    /\ now < MaxTime
    /\ \A r \in Request :
          /\ At(r, "limit") => now < request[r].at + MaxWait
          /\ Loading(r) => now < request[r].at + MaxLoad
    /\ now' = now + 1
    /\ UNCHANGED <<windows, cache, known, request, admitted, labelled, errors, restarts>>
-----------------------------------------------------------------------------
(***************************************************************************)
(* authMiddleware, then the limiter.                                       *)
(***************************************************************************)

Arriving(c, path) ==
    [pc |-> "limit", client |-> c, path |-> path, at |-> now, name |-> Null, risk |-> Null]

\* How many labels are on their way.
Labelling == Cardinality({r \in Request : request[r] \in Open /\ request[r].path = "label"})

\* Without the token a request goes no further; with it the limiter reads the clock, before
\* it has the lock.
Arrive(r, c, path, authorised) ==
    /\ request[r] \in Over
    /\ path = "label" => Len(labelled) + Labelling < MaxLabels
    /\ GoTo(r, IF authorised THEN Arriving(c, path) ELSE [pc |-> "over"])
    /\ UNCHANGED <<now, windows, cache, known, admitted, labelled, errors, restarts>>

Ended(window, time) == window = Null \/ time > window.resetAt

\* Mutants of Counted: the request that starts a window is not counted, and every request
\* starts the minute anew.
CountedNext(window, time) ==
    IF Ended(window, time) THEN [count |-> 0, resetAt |-> time + Minute]
    ELSE [window EXCEPT !.count = Min({@ + 1, Limit + 1})]

CountedAnew(window, time) ==
    [count |-> IF Ended(window, time) THEN 1 ELSE Min({window.count + 1, Limit + 1}),
     resetAt |-> time + Minute]

\* Refused requests count too; counts above the limit are not told apart.
Counted(window, time) ==
    IF Ended(window, time) THEN [count |-> 1, resetAt |-> time + Minute]
    ELSE [window EXCEPT !.count = Min({@ + 1, Limit + 1})]

\* Under the lock.  windows keeps a window of every client it ever saw.
LimitRate(r) ==
    LET q == request[r]
        window == Counted(windows[q.client], q.at)
        allowed == window.count <= Limit
    IN
    /\ At(r, "limit")
    /\ windows' = [windows EXCEPT ![q.client] = window]
    /\ IF allowed
       THEN /\ GoTo(r, [q EXCEPT !.pc = IF q.path = "label" THEN "label" ELSE "lookup"])
            /\ admitted' = [admitted EXCEPT ![q.client] = Append(@, now)]
       ELSE /\ GoTo(r, [pc |-> "refused"])
            /\ UNCHANGED admitted
    /\ UNCHANGED <<now, cache, known, labelled, errors, restarts>>
-----------------------------------------------------------------------------
(***************************************************************************)
(* cached, and the loads it is given.                                      *)
(***************************************************************************)

Answered(entry) == [pc |-> "answered", answer |-> [name |-> entry.name, risk |-> entry.risk]]

Load(q) == [q EXCEPT !.pc = "name", !.at = now]

\* Mutant of Lookup: an answer is used after it expired.
LookupForever(r) ==
    LET entry == cache[request[r].path] IN
    /\ At(r, "lookup")
    /\ GoTo(r, IF entry # Null THEN Answered(entry) ELSE Load(request[r]))
    /\ UNCHANGED <<now, windows, cache, known, admitted, labelled, errors, restarts>>

\* The lock is released for the load: any number of requests may load one path.
Lookup(r) ==
    LET entry == cache[request[r].path] IN
    /\ At(r, "lookup")
    /\ GoTo(r, IF entry # Null /\ now < entry.expires THEN Answered(entry) ELSE Load(request[r]))
    /\ UNCHANGED <<now, windows, cache, known, admitted, labelled, errors, restarts>>

\* Mutants of ReadName: hubs are stored without their risk, and the risk comes first.
ReadNameOnly(r) ==
    /\ At(r, "name")
    /\ GoTo(r, [request[r] EXCEPT !.pc = "store", !.name = known])
    /\ UNCHANGED <<now, windows, cache, known, admitted, labelled, errors, restarts>>

ReadNameLast(r) ==
    /\ At(r, "name")
    /\ GoTo(r, IF request[r].path = "hubs" /\ request[r].risk = Null
               THEN [request[r] EXCEPT !.risk = known]
               ELSE [request[r] EXCEPT !.pc = "store", !.name = known])
    /\ UNCHANGED <<now, windows, cache, known, admitted, labelled, errors, restarts>>

\* TopAddresses is one statement; enrichHubSummaries reads the entities of the hubs, then
\* their risk.
ReadName(r) ==
    /\ At(r, "name")
    /\ GoTo(r, [request[r] EXCEPT !.pc = IF request[r].path = "hubs" THEN "risk" ELSE "store",
                                  !.name = known])
    /\ UNCHANGED <<now, windows, cache, known, admitted, labelled, errors, restarts>>

ReadRisk(r) ==
    /\ At(r, "risk")
    /\ GoTo(r, [request[r] EXCEPT !.pc = "store", !.risk = known])
    /\ UNCHANGED <<now, windows, cache, known, admitted, labelled, errors, restarts>>

\* A failed load is answered with its error and not kept.
FailLoad(r) ==
    /\ At(r, "name") \/ At(r, "risk")
    /\ errors < MaxErrors /\ errors' = errors + 1
    /\ GoTo(r, [pc |-> "over"])
    /\ UNCHANGED <<now, windows, cache, known, admitted, labelled, restarts>>

\* Whoever stores last wins.
StoreAnswer(r) ==
    LET q == request[r] IN
    /\ At(r, "store")
    /\ cache' = [cache EXCEPT ![q.path] = [name |-> q.name, risk |-> q.risk, expires |-> now + Ttl]]
    /\ GoTo(r, Answered(q))
    /\ UNCHANGED <<now, windows, known, admitted, labelled, errors, restarts>>
-----------------------------------------------------------------------------
\* UpsertKnownEntity; cached answers stay.
SaveLabel(r) ==
    /\ At(r, "label")
    /\ known' = [source |-> "manual", number |-> Len(labelled) + 1]
    /\ labelled' = Append(labelled, now)
    /\ GoTo(r, [pc |-> "over"])
    /\ UNCHANGED <<now, windows, cache, admitted, errors, restarts>>

\* A label that an investigator edited is not overwritten.
Seeded(entity, release) ==
    IF entity.source = "seed" THEN [source |-> "seed", number |-> release] ELSE entity

\* A new release: what was in memory is gone, and open requests with it.
Restart ==
    /\ restarts < MaxRestarts /\ restarts' = restarts + 1
    /\ known' = Seeded(known, restarts')
    /\ windows' = [c \in Client |-> Null]
    /\ cache' = [p \in Cached |-> Null]
    /\ request' = [r \in Request |-> [pc |-> "over"]]
    /\ admitted' = [c \in Client |-> <<>>]
    /\ UNCHANGED <<now, labelled, errors>>

Serve(r) ==
    \/ LimitRate(r)
    \/ Lookup(r) \/ ReadName(r) \/ ReadRisk(r) \/ FailLoad(r) \/ StoreAnswer(r)
    \/ SaveLabel(r)

ApiNext ==
    \/ ClockTicks
    \/ \E r \in Request, c \in Client, path \in Path, authorised \in BOOLEAN :
          Arrive(r, c, path, authorised)
    \/ \E r \in Request : Serve(r)
    \/ Restart

ApiSpec == ApiInit /\ [][ApiNext]_apiVars
-----------------------------------------------------------------------------
(***************************************************************************)
(* Properties.                                                             *)
(***************************************************************************)

\* Hubs carry a risk and top addresses do not, in every answer and in the cache.
ApiTypeOK ==
    /\ now \in Nat /\ errors \in Nat /\ restarts \in Nat
    /\ \A c \in Client :
          windows[c] # Null => windows[c].count \in 1 .. (Limit + 1) /\ windows[c].resetAt <= now + Minute
    /\ known \in Entity
    /\ \A p \in Cached : cache[p] # Null =>
          /\ cache[p].name \in Entity /\ cache[p].expires <= now + Ttl
          /\ IF p = "hubs" THEN cache[p].risk \in Entity ELSE cache[p].risk = Null
    /\ \A r \in Request : request[r] \in Open \cup Over

\* How often a client was admitted in the last so many ticks.
AdmittedWithin(c, span) ==
    Cardinality({i \in DOMAIN admitted[c] : admitted[c][i] >= now - span})

\* Around the end of a window a client may get twice its limit, and never more, in a minute:
\* less the time a request may hold a clock reading while it waits for the lock, since a
\* window that starts late ends early.
AtMostTwiceLimit == \A c \in Client : AdmittedWithin(c, Minute - MaxWait) <= 2 * Limit

\* A client is refused only when it had its limit within a minute: neither requests that were
\* refused nor requests without the token keep it out.
RefusedOnlyOverLimit ==
    [][\A r \in Request :
          At(r, "limit") /\ request'[r].pc = "refused" =>
              AdmittedWithin(request[r].client, Minute + MaxWait) >= Limit]_apiVars

\* The labels an investigator saved long enough ago for every answer to show them.
Settled == Cardinality({i \in DOMAIN labelled : labelled[i] < now - (Ttl + MaxLoad)})

Answers(r) == request'[r].pc = "answered" /\ request[r].pc # "answered"

\* An answer shows what investigators saved up to the age of the cache and one load before:
\* loads that overtake each other, answers that are used again and the seed of a new process
\* bring nothing older back.
LabelsVisible ==
    [][\A r \in Request :
          LET name == request'[r].answer.name IN
          Answers(r) /\ Settled > 0 => name.source = "manual" /\ name.number >= Settled]_apiVars

\* No answer shows a label with the risk the address had before it.
RiskKeepsUp ==
    \A p \in Cached :
        cache[p] # Null /\ cache[p].risk # Null /\ cache[p].name.source = "manual" =>
            cache[p].risk.source = "manual" /\ cache[p].risk.number >= cache[p].name.number
=============================================================================
