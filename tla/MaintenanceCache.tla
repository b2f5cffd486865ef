--------------------------- MODULE MaintenanceCache ---------------------------
(***************************************************************************)
(* fetchStoreMaintenanceInfo of web_app/src/lib/storeMaintenance.ts: the   *)
(* two maps of the server process that every page render shares, one of    *)
(* values with an expiry, one of fetches in flight.  A call answers from   *)
(* the values it finds; for the keys it misses it joins the fetch already  *)
(* in flight for exactly these keys, or starts one.  When a fetch ends,    *)
(* storing its result and waking the callers that wait for it is one step: *)
(* only microtasks run between them.                                       *)
(*                                                                         *)
(* A value is abstracted to the version of the setting it shows, since the *)
(* code never looks at it; the backend, with the times its versions were   *)
(* replaced, is external.  A fetch in flight is named by the caller that   *)
(* started it.  Time is in ticks.                                          *)
(***************************************************************************)
EXTENDS Integers, Sequences, FiniteSets

CONSTANTS
  Keys,       \* StoreMaintenanceKey
  Callers,    \* renders of a page
  Asks,       \* the sets of keys callers ask for
  Default,    \* DEFAULT_MAINTENANCE_INFO
  Simulated,  \* buildSimulatedMaintenanceResponse
  TTL,        \* DEFAULT_CACHE_TTL_MS
  Timeout,    \* DEFAULT_MAINTENANCE_TIMEOUT_MS
  MaxTime,    \* bound: no call and no change after it
  MaxChanges  \* bound: changes of each key

ASSUME AsksAssumption == Asks \subseteq (SUBSET Keys) \ {{}}
ASSUME TimesAssumption == TTL \in Nat \ {0} /\ Timeout \in Nat \ {0}
ASSUME ValuesAssumption == Default \notin Int /\ Simulated \notin Int /\ Default # Simulated

VARIABLES
  now,      \* Date.now()
  retired,  \* backend: for each key, when each earlier version was replaced
  call,     \* what each caller asked, and its answer
  cache,    \* maintenanceCache
  fetch,    \* pendingMaintenanceRequests, by the caller that started each
  waits     \* the fetch a caller awaits, by the caller that started it

vars == <<now, retired, call, cache, fetch, waits>>

Answers == INSTANCE MaintenanceAnswers WITH Bound <- TTL + Timeout

\* A bug: the backend reads a replica that lags.
Lagging(k) == Len(retired[k]) - 1

Current(k) == Len(retired[k])
Nothing == [k \in {} |-> Default]
Idle == [pc |-> "idle", keys |-> {}, answer |-> Nothing]
NoFetch == [keys |-> {}, sent |-> 0, got |-> Nothing]
InFlight(c) == fetch[c].keys # {}
Served(c) == DOMAIN fetch[c].got # {}

Init ==
  /\ now = 0
  /\ retired = [k \in Keys |-> <<>>]
  /\ call = [c \in Callers |-> Idle]
  /\ cache = [k \in Keys |-> [value |-> Default, expires |-> 0, by |-> {}]]
  /\ fetch = [c \in Callers |-> NoFetch]
  /\ waits = [c \in Callers |-> c]

-----------------------------------------------------------------------------
(* The cache, as a function m from keys to entries. *)

\* A bug: the expiry is not looked at.
CachedForever(m, k) == m[k].expires > 0

Cached(m, k) == now < m[k].expires

\* normalizeMaintenancePayload of snapshotMaintenanceValues
Snapshot(m, ks) == [k \in ks |-> IF Cached(m, k) THEN m[k].value ELSE Default]

Missing(ks) == {k \in ks : ~ Cached(cache, k)}

\* A bug: every call starts a fetch of its own.
NoPending(ks) == {}

\* The fetches in flight for exactly these keys.
Pending(ks) == {c \in Callers : fetch[c].keys = ks}

\* A bug: entries are dated when the call was made.
ExpiryFromCall(c) == fetch[c].sent + TTL

\* Entries are dated at the end of the fetch.
Expiry(c) == now + TTL

-----------------------------------------------------------------------------
(* One call of fetchStoreMaintenanceInfo. *)

CallCached(c, ks) ==
  /\ call' = [call EXCEPT ![c] = [pc |-> "answered", keys |-> ks, answer |-> Snapshot(cache, ks)]]
  /\ UNCHANGED <<fetch, waits>>

CallJoins(c, ks) ==
  /\ call' = [call EXCEPT ![c] = [Idle EXCEPT !.pc = "waiting", !.keys = ks]]
  /\ \E d \in Pending(Missing(ks)) : waits' = [waits EXCEPT ![c] = d]
  /\ UNCHANGED fetch

CallFetches(c, ks) ==
  /\ call' = [call EXCEPT ![c] = [Idle EXCEPT !.pc = "waiting", !.keys = ks]]
  /\ waits' = [waits EXCEPT ![c] = c]
  /\ fetch' = [fetch EXCEPT ![c] = [keys |-> Missing(ks), sent |-> now, got |-> Nothing]]

Call(c, ks) ==
  /\ call[c].pc # "waiting" /\ now < MaxTime
  /\ \/ Missing(ks) = {} /\ CallCached(c, ks)
     \/ Missing(ks) # {} /\ Pending(Missing(ks)) # {} /\ CallJoins(c, ks)
     \/ Missing(ks) # {} /\ Pending(Missing(ks)) = {} /\ CallFetches(c, ks)
  /\ UNCHANGED <<now, retired, cache>>

\* The fetch c started ends, having stored m: its waiters take their answers.
Finish(c, m) ==
  /\ cache' = m
  /\ fetch' = [fetch EXCEPT ![c] = NoFetch]
  /\ call' = [d \in Callers |->
                IF call[d].pc = "waiting" /\ waits[d] = c
                THEN [pc |-> "answered", keys |-> call[d].keys, answer |-> Snapshot(m, call[d].keys)]
                ELSE call[d]]
  /\ UNCHANGED <<now, retired, waits>>

\* maintenanceCache.set for every key of the fetch
Stored(c, value) ==
  [k \in Keys |-> IF k \in fetch[c].keys
                  THEN [value |-> value[k], expires |-> Expiry(c), by |-> fetch[c].keys]
                  ELSE cache[k]]

Arrive(c) == InFlight(c) /\ Served(c) /\ Finish(c, Stored(c, fetch[c].got))

\* A status that is not OK, a body that does not parse, a refused connection.
Fail(c) == InFlight(c) /\ Finish(c, cache)

\* The connection times out (ETIMEDOUT) before the helper's own timer fires.
Unreachable(c) ==
  /\ InFlight(c) /\ ~ Served(c)
  /\ Finish(c, Stored(c, [k \in fetch[c].keys |-> Simulated]))

\* A bug: the timer is not armed.
NeverAborts(c) == FALSE /\ Finish(c, cache)

\* controller.abort()
Abort(c) == InFlight(c) /\ now = fetch[c].sent + Timeout /\ Finish(c, cache)

-----------------------------------------------------------------------------
(* The environment: the clock and the backend. *)

\* Timers fire when they are due.
Tick ==
  /\ now < MaxTime + Timeout
  /\ \A c \in Callers : InFlight(c) => now < fetch[c].sent + Timeout
  /\ now' = now + 1
  /\ UNCHANGED <<retired, call, cache, fetch, waits>>

Change(k) ==
  /\ now < MaxTime /\ Current(k) < MaxChanges
  /\ retired' = [retired EXCEPT ![k] = Append(@, now)]
  /\ UNCHANGED <<now, call, cache, fetch, waits>>

Serve(c) ==
  /\ InFlight(c) /\ ~ Served(c)
  /\ fetch' = [fetch EXCEPT ![c].got = [k \in fetch[c].keys |-> Current(k)]]
  /\ UNCHANGED <<now, retired, call, cache, waits>>

-----------------------------------------------------------------------------
Next ==
  \/ Tick
  \/ \E k \in Keys : Change(k)
  \/ \E c \in Callers :
       \/ \E ks \in Asks : Call(c, ks)
       \/ Serve(c) \/ Arrive(c) \/ Fail(c) \/ Unreachable(c) \/ Abort(c)

\* Time passes, and a timer that is due fires: the backend owes nothing.
Fairness == WF_vars(Tick) /\ \A c \in Callers : WF_vars(Abort(c))

Spec == Init /\ [][Next]_vars /\ Fairness

-----------------------------------------------------------------------------
(* Properties *)

TypeOK ==
  /\ now \in Nat
  /\ retired \in [Keys -> Seq(Nat)]
  /\ \A c \in Callers :
       /\ call[c].pc \in {"idle", "waiting", "answered"} /\ call[c].keys \in SUBSET Keys
       /\ fetch[c].keys \in SUBSET Keys /\ fetch[c].sent \in Nat
       /\ waits[c] \in Callers
  /\ \A k \in Keys : cache[k].expires \in Nat /\ cache[k].value \in {Default, Simulated} \cup Nat

\* What the helper tells a page is a setting the backend had within the last
\* TTL + Timeout, or a substitute: a switch an administrator turns is seen by
\* every visitor within that time (the expiry of an entry counts from the end
\* of its fetch, which the abort timer bounds).  The calls implement
\* MaintenanceAnswers, whichever sets of keys they name.
AnswersAreRecent == Answers!Spec

\* A page whose fetch was answered is never shown the default instead: what
\* was stored for it has not expired when its promise resumes.  This is so
\* when each call names one key, as every page does.
DefaultOnlyOnFailure ==
  [][\A c \in Callers :
       call[c].pc = "waiting" /\ call'[c].pc = "answered" /\ cache' # cache
         => \A k \in call[c].keys : call'[c].answer[k] # Default]_vars

\* A value read earlier never replaces one read later: while each call names
\* one key, the fetches of a key exclude each other.
CacheGoesForward ==
  [][\A k \in Keys :
       cache[k].value \in Nat /\ cache'[k].value \in Nat
         => cache'[k].value >= cache[k].value]_vars

\* Every caller gets an answer: a fetch that hangs is aborted, and its end
\* wakes those that joined it as well as the one that started it.
EveryCallReturns == \A c \in Callers : call[c].pc = "waiting" ~> call[c].pc = "answered"
=============================================================================
