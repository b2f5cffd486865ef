------------------------- MODULE MaintenanceCacheProofs -------------------------
(***************************************************************************)
(* MaintenanceCache implements MaintenanceAnswers for any keys, callers,   *)
(* key sets and times.  The inductive invariant dates what is cached and   *)
(* what is on its way: a value in flight was held by the backend at some   *)
(* time since its fetch was sent, at most Timeout ago, and a cached one at *)
(* some time since TTL + Timeout before its expiry.  While each call names *)
(* one key, as every page's does, at most one fetch of a key is under way, *)
(* and what it brings is no older than what the cache holds.               *)
(***************************************************************************)
EXTENDS MaintenanceCache, TLAPS

Value == {Default, Simulated} \cup Nat
Mapping(S) == UNION {[ks -> S] : ks \in SUBSET Keys}
CallType == [pc : {"idle", "waiting", "answered"}, keys : SUBSET Keys, answer : Mapping(Value)]
FetchType == [keys : SUBSET Keys, sent : Nat, got : Mapping(Value)]
EntryType == [value : Value, expires : Nat, by : SUBSET Keys]

ShapeInv ==
  /\ now \in Nat
  /\ retired \in [Keys -> Seq(Nat)]
  /\ call \in [Callers -> CallType]
  /\ fetch \in [Callers -> FetchType]
  /\ cache \in [Keys -> EntryType]
  /\ waits \in [Callers -> Callers]

\* A fetch is at most Timeout old, and what it brings is as recent.
Recent(c) ==
  /\ fetch[c].sent <= now /\ now <= fetch[c].sent + Timeout
  /\ Served(c) => /\ fetch[c].got \in [fetch[c].keys -> Nat]
                  /\ \A k \in fetch[c].keys :
                       fetch[c].got[k] \in Answers!HeldSince(k, fetch[c].sent)
FetchInv == \A c \in Callers : InFlight(c) => Recent(c)

\* A cached value was held TTL + Timeout before it expires, or later.
Dated(e, k) ==
  /\ e.expires <= now + TTL
  /\ e.value \in {Default, Simulated} \cup Answers!HeldSince(k, e.expires - (TTL + Timeout))
CacheInv == \A k \in Keys : Dated(cache[k], k)

IInv == ShapeInv /\ FetchInv /\ CacheInv

-----------------------------------------------------------------------------
(* What was held stays held since a time that is past, when the backend's  *)
(* setting changes.                                                        *)
LEMMA HeldStays ==
  ASSUME ShapeInv, NEW k \in Keys, NEW j \in Keys, NEW t \in Int, t <= now,
         retired' = [retired EXCEPT ![j] = Append(@, now)],
         NEW v \in Answers!HeldSince(k, t)
  PROVE  v \in Answers!HeldSince(k, t)'
<1>1. retired[k] \in Seq(Nat) /\ retired[j] \in Seq(Nat) BY DEF ShapeInv
<1>2. CASE k # j
  <2>1. retired'[k] = retired[k] BY <1>2 DEF ShapeInv
  <2> QED BY <2>1 DEF Answers!HeldSince, Answers!Current
<1>3. CASE k = j
  <2>1. retired'[k] = Append(retired[k], now) BY <1>3 DEF ShapeInv
  <2>2. /\ Len(retired'[k]) = Len(retired[k]) + 1
        /\ \A i \in 1 .. Len(retired[k]) : retired'[k][i] = retired[k][i]
        /\ retired'[k][Len(retired[k]) + 1] = now
    BY <1>1, <2>1 DEF ShapeInv
  <2>3. Len(retired[k]) \in Nat BY <1>1
  <2>4. v \in 0 .. Len(retired[k]) /\ (v = Len(retired[k]) \/ retired[k][v + 1] >= t)
    BY DEF Answers!HeldSince, Answers!Current
  <2>5. v \in 0 .. Len(retired'[k]) BY <2>2, <2>3, <2>4
  <2>6. retired'[k][v + 1] >= t
    BY <2>2, <2>3, <2>4 DEF ShapeInv
  <2> QED BY <2>5, <2>6 DEF Answers!HeldSince, Answers!Current
<1> QED BY <1>2, <1>3

\* Held since a time is held since any earlier time.
LEMMA HeldEarlier ==
  ASSUME ShapeInv, NEW k \in Keys, NEW t \in Int, NEW u \in Int, u <= t,
         NEW v \in Answers!HeldSince(k, t)
  PROVE  v \in Answers!HeldSince(k, u) /\ v \in Nat
<1>1. retired[k] \in Seq(Nat) /\ Len(retired[k]) \in Nat BY DEF ShapeInv
<1>2. v \in 0 .. Len(retired[k]) /\ (v = Len(retired[k]) \/ retired[k][v + 1] >= t)
  BY DEF Answers!HeldSince, Answers!Current
<1>3. v # Len(retired[k]) => retired[k][v + 1] \in Nat BY <1>1, <1>2
<1>4. v = Len(retired[k]) \/ retired[k][v + 1] >= u BY <1>1, <1>2, <1>3
<1> QED BY <1>1, <1>2, <1>4 DEF Answers!HeldSince, Answers!Current

\* The current version is held since any time.
LEMMA CurrentHeld ==
  ASSUME ShapeInv, NEW k \in Keys, NEW t
  PROVE  Current(k) \in Answers!HeldSince(k, t) /\ Current(k) \in Nat
<1>1. Len(retired[k]) \in Nat BY DEF ShapeInv
<1> QED BY <1>1 DEF Current, Answers!HeldSince, Answers!Current

LEMMA NothingMaps == Nothing \in Mapping(Value) /\ DOMAIN Nothing = {}
BY DEF Nothing, Mapping

\* A snapshot of a dated cache is an acceptable answer, now.
LEMMA SnapshotAcceptable ==
  ASSUME ShapeInv, NEW m \in [Keys -> EntryType], \A k \in Keys : Dated(m[k], k),
         NEW ks \in SUBSET Keys
  PROVE  /\ Snapshot(m, ks) \in Mapping(Value)
         /\ \A k \in ks : Snapshot(m, ks)[k] \in Answers!Acceptable(k)
<1>1. ASSUME NEW k \in ks
      PROVE  Snapshot(m, ks)[k] \in Answers!Acceptable(k) /\ Snapshot(m, ks)[k] \in Value
  <2>1. m[k].expires \in Nat /\ m[k].value \in Value BY DEF EntryType
  <2>2. CASE ~ Cached(m, k)
    BY <2>2 DEF Snapshot, Answers!Acceptable, Value
  <2>3. CASE Cached(m, k)
    <3>1. Snapshot(m, ks)[k] = m[k].value BY <2>3 DEF Snapshot
    <3>2. now < m[k].expires BY <2>3 DEF Cached
    <3>3. m[k].value \in {Default, Simulated}
            \/ m[k].value \in Answers!HeldSince(k, m[k].expires - (TTL + Timeout))
      BY DEF Dated
    <3>4. /\ now - (TTL + Timeout) \in Int /\ m[k].expires - (TTL + Timeout) \in Int
          /\ now - (TTL + Timeout) <= m[k].expires - (TTL + Timeout)
      BY <3>2, <2>1, TimesAssumption DEF ShapeInv
    <3>5. m[k].value \in {Default, Simulated}
            \/ m[k].value \in Answers!HeldSince(k, now - (TTL + Timeout))
      BY <3>3, <3>4, HeldEarlier
    <3> QED BY <2>1, <3>1, <3>5 DEF Answers!Acceptable
  <2> QED BY <2>2, <2>3
<1>2. Snapshot(m, ks) \in [ks -> Value] BY <1>1 DEF Snapshot
<1> QED BY <1>1, <1>2 DEF Mapping

-----------------------------------------------------------------------------
(* The steps. *)

\* The end of a fetch: whatever dated cache it leaves, its waiters are
\* answered from it, and this is what MaintenanceAnswers lets them see.
LEMMA FinishStep ==
  ASSUME IInv, NEW c \in Callers, NEW m \in [Keys -> EntryType],
         \A k \in Keys : Dated(m[k], k), Finish(c, m)
  PROVE  IInv' /\ Answers!Respond
<1> DEFINE woken(d) == call[d].pc = "waiting" /\ waits[d] = c
           after(d) == [pc |-> "answered", keys |-> call[d].keys,
                        answer |-> Snapshot(m, call[d].keys)]
<1>0. ShapeInv BY DEF IInv
<1>1. \A d \in Callers : call[d] \in CallType /\ call[d].keys \in SUBSET Keys
  BY <1>0 DEF ShapeInv, CallType
<1>2. \A d \in Callers : after(d) \in CallType
                         /\ \A k \in after(d).keys : after(d).answer[k] \in Answers!Acceptable(k)
  <2> TAKE d \in Callers
  <2>1. /\ Snapshot(m, call[d].keys) \in Mapping(Value)
        /\ \A k \in call[d].keys : Snapshot(m, call[d].keys)[k] \in Answers!Acceptable(k)
    BY <1>0, <1>1, SnapshotAcceptable
  <2> QED BY <1>1, <2>1 DEF CallType
<1>3. call' = [d \in Callers |-> IF woken(d) THEN after(d) ELSE call[d]]
  BY DEF Finish
<1> HIDE DEF woken, after
<1>4. call' \in [Callers -> CallType] BY <1>1, <1>2, <1>3
<1>5. fetch' \in [Callers -> FetchType]
  BY <1>0, NothingMaps DEF ShapeInv, Finish, NoFetch, FetchType
<1>6. ShapeInv' BY <1>0, <1>4, <1>5 DEF ShapeInv, Finish
<1>7. FetchInv' BY <1>0 DEF IInv, ShapeInv, FetchInv, Recent, Finish, InFlight, Served, NoFetch,
                            Answers!HeldSince, Answers!Current
<1>8. CacheInv' BY DEF CacheInv, Dated, Finish, Answers!HeldSince, Answers!Current
<1>9. Answers!Respond
  <2>1. ASSUME NEW d \in Callers
        PROVE  \/ call'[d] = call[d]
               \/ /\ call'[d].pc = "answered"
                  /\ call[d].pc = "waiting" => call'[d].keys = call[d].keys
                  /\ \A k \in call'[d].keys : call'[d].answer[k] \in Answers!Acceptable(k)
    <3>1. CASE woken(d)
      <4>1. call'[d] = after(d) BY <1>3, <3>1
      <4>2. after(d).pc = "answered" /\ after(d).keys = call[d].keys BY DEF after
      <4> QED BY <1>2, <4>1, <4>2
    <3>2. CASE ~ woken(d) BY <1>3, <3>2
    <3> QED BY <3>1, <3>2
  <2> QED BY <2>1 DEF Answers!Respond, Finish
<1> QED BY <1>6, <1>7, <1>8, <1>9 DEF IInv

LEMMA DatedEntry ==
  ASSUME NEW e, NEW k, NEW v, NEW x, e.value = v, e.expires = x, x <= now + TTL,
         v \in {Default, Simulated} \cup Answers!HeldSince(k, x - (TTL + Timeout))
  PROVE  Dated(e, k)
<1>1. e.expires - (TTL + Timeout) = x - (TTL + Timeout) OBVIOUS
<1> QED BY <1>1 DEF Dated

\* What a fetch stores is dated by its own end.
LEMMA StoredDated ==
  ASSUME IInv, NEW c \in Callers, InFlight(c), NEW value \in [fetch[c].keys -> Value],
         \A k \in fetch[c].keys :
           value[k] \in {Default, Simulated} \cup Answers!HeldSince(k, fetch[c].sent)
  PROVE  Stored(c, value) \in [Keys -> EntryType]
         /\ \A k \in Keys : Dated(Stored(c, value)[k], k)
<1>0. ShapeInv BY DEF IInv
<1>1. /\ fetch[c].keys \in SUBSET Keys /\ fetch[c].sent \in Nat
      /\ fetch[c].sent <= now /\ now <= fetch[c].sent + Timeout /\ now \in Nat
  BY <1>0 DEF IInv, FetchInv, Recent, ShapeInv, FetchType
<1>2. \A k \in Keys : cache[k] \in EntryType /\ Dated(cache[k], k)
  BY <1>0 DEF IInv, CacheInv, ShapeInv
<1>3. ASSUME NEW k \in fetch[c].keys
      PROVE  /\ [value |-> value[k], expires |-> now + TTL, by |-> fetch[c].keys] \in EntryType
             /\ Dated([value |-> value[k], expires |-> now + TTL, by |-> fetch[c].keys], k)
  <2>1. now + TTL \in Nat /\ (now + TTL) - (TTL + Timeout) \in Int
        /\ (now + TTL) - (TTL + Timeout) <= fetch[c].sent
    BY <1>1, TimesAssumption
  <2>2. value[k] \in {Default, Simulated}
          \cup Answers!HeldSince(k, (now + TTL) - (TTL + Timeout))
    BY <1>0, <1>1, <2>1, HeldEarlier
  <2> DEFINE e == [value |-> value[k], expires |-> now + TTL, by |-> fetch[c].keys]
  <2> HIDE DEF e
  <2>3. e.value = value[k] /\ e.expires = now + TTL BY DEF e
  <2>4. e \in EntryType BY <1>1, <2>1 DEF EntryType, e
  <2>5. now + TTL <= now + TTL BY <2>1
  <2>6. Dated(e, k) BY <2>2, <2>3, <2>5, DatedEntry
  <2> QED BY <2>4, <2>6 DEF e
<1> QED BY <1>1, <1>2, <1>3 DEF Stored, Expiry

LEMMA EndStep ==
  ASSUME IInv, NEW c \in Callers, Arrive(c) \/ Fail(c) \/ Unreachable(c) \/ Abort(c)
  PROVE  IInv' /\ Answers!Respond
<1>0. cache \in [Keys -> EntryType] /\ \A k \in Keys : Dated(cache[k], k)
  BY DEF IInv, CacheInv, ShapeInv
<1>1. CASE Arrive(c)
  <2>1. /\ fetch[c].got \in [fetch[c].keys -> Value]
        /\ \A k \in fetch[c].keys : fetch[c].got[k] \in Answers!HeldSince(k, fetch[c].sent)
    BY <1>1 DEF IInv, FetchInv, Recent, Arrive, Value
  <2> QED BY <1>1, <2>1, StoredDated, FinishStep DEF Arrive
<1>2. CASE Fail(c) BY <1>0, <1>2, FinishStep DEF Fail
<1>3. CASE Unreachable(c)
  <2> DEFINE made == [k \in fetch[c].keys |-> Simulated]
  <2>1. made \in [fetch[c].keys -> Value] /\ \A k \in fetch[c].keys : made[k] = Simulated
    BY DEF Value
  <2>2. Stored(c, made) \in [Keys -> EntryType]
        /\ \A k \in Keys : Dated(Stored(c, made)[k], k)
    BY <1>3, <2>1, StoredDated DEF Unreachable
  <2> QED BY <1>3, <2>2, FinishStep DEF Unreachable
<1>4. CASE Abort(c) BY <1>0, <1>4, FinishStep DEF Abort
<1> QED BY <1>1, <1>2, <1>3, <1>4

LEMMA CallStep ==
  ASSUME IInv, NEW c \in Callers, NEW ks \in Asks, Call(c, ks)
  PROVE  IInv' /\ Answers!Respond
<1>0. ShapeInv /\ ks \in SUBSET Keys BY AsksAssumption DEF IInv
<1>1. UNCHANGED <<now, retired, cache>> /\ call[c].pc # "waiting" BY DEF Call
<1>2. /\ Snapshot(cache, ks) \in Mapping(Value)
      /\ \A k \in ks : Snapshot(cache, ks)[k] \in Answers!Acceptable(k)
  BY <1>0, SnapshotAcceptable DEF IInv, ShapeInv, CacheInv
<1>3. CacheInv' BY <1>1 DEF IInv, CacheInv, Dated, Answers!HeldSince, Answers!Current
<1> DEFINE waiting == [Idle EXCEPT !.pc = "waiting", !.keys = ks]
<1>4. waiting \in CallType /\ waiting.pc = "waiting"
  BY <1>0, NothingMaps DEF Idle, CallType
<1>5. CASE CallCached(c, ks)
  <2>1. ShapeInv' BY <1>0, <1>1, <1>2, <1>5 DEF ShapeInv, CallCached, CallType
  <2>2. FetchInv' BY <1>1, <1>5 DEF IInv, FetchInv, Recent, CallCached, InFlight, Served,
                                    Answers!HeldSince, Answers!Current
  <2>3. /\ call'[c] = [pc |-> "answered", keys |-> ks, answer |-> Snapshot(cache, ks)]
        /\ \A d \in Callers \ {c} : call'[d] = call[d]
    BY <1>0, <1>5 DEF ShapeInv, CallCached
  <2>4. Answers!Respond BY <1>1, <1>2, <2>3 DEF Answers!Respond
  <2> QED BY <1>3, <2>1, <2>2, <2>4 DEF IInv
<1>6. ASSUME call' = [call EXCEPT ![c] = waiting]
      PROVE  Answers!Respond /\ call' \in [Callers -> CallType]
  <2>1. call'[c] = waiting /\ \A d \in Callers \ {c} : call'[d] = call[d]
    BY <1>0, <1>6 DEF ShapeInv
  <2>2. call' \in [Callers -> CallType] BY <1>0, <1>4, <1>6 DEF ShapeInv
  <2> HIDE DEF waiting
  <2> QED BY <1>1, <1>4, <2>1, <2>2 DEF Answers!Respond
<1>7. CASE CallJoins(c, ks)
  <2>1. call' \in [Callers -> CallType] /\ Answers!Respond BY <1>6, <1>7 DEF CallJoins
  <2>2. waits' \in [Callers -> Callers] BY <1>0, <1>7 DEF ShapeInv, CallJoins, Pending
  <2>3. ShapeInv' BY <1>0, <1>1, <1>7, <2>1, <2>2 DEF ShapeInv, CallJoins
  <2>4. FetchInv' BY <1>1, <1>7 DEF IInv, FetchInv, Recent, CallJoins, InFlight, Served,
                                    Answers!HeldSince, Answers!Current
  <2> QED BY <1>3, <2>1, <2>3, <2>4 DEF IInv
<1>8. CASE CallFetches(c, ks)
  <2> DEFINE f == [keys |-> Missing(ks), sent |-> now, got |-> Nothing]
  <2>1. call' \in [Callers -> CallType] /\ Answers!Respond BY <1>6, <1>8 DEF CallFetches
  <2>2. f \in FetchType BY <1>0, NothingMaps DEF FetchType, Missing, ShapeInv
  <2>3. fetch'[c] = f /\ \A d \in Callers \ {c} : fetch'[d] = fetch[d]
    BY <1>0, <1>8 DEF ShapeInv, CallFetches
  <2>4. ShapeInv' BY <1>0, <1>1, <1>8, <2>1, <2>2 DEF ShapeInv, CallFetches
  <2>5. FetchInv'
    <3> SUFFICES ASSUME NEW d \in Callers, InFlight(d)'
                 PROVE  Recent(d)'
      BY DEF FetchInv
    <3>1. CASE d = c
      <4>1. now \in Nat /\ now <= now + Timeout BY <1>0, TimesAssumption DEF ShapeInv
      <4>2. ~ Served(d)' BY <2>3, <3>1, NothingMaps DEF Served
      <4> QED BY <1>1, <2>3, <3>1, <4>1, <4>2 DEF Recent
    <3>2. CASE d # c
      BY <1>1, <2>3, <3>2 DEF IInv, FetchInv, Recent, InFlight, Served,
                              Answers!HeldSince, Answers!Current
    <3> QED BY <3>1, <3>2
  <2> QED BY <1>3, <2>1, <2>4, <2>5 DEF IInv
<1> QED BY <1>5, <1>7, <1>8 DEF Call

LEMMA ServeStep ==
  ASSUME IInv, NEW c \in Callers, Serve(c)
  PROVE  IInv' /\ UNCHANGED Answers!vars
<1> DEFINE g == [k \in fetch[c].keys |-> Current(k)]
<1>0. ShapeInv /\ UNCHANGED <<now, retired, call, cache, waits>> BY DEF IInv, Serve
<1>1. fetch[c].keys \in SUBSET Keys /\ InFlight(c) BY <1>0 DEF ShapeInv, FetchType, Serve
<1>2. /\ g \in [fetch[c].keys -> Nat] /\ g \in Mapping(Value)
      /\ \A k \in fetch[c].keys : g[k] \in Answers!HeldSince(k, fetch[c].sent)
  <2>1. \A k \in fetch[c].keys : Current(k) \in Nat
                                 /\ Current(k) \in Answers!HeldSince(k, fetch[c].sent)
    BY <1>0, <1>1, CurrentHeld
  <2> QED BY <1>1, <2>1 DEF Mapping, Value
<1> HIDE DEF g
<1>3. fetch' = [fetch EXCEPT ![c].got = g] BY DEF Serve, g
<1>4. /\ fetch'[c].keys = fetch[c].keys /\ fetch'[c].sent = fetch[c].sent /\ fetch'[c].got = g
      /\ \A d \in Callers \ {c} : fetch'[d] = fetch[d]
      /\ fetch' \in [Callers -> FetchType]
  BY <1>0, <1>2, <1>3 DEF ShapeInv, FetchType
<1>5. ShapeInv' BY <1>0, <1>4 DEF ShapeInv
<1>6. \A d \in Callers : fetch'[d].keys = fetch[d].keys /\ fetch'[d].sent = fetch[d].sent
  BY <1>4
<1>7. FetchInv'
  <2> SUFFICES ASSUME NEW d \in Callers, InFlight(d)'
               PROVE  Recent(d)'
    BY DEF FetchInv
  <2>1. InFlight(d) BY <1>6 DEF InFlight
  <2>2. fetch'[d].sent <= now' /\ now' <= fetch'[d].sent + Timeout
    BY <1>0, <1>6, <2>1 DEF IInv, FetchInv, Recent
  <2>3. CASE d = c
    BY <1>0, <1>2, <1>4, <2>2, <2>3 DEF Recent, Answers!HeldSince, Answers!Current
  <2>4. CASE d # c
    BY <1>0, <1>4, <2>1, <2>2, <2>4 DEF IInv, FetchInv, Recent, Served, Answers!HeldSince, Answers!Current
  <2> QED BY <2>3, <2>4
<1>8. CacheInv' BY <1>0 DEF IInv, CacheInv, Dated, Answers!HeldSince, Answers!Current
<1> QED BY <1>0, <1>5, <1>7, <1>8 DEF IInv, Answers!vars

LEMMA TickStep ==
  ASSUME IInv, Tick
  PROVE  IInv' /\ Answers!Tick
<1>0. ShapeInv /\ now' = now + 1 /\ UNCHANGED <<retired, call, cache, fetch, waits>>
  BY DEF IInv, Tick
<1>1. ShapeInv' BY <1>0 DEF ShapeInv
<1>2. FetchInv'
  <2>1. \A c \in Callers : InFlight(c) => now < fetch[c].sent + Timeout /\ fetch[c].sent \in Nat
    BY <1>0 DEF Tick, ShapeInv, FetchType
  <2> QED BY <1>0, <2>1, TimesAssumption
          DEF IInv, ShapeInv, FetchInv, Recent, InFlight, Served, Answers!HeldSince, Answers!Current
<1>3. CacheInv'
  <2>1. \A k \in Keys : cache[k].expires \in Nat BY <1>0 DEF ShapeInv, EntryType
  <2> QED BY <1>0, <2>1, TimesAssumption
          DEF IInv, ShapeInv, CacheInv, Dated, Answers!HeldSince, Answers!Current
<1> QED BY <1>0, <1>1, <1>2, <1>3 DEF IInv, Answers!Tick

LEMMA ChangeStep ==
  ASSUME IInv, NEW j \in Keys, Change(j)
  PROVE  IInv' /\ Answers!Change(j)
<1>0. /\ ShapeInv /\ UNCHANGED <<now, call, cache, fetch, waits>>
      /\ retired' = [retired EXCEPT ![j] = Append(@, now)]
  BY DEF IInv, Change
<1>1. ShapeInv'
  <2>1. Append(retired[j], now) \in Seq(Nat) BY <1>0 DEF ShapeInv
  <2> QED BY <1>0, <2>1 DEF ShapeInv
<1>2. FetchInv'
  <2>1. \A c \in Callers : InFlight(c) =>
          fetch[c].keys \in SUBSET Keys /\ fetch[c].sent \in Int /\ fetch[c].sent <= now
    BY <1>0 DEF IInv, ShapeInv, FetchInv, Recent, FetchType
  <2>2. \A c \in Callers : InFlight(c) /\ Served(c) =>
          \A k \in fetch[c].keys : fetch[c].got[k] \in Answers!HeldSince(k, fetch[c].sent)'
    BY <1>0, <2>1, HeldStays DEF IInv, FetchInv, Recent
  <2>4. \A c \in Callers : InFlight(c)' = InFlight(c) /\ Served(c)' = Served(c)
    BY <1>0 DEF InFlight, Served
  <2> QED BY <1>0, <2>2, <2>4 DEF IInv, FetchInv, Recent, Answers!HeldSince, Answers!Current
<1>3. CacheInv'
  <2> SUFFICES ASSUME NEW k \in Keys PROVE Dated(cache[k], k)'
    BY <1>0 DEF CacheInv
  <2> DEFINE t == cache[k].expires - (TTL + Timeout)
  <2>1. t \in Int /\ t <= now /\ cache[k].expires <= now + TTL
    BY <1>0, TimesAssumption DEF IInv, CacheInv, Dated, ShapeInv, EntryType
  <2>2. cache[k].value \in {Default, Simulated} \/ cache[k].value \in Answers!HeldSince(k, t)
    BY DEF IInv, CacheInv, Dated
  <2>3. cache[k].value \in {Default, Simulated} \/ cache[k].value \in Answers!HeldSince(k, t)'
    <3>1. PICK u \in Int : u = t BY <2>1
    <3>2. t' = u BY <1>0, <3>1
    <3> HIDE DEF t
    <3>3. u <= now BY <2>1, <3>1
    <3>4. CASE cache[k].value \in Answers!HeldSince(k, u)
      <4>1. cache[k].value \in Answers!HeldSince(k, u)' BY <1>0, <3>3, <3>4, HeldStays
      <4> QED BY <3>2, <4>1
    <3> QED BY <1>0, <2>2, <3>1, <3>4
  <2> QED BY <1>0, <2>1, <2>3 DEF Dated, Answers!HeldSince, Answers!Current
<1> QED BY <1>0, <1>1, <1>2, <1>3 DEF IInv, Answers!Change

-----------------------------------------------------------------------------
LEMMA InitInv == Init => IInv /\ Answers!Init
<1> SUFFICES ASSUME Init PROVE IInv /\ Answers!Init OBVIOUS
<1>1. ShapeInv
  <2>1. Idle \in CallType BY NothingMaps DEF Idle, CallType
  <2>2. NoFetch \in FetchType BY NothingMaps DEF NoFetch, FetchType
  <2>3. [value |-> Default, expires |-> 0, by |-> {}] \in EntryType BY DEF EntryType, Value
  <2>4. <<>> \in Seq(Nat) OBVIOUS
  <2> QED BY <2>1, <2>2, <2>3, <2>4 DEF Init, ShapeInv
<1>2. FetchInv BY DEF Init, FetchInv, Recent, InFlight, NoFetch
<1>3. CacheInv BY TimesAssumption DEF Init, CacheInv, Dated
<1>4. Answers!Init BY DEF Init, Answers!Init, Idle, Answers!Idle, Nothing, Answers!Nothing
<1> QED BY <1>1, <1>2, <1>3, <1>4 DEF IInv

LEMMA StepRefines ==
  ASSUME IInv, [Next]_vars
  PROVE  IInv' /\ [Answers!Next]_(Answers!vars)
<1>1. CASE Tick BY <1>1, TickStep DEF Answers!Next
<1>2. ASSUME NEW k \in Keys, Change(k) PROVE IInv' /\ Answers!Next
  BY <1>2, ChangeStep DEF Answers!Next
<1>3. ASSUME NEW c \in Callers, NEW ks \in Asks, Call(c, ks) PROVE IInv' /\ Answers!Next
  BY <1>3, CallStep DEF Answers!Next
<1>4. ASSUME NEW c \in Callers, Serve(c) PROVE IInv' /\ UNCHANGED Answers!vars
  BY <1>4, ServeStep
<1>5. ASSUME NEW c \in Callers, Arrive(c) \/ Fail(c) \/ Unreachable(c) \/ Abort(c)
      PROVE  IInv' /\ Answers!Next
  BY <1>5, EndStep DEF Answers!Next
<1>6. CASE UNCHANGED vars
  <2>1. UNCHANGED <<now, retired, call, cache, fetch, waits>> BY <1>6 DEF vars
  <2>2. ShapeInv' BY <2>1 DEF IInv, ShapeInv
  <2>3. FetchInv' BY <2>1 DEF IInv, FetchInv, Recent, InFlight, Served, Answers!HeldSince, Answers!Current
  <2>4. CacheInv' BY <2>1 DEF IInv, CacheInv, Dated, Answers!HeldSince, Answers!Current
  <2> QED BY <2>1, <2>2, <2>3, <2>4 DEF IInv, Answers!vars
<1> QED BY <1>1, <1>2, <1>3, <1>4, <1>5, <1>6 DEF Next

\* Every behaviour of the cache is one MaintenanceAnswers allows, for any
\* keys, callers, sets of keys asked for, TTL and timeout: an answer is a
\* substitute, or a setting the backend had at most TTL + Timeout ago.
THEOREM CacheImplementsAnswers == Spec => AnswersAreRecent
<1>1. Init => IInv /\ Answers!Init BY InitInv
<1>2. IInv /\ [Next]_vars => IInv' /\ [Answers!Next]_(Answers!vars) BY StepRefines
<1> QED BY <1>1, <1>2, PTL DEF Spec, AnswersAreRecent, Answers!Spec

\* Each variable keeps its type: in particular an entry's value is a version
\* or a substitute, and a caller waits for a fetch some caller started.
THEOREM CacheTypeCorrect == Spec => []TypeOK
<1>1. Init => IInv BY InitInv
<1>2. IInv /\ [Next]_vars => IInv' BY StepRefines
<1>3. IInv => TypeOK
  BY DEF IInv, ShapeInv, TypeOK, CallType, FetchType, EntryType, Value
<1> QED BY <1>1, <1>2, <1>3, PTL DEF Spec
-----------------------------------------------------------------------------
(* While each call names one key, as every page does, a caller that waits  *)
(* waits for a fetch of its key, and no key has two fetches in flight: one *)
(* that finds its key on its way joins.  With several keys in a call the   *)
(* fetches of overlapping sets run side by side, and none of this holds.   *)
OneKeyAsked == \A ks \in Asks : \E k \in Keys : ks = {k}

SingleInv ==
  /\ \A c \in Callers : InFlight(c) => /\ call[c].pc = "waiting" /\ waits[c] = c
                                       /\ \E k \in Keys : fetch[c].keys = {k}
  /\ \A c, d \in Callers : InFlight(c) /\ fetch[c].keys = fetch[d].keys => c = d
  /\ \A c \in Callers : call[c].pc = "waiting" =>
       InFlight(waits[c]) /\ fetch[waits[c]].keys = call[c].keys

\* What a fetch brings is no older than what is cached.
NewerInv ==
  \A c \in Callers : \A k \in fetch[c].keys :
    Served(c) /\ cache[k].value \in Nat => cache[k].value <= fetch[c].got[k]

\* What is cached is a version the backend has had.
LEMMA CachedWasHeld ==
  ASSUME IInv, NEW k \in Keys, cache[k].value \in Nat
  PROVE  cache[k].value <= Current(k)
<1>1. Len(retired[k]) \in Nat /\ cache[k].value \in Value BY DEF IInv, ShapeInv, EntryType
<1>2. cache[k].value \notin {Default, Simulated} BY ValuesAssumption
<1>3. cache[k].value \in Answers!HeldSince(k, cache[k].expires - (TTL + Timeout))
  BY <1>2 DEF IInv, CacheInv, Dated
<1>4. cache[k].value \in 0 .. Len(retired[k]) BY <1>3 DEF Answers!HeldSince, Answers!Current
<1> QED BY <1>1, <1>4 DEF Current

\* The caller of a new call had no fetch in flight.
LEMMA CallerIsFree ==
  ASSUME SingleInv, NEW c \in Callers, call[c].pc # "waiting"
  PROVE  /\ ~ InFlight(c)
         /\ \A d \in Callers : call[d].pc = "waiting" => waits[d] # c
BY DEF SingleInv

\* The end of a fetch leaves the others and those who wait for them.
LEMMA SingleFinish ==
  ASSUME ShapeInv, SingleInv, NEW c \in Callers, NEW m, InFlight(c), Finish(c, m)
  PROVE  SingleInv'
<1>1. /\ fetch'[c].keys = {} /\ waits' = waits
      /\ \A d \in Callers \ {c} : fetch'[d] = fetch[d]
  BY DEF Finish, ShapeInv, NoFetch
<1>2. \A d \in Callers : call[d].pc = "waiting" /\ waits[d] = c => call'[d].pc = "answered"
  BY DEF Finish
<1>3. \A d \in Callers : ~ (call[d].pc = "waiting" /\ waits[d] = c) => call'[d] = call[d]
  BY DEF Finish
<1>4. \A d \in Callers : InFlight(d)' => d # c /\ InFlight(d) /\ fetch'[d] = fetch[d]
  BY <1>1 DEF InFlight
<1>5. \A d \in Callers : call'[d].pc = "waiting" =>
        call[d].pc = "waiting" /\ waits[d] # c /\ call'[d] = call[d]
  BY <1>2, <1>3
<1>6. ASSUME NEW d \in Callers, InFlight(d)'
      PROVE  /\ call'[d].pc = "waiting" /\ waits'[d] = d
             /\ \E k \in Keys : fetch'[d].keys = {k}
  <2>1. d # c /\ InFlight(d) /\ fetch'[d] = fetch[d] BY <1>4, <1>6
  <2>2. call[d].pc = "waiting" /\ waits[d] = d /\ \E k \in Keys : fetch[d].keys = {k}
    BY <2>1 DEF SingleInv
  <2> QED BY <1>1, <1>3, <2>1, <2>2
<1>7. ASSUME NEW d \in Callers, NEW e \in Callers, InFlight(d)', fetch'[d].keys = fetch'[e].keys
      PROVE  d = e
  <2>1. InFlight(e)' BY <1>7 DEF InFlight
  <2>2. InFlight(d) /\ fetch[d].keys = fetch[e].keys BY <1>4, <1>7, <2>1
  <2> QED BY <2>2 DEF SingleInv
<1>8. ASSUME NEW d \in Callers, call'[d].pc = "waiting"
      PROVE  InFlight(waits[d])' /\ fetch'[waits'[d]].keys = call'[d].keys
  <2>1. call[d].pc = "waiting" /\ waits[d] # c /\ call'[d] = call[d] BY <1>5, <1>8
  <2>2. InFlight(waits[d]) /\ fetch[waits[d]].keys = call[d].keys BY <2>1 DEF SingleInv
  <2>3. waits[d] \in Callers /\ fetch'[waits[d]] = fetch[waits[d]] BY <1>1, <2>1 DEF ShapeInv
  <2> QED BY <1>1, <2>1, <2>2, <2>3 DEF InFlight
<1> QED BY <1>6, <1>7, <1>8 DEF SingleInv

LEMMA SingleCall ==
  ASSUME OneKeyAsked, ShapeInv, SingleInv, NEW c \in Callers, NEW ks \in Asks, Call(c, ks)
  PROVE  SingleInv'
<1>1. ~ InFlight(c) /\ \A d \in Callers : call[d].pc = "waiting" => waits[d] # c
  BY CallerIsFree DEF Call
<1>2. \A d \in Callers : InFlight(d) => d # c BY <1>1
<1>3. Missing(ks) # {} => Missing(ks) = ks /\ \E k \in Keys : ks = {k}
  BY DEF OneKeyAsked, Missing
<1>4. CASE CallCached(c, ks)
  <2>1. /\ fetch' = fetch /\ waits' = waits /\ call'[c].pc = "answered"
        /\ \A d \in Callers \ {c} : call'[d] = call[d]
    BY <1>4 DEF CallCached, ShapeInv
  <2> QED BY <1>2, <2>1 DEF SingleInv, InFlight
<1>5. ASSUME call' = [call EXCEPT ![c] = [Idle EXCEPT !.pc = "waiting", !.keys = ks]]
      PROVE  /\ call'[c].pc = "waiting" /\ call'[c].keys = ks
             /\ \A d \in Callers \ {c} : call'[d] = call[d]
  BY <1>5 DEF ShapeInv, Idle
<1>6. CASE Missing(ks) # {} /\ CallJoins(c, ks)
  <2>1. PICK e \in Pending(ks) : waits' = [waits EXCEPT ![c] = e] BY <1>3, <1>6 DEF CallJoins
  <2>2. e \in Callers /\ fetch[e].keys = ks BY <2>1 DEF Pending
  <2>3. fetch' = fetch /\ waits'[c] = e /\ \A d \in Callers \ {c} : waits'[d] = waits[d]
    BY <1>6, <2>1, <2>2 DEF CallJoins, ShapeInv
  <2>4. /\ call'[c].pc = "waiting" /\ call'[c].keys = ks
        /\ \A d \in Callers \ {c} : call'[d] = call[d]
    BY <1>5, <1>6 DEF CallJoins
  <2>5. InFlight(e) BY <1>3, <1>6, <2>2 DEF InFlight
  <2>6. ASSUME NEW d \in Callers, InFlight(d)
        PROVE  /\ call'[d].pc = "waiting" /\ waits'[d] = d /\ \E k \in Keys : fetch[d].keys = {k}
    BY <1>2, <2>3, <2>4, <2>6 DEF SingleInv
  <2>7. ASSUME NEW d \in Callers, call'[d].pc = "waiting"
        PROVE  InFlight(waits'[d]) /\ fetch[waits'[d]].keys = call'[d].keys
    <3>1. CASE d = c BY <2>2, <2>3, <2>4, <2>5, <3>1
    <3>2. CASE d # c BY <2>3, <2>4, <2>7, <3>2 DEF SingleInv
    <3> QED BY <3>1, <3>2
  <2> QED BY <2>3, <2>6, <2>7 DEF SingleInv, InFlight
<1>7. CASE Missing(ks) # {} /\ Pending(Missing(ks)) = {} /\ CallFetches(c, ks)
  <2> DEFINE f == [keys |-> Missing(ks), sent |-> now, got |-> Nothing]
  <2>1. /\ fetch'[c] = f /\ \A d \in Callers \ {c} : fetch'[d] = fetch[d]
        /\ waits'[c] = c /\ \A d \in Callers \ {c} : waits'[d] = waits[d]
    BY <1>7 DEF CallFetches, ShapeInv
  <2>2. f.keys = ks BY <1>3, <1>7
  <2> HIDE DEF f
  <2>3. /\ call'[c].pc = "waiting" /\ call'[c].keys = ks
        /\ \A d \in Callers \ {c} : call'[d] = call[d]
    BY <1>5, <1>7 DEF CallFetches
  <2>4. \A d \in Callers : fetch[d].keys # ks BY <1>3, <1>7 DEF Pending
  <2>5. ASSUME NEW d \in Callers, InFlight(d)'
        PROVE  /\ call'[d].pc = "waiting" /\ waits'[d] = d /\ \E k \in Keys : fetch'[d].keys = {k}
    <3>1. CASE d = c BY <1>3, <1>7, <2>1, <2>2, <2>3, <3>1
    <3>2. CASE d # c BY <2>1, <2>3, <2>5, <3>2 DEF SingleInv, InFlight
    <3> QED BY <3>1, <3>2
  <2>6. ASSUME NEW d \in Callers, NEW e \in Callers, InFlight(d)', fetch'[d].keys = fetch'[e].keys
        PROVE  d = e
    <3>1. CASE d = c \/ e = c BY <2>1, <2>2, <2>4, <2>6, <3>1
    <3>2. CASE d # c /\ e # c BY <2>1, <2>6, <3>2 DEF SingleInv, InFlight
    <3> QED BY <3>1, <3>2
  <2>7. ASSUME NEW d \in Callers, call'[d].pc = "waiting"
        PROVE  InFlight(waits[d])' /\ fetch'[waits'[d]].keys = call'[d].keys
    <3>1. CASE d = c BY <1>3, <1>7, <2>1, <2>2, <2>3, <3>1 DEF InFlight
    <3>2. CASE d # c
      <4>1. call[d].pc = "waiting" /\ waits[d] # c BY <1>1, <2>3, <2>7, <3>2
      <4>2. InFlight(waits[d]) /\ fetch[waits[d]].keys = call[d].keys BY <4>1 DEF SingleInv
      <4>3. waits[d] \in Callers /\ fetch'[waits[d]] = fetch[waits[d]] BY <2>1, <4>1 DEF ShapeInv
      <4> QED BY <2>1, <2>3, <3>2, <4>2, <4>3 DEF InFlight
    <3> QED BY <3>1, <3>2
  <2> QED BY <2>5, <2>6, <2>7 DEF SingleInv
<1> QED BY <1>4, <1>6, <1>7 DEF Call

\* A fetch that starts has brought nothing yet.
LEMMA NewerCall ==
  ASSUME ShapeInv, NewerInv, NEW c \in Callers, NEW ks \in Asks, Call(c, ks)
  PROVE  NewerInv'
<1>1. cache' = cache BY DEF Call
<1>2. CASE CallCached(c, ks) \/ CallJoins(c, ks)
  BY <1>1, <1>2 DEF CallCached, CallJoins, NewerInv, Served
<1>3. CASE CallFetches(c, ks)
  <2> DEFINE f == [keys |-> Missing(ks), sent |-> now, got |-> Nothing]
  <2>1. fetch'[c] = f /\ \A d \in Callers \ {c} : fetch'[d] = fetch[d]
    BY <1>3 DEF CallFetches, ShapeInv
  <2>2. f.got = Nothing OBVIOUS
  <2> HIDE DEF f
  <2>3. ~ Served(c)' BY <2>1, <2>2, NothingMaps DEF Served
  <2> QED BY <1>1, <2>1, <2>3 DEF NewerInv, Served
<1> QED BY <1>2, <1>3 DEF Call

LEMMA OneKeyServe ==
  ASSUME IInv, SingleInv, NewerInv, NEW c \in Callers, Serve(c)
  PROVE  SingleInv' /\ NewerInv'
<1> DEFINE g == [k \in fetch[c].keys |-> Current(k)]
<1>1. /\ UNCHANGED <<now, retired, call, cache, waits>>
      /\ fetch'[c].keys = fetch[c].keys /\ fetch'[c].got = g
      /\ \A d \in Callers \ {c} : fetch'[d] = fetch[d]
      /\ fetch[c].keys \in SUBSET Keys
  BY DEF Serve, IInv, ShapeInv, FetchType
<1>2. \A k \in fetch[c].keys : g[k] = Current(k) OBVIOUS
<1> HIDE DEF g
<1>3. \A d \in Callers : fetch'[d].keys = fetch[d].keys BY <1>1
<1>4. \A d \in Callers : InFlight(d)' = InFlight(d) BY <1>3 DEF InFlight
<1>5. SingleInv'
  <2>1. \A d \in Callers : waits[d] \in Callers BY DEF IInv, ShapeInv
  <2> QED BY <1>1, <1>3, <1>4, <2>1 DEF SingleInv
<1>6. ASSUME NEW d \in Callers, NEW k \in fetch'[d].keys, Served(d)', cache[k].value \in Nat
      PROVE  cache[k].value <= fetch'[d].got[k]
  <2>1. CASE d = c BY <1>1, <1>2, <1>6, <2>1, CachedWasHeld
  <2>2. CASE d # c BY <1>1, <1>6, <2>2 DEF NewerInv, Served
  <2> QED BY <2>1, <2>2
<1> QED BY <1>1, <1>5, <1>6 DEF NewerInv

-----------------------------------------------------------------------------
(* What a step may do to what is cached, and show to those who wait. *)
GoesForward ==
  \A k \in Keys : cache[k].value \in Nat /\ cache'[k].value \in Nat
                    => cache'[k].value >= cache[k].value

ShowsFetched ==
  \A c \in Callers :
    call[c].pc = "waiting" /\ call'[c].pc = "answered" /\ cache' # cache
      => \A k \in call[c].keys : call'[c].answer[k] # Default

\* A fetch that ends without storing anything.
LEMMA KeptEnd ==
  ASSUME IInv, NewerInv, cache' = cache, NEW c \in Callers, fetch'[c].keys = {},
         \A d \in Callers \ {c} : fetch'[d] = fetch[d]
  PROVE  NewerInv' /\ GoesForward /\ ShowsFetched
<1>1. NewerInv' BY DEF NewerInv, Served
<1>2. GoesForward
  <2>1. \A k \in Keys : cache[k].value \in Nat => cache[k].value >= cache[k].value OBVIOUS
  <2> QED BY <2>1 DEF GoesForward
<1>3. ShowsFetched BY DEF ShowsFetched
<1> QED BY <1>1, <1>2, <1>3

\* A fetch that ends by storing what it brought, or the simulated status.
LEMMA StoredEnd ==
  ASSUME IInv, SingleInv, NewerInv, NEW c \in Callers, InFlight(c), NEW value,
         Finish(c, Stored(c, value)),
         \A k \in fetch[c].keys : /\ value[k] # Default
                                  /\ value[k] \in Nat /\ cache[k].value \in Nat
                                       => cache[k].value <= value[k]
  PROVE  NewerInv' /\ GoesForward /\ ShowsFetched
<1>0. ShapeInv BY DEF IInv
<1> DEFINE e(k) == [value |-> value[k], expires |-> Expiry(c), by |-> fetch[c].keys]
<1>1. /\ \A k \in Keys : k \in fetch[c].keys => cache'[k] = e(k)
      /\ \A k \in Keys : k \notin fetch[c].keys => cache'[k] = cache[k]
  BY DEF Finish, Stored
<1>2. \A k : e(k).value = value[k] /\ e(k).expires = now + TTL BY DEF Expiry
<1> HIDE DEF e
<1>3. fetch'[c].keys = {} /\ \A d \in Callers \ {c} : fetch'[d] = fetch[d]
  BY <1>0 DEF Finish, ShapeInv, NoFetch
<1>4. GoesForward
  <2> SUFFICES ASSUME NEW k \in Keys, cache[k].value \in Nat, cache'[k].value \in Nat
               PROVE  cache'[k].value >= cache[k].value
    BY DEF GoesForward
  <2>1. CASE k \in fetch[c].keys
    <3>1. cache'[k].value = value[k] BY <1>1, <1>2, <2>1
    <3>2. cache[k].value <= value[k] BY <2>1, <3>1
    <3> QED BY <3>1, <3>2
  <2>2. CASE k \notin fetch[c].keys BY <1>1, <2>2
  <2> QED BY <2>1, <2>2
<1>5. NewerInv'
  <2> SUFFICES ASSUME NEW d \in Callers, NEW k \in fetch'[d].keys, Served(d)', cache'[k].value \in Nat
               PROVE  cache'[k].value <= fetch'[d].got[k]
    BY DEF NewerInv
  <2>1. d # c /\ fetch'[d] = fetch[d] BY <1>3
  <2>2. InFlight(d) /\ k \in fetch[d].keys /\ Served(d) BY <2>1 DEF InFlight, Served
  <2>3. (\E j \in Keys : fetch[c].keys = {j}) /\ \E j \in Keys : fetch[d].keys = {j}
    BY <2>2 DEF SingleInv
  <2>4. k \in Keys /\ k \notin fetch[c].keys
    <3>1. fetch[c].keys # fetch[d].keys BY <2>1 DEF SingleInv
    <3> QED BY <2>2, <2>3, <3>1
  <2>5. cache'[k] = cache[k] BY <1>1, <2>4
  <2> QED BY <2>1, <2>2, <2>5 DEF NewerInv
<1>6. ShowsFetched
  <2> SUFFICES ASSUME NEW d \in Callers, call[d].pc = "waiting", call'[d].pc = "answered",
                      NEW k \in call[d].keys
               PROVE  call'[d].answer[k] # Default
    BY DEF ShowsFetched
  <2> DEFINE m == Stored(c, value)
  <2>1. m = cache' BY DEF Finish
  <2>2. waits[d] = c BY DEF Finish
  <2>3. fetch[c].keys = call[d].keys BY <2>2 DEF SingleInv
  <2>4. call'[d].answer = Snapshot(m, call[d].keys) BY <2>2 DEF Finish
  <2> HIDE DEF m
  <2>5. k \in Keys /\ now \in Nat BY <1>0, <2>3 DEF ShapeInv, FetchType
  <2>6. m[k].value = value[k] /\ m[k].expires = now + TTL BY <1>1, <1>2, <2>1, <2>3, <2>5
  <2>7. Cached(m, k) BY <2>5, <2>6, TimesAssumption DEF Cached
  <2>8. call'[d].answer[k] = value[k] BY <2>4, <2>6, <2>7 DEF Snapshot
  <2> QED BY <2>3, <2>8
<1> QED BY <1>4, <1>5, <1>6

LEMMA OneKeyEnd ==
  ASSUME IInv, SingleInv, NewerInv, NEW c \in Callers,
         Arrive(c) \/ Fail(c) \/ Unreachable(c) \/ Abort(c)
  PROVE  SingleInv' /\ NewerInv' /\ GoesForward /\ ShowsFetched
<1>0. ShapeInv /\ InFlight(c) BY DEF IInv, Arrive, Fail, Unreachable, Abort
<1>1. SingleInv'
  <2>1. PICK m : Finish(c, m) BY DEF Arrive, Fail, Unreachable, Abort
  <2> QED BY <1>0, <2>1, SingleFinish
<1>2. CASE Arrive(c)
  <2>1. Served(c) /\ Finish(c, Stored(c, fetch[c].got)) BY <1>2 DEF Arrive
  <2>2. fetch[c].got \in [fetch[c].keys -> Nat] BY <1>0, <2>1 DEF IInv, FetchInv, Recent
  <2>3. \A k \in fetch[c].keys : fetch[c].got[k] # Default BY <2>2, ValuesAssumption
  <2>4. \A k \in fetch[c].keys : cache[k].value \in Nat => cache[k].value <= fetch[c].got[k]
    BY <2>1 DEF NewerInv
  <2> QED BY <1>0, <1>1, <2>1, <2>3, <2>4, StoredEnd
<1>3. CASE Unreachable(c)
  <2> DEFINE made == [k \in fetch[c].keys |-> Simulated]
  <2>1. Finish(c, Stored(c, made)) BY <1>3 DEF Unreachable
  <2>2. \A k \in fetch[c].keys : made[k] = Simulated OBVIOUS
  <2> HIDE DEF made
  <2>3. \A k \in fetch[c].keys : made[k] # Default /\ made[k] \notin Nat BY <2>2, ValuesAssumption
  <2> QED BY <1>0, <1>1, <2>1, <2>3, StoredEnd
<1>4. CASE Fail(c) \/ Abort(c)
  <2>1. Finish(c, cache) BY <1>4 DEF Fail, Abort
  <2>2. fetch'[c].keys = {} /\ cache' = cache /\ \A d \in Callers \ {c} : fetch'[d] = fetch[d]
    BY <1>0, <2>1 DEF Finish, ShapeInv, NoFetch
  <2> QED BY <1>1, <2>2, KeptEnd
<1> QED BY <1>2, <1>3, <1>4

LEMMA OneKeyStep ==
  ASSUME OneKeyAsked, IInv, SingleInv, NewerInv, [Next]_vars
  PROVE  SingleInv' /\ NewerInv' /\ GoesForward /\ ShowsFetched
<1>0. ShapeInv BY DEF IInv
<1>1. ASSUME cache' = cache PROVE GoesForward /\ ShowsFetched
  <2>1. \A k \in Keys : cache[k].value \in Nat => cache[k].value >= cache[k].value OBVIOUS
  <2> QED BY <1>1, <2>1 DEF GoesForward, ShowsFetched
<1>2. CASE Tick \/ (\E k \in Keys : Change(k)) \/ UNCHANGED vars
  <2>1. UNCHANGED <<call, cache, fetch, waits>> BY <1>2 DEF Tick, Change, vars
  <2>2. SingleInv' BY <2>1 DEF SingleInv, InFlight
  <2>3. NewerInv' BY <2>1 DEF NewerInv, Served
  <2> QED BY <1>1, <2>1, <2>2, <2>3
<1>3. ASSUME NEW c \in Callers, NEW ks \in Asks, Call(c, ks)
      PROVE  SingleInv' /\ NewerInv' /\ GoesForward /\ ShowsFetched
  <2>1. cache' = cache BY <1>3 DEF Call
  <2> QED BY <1>0, <1>1, <1>3, <2>1, SingleCall, NewerCall
<1>4. ASSUME NEW c \in Callers, Serve(c)
      PROVE  SingleInv' /\ NewerInv' /\ GoesForward /\ ShowsFetched
  <2>1. cache' = cache BY <1>4 DEF Serve
  <2> QED BY <1>1, <1>4, <2>1, OneKeyServe
<1> QED BY <1>2, <1>3, <1>4, OneKeyEnd DEF Next

LEMMA OneKeyInit == Init => SingleInv /\ NewerInv
<1> SUFFICES ASSUME Init PROVE SingleInv /\ NewerInv OBVIOUS
<1>1. \A c \in Callers : fetch[c].keys = {} /\ call[c].pc = "idle" BY DEF Init, NoFetch, Idle
<1> QED BY <1>1 DEF SingleInv, NewerInv, InFlight

LEMMA OneKeyAlways ==
  ASSUME OneKeyAsked
  PROVE  Spec => [](IInv /\ SingleInv /\ NewerInv)
<1>1. Init => IInv /\ SingleInv /\ NewerInv BY InitInv, OneKeyInit
<1>2. IInv /\ SingleInv /\ NewerInv /\ [Next]_vars => IInv' /\ SingleInv' /\ NewerInv'
  BY OneKeyStep, StepRefines
<1> QED BY <1>1, <1>2, PTL DEF Spec

\* While each call names one key, a version in the cache is never replaced by
\* an earlier one, however long answers take and whichever fetches fail.
THEOREM CacheNeverGoesBack ==
  ASSUME OneKeyAsked
  PROVE  Spec => CacheGoesForward
<1>1. IInv /\ SingleInv /\ NewerInv /\ [Next]_vars => [GoesForward]_vars BY OneKeyStep
<1>2. Spec => [][GoesForward]_vars BY <1>1, OneKeyAlways, PTL DEF Spec
<1> QED BY <1>2 DEF CacheGoesForward, GoesForward

\* While each call names one key, a page whose fetch stored something is shown
\* what was stored, whoever started the fetch: its entry outlives the promise.
THEOREM FetchedIsShown ==
  ASSUME OneKeyAsked
  PROVE  Spec => DefaultOnlyOnFailure
<1>1. IInv /\ SingleInv /\ NewerInv /\ [Next]_vars => [ShowsFetched]_vars BY OneKeyStep
<1>2. Spec => [][ShowsFetched]_vars BY <1>1, OneKeyAlways, PTL DEF Spec
<1> QED BY <1>2 DEF DefaultOnlyOnFailure, ShowsFetched
=============================================================================
