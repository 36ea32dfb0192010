-------------------------- MODULE RateCacheProofs --------------------------
(***************************************************************************)
(* How old a cached rate can be when it is used, for any number of         *)
(* callers, any TTL, and any delays and failures.                          *)
(***************************************************************************)
EXTENDS RateCache, TLAPS

Young(e) == e.rate # Unknown => e.age <= (TTL - e.left) + slowest

\* The variables of the callers keep their types.
CallersOK ==
  /\ quote \in 0..MaxQuotes
  /\ phase \in [Caller -> {"idle", "reading", "fetching", "writing", "answered"}]
  /\ rate \in [Caller -> 0..MaxQuotes] /\ age \in [Caller -> Age]
  /\ slowest \in Age /\ faults \in 0..MaxFaults

CacheOK == cache \in Entry \cup {NoRate} /\ Young(cache)

\* A caller in "writing" has a rate.
HandsFull == \A c \in Caller : phase[c] = "writing" => rate[c] # Unknown

CInv == CallersOK /\ CacheOK /\ HandsFull

\* It is the invariant of the run, and more.
LEMMA CInvIsRateInv == CInv => RateInv
BY DEF CInv, CallersOK, CacheOK, RateInv, TypeOK, Young, Cached

\* The ages are numbers, and a tick does not leave their range.
LEMMA AgeFacts ==
  /\ Age \subseteq Nat /\ 0 \in Age
  /\ \A a \in Age : Older(a) \in Age /\ Older(a) <= a + 1
BY RateAssumption DEF Age, Older

\* What an entry is, field by field.
LEMMA EntryFields ==
  ASSUME NEW e \in Entry \cup {NoRate}
  PROVE  /\ e.rate \in 0..MaxQuotes /\ e.age \in Age /\ e.left \in 0..TTL
         /\ e.rate # Unknown <=> e \in Entry
         /\ e \in Entry <=> e.left \in 1..TTL
         /\ e \notin Entry => e = NoRate /\ e.left = 0
BY AgeFacts, RateAssumption DEF Entry, NoRate, Unknown, Rate

\* No rate is cached and nobody has one before the first call.
LEMMA InitCInv == Init => CInv
<1> SUFFICES ASSUME Init PROVE CInv
  OBVIOUS
<1>1. CallersOK
  BY AgeFacts, RateAssumption DEF Init, CallersOK, Unknown
<1> QED
  BY <1>1 DEF Init, CInv, CacheOK, HandsFull, Young, NoRate

\* A caller takes a rate in hand.
LEMMA HaveType ==
  ASSUME CallersOK, HandsFull, NEW c \in Caller, NEW r \in 0..MaxQuotes, NEW a \in Age,
         NEW ph \in {"idle", "reading", "fetching", "writing", "answered"},
         Have(c, r, a, ph), ph = "writing" => r # Unknown,
         UNCHANGED <<quote, slowest>>, Fault \/ NoFault
  PROVE  CallersOK' /\ HandsFull'
<1>1. faults' \in 0..MaxFaults
  BY RateAssumption DEF CallersOK, Fault, NoFault
<1>2. /\ phase' \in [Caller -> {"idle", "reading", "fetching", "writing", "answered"}]
      /\ rate' \in [Caller -> 0..MaxQuotes] /\ age' \in [Caller -> Age]
  BY DEF CallersOK, Have, Go
<1>3. HandsFull'
  BY DEF CallersOK, HandsFull, Have, Go
<1> QED
  BY <1>1, <1>2, <1>3 DEF CallersOK

\* What is written is younger than it says, and so is what gets older.
LEMMA PutYoung ==
  ASSUME CallersOK, NEW c \in Caller, rate[c] # Unknown, Put(c)
  PROVE  CacheOK' /\ slowest' \in Age
<1>1. rate[c] \in Rate /\ age[c] \in Age /\ slowest \in Age
  BY DEF CallersOK, Rate, Unknown
<1>a. slowest \in Nat /\ age[c] \in Nat
  BY <1>1, AgeFacts
<1>2. slowest' \in Age /\ age[c] <= slowest'
  BY <1>1, <1>a DEF Put
<1>3. cache' \in Entry
  BY <1>1, RateAssumption DEF Put, Fresh, Entry
<1>4. cache'.age = age[c] /\ cache'.left = TTL
  BY DEF Put, Fresh
<1> QED
  BY <1>1, <1>2, <1>3, <1>4, AgeFacts, RateAssumption DEF CacheOK, Young

LEMMA TickYoung ==
  ASSUME CacheOK, slowest \in Age, slowest' = slowest, cache' = Aged(cache)
  PROVE  CacheOK'
<1>1. CASE cache.left = 0
  <2>1. cache = NoRate
    BY <1>1, EntryFields DEF CacheOK
  <2>2. cache' = NoRate
    BY <1>1, <2>1 DEF Aged, Cached, NoRate, Unknown
  <2> QED
    BY <2>2 DEF CacheOK, Young, NoRate
<1>2. CASE cache.left = 1
  BY <1>2 DEF Aged, CacheOK, Young, NoRate
<1>3. CASE cache.left > 1
  <2>1. cache \in Entry /\ cache.left \in 1..TTL /\ cache.age \in Age
        /\ cache.rate # Unknown
    BY <1>3, EntryFields DEF CacheOK
  <2>2. cache' = [cache EXCEPT !.left = cache.left - 1, !.age = Older(cache.age)]
    BY <1>3 DEF Aged
  <2>3. Older(cache.age) \in Age /\ Older(cache.age) <= cache.age + 1
    BY <2>1, AgeFacts
  <2>a. cache.left \in Int /\ TTL \in Int /\ cache.left - 1 \in 1..TTL
    BY <1>3, <2>1, RateAssumption
  <2>b. cache.age \in Int /\ slowest \in Int /\ Older(cache.age) \in Int
    BY <2>1, <2>3, RateAssumption DEF Age
  <2>4. cache' \in Entry
    BY <2>1, <2>2, <2>3, <2>a DEF Entry
  <2>5. cache'.age = Older(cache.age) /\ cache'.left = cache.left - 1
        /\ cache'.rate = cache.rate
    BY <2>1, <2>2 DEF Entry
  <2>6. cache.age <= (TTL - cache.left) + slowest
    BY <2>1 DEF CacheOK, Young
  <2>7. Older(cache.age) <= (TTL - (cache.left - 1)) + slowest
    BY <2>3, <2>6, <2>a, <2>b
  <2> QED
    BY <2>4, <2>5, <2>7 DEF CacheOK, Young
<1> QED
  BY <1>1, <1>2, <1>3, EntryFields, RateAssumption DEF CacheOK

\* Calls, hits, fetches, late writes, failures and time keep the invariant.
LEMMA NextCInv == CInv /\ [Next]_rateVars => CInv'
<1> SUFFICES ASSUME CInv, [Next]_rateVars PROVE CInv'
  OBVIOUS
<1>c. CallersOK /\ CacheOK /\ HandsFull
  BY DEF CInv
<1>z. Unknown \in 0..MaxQuotes /\ 0 \in Age
  BY AgeFacts, RateAssumption DEF Unknown
<1>k. ASSUME UNCHANGED <<cache, slowest>> PROVE CacheOK'
  BY <1>k, <1>c DEF CacheOK, Young
<1>1. ASSUME NEW c \in Caller, Call(c) PROVE CInv'
  BY <1>1, <1>c, <1>z, <1>k, HaveType DEF Call, CInv
<1>2. ASSUME NEW c \in Caller, Hit(c) PROVE CInv'
  <2>1. cache.rate \in 0..MaxQuotes /\ cache.age \in Age
    BY <1>c, EntryFields DEF CacheOK
  <2> QED
    BY <1>2, <2>1, <1>c, <1>k, HaveType DEF Hit, CInv
<1>3. ASSUME NEW c \in Caller, Miss(c) PROVE CInv'
  <2>1. Have(c, rate[c], age[c], "fetching")
    BY <1>3, <1>c DEF Miss, Have, CallersOK
  <2>2. rate[c] \in 0..MaxQuotes /\ age[c] \in Age
    BY <1>c DEF CallersOK
  <2> QED
    BY <1>3, <2>1, <2>2, <1>c, <1>k, HaveType DEF Miss, CInv
<1>4. ASSUME NEW c \in Caller, Fetch(c) PROVE CInv'
  <2>1. quote \in 0..MaxQuotes
    BY <1>c DEF CallersOK
  <2> QED
    BY <1>4, <2>1, <1>c, <1>z, <1>k, HaveType DEF Fetch, CInv
<1>5. ASSUME NEW c \in Caller, FetchFails(c) \/ Leave(c) PROVE CInv'
  <2>1. Have(c, Unknown, 0, "idle") /\ UNCHANGED <<quote, cache, slowest>>
        /\ (Fault \/ NoFault)
    BY <1>5 DEF FetchFails, Leave
  <2> QED
    BY <2>1, <1>c, <1>z, <1>k, HaveType DEF CInv
<1>6. ASSUME NEW c \in Caller, Write(c) PROVE CInv'
  <2>1. rate[c] # Unknown
    BY <1>6, <1>c DEF Write, HandsFull
  <2>2. CacheOK' /\ slowest' \in Age
    BY <1>6, <2>1, <1>c, <1>k, PutYoung DEF Write, CallersOK
  <2>3. faults' \in 0..MaxFaults
    BY <1>6, <1>c, RateAssumption DEF Write, Fault, NoFault, CallersOK
  <2>4. CallersOK' /\ HandsFull'
    BY <1>6, <2>2, <2>3, <1>c DEF Write, CallersOK, HandsFull, Go
  <2> QED
    BY <2>2, <2>4 DEF CInv
<1>7. CASE Tick
  <2>1. CacheOK'
    BY <1>7, <1>c, TickYoung DEF Tick, CallersOK
  <2>2. age' \in [Caller -> Age]
    BY <1>7, <1>c, AgeFacts DEF Tick, CallersOK
  <2>3. CallersOK' /\ HandsFull'
    BY <1>7, <2>2, <1>c DEF Tick, NoFault, CallersOK, HandsFull
  <2> QED
    BY <2>1, <2>3 DEF CInv
<1>8. CASE Requote
  <2>1. quote' \in 0..MaxQuotes
    BY <1>8, <1>c, RateAssumption DEF Requote, CallersOK
  <2> QED
    BY <1>8, <2>1, <1>c, <1>k DEF Requote, NoFault, callVars, CallersOK, HandsFull, CInv
<1>9. CASE SpoilCache
  <2>1. faults' \in 0..MaxFaults
    BY <1>9, <1>c, RateAssumption DEF SpoilCache, Fault, CallersOK
  <2>2. CacheOK'
    BY <1>9 DEF SpoilCache, CacheOK, Young, NoRate
  <2> QED
    BY <1>9, <2>1, <2>2, <1>c DEF SpoilCache, callVars, CallersOK, HandsFull, CInv
<1>10. CASE UNCHANGED rateVars
  BY <1>10, <1>c, <1>k DEF rateVars, CallersOK, HandsFull, CInv
<1> QED
  BY <1>1, <1>2, <1>3, <1>4, <1>5, <1>6, <1>7, <1>8, <1>9, <1>10 DEF Next, CallerStep

-----------------------------------------------------------------------------
\* The invariant holds throughout.
LEMMA CInvariant == Spec => []CInv
BY InitCInv, NextCInv, PTL DEF Spec

\* A cached rate is no older than its time in the cache and the longest delay of
\* a write, for any callers and TTL.
THEOREM CachedRatesAreYoung == Spec => []RateInv
BY CInvariant, CInvIsRateInv, PTL

\* What a hit returns is younger than the TTL and that delay.
THEOREM HitsStayYoung == Spec => HitsAreYoung
<1>1. ASSUME CInv, [Next]_rateVars
      PROVE  [\A c \in Caller :
                (phase[c] = "reading" /\ phase'[c] = "answered")
                  => age'[c] < TTL + slowest]_rateVars
  <2> SUFFICES ASSUME Next, NEW c \in Caller,
                      phase[c] = "reading", phase'[c] = "answered"
               PROVE  age'[c] < TTL + slowest
    BY <1>1
  <2>c. CallersOK /\ CacheOK
    BY <1>1 DEF CInv
  <2>1. Hit(c)
    <3>1. CASE Tick \/ Requote \/ SpoilCache
      BY <3>1 DEF Tick, Requote, SpoilCache, callVars
    <3>2. ASSUME NEW d \in Caller, Call(d) \/ CallerStep(d) \/ Leave(d)
          PROVE  Hit(c)
      <4>1. CASE d = c
        BY <3>2, <4>1, <2>c
        DEF CallerStep, Call, Miss, Fetch, FetchFails, Write, Leave, Have, Go, CallersOK
      <4>2. CASE d # c
        BY <3>2, <4>2, <2>c
        DEF CallerStep, Call, Hit, Miss, Fetch, FetchFails, Write, Leave, Have, Go,
            CallersOK
      <4> QED
        BY <4>1, <4>2
    <3> QED
      BY <3>1, <3>2 DEF Next
  <2>2. age'[c] = cache.age /\ cache.rate # Unknown
    BY <2>1, <2>c DEF Hit, Have, Cached, CallersOK
  <2>3. cache.left \in 1..TTL /\ cache.age \in Age
    BY <2>2, <2>c, EntryFields DEF CacheOK
  <2>4. cache.age <= (TTL - cache.left) + slowest
    BY <2>2, <2>c DEF CacheOK, Young
  <2>5. cache.age \in Int /\ slowest \in Int /\ TTL \in Int
    BY <2>3, <2>c, RateAssumption DEF CallersOK, Age
  <2> QED
    BY <2>2, <2>3, <2>4, <2>5
<1> QED
  BY <1>1, CInvariant, PTL DEF Spec, HitsAreYoung
=============================================================================
