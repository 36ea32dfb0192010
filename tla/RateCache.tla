----------------------------- MODULE RateCache -----------------------------
(***************************************************************************)
(* ExchangeRateProvider.get_rate of app/rates.py: coroutines of any number *)
(* of workers over one rate source and one cache key in Redis, for one     *)
(* currency other than USD.  The source is the pluggable RateSource: its   *)
(* rate may change, it may fail, and it may not know the currency.         *)
(*                                                                         *)
(* A rate is the number of the quote it comes from.  Each rate carries its *)
(* age, in ticks since the source gave it: nobody in the code knows it,    *)
(* it is there for the properties.  Ages saturate at MaxAge.               *)
(***************************************************************************)
EXTENDS Integers

CONSTANTS
  Caller,     \* coroutines inside get_rate, of any worker
  TTL,        \* settings.rates_cache_ttl, in ticks
  MaxAge,     \* bound: ages are told apart up to here
  MaxQuotes,  \* bound: quotes of the source in a behaviour
  MaxFaults   \* bound: failed calls, crashes and cache losses

ASSUME RateAssumption ==
  /\ TTL \in Nat \ {0}
  /\ MaxAge \in Nat
  /\ MaxQuotes \in Nat \ {0} /\ MaxFaults \in Nat

Rate == 1..MaxQuotes
Age == 0..MaxAge
Unknown == 0  \* the source does not know the currency

VARIABLES
  quote,    \* what the source would answer now
  cache,    \* the key rate:<currency>
  phase,    \* per caller: "idle", "reading", "fetching", "writing", "answered"
  rate,     \* per caller: the rate in hand, or answered
  age,      \* per caller: its age
  slowest,  \* the longest that a write to the cache came after its fetch
  faults

rateVars == <<quote, cache, phase, rate, age, slowest, faults>>
callVars == <<phase, rate, age>>

\* A rate expires in `left` ticks.  Without a rate there is no key, or one
\* whose value Decimal() refuses; either stays until a caller writes.
Entry == [rate : Rate, age : Age, left : 1..TTL]
NoRate == [rate |-> Unknown, age |-> 0, left |-> 0]

TypeOK ==
  /\ quote \in 0..MaxQuotes
  /\ cache \in Entry \cup {NoRate}
  /\ phase \in [Caller -> {"idle", "reading", "fetching", "writing", "answered"}]
  /\ rate \in [Caller -> 0..MaxQuotes] /\ age \in [Caller -> Age]
  /\ slowest \in Age /\ faults \in 0..MaxFaults

Init ==
  /\ quote \in {Unknown, 1}
  /\ cache = NoRate
  /\ phase = [c \in Caller |-> "idle"]
  /\ rate = [c \in Caller |-> Unknown] /\ age = [c \in Caller |-> 0]
  /\ slowest = 0 /\ faults = 0

Fault == faults < MaxFaults /\ faults' = faults + 1
NoFault == UNCHANGED faults

Older(a) == IF a < MaxAge THEN a + 1 ELSE MaxAge
Cached == cache.rate # Unknown
Go(c, ph) == phase' = [phase EXCEPT ![c] = ph]

\* c has the rate r of age a, and is at ph with it.
Have(c, r, a, ph) ==
  /\ Go(c, ph)
  /\ rate' = [rate EXCEPT ![c] = r] /\ age' = [age EXCEPT ![c] = a]

-----------------------------------------------------------------------------
Call(c) ==
  /\ phase[c] \in {"idle", "answered"}
  /\ Have(c, Unknown, 0, "reading")
  /\ NoFault /\ UNCHANGED <<quote, cache, slowest>>

\* _write_cache: SET .. EX ttl.  (Bug variant: SET without EX.)
FreshForEver(r, a) == [rate |-> r, age |-> a, left |-> 0]
Fresh(r, a) == [rate |-> r, age |-> a, left |-> TTL]

\* _read_cache: the GET finds a rate, and that is the answer.
\* (Bug variant: GETEX, so that a rate in use never expires.)
HitTouching(c) ==
  /\ phase[c] = "reading" /\ Cached
  /\ Have(c, cache.rate, cache.age, "answered")
  /\ cache' = Fresh(cache.rate, cache.age)
  /\ NoFault /\ UNCHANGED <<quote, slowest>>
Hit(c) ==
  /\ phase[c] = "reading" /\ Cached
  /\ Have(c, cache.rate, cache.age, "answered")
  /\ NoFault /\ UNCHANGED <<quote, cache, slowest>>

\* No value, one that cannot be read, or Redis does not answer.
Miss(c) ==
  /\ phase[c] = "reading"
  /\ IF Cached THEN Fault ELSE NoFault
  /\ Go(c, "fetching")
  /\ UNCHANGED <<quote, cache, rate, age, slowest>>

\* source.fetch.
Fetch(c) ==
  /\ phase[c] = "fetching" /\ quote # Unknown
  /\ Have(c, quote, 0, "writing")
  /\ NoFault /\ UNCHANGED <<quote, cache, slowest>>

\* UnknownCurrencyError, or RateUnavailableError for whatever went wrong.
FetchFails(c) ==
  /\ phase[c] = "fetching"
  /\ IF quote = Unknown THEN NoFault ELSE Fault
  /\ Have(c, Unknown, 0, "idle")
  /\ UNCHANGED <<quote, cache, slowest>>

\* _write_cache runs its SET.
Put(c) ==
  /\ cache' = Fresh(rate[c], age[c])
  /\ slowest' = IF slowest < age[c] THEN age[c] ELSE slowest

\* The SET is applied, whether its reply arrives or not, or it fails; the rate
\* is the answer in any case.
Write(c) ==
  /\ phase[c] = "writing"
  /\ Go(c, "answered")
  /\ \/ Put(c) /\ NoFault
     \/ UNCHANGED <<cache, slowest>> /\ Fault
  /\ UNCHANGED <<quote, rate, age>>

\* The answer is used, or the coroutine ends before it has one.
Leave(c) ==
  /\ phase[c] # "idle"
  /\ IF phase[c] = "answered" THEN NoFault ELSE Fault
  /\ Have(c, Unknown, 0, "idle")
  /\ UNCHANGED <<quote, cache, slowest>>

-----------------------------------------------------------------------------
\* A key is a tick older; Redis drops it when its time is up.
Aged(e) == CASE e.left = 1 -> NoRate
             [] e.left > 1 -> [e EXCEPT !.left = @ - 1, !.age = Older(@)]
             [] e.left = 0 -> IF Cached THEN [e EXCEPT !.age = Older(@)] ELSE e

Tick ==
  /\ cache' = Aged(cache)
  /\ age' = [c \in Caller |-> IF rate[c] # Unknown THEN Older(age[c]) ELSE 0]
  /\ NoFault /\ UNCHANGED <<quote, phase, rate, slowest>>

\* The market moves.
Requote ==
  /\ quote \in 1..MaxQuotes - 1
  /\ quote' = quote + 1
  /\ NoFault /\ UNCHANGED <<cache, callVars, slowest>>

\* Redis evicts the key, or something else is written to it.
SpoilCache ==
  /\ Cached /\ cache' = NoRate
  /\ Fault /\ UNCHANGED <<quote, callVars, slowest>>

CallerStep(c) == Hit(c) \/ Miss(c) \/ Fetch(c) \/ FetchFails(c) \/ Write(c)

Next ==
  \/ \E c \in Caller : Call(c) \/ CallerStep(c) \/ Leave(c)
  \/ Tick \/ Requote \/ SpoilCache

Spec == Init /\ [][Next]_rateVars

(* Time passes, and a call that has begun goes on.                         *)
FairSpec ==
  /\ Spec
  /\ WF_rateVars(Tick)
  /\ \A c \in Caller : WF_rateVars(CallerStep(c))

-----------------------------------------------------------------------------
\* The inductive invariant of RateCacheProofs: a cached rate, whichever caller
\* wrote it over whichever other one, is no older than the time it has been
\* there and the longest delay between a fetch and its write.
RateInv == TypeOK /\ (Cached => cache.age <= (TTL - cache.left) + slowest)

\* README.md:297 "Rates are cached for 5 minutes and the cached rate is used":
\* a rate that is taken from the cache is younger than that, but for the delay
\* with which somebody wrote it there.
HitsAreYoung ==
  [][\A c \in Caller :
       (phase[c] = "reading" /\ phase'[c] = "answered") => age'[c] < TTL + slowest]_rateVars

\* A caller that fetched an old quote may write it over a newer one, and others
\* may use it, but not for ever: once the source keeps to a quote, the cache
\* gets rid of all others.
QuoteSettles == <>[](Cached => cache.rate = quote)
=============================================================================
