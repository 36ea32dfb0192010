------------------------------- MODULE Schema -------------------------------
(***************************************************************************)
(* TransactionEvent of app/schemas.py, validated twice: by the API in the  *)
(* body of a request, and by the worker (_parse of app/consumer.py) in the *)
(* JSON that the first validation was dumped to.                           *)
(*                                                                         *)
(* A currency is a sequence of characters, of which only what strip, upper *)
(* and isalpha tell apart is kept.  A timestamp is a time and the offset   *)
(* of its zone; a datetime has a first and a last time.  Ids and amounts   *)
(* come out of a validation as they went in.  A behaviour is one event's   *)
(* way through both validations.                                           *)
(***************************************************************************)
EXTENDS Integers, SequencesExt

CONSTANTS
  MaxLength,  \* bound: characters of a currency
  MaxTime,    \* datetime.max; datetime.min is 0
  Offset,     \* the zones that clients use
  Naive       \* no zone

ASSUME SchemaAssumption ==
  /\ MaxLength \in Nat /\ MaxTime \in Nat
  /\ Offset \subseteq Int /\ Naive \notin Int

UTC == 0

Char ==
  {"upper", "lower",  \* letters
   "sharp",           \* one that is two in upper case
   "blank",
   "other"}           \* not a letter
Letter == {"upper", "lower", "sharp"}

Currency == UNION {[1..n -> Char] : n \in 0..MaxLength}
Timestamp == [time : 0..MaxTime, zone : Offset \cup {Naive}]
Event == [currency : Currency, timestamp : Timestamp]

VARIABLES
  stage,  \* "idle", "posted", "queued", "refused", "broken", "parsed", "dead"
  body,   \* what the client sent
  event   \* the payload of the queue entry, then the event of the worker

schemaVars == <<stage, body, event>>

-----------------------------------------------------------------------------
(* Field(min_length=3, max_length=3), and then _normalise_currency.        *)
Strip(s) ==
  LET ink == {i \in DOMAIN s : s[i] # "blank"}
  IN IF ink = {} THEN <<>> ELSE SubSeq(s, Min(ink), Max(ink))

UpperChar(c) ==
  CASE c = "lower" -> <<"upper">>
    [] c = "sharp" -> <<"upper", "upper">>
    [] OTHER -> <<c>>
Upper(s) == FlattenSeq([i \in DOMAIN s |-> UpperChar(s[i])])

Normalise(s) == Upper(Strip(s))

\* (Bug variant: anything but an empty code.)
IsAlphaNotEmpty(s) == s # <<>>
IsAlpha(s) == s # <<>> /\ \A i \in DOMAIN s : s[i] \in Letter

CurrencyValid(s) == Len(s) = 3 /\ IsAlpha(Normalise(s))

(* _to_utc: replace(tzinfo=UTC), or astimezone(UTC), which overflows at    *)
(* the ends of time: an OverflowError is no ValueError.                    *)
\* (Bug variants: the offset is added; the zone of the client is kept beside
\* the UTC time.)
ToUtcAdded(t) ==
  IF t.zone = Naive THEN [t EXCEPT !.zone = UTC]
  ELSE [time |-> t.time + t.zone, zone |-> UTC]
ToUtcZoned(t) ==
  IF t.zone = Naive THEN [t EXCEPT !.zone = UTC] ELSE [t EXCEPT !.time = @ - t.zone]
ToUtc(t) ==
  IF t.zone = Naive THEN [t EXCEPT !.zone = UTC]
  ELSE [time |-> t.time - t.zone, zone |-> UTC]

Overflows(t) == ToUtc(t).time \notin 0..MaxTime

Validated(e) ==
  [currency |-> Normalise(e.currency), timestamp |-> ToUtc(e.timestamp)]

-----------------------------------------------------------------------------
Nothing == [currency |-> <<>>, timestamp |-> [time |-> 0, zone |-> UTC]]

Init == stage = "idle" /\ body = Nothing /\ event = Nothing

Post(e) ==
  /\ stage = "idle"
  /\ stage' = "posted" /\ body' = e /\ event' = Nothing

\* The API validates the body: queued (202), 422, or 500.
Judge ==
  /\ stage = "posted"
  /\ \/ /\ Overflows(body.timestamp)
        /\ stage' = "broken" /\ UNCHANGED event
     \/ /\ ~Overflows(body.timestamp) /\ CurrencyValid(body.currency)
        /\ stage' = "queued" /\ event' = Validated(body)
     \/ /\ ~Overflows(body.timestamp) /\ ~CurrencyValid(body.currency)
        /\ stage' = "refused" /\ UNCHANGED event
  /\ UNCHANGED body

\* The worker validates the payload: an event, or InvalidEventError.
Parse ==
  /\ stage = "queued"
  /\ \/ /\ CurrencyValid(event.currency)
        /\ stage' = "parsed" /\ event' = Validated(event)
     \/ /\ ~CurrencyValid(event.currency)
        /\ stage' = "dead" /\ UNCHANGED event
  /\ UNCHANGED body

Next == (\E e \in Event : Post(e)) \/ Judge \/ Parse

Spec == Init /\ [][Next]_schemaVars

-----------------------------------------------------------------------------
(* What the client meant, said without the validators: a clock in a zone   *)
(* shows the UTC time plus the offset, and a clock without a zone is UTC.  *)
ZoneOf(t) == IF t.zone = Naive THEN UTC ELSE t.zone
SameInstant(t, u) == t.time + ZoneOf(u) = u.time + ZoneOf(t)
InRange(t) == t.time \in ZoneOf(t)..(MaxTime + ZoneOf(t))

\* What the worker stores is what the client sent: the same instant, in UTC, and
\* three capital letters that were three letters when they were sent, unless
\* one of them was of those that are two in upper case.  The second validation
\* changes nothing any more.
ParsedAsAccepted ==
  [][stage = "queued" /\ stage' = "parsed" =>
       /\ event' = event
       /\ event'.timestamp.zone = UTC /\ SameInstant(event'.timestamp, body.timestamp)
       /\ event'.currency = <<"upper", "upper", "upper">>
       /\ (\A i \in DOMAIN body.currency : body.currency[i] # "sharp")
            => \A i \in DOMAIN body.currency : body.currency[i] \in Letter]_schemaVars

\* The OverflowError of astimezone (schemas.py:59) stays at the API: a request
\* breaks only for an instant outside of datetime, no such instant is queued,
\* and what is queued can be converted again.  The worker would take the error
\* for a bug and try the event until it is over the delivery cap.
OnlyTheApiOverflows ==
  /\ stage = "broken" => ~InRange(body.timestamp)
  /\ stage \in {"queued", "parsed", "dead"} =>
       InRange(body.timestamp) /\ ~Overflows(event.timestamp)

\* An event that was accepted dies in the worker only when strip or upper gave
\* its currency another length, never for its letters or its timestamp.
DeadByLengthOnly ==
  stage = "dead" =>
    Len(event.currency) # 3 /\ \A i \in DOMAIN event.currency : event.currency[i] \in Letter
=============================================================================
