------------------------------- MODULE Pricing -------------------------------
(***************************************************************************)
(* The price agreed with one organisation: the super admin's overrides of  *)
(* it and the waiver of the setup fee (superadmin.subscription.service.ts),*)
(* and the daily job that reverts a price once it has expired              *)
(* (jobs/price-expiry.job.ts).                                             *)
(*                                                                         *)
(* An override reads the row before it writes it, and keeps what it has    *)
(* read where the request says nothing; the job reads the rows once and    *)
(* reverts each by its id. The logs and the cache of plans are left out.   *)
(***************************************************************************)
EXTENDS Integers

CONSTANTS
  Calls,      \* overrides that may be in progress at once
  Prices,     \* the custom prices
  Caps,       \* the custom limits of employees
  LastDay,    \* bound on the days
  MaxCalls    \* bound on the overrides

None == -1    \* a column that is null, a field that is null or missing
Days == 0..LastDay
Locks == {0, 1}

VARIABLES
  row,        \* the columns of org_subscriptions
  day,        \* the day, on which the job runs once
  call,       \* override -> what it has read and was asked for
  visit,      \* whether the job has found the row and not come to it
  served,     \* the last day the job has done with the row, and nothing changed since
  ran,        \* the last day the job was started
  made,       \* how many overrides were made
  agreed,     \* history: the row, had every override and visit been one step
  crossed,    \* history: an override wrote over what changed since it had read
  overtaken   \* history: an override wrote what the job was about to revert

vars == <<row, day, call, visit, served, ran, made, agreed, crossed, overtaken>>

Row == [price : Prices \cup {None}, expires : Days \cup {None}, cap : Caps \cup {None},
        lock : Locks, waived : BOOLEAN]
Input == [price : Prices \cup {None}, expires : Days \cup {None}, cap : Caps \cup {None},
          lock : Locks \cup {None}]
Idle == [op |-> "idle"]
Override == [op : {"override"}, read : Row, input : Input, stale : BOOLEAN]
InFlight == {c \in Calls : call[c] # Idle}

TypeOK ==
  /\ row \in Row /\ agreed \in Row
  /\ call \in [Calls -> {Idle} \cup Override]
  /\ visit \in BOOLEAN
  /\ day \in Days /\ {served, ran} \subseteq Days \cup {None} /\ made \in 0..MaxCalls

Init ==
  /\ row = [price |-> None, expires |-> None, cap |-> None, lock |-> 0, waived |-> FALSE]
  /\ agreed = row
  /\ call = [c \in Calls |-> Idle] /\ visit = FALSE
  /\ day = 0 /\ served = None /\ ran = None /\ made = 0
  /\ crossed = FALSE /\ overtaken = FALSE

(* What is read by the overrides in progress is no longer so. *)
Overlooked == [c \in Calls |->
  IF call[c] = Idle THEN Idle ELSE [call[c] EXCEPT !.stale = TRUE]]

-----------------------------------------------------------------------------
(* overridePricing: where the request has nothing, what was read stays.    *)
Or(field, existing) == IF field # None THEN field ELSE existing

(* A mistaken form: all that was read is written. *)
OverriddenAll(current, existing, input) ==
  [existing EXCEPT !.price = input.price, !.expires = input.expires,
                   !.cap = Or(input.cap, existing.cap), !.lock = Or(input.lock, existing.lock)]

Overridden(current, existing, input) ==
  [current EXCEPT
    !.price = input.price,
    !.cap = Or(input.cap, existing.cap),
    !.lock = Or(input.lock, existing.lock),
    !.expires = IF input.price = None THEN input.expires
                ELSE Or(input.expires, existing.expires)]

OverrideRead(c) ==
  /\ call[c] = Idle /\ made < MaxCalls
  /\ \E input \in Input :
       call' = [call EXCEPT ![c] =
                 [op |-> "override", read |-> row, input |-> input, stale |-> FALSE]]
  /\ made' = made + 1
  /\ UNCHANGED <<row, day, visit, served, ran, agreed, crossed, overtaken>>

OverrideWrite(c) ==
  /\ call[c] # Idle
  /\ row' = Overridden(row, call[c].read, call[c].input)
  /\ agreed' = Overridden(agreed, agreed, call[c].input)
  /\ call' = [Overlooked EXCEPT ![c] = Idle]
  /\ crossed' = (crossed \/ call[c].stale)
  /\ overtaken' = (overtaken \/ visit)
  /\ served' = None
  /\ UNCHANGED <<day, visit, ran, made>>

OverrideFails(c) ==
  /\ call[c] # Idle
  /\ call' = [call EXCEPT ![c] = Idle]
  /\ UNCHANGED <<row, day, visit, served, ran, made, agreed, crossed, overtaken>>

WaiveSetupFee ==
  /\ row' = [row EXCEPT !.waived = TRUE]
  /\ agreed' = [agreed EXCEPT !.waived = TRUE]
  /\ UNCHANGED <<day, call, visit, served, ran, made, crossed, overtaken>>

-----------------------------------------------------------------------------
(* A mistaken form: an expiry that is still to come is selected too. *)
ExpiresOnce(r) == r.price # None /\ r.expires # None

(* runPriceExpiryJob: what it selects does not depend on the lock, which   *)
(* nothing but the super admin's page looks at.                            *)
Expired(r) == r.price # None /\ r.expires # None /\ r.expires <= day

Reverted(r) == [r EXCEPT !.price = None, !.expires = None]

JobFind ==
  /\ ran # day /\ ~visit
  /\ ran' = day
  /\ visit' = Expired(row)
  /\ served' = IF Expired(row) THEN served ELSE day
  /\ UNCHANGED <<row, day, call, made, agreed, crossed, overtaken>>

JobRevert ==
  /\ visit
  /\ row' = Reverted(row)
  /\ agreed' = IF agreed.price # None /\ agreed.expires # None /\ agreed.expires <= day
               THEN Reverted(agreed) ELSE agreed
  /\ call' = Overlooked
  /\ visit' = FALSE
  /\ served' = ran
  /\ UNCHANGED <<day, ran, made, crossed, overtaken>>

(* A statement fails for a row before this one: the loop ends with it. *)
JobFails ==
  /\ visit /\ visit' = FALSE
  /\ UNCHANGED <<row, day, call, served, ran, made, agreed, crossed, overtaken>>

NextDay ==
  /\ day < LastDay /\ day' = day + 1
  /\ UNCHANGED <<row, call, visit, served, ran, made, agreed, crossed, overtaken>>

Next ==
  \/ \E c \in Calls : OverrideRead(c) \/ OverrideWrite(c) \/ OverrideFails(c)
  \/ WaiveSetupFee \/ JobFind \/ JobRevert \/ JobFails \/ NextDay

Spec == Init /\ [][Next]_vars
-----------------------------------------------------------------------------
(* The price, its term, the limit and the lock are those of the overrides  *)
(* in the order they were made, and a price is reverted no sooner than its *)
(* term is over - unless an override wrote over what had changed since it  *)
(* had read, or the job reverted a price made after it had read            *)
(* (superadmin.subscription.service.ts:281-297, price-expiry.job.ts:24-46).*)
PriceAsAgreed == ~crossed /\ ~overtaken => row = agreed

(* When the job has done with the row, its price has not expired on the    *)
(* day of the job (price-expiry.job.ts:24-46).                             *)
ExpiredReverted == served = day => ~Expired(row)

PricesKept == PriceAsAgreed /\ ExpiredReverted
=============================================================================
