---------------------------- MODULE CreditLedger ----------------------------
(***************************************************************************)
(* The prepaid credits of one user: a wallet, its credit lots, the holds   *)
(* of requests under way and an append-only ledger, all rows of one D1     *)
(* database, and the Workers that change them: chat requests, the minute   *)
(* reaper, the daily expiry job and the payment provider's webhooks.       *)
(*                                                                         *)
(* A D1 batch is one transaction: it commits whole or, when a CHECK or a   *)
(* UNIQUE constraint or the database itself fails, not at all.  So every   *)
(* batch is one step, and a SELECT whose rows are used later is another.   *)
(* Anything may come between two steps, a Worker may die there, and the    *)
(* answer to a batch may be lost after it has committed.                   *)
(*                                                                         *)
(* The wallet row is made by a hook after sign-up, which may fail, or by   *)
(* the first order that is paid.  Until then there is none, and an UPDATE  *)
(* of it changes nothing and is no error.                                  *)
(***************************************************************************)
EXTENDS Integers, FiniteSets, Functions

CONSTANTS
  Request,        \* chat requests
  Orders,         \* bound: how many packs are bought, numbered by age
  Refund,         \* refunds made at the payment provider
  RefundedOrder,  \* the order a refund is for
  Requested,      \* the credits that the refunded money bought
  Disputed,       \* the refunds that are disputes
  Delivery,       \* webhook calls handled at one time
  Credits,        \* micro-dollars in a pack
  Estimate,       \* what estimateHold() reserves for a request
  Overrun,        \* bound: how far a charge may exceed the estimate
  None

Order == 1 .. Orders

ASSUME RowsAssumption == IsFiniteSet(Request) /\ IsFiniteSet(Refund)
ASSUME OrdersAssumption == Orders \in Nat
ASSUME CreditsAssumption == Credits \in Nat \ {0}
ASSUME EstimateAssumption == Estimate \in [Request -> Nat \ {0}] /\ Overrun \in Nat
ASSUME RefundAssumption ==
  /\ RefundedOrder \in [Refund -> Order]
  /\ Requested \in [Refund -> 0 .. Credits]
  /\ Disputed \subseteq Refund

VARIABLES
  opened,     \* the wallet has a row
  balance, held, frozen,  \* the wallet
  unmet,      \* history: refunds processed when there was no wallet
  lot,        \* remaining credits of an order's lot, 0 when there is no row
  status,     \* status of a request's hold, "none" when there is no row
  ledger,     \* amounts by kind and idempotency key, 0 when there is no row
  absorbed,   \* requests with an absorbed_costs row
  processed,  \* webhook events with a processed_webhooks row
  stream,     \* where a request's Worker is
  generated,  \* the upstream has sent text, tool calls or usage
  expired,    \* requests whose hold has outlived its time
  reaping,    \* rows the reaper has selected and not handled yet
  due,        \* lots 1 .. due are past their date
  expiring,   \* rows the expiry job has selected and not handled yet
  delivery    \* what each webhook call is doing

money == <<balance, held, lot, status, ledger, absorbed>>
chatting == <<stream, generated>>
reaper == <<expired, reaping>>
calendar == <<due, expiring>>
account == <<opened, frozen, unmet>>
hooks == <<account, processed, delivery>>
vars == <<money, chatting, reaper, calendar, hooks>>

-----------------------------------------------------------------------------
Active(q) == status[q] = "active"

\* Never zero, as long as the minimum charge of a rate is not: the ledger has CHECK
\* (amount_micros != 0).
Charge(q) == 1 .. Estimate[q] + Overrun
Least(a, b) == IF a <= b THEN a ELSE b

\* Credits in the lots that expire before lot o.
Prior(o) == SumFunctionOnSet(lot, 1 .. o - 1)

\* A debit empties the lots in the order they expire.
ConsumeLots(debit) ==
  [o \in Order |-> IF debit <= Prior(o) THEN lot[o]
                   ELSE IF debit >= Prior(o) + lot[o] THEN 0
                   ELSE Prior(o) + lot[o] - debit]

Idle == [at |-> "idle", of |-> None, lot |-> 0, wallet |-> 0]

Init ==
  /\ opened = FALSE /\ balance = 0 /\ held = 0 /\ frozen = FALSE /\ unmet = {}
  /\ lot = [o \in Order |-> 0]
  /\ status = [q \in Request |-> "none"]
  /\ ledger = [purchase |-> [o \in Order |-> 0], expiry |-> [o \in Order |-> 0],
               usage |-> [q \in Request |-> 0], refund |-> [r \in Refund |-> 0]]
  /\ absorbed = {}
  /\ processed = [paid |-> {}, refund |-> {}]
  /\ stream = [q \in Request |-> "idle"]
  /\ generated = {}
  /\ expired = {} /\ reaping = {}
  /\ due = 0 /\ expiring = {}
  /\ delivery = [d \in Delivery |-> Idle]

-----------------------------------------------------------------------------
\* The four batches of ledger.ts.  The last three change nothing unless the
\* hold is still active, so they may be tried again and may come too late.
Reserve(q) ==
  /\ opened /\ ~frozen /\ balance - held >= Estimate[q]
  /\ status' = [status EXCEPT ![q] = "active"]
  /\ held' = held + Estimate[q]
  /\ UNCHANGED <<balance, lot, ledger, absorbed>>

Covered(amount) == balance >= amount

\* Faulty variants: a settlement that comes too late debits the wallet, or
\* empties the lots, and a late release counts.
Settle_Late(q, c) ==
  /\ ~Active(q) /\ Covered(c)
  /\ balance' = balance - c
  /\ UNCHANGED <<held, lot, status, ledger, absorbed>>

Settle_LateLots(q, c) ==
  /\ ~Active(q)
  /\ lot' = ConsumeLots(c)
  /\ UNCHANGED <<balance, held, status, ledger, absorbed>>

AbsorbAndRelease_Late(q) ==
  /\ absorbed' = absorbed \cup {q}
  /\ held' = held - Estimate[q]
  /\ status' = [status EXCEPT ![q] = "released"]
  /\ UNCHANGED <<balance, lot, ledger>>

Settle(q, c) ==
  \/ ~Active(q) /\ UNCHANGED money
  \/ /\ Active(q) /\ Covered(c)
     /\ ledger' = [ledger EXCEPT !.usage[q] = -c]
     /\ lot' = ConsumeLots(c)
     /\ balance' = balance - c
     /\ held' = held - Estimate[q]
     /\ status' = [status EXCEPT ![q] = "settled"]
     /\ UNCHANGED absorbed

Release(q) ==
  \/ ~Active(q) /\ UNCHANGED money
  \/ /\ Active(q)
     /\ held' = held - Estimate[q]
     /\ status' = [status EXCEPT ![q] = "released"]
     /\ UNCHANGED <<balance, lot, ledger, absorbed>>

AbsorbAndRelease(q) ==
  \/ ~Active(q) /\ UNCHANGED money
  \/ /\ Active(q)
     /\ absorbed' = absorbed \cup {q}
     /\ held' = held - Estimate[q]
     /\ status' = [status EXCEPT ![q] = "released"]
     /\ UNCHANGED <<balance, lot, ledger>>

-----------------------------------------------------------------------------
Goes(q, place) == stream' = [stream EXCEPT ![q] = place]

\* A request reserves its hold and opens the stream; when the answer to the
\* batch is lost it fails and leaves the hold to the reaper.
Chat(q) ==
  /\ stream[q] = "idle"
  /\ Reserve(q)
  /\ Goes(q, "open") \/ Goes(q, "done")
  /\ UNCHANGED <<generated, reaper, calendar, hooks>>

Generate(q) ==
  /\ stream[q] = "open" /\ q \notin generated
  /\ generated' = generated \cup {q}
  /\ UNCHANGED <<money, stream, reaper, calendar, hooks>>

\* The stream ended with its usage: settle, and absorb the cost if that throws.
Complete(q) ==
  /\ stream[q] = "open" /\ q \in generated
  /\ \/ \E c \in Charge(q) : Settle(q, c) /\ (Goes(q, "done") \/ Goes(q, "fallback"))
     \/ UNCHANGED money /\ Goes(q, "fallback")
  /\ UNCHANGED <<generated, reaper, calendar, hooks>>

\* The client went away: settle from what is known, and let a failure be.
ClientAborts(q) ==
  /\ stream[q] = "open"
  /\ (\E c \in Charge(q) : Settle(q, c)) \/ UNCHANGED money
  /\ Goes(q, "done")
  /\ UNCHANGED <<generated, reaper, calendar, hooks>>

\* Faulty variant: what was generated is forgotten.
UpstreamFails_Free(q) ==
  /\ stream[q] = "open"
  /\ Release(q)
  /\ Goes(q, "done")
  /\ UNCHANGED <<generated, reaper, calendar, hooks>>

\* The upstream failed, before it sent anything or after.
UpstreamFails(q) ==
  /\ stream[q] = "open"
  /\ \/ q \notin generated /\ Release(q)
     \/ q \in generated /\ AbsorbAndRelease(q)
     \/ UNCHANGED money
  /\ Goes(q, "done")
  /\ UNCHANGED <<generated, reaper, calendar, hooks>>

\* The stream ended without its usage, or settling it threw.
OperatorPays(q) ==
  /\ stream[q] \in {"open", "fallback"}
  /\ AbsorbAndRelease(q) \/ UNCHANGED money
  /\ Goes(q, "done")
  /\ UNCHANGED <<generated, reaper, calendar, hooks>>

WorkerDies(q) ==
  /\ stream[q] \in {"open", "fallback"}
  /\ Goes(q, "done")
  /\ UNCHANGED <<money, generated, reaper, calendar, hooks>>

-----------------------------------------------------------------------------
HoldExpires(q) ==
  /\ Active(q) /\ q \notin expired
  /\ expired' = expired \cup {q}
  /\ UNCHANGED <<money, chatting, reaping, calendar, hooks>>

\* Faulty variant: the comparison with expires_at the wrong way round.
ReaperSelects_Young ==
  /\ reaping = {}
  /\ reaping' = {q \in Request \ expired : Active(q)}
  /\ reaping' # {}
  /\ UNCHANGED <<money, chatting, expired, calendar, hooks>>

ReaperSelects ==
  /\ reaping = {}
  /\ reaping' = {q \in expired : Active(q)}
  /\ reaping' # {}
  /\ UNCHANGED <<money, chatting, expired, calendar, hooks>>

ReapHold(q) ==
  /\ q \in reaping
  /\ AbsorbAndRelease(q)
  /\ reaping' = reaping \ {q}
  /\ UNCHANGED <<chatting, expired, calendar, hooks>>

\* A batch throws, or the Worker dies: the rest waits for the next minute.
ReaperFails ==
  /\ reaping # {}
  /\ reaping' = {}
  /\ UNCHANGED <<money, chatting, expired, calendar, hooks>>

-----------------------------------------------------------------------------
LotFallsDue ==
  /\ due < Orders /\ due + 1 \in processed.paid
  /\ due' = due + 1
  /\ UNCHANGED <<money, chatting, reaper, expiring, hooks>>

ExpirySelects ==
  /\ expiring = {}
  /\ held = 0
  /\ expiring' = {o \in 1 .. due : lot[o] > 0}
  /\ expiring' # {}
  /\ UNCHANGED <<money, chatting, reaper, due, hooks>>

\* The batch takes what the lot holds now; it does not look at the holds again.
ExpireLot ==
  \E o \in expiring :
    /\ \A p \in expiring : o <= p
    /\ \/ /\ Covered(lot[o])
          /\ ledger' = [ledger EXCEPT !.expiry[o] = @ - lot[o]]
          /\ balance' = balance - lot[o]
          /\ lot' = [lot EXCEPT ![o] = 0]
          /\ expiring' = expiring \ {o}
       \/ expiring' = {} /\ UNCHANGED <<balance, lot, ledger>>   \* it throws
    /\ UNCHANGED <<held, status, absorbed, chatting, reaper, due, hooks>>

-----------------------------------------------------------------------------
\* The hook that follows sign-up, unless it fails: it waits for the payment
\* provider first, and no webhook waits for it.
OpenWallet ==
  /\ ~opened
  /\ opened' = TRUE
  /\ UNCHANGED <<money, chatting, reaper, calendar, frozen, unmet, processed, delivery>>

\* A webhook call, delivered at least once and in any order.  The first look at
\* processed_webhooks only saves work; the UNIQUE key of the batch decides.
Becomes(d, state) == delivery' = [delivery EXCEPT ![d] = state]

OrderPaid(d, o) ==
  /\ delivery[d] = Idle /\ o \notin processed.paid
  /\ Becomes(d, [Idle EXCEPT !.at = "grant", !.of = o])
  /\ UNCHANGED <<money, chatting, reaper, calendar, account, processed>>

\* The UNIQUE key refuses a second row for an event.
Duplicate_Allowed(kind, e) == FALSE
Duplicate(kind, e) == e \in processed[kind]

\* INSERT OR IGNORE: an order that is paid opens the wallet if nothing has.
GrantOrder(d) ==
  /\ delivery[d].at = "grant"
  /\ Becomes(d, Idle)
  /\ LET o == delivery[d].of IN
       \/ Duplicate("paid", o) /\ UNCHANGED <<opened, processed, ledger, balance, lot>>
       \/ /\ ~Duplicate("paid", o)
          /\ opened' = TRUE
          /\ processed' = [processed EXCEPT !.paid = @ \cup {o}]
          /\ ledger' = [ledger EXCEPT !.purchase[o] = Credits]
          /\ balance' = balance + Credits
          /\ lot' = [lot EXCEPT ![o] = Credits]
  /\ UNCHANGED <<held, status, absorbed, chatting, reaper, calendar, frozen, unmet>>

RefundCreated(d, r) ==
  /\ delivery[d] = Idle /\ r \notin processed.refund
  /\ Becomes(d, [Idle EXCEPT !.at = "lot", !.of = r])
  /\ UNCHANGED <<money, chatting, reaper, calendar, account, processed>>

ReadLot(d) ==
  /\ delivery[d].at = "lot"
  /\ Becomes(d, [delivery[d] EXCEPT !.at = "wallet",
                   !.lot = lot[RefundedOrder[delivery[d].of]]])
  /\ UNCHANGED <<money, chatting, reaper, calendar, account, processed>>

ReadWallet(d) ==
  /\ delivery[d].at = "wallet"
  /\ Becomes(d, [delivery[d] EXCEPT !.at = "reverse", !.wallet = balance])
  /\ UNCHANGED <<money, chatting, reaper, calendar, account, processed>>

Reversal(d) ==
  Least(Requested[delivery[d].of], Least(delivery[d].lot, delivery[d].wallet))

\* A dispute freezes the wallet; faulty variant: only with credits to take back.
Freezes_ForCredits(d) == delivery[d].of \in Disputed /\ Reversal(d) > 0
Freezes(d) == delivery[d].of \in Disputed

ReverseRefund(d) ==
  /\ delivery[d].at = "reverse"
  /\ Becomes(d, Idle)
  /\ LET r == delivery[d].of
         o == RefundedOrder[r]
         reversal == Reversal(d)
     IN \/ Duplicate("refund", r) /\ UNCHANGED <<processed, frozen, unmet, ledger, balance, lot>>
        \/ /\ ~Duplicate("refund", r)
           /\ Covered(reversal)
           /\ processed' = [processed EXCEPT !.refund = @ \cup {r}]
           /\ frozen' = (frozen \/ (opened /\ Freezes(d)))
           /\ unmet' = IF opened THEN unmet ELSE unmet \cup {r}
           /\ ledger' = [ledger EXCEPT !.refund[r] = -reversal]
           /\ balance' = balance - reversal
           /\ lot' = [lot EXCEPT ![o] = IF @ >= reversal THEN @ - reversal ELSE @]
  /\ UNCHANGED <<opened, held, status, absorbed, chatting, reaper, calendar>>

\* The call fails before its batch commits; the provider delivers it again.
CallFails(d) ==
  /\ delivery[d] # Idle
  /\ Becomes(d, Idle)
  /\ UNCHANGED <<money, chatting, reaper, calendar, account, processed>>

\* A user who leaves is anonymised and the wallet, if there is one, frozen.
Anonymize ==
  /\ opened /\ ~frozen
  /\ frozen' = TRUE
  /\ UNCHANGED <<money, chatting, reaper, calendar, opened, unmet, processed, delivery>>

-----------------------------------------------------------------------------
ChatStep(q) ==
  \/ Chat(q) \/ Generate(q) \/ Complete(q) \/ ClientAborts(q)
  \/ UpstreamFails(q) \/ OperatorPays(q) \/ WorkerDies(q)
JobStep ==
  \/ ReaperSelects \/ ReaperFails \/ LotFallsDue \/ ExpirySelects \/ ExpireLot
  \/ \E q \in Request : HoldExpires(q) \/ ReapHold(q)
HookStep(d) ==
  \/ GrantOrder(d) \/ ReadLot(d) \/ ReadWallet(d) \/ ReverseRefund(d) \/ CallFails(d)
  \/ \E o \in Order : OrderPaid(d, o)
  \/ \E r \in Refund : RefundCreated(d, r)

Next ==
  \/ \E q \in Request : ChatStep(q)
  \/ JobStep
  \/ \E d \in Delivery : HookStep(d)
  \/ OpenWallet \/ Anonymize

Spec == Init /\ [][Next]_vars

\* Time passes, the cron runs every minute, and the reaper's batch does not
\* fail for ever.  Nothing is asked of the chat Workers, which may die.
FairSpec ==
  /\ Spec
  /\ WF_vars(ReaperSelects)
  /\ \A q \in Request : WF_vars(HoldExpires(q)) /\ SF_vars(ReapHold(q))

-----------------------------------------------------------------------------
TypeOK ==
  /\ opened \in BOOLEAN /\ frozen \in BOOLEAN /\ unmet \subseteq Refund
  /\ balance \in Nat /\ held \in Nat
  /\ lot \in [Order -> 0 .. Credits]
  /\ status \in [Request -> {"none", "active", "settled", "released"}]
  /\ ledger \in [purchase : [Order -> {0, Credits}], expiry : [Order -> Int],
                  usage : [Request -> Int], refund : [Refund -> Int]]
  /\ absorbed \subseteq Request
  /\ processed \in [paid : SUBSET Order, refund : SUBSET Refund]
  /\ stream \in [Request -> {"idle", "open", "fallback", "done"}]
  /\ generated \subseteq Request
  /\ expired \subseteq Request /\ reaping \subseteq Request
  /\ due \in 0 .. Orders /\ expiring \subseteq Order
  /\ delivery \in
       [Delivery -> [at : {"idle", "grant", "lot", "wallet", "reverse"},
                     of : Order \cup Refund \cup {None}, lot : Nat, wallet : Nat]]

\* The wallet's held_micros is the sum of the active holds, whoever settles,
\* releases or reaps them and however late (the hold_mismatches that
\* reconcile() reports every day).
HeldIsActive ==
  held = SumFunctionOnSet(Estimate, {q \in Request : Active(q)})

\* The wallet's balance is the sum of the ledger (its balance_mismatches).
BalanceIsLedger ==
  balance = SumFunction(ledger.purchase) + SumFunction(ledger.expiry)
              + SumFunction(ledger.usage) + SumFunction(ledger.refund)

\* Every credit that can be spent lies in a lot, so it has a date on which it
\* expires.  settle(), the refund and the expiry each move both sums.
LotsCoverBalance == SumFunction(lot) >= balance

\* A request is billed to the user or absorbed by the operator, never both,
\* and only once its hold has gone the same way, though its own Worker, its
\* fallback and the reaper may all try.
ResolvedOnce ==
  \A q \in Request :
    /\ ledger.usage[q] # 0 <=> status[q] = "settled"
    /\ q \in absorbed => status[q] = "released"

\* What the upstream generated is never given away unrecorded: a hold released
\* after generation leaves an absorbed_costs row.
NoFreeInference ==
  \A q \in generated : status[q] = "released" => q \in absorbed

\* A dispute that finds a wallet freezes it for good, whether or not any credits
\* are left to take back, on whatever reads its reversal was computed, and though
\* an order may be paid again afterwards.  One that finds none (unmet) freezes nothing,
\* and neither does the order that then opens the wallet.
DisputeFreezes == \A r \in processed.refund \cap Disputed : frozen \/ r \in unmet

\* A hold never outlives its request for good, even when the Worker dies or
\* the answer to reserve() is lost: the reaper ends it.
EveryHoldEnds == \A q \in Request : Active(q) ~> ~Active(q)

\* README.md: consumed credits are never refunded.  What is left of a lot, was
\* refunded from it and expired in it is never more than was bought.
NoConsumedRefund ==
  \A o \in Order :
    lot[o] - ledger.expiry[o]
      - SumFunctionOnSet(ledger.refund, {r \in Refund : RefundedOrder[r] = o})
      <= ledger.purchase[o]

=============================================================================
