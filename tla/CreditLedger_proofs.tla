------------------------- MODULE CreditLedger_proofs -------------------------
(***************************************************************************)
(* What holds of the credit ledger for any number of requests, orders,     *)
(* refunds and webhook calls: how a request's hold ends, and that it ends  *)
(* only one way.  Then the sums, by induction over finite sets of rows:    *)
(* what is held is the sum of the active holds, every credit that can be   *)
(* spent lies in a lot, and the balance is the sum of the ledger.          *)
(***************************************************************************)
EXTENDS CreditLedger, FiniteSetTheorems, WellFoundedInduction, TLAPS

\* The parts of the type invariant the proofs need.
RowTypes ==
  /\ status \in [Request -> {"none", "active", "settled", "released"}]
  /\ stream \in [Request -> {"idle", "open", "fallback", "done"}]
  /\ "usage" \in DOMAIN ledger /\ ledger.usage \in [Request -> Int]
  /\ reaping \subseteq Request /\ expired \subseteq Request
  /\ generated \subseteq Request

\* A request without a hold has not begun.
BegunWithHold ==
  \A q \in Request : /\ status[q] = "none" <=> stream[q] = "idle"
                     /\ q \in generated => stream[q] # "idle"

\* Why no inference is given away: a hold released with nothing absorbed was
\* released by its own Worker, which generated nothing and is at its end.
FreedUnused ==
  \A q \in Request :
    status[q] = "released" /\ q \notin absorbed
      => q \notin generated /\ stream[q] = "done"

HoldInv == RowTypes /\ BegunWithHold /\ ResolvedOnce /\ FreedUnused

\* A usage row is never worth nothing (CHECK(amount_micros != 0)), so its
\* presence can be told from its amount.
LEMMA ChargeIsMoney ==
  ASSUME NEW q \in Request, NEW c \in Charge(q)
  PROVE  -c \in Int /\ -c # 0
  BY EstimateAssumption DEF Charge

LEMMA HoldInit == Init => HoldInv
  BY SMT DEF Init, HoldInv, RowTypes, BegunWithHold, ResolvedOnce, FreedUnused

\* The batch of settle() changes only the rows of its own request.
LEMMA SettleKeeps ==
  ASSUME HoldInv, NEW q \in Request, NEW c \in Charge(q), Settle(q, c),
         stream[q] = "open"
  PROVE  /\ status' \in [Request -> {"none", "active", "settled", "released"}]
         /\ "usage" \in DOMAIN ledger' /\ ledger'.usage \in [Request -> Int]
         /\ absorbed' = absorbed
         /\ ResolvedOnce'
         /\ \A p \in Request : /\ status'[p] = "none" <=> status[p] = "none"
                               /\ status'[p] = "released" <=> status[p] = "released"
<1>1. CASE ~Active(q) /\ UNCHANGED money
  BY <1>1 DEF money, HoldInv, RowTypes, ResolvedOnce
<1>2. CASE Active(q)
  <2>1. /\ ledger' = [ledger EXCEPT !.usage[q] = -c]
        /\ status' = [status EXCEPT ![q] = "settled"]
        /\ absorbed' = absorbed
    BY <1>2 DEF Settle
  <2>2. ledger'.usage = [ledger.usage EXCEPT ![q] = -c] /\ "usage" \in DOMAIN ledger'
    BY <2>1 DEF HoldInv, RowTypes
  <2>3. -c \in Int /\ -c # 0
    BY ChargeIsMoney
  <2>4. ResolvedOnce'
    BY <1>2, <2>1, <2>2, <2>3 DEF HoldInv, RowTypes, ResolvedOnce, Active
  <2> QED
    BY <1>2, <2>1, <2>2, <2>3, <2>4 DEF HoldInv, RowTypes, Active
<1> QED
  BY <1>1, <1>2 DEF Settle

\* So does that of absorbAndRelease(), whoever calls it.
LEMMA AbsorbKeeps ==
  ASSUME HoldInv, NEW q \in Request, AbsorbAndRelease(q)
  PROVE  /\ status' \in [Request -> {"none", "active", "settled", "released"}]
         /\ ledger' = ledger
         /\ ResolvedOnce'
         /\ \A p \in Request :
              /\ status'[p] = "none" <=> status[p] = "none"
              /\ status'[p] = "released" /\ p \notin absorbed'
                   => status[p] = "released" /\ p \notin absorbed
  BY SMT DEF AbsorbAndRelease, Active, money, HoldInv, RowTypes, ResolvedOnce

\* Every step that leaves the rows and the Workers' places alone.
LEMMA OthersKeep ==
  ASSUME HoldInv, UNCHANGED <<status, stream, absorbed, generated>>,
         "usage" \in DOMAIN ledger', ledger'.usage = ledger.usage,
         reaping' \subseteq Request, expired' \subseteq Request
  PROVE  HoldInv'
  BY DEF HoldInv, RowTypes, BegunWithHold, ResolvedOnce, FreedUnused

LEMMA ChatKeeps ==
  ASSUME HoldInv, NEW q \in Request, ChatStep(q)
  PROVE  HoldInv'
<1>1. CASE Chat(q)
  BY <1>1, SMTT(30) DEF Chat, Reserve, Goes, reaper, HoldInv, RowTypes, BegunWithHold,
     ResolvedOnce, FreedUnused
<1>2. CASE Generate(q)
  BY <1>2, SMTT(30) DEF Generate, money, reaper, HoldInv, RowTypes, BegunWithHold,
     ResolvedOnce, FreedUnused
<1>3. CASE Complete(q)
  <2>1. CASE \E c \in Charge(q) : Settle(q, c) /\ (Goes(q, "done") \/ Goes(q, "fallback"))
    <3>1. PICK c \in Charge(q) : Settle(q, c) /\ (Goes(q, "done") \/ Goes(q, "fallback"))
      BY <2>1
    <3>2. stream[q] = "open" /\ q \in generated /\ generated' = generated /\ UNCHANGED reaper
      BY <1>3 DEF Complete, reaper
    <3> QED
      BY <3>1, <3>2, SettleKeeps DEF Goes, reaper, HoldInv, RowTypes, BegunWithHold, FreedUnused
  <2>2. CASE UNCHANGED money /\ Goes(q, "fallback")
    BY <1>3, <2>2 DEF Complete, Goes, money, reaper, HoldInv, RowTypes, BegunWithHold,
       ResolvedOnce, FreedUnused
  <2> QED
    BY <1>3, <2>1, <2>2 DEF Complete
<1>4. CASE ClientAborts(q)
  <2>1. /\ stream[q] = "open" /\ generated' = generated /\ UNCHANGED reaper
        /\ Goes(q, "done")
    BY <1>4 DEF ClientAborts, reaper
  <2>2. CASE \E c \in Charge(q) : Settle(q, c)
    <3>1. PICK c \in Charge(q) : Settle(q, c)
      BY <2>2
    <3> QED
      BY <3>1, <2>1, SettleKeeps DEF Goes, reaper, HoldInv, RowTypes, BegunWithHold, FreedUnused
  <2>3. CASE UNCHANGED money
    BY <2>1, <2>3 DEF Goes, money, reaper, HoldInv, RowTypes, BegunWithHold, ResolvedOnce, FreedUnused
  <2> QED
    BY <1>4, <2>2, <2>3 DEF ClientAborts
<1>5. CASE UpstreamFails(q)
  <2>1. /\ stream[q] = "open" /\ generated' = generated /\ UNCHANGED reaper
        /\ Goes(q, "done")
    BY <1>5 DEF UpstreamFails, reaper
  <2>2. CASE q \notin generated /\ Release(q)
    BY <2>1, <2>2, SMTT(30) DEF Release, Active, Goes, money, reaper, HoldInv, RowTypes,
       BegunWithHold, ResolvedOnce, FreedUnused
  <2>3. CASE AbsorbAndRelease(q)
    BY <2>1, <2>3, AbsorbKeeps DEF Goes, reaper, HoldInv, RowTypes, BegunWithHold, FreedUnused
  <2>4. CASE UNCHANGED money
    BY <2>1, <2>4 DEF Goes, money, reaper, HoldInv, RowTypes, BegunWithHold, ResolvedOnce, FreedUnused
  <2> QED
    BY <1>5, <2>2, <2>3, <2>4 DEF UpstreamFails
<1>6. CASE OperatorPays(q)
  <2>1. /\ stream[q] \in {"open", "fallback"} /\ generated' = generated /\ UNCHANGED reaper
        /\ Goes(q, "done")
    BY <1>6 DEF OperatorPays, reaper
  <2>2. CASE AbsorbAndRelease(q)
    BY <2>1, <2>2, AbsorbKeeps DEF Goes, reaper, HoldInv, RowTypes, BegunWithHold, FreedUnused
  <2>3. CASE UNCHANGED money
    BY <2>1, <2>3 DEF Goes, money, reaper, HoldInv, RowTypes, BegunWithHold, ResolvedOnce, FreedUnused
  <2> QED
    BY <1>6, <2>2, <2>3 DEF OperatorPays
<1>7. CASE WorkerDies(q)
  BY <1>7, SMTT(30) DEF WorkerDies, Goes, money, reaper, HoldInv, RowTypes, BegunWithHold,
     ResolvedOnce, FreedUnused
<1> QED
  BY <1>1, <1>2, <1>3, <1>4, <1>5, <1>6, <1>7 DEF ChatStep

LEMMA JobKeeps ==
  ASSUME HoldInv, JobStep
  PROVE  HoldInv'
<1>1. CASE ReaperSelects
  <2>1. reaping' \subseteq Request /\ expired' = expired
    BY <1>1 DEF ReaperSelects, Active, HoldInv, RowTypes
  <2> QED
    BY <1>1, <2>1, OthersKeep DEF ReaperSelects, money, chatting, HoldInv, RowTypes
<1>2. CASE ReaperFails
  BY <1>2, OthersKeep DEF ReaperFails, money, chatting, HoldInv, RowTypes
<1>3. CASE LotFallsDue
  BY <1>3, OthersKeep DEF LotFallsDue, money, chatting, reaper, HoldInv, RowTypes
<1>4. CASE ExpirySelects
  BY <1>4, OthersKeep DEF ExpirySelects, money, chatting, reaper, HoldInv, RowTypes
<1>5. CASE ExpireLot
  <2>1. UNCHANGED <<status, stream, absorbed, generated, reaping, expired>>
    BY <1>5 DEF ExpireLot, chatting, reaper
  <2>2. "usage" \in DOMAIN ledger' /\ ledger'.usage = ledger.usage
    <3>1. PICK o \in expiring :
            ledger' = [ledger EXCEPT !.expiry[o] = @ - lot[o]] \/ ledger' = ledger
      BY <1>5 DEF ExpireLot
    <3> QED
      BY <3>1 DEF HoldInv, RowTypes
  <2> QED
    BY <2>1, <2>2, OthersKeep DEF HoldInv, RowTypes
<1>6. ASSUME NEW q \in Request, HoldExpires(q) PROVE HoldInv'
  BY <1>6, OthersKeep DEF HoldExpires, money, chatting, HoldInv, RowTypes
<1>7. ASSUME NEW q \in Request, ReapHold(q) PROVE HoldInv'
  <2>1. /\ AbsorbAndRelease(q) /\ stream' = stream /\ generated' = generated
        /\ reaping' \subseteq Request /\ expired' = expired
    BY <1>7 DEF ReapHold, chatting, HoldInv, RowTypes
  <2> QED
    BY <2>1, AbsorbKeeps DEF HoldInv, RowTypes, BegunWithHold, FreedUnused
<1> QED
  BY <1>1, <1>2, <1>3, <1>4, <1>5, <1>6, <1>7 DEF JobStep

LEMMA HookKeeps ==
  ASSUME HoldInv, NEW d \in Delivery, HookStep(d)
  PROVE  HoldInv'
<1>1. CASE GrantOrder(d)
  <2>1. UNCHANGED <<status, stream, absorbed, generated, reaping, expired>>
    BY <1>1 DEF GrantOrder, chatting, reaper
  <2>2. \/ ledger' = ledger
        \/ ledger' = [ledger EXCEPT !.purchase[delivery[d].of] = Credits]
    BY <1>1 DEF GrantOrder
  <2>3. "usage" \in DOMAIN ledger' /\ ledger'.usage = ledger.usage
    BY <2>2 DEF HoldInv, RowTypes
  <2> QED
    BY <2>1, <2>3, OthersKeep DEF HoldInv, RowTypes
<1>2. CASE ReverseRefund(d)
  <2>1. UNCHANGED <<status, stream, absorbed, generated, reaping, expired>>
    BY <1>2 DEF ReverseRefund, chatting, reaper
  <2>2. \/ ledger' = ledger
        \/ ledger' = [ledger EXCEPT !.refund[delivery[d].of] = -Reversal(d)]
    BY <1>2 DEF ReverseRefund
  <2>3. "usage" \in DOMAIN ledger' /\ ledger'.usage = ledger.usage
    BY <2>2 DEF HoldInv, RowTypes
  <2> QED
    BY <2>1, <2>3, OthersKeep DEF HoldInv, RowTypes
<1>3. CASE ReadLot(d) \/ ReadWallet(d) \/ CallFails(d)
  BY <1>3, OthersKeep DEF ReadLot, ReadWallet, CallFails, money, chatting, reaper, HoldInv,
     RowTypes
<1>4. ASSUME NEW o \in Order, OrderPaid(d, o) PROVE HoldInv'
  BY <1>4, OthersKeep DEF OrderPaid, money, chatting, reaper, HoldInv, RowTypes
<1>5. ASSUME NEW r \in Refund, RefundCreated(d, r) PROVE HoldInv'
  BY <1>5, OthersKeep DEF RefundCreated, money, chatting, reaper, HoldInv, RowTypes
<1> QED
  BY <1>1, <1>2, <1>3, <1>4, <1>5 DEF HookStep

LEMMA HoldInvariant == Spec => []HoldInv
<1>1. ASSUME HoldInv, [Next]_vars PROVE HoldInv'
  <2>1. CASE OpenWallet \/ Anonymize
    BY <1>1, <2>1, OthersKeep DEF OpenWallet, Anonymize, money, chatting, reaper, HoldInv, RowTypes
  <2>2. CASE UNCHANGED vars
    BY <1>1, <2>2, OthersKeep DEF vars, money, chatting, reaper, HoldInv, RowTypes
  <2> QED
    BY <1>1, <2>1, <2>2, ChatKeeps, JobKeeps, HookKeeps DEF Next
<1> QED
  BY <1>1, HoldInit, PTL DEF Spec

-----------------------------------------------------------------------------
\* A request is billed or absorbed, never both, whatever its Worker, its
\* fallback and the reaper do and in whichever order (settle,
\* absorbAndRelease and reapExpiredHolds).
THEOREM OneResolution == Spec => []ResolvedOnce
<1>1. HoldInv => ResolvedOnce
  BY DEF HoldInv
<1> QED
  BY <1>1, HoldInvariant, PTL

\* No generated output is given away without an absorbed_costs row (finalize).
THEOREM NothingFree == Spec => []NoFreeInference
<1>1. HoldInv => NoFreeInference
  <2> SUFFICES ASSUME HoldInv, NEW q \in generated, status[q] = "released", q \notin absorbed
               PROVE  FALSE
    BY DEF NoFreeInference
  <2>1. q \in Request
    BY DEF HoldInv, RowTypes
  <2> QED
    BY <2>1 DEF HoldInv, FreedUnused
<1> QED
  BY <1>1, HoldInvariant, PTL

\* A dispute that finds a wallet freezes it for good, whichever webhook calls are
\* under way and whether or not there are credits to take back (reverseRefund).
THEOREM DisputesFreeze == Spec => []DisputeFreezes
<1> DEFINE Shape == DOMAIN processed = {"paid", "refund"}
<1>1. Init => Shape /\ DisputeFreezes
  BY DEF Init, DisputeFreezes
<1>2. ASSUME Shape, DisputeFreezes, [Next]_vars PROVE Shape' /\ DisputeFreezes'
  <2>1. ASSUME UNCHANGED processed, frozen => frozen', unmet \subseteq unmet'
        PROVE  Shape' /\ DisputeFreezes'
    BY <1>2, <2>1 DEF DisputeFreezes
  <2>2. UNCHANGED hooks => UNCHANGED <<processed, frozen, unmet>>
    BY DEF hooks, account
  <2>3. CASE OpenWallet \/ Anonymize
    BY <2>1, <2>3 DEF OpenWallet, Anonymize
  <2>4. ASSUME NEW q \in Request, ChatStep(q) PROVE UNCHANGED hooks
    BY <2>4 DEF ChatStep, Chat, Generate, Complete, ClientAborts, UpstreamFails,
       OperatorPays, WorkerDies
  <2>5. JobStep => UNCHANGED hooks
    BY DEF JobStep, ReaperSelects, ReaperFails, LotFallsDue, ExpirySelects,
       ExpireLot, HoldExpires, ReapHold
  <2>6. ASSUME NEW d \in Delivery, HookStep(d) PROVE Shape' /\ DisputeFreezes'
    <3>1. GrantOrder(d) => DisputeFreezes' /\ Shape'
      BY <1>2 DEF GrantOrder, DisputeFreezes
    <3>2. CASE ReverseRefund(d)
      <4>1. \/ UNCHANGED <<processed, frozen, unmet>>
            \/ /\ processed' = [processed EXCEPT !.refund = @ \cup {delivery[d].of}]
               /\ frozen' = (frozen \/ (opened /\ delivery[d].of \in Disputed))
               /\ unmet' = IF opened THEN unmet ELSE unmet \cup {delivery[d].of}
        BY <3>2 DEF ReverseRefund, Freezes
      <4>2. ASSUME ~UNCHANGED <<processed, frozen, unmet>>,
                   NEW r \in processed'.refund \cap Disputed
            PROVE  frozen' \/ r \in unmet'
        <5>1. CASE r = delivery[d].of
          BY <4>1, <4>2, <5>1
        <5>2. CASE r # delivery[d].of
          <6>1. r \in processed.refund \cap Disputed
            BY <1>2, <4>1, <4>2, <5>2
          <6> QED BY <1>2, <4>1, <4>2, <6>1 DEF DisputeFreezes
        <5> QED BY <5>1, <5>2
      <4>3. Shape'
        BY <1>2, <4>1
      <4> QED
        BY <2>1, <4>2, <4>3 DEF DisputeFreezes
    <3>3. ReadLot(d) \/ ReadWallet(d) \/ CallFails(d) => UNCHANGED <<processed, frozen, unmet>>
      BY DEF ReadLot, ReadWallet, CallFails, account
    <3>4. ASSUME NEW o \in Order, OrderPaid(d, o) PROVE UNCHANGED <<processed, frozen, unmet>>
      BY <3>4 DEF OrderPaid, account
    <3>5. ASSUME NEW r \in Refund, RefundCreated(d, r)
          PROVE  UNCHANGED <<processed, frozen, unmet>>
      BY <3>5 DEF RefundCreated, account
    <3> QED
      BY <2>1, <2>6, <3>1, <3>2, <3>3, <3>4, <3>5 DEF HookStep
  <2>7. CASE UNCHANGED vars
    BY <2>1, <2>2, <2>7 DEF vars
  <2> QED
    BY <1>2, <2>1, <2>2, <2>3, <2>4, <2>5, <2>6, <2>7 DEF Next
<1> QED
  BY <1>1, <1>2, PTL DEF Spec

-----------------------------------------------------------------------------
(* Sums.  The library's folds pick the elements in an order of their own;   *)
(* on finite sets the order does not matter.                                *)

LEMMA SmallestOf ==
  ASSUME NEW T \in SUBSET Nat, T # {}
  PROVE  \E x \in T : \A y \in T : x <= y
<1>1. PICK x \in T : \A y \in T : ~(<<y, x>> \in OpToRel(<, Nat))
  BY NatLessThanWellFounded, WFMin
<1>2. \A y \in T : ~(y < x)
  BY <1>1 DEF OpToRel
<1> QED BY <1>2

LEMMA CountingUp ==
  ASSUME NEW N \in Nat, NEW P, 0 \in P, \A n \in 0 .. N - 1 : n \in P => n + 1 \in P
  PROVE  \A n \in 0 .. N : n \in P
<1> DEFINE Bad == {n \in 0 .. N : n \notin P}
<1> SUFFICES ASSUME Bad # {} PROVE FALSE
  OBVIOUS
<1>1. PICK m \in Bad : \A y \in Bad : m <= y
  <2>1. Bad \subseteq Nat
    OBVIOUS
  <2> HIDE DEF Bad
  <2> QED BY <2>1, SmallestOf
<1>2. m - 1 \in 0 .. N - 1 /\ m - 1 \notin Bad
  BY <1>1
<1> QED BY <1>1, <1>2

LEMMA SubsetInduction ==
  ASSUME NEW S, IsFiniteSet(S), NEW P,
         \A s \in SUBSET S : (\A t \in SUBSET s : t # s => t \in P) => s \in P
  PROVE  \A s \in SUBSET S : s \in P
<1> DEFINE Bad == {s \in SUBSET S : s \notin P}
           Sizes == {Cardinality(s) : s \in Bad}
<1> SUFFICES ASSUME Bad # {} PROVE FALSE
  OBVIOUS
<1>1. \A s \in SUBSET S : IsFiniteSet(s) /\ Cardinality(s) \in Nat
  BY FS_Subset, FS_CardinalityType
<1>2. Sizes \subseteq Nat /\ Sizes # {}
  BY <1>1
<1>3. PICK n \in Sizes : \A m \in Sizes : n <= m
  <2> HIDE DEF Sizes
  <2> QED BY <1>2, SmallestOf
<1>4. PICK s \in Bad : n = Cardinality(s)
  BY <1>3
<1>5. ASSUME NEW t \in SUBSET s, t # s PROVE t \in P
  <2>1. Cardinality(t) <= Cardinality(s) /\ Cardinality(t) # Cardinality(s)
    BY <1>1, <1>4, <1>5, FS_Subset
  <2>2. ~(Cardinality(s) <= Cardinality(t)) /\ t \in SUBSET S
    BY <1>1, <1>4, <2>1
  <2> QED BY <1>3, <1>4, <2>2
<1> QED BY <1>4, <1>5

Element(s) == CHOOSE x \in s : TRUE
Rest(s) == s \ {Element(s)}
Summing(f, S) ==
  CHOOSE g : g = [s \in SUBSET S |-> IF s = {} THEN 0 ELSE f[Element(s)] + g[Rest(s)]]

LEMMA SumIs ==
  ASSUME NEW f, NEW S
  PROVE SumFunctionOnSet(f, S) = Summing(f, S)[S]
BY DEF SumFunctionOnSet, FoldFunctionOnSet, MapThenFoldSet, Summing, Element, Rest

LEMMA RestIs ==
  ASSUME NEW s, s # {}
  PROVE  Element(s) \in s /\ Rest(s) \in SUBSET s /\ Rest(s) # s
  BY DEF Element, Rest

Sums(f, g, S) == g = [s \in SUBSET S |-> IF s = {} THEN 0 ELSE f[Element(s)] + g[Rest(s)]]

\* The recursion has a solution on the subsets of a finite set, and on a smaller set it
\* is the same one.
LEMMA SummingIs ==
  ASSUME NEW f, NEW S, IsFiniteSet(S)
  PROVE  \A s \in SUBSET S : /\ Sums(f, Summing(f, s), s)
                             /\ \A v \in SUBSET s : Summing(f, s)[v] = Summing(f, v)[v]
<1> DEFINE W(v) == Summing(f, v)[v]
           P == {s \in SUBSET S : /\ Sums(f, Summing(f, s), s)
                                  /\ \A v \in SUBSET s : Summing(f, s)[v] = W(v)}
<1>1. ASSUME NEW s \in SUBSET S, \A t \in SUBSET s : t # s => t \in P
      PROVE  s \in P
  <2>1. ASSUME NEW u \in SUBSET s, u # s
        PROVE  W(u) = IF u = {} THEN 0 ELSE f[Element(u)] + W(Rest(u))
    <3>1. /\ Sums(f, Summing(f, u), u)
          /\ \A v \in SUBSET u : Summing(f, u)[v] = W(v)
      BY <1>1, <2>1
    <3> HIDE DEF W
    <3>2. Summing(f, u)[u] = IF u = {} THEN 0 ELSE f[Element(u)] + Summing(f, u)[Rest(u)]
      BY <3>1 DEF Sums
    <3>3. u # {} => Summing(f, u)[Rest(u)] = W(Rest(u))
      BY <3>1, RestIs
    <3> QED BY <3>2, <3>3 DEF W
  <2> DEFINE h == [t \in SUBSET s |-> IF t = {} THEN 0 ELSE f[Element(t)] + W(Rest(t))]
  <2>2. Sums(f, h, s)
    <3>1. ASSUME NEW t \in SUBSET s, t # {} PROVE h[Rest(t)] = W(Rest(t))
      <4>1. Rest(t) \in SUBSET s /\ Rest(t) # s
        BY <3>1, RestIs
      <4> HIDE DEF W
      <4> QED BY <2>1, <4>1
    <3>2. h = [t \in SUBSET s |-> IF t = {} THEN 0 ELSE f[Element(t)] + h[Rest(t)]]
      <4> HIDE DEF W
      <4> QED BY <3>1
    <3> HIDE DEF h
    <3> QED BY <3>2 DEF Sums
  <2>3. Sums(f, Summing(f, s), s)
    <3> HIDE DEF h
    <3>1. Summing(f, s) = CHOOSE g : Sums(f, g, s)
      BY DEF Summing, Sums
    <3>2. Sums(f, (CHOOSE g : Sums(f, g, s)), s)
      BY <2>2
    <3> QED BY <3>1, <3>2
  <2>4. \A v \in SUBSET s : Summing(f, s)[v] = W(v)
    <3> DEFINE Q == {v \in SUBSET s : Summing(f, s)[v] = W(v)}
    <3>1. IsFiniteSet(s)
      BY FS_Subset
    <3>2. ASSUME NEW v \in SUBSET s, \A t \in SUBSET v : t # v => t \in Q
          PROVE  v \in Q
      <4>1. CASE v = s
        BY <4>1
      <4>2. CASE v # s
        <5>1. Summing(f, s)[v] =
                IF v = {} THEN 0 ELSE f[Element(v)] + Summing(f, s)[Rest(v)]
          BY <2>3 DEF Sums
        <5>2. W(v) = IF v = {} THEN 0 ELSE f[Element(v)] + W(Rest(v))
          BY <2>1, <4>2
        <5>3. v # {} => Summing(f, s)[Rest(v)] = W(Rest(v))
          BY <3>2, RestIs
        <5> HIDE DEF W
        <5> QED BY <5>1, <5>2, <5>3
      <4> QED BY <4>1, <4>2
    <3> HIDE DEF Q
    <3>3. \A v \in SUBSET s : v \in Q
      BY <3>1, <3>2, SubsetInduction
    <3> QED BY <3>3 DEF Q
  <2> QED BY <2>3, <2>4
<1> HIDE DEF P
<1>2. \A s \in SUBSET S : s \in P
  BY <1>1, SubsetInduction
<1> QED BY <1>2 DEF P

LEMMA SumOneMore ==
  ASSUME NEW f, NEW S, IsFiniteSet(S)
  PROVE  SumFunctionOnSet(f, S) =
           IF S = {} THEN 0 ELSE f[Element(S)] + SumFunctionOnSet(f, Rest(S))
<1>1. Sums(f, Summing(f, S), S) /\ \A v \in SUBSET S : Summing(f, S)[v] = Summing(f, v)[v]
  BY SummingIs
<1>2. Summing(f, S)[S] = IF S = {} THEN 0 ELSE f[Element(S)] + Summing(f, S)[Rest(S)]
  BY <1>1 DEF Sums
<1>3. S # {} => Summing(f, S)[Rest(S)] = Summing(f, Rest(S))[Rest(S)]
  BY <1>1, RestIs
<1> QED BY <1>2, <1>3, SumIs

\* A sum of integers, and of naturals.
LEMMA SumTyped ==
  ASSUME NEW f, NEW S, IsFiniteSet(S), NEW T \in {Nat, Int}, \A x \in S : f[x] \in T
  PROVE  SumFunctionOnSet(f, S) \in T
<1> DEFINE P == {s \in SUBSET S : SumFunctionOnSet(f, s) \in T}
<1>1. ASSUME NEW s \in SUBSET S, \A t \in SUBSET s : t # s => t \in P
      PROVE  s \in P
  <2>1. IsFiniteSet(s)
    BY FS_Subset
  <2>2. CASE s = {}
    <3>1. SumFunctionOnSet(f, s) = 0
      BY <2>1, <2>2, SumOneMore
    <3> QED BY <3>1
  <2>3. CASE s # {}
    <3>1. SumFunctionOnSet(f, s) = f[Element(s)] + SumFunctionOnSet(f, Rest(s))
      BY <2>1, <2>3, SumOneMore
    <3>2. SumFunctionOnSet(f, Rest(s)) \in T /\ f[Element(s)] \in T
      BY <1>1, <2>3, RestIs
    <3>3. \A i, j \in T : i + j \in T
      OBVIOUS
    <3>4. SumFunctionOnSet(f, s) \in T
      BY <3>1, <3>2, <3>3
    <3> QED BY <3>4
  <2> QED BY <2>2, <2>3
<1> HIDE DEF P
<1>2. \A s \in SUBSET S : s \in P
  BY <1>1, SubsetInduction
<1> QED BY <1>2 DEF P

\* Whichever element is taken out.
LEMMA SumWithout ==
  ASSUME NEW f, NEW S, IsFiniteSet(S), \A x \in S : f[x] \in Int
  PROVE  \A x \in S : SumFunctionOnSet(f, S) = f[x] + SumFunctionOnSet(f, S \ {x})
<1> DEFINE P == {s \in SUBSET S : \A x \in s :
                   SumFunctionOnSet(f, s) = f[x] + SumFunctionOnSet(f, s \ {x})}
<1>0. \A s \in SUBSET S : IsFiniteSet(s) /\ SumFunctionOnSet(f, s) \in Int
  BY FS_Subset, SumTyped
<1>1. ASSUME NEW s \in SUBSET S, \A t \in SUBSET s : t # s => t \in P
      PROVE  s \in P
  <2> SUFFICES ASSUME NEW x \in s
               PROVE  SumFunctionOnSet(f, s) = f[x] + SumFunctionOnSet(f, s \ {x})
    OBVIOUS
  <2> DEFINE c == Element(s)
  <2>1. c \in s /\ Rest(s) = s \ {c}
    BY RestIs DEF Rest
  <2>2. SumFunctionOnSet(f, s) = f[c] + SumFunctionOnSet(f, s \ {c})
    BY <1>0, <2>1, SumOneMore
  <2> HIDE DEF c
  <2>3. CASE x = c
    BY <2>2, <2>3
  <2>4. CASE x # c
    <3>1. s \ {c} \in P /\ s \ {x} \in P
      BY <1>1, <2>1
    <3>2. SumFunctionOnSet(f, s \ {c}) = f[x] + SumFunctionOnSet(f, (s \ {c}) \ {x})
      BY <2>4, <3>1
    <3>3. SumFunctionOnSet(f, s \ {x}) = f[c] + SumFunctionOnSet(f, (s \ {x}) \ {c})
      BY <2>1, <2>4, <3>1
    <3>4. (s \ {c}) \ {x} = (s \ {x}) \ {c}
      OBVIOUS
    <3>5. PICK d \in Int : d = SumFunctionOnSet(f, (s \ {x}) \ {c})
      BY <1>0
    <3>6. /\ SumFunctionOnSet(f, s) = f[c] + (f[x] + d)
          /\ f[x] + SumFunctionOnSet(f, s \ {x}) = f[x] + (f[c] + d)
      BY <2>2, <3>2, <3>3, <3>4, <3>5
    <3>7. f[x] \in Int /\ f[c] \in Int
      BY <2>1
    <3> QED BY <3>5, <3>6, <3>7
  <2> QED BY <2>3, <2>4
<1> HIDE DEF P
<1>2. \A s \in SUBSET S : s \in P
  BY <1>1, SubsetInduction
<1> QED BY <1>2 DEF P

\* Only the terms count.
LEMMA SumSame ==
  ASSUME NEW f, NEW g, NEW S, IsFiniteSet(S), \A x \in S : f[x] = g[x]
  PROVE  SumFunctionOnSet(f, S) = SumFunctionOnSet(g, S)
<1> DEFINE P == {s \in SUBSET S : SumFunctionOnSet(f, s) = SumFunctionOnSet(g, s)}
<1>1. ASSUME NEW s \in SUBSET S, \A t \in SUBSET s : t # s => t \in P
      PROVE  s \in P
  <2>1. IsFiniteSet(s)
    BY FS_Subset
  <2>2. /\ SumFunctionOnSet(f, s) =
             IF s = {} THEN 0 ELSE f[Element(s)] + SumFunctionOnSet(f, Rest(s))
        /\ SumFunctionOnSet(g, s) =
             IF s = {} THEN 0 ELSE g[Element(s)] + SumFunctionOnSet(g, Rest(s))
    BY <2>1, SumOneMore
  <2>3. s # {} => Rest(s) \in P /\ Element(s) \in S
    BY <1>1, RestIs
  <2> QED BY <2>2, <2>3
<1> HIDE DEF P
<1>2. \A s \in SUBSET S : s \in P
  BY <1>1, SubsetInduction
<1> QED BY <1>2 DEF P

\* One term changes.
LEMMA SumChanged ==
  ASSUME NEW S, IsFiniteSet(S), NEW f \in [S -> Int], NEW x \in S, NEW v \in Int
  PROVE  /\ SumFunction([f EXCEPT ![x] = v]) = SumFunction(f) - f[x] + v
         /\ SumFunction(f) \in Int
<1> DEFINE g == [f EXCEPT ![x] = v]
<1>1. g \in [S -> Int] /\ g[x] = v /\ \A y \in S \ {x} : g[y] = f[y]
  OBVIOUS
<1> HIDE DEF g
<1>2. IsFiniteSet(S \ {x})
  BY FS_Subset
<1>3. SumFunctionOnSet(f, S) = f[x] + SumFunctionOnSet(f, S \ {x})
  BY SumWithout
<1>4. SumFunctionOnSet(g, S) = v + SumFunctionOnSet(g, S \ {x})
  BY <1>1, SumWithout
<1>5. SumFunctionOnSet(g, S \ {x}) = SumFunctionOnSet(f, S \ {x})
  BY <1>1, <1>2, SumSame
<1>6. SumFunctionOnSet(f, S \ {x}) \in Int /\ f[x] \in Int
  BY <1>2, SumTyped
<1>7. SumFunction(f) = SumFunctionOnSet(f, S) /\ SumFunction(g) = SumFunctionOnSet(g, S)
  BY <1>1 DEF SumFunction
<1> QED BY <1>3, <1>4, <1>5, <1>6, <1>7 DEF g

\* One element more.
LEMMA SumWith ==
  ASSUME NEW f, NEW S, IsFiniteSet(S), NEW x, x \notin S, \A y \in S \cup {x} : f[y] \in Int
  PROVE  SumFunctionOnSet(f, S \cup {x}) = f[x] + SumFunctionOnSet(f, S)
<1>1. IsFiniteSet(S \cup {x}) /\ (S \cup {x}) \ {x} = S
  BY FS_AddElement
<1>2. SumFunctionOnSet(f, S \cup {x}) = f[x] + SumFunctionOnSet(f, (S \cup {x}) \ {x})
  BY <1>1, SumWithout
<1> QED BY <1>1, <1>2

LEMMA SumOfLots ==
  ASSUME NEW f, NEW n \in Nat, \A o \in 1 .. n + 1 : f[o] \in Int
  PROVE  SumFunctionOnSet(f, 1 .. n + 1) = f[n + 1] + SumFunctionOnSet(f, 1 .. n)
<1>1. IsFiniteSet(1 .. n) /\ n + 1 \notin 1 .. n /\ (1 .. n) \cup {n + 1} = 1 .. n + 1
  BY FS_Interval
<1> DEFINE m == n + 1
<1>2. m \notin 1 .. n /\ (1 .. n) \cup {m} = 1 .. m /\ \A o \in 1 .. m : f[o] \in Int
  BY <1>1
<1> HIDE DEF m
<1>3. \A y \in (1 .. n) \cup {m} : f[y] \in Int
  BY <1>2
<1>4. SumFunctionOnSet(f, (1 .. n) \cup {m}) = f[m] + SumFunctionOnSet(f, 1 .. n)
  BY <1>1, <1>2, <1>3, SumWith
<1> QED BY <1>2, <1>4 DEF m

-----------------------------------------------------------------------------
(* The batches and the sums.                                                 *)

\* The wallet, the lots, the holds and the ledger, each with its rows' types.
MoneyTypes ==
  /\ balance \in Nat /\ held \in Nat
  /\ lot \in [Order -> 0 .. Credits]
  /\ status \in [Request -> {"none", "active", "settled", "released"}]
  /\ ledger \in [purchase : [Order -> {0, Credits}], expiry : [Order -> Int],
                  usage : [Request -> Int], refund : [Refund -> Int]]
  /\ absorbed \subseteq Request

MoneySums == HeldIsActive /\ LotsCoverBalance /\ BalanceIsLedger

\* A row that its event has not written yet adds nothing to a sum.
Unwritten ==
  /\ \A o \in Order : o \notin processed.paid => lot[o] = 0 /\ ledger.purchase[o] = 0
  /\ \A r \in Refund : r \notin processed.refund => ledger.refund[r] = 0

Money == MoneyTypes /\ MoneySums /\ Unwritten

LEMMA Finite == IsFiniteSet(Order) /\ IsFiniteSet(Request) /\ IsFiniteSet(Refund)
  BY OrdersAssumption, RowsAssumption, FS_Interval DEF Order

LEMMA Amounts ==
  /\ Orders \in Nat /\ Credits \in Nat /\ Credits >= 1 /\ Overrun \in Nat
  /\ Estimate \in [Request -> Nat] /\ Estimate \in [Request -> Int]
  /\ \A q \in Request : Estimate[q] >= 1
  BY OrdersAssumption, CreditsAssumption, EstimateAssumption

\* What settle() does to the lots: it takes the whole debit, as far as there is any.
LEMMA LotsConsumed ==
  ASSUME MoneyTypes, NEW c \in Nat
  PROVE  /\ ConsumeLots(c) \in [Order -> 0 .. Credits]
         /\ SumFunction(ConsumeLots(c)) >= SumFunction(lot) - c
         /\ \A o \in Order : lot[o] = 0 => ConsumeLots(c)[o] = 0
<1> DEFINE rest == ConsumeLots(c)
           Before(n) == SumFunctionOnSet(lot, 1 .. n)
           After(n) == SumFunctionOnSet(rest, 1 .. n)
<1>1. \A o \in Order : lot[o] \in Nat /\ lot[o] <= Credits
  BY Amounts DEF MoneyTypes
<1>2. ASSUME NEW n \in 0 .. Orders PROVE Before(n) \in Nat
  <2>1. IsFiniteSet(1 .. n) /\ \A o \in 1 .. n : lot[o] \in Nat
    BY <1>1, Amounts, FS_Interval DEF Order
  <2> QED BY <2>1, SumTyped
<1>3. ASSUME NEW n \in 0 .. Orders - 1 PROVE Before(n + 1) = lot[n + 1] + Before(n)
  <2>1. n \in Nat /\ \A o \in 1 .. n + 1 : lot[o] \in Int
    BY <1>1, Amounts DEF Order
  <2> QED BY <2>1, SumOfLots
<1> HIDE DEF Before
<1>4. ASSUME NEW o \in Order
      PROVE  /\ rest[o] = IF c <= Before(o - 1) THEN lot[o]
                          ELSE IF c >= Before(o - 1) + lot[o] THEN 0
                          ELSE Before(o - 1) + lot[o] - c
             /\ Before(o - 1) \in Nat
  <2>1. o - 1 \in 0 .. Orders
    BY Amounts DEF Order
  <2> QED BY <1>2, <2>1 DEF ConsumeLots, Prior, Before
<1>5. ASSUME NEW o \in Order
      PROVE  rest[o] \in 0 .. Credits /\ (lot[o] = 0 => rest[o] = 0)
  BY <1>1, <1>4, Amounts
<1>6. rest \in [Order -> 0 .. Credits]
  BY <1>5 DEF ConsumeLots
<1>7. \A o \in Order : rest[o] \in Int
  BY <1>5, Amounts
<1> HIDE DEF rest
<1>8. ASSUME NEW n \in 0 .. Orders - 1 PROVE After(n + 1) = rest[n + 1] + After(n)
  <2>1. n \in Nat /\ \A o \in 1 .. n + 1 : rest[o] \in Int
    BY <1>7, Amounts DEF Order
  <2> QED BY <2>1, SumOfLots
<1> HIDE DEF After
<1>9. After(0) = 0 /\ Before(0) = 0
  <2>1. 1 .. 0 = {} /\ IsFiniteSet({})
    BY FS_EmptySet
  <2>2. \A f : SumFunctionOnSet(f, {}) = 0
    BY <2>1, SumOneMore
  <2> QED BY <2>1, <2>2 DEF After, Before
<1> DEFINE P == {n \in Nat : After(n) = IF c >= Before(n) THEN 0 ELSE Before(n) - c}
<1>10. \A n \in 0 .. Orders : n \in P
  <2>1. 0 \in P
    BY <1>9
  <2>2. ASSUME NEW n \in 0 .. Orders - 1, n \in P PROVE n + 1 \in P
    <3>1. /\ n + 1 \in Order /\ (n + 1) - 1 = n /\ n \in 0 .. Orders
      BY Amounts DEF Order
    <3>2. /\ rest[n + 1] = IF c <= Before(n) THEN lot[n + 1]
                           ELSE IF c >= Before(n) + lot[n + 1] THEN 0
                           ELSE Before(n) + lot[n + 1] - c
          /\ Before(n) \in Nat /\ lot[n + 1] \in Nat
      BY <1>1, <1>4, <3>1
    <3>3. After(n) = IF c >= Before(n) THEN 0 ELSE Before(n) - c
      BY <2>2
    <3>4. After(n + 1) = IF c >= Before(n + 1) THEN 0 ELSE Before(n + 1) - c
      BY <1>3, <1>8, <3>2, <3>3
    <3> QED BY <3>4
  <2> HIDE DEF P
  <2> QED BY <2>1, <2>2, Amounts, CountingUp
<1>11. After(Orders) >= Before(Orders) - c
  <2>1. Orders \in 0 .. Orders
    BY Amounts
  <2> QED BY <1>2, <1>10, <2>1
<1>12. SumFunction(rest) = After(Orders) /\ SumFunction(lot) = Before(Orders)
  <2>1. DOMAIN rest = 1 .. Orders /\ DOMAIN lot = 1 .. Orders
    BY <1>6 DEF MoneyTypes, Order
  <2> QED BY <2>1 DEF SumFunction, After, Before
<1> QED BY <1>5, <1>6, <1>11, <1>12 DEF rest

\* The sum of one kind of ledger row changes with the row that is written.
LEMMA LedgerWritten ==
  ASSUME MoneyTypes
  PROVE  /\ \A q \in Request, v \in Int :
              SumFunction([ledger.usage EXCEPT ![q] = v])
                = SumFunction(ledger.usage) - ledger.usage[q] + v
         /\ \A o \in Order, v \in Int :
              SumFunction([ledger.expiry EXCEPT ![o] = v])
                = SumFunction(ledger.expiry) - ledger.expiry[o] + v
         /\ \A o \in Order, v \in Int :
              SumFunction([ledger.purchase EXCEPT ![o] = v])
                = SumFunction(ledger.purchase) - ledger.purchase[o] + v
         /\ \A r \in Refund, v \in Int :
              SumFunction([ledger.refund EXCEPT ![r] = v])
                = SumFunction(ledger.refund) - ledger.refund[r] + v
         /\ \A o \in Order, v \in Int :
              SumFunction([lot EXCEPT ![o] = v]) = SumFunction(lot) - lot[o] + v
<1>1. /\ ledger.usage \in [Request -> Int] /\ ledger.expiry \in [Order -> Int]
      /\ ledger.purchase \in [Order -> Int] /\ ledger.refund \in [Refund -> Int]
      /\ lot \in [Order -> Int]
  BY Amounts DEF MoneyTypes
<1>2. \A q \in Request, v \in Int : SumFunction([ledger.usage EXCEPT ![q] = v])
                                      = SumFunction(ledger.usage) - ledger.usage[q] + v
  BY <1>1, Finite, SumChanged
<1>3. \A o \in Order, v \in Int : SumFunction([ledger.expiry EXCEPT ![o] = v])
                                    = SumFunction(ledger.expiry) - ledger.expiry[o] + v
  BY <1>1, Finite, SumChanged
<1>4. \A o \in Order, v \in Int : SumFunction([ledger.purchase EXCEPT ![o] = v])
                                    = SumFunction(ledger.purchase) - ledger.purchase[o] + v
  BY <1>1, Finite, SumChanged
<1>5. \A r \in Refund, v \in Int : SumFunction([ledger.refund EXCEPT ![r] = v])
                                     = SumFunction(ledger.refund) - ledger.refund[r] + v
  BY <1>1, Finite, SumChanged
<1>6. \A o \in Order, v \in Int : SumFunction([lot EXCEPT ![o] = v])
                                    = SumFunction(lot) - lot[o] + v
  BY <1>1, Finite, SumChanged
<1> QED BY <1>2, <1>3, <1>4, <1>5, <1>6

LEMMA SumsAreMoney ==
  ASSUME MoneyTypes
  PROVE  /\ SumFunction(ledger.purchase) \in Int /\ SumFunction(ledger.expiry) \in Int
         /\ SumFunction(ledger.usage) \in Int /\ SumFunction(ledger.refund) \in Int
         /\ SumFunction(lot) \in Nat
<1>1. ASSUME NEW S, IsFiniteSet(S), NEW f \in [S -> Int] PROVE SumFunction(f) \in Int
  <2>1. SumFunctionOnSet(f, S) \in Int
    BY <1>1, SumTyped
  <2> QED BY <2>1 DEF SumFunction
<1>2. /\ ledger.usage \in [Request -> Int] /\ ledger.expiry \in [Order -> Int]
      /\ ledger.purchase \in [Order -> Int] /\ ledger.refund \in [Refund -> Int]
  BY Amounts DEF MoneyTypes
<1>3. SumFunction(lot) \in Nat
  <2>1. DOMAIN lot = Order /\ \A o \in Order : lot[o] \in Nat
    BY Amounts DEF MoneyTypes
  <2>2. SumFunctionOnSet(lot, Order) \in Nat
    BY <2>1, Finite, SumTyped
  <2> QED BY <2>1, <2>2 DEF SumFunction
<1>4. SumFunction(ledger.usage) \in Int
  BY <1>1, <1>2, Finite
<1>5. SumFunction(ledger.expiry) \in Int
  BY <1>1, <1>2, Finite
<1>6. SumFunction(ledger.purchase) \in Int
  BY <1>1, <1>2, Finite
<1>7. SumFunction(ledger.refund) \in Int
  BY <1>1, <1>2, Finite
<1> QED BY <1>3, <1>4, <1>5, <1>6, <1>7

ActiveNow == {q \in Request : Active(q)}

\* reserve() adds its estimate to the holds...
LEMMA HoldTaken ==
  ASSUME Money, NEW q \in Request, status[q] = "none", held' = held + Estimate[q],
         status' = [status EXCEPT ![q] = "active"]
  PROVE  held' \in Nat /\ HeldIsActive'
         /\ status' \in [Request -> {"none", "active", "settled", "released"}]
<1>1. status' \in [Request -> {"none", "active", "settled", "released"}]
  BY DEF Money, MoneyTypes
<1>2. ActiveNow' = ActiveNow \cup {q} /\ q \notin ActiveNow
  BY DEF ActiveNow, Active, Money, MoneyTypes
<1>3. IsFiniteSet(ActiveNow) /\ \A p \in ActiveNow \cup {q} : Estimate[p] \in Int
  BY Amounts, Finite, FS_Subset DEF ActiveNow
<1>4. SumFunctionOnSet(Estimate, ActiveNow \cup {q})
        = Estimate[q] + SumFunctionOnSet(Estimate, ActiveNow)
  BY <1>2, <1>3, SumWith
<1>5. held = SumFunctionOnSet(Estimate, ActiveNow)
  BY DEF Money, MoneySums, HeldIsActive, ActiveNow
<1>6. held \in Nat /\ Estimate[q] \in Nat
  BY Amounts DEF Money, MoneyTypes
<1>7. held' = SumFunctionOnSet(Estimate, ActiveNow')
  BY <1>2, <1>4, <1>5, <1>6
<1> QED BY <1>1, <1>6, <1>7 DEF HeldIsActive, ActiveNow

\* ... and whatever ends one takes it out again.
LEMMA HoldEnded ==
  ASSUME Money, NEW q \in Request, Active(q), held' = held - Estimate[q],
         NEW v \in {"settled", "released"}, status' = [status EXCEPT ![q] = v]
  PROVE  held' \in Nat /\ HeldIsActive'
         /\ status' \in [Request -> {"none", "active", "settled", "released"}]
<1>1. status' \in [Request -> {"none", "active", "settled", "released"}]
  BY DEF Money, MoneyTypes
<1>2. ActiveNow' = ActiveNow \ {q} /\ q \in ActiveNow
  BY DEF ActiveNow, Active, Money, MoneyTypes
<1>3. IsFiniteSet(ActiveNow) /\ IsFiniteSet(ActiveNow \ {q})
      /\ \A p \in ActiveNow : Estimate[p] \in Int /\ Estimate[p] \in Nat
  BY Amounts, Finite, FS_Subset DEF ActiveNow
<1>4. SumFunctionOnSet(Estimate, ActiveNow)
        = Estimate[q] + SumFunctionOnSet(Estimate, ActiveNow \ {q})
  BY <1>2, <1>3, SumWithout
<1>5. SumFunctionOnSet(Estimate, ActiveNow \ {q}) \in Nat
  BY <1>3, SumTyped
<1>6. held = SumFunctionOnSet(Estimate, ActiveNow) /\ Estimate[q] \in Nat
  BY Amounts DEF Money, MoneySums, HeldIsActive, ActiveNow
<1>7. held' = SumFunctionOnSet(Estimate, ActiveNow \ {q})
  BY <1>4, <1>5, <1>6
<1> QED BY <1>1, <1>2, <1>5, <1>7 DEF HeldIsActive, ActiveNow

LEMMA SameMoney == ASSUME Money, UNCHANGED <<money, processed>> PROVE Money'
  BY DEF Money, MoneyTypes, MoneySums, Unwritten, HeldIsActive, LotsCoverBalance,
     BalanceIsLedger, Active, money

LEMMA ReserveMoney ==
  ASSUME Money, NEW q \in Request, status[q] = "none", Reserve(q), processed' = processed
  PROVE  Money'
<1>1. held' \in Nat /\ HeldIsActive'
      /\ status' \in [Request -> {"none", "active", "settled", "released"}]
  BY HoldTaken DEF Reserve
<1>2. UNCHANGED <<balance, lot, ledger, absorbed>>
  BY DEF Reserve
<1> QED BY <1>1, <1>2
        DEF Money, MoneyTypes, MoneySums, Unwritten, LotsCoverBalance, BalanceIsLedger

LEMMA ReleaseMoney ==
  ASSUME Money, NEW q \in Request, Release(q) \/ AbsorbAndRelease(q), processed' = processed
  PROVE  Money'
<1>1. CASE UNCHANGED money
  BY <1>1, SameMoney
<1>2. CASE ~UNCHANGED money
  <2>1. /\ Active(q) /\ held' = held - Estimate[q]
        /\ status' = [status EXCEPT ![q] = "released"]
        /\ UNCHANGED <<balance, lot, ledger>> /\ absorbed' \in {absorbed, absorbed \cup {q}}
    BY <1>2 DEF Release, AbsorbAndRelease
  <2>2. held' \in Nat /\ HeldIsActive'
        /\ status' \in [Request -> {"none", "active", "settled", "released"}]
    BY <2>1, HoldEnded
  <2>3. absorbed' \subseteq Request
    BY <2>1 DEF Money, MoneyTypes
  <2> QED BY <2>1, <2>2, <2>3
          DEF Money, MoneyTypes, MoneySums, Unwritten, LotsCoverBalance, BalanceIsLedger
<1> QED BY <1>1, <1>2

LEMMA SettleMoney ==
  ASSUME Money, ResolvedOnce, NEW q \in Request, NEW c \in Charge(q), Settle(q, c),
         processed' = processed
  PROVE  Money'
<1>1. CASE UNCHANGED money
  BY <1>1, SameMoney
<1>2. CASE ~UNCHANGED money
  <2>1. /\ Active(q) /\ balance >= c /\ balance' = balance - c
        /\ ledger' = [ledger EXCEPT !.usage[q] = -c]
        /\ lot' = ConsumeLots(c) /\ held' = held - Estimate[q]
        /\ status' = [status EXCEPT ![q] = "settled"] /\ absorbed' = absorbed
    BY <1>2 DEF Settle, Covered
  <2>2. c \in Nat /\ -c \in Int /\ balance \in Nat /\ balance - c \in Nat
    <3>1. c \in Nat
      BY Amounts DEF Charge
    <3>2. balance \in Nat /\ balance >= c
      BY <2>1 DEF Money, MoneyTypes
    <3> QED BY <3>1, <3>2
  <2>3. held' \in Nat /\ HeldIsActive'
        /\ status' \in [Request -> {"none", "active", "settled", "released"}]
    BY <2>1, HoldEnded
  <2>4. /\ lot' \in [Order -> 0 .. Credits]
        /\ SumFunction(lot') >= SumFunction(lot) - c
        /\ \A o \in Order : lot[o] = 0 => lot'[o] = 0
    BY <2>1, <2>2, LotsConsumed DEF Money
  <2>5. /\ ledger'.usage = [ledger.usage EXCEPT ![q] = -c]
        /\ ledger'.purchase = ledger.purchase /\ ledger'.expiry = ledger.expiry
        /\ ledger'.refund = ledger.refund
        /\ ledger' \in [purchase : [Order -> {0, Credits}], expiry : [Order -> Int],
                        usage : [Request -> Int], refund : [Refund -> Int]]
    BY <2>1, <2>2 DEF Money, MoneyTypes
  <2>6. MoneyTypes'
    BY <2>1, <2>2, <2>3, <2>4, <2>5 DEF Money, MoneyTypes
  <2>7. ledger.usage[q] = 0
    BY <2>1 DEF ResolvedOnce, Active
  <2>8. LotsCoverBalance'
    <3>1. SumFunction(lot) >= balance /\ SumFunction(lot) \in Nat
      BY SumsAreMoney DEF Money, MoneySums, LotsCoverBalance
    <3>2. SumFunction(lot') \in Int
      <4>1. \A f : f \in [Order -> 0 .. Credits] => SumFunctionOnSet(f, Order) \in Int
        BY Amounts, Finite, SumTyped
      <4> QED BY <2>4, <4>1 DEF SumFunction
    <3>3. \A x \in Int : x >= SumFunction(lot) - c => x >= balance - c
      BY <2>2, <3>1
    <3>4. SumFunction(lot') >= balance - c
      BY <2>4, <3>2, <3>3
    <3> QED BY <2>1, <3>4 DEF LotsCoverBalance
  <2>9. BalanceIsLedger'
    <3>1. SumFunction(ledger'.usage) = SumFunction(ledger.usage) - 0 + (-c)
      BY <2>2, <2>5, <2>7, LedgerWritten DEF Money
    <3>2. /\ SumFunction(ledger.purchase) \in Int /\ SumFunction(ledger.expiry) \in Int
          /\ SumFunction(ledger.usage) \in Int /\ SumFunction(ledger.refund) \in Int
      BY SumsAreMoney DEF Money
    <3>3. balance = SumFunction(ledger.purchase) + SumFunction(ledger.expiry)
                      + SumFunction(ledger.usage) + SumFunction(ledger.refund)
      BY DEF Money, MoneySums, BalanceIsLedger
    <3>4. balance - c = SumFunction(ledger.purchase) + SumFunction(ledger.expiry)
                          + (SumFunction(ledger.usage) - 0 + (-c)) + SumFunction(ledger.refund)
      BY <2>2, <3>2, <3>3
    <3> QED BY <2>1, <2>5, <3>1, <3>4 DEF BalanceIsLedger
  <2>10. Unwritten'
    BY <2>4, <2>5 DEF Money, Unwritten
  <2> QED BY <2>3, <2>6, <2>8, <2>9, <2>10 DEF Money, MoneySums
<1> QED BY <1>1, <1>2

\* expireCredits() takes a lot's rest from the wallet.
LEMMA ExpireMoney ==
  ASSUME Money, NEW o \in Order, Covered(lot[o]), balance' = balance - lot[o],
         ledger' = [ledger EXCEPT !.expiry[o] = @ - lot[o]], lot' = [lot EXCEPT ![o] = 0],
         UNCHANGED <<held, status, absorbed, processed>>
  PROVE  Money'
<1>1. /\ lot[o] \in Nat /\ balance \in Nat /\ balance - lot[o] \in Nat
      /\ ledger.expiry[o] \in Int /\ ledger.expiry[o] - lot[o] \in Int
  <2>1. lot[o] \in Nat /\ balance \in Nat /\ ledger.expiry[o] \in Int
    BY Amounts DEF Money, MoneyTypes
  <2> QED BY <2>1 DEF Covered
<1>2. /\ ledger'.expiry = [ledger.expiry EXCEPT ![o] = ledger.expiry[o] - lot[o]]
      /\ ledger'.purchase = ledger.purchase /\ ledger'.usage = ledger.usage
      /\ ledger'.refund = ledger.refund
      /\ ledger' \in [purchase : [Order -> {0, Credits}], expiry : [Order -> Int],
                      usage : [Request -> Int], refund : [Refund -> Int]]
  BY <1>1 DEF Money, MoneyTypes
<1>3. MoneyTypes'
  <2>1. lot' \in [Order -> 0 .. Credits]
    BY Amounts DEF Money, MoneyTypes
  <2> QED BY <1>1, <1>2, <2>1 DEF Money, MoneyTypes
<1>4. /\ SumFunction(ledger'.expiry)
           = SumFunction(ledger.expiry) - ledger.expiry[o] + (ledger.expiry[o] - lot[o])
      /\ SumFunction(lot') = SumFunction(lot) - lot[o] + 0
  <2>1. MoneyTypes /\ 0 \in Int
    BY DEF Money
  <2>2. SumFunction(lot') = SumFunction(lot) - lot[o] + 0
    BY <2>1, LedgerWritten
  <2> DEFINE w == ledger.expiry[o] - lot[o]
  <2>3. w \in Int /\ ledger'.expiry = [ledger.expiry EXCEPT ![o] = w]
    BY <1>1, <1>2
  <2> HIDE DEF w
  <2>4. SumFunction(ledger'.expiry) = SumFunction(ledger.expiry) - ledger.expiry[o] + w
    BY <2>1, <2>3, LedgerWritten
  <2> QED BY <2>2, <2>4 DEF w
<1>5. /\ SumFunction(ledger.purchase) \in Int /\ SumFunction(ledger.expiry) \in Int
      /\ SumFunction(ledger.usage) \in Int /\ SumFunction(ledger.refund) \in Int
      /\ SumFunction(lot) \in Nat
  BY SumsAreMoney DEF Money
<1>6. LotsCoverBalance'
  <2>1. SumFunction(lot) >= balance
    BY DEF Money, MoneySums, LotsCoverBalance
  <2>2. SumFunction(lot) - lot[o] + 0 >= balance - lot[o]
    BY <1>1, <1>5, <2>1
  <2> QED BY <1>4, <2>2 DEF LotsCoverBalance
<1>7. BalanceIsLedger'
  <2>1. balance = SumFunction(ledger.purchase) + SumFunction(ledger.expiry)
                    + SumFunction(ledger.usage) + SumFunction(ledger.refund)
    BY DEF Money, MoneySums, BalanceIsLedger
  <2>2. balance - lot[o] = SumFunction(ledger.purchase)
          + (SumFunction(ledger.expiry) - ledger.expiry[o] + (ledger.expiry[o] - lot[o]))
          + SumFunction(ledger.usage) + SumFunction(ledger.refund)
    BY <1>1, <1>5, <2>1
  <2> QED BY <1>2, <1>4, <2>2 DEF BalanceIsLedger
<1>8. HeldIsActive'
  BY DEF Money, MoneySums, HeldIsActive, Active
<1>9. Unwritten'
  BY <1>2 DEF Money, MoneyTypes, Unwritten
<1> QED BY <1>3, <1>6, <1>7, <1>8, <1>9 DEF Money, MoneySums

\* grantOrder() writes an order's rows, once.
LEMMA GrantMoney ==
  ASSUME Money, processed \in [paid : SUBSET Order, refund : SUBSET Refund],
         NEW o \in Order, o \notin processed.paid, balance' = balance + Credits,
         processed' = [processed EXCEPT !.paid = @ \cup {o}],
         ledger' = [ledger EXCEPT !.purchase[o] = Credits],
         lot' = [lot EXCEPT ![o] = Credits], UNCHANGED <<held, status, absorbed>>
  PROVE  Money'
<1>1. balance \in Nat /\ Credits \in Nat /\ balance + Credits \in Nat
      /\ lot[o] = 0 /\ ledger.purchase[o] = 0
  BY Amounts DEF Money, MoneyTypes, Unwritten
<1>2. /\ ledger'.purchase = [ledger.purchase EXCEPT ![o] = Credits]
      /\ ledger'.expiry = ledger.expiry /\ ledger'.usage = ledger.usage
      /\ ledger'.refund = ledger.refund
      /\ ledger' \in [purchase : [Order -> {0, Credits}], expiry : [Order -> Int],
                      usage : [Request -> Int], refund : [Refund -> Int]]
  BY DEF Money, MoneyTypes
<1>3. MoneyTypes'
  <2>1. lot' \in [Order -> 0 .. Credits]
    BY Amounts DEF Money, MoneyTypes
  <2> QED BY <1>1, <1>2, <2>1 DEF Money, MoneyTypes
<1>4. /\ SumFunction(ledger'.purchase) = SumFunction(ledger.purchase) - 0 + Credits
      /\ SumFunction(lot') = SumFunction(lot) - 0 + Credits
  <2>1. MoneyTypes /\ Credits \in Int
    BY Amounts DEF Money
  <2>2. SumFunction(lot') = SumFunction(lot) - lot[o] + Credits
    BY <2>1, LedgerWritten
  <2>3. SumFunction(ledger'.purchase)
          = SumFunction(ledger.purchase) - ledger.purchase[o] + Credits
    BY <1>2, <2>1, LedgerWritten
  <2> QED BY <1>1, <2>2, <2>3
<1>5. /\ SumFunction(ledger.purchase) \in Int /\ SumFunction(ledger.expiry) \in Int
      /\ SumFunction(ledger.usage) \in Int /\ SumFunction(ledger.refund) \in Int
      /\ SumFunction(lot) \in Nat
  BY SumsAreMoney DEF Money
<1>6. LotsCoverBalance'
  <2>1. SumFunction(lot) >= balance
    BY DEF Money, MoneySums, LotsCoverBalance
  <2>2. SumFunction(lot) - 0 + Credits >= balance + Credits
    BY <1>1, <1>5, <2>1
  <2> QED BY <1>4, <2>2 DEF LotsCoverBalance
<1>7. BalanceIsLedger'
  <2>1. balance = SumFunction(ledger.purchase) + SumFunction(ledger.expiry)
                    + SumFunction(ledger.usage) + SumFunction(ledger.refund)
    BY DEF Money, MoneySums, BalanceIsLedger
  <2>2. balance + Credits = (SumFunction(ledger.purchase) - 0 + Credits)
          + SumFunction(ledger.expiry)
          + SumFunction(ledger.usage) + SumFunction(ledger.refund)
    BY <1>1, <1>5, <2>1
  <2> QED BY <1>2, <1>4, <2>2 DEF BalanceIsLedger
<1>8. HeldIsActive'
  BY DEF Money, MoneySums, HeldIsActive, Active
<1>9. Unwritten'
  BY <1>2 DEF Money, MoneyTypes, Unwritten
<1> QED BY <1>3, <1>6, <1>7, <1>8, <1>9 DEF Money, MoneySums

\* reverseRefund() takes back what it may of an order's lot, once.
LEMMA RefundMoney ==
  ASSUME Money, processed \in [paid : SUBSET Order, refund : SUBSET Refund],
         NEW r \in Refund, r \notin processed.refund, NEW o \in Order,
         NEW v \in Nat, Covered(v), balance' = balance - v,
         processed' = [processed EXCEPT !.refund = @ \cup {r}],
         ledger' = [ledger EXCEPT !.refund[r] = -v],
         lot' = [lot EXCEPT ![o] = IF @ >= v THEN @ - v ELSE @],
         UNCHANGED <<held, status, absorbed>>
  PROVE  Money'
<1>1. balance \in Nat /\ -v \in Int /\ balance - v \in Nat /\ ledger.refund[r] = 0
  BY DEF Covered, Money, MoneyTypes, Unwritten
<1> DEFINE left == IF lot[o] >= v THEN lot[o] - v ELSE lot[o]
<1>2. /\ lot[o] \in 0 .. Credits /\ left \in 0 .. Credits /\ left >= lot[o] - v
      /\ (lot[o] = 0 => left = 0) /\ left \in Int /\ lot[o] \in Int
  <2>1. lot[o] \in 0 .. Credits
    BY DEF Money, MoneyTypes
  <2> QED BY <2>1, Amounts
<1>3. lot' = [lot EXCEPT ![o] = left]
  OBVIOUS
<1> HIDE DEF left
<1>4. /\ ledger'.refund = [ledger.refund EXCEPT ![r] = -v]
      /\ ledger'.purchase = ledger.purchase /\ ledger'.expiry = ledger.expiry
      /\ ledger'.usage = ledger.usage
      /\ ledger' \in [purchase : [Order -> {0, Credits}], expiry : [Order -> Int],
                      usage : [Request -> Int], refund : [Refund -> Int]]
  BY <1>1 DEF Money, MoneyTypes
<1>5. MoneyTypes'
  <2>1. lot' \in [Order -> 0 .. Credits]
    BY <1>2, <1>3 DEF Money, MoneyTypes
  <2> QED BY <1>1, <1>4, <2>1 DEF Money, MoneyTypes
<1>6. /\ SumFunction(ledger'.refund) = SumFunction(ledger.refund) - 0 + (-v)
      /\ SumFunction(lot') = SumFunction(lot) - lot[o] + left
  <2>1. MoneyTypes
    BY DEF Money
  <2>2. SumFunction(lot') = SumFunction(lot) - lot[o] + left
    <3>1. SumFunction([lot EXCEPT ![o] = left]) = SumFunction(lot) - lot[o] + left
      BY <1>2, <2>1, LedgerWritten
    <3> QED BY <1>3, <3>1
  <2>3. SumFunction(ledger'.refund) = SumFunction(ledger.refund) - ledger.refund[r] + (-v)
    BY <1>1, <1>4, <2>1, LedgerWritten
  <2> QED BY <1>1, <2>2, <2>3
<1>7. /\ SumFunction(ledger.purchase) \in Int /\ SumFunction(ledger.expiry) \in Int
      /\ SumFunction(ledger.usage) \in Int /\ SumFunction(ledger.refund) \in Int
      /\ SumFunction(lot) \in Nat
  BY SumsAreMoney DEF Money
<1>8. LotsCoverBalance'
  <2>1. SumFunction(lot) >= balance
    BY DEF Money, MoneySums, LotsCoverBalance
  <2>2. SumFunction(lot) - lot[o] + left >= balance - v
    BY <1>1, <1>2, <1>7, <2>1
  <2> QED BY <1>6, <2>2 DEF LotsCoverBalance
<1>9. BalanceIsLedger'
  <2>1. balance = SumFunction(ledger.purchase) + SumFunction(ledger.expiry)
                    + SumFunction(ledger.usage) + SumFunction(ledger.refund)
    BY DEF Money, MoneySums, BalanceIsLedger
  <2>2. balance - v = SumFunction(ledger.purchase) + SumFunction(ledger.expiry)
          + SumFunction(ledger.usage) + (SumFunction(ledger.refund) - 0 + (-v))
    BY <1>1, <1>7, <2>1
  <2> QED BY <1>4, <1>6, <2>2 DEF BalanceIsLedger
<1>10. HeldIsActive'
  BY DEF Money, MoneySums, HeldIsActive, Active
<1>11. Unwritten'
  BY <1>2, <1>3, <1>4 DEF Money, MoneyTypes, Unwritten
<1> QED BY <1>5, <1>8, <1>9, <1>10, <1>11 DEF Money, MoneySums

-----------------------------------------------------------------------------
(* The steps of the Workers, the jobs and the webhooks.                      *)

\* The rows that hold no money.
AccountTypes == opened \in BOOLEAN /\ frozen \in BOOLEAN /\ unmet \subseteq Refund

\* What the webhook calls and the expiry job carry from one step to the next.
Carried ==
  /\ AccountTypes
  /\ processed \in [paid : SUBSET Order, refund : SUBSET Refund]
  /\ due \in 0 .. Orders /\ expiring \subseteq Order
  /\ delivery \in
       [Delivery -> [at : {"idle", "grant", "lot", "wallet", "reverse"},
                     of : Order \cup Refund \cup {None}, lot : Nat, wallet : Nat]]
  /\ \A d \in Delivery :
       /\ delivery[d].at = "grant" => delivery[d].of \in Order
       /\ delivery[d].at \in {"lot", "wallet", "reverse"} => delivery[d].of \in Refund

LedgerInv == Money /\ Carried

LEMMA ChatMoney ==
  ASSUME LedgerInv, HoldInv, NEW q \in Request, ChatStep(q)
  PROVE  LedgerInv'
<1>1. UNCHANGED <<calendar, hooks>>
  BY DEF ChatStep, Chat, Generate, Complete, ClientAborts, UpstreamFails, OperatorPays,
     WorkerDies
<1>2. Carried' /\ processed' = processed
  BY <1>1 DEF LedgerInv, Carried, AccountTypes, calendar, hooks, account
<1>3. \/ UNCHANGED money
      \/ Reserve(q) /\ stream[q] = "idle"
      \/ \E c \in Charge(q) : Settle(q, c)
      \/ Release(q) \/ AbsorbAndRelease(q)
  BY DEF ChatStep, Chat, Generate, Complete, ClientAborts, UpstreamFails, OperatorPays,
     WorkerDies
<1>4. Money'
  <2>1. CASE UNCHANGED money
    BY <1>2, <2>1, SameMoney DEF LedgerInv
  <2>2. CASE Reserve(q) /\ stream[q] = "idle"
    <3>1. status[q] = "none"
      BY <2>2 DEF HoldInv, BegunWithHold
    <3> QED BY <1>2, <2>2, <3>1, ReserveMoney DEF LedgerInv
  <2>3. CASE \E c \in Charge(q) : Settle(q, c)
    BY <1>2, <2>3, SettleMoney DEF LedgerInv, HoldInv
  <2>4. CASE Release(q) \/ AbsorbAndRelease(q)
    BY <1>2, <2>4, ReleaseMoney DEF LedgerInv
  <2> QED BY <1>3, <2>1, <2>2, <2>3, <2>4
<1> QED BY <1>2, <1>4 DEF LedgerInv

LEMMA JobMoney ==
  ASSUME LedgerInv, HoldInv, JobStep
  PROVE  LedgerInv'
<1> USE DEF LedgerInv
<1>1. CASE ReaperSelects \/ ReaperFails \/ \E q \in Request : HoldExpires(q)
  <2>1. UNCHANGED <<money, calendar, hooks>>
    BY <1>1 DEF ReaperSelects, ReaperFails, HoldExpires
  <2> QED BY <2>1, SameMoney DEF Carried, AccountTypes, calendar, hooks, account
<1>2. CASE LotFallsDue \/ ExpirySelects
  <2>1. UNCHANGED <<money, hooks>> /\ due' \in 0 .. Orders /\ expiring' \subseteq Order
    <3>1. due \in 0 .. Orders /\ 1 .. due \subseteq Order /\ expiring \subseteq Order
      BY Amounts DEF Carried, Order
    <3>2. CASE LotFallsDue
      <4>1. due < Orders /\ due' = due + 1 /\ UNCHANGED <<money, hooks, expiring>>
        BY <3>2 DEF LotFallsDue
      <4> QED BY <3>1, <4>1, Amounts
    <3>3. CASE ExpirySelects
      BY <3>1, <3>3 DEF ExpirySelects
    <3> QED BY <1>2, <3>2, <3>3
  <2> QED BY <2>1, SameMoney DEF Carried, AccountTypes, hooks, account
<1>3. ASSUME NEW q \in Request, ReapHold(q) PROVE LedgerInv'
  <2>1. AbsorbAndRelease(q) /\ UNCHANGED <<calendar, hooks>>
    BY <1>3 DEF ReapHold
  <2> QED BY <2>1, ReleaseMoney DEF Carried, AccountTypes, calendar, hooks, account
<1>4. CASE ExpireLot
  <2>1. PICK o \in expiring :
          /\ \/ /\ Covered(lot[o])
                /\ ledger' = [ledger EXCEPT !.expiry[o] = @ - lot[o]]
                /\ balance' = balance - lot[o]
                /\ lot' = [lot EXCEPT ![o] = 0]
                /\ expiring' = expiring \ {o}
             \/ expiring' = {} /\ UNCHANGED <<balance, lot, ledger>>
          /\ UNCHANGED <<held, status, absorbed, due, hooks>>
    BY <1>4 DEF ExpireLot
  <2>2. o \in Order /\ Carried'
    BY <2>1 DEF Carried, AccountTypes, hooks, account
  <2>3. CASE expiring' = {} /\ UNCHANGED <<balance, lot, ledger>>
    BY <2>1, <2>2, <2>3, SameMoney DEF money, hooks
  <2>4. CASE ~(expiring' = {} /\ UNCHANGED <<balance, lot, ledger>>)
    BY <2>1, <2>2, <2>4, ExpireMoney DEF hooks
  <2> QED BY <2>3, <2>4
<1> QED BY <1>1, <1>2, <1>3, <1>4 DEF JobStep

\* A call that has read nothing out of order, and moves no money.
LEMMA DeliveryKept ==
  ASSUME LedgerInv, NEW d \in Delivery, NEW s, Becomes(d, s),
         s \in [at : {"idle", "grant", "lot", "wallet", "reverse"},
                of : Order \cup Refund \cup {None}, lot : Nat, wallet : Nat],
         s.at = "grant" => s.of \in Order,
         s.at \in {"lot", "wallet", "reverse"} => s.of \in Refund,
         AccountTypes', processed' \in [paid : SUBSET Order, refund : SUBSET Refund],
         UNCHANGED calendar
  PROVE  Carried'
  BY DEF LedgerInv, Carried, Becomes, calendar

LEMMA HookMoney ==
  ASSUME LedgerInv, NEW d \in Delivery, HookStep(d)
  PROVE  LedgerInv'
<1> DEFINE State == [at : {"idle", "grant", "lot", "wallet", "reverse"},
                     of : Order \cup Refund \cup {None}, lot : Nat, wallet : Nat]
<1>1. delivery[d] \in State /\ Idle \in State /\ Idle.at = "idle" /\ AccountTypes
      /\ processed \in [paid : SUBSET Order, refund : SUBSET Refund]
  BY DEF LedgerInv, Carried, Idle
<1>0. UNCHANGED account => AccountTypes'
  BY <1>1 DEF AccountTypes, account
<1>2. ASSUME NEW o \in Order, OrderPaid(d, o) PROVE LedgerInv'
  <2> DEFINE s == [Idle EXCEPT !.at = "grant", !.of = o]
  <2>1. UNCHANGED <<money, calendar, account, processed>> /\ Becomes(d, s)
    BY <1>2 DEF OrderPaid
  <2>2. s \in State /\ s.at = "grant" /\ s.of \in Order
    BY <1>1
  <2> HIDE DEF s
  <2>3. Carried'
    BY <1>0, <1>1, <2>1, <2>2, DeliveryKept
  <2> QED BY <2>1, <2>3, SameMoney DEF LedgerInv
<1>3. ASSUME NEW r \in Refund, RefundCreated(d, r) PROVE LedgerInv'
  <2> DEFINE s == [Idle EXCEPT !.at = "lot", !.of = r]
  <2>1. UNCHANGED <<money, calendar, account, processed>> /\ Becomes(d, s)
    BY <1>3 DEF RefundCreated
  <2>2. s \in State /\ s.at = "lot" /\ s.of \in Refund
    BY <1>1
  <2> HIDE DEF s
  <2>3. Carried'
    BY <1>0, <1>1, <2>1, <2>2, DeliveryKept
  <2> QED BY <2>1, <2>3, SameMoney DEF LedgerInv
<1>4. CASE CallFails(d)
  <2>1. UNCHANGED <<money, calendar, account, processed>> /\ Becomes(d, Idle)
    BY <1>4 DEF CallFails
  <2>2. Carried'
    BY <1>0, <1>1, <2>1, DeliveryKept
  <2> QED BY <2>1, <2>2, SameMoney DEF LedgerInv
<1>5. CASE ReadLot(d)
  <2> DEFINE s == [delivery[d] EXCEPT !.at = "wallet",
                     !.lot = lot[RefundedOrder[delivery[d].of]]]
  <2>1. UNCHANGED <<money, calendar, account, processed>> /\ Becomes(d, s)
        /\ delivery[d].of \in Refund
    BY <1>5 DEF ReadLot, LedgerInv, Carried
  <2>2. lot[RefundedOrder[delivery[d].of]] \in Nat
    BY <2>1, Amounts, RefundAssumption DEF LedgerInv, Money, MoneyTypes
  <2>3. s \in State /\ s.at = "wallet" /\ s.of \in Refund
    BY <1>1, <2>1, <2>2
  <2> HIDE DEF s
  <2>4. Carried'
    BY <1>0, <1>1, <2>1, <2>3, DeliveryKept
  <2> QED BY <2>1, <2>4, SameMoney DEF LedgerInv
<1>6. CASE ReadWallet(d)
  <2> DEFINE s == [delivery[d] EXCEPT !.at = "reverse", !.wallet = balance]
  <2>1. UNCHANGED <<money, calendar, account, processed>> /\ Becomes(d, s)
        /\ delivery[d].of \in Refund /\ balance \in Nat
    BY <1>6 DEF ReadWallet, LedgerInv, Carried, Money, MoneyTypes
  <2>2. s \in State /\ s.at = "reverse" /\ s.of \in Refund
    BY <1>1, <2>1
  <2> HIDE DEF s
  <2>3. Carried'
    BY <1>0, <1>1, <2>1, <2>2, DeliveryKept
  <2> QED BY <2>1, <2>3, SameMoney DEF LedgerInv
<1>7. CASE GrantOrder(d)
  <2> DEFINE o == delivery[d].of
  <2>1. o \in Order /\ Becomes(d, Idle) /\ AccountTypes' /\ UNCHANGED calendar
        /\ UNCHANGED <<held, status, absorbed>>
    BY <1>1, <1>7 DEF GrantOrder, LedgerInv, Carried, AccountTypes
  <2>2. CASE UNCHANGED <<processed, ledger, balance, lot>>
    <3>1. Carried'
      BY <1>1, <2>1, <2>2, DeliveryKept
    <3> QED BY <2>1, <2>2, <3>1, SameMoney DEF LedgerInv, money
  <2>3. CASE ~UNCHANGED <<processed, ledger, balance, lot>>
    <3>1. /\ o \notin processed.paid /\ processed' = [processed EXCEPT !.paid = @ \cup {o}]
          /\ ledger' = [ledger EXCEPT !.purchase[o] = Credits]
          /\ balance' = balance + Credits /\ lot' = [lot EXCEPT ![o] = Credits]
      BY <1>7, <2>3 DEF GrantOrder, Duplicate
    <3>2. processed' \in [paid : SUBSET Order, refund : SUBSET Refund]
      BY <1>1, <2>1, <3>1
    <3> HIDE DEF o
    <3>3. Carried'
      BY <1>1, <2>1, <3>2, DeliveryKept
    <3> QED BY <1>1, <2>1, <3>1, <3>3, GrantMoney DEF LedgerInv
  <2> QED BY <2>2, <2>3
<1>8. CASE ReverseRefund(d)
  <2> DEFINE r == delivery[d].of
             o == RefundedOrder[r]
             v == Reversal(d)
  <2>1. r \in Refund /\ Becomes(d, Idle) /\ UNCHANGED <<calendar, opened>>
        /\ UNCHANGED <<held, status, absorbed>>
    BY <1>8 DEF ReverseRefund, LedgerInv, Carried
  <2>2. o \in Order /\ v \in Nat
    <3>1. delivery[d].lot \in Nat /\ delivery[d].wallet \in Nat
      BY <1>1
    <3>2. o \in Order /\ Requested[r] \in Nat
      BY <2>1, Amounts, RefundAssumption
    <3>3. \A i, j \in Nat : Least(i, j) \in Nat
      BY DEF Least
    <3> QED BY <3>1, <3>2, <3>3 DEF Reversal
  <2>3. CASE UNCHANGED <<processed, frozen, unmet, ledger, balance, lot>>
    <3>1. AccountTypes' /\ Carried'
      BY <1>0, <1>1, <2>1, <2>3, DeliveryKept DEF account
    <3> QED BY <2>1, <2>3, <3>1, SameMoney DEF LedgerInv, money
  <2>4. CASE ~UNCHANGED <<processed, frozen, unmet, ledger, balance, lot>>
    <3>1. /\ r \notin processed.refund /\ Covered(v)
          /\ processed' = [processed EXCEPT !.refund = @ \cup {r}]
          /\ frozen' = (frozen \/ (opened /\ Freezes(d)))
          /\ unmet' = IF opened THEN unmet ELSE unmet \cup {r}
          /\ ledger' = [ledger EXCEPT !.refund[r] = -v]
          /\ balance' = balance - v
          /\ lot' = [lot EXCEPT ![o] = IF @ >= v THEN @ - v ELSE @]
      BY <1>8, <2>4 DEF ReverseRefund, Duplicate
    <3>2. processed' \in [paid : SUBSET Order, refund : SUBSET Refund]
      BY <1>1, <2>1, <3>1
    <3>3. AccountTypes'
      <4>1. unmet' \subseteq Refund
        BY <1>1, <2>1, <3>1 DEF AccountTypes
      <4>2. frozen' \in BOOLEAN /\ opened' \in BOOLEAN
        BY <1>1, <2>1, <3>1 DEF AccountTypes
      <4> QED BY <4>1, <4>2 DEF AccountTypes
    <3> HIDE DEF r, o, v
    <3>4. Carried'
      BY <1>1, <2>1, <3>2, <3>3, DeliveryKept
    <3> QED BY <1>1, <2>1, <2>2, <3>1, <3>4, RefundMoney DEF LedgerInv
  <2> QED BY <2>3, <2>4
<1> QED BY <1>2, <1>3, <1>4, <1>5, <1>6, <1>7, <1>8 DEF HookStep

LEMMA InitLedger == Init => LedgerInv
<1> SUFFICES ASSUME Init PROVE LedgerInv
  OBVIOUS
<1>1. MoneyTypes /\ Unwritten /\ Carried
  <2>1. MoneyTypes
    BY Amounts DEF Init, MoneyTypes
  <2>2. Unwritten
    BY DEF Init, Unwritten
  <2>3. Carried
    <3>1. /\ processed \in [paid : SUBSET Order, refund : SUBSET Refund]
          /\ AccountTypes /\ due \in 0 .. Orders /\ expiring \subseteq Order
      <4>1. processed = [paid |-> {}, refund |-> {}] /\ due = 0
            /\ opened = FALSE /\ frozen = FALSE /\ unmet = {} /\ expiring = {}
        BY DEF Init
      <4>2. processed \in [paid : SUBSET Order, refund : SUBSET Refund]
        BY <4>1
      <4>3. due \in 0 .. Orders /\ expiring \subseteq Order
        BY <4>1, Amounts
      <4>4. AccountTypes
        BY <4>1 DEF AccountTypes
      <4> QED BY <4>2, <4>3, <4>4
    <3>2. Idle \in [at : {"idle", "grant", "lot", "wallet", "reverse"},
                    of : Order \cup Refund \cup {None}, lot : Nat, wallet : Nat]
          /\ Idle.at = "idle"
      BY DEF Idle
    <3>3. delivery = [d \in Delivery |-> Idle]
      BY DEF Init
    <3> QED BY <3>1, <3>2, <3>3 DEF Carried
  <2> QED BY <2>1, <2>2, <2>3
<1>2. ASSUME NEW S, IsFiniteSet(S)
      PROVE  SumFunction([x \in S |-> 0]) = 0
  <2> DEFINE f == [x \in S |-> 0]
             P == {s \in SUBSET S : SumFunctionOnSet(f, s) = 0}
  <2>1. ASSUME NEW s \in SUBSET S, \A t \in SUBSET s : t # s => t \in P
        PROVE  s \in P
    <3>1. SumFunctionOnSet(f, s) =
            IF s = {} THEN 0 ELSE f[Element(s)] + SumFunctionOnSet(f, Rest(s))
      BY <1>2, SumOneMore, FS_Subset
    <3>2. s # {} => f[Element(s)] = 0 /\ SumFunctionOnSet(f, Rest(s)) = 0
      BY <2>1, RestIs
    <3> QED BY <3>1, <3>2
  <2> HIDE DEF P
  <2>2. \A s \in SUBSET S : s \in P
    BY <1>2, <2>1, SubsetInduction
  <2>3. S \in P
    BY <2>2
  <2> QED BY <2>3 DEF P, SumFunction
<1>3. /\ SumFunction(lot) = 0 /\ SumFunction(ledger.purchase) = 0
      /\ SumFunction(ledger.expiry) = 0 /\ SumFunction(ledger.usage) = 0
      /\ SumFunction(ledger.refund) = 0
  BY <1>2, Finite DEF Init
<1>4. HeldIsActive
  <2>1. {q \in Request : Active(q)} = {}
    BY DEF Init, Active
  <2>2. SumFunctionOnSet(Estimate, {}) = 0
    BY FS_EmptySet, SumOneMore
  <2> QED BY <2>1, <2>2 DEF Init, HeldIsActive
<1>5. LotsCoverBalance /\ BalanceIsLedger
  BY <1>3 DEF Init, LotsCoverBalance, BalanceIsLedger
<1> QED BY <1>1, <1>4, <1>5 DEF LedgerInv, Money, MoneySums

LEMMA LedgerInvariant == Spec => []LedgerInv
<1>1. ASSUME LedgerInv, HoldInv, [Next]_vars PROVE LedgerInv'
  <2>1. CASE OpenWallet \/ Anonymize
    <3>1. UNCHANGED <<money, calendar, processed, delivery, unmet>>
          /\ (opened' = TRUE \/ UNCHANGED opened) /\ (frozen' = TRUE \/ UNCHANGED frozen)
      BY <2>1 DEF OpenWallet, Anonymize
    <3> QED BY <1>1, <3>1, SameMoney DEF LedgerInv, Carried, AccountTypes, calendar
  <2>2. CASE UNCHANGED vars
    BY <1>1, <2>2, SameMoney DEF vars, LedgerInv, Carried, AccountTypes, calendar, hooks, account
  <2> QED BY <1>1, <2>1, <2>2, ChatMoney, JobMoney, HookMoney DEF Next
<1> QED BY <1>1, InitLedger, HoldInvariant, PTL DEF Spec

\* Every row stays in its range: no balance, hold or lot goes below zero, and no lot
\* above its pack (the CHECKs of the schema never have to refuse a batch that these
\* guards let through).
THEOREM TypeCorrect == Spec => []TypeOK
<1>1. LedgerInv /\ HoldInv => TypeOK
  BY DEF LedgerInv, Money, MoneyTypes, Carried, AccountTypes, HoldInv, RowTypes, TypeOK
<1> QED BY <1>1, LedgerInvariant, HoldInvariant, PTL

\* The wallet's held_micros is the sum of the active holds, whoever settles, releases
\* or reaps them and however late (reserve, settle, release, absorbAndRelease).
THEOREM HoldsAddUp == Spec => []HeldIsActive
<1>1. LedgerInv => HeldIsActive
  BY DEF LedgerInv, Money, MoneySums
<1> QED BY <1>1, LedgerInvariant, PTL

\* Every credit that can be spent lies in a lot with a date on which it expires,
\* however settlements, refunds and expiries interleave (consumeLots,
\* reverseRefund, expireCredits).
THEOREM LotsCover == Spec => []LotsCoverBalance
<1>1. LedgerInv => LotsCoverBalance
  BY DEF LedgerInv, Money, MoneySums
<1> QED BY <1>1, LedgerInvariant, PTL

\* The wallet's balance is the sum of the ledger's rows, each written once for its
\* order, request or refund, however often a webhook is delivered or a settlement
\* tried again (the balance_mismatches of reconcile).
THEOREM BalanceAddsUp == Spec => []BalanceIsLedger
<1>1. LedgerInv => BalanceIsLedger
  BY DEF LedgerInv, Money, MoneySums
<1> QED BY <1>1, LedgerInvariant, PTL
=============================================================================
