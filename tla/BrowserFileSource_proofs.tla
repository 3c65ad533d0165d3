----------------------- MODULE BrowserFileSource_proofs -----------------------
(***************************************************************************)
(* The File Source and its reader, for every ring, item, chunk, selection, *)
(* output and piece size, every tag plan and every kind of source.  Block  *)
(* and reader are shown to implement the ring; what is proved of the ring  *)
(* then says that the output is the selection, pass after pass.  The rest  *)
(* follows from the same accounts: every tag on its own sample, no source  *)
(* given up before its attempts are used up, EOF_REACHED with everything   *)
(* published.                                                              *)
(***************************************************************************)
EXTENDS BrowserFileSource, SequenceTheorems, FiniteSetTheorems, WellFoundedInduction, TLAPS

Content == {FileItem(i) : i \in 0 .. Length - 1} \cup {NoItem}
Working == wpc \in {"load", "state", "copy", "release"}

\* How many items the passes completed by the reader have put into the ring.
Base == IF Repeat THEN pass * Length ELSE 0

Types ==
  /\ readPos \in Slot /\ writePos \in Slot /\ ring \in [Slot -> Content]
  /\ position \in Nat /\ remaining \in Nat /\ want \in Nat /\ published \in Nat
  /\ filled \in Nat /\ fetched \in Nat /\ pass \in Nat /\ carry \in Seq(Nat)
  /\ wanted \in Nat /\ produced \in Nat /\ avail \in Nat /\ taken \in Nat
  /\ intoPass \in Nat /\ repeats \in Nat /\ hand \in Seq(Content) /\ out \in Seq(Content)

\* Where the reader is in its request.
Requests ==
  /\ position + remaining = Length
  /\ rpc \in {"none", "boot", "check", "size"} => want = 0 /\ published = 0
  /\ want <= remaining /\ published + filled <= want
  /\ rpc \notin {"publish", "gone"} => filled = 0
  /\ rpc = "publish" => filled >= 1
  /\ rpc = "read" => fetched = 0
  /\ rpc = "advance" => published = want /\ carry = <<>>

\* The bytes received of the request are its first ones: those of whole items, and
\* the beginning of the next one in the carry.
Pieced ==
  /\ Len(carry) < ItemSize
  /\ fetched = (published + filled) * ItemSize + Len(carry)
  /\ fetched <= want * ItemSize
  /\ \A b \in 1 .. Len(carry) : carry[b] = (position + published + filled) * ItemSize + b - 1

\* Where the block is in its call, and how far the call and the pass have come.
Calls ==
  /\ produced <= wanted
  /\ wpc \in {"load", "state", "copy"} => produced < wanted
  /\ wpc # "release" => taken = 0 /\ hand = <<>> /\ intoPass < Length
  /\ wpc \notin {"copy", "release"} => avail = 0
  /\ wpc = "copy" => avail >= 1
  /\ wpc = "release" => taken >= 1 /\ taken <= avail /\ readPos + taken <= Capacity
  /\ Len(hand) = taken
  /\ intoPass <= Length
  /\ Len(out) + taken = repeats * Length + intoPass
  /\ Repeat => Len(out) + taken + (IF Working THEN wanted - produced ELSE 0) <= MaxPasses * Length

\* Everything published is released or in the ring, and neither side counts on more
\* than there is.
Counts ==
  /\ Len(out) + Used = Base + position + published
  /\ want - published <= Free
  /\ avail <= Used

Accounts == Requests /\ Pieced /\ Calls /\ Counts

-----------------------------------------------------------------------------
(* The operators.                                                            *)

LEMMA Constants ==
  /\ Capacity \in Nat /\ Capacity >= 2 /\ Length \in Nat /\ Length >= 1
  /\ ItemSize \in Nat /\ ItemSize >= 1 /\ MaxChunk \in Nat /\ MaxChunk >= 1
  /\ MaxOutput \in Nat /\ MaxRetries \in Nat /\ MaxRetries >= 1 /\ MaxPasses \in Nat
  BY SourceAssumption DEF SourceAssumption

LEMMA MinOfThree ==
  ASSUME NEW a \in Int, NEW b \in Int, NEW c \in Int
  PROVE  /\ Min({a, b, c}) \in {a, b, c}
         /\ Min({a, b, c}) <= a /\ Min({a, b, c}) <= b /\ Min({a, b, c}) <= c
<1>1. \E x \in {a, b, c} : \A y \in {a, b, c} : x <= y
  OBVIOUS
<1> QED BY <1>1 DEF Min

LEMMA MinOfFour ==
  ASSUME NEW a \in Int, NEW b \in Int, NEW c \in Int, NEW d \in Int
  PROVE  /\ Min({a, b, c, d}) \in {a, b, c, d}
         /\ Min({a, b, c, d}) <= a /\ Min({a, b, c, d}) <= b
         /\ Min({a, b, c, d}) <= c /\ Min({a, b, c, d}) <= d
<1>1. \E x \in {a, b, c, d} : \A y \in {a, b, c, d} : x <= y
  OBVIOUS
<1> QED BY <1>1 DEF Min

\* The remainder and the quotient of a number given as both.
LEMMA QuotientOf ==
  ASSUME NEW m \in Nat, m >= 1, NEW q \in Nat, NEW x \in 0 .. m - 1
  PROVE  (q * m + x) % m = x /\ (q * m + x) \div m = q
<1> DEFINE y == q * m + x
<1>1. y \in Nat /\ y = m * (y \div m) + (y % m) /\ y % m \in 0 .. m - 1 /\ y \div m \in Nat
  <2>1. q * m \in Nat /\ y \in Nat
    OBVIOUS
  <2> HIDE DEF y
  <2> QED BY <2>1
<1>2. y \div m = q
  <2> DEFINE p == y \div m
  <2>1. CASE p < q
    <3>1. p + 1 <= q
      BY <1>1, <2>1
    <3>2. m * (p + 1) <= m * q
      BY <1>1, <3>1
    <3> QED BY <1>1, <3>2
  <2>2. CASE p > q
    <3>1. q + 1 <= p
      BY <1>1, <2>2
    <3>2. m * (q + 1) <= m * p
      BY <1>1, <3>1
    <3> QED BY <1>1, <3>2
  <2> QED BY <1>1, <2>1, <2>2
<1> QED BY <1>1, <1>2

LEMMA ProductIsNat == \A a, b \in Nat : a * b \in Nat
  OBVIOUS

LEMMA TimesMonotone ==
  ASSUME NEW a \in Nat, NEW b \in Nat, NEW m \in Nat, m >= 1
  PROVE  /\ a <= b => a * m <= b * m
         /\ a * m < (b + 1) * m => a <= b
<1>1. ASSUME NEW i \in Nat, NEW j \in Nat, i <= j PROVE i * m <= j * m
  <2>1. PICK d \in Nat : j = i + d
    BY <1>1
  <2>2. j * m = i * m + d * m /\ d * m \in Nat /\ i * m \in Nat
    BY <2>1
  <2> QED BY <2>2
<1>2. ASSUME a > b PROVE ~(a * m < (b + 1) * m)
  <2>1. b + 1 <= a /\ b + 1 \in Nat
    BY <1>2
  <2>2. (b + 1) * m <= a * m
    BY <1>1, <2>1
  <2> QED BY <2>2
<1> QED BY <1>1, <1>2

LEMMA QuotientBounds ==
  ASSUME NEW x \in Nat, NEW m \in Nat, m >= 1
  PROVE  /\ x \div m \in Nat /\ (x \div m) * m <= x /\ x < (x \div m) * m + m
  OBVIOUS

LEMMA AdvanceInSlot ==
  ASSUME NEW p \in Nat, NEW n \in Nat
  PROVE  Advance(p, n) \in Slot
  BY Constants DEF Advance, Slot

LEMMA CountsInRing ==
  ASSUME Types
  PROVE  Used \in 0 .. Capacity - 1 /\ Free = Capacity - Used - 1
  BY Constants DEF Types, Used, Free, Slot

\* What a store of either position does to the number of items in the ring.
LEMMA ModuloBelow ==
  ASSUME NEW x \in Nat, x < Capacity
  PROVE  x % Capacity = x
  BY Constants

LEMMA ModuloOnce ==
  ASSUME NEW x \in Nat, x >= Capacity, x < 2 * Capacity
  PROVE  x % Capacity = x - Capacity
  BY Constants

LEMMA AdvanceIs ==
  ASSUME NEW p \in Slot, NEW n \in 0 .. Capacity - 1
  PROVE  Advance(p, n) = IF p + n < Capacity THEN p + n ELSE p + n - Capacity
  BY Constants, ModuloBelow, ModuloOnce DEF Advance, Slot

LEMMA UsedAfterPublish ==
  ASSUME Types, NEW n \in Nat, n <= Free, writePos' = Advance(writePos, n), readPos' = readPos
  PROVE  Used' = Used + n
<1>1. writePos' = IF writePos + n < Capacity THEN writePos + n ELSE writePos + n - Capacity
  BY Constants, AdvanceIs, CountsInRing DEF Types
<1> QED BY <1>1, Constants, CountsInRing DEF Types, Used, Free, Slot

LEMMA UsedAfterRelease ==
  ASSUME Types, NEW n \in Nat, n <= Used, readPos' = Advance(readPos, n), writePos' = writePos
  PROVE  Used' = Used - n
<1>1. readPos' = IF readPos + n < Capacity THEN readPos + n ELSE readPos + n - Capacity
  BY Constants, AdvanceIs, CountsInRing DEF Types
<1> QED BY <1>1, Constants, CountsInRing DEF Types, Used, Free, Slot

-----------------------------------------------------------------------------
(* What a piece delivers.                                                    *)

\* The bytes worked on are those after the items of the request that are whole.
LEMMA InputIs ==
  ASSUME Types, Requests, Pieced, filled = 0, NEW n \in Nat
  PROVE  /\ Input(n) \in Seq(Nat) /\ Len(Input(n)) = Len(carry) + n
         /\ \A j \in 1 .. Len(carry) + n : Input(n)[j] = (position + published) * ItemSize + j - 1
<1> DEFINE at == (position + published) * ItemSize
           c == Len(carry)
           bytes == Bytes(n)
<1>1. /\ position \in Nat /\ published \in Nat /\ ItemSize \in Nat /\ c \in Nat /\ fetched \in Nat
      /\ carry \in Seq(Nat) /\ fetched = published * ItemSize + c
      /\ \A b \in 1 .. c : carry[b] = at + b - 1
  BY Constants, LenProperties DEF Types, Pieced
<1>2. at \in Nat /\ position * ItemSize \in Nat /\ position * ItemSize + fetched = at + c
  BY <1>1
<1>3. bytes = [b \in 1 .. n |-> position * ItemSize + fetched + b - 1]
  BY DEF Bytes
<1> HIDE DEF at, c, bytes
<1>4. bytes = [b \in 1 .. n |-> at + c + b - 1]
  BY <1>2, <1>3
<1>5. bytes \in Seq(Nat) /\ Len(bytes) = n
  BY <1>1, <1>2, <1>4
<1>6. /\ carry \o bytes \in Seq(Nat) /\ Len(carry \o bytes) = c + n
      /\ \A j \in 1 .. c + n : (carry \o bytes)[j] = IF j <= c THEN carry[j] ELSE bytes[j - c]
  BY <1>1, <1>5, ConcatProperties DEF c
<1>7. ASSUME NEW j \in 1 .. c + n PROVE (carry \o bytes)[j] = at + j - 1
  <2>1. CASE j <= c
    BY <1>1, <1>6, <2>1
  <2>2. CASE ~(j <= c)
    <3>1. j - c \in 1 .. n /\ at + c + (j - c) - 1 = at + j - 1
      BY <1>1, <1>2, <2>2
    <3> QED BY <1>4, <1>6, <2>2, <3>1
  <2> QED BY <2>1, <2>2
<1> QED BY <1>6, <1>7 DEF Input, at, c, bytes

After(s) == IF s >= writePos THEN s - writePos ELSE Capacity - (writePos - s)

\* Whole items are made of the bytes of one item each, the item the slot stands for;
\* the rest waits in the carry.  No piece goes beyond the request.
LEMMA Delivered ==
  ASSUME Types, Requests, Pieced, filled = 0, NEW n \in Nat, fetched + n <= want * ItemSize,
         NEW next, Deliver(n, next)
  PROVE  /\ filled' \in Nat /\ published + filled' <= want
         /\ ring' = [s \in Slot |-> IF After(s) < filled'
                                    THEN FileItem(position + published + After(s)) ELSE ring[s]]
         /\ carry' \in Seq(Nat) /\ fetched' = fetched + n
         /\ rpc' = IF filled' = 0 THEN next ELSE "publish"
         /\ Pieced'
<1> DEFINE at == position + published
           input == Input(n)
           total == Len(carry) + n
           items == total \div ItemSize
           item(k) == SubSeq(input, k * ItemSize + 1, (k + 1) * ItemSize)
           rest == SubSeq(input, items * ItemSize + 1, total)
<1>1. /\ position \in Nat /\ published \in Nat /\ at \in Nat /\ ItemSize \in Nat /\ ItemSize >= 1
      /\ want \in Nat /\ fetched \in Nat /\ total \in Nat /\ fetched + n = published * ItemSize + total
      /\ Capacity \in Nat /\ writePos \in Slot
  BY Constants, LenProperties DEF Types, Pieced
<1>2. /\ Len(input) = total
      /\ \A j \in 1 .. total : input[j] = at * ItemSize + j - 1
  BY InputIs
<1>3. /\ ring' = [s \in Slot |-> IF After(s) < items THEN item(After(s)) ELSE ring[s]]
      /\ filled' = items /\ carry' = rest /\ fetched' = fetched + n
      /\ rpc' = IF items = 0 THEN next ELSE "publish"
      /\ UNCHANGED <<position, want, published>>
  BY <1>2 DEF Deliver, After
<1>4. items \in Nat /\ items * ItemSize <= total /\ total < items * ItemSize + ItemSize
  BY <1>1, QuotientBounds
<1>5. \A s \in Slot : After(s) \in 0 .. Capacity - 1
  BY <1>1 DEF After, Slot
<1> HIDE DEF at, total, input, items
<1>6. \A j \in 1 .. total : input[j] \in Nat
  <2> SUFFICES ASSUME NEW j \in 1 .. total PROVE input[j] \in Nat
    OBVIOUS
  <2>1. at * ItemSize \in Nat
    BY <1>1
  <2> QED BY <1>1, <1>2, <2>1
<1>7. ASSUME NEW k \in 0 .. items - 1 PROVE item(k) = FileItem(at + k)
  <2>1. k \in Nat /\ k + 1 \in Nat /\ k + 1 <= items
    BY <1>4
  <2>2. (k + 1) * ItemSize <= items * ItemSize
    BY <1>1, <1>4, <2>1, TimesMonotone
  <2>3. k * ItemSize \in Nat /\ (k + 1) * ItemSize = k * ItemSize + ItemSize
    BY <1>1, <2>1
  <2>4. /\ k * ItemSize + 1 \in Int /\ (k + 1) * ItemSize \in Int
        /\ k * ItemSize + ItemSize <= total
        /\ (k + 1) * ItemSize - (k * ItemSize + 1) + 1 = ItemSize
        /\ (k * ItemSize + 1) .. ((k + 1) * ItemSize) \subseteq 1 .. total
    BY <1>1, <1>4, <2>2, <2>3
  <2>5. \A j \in (k * ItemSize + 1) .. ((k + 1) * ItemSize) : input[j] \in Nat
    BY <1>6, <2>4
  <2>6. /\ item(k) \in Seq(Nat)
        /\ Len(item(k)) = ItemSize
        /\ \A b \in 1 .. ItemSize : item(k)[b] = input[k * ItemSize + 1 + b - 1]
    <3> DEFINE lo == k * ItemSize + 1
               hi == (k + 1) * ItemSize
    <3>1. lo \in Int /\ hi \in Int /\ hi - lo + 1 = ItemSize /\ lo <= hi
      BY <1>1, <2>3, <2>4
    <3>2. \A j \in lo .. hi : input[j] \in Nat
      BY <2>5
    <3> HIDE DEF lo, hi
    <3>3. /\ SubSeq(input, lo, hi) \in Seq(Nat)
          /\ Len(SubSeq(input, lo, hi)) = ItemSize
          /\ \A b \in 1 .. ItemSize : SubSeq(input, lo, hi)[b] = input[lo + b - 1]
      BY <3>1, <3>2, SubSeqProperties
    <3> QED BY <3>3 DEF lo, hi
  <2>7. ASSUME NEW b \in 1 .. ItemSize PROVE item(k)[b] = (at + k) * ItemSize + b - 1
    <3>1. /\ k * ItemSize + 1 + b - 1 = k * ItemSize + b
          /\ k * ItemSize + b \in 1 .. total
      BY <1>1, <2>3, <2>4
    <3>2. item(k)[b] = at * ItemSize + (k * ItemSize + b) - 1
      BY <1>2, <2>6, <3>1
    <3>3. (at + k) * ItemSize = at * ItemSize + k * ItemSize
      BY <1>1, <2>1
    <3>4. at * ItemSize \in Nat
      BY <1>1
    <3> QED BY <1>1, <2>3, <3>2, <3>3, <3>4
  <2>8. item(k) = [b \in 1 .. ItemSize |-> item(k)[b]]
    BY <2>6, LenProperties
  <2> QED BY <2>7, <2>8 DEF FileItem
<1>8. published + items <= want
  <2>1. published * ItemSize \in Nat /\ items * ItemSize \in Nat /\ want * ItemSize \in Nat
        /\ (published + items) * ItemSize = published * ItemSize + items * ItemSize
    BY <1>1, <1>4
  <2>2. (published + items) * ItemSize <= want * ItemSize /\ (want + 1) * ItemSize = want * ItemSize + ItemSize
    BY <1>1, <1>4, <2>1
  <2>3. (published + items) * ItemSize < (want + 1) * ItemSize /\ published + items \in Nat
    BY <1>1, <1>4, <2>1, <2>2
  <2> QED BY <1>1, <2>3, TimesMonotone
<1>9. ring' = [s \in Slot |-> IF After(s) < items THEN FileItem(at + After(s)) ELSE ring[s]]
  <2>1. ASSUME NEW s \in Slot, After(s) < items PROVE item(After(s)) = FileItem(at + After(s))
    <3>1. PICK k \in 0 .. items - 1 : k = After(s)
      BY <1>1, <1>4, <1>5, <2>1
    <3> QED BY <1>7, <3>1
  <2> QED BY <1>3, <2>1
<1>10. /\ rest \in Seq(Nat) /\ Len(rest) = total - items * ItemSize
       /\ \A b \in 1 .. total - items * ItemSize : rest[b] = (at + items) * ItemSize + b - 1
  <2> DEFINE lo == items * ItemSize + 1
  <2>1. /\ lo \in Int /\ lo >= 1 /\ total - lo + 1 = total - items * ItemSize
        /\ items * ItemSize \in Nat /\ at * ItemSize \in Nat
        /\ (at + items) * ItemSize = at * ItemSize + items * ItemSize
    BY <1>1, <1>4
  <2>2. \A j \in lo .. total : input[j] \in Nat
    BY <1>1, <1>6, <2>1
  <2> HIDE DEF lo
  <2>3. /\ SubSeq(input, lo, total) \in Seq(Nat)
        /\ Len(SubSeq(input, lo, total)) = IF lo <= total THEN total - lo + 1 ELSE 0
        /\ \A b \in 1 .. total - lo + 1 : SubSeq(input, lo, total)[b] = input[lo + b - 1]
    BY <1>1, <2>1, <2>2, SubSeqProperties
  <2>4. lo = items * ItemSize + 1
    BY DEF lo
  <2>5. Len(SubSeq(input, lo, total)) = total - items * ItemSize
    BY <1>1, <1>4, <2>1, <2>3, <2>4
  <2>6. ASSUME NEW b \in 1 .. total - items * ItemSize
        PROVE  SubSeq(input, lo, total)[b] = (at + items) * ItemSize + b - 1
    <3>1. /\ lo + b - 1 = items * ItemSize + b /\ lo + b - 1 \in 1 .. total
          /\ b \in 1 .. total - lo + 1
      BY <1>1, <1>4, <2>1, <2>4
    <3> QED BY <1>1, <1>2, <2>1, <2>3, <3>1
  <2> QED BY <2>1, <2>3, <2>5, <2>6, <2>4
<1>11. Pieced'
  <2>1. /\ Len(carry') < ItemSize /\ fetched' = published * ItemSize + total
        /\ Len(carry') = total - items * ItemSize
    BY <1>1, <1>3, <1>4, <1>10
  <2>2. /\ published' + filled' = published + items
        /\ (published + items) * ItemSize = published * ItemSize + items * ItemSize
        /\ position' + published' + filled' = at + items
    BY <1>1, <1>3, <1>4 DEF at
  <2>3. fetched' = (published' + filled') * ItemSize + Len(carry')
    BY <1>1, <1>4, <2>1, <2>2
  <2>4. \A b \in 1 .. Len(carry') :
          carry'[b] = (position' + published' + filled') * ItemSize + b - 1
    BY <1>3, <1>10, <2>1, <2>2
  <2> QED BY <1>3, <2>1, <2>3, <2>4 DEF Pieced
<1> QED BY <1>3, <1>4, <1>8, <1>9, <1>10, <1>11 DEF at

-----------------------------------------------------------------------------
(* The accounts of the two sides.                                            *)

LEMMA InitAccounts == Init => Types /\ Accounts
<1> SUFFICES ASSUME Init PROVE Types /\ Accounts
  OBVIOUS
<1>1. Types
  BY Constants, EmptySeq DEF Init, Types, Slot, Content
<1>2. Requests /\ Calls
  BY Constants DEF Init, Requests, Calls, Working
<1>3. Pieced
  BY Constants DEF Init, Pieced
<1>4. Counts
  BY Constants DEF Init, Counts, Used, Free, Base
<1> QED BY <1>1, <1>2, <1>3, <1>4 DEF Accounts

LEMMA CallsKept ==
  ASSUME Calls, UNCHANGED <<kind, readPos, block>>
  PROVE  Calls'
  BY DEF Calls, Working, Repeat, block, call, progress

LEMMA PositionsKept ==
  ASSUME UNCHANGED <<readPos, writePos>>
  PROVE  Used' = Used /\ Free' = Free
  BY DEF Used, Free

\* A step of the reader that moves nothing.
LEMMA QuietStep ==
  ASSUME Types, Accounts, UNCHANGED <<kind, readPos, writePos, ring, request, pass, block>>,
         rpc \notin {"publish", "gone"}, rpc' \notin {"publish", "read"},
         rpc' \in {"none", "boot", "check", "size"} => rpc \in {"none", "boot", "check", "size"},
         rpc' = "advance" => published = want /\ carry = <<>>
  PROVE  Types' /\ Accounts'
<1> USE DEF Accounts
<1>1. Types'
  BY DEF Types, request, block, call, progress
<1>2. Requests' /\ Pieced'
  BY DEF Requests, Pieced, request
<1>3. Counts'
  BY PositionsKept DEF Counts, Base, Repeat, request, block, call
<1> QED BY <1>1, <1>2, <1>3, CallsKept

LEMMA FailStep ==
  ASSUME Types, Accounts, NEW why, Fail(why), rpc \notin {"publish", "gone"}, UNCHANGED kind
  PROVE  Types' /\ Accounts'
  BY QuietStep DEF Fail, Close

LEMMA SizeStep ==
  ASSUME Types, Accounts, Size, UNCHANGED kind
  PROVE  Types' /\ Accounts'
<1>1. CASE Free = 0
  BY <1>1, QuietStep DEF Size, shared, request
<1>2. CASE Free # 0
  <2> DEFINE a == Free
             b == MaxChunk
             c == remaining
  <2>1. /\ want' = Min({a, b, c}) /\ rpc = "size" /\ rpc' \in {"fetch", "read"}
        /\ published' = 0 /\ carry' = <<>> /\ fetched' = 0
        /\ UNCHANGED <<position, remaining, filled, readPos, writePos, ring, pass, block>>
    BY <1>2 DEF Size, shared
  <2>2. a \in Nat /\ b \in Nat /\ c \in Nat /\ a \in Int /\ b \in Int /\ c \in Int
    BY Constants, CountsInRing DEF Types
  <2> HIDE DEF a, b, c
  <2>3. want' \in {a, b, c} /\ want' <= a /\ want' <= b /\ want' <= c
    BY <2>1, <2>2, MinOfThree
  <2>4. want' \in Nat /\ want' <= Free /\ want' <= remaining
    <3>1. want' \in Nat /\ want' <= a /\ want' <= c
      BY <2>2, <2>3
    <3> QED BY <3>1 DEF a, c
  <2>5. filled = 0 /\ published = 0
    BY <2>1 DEF Accounts, Requests
  <2>6. Types'
    BY <2>1, <2>4, EmptySeq DEF Types, block, call, progress
  <2>7. Requests'
    BY <2>1, <2>4, <2>5 DEF Accounts, Requests, Types
  <2>8. Pieced'
    <3>1. Len(carry') = 0 /\ fetched' = 0 /\ published' = 0 /\ filled' = 0
      BY <2>1, <2>5
    <3>2. (published' + filled') * ItemSize = 0
      BY <3>1, Constants
    <3>3. want' * ItemSize \in Nat
      BY <2>4, Constants, ProductIsNat
    <3> QED BY <3>1, <3>2, <3>3, Constants DEF Pieced
  <2>9. Counts'
    BY <2>1, <2>4, <2>5, PositionsKept, CountsInRing, Constants
    DEF Accounts, Counts, Types, Base, Repeat, block, call
  <2> QED BY <2>1, <2>6, <2>7, <2>8, <2>9, CallsKept DEF Accounts
<1> QED BY <1>1, <1>2

\* The piece does not go beyond the request.
Fits(n) == fetched + n <= want * ItemSize

LEMMA DeliverStep ==
  ASSUME Types, Accounts, NEW n \in Nat, Fits(n), filled = 0,
         NEW next, Deliver(n, next), next \in {"verify", "body"}, UNCHANGED kind
  PROVE  Types' /\ Accounts'
<1>1. /\ filled' \in Nat /\ published + filled' <= want
      /\ ring' = [s \in Slot |-> IF After(s) < filled'
                                 THEN FileItem(position + published + After(s)) ELSE ring[s]]
      /\ carry' \in Seq(Nat) /\ fetched' = fetched + n
      /\ rpc' = IF filled' = 0 THEN next ELSE "publish"
      /\ Pieced'
  BY Delivered DEF Accounts, Fits
<1>2. UNCHANGED <<readPos, writePos, state, position, remaining, want, published, pass, block>>
  BY DEF Deliver
<1>3. /\ position \in Nat /\ published \in Nat /\ want \in Nat /\ filled' \in Nat /\ Length \in Nat
      /\ published + filled' <= want /\ position + want <= Length
  <2>1. position + remaining = Length /\ want <= remaining /\ position \in Nat /\ remaining \in Nat
        /\ want \in Nat /\ published \in Nat
    BY DEF Accounts, Requests, Types
  <2>2. position + want <= Length
    BY <2>1, Constants
  <2>3. filled' \in Nat /\ published + filled' <= want
    BY <1>1
  <2> QED BY <2>1, <2>2, <2>3, Constants
<1>4. ring' \in [Slot -> Content]
  <2>1. ASSUME NEW s \in Slot, After(s) < filled'
        PROVE  FileItem(position + published + After(s)) \in Content
    <3>1. After(s) \in Nat
      BY Constants DEF After, Slot, Types
    <3> DEFINE i == position + published + After(s)
    <3>2. i \in Nat /\ i < Length
      <4> DEFINE d == After(s)
      <4>1. d \in Nat /\ d < filled'
        BY <2>1, <3>1
      <4> HIDE DEF d
      <4>2. position + published + d < Length
        <5>1. \A f \in Nat : d < f /\ published + f <= want => position + published + d < Length
          BY <1>3, <4>1
        <5> QED BY <1>3, <4>1, <5>1
      <4> QED BY <1>3, <4>1, <4>2 DEF d
    <3>3. PICK j \in 0 .. Length - 1 : j = i
      BY <3>2, Constants
    <3> QED BY <3>3 DEF Content
  <2> QED BY <1>1, <2>1 DEF Types
<1>5. Types'
  BY <1>1, <1>2, <1>4 DEF Types, block, call, progress
<1>6. Requests'
  BY <1>1, <1>2 DEF Accounts, Requests
<1>7. Counts'
  BY <1>2, PositionsKept DEF Accounts, Counts, Base, Repeat, block, call
<1> QED BY <1>1, <1>2, <1>5, <1>6, <1>7, CallsKept DEF Accounts

LEMMA PublishStep ==
  ASSUME Types, Accounts, Publish, UNCHANGED kind
  PROVE  /\ Types' /\ Accounts'
         /\ Used' = Used + filled /\ filled <= Free
<1>1. /\ UNCHANGED <<kind, readPos, state, ring, position, remaining, want, carry, fetched, pass,
                     block>>
      /\ writePos' = Advance(writePos, filled) /\ published' = published + filled /\ filled' = 0
      /\ rpc' \in {"body", "verify"}
  BY DEF Publish
<1>2. /\ position \in Nat /\ published \in Nat /\ want \in Nat /\ filled \in Nat /\ Used \in Nat
      /\ Len(out) \in Nat /\ pass \in Nat /\ Base \in Nat /\ avail \in Nat
      /\ Free = Capacity - Used - 1 /\ Capacity \in Nat
  BY Constants, CountsInRing, LenProperties DEF Types, Base
<1>3. published + filled <= want /\ want - published <= Free
  BY DEF Accounts, Requests, Counts
<1>4. filled <= Free
  BY <1>2, <1>3
<1>5. Used' = Used + filled /\ Free' = Capacity - Used' - 1
  <2>1. Used' = Used + filled
    BY <1>1, <1>2, <1>4, UsedAfterPublish
  <2> QED BY <2>1 DEF Free
<1>6. writePos' \in Slot
  BY <1>1, <1>2, AdvanceInSlot, Constants DEF Types, Slot
<1>7. Types'
  BY <1>1, <1>2, <1>6 DEF Types, block, call, progress
<1>8. Requests'
  BY <1>1, <1>2 DEF Accounts, Requests
<1>9. Pieced'
  <2>1. published' + filled' = published + filled /\ position' + published' + filled' = position + published + filled
    BY <1>1, <1>2
  <2> QED BY <1>1, <2>1 DEF Accounts, Pieced
<1>10. Counts'
  <2>1. Base' = Base /\ Len(out') = Len(out) /\ avail' = avail
    BY <1>1 DEF Base, Repeat, block, call
  <2> QED BY <1>1, <1>2, <1>5, <2>1 DEF Accounts, Counts
<1> QED BY <1>1, <1>4, <1>5, <1>7, <1>8, <1>9, <1>10, CallsKept DEF Accounts

LEMMA NextRequestStep ==
  ASSUME Types, Accounts, NextRequest, UNCHANGED kind
  PROVE  Types' /\ Accounts' /\ Base' + position' + published' = Base + position + published
<1>1. /\ UNCHANGED <<kind, readPos, writePos, ring, filled, carry, block>>
      /\ want' = 0 /\ published' = 0 /\ fetched' = 0 /\ filled = 0
      /\ published = want /\ carry = <<>>
  BY DEF NextRequest, Accounts, Requests
<1>2. /\ position \in Nat /\ remaining \in Nat /\ want \in Nat /\ pass \in Nat
      /\ Length \in Nat /\ Length >= 1 /\ Capacity \in Nat /\ ItemSize \in Nat /\ ItemSize >= 1
      /\ position + remaining = Length /\ want <= remaining
  BY Constants DEF Types, Accounts, Requests
<1>3. /\ position' \in Nat /\ remaining' \in Nat /\ pass' \in Nat
      /\ position' + remaining' = Length /\ rpc' \in {"check", "gone"}
      /\ Base' + position' = Base + position + published
  <2>1. CASE MoreToCome
    <3>1. /\ position' = position + want /\ remaining' = remaining - want /\ pass' = pass
          /\ rpc' = "check"
      BY <2>1 DEF NextRequest
    <3>2. Base' = Base
      BY <1>1, <3>1 DEF Base, Repeat
    <3>3. Base \in Nat
      BY <1>2 DEF Base
    <3> QED BY <1>1, <1>2, <3>1, <3>2, <3>3
  <2>2. CASE ~MoreToCome
    <3>1. want = remaining /\ position + want = Length
      BY <1>2, <2>2 DEF MoreToCome
    <3>2. (pass + 1) * Length = pass * Length + Length /\ pass * Length \in Nat
      BY <1>2
    <3>3. CASE Repeat
      <4>1. Repeat' /\ position' = 0 /\ remaining' = Length /\ pass' = pass + 1 /\ rpc' = "check"
        BY <1>1, <2>2, <3>3 DEF NextRequest, Repeat
      <4> QED BY <1>1, <1>2, <3>1, <3>2, <3>3, <4>1 DEF Base
    <3>4. CASE ~Repeat
      <4>1. ~Repeat' /\ position' = position + want /\ remaining' = 0 /\ pass' = pass + 1 /\ rpc' = "gone"
        BY <1>1, <2>2, <3>4 DEF NextRequest, Repeat, Close
      <4> QED BY <1>1, <1>2, <3>1, <3>4, <4>1 DEF Base
    <3> QED BY <3>3, <3>4
  <2> QED BY <2>1, <2>2
<1>4. Types'
  BY <1>1, <1>3 DEF Types, block, call, progress
<1>5. Requests'
  BY <1>1, <1>3 DEF Requests
<1>6. Pieced'
  BY <1>1, <1>2 DEF Pieced
<1>7. Base' + position' + published' = Base + position + published
  <2>1. Base' \in Nat /\ Base \in Nat
    BY <1>2, <1>3, ProductIsNat DEF Base
  <2>2. published' = 0 /\ position \in Nat /\ published \in Nat /\ position' \in Nat
    BY <1>1, <1>2, <1>3
  <2>3. \A b, x \in Nat : b + x = Base + position + published
                          => b + x + 0 = Base + position + published
    BY <2>1, <2>2
  <2> QED BY <1>3, <2>1, <2>2, <2>3
<1>8. Counts'
  <2>1. Used' = Used /\ Free' = Free /\ Used \in Nat /\ Free \in Nat
    BY <1>1, CountsInRing, PositionsKept, Constants
  <2>2. Len(out) + Used = Base + position + published /\ avail <= Used
        /\ Len(out') = Len(out) /\ avail' = avail
    BY <1>1 DEF Accounts, Counts, block, call
  <2> QED BY <1>1, <1>7, <2>1, <2>2 DEF Counts
<1> QED BY <1>1, <1>4, <1>5, <1>6, <1>7, <1>8, CallsKept DEF Accounts

\* The reader's steps.
LEMMA ReaderAccounts ==
  ASSUME Types, Accounts, Reader
  PROVE  Types' /\ Accounts'
<1>1. UNCHANGED kind
  BY DEF Reader
<1>2. CASE NeverLoads
  BY <1>1, <1>2, QuietStep DEF NeverLoads, Close, shared
<1>3. CASE Boot
  BY <1>1, <1>3, QuietStep DEF Boot
<1>4. CASE Check
  BY <1>1, <1>4, QuietStep DEF Check, Close, shared
<1>5. CASE Size
  BY <1>1, <1>5, SizeStep
<1>6. CASE Publish
  BY <1>1, <1>6, PublishStep
<1>7. CASE Verify
  <2>1. CASE Fail("short")
    BY <1>1, <1>7, <2>1, FailStep DEF Verify
  <2>2. CASE ~Fail("short")
    BY <1>1, <1>7, <2>2, QuietStep DEF Verify, Short, Close, shared
  <2> QED BY <2>1, <2>2
<1>8. CASE NextRequest
  BY <1>1, <1>8, NextRequestStep
<1>9. CASE Request
  <2>1. ASSUME NEW n \in 0 .. MaxChunk * ItemSize, ReadLocal(n) PROVE Types' /\ Accounts'
    <3>1. fetched = 0 /\ filled = 0 /\ n \in Nat /\ n <= want * ItemSize /\ Deliver(n, "verify")
      BY <2>1, Constants, ProductIsNat DEF ReadLocal, Accounts, Requests
    <3>2. Fits(n)
      BY <3>1 DEF Fits
    <3> QED BY <1>1, <3>1, <3>2, DeliverStep
  <2>2. ASSUME NEW n \in Pieces, Piece(n) PROVE Types' /\ Accounts'
    <3>1. filled = 0 /\ n \in Nat /\ Fits(n) /\ Deliver(n, "body")
      BY <2>2 DEF Piece, Accounts, Requests, Pieces, Fits
    <3> QED BY <1>1, <3>1, DeliverStep
  <2>3. CASE Fetch
    BY <1>1, <2>3, QuietStep DEF Fetch, shared
  <2>4. CASE BodyComplete
    BY <1>1, <2>4, QuietStep DEF BodyComplete, shared
  <2>5. CASE AttemptFails
    BY <1>1, <2>5, QuietStep DEF AttemptFails, shared
  <2>6. CASE Retry
    <3>1. CASE Fail("retries")
      BY <1>1, <2>6, <3>1, FailStep DEF Retry
    <3>2. CASE ~Fail("retries")
      BY <1>1, <2>6, <3>2, QuietStep DEF Retry, shared
    <3> QED BY <3>1, <3>2
  <2>7. CASE Abandon
    BY <1>1, <2>7, QuietStep DEF Abandon, shared
  <2>8. CASE GiveUpAtOnce
    BY <1>1, <2>8, FailStep DEF GiveUpAtOnce
  <2> QED BY <1>9, <2>1, <2>2, <2>3, <2>4, <2>5, <2>6, <2>7, <2>8 DEF Request
<1> QED BY <1>2, <1>3, <1>4, <1>5, <1>6, <1>7, <1>8, <1>9 DEF Reader

\* A step of the block that moves nothing leaves the reader's accounts alone.
LEMMA ReaderKept ==
  ASSUME Requests, Pieced, UNCHANGED request,
         rpc' = rpc \/ rpc' = "gone" \/ (rpc' = "boot" /\ rpc = "none")
  PROVE  Requests' /\ Pieced'
  BY DEF Requests, Pieced, request

LEMMA CountsKept ==
  ASSUME Counts, UNCHANGED <<kind, readPos, writePos, position, want, published, pass, out>>,
         avail' = avail
  PROVE  Counts'
  BY PositionsKept DEF Counts, Base, Repeat

\* What the block copies out at a time.
Take == Min({avail, wanted - produced, Length - intoPass, Capacity - readPos})

LEMMA CopyTakes ==
  ASSUME Types, Accounts, WorkCopy
  PROVE  /\ Take \in Nat /\ Take >= 1 /\ Take <= avail /\ Take <= wanted - produced
         /\ Take <= Length - intoPass /\ readPos + Take <= Capacity /\ Take <= Capacity - 1
         /\ taken' = Take /\ hand' \in Seq(Content) /\ Len(hand') = Take
         /\ hand' = [k \in 1 .. Take |-> ring[readPos + k - 1]]
<1> DEFINE a == avail
           b == wanted - produced
           c == Length - intoPass
           d == Capacity - readPos
<1>1. /\ readPos \in Nat /\ readPos < Capacity /\ Capacity \in Nat /\ Length \in Nat
      /\ avail \in Nat /\ wanted \in Nat /\ produced \in Nat /\ intoPass \in Nat
      /\ avail >= 1 /\ produced < wanted /\ intoPass < Length
  BY Constants DEF WorkCopy, Types, Accounts, Calls, Slot
<1>2. a \in Int /\ b \in Int /\ c \in Int /\ d \in Int /\ a >= 1 /\ b >= 1 /\ c >= 1 /\ d >= 1
  BY <1>1
<1>3. Take = Min({a, b, c, d})
  BY DEF Take
<1> HIDE DEF a, b, c, d
<1>4. Take \in {a, b, c, d} /\ Take <= a /\ Take <= b /\ Take <= c /\ Take <= d
  BY <1>2, <1>3, MinOfFour
<1>5. Take \in Nat /\ Take >= 1
  BY <1>2, <1>4
<1>6. Take <= avail /\ Take <= wanted - produced /\ Take <= Length - intoPass /\ Take <= Capacity - readPos
  BY <1>4 DEF a, b, c, d
<1>7. readPos + Take <= Capacity
  BY <1>1, <1>5, <1>6
<1>8. Take <= Capacity - 1
  <2>1. avail <= Used /\ Used <= Capacity - 1 /\ Used \in Int
    BY CountsInRing, Constants DEF Accounts, Counts
  <2> QED BY <1>1, <1>5, <1>6, <2>1
<1>9. taken' = Take /\ hand' = [k \in 1 .. Take |-> ring[readPos + k - 1]]
  BY DEF WorkCopy, Take
<1>10. ASSUME NEW k \in 1 .. Take PROVE ring[readPos + k - 1] \in Content
  <2>1. readPos + k - 1 \in Slot
    BY <1>1, <1>5, <1>7 DEF Slot
  <2> QED BY <2>1 DEF Types
<1>11. hand' \in Seq(Content) /\ Len(hand') = Take
  <2> HIDE DEF Take
  <2> QED BY <1>5, <1>9, <1>10
<1> QED BY <1>5, <1>6, <1>7, <1>8, <1>9, <1>11

LEMMA CopyStep ==
  ASSUME Types, Accounts, WorkCopy, UNCHANGED kind
  PROVE  Types' /\ Accounts'
<1> DEFINE n == Take
           passed == repeats * Length
<1>1. /\ n \in Nat /\ n >= 1 /\ n <= avail /\ n <= wanted - produced
      /\ n <= Length - intoPass /\ readPos + n <= Capacity
      /\ taken' = n /\ hand' \in Seq(Content) /\ Len(hand') = n
  BY CopyTakes
<1>2. /\ produced' = produced + n /\ intoPass' = intoPass + n
      /\ UNCHANGED <<shared, reader, wanted, avail, repeats, out, kind>> /\ wpc' = "release"
      /\ wpc = "copy"
  BY DEF WorkCopy, Take
<1> HIDE DEF n
<1>3. /\ Len(out) \in Nat /\ passed \in Nat /\ intoPass \in Nat /\ wanted \in Nat /\ produced \in Nat
      /\ Length \in Nat /\ avail \in Nat /\ taken = 0
  BY <1>2, Constants, LenProperties, ProductIsNat DEF Types, Accounts, Calls
<1>4. Types'
  BY <1>1, <1>2, <1>3 DEF Types, shared, reader, request
<1>5. Requests' /\ Pieced'
  BY <1>2, ReaderKept DEF Accounts, reader
<1>6. Counts'
  BY <1>2, CountsKept DEF Accounts, shared, reader, request
<1>7. Calls'
  <2>1. /\ Len(out) = passed + intoPass
        /\ Repeat => Len(out) + (wanted - produced) <= MaxPasses * Length
    BY <1>2, <1>3 DEF Accounts, Calls, Working
  <2>2. passed' = passed /\ Len(out') = Len(out) /\ Repeat' = Repeat /\ wanted' = wanted
        /\ avail' = avail /\ readPos' = readPos
    BY <1>2 DEF Repeat, shared
  <2> HIDE DEF passed
  <2>3. /\ produced + n <= wanted /\ intoPass + n <= Length
        /\ Len(out) + n = passed + (intoPass + n)
        /\ Len(out) + n + (wanted - (produced + n)) = Len(out) + (wanted - produced)
    BY <1>1, <1>3, <2>1
  <2> QED BY <1>1, <1>2, <2>1, <2>2, <2>3 DEF Calls, Working, passed
<1> QED BY <1>4, <1>5, <1>6, <1>7 DEF Accounts

LEMMA ReleaseStep ==
  ASSUME Types, Accounts, WorkRelease, UNCHANGED kind
  PROVE  /\ Types' /\ Accounts' /\ taken \in Nat /\ taken <= Used /\ Used' = Used - taken
         /\ Len(out') = Len(out) + taken
<1> DEFINE passed == repeats * Length
<1>1. /\ wpc = "release" /\ taken >= 1 /\ taken <= avail /\ readPos + taken <= Capacity
      /\ Len(hand) = taken /\ avail <= Used /\ produced <= wanted /\ intoPass <= Length
  BY DEF WorkRelease, Accounts, Calls, Counts
<1>2. /\ UNCHANGED <<kind, writePos, state, ring, reader, wanted, produced, begins, tags, stopping>>
      /\ readPos' = Advance(readPos, taken) /\ out' = out \o hand
      /\ hand' = <<>> /\ taken' = 0 /\ avail' = 0
      /\ wpc' = IF produced = wanted THEN "idle" ELSE "load"
      /\ intoPass' = IF intoPass = Length THEN 0 ELSE intoPass
      /\ repeats' = IF intoPass = Length THEN repeats + 1 ELSE repeats
  BY DEF WorkRelease, NextPass
<1>3. /\ taken \in Nat /\ avail \in Nat /\ Used \in Nat /\ Used <= Capacity - 1 /\ Len(out) \in Nat
      /\ Free = Capacity - Used - 1 /\ Capacity \in Nat
      /\ out \in Seq(Content) /\ hand \in Seq(Content) /\ intoPass \in Nat /\ repeats \in Nat
      /\ wanted \in Nat /\ produced \in Nat /\ Length \in Nat /\ Length >= 1 /\ passed \in Nat
  BY CountsInRing, Constants, LenProperties, ProductIsNat DEF Types
<1>4. out' \in Seq(Content) /\ Len(out') = Len(out) + taken
  BY <1>1, <1>2, <1>3, ConcatProperties
<1>5. taken <= Used
  BY <1>1, <1>3
<1>6. Used' = Used - taken /\ Free' = Capacity - Used' - 1
  <2>1. Used' = Used - taken
    BY <1>2, <1>3, <1>5, UsedAfterRelease
  <2> QED BY <2>1 DEF Free
<1>7. readPos' \in Slot
  BY <1>2, <1>3, AdvanceInSlot, Constants DEF Types, Slot
<1>8. Types'
  BY <1>2, <1>3, <1>4, <1>7, EmptySeq DEF Types, reader, request
<1>9. Requests' /\ Pieced'
  BY <1>2, ReaderKept DEF Accounts, reader
<1>10. Counts'
  <2>1. Base' = Base /\ UNCHANGED <<position, published, want>> /\ avail' = 0
    BY <1>2 DEF Base, Repeat, reader, request
  <2>2. Len(out) + Used = Base + position + published /\ want - published <= Free
    BY DEF Accounts, Counts
  <2>3. want \in Nat /\ published \in Nat /\ Base \in Nat /\ position \in Nat
    BY Constants, ProductIsNat DEF Types, Base
  <2>4. (Len(out) + taken) + (Used - taken) = Len(out) + Used
    BY <1>3
  <2>5. want - published <= Capacity - (Used - taken) - 1 /\ 0 <= Used - taken
    BY <1>3, <1>5, <2>2, <2>3
  <2> QED BY <1>4, <1>6, <2>1, <2>2, <2>4, <2>5 DEF Counts
<1>11. Calls'
  <2>1. /\ Len(out) + taken = passed + intoPass
        /\ Repeat => Len(out) + taken + (wanted - produced) <= MaxPasses * Length
    BY <1>1 DEF Accounts, Calls, Working
  <2>2. Repeat' = Repeat /\ wanted' = wanted /\ produced' = produced
    BY <1>2 DEF Repeat
  <2>3. repeats' * Length + intoPass' = passed + intoPass /\ intoPass' < Length
        /\ intoPass' <= Length
    BY <1>1, <1>2, <1>3
  <2>4. produced = wanted => wanted - produced = 0
    BY <1>3
  <2>5. produced # wanted => produced < wanted
    BY <1>1, <1>3
  <2>6. /\ Len(hand') = 0 /\ Len(out') + 0 = repeats' * Length + intoPass'
        /\ Len(out') + 0 = Len(out) + taken
    BY <1>2, <1>3, <1>4, <2>1, <2>3
  <2> DEFINE rest == IF Working THEN wanted - produced ELSE 0
  <2>7. rest' = wanted - produced
    BY <1>2, <2>2, <2>4 DEF Working
  <2>8. Repeat' => Len(out') + 0 + rest' <= MaxPasses * Length
    <3>1. Len(out') + 0 + rest' = Len(out) + taken + (wanted - produced)
      BY <2>6, <2>7
    <3> QED BY <2>1, <2>2, <3>1
  <2>9. /\ produced' <= wanted' /\ (wpc' \in {"load", "state", "copy"} => produced' < wanted')
        /\ wpc' \notin {"copy", "release"} /\ intoPass' <= Length
    BY <1>1, <1>2, <2>2, <2>3, <2>5
  <2> HIDE DEF rest
  <2>10. Repeat' => Len(out') + taken' + rest' <= MaxPasses * Length
    BY <1>2, <2>8
  <2> QED BY <1>2, <2>3, <2>6, <2>9, <2>10 DEF Calls, rest
<1> QED BY <1>3, <1>4, <1>5, <1>6, <1>8, <1>9, <1>10, <1>11 DEF Accounts

\* The worker is launched by start().
Unlaunched == wpc = "new" => rpc = "none"

LEMMA LaunchStep ==
  ASSUME Unlaunched, [Next]_vars
  PROVE  Unlaunched'
<1> USE DEF Unlaunched
<1>1. CASE UNCHANGED vars \/ Over
  BY <1>1 DEF Over, vars, reader, block
<1>2. CASE Reader
  <2>1. UNCHANGED wpc /\ rpc # "none"
    BY <1>2
    DEF Reader, NeverLoads, Boot, Check, Size, Request, Publish, Verify, NextRequest, ReadLocal, Fetch,
        Piece, BodyComplete, AttemptFails, Retry, Abandon, GiveUpAtOnce, Deliver, Fail, block
  <2> QED BY <2>1
<1>3. CASE Block \/ StopFlowgraph
  <2>1. wpc' # "new" \/ (UNCHANGED <<wpc, rpc>>)
    BY <1>3
    DEF Block, Start, Work, WorkStep, WorkLoad, WorkState, WorkCopy, WorkRelease, StopStep, StopStore,
        StopTerminate, StopFlowgraph, reader
  <2> QED BY <2>1
<1> QED BY <1>1, <1>2, <1>3 DEF Next

\* The block's steps.
LEMMA BlockAccounts ==
  ASSUME Types, Accounts, Unlaunched, Block \/ StopFlowgraph
  PROVE  Types' /\ Accounts'
<1>1. UNCHANGED kind
  BY DEF Block, StopFlowgraph
<1>2. CASE Start
  <2>1. /\ UNCHANGED <<kind, readPos, writePos, ring, request, retry, pass, call, progress,
                       returned, out>>
        /\ wpc' \in {"idle", "stopped"} /\ wpc = "new" /\ (rpc' = rpc \/ rpc' = "boot")
    BY <1>1, <1>2 DEF Start
  <2>2. rpc = "none"
    BY <2>1 DEF Unlaunched
  <2>3. Requests' /\ Pieced'
    BY <2>1, <2>2, ReaderKept DEF Accounts
  <2>4. Types' /\ Counts'
    BY <2>1, CountsKept DEF Types, Accounts, request, call, progress
  <2>5. Calls'
    BY <2>1 DEF Accounts, Calls, Working, Repeat, call, progress
  <2> QED BY <2>3, <2>4, <2>5 DEF Accounts
<1>3. ASSUME NEW n \in 1 .. MaxOutput, Work(n) PROVE Types' /\ Accounts'
  <2>1. /\ UNCHANGED <<kind, shared, reader, avail, taken, hand, progress, out>>
        /\ wpc = "idle" /\ wpc' = "load" /\ wanted' = n /\ produced' = 0 /\ n \in Nat /\ n >= 1
        /\ Repeat => Len(out) + n <= MaxPasses * Length
    BY <1>1, <1>3, Constants DEF Work
  <2>2. Types'
    BY <2>1 DEF Types, shared, reader, request, progress
  <2>3. Requests' /\ Pieced' /\ Counts'
    BY <2>1, ReaderKept, CountsKept DEF Accounts, shared, reader, request
  <2>4. Calls'
    <3>1. taken = 0 /\ Len(out) \in Nat
      BY <2>1, LenProperties DEF Accounts, Calls, Types
    <3>2. Len(out) + 0 + (n - 0) = Len(out) + n
      BY <2>1, <3>1
    <3> QED BY <2>1, <3>1, <3>2 DEF Accounts, Calls, Working, Repeat, progress, shared
  <2> QED BY <2>2, <2>3, <2>4 DEF Accounts
<1>4. CASE WorkLoad
  <2>1. /\ UNCHANGED <<kind, shared, reader, wanted, produced, taken, hand, progress, out>>
        /\ wpc = "load" /\ wpc' = (IF Used = 0 THEN "state" ELSE "copy") /\ avail' = Used
        /\ Used \in Nat
    BY <1>1, <1>4, CountsInRing, Constants DEF WorkLoad
  <2>2. Types'
    BY <2>1 DEF Types, shared, reader, request, progress
  <2>3. Requests' /\ Pieced'
    BY <2>1, ReaderKept DEF Accounts, reader
  <2>4. Counts'
    BY <2>1, PositionsKept DEF Accounts, Counts, Base, Repeat, shared, reader, request
  <2>5. Calls'
    BY <2>1 DEF Accounts, Calls, Working, Repeat, progress, shared
  <2> QED BY <2>2, <2>3, <2>4, <2>5 DEF Accounts
<1>5. CASE WorkState
  <2>1. /\ UNCHANGED <<kind, shared, reader, call, progress, out>>
        /\ wpc = "state" /\ wpc' \in {"idle", "load"}
    BY <1>1, <1>5 DEF WorkState
  <2>2. Types'
    BY <2>1 DEF Types, shared, reader, request, progress, call
  <2>3. Requests' /\ Pieced' /\ Counts'
    BY <2>1, ReaderKept, CountsKept DEF Accounts, shared, reader, request, call
  <2>4. Calls'
    <3>1. wanted \in Nat /\ produced \in Nat /\ Len(out) \in Nat /\ taken = 0
      BY <2>1, LenProperties DEF Types, Accounts, Calls
    <3>2. MaxPasses * Length \in Nat
      BY Constants, ProductIsNat
    <3> DEFINE most == MaxPasses * Length
    <3>3. Repeat => Len(out) + taken + (wanted - produced) <= most
      BY <2>1 DEF Accounts, Calls, Working
    <3>4. produced < wanted
      BY <2>1 DEF Accounts, Calls
    <3> HIDE DEF most
    <3>5. Repeat => Len(out) + taken + 0 <= most
      BY <3>1, <3>2, <3>3, <3>4 DEF most
    <3> QED BY <2>1, <3>3, <3>4, <3>5 DEF Accounts, Calls, Working, Repeat, call, progress, shared, most
  <2> QED BY <2>2, <2>3, <2>4 DEF Accounts
<1>6. CASE WorkCopy
  BY <1>1, <1>6, CopyStep
<1>7. CASE WorkRelease
  BY <1>1, <1>7, ReleaseStep
<1>8. CASE StopStep \/ StopFlowgraph
  <2>1. /\ UNCHANGED <<kind, readPos, writePos, ring, request, pass, call, progress, out>>
        /\ rpc' = rpc \/ rpc' = "gone"
        /\ wpc' = wpc \/ (wpc = "idle" /\ wpc' = "stop") \/ (wpc = "stop" /\ wpc' = "stopped")
    BY <1>1, <1>8 DEF StopStep, StopStore, StopTerminate, StopFlowgraph, shared, reader
  <2>2. Types'
    BY <2>1 DEF Types, request, progress, call
  <2>3. Requests' /\ Pieced' /\ Counts'
    BY <2>1, ReaderKept, CountsKept DEF Accounts, request, call
  <2>4. Calls'
    BY <2>1 DEF Accounts, Calls, Working, Repeat, call, progress
  <2> QED BY <2>2, <2>3, <2>4 DEF Accounts
<1> QED BY <1>2, <1>3, <1>4, <1>5, <1>6, <1>7, <1>8 DEF Block, WorkStep

LEMMA NextAccounts ==
  ASSUME Types, Accounts, Unlaunched, [Next]_vars
  PROVE  Types' /\ Accounts'
<1>1. CASE UNCHANGED vars
  <2>1. UNCHANGED <<kind, shared, reader, block, request, call, progress, pass>>
    BY <1>1 DEF vars, reader, block
  <2> QED BY <2>1, ReaderKept, CountsKept, CallsKept
          DEF Types, Accounts, shared, reader, block, request, call, progress
<1> QED BY <1>1, ReaderAccounts, BlockAccounts DEF Next, Over

\* Both sides keep their accounts: the bytes of a request, the items of a call, a
\* pass and the ring add up at every step (work(), run(), streamHttp(), publish()).
THEOREM AccountsHold == Spec => [](Types /\ Accounts /\ Unlaunched)
<1>1. Init => Unlaunched
  BY DEF Init, Unlaunched
<1> QED BY <1>1, InitAccounts, NextAccounts, LaunchStep, PTL DEF Spec

-----------------------------------------------------------------------------
(* Every step is a step of the ring, or none.                                *)

Hand == [k \in 0 .. taken - 1 |-> hand[k + 1]]
Out == [i \in 0 .. Len(out) - 1 |-> out[i + 1]]
Selection == [i \in 0 .. MaxItems - 1 |-> FileItem(i % Length)]
Sent == Len(out) + Used

LEMMA InitRing == Init => Ring!Init
<1> SUFFICES ASSUME Init PROVE Ring!Init
  OBVIOUS
<1>1. Len(out) = 0 /\ taken = 0 /\ want - published = 0
  BY EmptySeq DEF Init
<1>2. Out = [i \in {} |-> i] /\ Hand = [i \in {} |-> i]
  <2>1. 0 .. Len(out) - 1 = {} /\ 0 .. taken - 1 = {}
    BY <1>1
  <2> QED BY <2>1 DEF Out, Hand
<1>3. Sent = 0
  BY <1>1 DEF Init, Sent, Used
<1> QED BY <1>1, <1>2, <1>3 DEF Init, Ring!Init, Ring!Nothing, Ring!Slot, Slot, Out, Hand, Sent

\* The block's side of the ring is left alone, or the reader's.
LEMMA ConsumerIdle ==
  ASSUME UNCHANGED <<readPos, avail, taken, hand, out>>
  PROVE  UNCHANGED Ring!consumer
  BY DEF Ring!consumer

LEMMA ProducerIdle ==
  ASSUME UNCHANGED <<readPos, writePos, want, published, filled, out>>
  PROVE  UNCHANGED Ring!producer
  BY DEF Ring!producer, Used

LEMMA NoRingStep ==
  ASSUME UNCHANGED <<ring, readPos, writePos, want, published, filled, avail, taken, hand, out>>
  PROVE  UNCHANGED Ring!vars
  BY ConsumerIdle, ProducerIdle DEF Ring!vars

LEMMA BlockRing ==
  ASSUME Types, Accounts, Block \/ StopFlowgraph
  PROVE  [Ring!Next]_Ring!vars
<1>1. UNCHANGED <<kind, ring, writePos, want, published, filled>>
  BY DEF Block, Start, Work, WorkStep, WorkLoad, WorkState, WorkCopy, WorkRelease, StopStep, StopStore,
         StopTerminate, StopFlowgraph, shared, reader, request
<1>2. CASE UNCHANGED <<readPos, avail, taken, hand, out>>
  BY <1>1, <1>2, NoRingStep
<1>3. CASE Start \/ StopFlowgraph \/ WorkState \/ StopStep \/ \E n \in 1 .. MaxOutput : Work(n)
  BY <1>2, <1>3
  DEF Start, StopFlowgraph, WorkState, StopStep, StopStore, StopTerminate, Work, shared, call
<1>4. CASE WorkLoad
  <2>1. /\ UNCHANGED <<readPos, taken, hand, out>> /\ taken = 0 /\ avail = 0
        /\ avail' = Used /\ Used \in 0 .. Capacity - 1
    BY <1>4, CountsInRing, Constants DEF WorkLoad, shared, Accounts, Calls
  <2>2. UNCHANGED Ring!producer
    BY <1>1, <2>1, ProducerIdle
  <2>3. Ring!ConsumerLook
    BY <1>1, <2>1, <2>2 DEF Ring!ConsumerLook, Ring!Used, Ring!Distance, Used
  <2> QED BY <2>3 DEF Ring!Next, Ring!Consumer
<1>5. CASE WorkCopy
  <2>1. /\ Take \in Nat /\ Take >= 1 /\ Take <= avail /\ Take <= Capacity - 1
        /\ readPos + Take <= Capacity /\ taken' = Take
        /\ hand' = [k \in 1 .. Take |-> ring[readPos + k - 1]]
    BY <1>5, CopyTakes
  <2>2. taken = 0 /\ readPos \in Nat /\ UNCHANGED <<ring, readPos, avail, out>>
    BY <1>5, Constants DEF WorkCopy, Types, Accounts, Calls, Slot, shared
  <2>3. ASSUME NEW k \in 0 .. Take - 1 PROVE hand'[k + 1] = ring[readPos + k]
    <3>1. k + 1 \in 1 .. Take /\ readPos + (k + 1) - 1 = readPos + k
      BY <2>1, <2>2
    <3> QED BY <2>1, <3>1
  <2>4. Hand' = [k \in 0 .. Take - 1 |-> ring[readPos + k]]
    BY <2>1, <2>3 DEF Hand
  <2>5. PICK n \in 1 .. Capacity - 1 : n = Take
    BY <2>1, Constants
  <2>6. UNCHANGED Ring!producer
    BY <1>1, <2>2, ProducerIdle
  <2>7. Ring!ConsumerCopy(n)
    BY <1>1, <2>1, <2>2, <2>4, <2>5, <2>6 DEF Ring!ConsumerCopy, Hand
  <2> QED BY <2>7 DEF Ring!Next, Ring!Consumer
<1>6. CASE WorkRelease
  <2>1. /\ taken \in Nat /\ taken <= Used /\ Used' = Used - taken /\ Len(out') = Len(out) + taken
    BY <1>1, <1>6, ReleaseStep
  <2>2. /\ taken >= 1 /\ Len(hand) = taken /\ taken' = 0 /\ avail' = 0
        /\ readPos' = Advance(readPos, taken) /\ out' = out \o hand
    BY <1>6 DEF WorkRelease, Accounts, Calls
  <2>3. /\ out \in Seq(Content) /\ hand \in Seq(Content) /\ Len(out) \in Nat /\ Used \in Nat
        /\ \A i \in 1 .. Len(out) + taken :
              out'[i] = IF i <= Len(out) THEN out[i] ELSE hand[i - Len(out)]
    BY <2>2, CountsInRing, Constants, ConcatProperties, LenProperties DEF Types
  <2>4. ASSUME NEW i \in 0 .. Len(out) + taken - 1
        PROVE  out'[i + 1] = IF i < Len(out) THEN Out[i] ELSE Hand[i - Len(out)]
    <3>1. i + 1 \in 1 .. Len(out) + taken
      BY <2>1, <2>3
    <3>2. CASE i < Len(out)
      <4>1. i + 1 <= Len(out) /\ i \in 0 .. Len(out) - 1
        BY <2>3, <3>2
      <4> QED BY <2>3, <3>1, <3>2, <4>1 DEF Out
    <3>3. CASE ~(i < Len(out))
      <4>1. /\ ~(i + 1 <= Len(out)) /\ i - Len(out) \in 0 .. taken - 1
            /\ (i - Len(out)) + 1 = (i + 1) - Len(out)
        BY <2>1, <2>3, <3>3
      <4>2. out'[i + 1] = hand[(i + 1) - Len(out)]
        BY <2>3, <3>1, <4>1
      <4> QED BY <3>3, <4>1, <4>2 DEF Hand
    <3> QED BY <3>2, <3>3
  <2>5. Out' = [i \in 0 .. Len(out) + taken - 1 |-> IF i < Len(out) THEN Out[i] ELSE Hand[i - Len(out)]]
    <3>1. Out' = [i \in 0 .. Len(out') - 1 |-> out'[i + 1]]
      BY DEF Out
    <3> HIDE DEF Out, Hand
    <3> QED BY <2>1, <2>4, <3>1
  <2>6. Hand' = [i \in {} |-> i]
    <3>1. 0 .. taken' - 1 = {}
      BY <2>2
    <3> QED BY <3>1 DEF Hand
  <2>7. Sent' = Sent
    <3>1. (Len(out) + taken) + (Used - taken) = Len(out) + Used
      BY <2>1, <2>3
    <3> QED BY <2>1, <3>1 DEF Sent
  <2>8. UNCHANGED Ring!producer
    BY <1>1, <2>7 DEF Ring!producer, Sent
  <2>9. Ring!ConsumerRelease
    BY <1>1, <2>1, <2>2, <2>5, <2>6, <2>8
    DEF Ring!ConsumerRelease, Ring!Advance, Ring!Nothing, Advance, Out, Hand
  <2> QED BY <2>9 DEF Ring!Next, Ring!Consumer
<1> QED BY <1>3, <1>4, <1>5, <1>6 DEF Block, WorkStep

\* What the reader may pass in all is within the bound, and the item a slot gets
\* is the next one of the selection.
LEMMA SentIs ==
  ASSUME Types, Accounts, NEW n \in Nat, n <= Free, published + n <= want
  PROVE  /\ Sent \in Nat /\ Sent + n <= MaxItems
         /\ \A k \in 0 .. n - 1 : Selection[Sent + k] = FileItem(position + published + k)
<1> DEFINE done == position + published
           passes == IF Repeat THEN pass ELSE 0
<1>1. /\ done \in Nat /\ Len(out) \in Nat /\ Used \in Nat /\ Used + n <= Capacity - 1
      /\ passes \in Nat /\ Length \in Nat /\ Length >= 1 /\ Capacity \in Nat /\ MaxPasses \in Nat
  BY Constants, LenProperties, CountsInRing DEF Types
<1>2. done + n <= Length
  <2>1. position + remaining = Length /\ want <= remaining /\ position \in Nat /\ remaining \in Nat
        /\ want \in Nat /\ published \in Nat
    BY DEF Types, Accounts, Requests
  <2> QED BY <1>1, <2>1
<1>3. Sent = passes * Length + done
  <2>1. Base = passes * Length
    BY Constants DEF Base
  <2>2. Len(out) + Used = Base + position + published /\ position \in Nat /\ published \in Nat
    BY DEF Accounts, Counts, Types
  <2>3. passes * Length \in Nat
    BY <1>1, ProductIsNat
  <2> HIDE DEF passes
  <2> QED BY <2>1, <2>2, <2>3 DEF Sent
<1>4. Sent + n <= MaxItems /\ MaxItems \in Nat
  <2>1. MaxItems = MaxPasses * Length + Length + Capacity
    BY <1>1 DEF MaxItems
  <2>2. MaxPasses * Length \in Nat
    BY <1>1, ProductIsNat
  <2>3. CASE Repeat
    <3>1. Len(out) + taken + (IF Working THEN wanted - produced ELSE 0) <= MaxPasses * Length
      BY <2>3 DEF Accounts, Calls
    <3>2. taken \in Nat /\ (IF Working THEN wanted - produced ELSE 0) \in Nat
      BY DEF Accounts, Calls, Types
    <3>3. Len(out) <= MaxPasses * Length
      BY <1>1, <2>2, <3>1, <3>2
    <3> QED BY <1>1, <2>1, <2>2, <3>3 DEF Sent
  <2>4. CASE ~Repeat
    <3>1. Sent = done
      BY <1>1, <1>3, <2>4
    <3> QED BY <1>1, <1>2, <2>1, <2>2, <3>1
  <2> QED BY <2>3, <2>4
<1>5. Sent \in Nat
  BY <1>1 DEF Sent
<1> HIDE DEF done, passes
<1>6. ASSUME NEW k \in 0 .. n - 1 PROVE Selection[Sent + k] = FileItem(done + k)
  <2>1. Sent + k \in 0 .. MaxItems - 1 /\ done + k \in 0 .. Length - 1
    BY <1>1, <1>2, <1>4, <1>5
  <2>2. Sent + k = passes * Length + (done + k)
    BY <1>1, <1>3, ProductIsNat
  <2>3. (passes * Length + (done + k)) % Length = done + k
    BY <1>1, <2>1, QuotientOf
  <2> QED BY <2>1, <2>2, <2>3 DEF Selection
<1> QED BY <1>4, <1>5, <1>6 DEF done

LEMMA DeliverRing ==
  ASSUME Types, Accounts, NEW n \in Nat, Fits(n), filled = 0, NEW next, Deliver(n, next)
  PROVE  [Ring!Next]_Ring!vars
<1>1. /\ filled' \in Nat /\ published + filled' <= want
      /\ ring' = [s \in Slot |-> IF After(s) < filled'
                                 THEN FileItem(position + published + After(s)) ELSE ring[s]]
  BY Delivered DEF Accounts, Fits
<1>2. UNCHANGED <<readPos, writePos, want, published, avail, taken, hand, out>>
  BY DEF Deliver, block, call
<1>3. PICK m \in Nat : m = filled'
  BY <1>1
<1>4. /\ published + m <= want /\ published \in Nat /\ want \in Nat /\ want - published <= Free
      /\ Free \in Nat /\ Free <= Capacity - 1
  <2>1. published + m <= want
    BY <1>1, <1>3
  <2>2. published \in Nat /\ want \in Nat /\ want - published <= Free
    BY DEF Types, Accounts, Counts
  <2>3. Free \in Nat /\ Free <= Capacity - 1
    BY CountsInRing, Constants
  <2> QED BY <2>1, <2>2, <2>3
<1>5. m <= want - published /\ m <= Free /\ m <= Capacity - 1
  BY <1>4, Constants
<1>6. \A s \in Slot : After(s) \in Nat
  BY Constants DEF After, Types, Slot
<1>7. CASE m = 0
  <2>1. \A s \in Slot : ~(After(s) < m)
    BY <1>6, <1>7
  <2>2. ring' = ring
    BY <1>1, <1>3, <2>1 DEF Types
  <2> QED BY <1>2, <1>3, <1>7, <2>2, NoRingStep
<1>8. CASE m # 0
  <2>1. /\ Sent \in Nat /\ Sent + m <= MaxItems
        /\ \A k \in 0 .. m - 1 : Selection[Sent + k] = FileItem(position + published + k)
    BY <1>4, <1>5, SentIs
  <2>2. \A s \in Slot : After(s) < m => FileItem(position + published + After(s)) = Selection[Sent + After(s)]
    <3> SUFFICES ASSUME NEW s \in Slot, After(s) < m
                 PROVE  FileItem(position + published + After(s)) = Selection[Sent + After(s)]
      OBVIOUS
    <3>1. PICK k \in 0 .. m - 1 : k = After(s)
      BY <1>6
    <3> QED BY <2>1, <3>1
  <2>3. ring' = [s \in Slot |-> IF After(s) < m THEN Selection[Sent + After(s)] ELSE ring[s]]
    BY <1>1, <1>3, <2>2
  <2>4. \A s \in Slot : After(s) = Ring!Distance(writePos, s)
    BY DEF After, Ring!Distance
  <2>5. ring' = [s \in Slot |-> IF Ring!Distance(writePos, s) < m
                                THEN Selection[Sent + Ring!Distance(writePos, s)] ELSE ring[s]]
    BY <2>3, <2>4
  <2>6. UNCHANGED Ring!consumer
    BY <1>2, ConsumerIdle
  <2>7. Ring!ProducerFill(m)
    BY <1>2, <1>3, <1>5, <2>1, <2>5, <2>6 DEF Ring!ProducerFill, Ring!Slot, Slot, Sent, Selection, Used
  <2>8. m \in 1 .. Capacity - 1
    BY <1>5, <1>8, Constants
  <2> QED BY <2>7, <2>8 DEF Ring!Next, Ring!Producer
<1> QED BY <1>7, <1>8

LEMMA ReaderRing ==
  ASSUME Types, Accounts, Reader
  PROVE  [Ring!Next]_Ring!vars
<1>1. UNCHANGED kind
  BY DEF Reader
<1>2. CASE UNCHANGED <<ring, readPos, writePos, request, block>>
  BY <1>2, NoRingStep DEF request, block, call
<1>3. CASE NeverLoads \/ Boot \/ Check \/ Verify
  BY <1>2, <1>3 DEF NeverLoads, Boot, Check, Verify, Fail, shared
<1>4. CASE Size
  <2>1. CASE Free = 0
    BY <1>2, <1>4, <2>1 DEF Size, shared
  <2>2. CASE Free # 0
    <3>1. /\ want = 0 /\ published = 0 /\ filled = 0 /\ published' = 0
          /\ UNCHANGED <<ring, readPos, writePos, filled, avail, taken, hand, out>>
          /\ UNCHANGED <<block, shared>>
      BY <1>4, <2>2 DEF Size, Accounts, Requests, shared, block, call
    <3>2. want' \in Nat /\ want' <= Free
      <4>1. Types' /\ Accounts'
        BY <1>1, <1>4, SizeStep
      <4>2. Free' = Free
        BY <3>1, PositionsKept
      <4> QED BY <3>1, <4>1, <4>2 DEF Types, Accounts, Counts
    <3>3. UNCHANGED Ring!consumer
      BY <3>1, ConsumerIdle
    <3>4. want - published = 0 /\ want' - published' \in 0 .. Free
      <4>1. \A x \in Nat : x <= Free => x - 0 \in 0 .. Free
        BY CountsInRing, Constants
      <4>2. want' - 0 \in 0 .. Free
        BY <3>2, <4>1
      <4>3. want - published = 0
        BY <3>1
      <4> QED BY <3>1, <4>2, <4>3
    <3>5. Ring!Free(readPos, writePos) = Free
      BY DEF Ring!Free, Ring!Used, Ring!Distance, Free, Used
    <3>6. UNCHANGED Used
      BY <3>1 DEF Used
    <3>7. Ring!ProducerLook
      BY <3>1, <3>3, <3>4, <3>5, <3>6 DEF Ring!ProducerLook
    <3> QED BY <3>7 DEF Ring!Next, Ring!Producer
  <2> QED BY <2>1, <2>2
<1>5. CASE Publish
  <2>1. Used' = Used + filled /\ filled >= 1
    BY <1>1, <1>5, PublishStep DEF Publish, Accounts, Requests
  <2>2. /\ writePos' = Advance(writePos, filled) /\ published' = published + filled /\ filled' = 0
        /\ UNCHANGED <<ring, readPos, want, block, avail, taken, hand, out>>
    BY <1>5 DEF Publish, block, call
  <2>3. UNCHANGED Ring!consumer
    BY <2>2, ConsumerIdle
  <2>4. /\ filled \in Nat /\ want \in Nat /\ published \in Nat /\ Len(out) \in Nat /\ Used \in Nat
    BY CountsInRing, Constants, LenProperties DEF Types
  <2>5. want' - published' = (want - published) - filled
    BY <2>2, <2>4
  <2>6. Len(out') + Used' = (Len(out) + Used) + filled
    BY <2>1, <2>2, <2>4
  <2>7. Ring!ProducerPublish
    BY <2>1, <2>2, <2>3, <2>4, <2>5, <2>6 DEF Ring!ProducerPublish, Ring!Advance, Advance
  <2> QED BY <2>7 DEF Ring!Next, Ring!Producer
<1>6. CASE NextRequest
  <2>1. /\ UNCHANGED <<ring, readPos, writePos, filled, avail, taken, hand, out>>
        /\ want' = 0 /\ published' = 0 /\ published = want /\ want \in Nat
    BY <1>6 DEF NextRequest, Accounts, Requests, Types, block, call
  <2>2. want' - published' = want - published
    BY <2>1
  <2>3. UNCHANGED Ring!consumer
    BY <2>1, ConsumerIdle
  <2>4. UNCHANGED Ring!producer
    BY <2>1, <2>2 DEF Ring!producer, Used
  <2> QED BY <2>1, <2>3, <2>4 DEF Ring!vars
<1>7. CASE Request
  <2>1. ASSUME NEW n \in 0 .. MaxChunk * ItemSize, ReadLocal(n) PROVE [Ring!Next]_Ring!vars
    <3>1. fetched = 0 /\ filled = 0 /\ n \in Nat /\ n <= want * ItemSize /\ Deliver(n, "verify")
      BY <2>1, Constants, ProductIsNat DEF ReadLocal, Accounts, Requests
    <3>2. Fits(n)
      BY <3>1 DEF Fits
    <3> QED BY <3>1, <3>2, DeliverRing
  <2>2. ASSUME NEW n \in Pieces, Piece(n) PROVE [Ring!Next]_Ring!vars
    <3>1. filled = 0 /\ n \in Nat /\ Fits(n) /\ Deliver(n, "body")
      BY <2>2 DEF Piece, Accounts, Requests, Pieces, Fits
    <3> QED BY <3>1, DeliverRing
  <2>3. CASE Fetch \/ BodyComplete \/ AttemptFails \/ Retry \/ Abandon \/ GiveUpAtOnce
    BY <1>2, <2>3 DEF Fetch, BodyComplete, AttemptFails, Retry, Abandon, GiveUpAtOnce, Fail, shared
  <2> QED BY <1>7, <2>1, <2>2, <2>3 DEF Request
<1> QED BY <1>3, <1>4, <1>5, <1>6, <1>7 DEF Reader

LEMMA NextRing ==
  ASSUME Types, Accounts, [Next]_vars
  PROVE  [Ring!Next]_Ring!vars
<1>1. CASE UNCHANGED vars
  BY <1>1, NoRingStep DEF vars, shared, reader, request, block, call
<1> QED BY <1>1, BlockRing, ReaderRing DEF Next, Over

\* Reader and block implement the ring, the reader as its producer: whatever each
\* side counted before the other moved, pieces, retries and stops included, neither
\* uses more than there is (publish(), run() and work()).
THEOREM ImplementsRing == Spec => RingSpec
  BY InitRing, NextRing, AccountsHold, PTL DEF Spec, RingSpec, Ring!Spec

-----------------------------------------------------------------------------
(* What is proved of the ring holds of reader and block.                     *)

RingProofs == INSTANCE SpscRing_proofs WITH
                Total <- MaxItems,
                Stream <- Selection,
                budget <- want - published,
                hand <- Hand,
                sent <- Sent,
                received <- Len(out),
                out <- Out

LEMMA SameRing ==
  /\ Ring!Init => RingProofs!Init
  /\ [Ring!Next]_Ring!vars => [RingProofs!Next]_RingProofs!vars
<1>1. Ring!Init => RingProofs!Init
  BY DEF Ring!Init, RingProofs!Init, Ring!Slot, RingProofs!Slot, Ring!Nothing, RingProofs!Nothing,
         Hand, Out, Sent
<1>2. /\ Ring!ProducerLook => RingProofs!ProducerLook
      /\ Ring!ProducerPublish => RingProofs!ProducerPublish
      /\ \A n \in 1 .. Capacity - 1 : Ring!ProducerFill(n) => RingProofs!ProducerFill(n)
  BY DEF Ring!ProducerLook, RingProofs!ProducerLook, Ring!ProducerPublish,
         RingProofs!ProducerPublish, Ring!ProducerFill, RingProofs!ProducerFill, Ring!Free,
         RingProofs!Free, Ring!Used, RingProofs!Used, Ring!Distance, RingProofs!Distance,
         Ring!Advance, RingProofs!Advance, Ring!consumer, RingProofs!consumer, Ring!Slot,
         RingProofs!Slot, Hand, Out, Sent, Selection
<1>3. /\ Ring!ConsumerLook => RingProofs!ConsumerLook
      /\ Ring!ConsumerRelease => RingProofs!ConsumerRelease
      /\ \A n \in 1 .. Capacity - 1 : Ring!ConsumerCopy(n) => RingProofs!ConsumerCopy(n)
  BY DEF Ring!ConsumerLook, RingProofs!ConsumerLook, Ring!ConsumerRelease,
         RingProofs!ConsumerRelease, Ring!ConsumerCopy, RingProofs!ConsumerCopy, Ring!Used,
         RingProofs!Used, Ring!Distance, RingProofs!Distance, Ring!Advance, RingProofs!Advance,
         Ring!Nothing, RingProofs!Nothing, Ring!producer, RingProofs!producer, Hand, Out, Sent
<1>4. UNCHANGED Ring!vars => UNCHANGED RingProofs!vars
  BY DEF Ring!vars, RingProofs!vars, Ring!producer, RingProofs!producer, Ring!consumer,
         RingProofs!consumer, Hand, Out, Sent
<1> QED BY <1>1, <1>2, <1>3, <1>4
        DEF Ring!Next, RingProofs!Next, Ring!Producer, RingProofs!Producer, Ring!Consumer,
            RingProofs!Consumer

\* The ring's invariant holds of reader and block: what is between the positions is
\* what was published and not released, and every copy holds the items it stands for.
THEOREM RingHolds == Spec => []RingProofs!RingInv
<1>1. RingSpec => RingProofs!Spec
  BY SameRing, PTL DEF RingSpec, Ring!Spec, RingProofs!Spec
<1>2. MaxItems \in Nat
  BY Constants, ProductIsNat DEF MaxItems
<1>3. RingProofs!Spec => []RingProofs!RingInv
  BY <1>2, Constants, RingProofs!RingInvariant
<1> QED BY <1>1, <1>3, ImplementsRing, PTL

\* The output is the selection, pass after pass: no item missing, twice, or made of
\* bytes of two, whatever the pieces, requests, retries and outputs (browser_file_reader.js
\* and BrowserFileSource::work()).
THEOREM SelectionComesOut == Spec => []OutputIsSelection
<1>1. Types /\ RingProofs!RingInv => OutputIsSelection
  <2> SUFFICES ASSUME Types, RingProofs!RingInv, NEW i \in 1 .. Len(out)
               PROVE  out[i] = FileItem((i - 1) % Length)
    BY DEF OutputIsSelection
  <2>1. Len(out) \in Nat /\ Sent \in Nat /\ MaxItems \in Nat
    <3>1. Len(out) \in Nat /\ Used \in Nat
      BY Constants, LenProperties, CountsInRing DEF Types
    <3>2. MaxItems \in Nat
      BY Constants, ProductIsNat DEF MaxItems
    <3> QED BY <3>1, <3>2 DEF Sent
  <2>2. Len(out) <= MaxItems
    BY <2>1 DEF RingProofs!RingInv, RingProofs!TypeOK
  <2>3. i - 1 \in 0 .. Len(out) - 1 /\ i - 1 \in 0 .. MaxItems - 1 /\ (i - 1) + 1 = i
    BY <2>1, <2>2
  <2>4. Out[i - 1] = Selection[i - 1]
    BY <2>3 DEF RingProofs!RingInv, RingProofs!ItemsInOrder
  <2> QED BY <2>3, <2>4 DEF Out, Selection
<1> QED BY <1>1, AccountsHold, RingHolds, PTL

-----------------------------------------------------------------------------
(* When the reader gives up, and what the end of the file says.              *)

\* The history of attempts without a byte and the code's own count agree.
Attempts ==
  /\ dry \in Nat /\ attempt \in Nat
  /\ rpc = "fetch" => dry = attempt
  /\ rpc \in {"read", "body", "publish"} => dry = IF progressed THEN 0 ELSE attempt
  /\ rpc = "retry" => dry = IF progressed THEN 0 ELSE attempt + 1
  /\ cause = "retries" => dry = MaxRetries /\ rpc = "gone"

LEMMA AttemptsStep ==
  ASSUME Attempts, Requests, Unlaunched, [Next]_vars
  PROVE  Attempts'
<1> USE DEF Attempts
<1>1. CASE UNCHANGED vars \/ Over
  BY <1>1 DEF Over, vars, reader, retry
<1>2. CASE Block \/ StopFlowgraph
  <2>1. UNCHANGED retry /\ (rpc' = rpc \/ rpc' = "gone" \/ (rpc' = "boot" /\ rpc = "none"))
    BY <1>2
    DEF Block, Start, Work, WorkStep, WorkLoad, WorkState, WorkCopy, WorkRelease, StopStep, StopStore,
        StopTerminate, StopFlowgraph, reader, Unlaunched
  <2> QED BY <2>1 DEF retry
<1>3. CASE NeverLoads \/ Boot \/ Check
  BY <1>3 DEF NeverLoads, Boot, Check, Close, retry
<1>4. CASE Size
  BY <1>4 DEF Size
<1>5. CASE Publish
  BY <1>5 DEF Publish, retry
<1>6. CASE Verify
  BY <1>6 DEF Verify, Fail, Close, retry
<1>7. CASE NextRequest
  BY <1>7 DEF NextRequest, Close, retry
<1>8. ASSUME NEW n \in 0 .. MaxChunk * ItemSize, ReadLocal(n) PROVE Attempts'
  <2>1. UNCHANGED retry /\ rpc' \in {"verify", "publish"} /\ rpc = "read"
    BY <1>8 DEF ReadLocal, Deliver
  <2> QED BY <2>1 DEF retry
<1>9. ASSUME NEW n \in Pieces, Piece(n) PROVE Attempts'
  <2>1. UNCHANGED <<attempt, cause>> /\ rpc' \in {"body", "publish"} /\ progressed' = TRUE
        /\ dry' = 0 /\ rpc = "body"
    BY <1>9 DEF Piece, Deliver
  <2> QED BY <2>1
<1>10. CASE Fetch
  BY <1>10 DEF Fetch
<1>11. CASE BodyComplete \/ Abandon
  BY <1>11 DEF BodyComplete, Abandon, retry
<1>12. CASE AttemptFails
  <2>1. /\ UNCHANGED <<attempt, cause>> /\ rpc \in {"fetch", "body"} /\ rpc' = "retry"
        /\ progressed' = (progressed /\ rpc = "body")
        /\ dry' = IF progressed' THEN 0 ELSE dry + 1
    BY <1>12 DEF AttemptFails
  <2>2. CASE progressed /\ rpc = "body"
    <3>1. progressed' /\ dry' = 0
      BY <2>1, <2>2
    <3> QED BY <2>1, <3>1
  <2>3. CASE ~(progressed /\ rpc = "body")
    <3>1. ~progressed' /\ dry' = attempt + 1
      BY <2>1, <2>3
    <3> QED BY <2>1, <3>1
  <2> QED BY <2>2, <2>3
<1>13. CASE Retry
  BY <1>13, Constants DEF Retry, NextAttempt, Fail, Close
<1>14. CASE GiveUpAtOnce
  BY <1>14 DEF GiveUpAtOnce, Fail, Close
<1> QED BY <1>1, <1>2, <1>3, <1>4, <1>5, <1>6, <1>7, <1>8, <1>9, <1>10, <1>11, <1>12, <1>13, <1>14
        DEF Next, Reader, Request

\* EOF_REACHED is stored last: nothing of the selection is left, and the worker is
\* closed.
Ended == state = "EOF_REACHED" => rpc = "gone" /\ position = Length /\ published = 0 /\ ~Repeat

LEMMA EndedStep ==
  ASSUME Types, Requests, Unlaunched, Ended, [Next]_vars
  PROVE  Ended'
<1> USE DEF Ended
<1>1. CASE UNCHANGED vars \/ Over
  BY <1>1 DEF Over, vars, shared, reader, request, Repeat
<1>2. CASE Block \/ StopFlowgraph
  <2>1. /\ UNCHANGED <<kind, request>> /\ (state' = state \/ state' \in {"ERROR", "CANCELLED"})
        /\ rpc' = rpc \/ rpc' = "gone" \/ (rpc' = "boot" /\ rpc = "none")
    BY <1>2
    DEF Block, Start, Work, WorkStep, WorkLoad, WorkState, WorkCopy, WorkRelease, StopStep, StopStore,
        StopTerminate, StopFlowgraph, shared, reader, Unlaunched
  <2> QED BY <2>1 DEF request, Repeat
<1>3. CASE Reader /\ ~NextRequest
  <2>1. rpc # "gone" /\ state' \in {state, "RUNNING", "ERROR"}
    BY <1>3
    DEF Reader, NeverLoads, Boot, Check, Size, Request, Publish, Verify, ReadLocal, Fetch, Piece,
        BodyComplete, AttemptFails, Retry, Abandon, GiveUpAtOnce, Deliver, Fail, shared
  <2> QED BY <2>1
<1>4. CASE NextRequest /\ UNCHANGED kind
  <2>1. rpc # "gone" /\ published' = 0 /\ Repeat' = Repeat
    BY <1>4 DEF NextRequest, Repeat
  <2>2. CASE MoreToCome \/ Repeat
    BY <1>4, <2>1, <2>2 DEF NextRequest
  <2>3. CASE ~MoreToCome /\ ~Repeat
    <3>1. position' = position + want /\ rpc' = "gone"
      BY <1>4, <2>3 DEF NextRequest, Close
    <3>2. position + want = Length
      BY <2>3, Constants DEF MoreToCome, Types, Requests
    <3> QED BY <2>1, <2>3, <3>1, <3>2
  <2> QED BY <2>2, <2>3
<1> QED BY <1>1, <1>2, <1>3, <1>4 DEF Next, Reader

\* The count of attempts is that of attempts without a byte, and the end of the file
\* is stored when the last request is complete (streamHttp(), run()).
THEOREM EndsHold == Spec => [](Attempts /\ Ended)
<1>1. Init => Attempts /\ Ended
  BY DEF Init, Attempts, Ended
<1>2. Types /\ Accounts /\ Unlaunched /\ Attempts /\ Ended /\ [Next]_vars => Attempts' /\ Ended'
  BY AttemptsStep, EndedStep DEF Accounts
<1> QED BY <1>1, <1>2, AccountsHold, PTL DEF Spec

\* A retryable failure ends the source only after MAX_RETRIES attempts in a row that
\* brought no byte: an attempt that brought some starts the count over (streamHttp()).
THEOREM DeadLinksOnly == Spec => []OnlyDeadLinksGiveUp
<1>1. Attempts => OnlyDeadLinksGiveUp
  BY DEF Attempts, OnlyDeadLinksGiveUp
<1> QED BY <1>1, EndsHold, PTL

\* Once STATE says EOF_REACHED, the whole selection is in the ring or read (the end
\* of run() in browser_file_reader.js).
THEOREM EofIsComplete == Spec => []EofMeansPublished
<1>1. Types /\ Accounts /\ Ended => EofMeansPublished
  <2> SUFFICES ASSUME Types, Accounts, Ended, state = "EOF_REACHED" PROVE Len(out) + Used = Length
    BY DEF EofMeansPublished
  <2>1. Base = 0 /\ position = Length /\ published = 0
    BY DEF Ended, Base
  <2>2. Len(out) + Used = Base + position + published
    BY DEF Accounts, Counts
  <2> QED BY <2>1, <2>2, Constants
<1> QED BY <1>1, AccountsHold, EndsHold, PTL

-----------------------------------------------------------------------------
(* The tags.                                                                 *)

LEMMA SmallestOf ==
  ASSUME NEW T \in SUBSET Nat, T # {}
  PROVE  \E x \in T : \A y \in T : x <= y
<1>1. PICK x \in T : \A y \in T : ~(<<y, x>> \in OpToRel(<, Nat))
  BY NatLessThanWellFounded, WFMin
<1>2. \A y \in T : ~(y < x)
  BY <1>1 DEF OpToRel
<1> QED BY <1>2

LEMMA MaxOfBounded ==
  ASSUME NEW T \in SUBSET Nat, T # {}, NEW m \in Nat, \A y \in T : y <= m
  PROVE  Max(T) \in T /\ \A y \in T : Max(T) >= y
<1> DEFINE mirror == {k \in Nat : \E y \in T : k = m - y}
<1>1. mirror \in SUBSET Nat /\ mirror # {}
  <2>1. PICK y \in T : TRUE
    OBVIOUS
  <2>2. m - y \in mirror
    BY <2>1
  <2> QED BY <2>2
<1>2. PICK k \in mirror : \A j \in mirror : k <= j
  BY <1>1, SmallestOf
<1>3. PICK x \in T : k = m - x
  BY <1>2
<1>4. ASSUME NEW y \in T PROVE x >= y
  <2>1. m - y \in mirror
    OBVIOUS
  <2> QED BY <1>2, <1>3, <2>1
<1>5. \E z \in T : \A y \in T : z >= y
  BY <1>4
<1> QED BY <1>5 DEF Max

\* The plan is in order, not only from one tag to the next.
LEMMA PlanInOrder ==
  ASSUME NEW i \in DOMAIN TagPlan, NEW j \in DOMAIN TagPlan, i <= j
  PROVE  TagPlan[i] <= TagPlan[j]
<1>1. /\ TagPlan \in Seq(Nat) /\ Len(TagPlan) \in Nat /\ DOMAIN TagPlan = 1 .. Len(TagPlan)
      /\ \A e \in 1 .. Len(TagPlan) - 1 : TagPlan[e] <= TagPlan[e + 1]
      /\ \A e \in DOMAIN TagPlan : TagPlan[e] \in Nat
  BY SourceAssumption, LenProperties, ElementOfSeq DEF SourceAssumption
<1> DEFINE wrong == {k \in Nat : k \in DOMAIN TagPlan /\ i <= k /\ TagPlan[i] > TagPlan[k]}
<1>2. ASSUME wrong # {} PROVE FALSE
  <2>1. PICK k \in wrong : \A l \in wrong : k <= l
    <3>1. wrong \in SUBSET Nat
      OBVIOUS
    <3> HIDE DEF wrong
    <3> QED BY <1>2, <3>1, SmallestOf
  <2>2. /\ i \in Nat /\ k \in Nat /\ k \in 1 .. Len(TagPlan) /\ i <= k /\ i >= 1
        /\ TagPlan[i] > TagPlan[k]
    BY <1>1, <2>1
  <2>3. k # i
    BY <1>1, <2>2
  <2>4. k - 1 \in 1 .. Len(TagPlan) - 1 /\ i <= k - 1 /\ (k - 1) + 1 = k /\ k - 1 \in DOMAIN TagPlan
    BY <1>1, <2>2, <2>3
  <2>5. TagPlan[k - 1] <= TagPlan[k]
    BY <1>1, <2>4
  <2>6. TagPlan[i] > TagPlan[k - 1]
    BY <1>1, <2>2, <2>4, <2>5
  <2>7. k - 1 \in wrong
    BY <2>2, <2>4, <2>6
  <2> QED BY <2>1, <2>2, <2>7
<1>3. j \notin wrong
  BY <1>2
<1> QED BY <1>1, <1>3

\* How often an offset of the pass has been passed.
Passed(off) == IF off < Length THEN repeats + (IF off < intoPass THEN 1 ELSE 0) ELSE 0

\* Every tag of the plan has been put on its sample in every pass; those before the
\* place in this pass are behind the cursor.
TagsPut ==
  /\ tagCursor \in 0 .. Len(TagPlan)
  /\ \A e \in DOMAIN TagPlan : e <= tagCursor <=> TagPlan[e] < intoPass
  /\ tags \in [DOMAIN TagPlan -> Seq(Nat)]
  /\ \A e \in DOMAIN TagPlan :
       /\ Len(tags[e]) = Passed(TagPlan[e])
       /\ \A k \in 1 .. Len(tags[e]) : tags[e][k] = (k - 1) * Length + TagPlan[e]

BeginsPut ==
  /\ begins \in Seq(Nat \X Nat)
  /\ Len(begins) = Passed(0)
  /\ \A k \in 1 .. Len(begins) : begins[k] = <<(k - 1) * Length, k - 1>>

LEMMA PlanTypes ==
  /\ TagPlan \in Seq(Nat) /\ Len(TagPlan) \in Nat /\ DOMAIN TagPlan = 1 .. Len(TagPlan)
  /\ \A e \in DOMAIN TagPlan : TagPlan[e] \in Nat
  BY SourceAssumption, LenProperties, ElementOfSeq DEF SourceAssumption

LEMMA InitTags == Init => TagsPut /\ BeginsPut
<1> SUFFICES ASSUME Init PROVE TagsPut /\ BeginsPut
  OBVIOUS
<1>1. tags = [e \in DOMAIN TagPlan |-> <<>>] /\ begins = <<>> /\ tagCursor = 0 /\ intoPass = 0 /\ repeats = 0
  BY DEF Init
<1>2. \A off \in Nat : Passed(off) = 0
  BY <1>1 DEF Passed
<1>3. Len(begins) = 0
  BY <1>1
<1> QED BY <1>1, <1>2, <1>3, PlanTypes, EmptySeq DEF TagsPut, BeginsPut

\* A copy of n items takes the cursor past the tags on them.
LEMMA CursorAfterCopy ==
  ASSUME TagsPut, intoPass \in Nat, NEW n \in Nat
  PROVE  LET c == Max(Due(n) \cup {tagCursor})
         IN  /\ c \in 0 .. Len(TagPlan)
             /\ \A e \in DOMAIN TagPlan : e <= c <=> TagPlan[e] < intoPass + n
<1> DEFINE T == Due(n) \cup {tagCursor}
           c == Max(T)
<1>1. tagCursor \in 0 .. Len(TagPlan) /\ tagCursor \in Nat /\ Len(TagPlan) \in Nat
  BY PlanTypes DEF TagsPut
<1>2. /\ T \in SUBSET Nat /\ T # {} /\ \A y \in T : y <= Len(TagPlan)
      /\ T \subseteq 0 .. Len(TagPlan)
  BY <1>1, PlanTypes DEF Due
<1>3. c \in T /\ \A y \in T : c >= y
  <2> HIDE DEF T
  <2> QED BY <1>1, <1>2, MaxOfBounded
<1>4. c \in 0 .. Len(TagPlan)
  BY <1>2, <1>3
<1>5. ASSUME NEW e \in DOMAIN TagPlan, e <= c PROVE TagPlan[e] < intoPass + n
  <2>1. CASE e <= tagCursor
    <3>1. TagPlan[e] < intoPass /\ TagPlan[e] \in Nat
      BY <2>1, PlanTypes DEF TagsPut
    <3> QED BY <3>1
  <2>2. CASE ~(e <= tagCursor)
    <3>1. c \in Due(n)
      BY <1>1, <1>3, <1>5, <2>2
    <3>2. c \in DOMAIN TagPlan /\ TagPlan[c] < intoPass + n
      BY <3>1 DEF Due
    <3>3. TagPlan[e] <= TagPlan[c]
      BY <1>5, <3>2, PlanInOrder
    <3> QED BY <3>2, <3>3, PlanTypes
  <2> QED BY <2>1, <2>2
<1>6. ASSUME NEW e \in DOMAIN TagPlan, TagPlan[e] < intoPass + n PROVE e <= c
  <2>1. CASE e <= tagCursor
    <3>1. tagCursor \in T /\ c \in Nat /\ e \in Nat
      BY <1>1, <1>4, PlanTypes
    <3> HIDE DEF c, T
    <3> QED BY <1>1, <1>3, <2>1, <3>1
  <2>2. CASE ~(e <= tagCursor)
    <3>1. e \in Due(n)
      BY <1>1, <1>6, <2>2, PlanTypes DEF Due
    <3> QED BY <1>1, <1>2, <1>3, <3>1, PlanTypes
  <2> QED BY <2>1, <2>2
<1> QED BY <1>4, <1>5, <1>6

LEMMA CopyTags ==
  ASSUME Types, Accounts, TagsPut, BeginsPut, WorkCopy
  PROVE  TagsPut' /\ BeginsPut'
<1> DEFINE n == Take
           start == repeats * Length
           into(e) == IF TagPlan[e] > intoPass THEN TagPlan[e] - intoPass ELSE 0
<1>1. /\ n \in Nat /\ n >= 1 /\ n <= Length - intoPass
  BY CopyTakes
<1>2. /\ intoPass' = intoPass + n /\ repeats' = repeats
      /\ tagCursor' = Max(Due(n) \cup {tagCursor})
      /\ tags' = [e \in DOMAIN TagPlan |->
                    IF e \in Due(n) THEN Append(tags[e], Len(out) + into(e)) ELSE tags[e]]
      /\ begins' = IF intoPass = 0 THEN Append(begins, <<Len(out), repeats>>) ELSE begins
  BY DEF WorkCopy, Take
<1> HIDE DEF n
<1>3. /\ intoPass \in Nat /\ repeats \in Nat /\ Length \in Nat /\ Len(out) \in Nat /\ start \in Nat
      /\ Length >= 1 /\ intoPass + n <= Length /\ intoPass < Length
  BY <1>1, Constants, LenProperties, ProductIsNat DEF Types
<1>4. Len(out) = start + intoPass
  <2>1. taken = 0
    BY DEF Accounts, Calls, WorkCopy
  <2> QED BY <1>3, <2>1 DEF Accounts, Calls
<1> HIDE DEF start
<1>5. /\ tagCursor' \in 0 .. Len(TagPlan)
      /\ \A e \in DOMAIN TagPlan : e <= tagCursor' <=> TagPlan[e] < intoPass'
  BY <1>1, <1>2, <1>3, CursorAfterCopy
<1>6. ASSUME NEW e \in DOMAIN TagPlan
      PROVE  /\ tags'[e] \in Seq(Nat) /\ Len(tags'[e]) = Passed(TagPlan[e])'
             /\ \A k \in 1 .. Len(tags'[e]) : tags'[e][k] = (k - 1) * Length + TagPlan[e]
  <2>1. /\ TagPlan[e] \in Nat /\ tags[e] \in Seq(Nat) /\ Len(tags[e]) = Passed(TagPlan[e])
        /\ \A k \in 1 .. Len(tags[e]) : tags[e][k] = (k - 1) * Length + TagPlan[e]
        /\ (e <= tagCursor <=> TagPlan[e] < intoPass) /\ tagCursor \in Nat /\ e \in Nat
    BY PlanTypes DEF TagsPut
  <2>2. Passed(TagPlan[e])' = IF TagPlan[e] < Length
                              THEN repeats + (IF TagPlan[e] < intoPass + n THEN 1 ELSE 0) ELSE 0
    BY <1>2 DEF Passed
  <2>3. CASE e \in Due(n)
    <3>1. TagPlan[e] >= intoPass /\ TagPlan[e] < intoPass + n /\ TagPlan[e] < Length
      BY <1>1, <1>3, <2>1, <2>3 DEF Due
    <3>2. Len(tags[e]) = repeats /\ Passed(TagPlan[e])' = repeats + 1
      BY <1>3, <2>1, <2>2, <3>1 DEF Passed
    <3>3. Len(out) + into(e) = start + TagPlan[e]
      BY <1>3, <1>4, <2>1, <3>1
    <3>4. tags'[e] = Append(tags[e], start + TagPlan[e])
      BY <1>2, <2>3, <3>3
    <3>5. start + TagPlan[e] \in Nat
      BY <1>3, <2>1
    <3>6. /\ tags'[e] \in Seq(Nat) /\ Len(tags'[e]) = Len(tags[e]) + 1
          /\ \A i \in 1 .. Len(tags[e]) : tags'[e][i] = tags[e][i]
          /\ tags'[e][Len(tags[e]) + 1] = start + TagPlan[e]
      BY <2>1, <3>4, <3>5, AppendProperties
    <3>7. ASSUME NEW k \in 1 .. repeats + 1 PROVE tags'[e][k] = (k - 1) * Length + TagPlan[e]
      <4>1. CASE k \in 1 .. repeats
        BY <2>1, <3>2, <3>6, <4>1
      <4>2. CASE k = repeats + 1
        <5>1. k - 1 = repeats
          BY <1>3, <4>2
        <5> QED BY <3>2, <3>6, <4>2, <5>1 DEF start
      <4> QED BY <1>3, <4>1, <4>2
    <3> QED BY <3>2, <3>6, <3>7
  <2>4. CASE e \notin Due(n)
    <3>1. tags'[e] = tags[e]
      BY <1>2, <2>4
    <3>2. TagPlan[e] < intoPass \/ ~(TagPlan[e] < intoPass + n)
      BY <1>1, <1>3, <2>1, <2>4 DEF Due
    <3>3. Passed(TagPlan[e])' = Passed(TagPlan[e])
      BY <1>1, <1>3, <2>1, <2>2, <3>2 DEF Passed
    <3> QED BY <2>1, <3>1, <3>3
  <2> QED BY <2>3, <2>4
<1>7. TagsPut'
  <2>1. tags' \in [DOMAIN TagPlan -> Seq(Nat)]
    BY <1>2, <1>6
  <2> QED BY <1>5, <1>6, <2>1 DEF TagsPut
<1>8. BeginsPut'
  <2>1. /\ begins \in Seq(Nat \X Nat) /\ Len(begins) = Passed(0)
        /\ \A k \in 1 .. Len(begins) : begins[k] = <<(k - 1) * Length, k - 1>>
    BY DEF BeginsPut
  <2>2. Passed(0)' = repeats + 1
    BY <1>1, <1>2, <1>3 DEF Passed
  <2>3. CASE intoPass = 0
    <3>1. Len(begins) = repeats /\ Len(out) = start
      BY <1>3, <1>4, <2>1, <2>3 DEF Passed
    <3>2. /\ begins' = Append(begins, <<start, repeats>>) /\ <<start, repeats>> \in Nat \X Nat
      BY <1>2, <1>3, <2>3, <3>1
    <3>3. /\ begins' \in Seq(Nat \X Nat) /\ Len(begins') = repeats + 1
          /\ \A i \in 1 .. repeats : begins'[i] = begins[i]
          /\ begins'[repeats + 1] = <<start, repeats>>
      BY <2>1, <3>1, <3>2, AppendProperties
    <3>4. ASSUME NEW k \in 1 .. repeats + 1 PROVE begins'[k] = <<(k - 1) * Length, k - 1>>
      <4>1. CASE k \in 1 .. repeats
        BY <2>1, <3>1, <3>3, <4>1
      <4>2. CASE k = repeats + 1
        <5>1. k - 1 = repeats
          BY <1>3, <4>2
        <5> QED BY <3>3, <4>2, <5>1 DEF start
      <4> QED BY <1>3, <4>1, <4>2
    <3> QED BY <2>2, <3>3, <3>4 DEF BeginsPut
  <2>4. CASE intoPass # 0
    <3>1. Len(begins) = repeats + 1 /\ begins' = begins
      BY <1>2, <1>3, <2>1, <2>4 DEF Passed
    <3> QED BY <2>1, <2>2, <3>1 DEF BeginsPut
  <2> QED BY <2>3, <2>4
<1> QED BY <1>7, <1>8

LEMMA TagsStep ==
  ASSUME Types, Accounts, TagsPut, BeginsPut, [Next]_vars
  PROVE  TagsPut' /\ BeginsPut'
<1>1. CASE UNCHANGED progress
  BY <1>1 DEF progress, TagsPut, BeginsPut, Passed
<1>2. CASE UNCHANGED vars \/ Over \/ Reader \/ StopFlowgraph
  <2>1. UNCHANGED progress
    BY <1>2
    DEF vars, Over, Reader, NeverLoads, Boot, Check, Size, Request, Publish, Verify, NextRequest,
        ReadLocal, Fetch, Piece, BodyComplete, AttemptFails, Retry, Abandon, GiveUpAtOnce, Deliver,
        Fail, StopFlowgraph, block
  <2> QED BY <1>1, <2>1
<1>3. CASE Start \/ WorkLoad \/ WorkState \/ StopStep \/ \E n \in 1 .. MaxOutput : Work(n)
  <2>1. UNCHANGED progress
    BY <1>3 DEF Start, WorkLoad, WorkState, StopStep, StopStore, StopTerminate, Work
  <2> QED BY <1>1, <2>1
<1>4. CASE WorkCopy
  BY <1>4, CopyTags
<1>5. CASE WorkRelease
  <2>1. UNCHANGED <<begins, tags>> /\ intoPass \in Nat /\ repeats \in Nat /\ Length \in Nat /\ Length >= 1
    BY <1>5, Constants DEF WorkRelease, Types
  <2>2. CASE intoPass # Length
    BY <1>1, <1>5, <2>1, <2>2 DEF WorkRelease, progress
  <2>3. CASE intoPass = Length
    <3>1. intoPass' = 0 /\ repeats' = repeats + 1 /\ tagCursor' = 0
      BY <1>5, <2>3 DEF WorkRelease, NextPass
    <3>2. \A off \in Nat : Passed(off)' = Passed(off)
      BY <2>1, <2>3, <3>1 DEF Passed
    <3>3. \A e \in DOMAIN TagPlan : ~(e <= 0) /\ ~(TagPlan[e] < 0)
      BY PlanTypes
    <3>4. BeginsPut'
      BY <2>1, <3>2 DEF BeginsPut
    <3>5. TagsPut'
      BY <2>1, <3>1, <3>2, <3>3, PlanTypes DEF TagsPut
    <3> QED BY <3>4, <3>5
  <2> QED BY <2>2, <2>3
<1> QED BY <1>2, <1>3, <1>4, <1>5 DEF Next, Block, WorkStep

\* An offset comes by once in every pass.
LEMMA PlacesCounted ==
  ASSUME Types, Accounts, NEW off \in Nat
  PROVE  Cardinality(PlacesOf(off)) = Passed(off)
<1> DEFINE N == Len(out) + taken
           m == Passed(off)
           S == PlacesOf(off)
           f == [k \in 1 .. m |-> (k - 1) * Length + off]
<1>1. /\ repeats \in Nat /\ intoPass \in Nat /\ intoPass <= Length /\ Length \in Nat /\ Length >= 1
      /\ repeats * Length \in Nat
  BY Constants, ProductIsNat DEF Types, Accounts, Calls
<1>2. N = repeats * Length + intoPass /\ N \in Nat
  BY <1>1 DEF Accounts, Calls
<1>3. S = {i \in 0 .. N - 1 : i % Length = off}
  <2>1. Len(out) + taken - 1 = N - 1
    BY LenProperties DEF Types
  <2> HIDE DEF N
  <2> QED BY <2>1 DEF PlacesOf
<1> HIDE DEF N, S
<1>4. CASE ~(off < Length)
  <2>1. \A i \in 0 .. N - 1 : i % Length < Length /\ i % Length \in Nat
    BY <1>1, <1>2
  <2>2. S = {}
    BY <1>1, <1>3, <1>4, <2>1
  <2>3. m = 0
    BY <1>4 DEF Passed
  <2> QED BY <2>2, <2>3, FS_EmptySet DEF S
<1>5. CASE off < Length
  <2>1. m = repeats + (IF off < intoPass THEN 1 ELSE 0) /\ m \in Nat
    BY <1>1, <1>5 DEF Passed
  <2> HIDE DEF m
  <2>2. ASSUME NEW k \in 1 .. m
        PROVE  /\ k - 1 \in Nat /\ (k - 1) * Length + off \in S
               /\ ((k - 1) * Length + off) \div Length = k - 1
    <3>1. k - 1 \in Nat /\ off \in 0 .. Length - 1 /\ (k - 1) * Length \in Nat
      BY <1>1, <1>5, <2>1, ProductIsNat
    <3>2. ((k - 1) * Length + off) % Length = off /\ ((k - 1) * Length + off) \div Length = k - 1
      BY <1>1, <3>1, QuotientOf
    <3>3. (k - 1) * Length + off < N
      <4>1. CASE k - 1 = repeats
        BY <1>1, <1>2, <2>1, <3>1, <4>1
      <4>2. CASE k - 1 # repeats
        <5>1. k <= repeats /\ k \in Nat
          BY <1>1, <2>1, <4>2
        <5>2. k * Length <= repeats * Length
          BY <1>1, <5>1, TimesMonotone
        <5>3. k * Length = (k - 1) * Length + Length
          BY <1>1, <5>1
        <5> QED BY <1>1, <1>2, <1>5, <3>1, <5>2, <5>3
      <4> QED BY <4>1, <4>2
    <3>4. (k - 1) * Length + off \in 0 .. N - 1
      BY <1>2, <3>1, <3>3
    <3> QED BY <1>3, <3>1, <3>2, <3>4
  <2>3. f \in [1 .. m -> S]
    BY <2>2
  <2>4. \A a, b \in 1 .. m : f[a] = f[b] => a = b
    <3> SUFFICES ASSUME NEW a \in 1 .. m, NEW b \in 1 .. m, f[a] = f[b] PROVE a = b
      OBVIOUS
    <3>1. f[a] \div Length = a - 1 /\ f[b] \div Length = b - 1
      BY <2>2
    <3> QED BY <2>1, <3>1
  <2>5. \A i \in S : \E k \in 1 .. m : f[k] = i
    <3> SUFFICES ASSUME NEW i \in S PROVE \E k \in 1 .. m : f[k] = i
      OBVIOUS
    <3> DEFINE q == i \div Length
    <3>1. i \in Nat /\ i < N /\ i % Length = off
      BY <1>2, <1>3
    <3>2. q \in Nat /\ i = q * Length + off /\ q * Length \in Nat
      BY <1>1, <3>1
    <3> HIDE DEF q
    <3>3. q <= repeats
      <4>1. q * Length < (repeats + 1) * Length
        BY <1>1, <1>2, <3>1, <3>2
      <4> QED BY <1>1, <3>2, <4>1, TimesMonotone
    <3>4. q = repeats => off < intoPass
      BY <1>1, <1>2, <3>1, <3>2
    <3>5. q + 1 \in 1 .. m /\ (q + 1) - 1 = q
      BY <1>1, <2>1, <3>2, <3>3, <3>4
    <3> QED BY <3>2, <3>5
  <2>6. f \in Bijection(1 .. m, S)
    <3> HIDE DEF f
    <3>1. DOMAIN f = 1 .. m
      BY <2>3
    <3> QED BY <2>3, <2>4, <2>5, <3>1 DEF Bijection, Injection, Surjection, IsInjective
  <2>7. Cardinality(S) = Cardinality(1 .. m)
    BY <2>1, <2>6, FS_Interval, FS_Bijection DEF ExistsBijection
  <2> QED BY <2>1, <2>7, FS_Interval DEF S, m
<1> QED BY <1>4, <1>5

\* Every tag of the plan, and the begin tag, has been put on its sample once in every
\* pass that came by it, and nowhere else.
THEOREM TagsHold == Spec => [](TagsPut /\ BeginsPut)
  BY InitTags, TagsStep, AccountsHold, PTL DEF Spec

\* However the passes are cut into copies, every tag is on its own sample in each of
\* them, and the begin tags count the passes (the tag loop of BrowserFileSource::work()).
THEOREM TagsInPlace == Spec => []TagsOnTheirSamples
<1>1. Types /\ Accounts /\ TagsPut /\ BeginsPut => TagsOnTheirSamples
  BY PlacesCounted, PlanTypes DEF TagsPut, BeginsPut, TagsOnTheirSamples
<1> QED BY <1>1, AccountsHold, TagsHold, PTL
=============================================================================
