------------------------------ MODULE StampsProofs ------------------------------
(***************************************************************************)
(* Any number of batches, on a chain whose blocks drain them and whose     *)
(* price moves.  For any callers: types, and that the batch of an upload   *)
(* outlives the minimum.  For one who buys, beside a node that reloads its *)
(* ledger: what a call reports done is done, what a plan promises is kept, *)
(* and no plan is refused.                                                 *)
(***************************************************************************)
EXTENDS Stamps, Recursion

\* One caller at a time, who waits as long as it takes, beside a node that
\* knows what time is left.
OneBuyer == (\A c, d \in Caller : c = d) /\ Faults \subseteq {"reloads"}

\* The padding of a plan is worth more than any move of the price.
PaddingCovers == \A p, q \in Prices : MinBlocks * q < (MinBlocks + PadBlocks) * p

(***************************************************************************)
(* The inductive invariant.                                                *)
(***************************************************************************)
Accounts ==
    [status : {"unknown", "syncing", "usable", "gone"}, balance : Nat, depth : Nat, first : Nat, ledger : Nat,
     full : BOOLEAN]

Calls ==
    [op : {"none", "buy", "topup", "dilute"}, stage : {"idle", "plans", "checks", "submits", "polls"},
     batch : Batch \union {NoBatch}, arg : Nat, depth : Nat, ledger : Nat, ttl : Int, tx : Nat, total : Nat, since : Nat]

Transactions == [id : Nat, op : {"buy", "topup", "dilute"}, batch : Batch, arg : Nat, depth : Nat]

StampTypeOK ==
    /\ price \in Prices /\ block \in Nat /\ wallet \in Int /\ sent \in Nat
    /\ batch \in [Batch -> Accounts] /\ call \in [Caller -> Calls]
    /\ txs \in SUBSET Transactions /\ lost \in SUBSET Transactions
    /\ answered \in SUBSET [op : {"buy", "topup", "dilute"}, batch : Batch, arg : Nat, tx : Nat]
    /\ promised \in SUBSET [batch : Batch, total : Nat, since : Nat]
    /\ upload \in [batch : Batch \union {NoBatch}, at : Nat]

\* What a call of each kind goes through.
Orderly(request) ==
    /\ request.op = "none" => request = Idle
    /\ request.op # "none" => request.batch \in Batch /\ request.stage # "idle"
    /\ request.op = "buy" => request.stage = "polls"
    /\ request.op = "dilute" => request.stage \in {"submits", "polls"}

InTurn == \A c \in Caller : Orderly(call[c])

\* A purchase under way is of a batch that nobody has and nothing else is sent for.
Purchases ==
    \A tx \in txs : tx.op = "buy" =>
        batch[tx.batch] = Unsold /\ \A ty \in txs : ty.batch = tx.batch => ty = tx

\* What holds for any callers.
BooksOK == StampTypeOK /\ InTurn /\ Purchases

\* A transaction under way is the one its sender polls for.
SentByCaller ==
    /\ \A tx, ty \in txs : tx = ty
    /\ txs # {} => Caller # {}
    /\ \A tx \in txs, c \in Caller :
          /\ call[c].stage = "polls" /\ call[c].tx = tx.id
          /\ call[c].op = tx.op /\ call[c].batch = tx.batch /\ call[c].arg = tx.arg
          /\ tx.op = "buy" => batch[tx.batch] = Unsold
          /\ tx.op = "dilute" => batch[tx.batch].depth < tx.arg

\* Transactions are numbered as they are sent, and applied once.
Numbered ==
    /\ \A n \in applied : n \in Nat /\ n <= sent
    /\ \A tx \in txs : tx.id <= sent /\ tx.id \notin applied

Pending(c) == call[c].op = "topup" /\ (call[c].stage = "polls" => call[c].tx \notin applied)

\* A topup that is not applied shows no sign of it: the signs are compared to
\* what the call read (stamps.py 720-728).
NoEarlySign ==
    /\ \A b \in Batch : batch[b].first <= batch[b].ledger
    /\ \A c \in Caller : Pending(c) /\ call[c].stage # "plans" /\ Known(call[c].batch) =>
          batch[call[c].batch].ledger <= call[c].ledger /\ Ttl(call[c].batch) <= call[c].ttl

Answered ==
    \A a \in answered :
        /\ a.op = "buy" => batch[a.batch].status \in {"usable", "gone"}
        /\ a.op = "topup" => a.tx \in applied
        /\ a.op = "dilute" => batch[a.batch].status # "unknown" /\ batch[a.batch].depth >= a.arg

\* At a price, a balance pays for a time that is counted from a block.
Covers(balance, total, since, cost, now) ==
    total * cost <= balance * BlockSecs + ((now - since) * BlockSecs) * cost

\* Promises are paid for; so is what a call is about to promise, with what it
\* is about to send (stamps.py 304 and 359-360).
PaidFor ==
    /\ \A p \in promised : p.since <= block /\ Covers(batch[p.batch].balance, p.total, p.since, price, block)
    /\ \A c \in Caller :
          /\ call[c].since <= block
          /\ call[c].op = "buy" =>
                /\ Covers(call[c].arg, call[c].total, call[c].since, price, block)
                /\ Known(call[c].batch) => Covers(batch[call[c].batch].balance, call[c].total, call[c].since, price, block)
          /\ call[c].op = "topup" /\ Known(call[c].batch) =>
                Covers(batch[call[c].batch].balance + (IF Pending(c) THEN call[c].arg ELSE 0),
                       call[c].total, call[c].since, price, block)

\* The wallet that was asked is the one that pays (stamps.py 682-693).
WalletSuffices ==
    /\ \A tx \in lost : tx.op # "buy" /\ (tx.op = "topup" => batch[tx.batch].status = "gone")
    /\ \A c \in Caller :
          /\ call[c].op = "topup" => batch[call[c].batch].status # "unknown"
          /\ Pending(c) /\ call[c].stage # "plans" /\ Known(call[c].batch) => batch[call[c].batch].depth = call[c].depth
          /\ Pending(c) /\ call[c].stage \in {"submits", "polls"} /\ Known(call[c].batch) => Cost(call[c].arg, call[c].depth) <= wallet
    /\ \A tx \in txs : tx.op = "buy" =>
          Cost(tx.arg, tx.depth) <= wallet /\ \A p \in Prices : tx.arg > MinBlocks * p

\* An upload's batch has paid for more than the minimum, or that time is over.
Outlasts ==
    upload.batch # NoBatch =>
        /\ upload.at <= block
        /\ \/ batch[upload.batch].status = "usable" /\ Covers(batch[upload.batch].balance, MinTtl + 1, upload.at, price, block)
           \/ (block - upload.at) * BlockSecs > MinTtl

\* What one who buys can count on.
Honoured == SentByCaller /\ Numbered /\ NoEarlySign /\ Answered /\ PaidFor

StampsInv == BooksOK /\ Honoured

(***************************************************************************)
(* Arithmetic.                                                             *)
(***************************************************************************)
\* The constants of the chain.
LEMMA Constants ==
    /\ BlockSecs \in Nat /\ BlockSecs # 0
    /\ MinTtl \in Nat /\ MinBlocks \in Nat /\ PadBlocks \in Nat /\ Funds \in Nat
    /\ \A p \in Prices : p \in Nat /\ p # 0
    /\ \A t \in Targets : t \in Nat
    /\ \A t \in Budgets : t \in Nat
    /\ \A d \in Depths : d \in Nat
BY ChainAssumption

\* A depth makes a positive number of chunks: that of the sets of d things.
LEMMA PowersArePositive ==
    ASSUME NEW d \in Nat
    PROVE  2^d \in Nat \ {0}
<1>1. IsFiniteSet(1..d) /\ Cardinality(1..d) = d
    BY FS_Interval
<1>2. IsFiniteSet(SUBSET (1..d)) /\ Cardinality(SUBSET (1..d)) = 2^d
    BY <1>1, FS_SUBSET
<1>3. SUBSET (1..d) # {}
    OBVIOUS
<1> QED
    BY <1>2, <1>3, FS_CardinalityType, FS_EmptySet

\* The larger of two numbers.
LEMMA MaxOfTwo ==
    ASSUME NEW a \in Int, NEW b \in Int
    PROVE  Max({a, b}) \in {a, b} /\ a <= Max({a, b}) /\ b <= Max({a, b})
<1>1. \E x \in {a, b} : \A y \in {a, b} : x >= y
    OBVIOUS
<1>2. Max({a, b}) \in {a, b} /\ \A y \in {a, b} : Max({a, b}) >= y
    BY <1>1, Zenon DEF Max
<1> QED
    BY <1>2

\* A quotient is the largest number whose product fits.
LEMMA Quotients ==
    ASSUME NEW x \in Nat, NEW p \in Nat \ {0}
    PROVE  x \div p \in Nat /\ \A n \in Int : n <= x \div p <=> n * p <= x
OBVIOUS

\* Enough for more is enough; each block takes the price of one.
LEMMA CoversMore ==
    ASSUME NEW x \in Nat, NEW y \in Nat, x <= y, NEW t \in Nat, NEW s \in Nat, NEW p \in Nat, NEW n \in Nat,
           Covers(x, t, s, p, n)
    PROVE  Covers(y, t, s, p, n)
<1>1. x * BlockSecs <= y * BlockSecs
    BY Constants
<1>2. x * BlockSecs \in Int /\ y * BlockSecs \in Int /\ t * p \in Int /\ ((n - s) * BlockSecs) * p \in Int
    BY Constants
<1> QED
    BY <1>1, <1>2 DEF Covers

LEMMA CoversLater ==
    ASSUME NEW x \in Nat, NEW y \in Nat, NEW t \in Nat, NEW s \in Nat, NEW p \in Nat, NEW n \in Nat,
           x - p <= y, Covers(x, t, s, p, n)
    PROVE  Covers(y, t, s, p, n + 1)
<1> DEFINE later == ((n + 1 - s) * BlockSecs) * p
           now == ((n - s) * BlockSecs) * p
<1>1. (x - p) * BlockSecs <= y * BlockSecs
    BY Constants
<1>2. (x - p) * BlockSecs = x * BlockSecs - p * BlockSecs
    BY Constants
<1>3. (n + 1 - s) * BlockSecs = (n - s) * BlockSecs + BlockSecs
    BY Constants
<1>4. later = now + BlockSecs * p
    <2>1. (n - s) * BlockSecs \in Int
        BY Constants
    <2> QED
        BY <1>3, <2>1, Constants
<1>5. BlockSecs * p = p * BlockSecs
    BY Constants
<1>6. x * BlockSecs \in Int /\ y * BlockSecs \in Int /\ t * p \in Int /\ now \in Int /\ p * BlockSecs \in Int
    BY Constants
<1>7. t * p <= x * BlockSecs + now
    BY DEF Covers
<1>8. t * p <= y * BlockSecs + later
    <2> HIDE DEF now, later
    <2> QED
        BY <1>1, <1>2, <1>4, <1>5, <1>6, <1>7, Constants
<1> QED
    BY <1>8 DEF Covers

LEMMA CoversNothing ==
    ASSUME NEW x \in Nat, NEW s \in Nat, NEW p \in Nat, NEW n \in Nat, s <= n
    PROVE  Covers(x, 0, s, p, n)
<1>1. (n - s) * BlockSecs \in Nat /\ x * BlockSecs \in Nat
    BY Constants
<1>2. ((n - s) * BlockSecs) * p \in Nat
    BY <1>1
<1> QED
    BY <1>1, <1>2 DEF Covers

\* Counted from this block, a balance covers what it comes to.
LEMMA CoversNow ==
    ASSUME NEW x \in Nat, NEW t \in Nat, NEW p \in Nat, NEW n \in Nat, t * p <= x * BlockSecs
    PROVE  Covers(x, t, n, p, n)
<1>1. ((n - n) * BlockSecs) * p = 0
    BY Constants
<1>2. x * BlockSecs \in Nat /\ t * p \in Nat
    BY Constants
<1> QED
    BY <1>1, <1>2 DEF Covers

\* What is left, in time.
LEMMA TimeLeft ==
    ASSUME StampTypeOK, NEW b \in Batch
    PROVE  Ttl(b) \in Nat /\ \A n \in Int : n <= Ttl(b) <=> n * price <= batch[b].balance * BlockSecs
<1>1. batch[b].balance * BlockSecs \in Nat /\ price \in Nat \ {0}
    BY Constants DEF StampTypeOK, Accounts
<1> QED
    BY <1>1, Quotients DEF Ttl

\* What a begun block costs pays for the time, and so do a plan's blocks.
LEMMA AmountCovers ==
    ASSUME price \in Prices, NEW secs \in Nat
    PROVE  TtlToAmount(secs) \in Nat /\ secs * price <= TtlToAmount(secs) * BlockSecs
<1> DEFINE n == CeilDiv(secs, BlockSecs)
<1>1. n \in Nat /\ secs <= n * BlockSecs
    BY Constants DEF CeilDiv
<1>2. price \in Nat
    BY Constants
<1> HIDE DEF n
<1>3. n * price \in Nat /\ n * BlockSecs \in Nat
    BY <1>1, <1>2, Constants
<1>4. secs * price <= (n * BlockSecs) * price
    BY <1>1, <1>2, <1>3
<1>5. (n * BlockSecs) * price = (n * price) * BlockSecs
    BY <1>1, <1>2, Constants
<1> QED
    BY <1>3, <1>4, <1>5 DEF TtlToAmount, n

LEMMA PlanCovers ==
    ASSUME NEW secs \in Nat
    PROVE  PlanBlocks(secs) \in Nat /\ MinBlocks + PadBlocks <= PlanBlocks(secs)
<1> DEFINE n == CeilDiv(secs, BlockSecs)
           m == MinBlocks + PadBlocks
<1>1. n \in Nat /\ m \in Nat
    BY Constants DEF CeilDiv
<1>2. PlanBlocks(secs) = Max({n, m})
    BY DEF PlanBlocks
<1> HIDE DEF n
<1>3. Max({n, m}) \in {n, m} /\ m <= Max({n, m})
    <2> HIDE DEF m
    <2> QED
        BY <1>1, MaxOfTwo
<1> QED
    BY <1>1, <1>2, <1>3

(***************************************************************************)
(* The books, for any callers, whatever happens.                           *)
(***************************************************************************)
\* A caller asks, waits or is answered.
LEMMA BooksAsk ==
    ASSUME BooksOK, NEW c \in Caller, NEW request \in Calls, Orderly(request),
           call' = [call EXCEPT ![c] = request],
           UNCHANGED <<price, block, batch, wallet, txs, sent, lost, upload>>,
           answered' \in SUBSET [op : {"buy", "topup", "dilute"}, batch : Batch, arg : Nat, tx : Nat],
           promised' \in SUBSET [batch : Batch, total : Nat, since : Nat]
    PROVE  BooksOK'
<1>1. StampTypeOK'
    BY DEF BooksOK, StampTypeOK
<1>2. InTurn'
    BY DEF BooksOK, StampTypeOK, InTurn
<1>3. Purchases'
    BY DEF BooksOK, Purchases
<1> QED
    BY <1>1, <1>2, <1>3 DEF BooksOK

\* A caller sends a transaction, of a batch that is there or a purchase of its own.
LEMMA BooksSend ==
    ASSUME BooksOK, NEW c \in Caller, NEW request \in Calls, Orderly(request),
           call' = [call EXCEPT ![c] = request], sent' = sent + 1,
           NEW tx \in Transactions, txs' = txs \union {tx},
           \/ tx.op # "buy" /\ Known(tx.batch)
           \/ tx.op = "buy" /\ batch[tx.batch] = Unsold /\ \A ty \in txs : ty.batch # tx.batch,
           UNCHANGED <<price, block, batch, wallet, lost, answered, promised, upload>>
    PROVE  BooksOK'
<1>1. StampTypeOK'
    BY DEF BooksOK, StampTypeOK
<1>2. InTurn'
    BY DEF BooksOK, StampTypeOK, InTurn
<1>3. Purchases'
    BY DEF BooksOK, Purchases, Known, Unsold
<1> QED
    BY <1>1, <1>2, <1>3 DEF BooksOK

\* What the books hold, before a caller's step.
LEMMA BooksRead ==
    ASSUME BooksOK, NEW c \in Caller
    PROVE  /\ call[c] \in Calls /\ Orderly(call[c]) /\ call \in [Caller -> Calls] /\ Idle \in Calls /\ Orderly(Idle)
           /\ price \in Prices /\ price \in Nat /\ block \in Nat /\ sent \in Nat /\ sent + 1 \in Nat /\ wallet \in Int
           /\ \A b \in Batch : batch[b] \in Accounts /\ batch[b].ledger \in Nat /\ batch[b].depth \in Nat
           /\ answered \in SUBSET [op : {"buy", "topup", "dilute"}, batch : Batch, arg : Nat, tx : Nat]
           /\ promised \in SUBSET [batch : Batch, total : Nat, since : Nat]
<1>1. Idle \in Calls /\ Orderly(Idle)
    BY DEF Idle, Calls, Orderly
<1> QED
    BY <1>1, Constants DEF BooksOK, StampTypeOK, InTurn, Accounts

\* What plans or checks is a topup.
LEMMA TopupsUnderWay ==
    ASSUME BooksOK, NEW c \in Caller, call[c].stage \in {"plans", "checks"}
    PROVE  call[c] \in Calls /\ call[c].op = "topup" /\ call[c].batch \in Batch
<1>1. call[c] \in Calls /\ Orderly(call[c])
    BY BooksRead
<1>2. call[c].op \in {"none", "buy", "topup", "dilute"}
    BY <1>1 DEF Calls
<1>3. call[c].op # "none"
    BY <1>1 DEF Orderly, Idle
<1>4. call[c].op = "topup"
    BY <1>1, <1>2, <1>3 DEF Orderly
<1> QED
    BY <1>1, <1>4 DEF Orderly

LEMMA BuysBooks ==
    ASSUME BooksOK, NEW c \in Caller, NEW b \in Batch, NEW secs \in Targets, NEW depth \in Depths,
           Buys(c, b, secs, depth)
    PROVE  BooksOK'
<1> DEFINE blocks == PlanBlocks(secs)
           amount == blocks * price
           time == blocks * BlockSecs
           n == sent + 1
           tx == [id |-> n, op |-> "buy", batch |-> b, arg |-> amount, depth |-> depth]
<1>1. price \in Nat /\ block \in Nat /\ n \in Nat /\ depth \in Nat /\ secs \in Nat
    BY BooksRead, Constants
<1>2. blocks \in Nat
    BY <1>1, PlanCovers
<1> HIDE DEF blocks
<1>3. amount \in Nat /\ time \in Nat
    BY <1>1, <1>2, Constants
<1>4. PICK request : request = [Idle EXCEPT !.op = "buy", !.stage = "polls", !.batch = b, !.tx = n,
                                            !.arg = amount, !.total = time, !.since = block]
    OBVIOUS
<1>5. /\ call' = [call EXCEPT ![c] = request] /\ sent' = sent + 1 /\ txs' = txs \union {tx}
      /\ batch[b] = Unsold /\ \A ty \in txs : ty.batch # b
      /\ UNCHANGED <<price, block, batch, wallet, lost, answered, promised, upload>>
    BY <1>4 DEF Buys, Asks, chainVars, blocks
<1> HIDE DEF amount, time, n
<1>6. request \in Calls /\ Orderly(request)
    <2>1. request = [op |-> "buy", stage |-> "polls", batch |-> b, arg |-> amount, depth |-> 0, ledger |-> 0,
                     ttl |-> 0, tx |-> n, total |-> time, since |-> block]
        BY <1>4 DEF Idle
    <2> QED
        BY <1>1, <1>3, <2>1 DEF Calls, Orderly
<1>7. tx \in Transactions /\ tx.op = "buy" /\ tx.batch = b
    BY <1>1, <1>3 DEF Transactions
<1> HIDE DEF tx
<1> QED
    BY <1>5, <1>6, <1>7, BooksSend

\* A topup comes to what is left and what the amount it adds is worth: what pays
\* for the two pays for it.
LEMMA ExtensionsCover ==
    ASSUME BooksOK, NEW b \in Batch, NEW left \in Nat, NEW plan \in Extensions(b, left)
    PROVE  /\ plan.added \in Nat /\ plan.to \in Nat
           /\ left * price <= batch[b].balance * BlockSecs =>
                 Covers(batch[b].balance + plan.added, plan.to, block, price, block)
<1> DEFINE balance == batch[b].balance
<1>1. price \in Prices /\ price \in Nat \ {0} /\ balance \in Nat /\ block \in Nat /\ batch[b].depth \in Nat
    BY Constants DEF BooksOK, StampTypeOK, Accounts
<1> HIDE DEF balance
<1>2. ASSUME NEW added \in Nat, NEW more \in Nat, more * price <= added * BlockSecs,
             left * price <= balance * BlockSecs
      PROVE  Covers(balance + added, left + more, block, price, block)
    <2> DEFINE x == balance + added
               t == left + more
    <2>1. t * price = left * price + more * price /\ x * BlockSecs = balance * BlockSecs + added * BlockSecs
        BY <1>1, Constants
    <2>2. left * price \in Int /\ more * price \in Int /\ balance * BlockSecs \in Int /\ added * BlockSecs \in Int
        BY <1>1, Constants
    <2>3. x \in Nat /\ t \in Nat /\ t * price <= x * BlockSecs
        BY <1>1, <1>2, <2>1, <2>2
    <2> HIDE DEF x, t
    <2>4. Covers(x, t, block, price, block)
        BY <1>1, <2>3, CoversNow
    <2> QED
        BY <2>4 DEF x, t
<1>3. CASE \E n \in Nat : \E asked : plan = TopupPlan(left, n, asked)
    <2>1. PICK n \in Nat : \E asked : plan = TopupPlan(left, n, asked)
        BY <1>3
    <2>2. n * BlockSecs \in Nat
        BY Constants
    <2>3. AmountToTtl(n) \in Nat /\ AmountToTtl(n) * price <= n * BlockSecs
        BY <1>1, <2>2, Quotients DEF AmountToTtl
    <2>4. plan.added = n /\ plan.to = left + AmountToTtl(n)
        BY <2>1 DEF TopupPlan
    <2> QED
        BY <1>2, <2>3, <2>4 DEF balance
<1>4. \A secs \in Nat : TtlToAmount(secs) \in Nat
    BY <1>1, AmountCovers
<1>5. \A n \in {budget \div 2^batch[b].depth : budget \in Budgets} : n \in Nat
    BY <1>1, PowersArePositive, Quotients, Constants
<1>6. \A total \in Targets : \A n \in Missing(total, left) : n \in Nat
    BY Constants DEF Missing
<1>7. \A secs \in Targets \union UNION {Missing(total, left) : total \in Targets} : secs \in Nat
    BY <1>6, Constants
<1> QED
    BY <1>3, <1>4, <1>5, <1>7 DEF Extensions

\* What a node tells is a number.
LEMMA ToldTyped ==
    ASSUME BooksOK, NEW b \in Batch, NEW ttl \in Told(b)
    PROVE  ttl \in Int
BY TimeLeft DEF BooksOK, Told

LEMMA PlansTopupBooks ==
    ASSUME BooksOK, NEW c \in Caller, NEW b \in Batch, PlansTopup(c, b)
    PROVE  BooksOK'
<1>1. PICK ttl \in Told(b) : \E plan \in Extensions(b, Max({ttl, 0})) :
          call' = [call EXCEPT ![c] = [Idle EXCEPT !.op = "topup", !.stage = "plans", !.batch = b, !.arg = plan.added,
                                                   !.total = plan.to, !.since = block]]
    BY DEF PlansTopup, Asks
<1> DEFINE left == Max({ttl, 0})
<1>2. left \in Nat
    <2>1. PICK zero \in Int : zero = 0
        OBVIOUS
    <2>2. ttl \in Int /\ zero \in Int
        BY <2>1, ToldTyped
    <2>3. Max({ttl, zero}) \in {ttl, zero} /\ zero <= Max({ttl, zero})
        BY <2>2, MaxOfTwo
    <2> QED
        BY <2>1, <2>2, <2>3
<1> HIDE DEF left
<1>3. PICK plan \in Extensions(b, left) :
          call' = [call EXCEPT ![c] = [Idle EXCEPT !.op = "topup", !.stage = "plans", !.batch = b, !.arg = plan.added,
                                                   !.total = plan.to, !.since = block]]
    BY <1>1 DEF left
<1>4. plan.added \in Nat /\ plan.to \in Nat /\ block \in Nat
    BY <1>2, ExtensionsCover, BooksRead
<1>5. PICK request : request = [Idle EXCEPT !.op = "topup", !.stage = "plans", !.batch = b, !.arg = plan.added,
                                            !.total = plan.to, !.since = block]
    OBVIOUS
<1>6. request \in Calls /\ Orderly(request)
    <2>1. request = [op |-> "topup", stage |-> "plans", batch |-> b, arg |-> plan.added, depth |-> 0, ledger |-> 0,
                     ttl |-> 0, tx |-> 0, total |-> plan.to, since |-> block]
        BY <1>5 DEF Idle
    <2> QED
        BY <1>4, <2>1 DEF Calls, Orderly
<1>7. UNCHANGED <<price, block, batch, wallet, txs, sent, lost, answered, promised, upload>>
    BY DEF PlansTopup, chainVars
<1> QED
    BY <1>3, <1>5, <1>6, <1>7, BooksAsk, BooksRead

LEMMA RaisesBooks ==
    ASSUME BooksOK, NEW c \in Caller, Raises(c),
           UNCHANGED <<price, block, batch, wallet, txs, sent, lost, upload>>
    PROVE  BooksOK'
BY BooksAsk, BooksRead DEF Raises

LEMMA TopupReadsBooks ==
    ASSUME BooksOK, NEW c \in Caller, TopupReads(c)
    PROVE  BooksOK'
<1> DEFINE b == call[c].batch
<1>1. call[c].stage = "plans" /\ UNCHANGED <<price, block, batch, wallet, txs, sent, lost, upload>>
    BY DEF TopupReads, chainVars
<1>2. CASE ~Known(b)
    BY <1>1, <1>2, RaisesBooks DEF TopupReads
<1>3. CASE Known(b)
    <2>1. b \in Batch /\ call[c].op = "topup" /\ call[c] \in Calls
        BY <1>1, TopupsUnderWay
    <2>2. PICK ttl \in Told(b) : call' = [call EXCEPT ![c].stage = "checks", ![c].ledger = batch[b].ledger,
                                                      ![c].ttl = ttl, ![c].depth = batch[b].depth]
        BY <1>3 DEF TopupReads
    <2>3. UNCHANGED <<answered, promised>>
        BY <1>3 DEF TopupReads
    <2>4. ttl \in Int /\ batch[b].ledger \in Nat /\ batch[b].depth \in Nat
        BY <2>1, ToldTyped, BooksRead
    <2>5. PICK request : request = [call[c] EXCEPT !.stage = "checks", !.ledger = batch[b].ledger,
                                                   !.ttl = ttl, !.depth = batch[b].depth]
        OBVIOUS
    <2>6. call' = [call EXCEPT ![c] = request]
        BY <2>2, <2>5, BooksRead
    <2>7. request \in Calls /\ Orderly(request)
        BY <2>1, <2>4, <2>5 DEF Calls, Orderly
    <2> QED
        BY <1>1, <2>3, <2>6, <2>7, BooksAsk, BooksRead
<1> QED
    BY <1>2, <1>3

LEMMA TopupChecksBooks ==
    ASSUME BooksOK, NEW c \in Caller, TopupChecks(c)
    PROVE  BooksOK'
<1>1. call[c].stage = "checks" /\ UNCHANGED <<price, block, batch, wallet, txs, sent, lost, upload>>
    BY DEF TopupChecks, chainVars
<1>2. CASE Raises(c)
    BY <1>1, <1>2, RaisesBooks
<1>3. CASE call' = [call EXCEPT ![c].stage = "submits"] /\ UNCHANGED <<answered, promised>>
    <2>1. call[c].batch \in Batch /\ call[c].op = "topup" /\ call[c] \in Calls
        BY <1>1, TopupsUnderWay
    <2>2. PICK request : request = [call[c] EXCEPT !.stage = "submits"]
        OBVIOUS
    <2>3. call' = [call EXCEPT ![c] = request]
        BY <1>3, <2>2, BooksRead
    <2>4. request \in Calls /\ Orderly(request)
        BY <2>1, <2>2 DEF Calls, Orderly
    <2> QED
        BY <1>1, <1>3, <2>3, <2>4, BooksAsk, BooksRead
<1> QED
    BY <1>2, <1>3 DEF TopupChecks

\* A renewal that is read to be there is sent.
LEMMA SubmitsBooks ==
    ASSUME BooksOK, NEW c \in Caller, TopupSubmits(c) \/ DiluteSubmits(c)
    PROVE  BooksOK'
<1> DEFINE b == call[c].batch
           n == sent + 1
           tx == [id |-> n, op |-> call[c].op, batch |-> b, arg |-> call[c].arg, depth |-> 0]
<1>1. call[c].stage = "submits" /\ call[c].op \in {"topup", "dilute"}
    BY DEF TopupSubmits, DiluteSubmits
<1>2. UNCHANGED <<price, block, batch, wallet, lost, upload>>
    BY DEF TopupSubmits, DiluteSubmits, chainVars
<1>3. call[c] \in Calls /\ b \in Batch /\ call[c].arg \in Nat /\ n \in Nat
    <2>1. call[c] \in Calls /\ Orderly(call[c]) /\ n \in Nat
        BY BooksRead
    <2> QED
        BY <1>1, <2>1 DEF Orderly, Calls
<1>4. CASE Raises(c) /\ UNCHANGED <<txs, sent>>
    BY <1>2, <1>4, RaisesBooks
<1>5. CASE Known(b) /\ Sends(c, tx) /\ UNCHANGED <<answered, promised>>
    <2>1. /\ sent' = sent + 1 /\ txs' = txs \union {tx}
          /\ call' = [call EXCEPT ![c].stage = "polls", ![c].tx = n]
        BY <1>5 DEF Sends
    <2> HIDE DEF n
    <2>2. PICK request : request = [call[c] EXCEPT !.stage = "polls", !.tx = n]
        OBVIOUS
    <2>3. call' = [call EXCEPT ![c] = request]
        BY <2>1, <2>2, BooksRead
    <2>4. request \in Calls /\ Orderly(request)
        BY <1>1, <1>3, <2>2 DEF Calls, Orderly
    <2>5. tx \in Transactions /\ tx.op # "buy" /\ Known(tx.batch)
        BY <1>1, <1>3, <1>5 DEF Transactions
    <2> HIDE DEF tx
    <2> QED
        BY <1>2, <1>5, <2>1, <2>3, <2>4, <2>5, BooksSend
<1>6. TopupSubmits(c) => call[c].op = "topup"
    BY DEF TopupSubmits
<1>7. DiluteSubmits(c) => call[c].op = "dilute"
    BY DEF DiluteSubmits
<1> QED
    BY <1>4, <1>5, <1>6, <1>7 DEF TopupSubmits, DiluteSubmits

LEMMA DiluteReadsBooks ==
    ASSUME BooksOK, NEW c \in Caller, NEW b \in Batch, NEW to \in Depths, DiluteReads(c, b, to)
    PROVE  BooksOK'
<1>1. PICK request : request = [Idle EXCEPT !.op = "dilute", !.stage = "submits", !.batch = b, !.arg = to]
    OBVIOUS
<1>2. /\ call' = [call EXCEPT ![c] = request]
      /\ UNCHANGED <<price, block, batch, wallet, txs, sent, lost, answered, promised, upload>>
    BY <1>1 DEF DiluteReads, Asks, chainVars
<1>3. request \in Calls /\ Orderly(request)
    <2>1. request = [op |-> "dilute", stage |-> "submits", batch |-> b, arg |-> to, depth |-> 0, ledger |-> 0,
                     ttl |-> 0, tx |-> 0, total |-> 0, since |-> 0]
        BY <1>1 DEF Idle
    <2> QED
        BY <2>1, Constants DEF Calls, Orderly
<1> QED
    BY <1>2, <1>3, BooksAsk, BooksRead

LEMMA PollsBooks ==
    ASSUME BooksOK, NEW c \in Caller, Polls(c)
    PROVE  BooksOK'
<1> DEFINE answer == [op |-> call[c].op, batch |-> call[c].batch, arg |-> call[c].arg, tx |-> call[c].tx]
           promise == [batch |-> call[c].batch, total |-> call[c].total, since |-> call[c].since]
<1>1. /\ call[c].stage = "polls" /\ call' = [call EXCEPT ![c] = Idle]
      /\ answered' = answered \union {answer} /\ promised' \in {promised, promised \union {promise}}
      /\ UNCHANGED <<price, block, batch, wallet, txs, sent, lost, upload>>
    BY DEF Polls, Answers, chainVars
<1>2. call[c] \in Calls /\ Orderly(call[c])
    BY BooksRead
<1>3. call[c].op # "none" /\ call[c].batch \in Batch
    BY <1>1, <1>2 DEF Orderly, Idle
<1>4. /\ answer \in [op : {"buy", "topup", "dilute"}, batch : Batch, arg : Nat, tx : Nat]
      /\ promise \in [batch : Batch, total : Nat, since : Nat]
    BY <1>2, <1>3 DEF Calls
<1> HIDE DEF answer, promise
<1> QED
    BY <1>1, <1>4, BooksAsk, BooksRead

\* A block takes its price of every batch, and ends those it spends.
LEMMA BlockDrains ==
    ASSUME BooksOK, Block, NEW o \in Batch
    PROVE  /\ batch'[o] \in Accounts /\ batch'[o].balance \in Nat /\ batch[o].balance \in Nat
           /\ batch[o].balance - price <= batch'[o].balance /\ batch'[o].balance <= batch[o].balance
           /\ batch'[o].depth = batch[o].depth /\ batch'[o].first = batch[o].first
           /\ batch'[o].ledger = batch[o].ledger
           /\ ~Known(o) => batch'[o] = batch[o]
           /\ Known(o) => \/ batch'[o].status = batch[o].status
                          \/ batch'[o].status = "gone" /\ batch[o].balance <= price
<1>1. price \in Nat /\ batch[o] \in Accounts /\ batch[o].balance \in Nat
    BY BooksRead, Constants DEF BooksOK, StampTypeOK, Accounts
<1>2. batch'[o] = Drained(o)
    BY DEF Block
<1>3. CASE ~Known(o)
    BY <1>1, <1>2, <1>3 DEF Drained
<1>4. CASE Known(o) /\ batch[o].balance <= price
    <2>1. PICK r : r = [batch[o] EXCEPT !.status = "gone", !.balance = 0]
        OBVIOUS
    <2>2. batch'[o] = r
        BY <1>2, <1>4, <2>1 DEF Drained
    <2>3. /\ r \in Accounts /\ r.status = "gone" /\ r.balance = 0
          /\ r.depth = batch[o].depth /\ r.first = batch[o].first /\ r.ledger = batch[o].ledger
        BY <1>1, <2>1 DEF Accounts
    <2> QED
        BY <1>1, <1>4, <2>2, <2>3
<1>5. CASE Known(o) /\ ~(batch[o].balance <= price)
    <2>1. PICK r : r = [batch[o] EXCEPT !.balance = batch[o].balance - price]
        OBVIOUS
    <2>2. batch'[o] = r
        BY <1>2, <1>5, <2>1 DEF Drained
    <2>3. batch[o].balance - price \in Nat
        BY <1>1, <1>5
    <2> QED
        BY <1>1, <1>5, <2>1, <2>2, <2>3 DEF Accounts
<1> QED
    BY <1>3, <1>4, <1>5

\* What a node does to a batch, short of its blocks and its transactions.
LEMMA NodeTurns ==
    ASSUME BooksOK, NEW b \in Batch, NodeMoves(b)
    PROVE  /\ Known(b) /\ batch[b] \in Accounts
           /\ \E r \in Accounts :
                  /\ batch' = [batch EXCEPT ![b] = r]
                  /\ r.status \in {"syncing", "usable"} /\ (batch[b].status = "usable" => r.status = "usable")
                  /\ r.balance = batch[b].balance /\ r.depth = batch[b].depth /\ r.first = batch[b].first
                  /\ r.ledger \in {batch[b].ledger, batch[b].first}
<1>1. batch[b] \in Accounts /\ batch \in [Batch -> Accounts] /\ Known(b)
    BY DEF BooksOK, StampTypeOK, NodeMoves, Known
<1>2. CASE batch[b].status = "syncing" /\ batch' = [batch EXCEPT ![b].status = "usable"]
    <2>1. PICK r : r = [batch[b] EXCEPT !.status = "usable"]
        OBVIOUS
    <2>2. /\ r \in Accounts /\ r.status = "usable" /\ r.balance = batch[b].balance /\ r.depth = batch[b].depth
          /\ r.first = batch[b].first /\ r.ledger = batch[b].ledger
        BY <1>1, <2>1, Zenon DEF Accounts
    <2>3. batch' = [batch EXCEPT ![b] = r]
        BY <1>1, <1>2, <2>1
    <2> QED
        BY <1>1, <2>2, <2>3
<1>3. CASE batch' = [batch EXCEPT ![b].full = TRUE]
    <2>1. PICK r : r = [batch[b] EXCEPT !.full = TRUE]
        OBVIOUS
    <2>2. /\ r \in Accounts /\ r.status = batch[b].status /\ r.balance = batch[b].balance
          /\ r.depth = batch[b].depth /\ r.first = batch[b].first /\ r.ledger = batch[b].ledger
        BY <1>1, <2>1, Zenon DEF Accounts
    <2>3. batch' = [batch EXCEPT ![b] = r]
        BY <1>1, <1>3, <2>1
    <2>4. batch[b].status \in {"syncing", "usable"}
        BY <1>1 DEF Known
    <2> QED
        BY <1>1, <2>2, <2>3, <2>4
<1>4. CASE batch' = [batch EXCEPT ![b].ledger = batch[b].first]
    <2>1. PICK r : r = [batch[b] EXCEPT !.ledger = batch[b].first]
        OBVIOUS
    <2>2. /\ r \in Accounts /\ r.status = batch[b].status /\ r.balance = batch[b].balance
          /\ r.depth = batch[b].depth /\ r.first = batch[b].first /\ r.ledger = batch[b].first
        BY <1>1, <2>1, Zenon DEF Accounts
    <2>3. batch' = [batch EXCEPT ![b] = r]
        BY <1>1, <1>4, <2>1
    <2>4. batch[b].status \in {"syncing", "usable"}
        BY <1>1 DEF Known
    <2> QED
        BY <1>1, <2>2, <2>3, <2>4
<1> QED
    BY <1>1, <1>2, <1>3, <1>4 DEF NodeMoves

\* What a transaction that is taken makes of its batch.
TakenAs(tx, r) ==
    /\ tx \in Transactions /\ batch[tx.batch] \in Accounts /\ r \in Accounts
    /\ tx.op = "buy" => /\ batch[tx.batch] = Unsold /\ r.status = "syncing" /\ r.balance = tx.arg
                        /\ r.first = r.ledger
    /\ tx.op = "topup" => /\ Known(tx.batch) /\ r.status = batch[tx.batch].status
                          /\ r.balance = batch[tx.batch].balance + tx.arg /\ r.depth = batch[tx.batch].depth
                          /\ r.first = batch[tx.batch].first /\ batch[tx.batch].ledger <= r.ledger
    /\ tx.op = "dilute" => /\ Known(tx.batch) /\ r.status = batch[tx.batch].status
                           /\ r.depth = tx.arg /\ batch[tx.batch].depth < tx.arg
                           /\ r.first = batch[tx.batch].first /\ batch[tx.batch].ledger <= r.ledger

LEMMA TakenSo ==
    ASSUME BooksOK, NEW tx \in txs, Takes(tx)
    PROVE  TakenAs(tx, After(tx))
<1> DEFINE b == tx.batch
<1>1. tx \in Transactions /\ batch[b] \in Accounts
    BY DEF BooksOK, StampTypeOK, Transactions
<1>2. PICK r : r = After(tx)
    OBVIOUS
<1>3. CASE tx.op = "buy"
    <2>1. r = [status |-> "syncing", balance |-> tx.arg, depth |-> tx.depth, first |-> tx.arg, ledger |-> tx.arg,
               full |-> FALSE]
        BY <1>2, <1>3 DEF After
    <2>2. batch[b] = Unsold
        BY <1>3 DEF BooksOK, Purchases
    <2> QED
        BY <1>1, <1>2, <1>3, <2>1, <2>2 DEF TakenAs, Accounts, Transactions
<1>4. CASE tx.op = "topup"
    <2>1. r = [batch[b] EXCEPT !.balance = batch[b].balance + tx.arg, !.ledger = batch[b].ledger + tx.arg]
        BY <1>2, <1>4 DEF After
    <2>2. batch[b].balance + tx.arg \in Nat /\ batch[b].ledger + tx.arg \in Nat /\ batch[b].ledger <= batch[b].ledger + tx.arg
        BY <1>1 DEF Accounts, Transactions
    <2>3. /\ r \in Accounts /\ r.status = batch[b].status /\ r.first = batch[b].first /\ r.depth = batch[b].depth
          /\ r.ledger = batch[b].ledger + tx.arg /\ r.balance = batch[b].balance + tx.arg
        BY <1>1, <2>1, <2>2 DEF Accounts
    <2>4. Known(b)
        BY <1>4 DEF Takes
    <2> QED
        BY <1>1, <1>2, <1>4, <2>2, <2>3, <2>4 DEF TakenAs
<1>5. CASE tx.op = "dilute"
    <2> DEFINE share == batch[b].balance \div 2^(tx.arg - batch[b].depth)
    <2>1. Known(b) /\ tx.arg > batch[b].depth
        BY <1>5 DEF Takes
    <2>2. /\ tx.arg \in Nat /\ tx.arg - batch[b].depth \in Nat
          /\ batch[b].balance \in Nat /\ batch[b].depth \in Nat /\ batch[b].ledger \in Nat
        BY <1>1, <2>1 DEF Accounts, Transactions
    <2>3. share \in Nat
        BY <2>2, PowersArePositive, Quotients
    <2>4. r = [batch[b] EXCEPT !.balance = share, !.depth = tx.arg, !.full = FALSE]
        BY <1>2, <1>5 DEF After
    <2> HIDE DEF share
    <2>5. r \in Accounts /\ r.status = batch[b].status /\ r.first = batch[b].first /\ r.ledger = batch[b].ledger
          /\ r.depth = tx.arg
        BY <1>1, <2>2, <2>3, <2>4, Zenon DEF Accounts
    <2> QED
        BY <1>1, <1>2, <1>5, <2>1, <2>2, <2>5 DEF TakenAs
<1> QED
    BY <1>1, <1>3, <1>4, <1>5 DEF Transactions

LEMMA AppliesBooks ==
    ASSUME BooksOK, NEW tx \in txs, Applies(tx)
    PROVE  BooksOK'
<1>1. StampTypeOK /\ InTurn /\ Purchases
    BY DEF BooksOK
<1>2. tx \in Transactions /\ tx.batch \in Batch /\ batch[tx.batch] \in Accounts
    BY <1>1 DEF StampTypeOK, Transactions
<1>3. txs' = txs \ {tx} /\ UNCHANGED <<price, block, sent, call, answered>>
    BY DEF Applies
<1>4. InTurn'
    BY <1>1, <1>3 DEF InTurn
<1>5. CASE ~Takes(tx)
    <2>1. lost' = lost \union {tx} /\ UNCHANGED <<batch, wallet, applied, promised, upload>>
        BY <1>5 DEF Applies
    <2>2. StampTypeOK' /\ Purchases'
        BY <1>1, <1>2, <1>3, <2>1 DEF StampTypeOK, Purchases
    <2> QED
        BY <1>4, <2>2 DEF BooksOK
<1>6. CASE Takes(tx)
    <2>1. PICK r : r = After(tx)
        OBVIOUS
    <2>2. /\ batch' = [batch EXCEPT ![tx.batch] = r] /\ wallet' = wallet - Due(tx)
          /\ promised' \subseteq promised /\ lost' = lost
          /\ upload' \in {upload, [batch |-> NoBatch, at |-> 0]}
        BY <1>6, <2>1 DEF Applies
    <2>3. TakenAs(tx, r)
        BY <1>6, <2>1, TakenSo
    <2>4. r \in Accounts /\ (tx.op = "buy" \/ Known(tx.batch))
        BY <1>2, <2>3 DEF TakenAs, Transactions
    <2>5. wallet' \in Int
        <3>1. batch[tx.batch].depth \in Nat /\ tx.depth \in Nat /\ tx.arg \in Nat
            BY <1>2 DEF Accounts, Transactions
        <3>2. 2^batch[tx.batch].depth \in Nat /\ 2^tx.depth \in Nat
            BY <3>1, PowersArePositive
        <3>3. Due(tx) \in Int
            BY <1>2, <3>1, <3>2 DEF Due, Transactions
        <3> QED
            BY <1>1, <2>2, <3>3 DEF StampTypeOK
    <2>6. batch' \in [Batch -> Accounts]
        BY <1>1, <2>2, <2>4 DEF StampTypeOK
    <2>7. StampTypeOK'
        BY <1>1, <1>3, <2>2, <2>5, <2>6 DEF StampTypeOK
    <2>8. Purchases'
        <3> SUFFICES ASSUME NEW ty \in txs', ty.op = "buy"
                     PROVE  batch'[ty.batch] = Unsold /\ \A tz \in txs' : tz.batch = ty.batch => tz = ty
            BY DEF Purchases
        <3>1. batch[ty.batch] = Unsold /\ ty.batch # tx.batch /\ ty.batch \in Batch
            BY <1>1, <1>3 DEF Purchases, StampTypeOK, Transactions
        <3> QED
            BY <1>1, <1>3, <2>2, <3>1 DEF Purchases, StampTypeOK
    <2> QED
        BY <1>4, <2>7, <2>8 DEF BooksOK
<1> QED
    BY <1>5, <1>6

\* What every step keeps: types, the stages of a call, and that a purchase is
\* the first thing that is sent for its batch.
LEMMA BooksKept ==
    ASSUME BooksOK, [Next]_vars
    PROVE  BooksOK'
<1>1. StampTypeOK /\ InTurn /\ Purchases
    BY DEF BooksOK
<1>2. CASE UNCHANGED vars
    BY <1>1, <1>2 DEF vars, BooksOK, StampTypeOK, InTurn, Purchases
<1>3. CASE \E tx \in txs : Applies(tx)
    BY <1>3, AppliesBooks
<1>4. CASE Block
    <2>1. UNCHANGED <<price, wallet, txs, sent, lost, call, answered, promised, upload>> /\ block' = block + 1
        BY <1>4 DEF Block, askVars
    <2>2. batch' \in [Batch -> Accounts]
        <3>1. \A o \in Batch : Drained(o) \in Accounts
            BY <1>4, BlockDrains DEF Block
        <3> QED
            BY <1>4, <3>1 DEF Block
    <2>3. StampTypeOK' /\ InTurn'
        BY <1>1, <2>1, <2>2 DEF StampTypeOK, InTurn
    <2>4. Purchases'
        BY <1>1, <1>4, <2>1, BlockDrains DEF Purchases, StampTypeOK, Transactions, Unsold, Known
    <2> QED
        BY <2>3, <2>4 DEF BooksOK
<1>5. CASE PriceMoves
    <2>1. /\ price' \in Prices /\ promised' = {} /\ upload' = [batch |-> NoBatch, at |-> 0]
          /\ call' = [c \in Caller |-> [call[c] EXCEPT !.total = 0]]
          /\ UNCHANGED <<block, batch, wallet, txs, sent, lost, applied, answered>>
        BY <1>5 DEF PriceMoves
    <2>2. \A c \in Caller : call'[c] \in Calls /\ Orderly(call'[c])
        <3> SUFFICES ASSUME NEW c \in Caller
                     PROVE  call'[c] \in Calls /\ Orderly(call'[c])
            OBVIOUS
        <3>1. call[c] \in Calls /\ Orderly(call[c])
            BY BooksRead
        <3>2. PICK r : r = [call[c] EXCEPT !.total = 0]
            OBVIOUS
        <3>3. call'[c] = r
            BY <2>1, <3>2
        <3>4. r \in Calls /\ r.op = call[c].op /\ r.batch = call[c].batch /\ r.stage = call[c].stage
            BY <3>1, <3>2 DEF Calls
        <3>5. call[c] = Idle => r = Idle
            BY <3>2 DEF Idle
        <3> QED
            BY <3>1, <3>3, <3>4, <3>5 DEF Orderly
    <2>3. call' \in [Caller -> Calls]
        BY <2>1, <2>2
    <2> QED
        BY <1>1, <2>1, <2>2, <2>3 DEF BooksOK, StampTypeOK, InTurn, Purchases
<1>6. CASE Resolves
    <2>1. PICK b \in Batch : upload' = [batch |-> b, at |-> block]
        BY <1>6 DEF Resolves
    <2>2. UNCHANGED <<price, block, batch, wallet, txs, sent, lost, applied, call, answered, promised>>
        BY <1>6 DEF Resolves, chainVars, askVars
    <2> QED
        BY <1>1, <2>1, <2>2 DEF BooksOK, StampTypeOK, InTurn, Purchases
<1>7. CASE \E b \in Batch : NodeMoves(b)
    <2>1. PICK b \in Batch : NodeMoves(b)
        BY <1>7
    <2>2. PICK r \in Accounts : batch' = [batch EXCEPT ![b] = r]
        BY <2>1, NodeTurns
    <2>3. Known(b)
        BY <2>1, NodeTurns
    <2>4. UNCHANGED <<price, block, wallet, txs, sent, lost, call, answered, promised, upload>>
        BY <2>1 DEF NodeMoves, askVars
    <2>5. StampTypeOK' /\ InTurn'
        BY <1>1, <2>2, <2>4 DEF StampTypeOK, InTurn
    <2>6. Purchases'
        BY <1>1, <2>2, <2>3, <2>4 DEF Purchases, StampTypeOK, Transactions, Known, Unsold
    <2> QED
        BY <2>5, <2>6 DEF BooksOK
<1>8. CASE \E c \in Caller : CallerSteps(c)
    <2>1. PICK c \in Caller : CallerSteps(c)
        BY <1>8
    <2>2. CASE \E b \in Batch, secs \in Targets, depth \in Depths : Buys(c, b, secs, depth)
        BY <2>2, BuysBooks
    <2>3. CASE \E b \in Batch : PlansTopup(c, b) \/ \E to \in Depths : DiluteReads(c, b, to)
        BY <2>3, PlansTopupBooks, DiluteReadsBooks
    <2>4. CASE TopupReads(c) \/ TopupChecks(c) \/ TopupSubmits(c) \/ DiluteSubmits(c)
        BY <2>4, TopupReadsBooks, TopupChecksBooks, SubmitsBooks
    <2>5. CASE Polls(c)
        BY <2>5, PollsBooks
    <2>6. CASE GivesUp(c)
        BY <2>6, RaisesBooks DEF GivesUp, chainVars
    <2> QED
        BY <2>1, <2>2, <2>3, <2>4, <2>5, <2>6 DEF CallerSteps
<1> QED
    BY <1>2, <1>3, <1>4, <1>5, <1>6, <1>7, <1>8 DEF Next

LEMMA BooksFrom ==
    ASSUME Init
    PROVE  BooksOK
<1>1. Idle \in Calls /\ Orderly(Idle)
    BY DEF Idle, Calls, Orderly
<1>2. StampTypeOK
    BY <1>1, Constants DEF Init, StampTypeOK, Accounts, Unsold
<1> QED
    BY <1>1, <1>2 DEF Init, BooksOK, InTurn, Purchases

\* For any callers, whatever happens: types, the stages of a call, and that a
\* purchase is the first thing sent for its batch (stamps.py 475-520, 640-770).
THEOREM StampTyping == Spec => []BooksOK
BY BooksFrom, BooksKept, PTL DEF Spec

(***************************************************************************)
(* An upload's batch, for any callers, beside a node that knows its times. *)
(***************************************************************************)
\* A balance that is spent has lasted for what it covered.
LEMMA SpentLasted ==
    ASSUME NEW x \in Nat, NEW t \in Nat, NEW s \in Nat, NEW p \in Nat \ {0}, NEW n \in Nat,
           x <= p, Covers(x, t, s, p, n)
    PROVE  t <= (n + 1 - s) * BlockSecs
<1> DEFINE k == (n + 1 - s) * BlockSecs
<1>1. Covers(0, t, s, p, n + 1)
    BY CoversLater
<1>2. t * p <= k * p /\ k \in Int
    BY <1>1, Constants DEF Covers
<1> HIDE DEF k
<1>3. t <= k
    BY <1>2
<1> QED
    BY <1>3 DEF k

\* Without a guess, a node tells what is left.
LEMMA ToldExactly ==
    ASSUME "guesses" \notin Faults, NEW b \in Batch
    PROVE  Told(b) = {Ttl(b)}
BY DEF Told

\* A step that takes nothing from a batch, in no time, leaves its upload as it was.
LEMMA OutlastsBeside ==
    ASSUME BooksOK, Outlasts, BooksOK', UNCHANGED <<price, block>>,
           upload' = upload \/ upload'.batch = NoBatch,
           \A o \in Batch : upload'.batch = o /\ batch[o].status = "usable" =>
               batch'[o].status = "usable" /\ batch[o].balance <= batch'[o].balance
    PROVE  Outlasts'
<1> SUFFICES ASSUME upload.batch # NoBatch, upload' = upload
             PROVE  Outlasts'
    BY DEF Outlasts
<1> DEFINE b == upload.batch
           t == MinTtl + 1
<1>1. /\ b \in Batch /\ upload.at \in Nat /\ upload.at <= block /\ t \in Nat /\ price \in Nat /\ block \in Nat
      /\ batch[b].balance \in Nat /\ batch'[b].balance \in Nat
    BY Constants DEF BooksOK, StampTypeOK, Outlasts, Accounts
<1>2. CASE (block - upload.at) * BlockSecs > MinTtl
    BY <1>1, <1>2 DEF Outlasts
<1>3. CASE batch[b].status = "usable" /\ Covers(batch[b].balance, t, upload.at, price, block)
    <2>1. batch'[b].status = "usable" /\ batch[b].balance <= batch'[b].balance
        BY <1>1, <1>3
    <2> HIDE DEF t
    <2>2. Covers(batch'[b].balance, t, upload.at, price, block)
        BY <1>1, <1>3, <2>1, CoversMore
    <2> QED
        BY <1>1, <2>1, <2>2 DEF Outlasts, t
<1> QED
    BY <1>2, <1>3 DEF Outlasts

LEMMA OutlastsBlock ==
    ASSUME BooksOK, Outlasts, Block
    PROVE  Outlasts'
<1> DEFINE b == upload.batch
           t == MinTtl + 1
           now == block + 1
           late == (now - upload.at) * BlockSecs > MinTtl
<1>1. UNCHANGED <<price, upload>> /\ block' = now
    BY DEF Block, askVars
<1> SUFFICES ASSUME upload.batch # NoBatch
             PROVE  \/ batch'[b].status = "usable" /\ Covers(batch'[b].balance, t, upload.at, price, now)
                    \/ late
    <2>1. block \in Nat /\ upload.at \in Nat /\ MinTtl \in Nat /\ (upload.batch # NoBatch => upload.at <= block)
        BY Constants DEF BooksOK, StampTypeOK, Outlasts
    <2> QED
        BY <1>1, <2>1 DEF Outlasts
<1>2. /\ b \in Batch /\ upload.at \in Nat /\ upload.at <= block /\ t \in Nat /\ price \in Nat \ {0}
      /\ block \in Nat /\ now \in Nat /\ MinTtl \in Nat /\ BlockSecs \in Nat
    BY Constants DEF BooksOK, StampTypeOK, Outlasts
<1>3. CASE (block - upload.at) * BlockSecs > MinTtl
    <2>1. (block - upload.at) * BlockSecs <= (now - upload.at) * BlockSecs
        BY <1>2
    <2>2. (block - upload.at) * BlockSecs \in Int /\ (now - upload.at) * BlockSecs \in Int
        BY <1>2
    <2> QED
        BY <1>2, <1>3, <2>1, <2>2
<1>4. CASE batch[b].status = "usable" /\ Covers(batch[b].balance, t, upload.at, price, block)
    <2>1. /\ batch[b].balance \in Nat /\ batch'[b].balance \in Nat /\ batch[b].balance - price <= batch'[b].balance
          /\ batch'[b].status = "usable" \/ batch[b].balance <= price
        BY <1>2, <1>4, BlockDrains DEF Known
    <2> HIDE DEF b, t
    <2>2. CASE batch'[b].status = "usable"
        <3>1. Covers(batch'[b].balance, t, upload.at, price, block + 1)
            BY <1>2, <1>4, <2>1, CoversLater
        <3> QED
            BY <2>2, <3>1
    <2>3. CASE batch[b].balance <= price
        <3>1. t <= (block + 1 - upload.at) * BlockSecs
            BY <1>2, <1>4, <2>1, <2>3, SpentLasted
        <3>2. (block + 1 - upload.at) * BlockSecs \in Int
            BY <1>2
        <3> QED
            BY <1>2, <3>1, <3>2 DEF t
    <2> QED
        BY <2>1, <2>2, <2>3
<1> QED
    BY <1>3, <1>4 DEF Outlasts

LEMMA OutlastsResolves ==
    ASSUME "guesses" \notin Faults, BooksOK, Resolves
    PROVE  Outlasts'
<1> DEFINE t == MinTtl + 1
<1>1. PICK b \in Batch : \E ttl \in Told(b) : ~Problem(b, ttl) /\ upload' = [batch |-> b, at |-> block]
    BY DEF Resolves
<1>2. ~Problem(b, Ttl(b)) /\ upload' = [batch |-> b, at |-> block] /\ UNCHANGED <<price, block, batch>>
    BY <1>1, ToldExactly DEF Resolves, chainVars
<1>3. batch[b].balance \in Nat /\ price \in Nat /\ block \in Nat /\ MinTtl \in Nat /\ t \in Nat
    BY Constants DEF BooksOK, StampTypeOK, Accounts
<1>4. batch[b].status = "usable" /\ t <= Ttl(b)
    BY <1>2, <1>3, TimeLeft DEF Problem, BooksOK
<1>5. t * price <= batch[b].balance * BlockSecs
    BY <1>3, <1>4, TimeLeft DEF BooksOK
<1> HIDE DEF t
<1>6. Covers(batch[b].balance, t, block, price, block)
    BY <1>3, <1>5, CoversNow
<1> QED
    BY <1>2, <1>3, <1>4, <1>6 DEF Outlasts, t

LEMMA OutlastsKept ==
    ASSUME "guesses" \notin Faults, BooksOK, BooksOK', Outlasts, [Next]_vars
    PROVE  Outlasts'
<1>1. CASE UNCHANGED <<price, block, batch, upload>>
    <2>1. \A o \in Batch : batch[o].balance \in Nat
        BY DEF BooksOK, StampTypeOK, Accounts
    <2> QED
        BY <1>1, <2>1, OutlastsBeside
<1>2. CASE Block
    BY <1>2, OutlastsBlock
<1>3. CASE Resolves
    BY <1>3, OutlastsResolves
<1>4. CASE PriceMoves
    BY <1>4 DEF PriceMoves, Outlasts
<1>5. CASE \E tx \in txs : Applies(tx)
    <2>1. PICK tx \in txs : Applies(tx)
        BY <1>5
    <2>2. CASE ~Takes(tx)
        BY <1>1, <2>1, <2>2 DEF Applies
    <2>3. CASE Takes(tx)
        <3>1. PICK r : r = After(tx)
            OBVIOUS
        <3>2. /\ UNCHANGED <<price, block>> /\ batch' = [batch EXCEPT ![tx.batch] = r]
              /\ upload' = IF tx.op = "dilute" /\ upload.batch = tx.batch THEN [batch |-> NoBatch, at |-> 0] ELSE upload
            BY <2>1, <2>3, <3>1 DEF Applies
        <3>3. TakenAs(tx, r)
            BY <2>3, <3>1, TakenSo
        <3>4. /\ batch \in [Batch -> Accounts] /\ tx \in Transactions /\ tx.batch \in Batch
              /\ \A o \in Batch : batch[o].balance \in Nat
            BY DEF BooksOK, StampTypeOK, Transactions, Accounts
        <3>5. ASSUME NEW o \in Batch, upload'.batch = o, batch[o].status = "usable"
              PROVE  batch'[o].status = "usable" /\ batch[o].balance <= batch'[o].balance
            <4>1. CASE o # tx.batch
                BY <3>2, <3>4, <3>5, <4>1
            <4>2. CASE o = tx.batch /\ tx.op = "topup"
                BY <3>2, <3>3, <3>4, <3>5, <4>2 DEF TakenAs, Transactions
            <4>3. CASE o = tx.batch /\ tx.op = "buy"
                BY <3>3, <3>5, <4>3 DEF TakenAs, Unsold
            <4>4. CASE o = tx.batch /\ tx.op = "dilute"
                BY <3>2, <3>5, <4>4, BatchAssumption
            <4> QED
                BY <3>4, <4>1, <4>2, <4>3, <4>4 DEF Transactions
        <3>6. upload' = upload \/ upload'.batch = NoBatch
            BY <3>2
        <3> QED
            BY <3>2, <3>5, <3>6, OutlastsBeside
    <2> QED
        BY <2>2, <2>3
<1>6. CASE \E b \in Batch : NodeMoves(b)
    <2>1. PICK b \in Batch : NodeMoves(b)
        BY <1>6
    <2>2. PICK r \in Accounts :
              /\ batch' = [batch EXCEPT ![b] = r]
              /\ batch[b].status = "usable" => r.status = "usable"
              /\ r.balance = batch[b].balance
        BY <2>1, NodeTurns
    <2>3. UNCHANGED <<price, block, upload>>
        BY <2>1 DEF NodeMoves, askVars
    <2>4. batch \in [Batch -> Accounts] /\ \A o \in Batch : batch[o].balance \in Nat
        BY DEF BooksOK, StampTypeOK, Accounts
    <2>5. \A o \in Batch : batch[o].status = "usable" =>
              batch'[o].status = "usable" /\ batch[o].balance <= batch'[o].balance
        BY <2>2, <2>4
    <2> QED
        BY <2>3, <2>5, OutlastsBeside
<1>7. CASE \E c \in Caller : CallerSteps(c)
    <2>1. PICK c \in Caller : CallerSteps(c)
        BY <1>7
    <2>2. UNCHANGED <<price, block, batch, upload>>
        <3>1. CASE \E b \in Batch, secs \in Targets, depth \in Depths : Buys(c, b, secs, depth)
            BY <3>1 DEF Buys, chainVars
        <3>2. CASE \E b \in Batch : PlansTopup(c, b) \/ \E to \in Depths : DiluteReads(c, b, to)
            BY <3>2 DEF PlansTopup, DiluteReads, chainVars
        <3>3. CASE TopupReads(c) \/ TopupChecks(c) \/ TopupSubmits(c) \/ DiluteSubmits(c) \/ Polls(c) \/ GivesUp(c)
            BY <3>3 DEF TopupReads, TopupChecks, TopupSubmits, DiluteSubmits, Polls, GivesUp, chainVars
        <3> QED
            BY <2>1, <3>1, <3>2, <3>3 DEF CallerSteps
    <2> QED
        BY <1>1, <2>2
<1> QED
    BY <1>1, <1>2, <1>3, <1>4, <1>5, <1>6, <1>7 DEF Next, vars

\* The batch an upload was given is there for the time the manager asks of it,
\* whoever else buys, tops up and dilutes, until one dilutes that batch or the
\* price moves (stamps.py 3-4 and 431-432).
THEOREM UploadsAreOutlived ==
    ASSUME "guesses" \notin Faults
    PROVE  Spec => []UploadsOutlive
<1>1. Init => Outlasts
    BY DEF Init, Outlasts
<1>2. BooksOK /\ BooksOK' /\ Outlasts /\ [Next]_vars => Outlasts'
    BY OutlastsKept
<1>3. BooksOK /\ Outlasts => UploadsOutlive
    <2>1. BooksOK => (block - upload.at) * BlockSecs \in Int /\ MinTtl \in Int
        BY Constants DEF BooksOK, StampTypeOK
    <2> QED
        BY <2>1 DEF Outlasts, UploadsOutlive
<1> QED
    BY <1>1, <1>2, <1>3, StampTyping, PTL DEF Spec

(***************************************************************************)
(* One who buys: what is under way, what shows, and what is paid for.      *)
(***************************************************************************)
LEMMA OneAlone ==
    ASSUME OneBuyer, NEW c \in Caller
    PROVE  \A d \in Caller : d = c
BY DEF OneBuyer

\* A call that does not poll has nothing under way.
LEMMA NothingUnderWay ==
    ASSUME SentByCaller, NEW c \in Caller, call[c].stage # "polls"
    PROVE  txs = {}
BY DEF SentByCaller

LEMMA ToldToOne ==
    ASSUME OneBuyer, NEW b \in Batch
    PROVE  Told(b) = {Ttl(b)}
<1>1. "guesses" \notin Faults
    BY DEF OneBuyer
<1> QED
    BY <1>1, ToldExactly

LEMMA InitKeeps ==
    ASSUME Init
    PROVE  Honoured
BY DEF Init, Honoured, SentByCaller, Numbered, NoEarlySign, Answered, PaidFor, Pending, Known, Unsold, Idle

\* A purchase sends the only transaction, for a batch that nobody has.
LEMMA BuysKeeps ==
    ASSUME OneBuyer, StampsInv, NEW c \in Caller, NEW b \in Batch, NEW secs \in Targets, NEW depth \in Depths,
           Buys(c, b, secs, depth)
    PROVE  Honoured'
<1> DEFINE blocks == PlanBlocks(secs)
           amount == blocks * price
           time == blocks * BlockSecs
           tx == [id |-> sent + 1, op |-> "buy", batch |-> b, arg |-> amount, depth |-> depth]
<1>1. PICK request : request = [Idle EXCEPT !.op = "buy", !.stage = "polls", !.batch = b, !.tx = sent + 1,
                                            !.arg = amount, !.total = time, !.since = block]
    OBVIOUS
<1>2. StampTypeOK /\ InTurn /\ SentByCaller /\ Numbered /\ NoEarlySign /\ Answered /\ PaidFor
    BY DEF StampsInv, BooksOK, Honoured
<1>3. /\ call[c] = Idle /\ batch[b] = Unsold
      /\ sent' = sent + 1 /\ txs' = txs \union {tx} /\ call' = [call EXCEPT ![c] = request]
      /\ UNCHANGED <<price, block, batch, wallet, lost, applied, answered, promised, upload>>
    BY <1>1 DEF Buys, Asks, chainVars
<1>4. txs = {}
    BY <1>2, <1>3, NothingUnderWay DEF Idle
<1>5. secs \in Nat /\ depth \in Nat /\ price \in Nat /\ block \in Nat /\ sent \in Nat /\ BlockSecs \in Nat
    BY <1>2, Constants DEF StampTypeOK
<1>6. blocks \in Nat
    BY <1>5, PlanCovers
<1> HIDE DEF blocks
<1>7. amount \in Nat /\ blocks * BlockSecs \in Nat /\ (blocks * BlockSecs) * price = amount * BlockSecs
    BY <1>5, <1>6
<1>8. Covers(amount, blocks * BlockSecs, block, price, block)
    BY <1>5, <1>7, CoversNow
<1>9. time \in Nat /\ Covers(amount, time, block, price, block)
    BY <1>7, <1>8
<1> HIDE DEF amount, time
<1>10. request = [op |-> "buy", stage |-> "polls", batch |-> b, arg |-> amount, depth |-> 0, ledger |-> 0,
                 ttl |-> 0, tx |-> sent + 1, total |-> time, since |-> block]
    BY <1>1 DEF Idle
<1>11. call' = [d \in Caller |-> request] /\ \A d \in Caller : d = c
    BY <1>2, <1>3, OneAlone DEF StampTypeOK
<1>12. SentByCaller' /\ Numbered'
    BY <1>2, <1>3, <1>4, <1>5, <1>10, <1>11 DEF StampTypeOK, SentByCaller, Numbered
<1>13. NoEarlySign' /\ Answered'
    BY <1>2, <1>3, <1>10, <1>11 DEF NoEarlySign, Pending, Known, Answered
<1>14. PaidFor'
    BY <1>2, <1>3, <1>5, <1>9, <1>10, <1>11 DEF PaidFor, Pending, Known, Unsold
<1> QED
    BY <1>12, <1>13, <1>14 DEF Honoured

\* A call that raises leaves nothing behind, when nothing is under way.
LEMMA RaisesKeeps ==
    ASSUME OneBuyer, StampsInv, NEW c \in Caller, Raises(c), txs = {},
           UNCHANGED <<price, block, batch, wallet, lost, applied, txs, sent, upload>>
    PROVE  Honoured'
<1>1. StampTypeOK /\ InTurn /\ SentByCaller /\ Numbered /\ NoEarlySign /\ Answered /\ PaidFor
    BY DEF StampsInv, BooksOK, Honoured
<1>2. call' = [d \in Caller |-> Idle] /\ UNCHANGED <<answered, promised>>
    BY <1>1, OneAlone DEF Raises, StampTypeOK
<1>3. Idle \in Calls /\ Idle.op = "none" /\ Idle.since = 0 /\ block \in Nat
    BY <1>1 DEF Idle, Calls, StampTypeOK
<1>4. SentByCaller' /\ Numbered'
    BY <1>1, <1>2, <1>3 DEF StampTypeOK, SentByCaller, Numbered
<1>5. NoEarlySign' /\ Answered'
    BY <1>1, <1>2, <1>3 DEF NoEarlySign, Pending, Known, Answered
<1>6. PaidFor'
    BY <1>1, <1>2, <1>3 DEF PaidFor, Pending, Known
<1> QED
    BY <1>4, <1>5, <1>6 DEF Honoured

\* A planned topup is paid for with what is there and what it adds.
LEMMA PlansTopupKeeps ==
    ASSUME OneBuyer, StampsInv, NEW c \in Caller, NEW b \in Batch, PlansTopup(c, b)
    PROVE  Honoured'
<1>1. StampTypeOK /\ InTurn /\ SentByCaller /\ Numbered /\ NoEarlySign /\ Answered /\ PaidFor
    BY DEF StampsInv, BooksOK, Honoured
<1>2. PICK ttl \in Told(b) : \E plan \in Extensions(b, Max({ttl, 0})) :
          call' = [call EXCEPT ![c] = [Idle EXCEPT !.op = "topup", !.stage = "plans", !.batch = b, !.arg = plan.added,
                                                   !.total = plan.to, !.since = block]]
    BY DEF PlansTopup, Asks
<1>3. ttl = Ttl(b)
    BY ToldToOne
<1>4. PICK plan \in Extensions(b, Max({Ttl(b), 0})) :
          call' = [call EXCEPT ![c] = [Idle EXCEPT !.op = "topup", !.stage = "plans", !.batch = b, !.arg = plan.added,
                                                   !.total = plan.to, !.since = block]]
    BY <1>2, <1>3
<1>5. PICK request : request = [Idle EXCEPT !.op = "topup", !.stage = "plans", !.batch = b, !.arg = plan.added,
                                            !.total = plan.to, !.since = block]
    OBVIOUS
<1>6. /\ call[c] = Idle
      /\ UNCHANGED <<price, block, batch, wallet, txs, sent, lost, applied, answered, promised, upload>>
    BY DEF PlansTopup, chainVars
<1>7. request = [op |-> "topup", stage |-> "plans", batch |-> b, arg |-> plan.added, depth |-> 0, ledger |-> 0,
                 ttl |-> 0, tx |-> 0, total |-> plan.to, since |-> block]
    BY <1>5 DEF Idle
<1>8. /\ plan.added \in Nat /\ plan.to \in Nat /\ block \in Nat
      /\ Covers(batch[b].balance + plan.added, plan.to, block, price, block)
    <2> DEFINE left == Max({Ttl(b), 0})
    <2>1. left \in Nat /\ left = Ttl(b) /\ left * price <= batch[b].balance * BlockSecs
        <3>1. Ttl(b) \in Nat /\ \A n \in Int : n <= Ttl(b) => n * price <= batch[b].balance * BlockSecs
            BY <1>1, TimeLeft
        <3>2. PICK zero \in Int : zero = 0
            OBVIOUS
        <3>3. Ttl(b) \in Int /\ zero \in Int
            BY <3>1, <3>2
        <3>4. Max({Ttl(b), zero}) \in {Ttl(b), zero} /\ Ttl(b) <= Max({Ttl(b), zero}) /\ zero <= Max({Ttl(b), zero})
            BY <3>3, MaxOfTwo
        <3> QED
            BY <3>1, <3>2, <3>4
    <2> HIDE DEF left
    <2>2. plan \in Extensions(b, left)
        BY DEF left
    <2> QED
        BY <1>1, <2>1, <2>2, ExtensionsCover DEF StampsInv, StampTypeOK
<1>9. txs = {}
    BY <1>1, <1>6, NothingUnderWay DEF Idle
<1>10. call' = [d \in Caller |-> request] /\ \A d \in Caller : d = c
    BY <1>1, <1>4, <1>5, OneAlone DEF StampTypeOK
<1>11. SentByCaller' /\ Numbered'
    BY <1>1, <1>6, <1>7, <1>9, <1>10 DEF StampTypeOK, SentByCaller, Numbered
<1>12. NoEarlySign' /\ Answered'
    BY <1>1, <1>6, <1>7, <1>10 DEF NoEarlySign, Pending, Known, Answered
<1>13. PaidFor'
    BY <1>1, <1>6, <1>7, <1>8, <1>10 DEF PaidFor, Pending, Known
<1> QED
    BY <1>11, <1>12, <1>13 DEF Honoured

\* A topup reads what its signs are compared to.
LEMMA TopupReadsKeeps ==
    ASSUME OneBuyer, StampsInv, NEW c \in Caller, TopupReads(c)
    PROVE  Honoured'
<1> DEFINE b == call[c].batch
<1>1. StampTypeOK /\ InTurn /\ SentByCaller /\ Numbered /\ NoEarlySign /\ Answered /\ PaidFor
    BY DEF StampsInv, BooksOK, Honoured
<1>2. /\ call[c].stage = "plans"
      /\ UNCHANGED <<price, block, batch, wallet, txs, sent, lost, applied, upload>>
    BY DEF TopupReads, chainVars
<1>3. txs = {}
    BY <1>1, <1>2, NothingUnderWay
<1>4. CASE ~Known(b)
    BY <1>2, <1>3, <1>4, RaisesKeeps DEF TopupReads
<1>5. CASE Known(b)
    <2>1. b \in Batch /\ call[c].op = "topup" /\ call[c] \in Calls
        BY <1>2, TopupsUnderWay DEF StampsInv
    <2>2. PICK ttl \in Told(b) : call' = [call EXCEPT ![c].stage = "checks", ![c].ledger = batch[b].ledger,
                                                      ![c].ttl = ttl, ![c].depth = batch[b].depth]
        BY <1>5 DEF TopupReads
    <2>3. UNCHANGED <<answered, promised>>
        BY <1>5 DEF TopupReads
    <2>4. ttl = Ttl(b) /\ ttl \in Nat /\ ttl \in Int
        BY <1>1, <2>1, ToldToOne, TimeLeft
    <2>5. batch[b].ledger \in Nat /\ batch[b].depth \in Nat
        BY <1>1, <2>1 DEF StampTypeOK, Accounts
    <2>6. PICK request : request = [call[c] EXCEPT !.stage = "checks", !.ledger = batch[b].ledger,
                                                   !.ttl = ttl, !.depth = batch[b].depth]
        OBVIOUS
    <2>7. call' = [d \in Caller |-> request] /\ \A d \in Caller : d = c
        BY <1>1, <2>2, <2>6, OneAlone DEF StampTypeOK
    <2>8. /\ request \in Calls /\ request.op = "topup" /\ request.stage = "checks" /\ request.batch = b
          /\ request.arg = call[c].arg /\ request.total = call[c].total /\ request.since = call[c].since
          /\ request.ledger = batch[b].ledger /\ request.ttl = ttl
        BY <2>1, <2>4, <2>5, <2>6 DEF Calls
    <2>9. SentByCaller' /\ Numbered'
        BY <1>1, <1>2, <1>3, <2>1, <2>7, <2>8 DEF SentByCaller, Numbered
    <2>10. NoEarlySign'
        <3>1. \A d \in Caller : call'[d] = request
            BY <2>7
        <3> QED
            BY <1>1, <1>2, <2>4, <2>5, <2>8, <3>1 DEF NoEarlySign, Pending, Known, Ttl
    <2>11. Answered'
        BY <1>1, <1>2, <2>3 DEF Answered
    <2>12. PaidFor'
        BY <1>1, <1>2, <2>1, <2>3, <2>7, <2>8 DEF PaidFor, Pending, Known
    <2> QED
        BY <2>9, <2>10, <2>11, <2>12 DEF Honoured
<1> QED
    BY <1>4, <1>5

\* Asking the wallet changes nothing that was read.
LEMMA TopupChecksKeeps ==
    ASSUME OneBuyer, StampsInv, NEW c \in Caller, TopupChecks(c)
    PROVE  Honoured'
<1>1. StampTypeOK /\ InTurn /\ SentByCaller /\ Numbered /\ NoEarlySign /\ Answered /\ PaidFor
    BY DEF StampsInv, BooksOK, Honoured
<1>2. /\ call[c].stage = "checks"
      /\ UNCHANGED <<price, block, batch, wallet, txs, sent, lost, applied, upload>>
    BY DEF TopupChecks, chainVars
<1>3. txs = {}
    BY <1>1, <1>2, NothingUnderWay
<1>4. CASE Raises(c)
    BY <1>2, <1>3, <1>4, RaisesKeeps
<1>5. CASE call' = [call EXCEPT ![c].stage = "submits"] /\ UNCHANGED <<answered, promised>>
    <2>1. call[c] \in Calls /\ call[c].op = "topup" /\ call[c].batch \in Batch
        BY <1>2, TopupsUnderWay DEF StampsInv
    <2>2. PICK request : request = [call[c] EXCEPT !.stage = "submits"]
        OBVIOUS
    <2>3. call' = [d \in Caller |-> request] /\ \A d \in Caller : d = c
        BY <1>1, <1>5, <2>2, OneAlone DEF StampTypeOK
    <2>4. /\ request \in Calls /\ request.op = "topup" /\ request.stage = "submits"
          /\ request.batch = call[c].batch /\ request.arg = call[c].arg /\ request.ttl = call[c].ttl
          /\ request.ledger = call[c].ledger /\ request.total = call[c].total /\ request.since = call[c].since
        BY <2>1, <2>2 DEF Calls
    <2>5. SentByCaller' /\ Numbered'
        BY <1>1, <1>2, <1>3, <2>1, <2>3, <2>4 DEF SentByCaller, Numbered
    <2>6. NoEarlySign' /\ Answered'
        BY <1>1, <1>2, <1>5, <2>1, <2>3, <2>4 DEF NoEarlySign, Pending, Known, Ttl, Answered
    <2>7. PaidFor'
        BY <1>1, <1>2, <1>5, <2>1, <2>3, <2>4 DEF PaidFor, Pending, Known
    <2> QED
        BY <2>5, <2>6, <2>7 DEF Honoured
<1> QED
    BY <1>4, <1>5 DEF TopupChecks

\* A topup that was sent and is not applied is as one that was not sent.
LEMMA TopupSubmitsKeeps ==
    ASSUME OneBuyer, StampsInv, NEW c \in Caller, TopupSubmits(c)
    PROVE  Honoured'
<1> DEFINE b == call[c].batch
           n == sent + 1
           tx == [id |-> n, op |-> "topup", batch |-> b, arg |-> call[c].arg, depth |-> 0]
<1>1. StampTypeOK /\ InTurn /\ SentByCaller /\ Numbered /\ NoEarlySign /\ Answered /\ PaidFor
    BY DEF StampsInv, BooksOK, Honoured
<1>2. /\ call[c].op = "topup" /\ call[c].stage = "submits"
      /\ UNCHANGED <<price, block, batch, wallet, lost, applied, upload>>
    BY DEF TopupSubmits, chainVars
<1>3. txs = {}
    BY <1>1, <1>2, NothingUnderWay
<1>4. CASE ~Known(b)
    <2>1. Raises(c) /\ UNCHANGED <<txs, sent>>
        BY <1>4 DEF TopupSubmits
    <2> QED
        BY <1>2, <1>3, <2>1, RaisesKeeps
<1>5. CASE Known(b)
    <2>1. /\ sent' = n /\ txs' = txs \union {tx} /\ UNCHANGED <<answered, promised>>
          /\ call' = [call EXCEPT ![c].stage = "polls", ![c].tx = n]
        BY <1>5 DEF TopupSubmits, Sends
    <2>2. call[c] \in Calls /\ b \in Batch /\ call[c].arg \in Nat /\ sent \in Nat /\ n \in Nat /\ n = sent + 1
        BY <1>1, <1>2 DEF StampTypeOK, InTurn, Orderly, Calls
    <2> HIDE DEF n
    <2>3. PICK request : request = [call[c] EXCEPT !.stage = "polls", !.tx = n]
        OBVIOUS
    <2>4. call' = [d \in Caller |-> request] /\ \A d \in Caller : d = c
        BY <1>1, <2>1, <2>3, OneAlone DEF StampTypeOK
    <2>5. /\ request \in Calls /\ request.op = "topup" /\ request.stage = "polls" /\ request.tx = n
          /\ request.batch = b /\ request.arg = call[c].arg /\ request.ttl = call[c].ttl
          /\ request.ledger = call[c].ledger /\ request.total = call[c].total /\ request.since = call[c].since
        BY <1>2, <2>2, <2>3 DEF Calls
    <2>6. n \notin applied
        BY <1>1, <2>2 DEF Numbered
    <2>7. SentByCaller' /\ Numbered'
        BY <1>1, <1>2, <1>3, <2>1, <2>2, <2>4, <2>5, <2>6 DEF SentByCaller, Numbered
    <2>8. NoEarlySign' /\ Answered'
        BY <1>1, <1>2, <2>1, <2>4, <2>5 DEF NoEarlySign, Pending, Known, Ttl, Answered
    <2>9. PaidFor'
        BY <1>1, <1>2, <2>1, <2>4, <2>5, <2>6 DEF PaidFor, Pending, Known
    <2> QED
        BY <2>7, <2>8, <2>9 DEF Honoured
<1> QED
    BY <1>4, <1>5

\* A dilution is planned.
LEMMA DiluteReadsKeeps ==
    ASSUME OneBuyer, StampsInv, NEW c \in Caller, NEW b \in Batch, NEW to \in Depths, DiluteReads(c, b, to)
    PROVE  Honoured'
<1>1. StampTypeOK /\ InTurn /\ SentByCaller /\ Numbered /\ NoEarlySign /\ Answered /\ PaidFor
    BY DEF StampsInv, BooksOK, Honoured
<1>2. PICK request : request = [Idle EXCEPT !.op = "dilute", !.stage = "submits", !.batch = b, !.arg = to]
    OBVIOUS
<1>3. /\ call[c] = Idle /\ call' = [call EXCEPT ![c] = request]
      /\ UNCHANGED <<price, block, batch, wallet, txs, sent, lost, applied, answered, promised, upload>>
    BY <1>2 DEF DiluteReads, Asks, chainVars
<1>4. txs = {}
    BY <1>1, <1>3, NothingUnderWay DEF Idle
<1>5. request = [op |-> "dilute", stage |-> "submits", batch |-> b, arg |-> to, depth |-> 0, ledger |-> 0,
                 ttl |-> 0, tx |-> 0, total |-> 0, since |-> 0]
    BY <1>2 DEF Idle
<1>6. call' = [d \in Caller |-> request] /\ \A d \in Caller : d = c
    BY <1>1, <1>3, OneAlone DEF StampTypeOK
<1>7. to \in Nat /\ block \in Nat
    BY <1>1, Constants DEF StampTypeOK
<1>8. SentByCaller' /\ Numbered'
    BY <1>1, <1>3, <1>4, <1>5, <1>6 DEF SentByCaller, Numbered
<1>9. NoEarlySign' /\ Answered'
    BY <1>1, <1>3, <1>5, <1>6 DEF NoEarlySign, Pending, Known, Answered
<1>10. PaidFor'
    BY <1>1, <1>3, <1>5, <1>6, <1>7 DEF PaidFor, Pending, Known
<1> QED
    BY <1>8, <1>9, <1>10 DEF Honoured

\* A dilution that is sent goes deeper than the batch is.
LEMMA DiluteSubmitsKeeps ==
    ASSUME OneBuyer, StampsInv, NEW c \in Caller, DiluteSubmits(c)
    PROVE  Honoured'
<1> DEFINE b == call[c].batch
           n == sent + 1
           tx == [id |-> n, op |-> "dilute", batch |-> b, arg |-> call[c].arg, depth |-> 0]
<1>1. StampTypeOK /\ InTurn /\ SentByCaller /\ Numbered /\ NoEarlySign /\ Answered /\ PaidFor
    BY DEF StampsInv, BooksOK, Honoured
<1>2. /\ call[c].op = "dilute" /\ call[c].stage = "submits"
      /\ UNCHANGED <<price, block, batch, wallet, lost, applied, upload>>
    BY DEF DiluteSubmits, chainVars
<1>3. txs = {}
    BY <1>1, <1>2, NothingUnderWay
<1>4. CASE Raises(c) /\ UNCHANGED <<txs, sent>>
    BY <1>2, <1>3, <1>4, RaisesKeeps
<1>5. CASE call[c].arg > batch[b].depth /\ Sends(c, tx) /\ UNCHANGED <<answered, promised>>
    <2>1. /\ sent' = n /\ txs' = txs \union {tx}
          /\ call' = [call EXCEPT ![c].stage = "polls", ![c].tx = n]
        BY <1>5 DEF Sends
    <2>2. /\ call[c] \in Calls /\ b \in Batch /\ call[c].arg \in Nat
          /\ sent \in Nat /\ n \in Nat /\ n = sent + 1
          /\ batch[b].depth \in Nat /\ batch[b].depth < call[c].arg
        BY <1>1, <1>2, <1>5 DEF StampTypeOK, InTurn, Orderly, Calls, Accounts
    <2> HIDE DEF n
    <2>3. PICK request : request = [call[c] EXCEPT !.stage = "polls", !.tx = n]
        OBVIOUS
    <2>4. call' = [d \in Caller |-> request] /\ \A d \in Caller : d = c
        BY <1>1, <2>1, <2>3, OneAlone DEF StampTypeOK
    <2>5. /\ request \in Calls /\ request.op = "dilute" /\ request.stage = "polls" /\ request.tx = n
          /\ request.batch = b /\ request.arg = call[c].arg /\ request.since = call[c].since
        BY <1>2, <2>2, <2>3 DEF Calls
    <2>6. n \notin applied
        BY <1>1, <2>2 DEF Numbered
    <2>7. SentByCaller' /\ Numbered'
        BY <1>1, <1>2, <1>3, <2>1, <2>2, <2>4, <2>5, <2>6 DEF SentByCaller, Numbered
    <2>8. NoEarlySign' /\ Answered'
        BY <1>1, <1>2, <1>5, <2>4, <2>5 DEF NoEarlySign, Pending, Known, Answered
    <2>9. PaidFor'
        BY <1>1, <1>2, <1>5, <2>4, <2>5 DEF PaidFor, Pending, Known
    <2> QED
        BY <2>7, <2>8, <2>9 DEF Honoured
<1> QED
    BY <1>4, <1>5 DEF DiluteSubmits

\* What a poll takes for applied is applied, and nothing is under way then: a
\* batch that is bought has no purchase to come, a topup that is not applied
\* shows no sign, and a dilution that is not is deeper than the batch.
LEMMA DoneMeansDone ==
    ASSUME OneBuyer, StampsInv, NEW c \in Caller, call[c].stage = "polls", NEW ttl \in Told(call[c].batch), Done(c, ttl)
    PROVE  /\ txs = {} /\ call[c] \in Calls /\ call[c].op # "none" /\ call[c].batch \in Batch
           /\ call[c].op = "buy" => batch[call[c].batch].status = "usable"
           /\ call[c].op = "topup" => call[c].tx \in applied /\ Known(call[c].batch)
           /\ call[c].op = "dilute" => Known(call[c].batch) /\ batch[call[c].batch].depth >= call[c].arg
<1> DEFINE b == call[c].batch
<1>1. StampTypeOK /\ InTurn /\ SentByCaller /\ Numbered /\ NoEarlySign
    BY DEF StampsInv, BooksOK, Honoured
<1>2. call[c] \in Calls /\ call[c].op # "none" /\ b \in Batch
    BY <1>1 DEF StampTypeOK, InTurn, Orderly, Idle
<1>3. ttl = Ttl(b) /\ Ttl(b) \in Nat /\ batch[b] \in Accounts
    BY <1>1, <1>2, ToldToOne, TimeLeft DEF StampTypeOK
<1>4. CASE call[c].op = "buy"
    <2>1. batch[b].status = "usable"
        BY <1>4 DEF Done
    <2>2. txs = {}
        BY <1>1, <1>4, <2>1 DEF SentByCaller, Unsold
    <2> QED
        BY <1>2, <1>4, <2>1, <2>2
<1>5. CASE call[c].op = "topup"
    <2>1. Known(b) /\ (batch[b].ledger > call[c].ledger \/ Ttl(b) > call[c].ttl)
        BY <1>3, <1>5 DEF Done
    <2>2. call[c].tx \in applied
        BY <1>1, <1>2, <1>3, <1>5, <2>1 DEF NoEarlySign, Pending, Accounts, Calls
    <2>3. txs = {}
        BY <1>1, <2>2 DEF SentByCaller, Numbered
    <2> QED
        BY <1>2, <1>5, <2>1, <2>2, <2>3
<1>6. CASE call[c].op = "dilute"
    <2>1. Known(b) /\ batch[b].depth >= call[c].arg
        BY <1>6 DEF Done
    <2>2. txs = {}
        BY <1>1, <1>2, <1>3, <1>6, <2>1 DEF SentByCaller, Accounts, Calls
    <2> QED
        BY <1>2, <1>6, <2>1, <2>2
<1> QED
    BY <1>2, <1>4, <1>5, <1>6 DEF Calls

LEMMA PollsKeeps ==
    ASSUME OneBuyer, StampsInv, NEW c \in Caller, Polls(c)
    PROVE  Honoured'
<1> DEFINE b == call[c].batch
           answer == [op |-> call[c].op, batch |-> b, arg |-> call[c].arg, tx |-> call[c].tx]
           promise == [batch |-> b, total |-> call[c].total, since |-> call[c].since]
<1>1. StampTypeOK /\ InTurn /\ SentByCaller /\ Numbered /\ NoEarlySign /\ Answered /\ PaidFor
    BY DEF StampsInv, BooksOK, Honoured
<1>2. PICK ttl \in Told(b) : Done(c, ttl)
    BY DEF Polls
<1>3. /\ call[c].stage = "polls"
      /\ call' = [call EXCEPT ![c] = Idle] /\ answered' = answered \union {answer}
      /\ promised' = IF call[c].op = "dilute" THEN promised ELSE promised \union {promise}
      /\ UNCHANGED <<price, block, batch, wallet, txs, sent, lost, applied, upload>>
    BY DEF Polls, Answers, chainVars
<1>4. /\ txs = {} /\ call[c] \in Calls /\ call[c].op # "none" /\ b \in Batch
      /\ call[c].op = "buy" => batch[b].status = "usable"
      /\ call[c].op = "topup" => call[c].tx \in applied /\ Known(b)
      /\ call[c].op = "dilute" => Known(b) /\ batch[b].depth >= call[c].arg
    BY <1>2, <1>3, DoneMeansDone
<1>5. call' = [d \in Caller |-> Idle]
    BY <1>1, <1>3, OneAlone DEF StampTypeOK
<1>6. Idle \in Calls /\ Idle.op = "none" /\ Idle.since = 0 /\ block \in Nat
    BY <1>1 DEF Idle, Calls, StampTypeOK
<1>7. answer \in [op : {"buy", "topup", "dilute"}, batch : Batch, arg : Nat, tx : Nat]
    BY <1>4 DEF Calls
<1>8. promise \in [batch : Batch, total : Nat, since : Nat]
    BY <1>4 DEF Calls
<1>9. SentByCaller' /\ Numbered'
    BY <1>1, <1>3, <1>4, <1>5, <1>6 DEF SentByCaller, Numbered
<1>10. NoEarlySign'
    BY <1>1, <1>3, <1>5, <1>6 DEF NoEarlySign, Pending, Known
<1>11. Answered'
    BY <1>1, <1>3, <1>4 DEF Answered, Known
<1>12. PaidFor'
    <2>1. Covers(batch[b].balance, call[c].total, call[c].since, price, block) \/ call[c].op = "dilute"
        <3>1. CASE call[c].op = "buy"
            BY <1>1, <1>4, <3>1 DEF PaidFor, Known
        <3>2. CASE call[c].op = "topup"
            <4>1. batch[b].balance + 0 = batch[b].balance
                BY <1>1, <1>4 DEF StampTypeOK, Accounts
            <4>2. ~Pending(c) /\ Known(b)
                BY <1>3, <1>4, <3>2 DEF Pending
            <4> QED
                BY <1>1, <3>2, <4>1, <4>2 DEF PaidFor
        <3> QED
            BY <1>4, <3>1, <3>2 DEF Calls
    <2>2. call[c].since <= block
        BY <1>1 DEF PaidFor
    <2> QED
        BY <1>1, <1>3, <1>5, <1>6, <2>1, <2>2 DEF PaidFor, Pending, Known
<1> QED
    BY <1>9, <1>10, <1>11, <1>12 DEF Honoured

\* Nobody gives up on a transaction that is under way.
LEMMA GivesUpKeeps ==
    ASSUME OneBuyer, StampsInv, NEW c \in Caller, GivesUp(c)
    PROVE  Honoured'
<1>1. txs = {}
    BY DEF GivesUp, OneBuyer, StampsInv, Honoured, SentByCaller
<1> QED
    BY <1>1, RaisesKeeps DEF GivesUp, chainVars

\* Under a price that moved, what was promised is forgotten.
LEMMA PriceMovesKeeps ==
    ASSUME OneBuyer, StampsInv, PriceMoves
    PROVE  Honoured'
<1>1. StampTypeOK /\ InTurn /\ SentByCaller /\ Numbered /\ NoEarlySign /\ Answered /\ PaidFor
    BY DEF StampsInv, BooksOK, Honoured
<1>2. /\ price' \in Prices /\ promised' = {} /\ upload' = [batch |-> NoBatch, at |-> 0]
      /\ call' = [c \in Caller |-> [call[c] EXCEPT !.total = 0]]
      /\ UNCHANGED <<block, batch, wallet, txs, sent, lost, applied, answered>>
      /\ \A c \in Caller : call[c].op # "topup"
    BY DEF PriceMoves, OneBuyer
<1>3. \A c \in Caller : /\ call'[c] \in Calls /\ call'[c].total = 0 /\ call'[c].op = call[c].op
                        /\ call'[c].stage = call[c].stage /\ call'[c].batch = call[c].batch
                        /\ call'[c].arg = call[c].arg /\ call'[c].tx = call[c].tx /\ call'[c].since = call[c].since
    <2> SUFFICES ASSUME NEW c \in Caller
                 PROVE  /\ call'[c] \in Calls /\ call'[c].total = 0 /\ call'[c].op = call[c].op
                        /\ call'[c].stage = call[c].stage /\ call'[c].batch = call[c].batch
                        /\ call'[c].arg = call[c].arg /\ call'[c].tx = call[c].tx /\ call'[c].since = call[c].since
        OBVIOUS
    <2>1. call[c] \in Calls /\ call'[c] = [call[c] EXCEPT !.total = 0]
        BY <1>1, <1>2 DEF StampTypeOK
    <2> QED
        BY <2>1 DEF Calls
<1>4. \A c \in Caller : call[c] = Idle => call'[c] = Idle
    <2> SUFFICES ASSUME NEW c \in Caller, call[c] = Idle
                 PROVE  call'[c] = Idle
        OBVIOUS
    <2>1. call'[c] = [Idle EXCEPT !.total = 0]
        BY <1>2
    <2> QED
        BY <2>1 DEF Idle
<1>5. SentByCaller' /\ Numbered'
    BY <1>1, <1>2, <1>3, <1>4 DEF SentByCaller, Numbered
<1>6. NoEarlySign' /\ Answered'
    BY <1>1, <1>2, <1>3 DEF NoEarlySign, Pending, Answered
<1>7. PaidFor'
    <2>1. \A c \in Caller : /\ call[c].since <= block /\ call[c].since \in Nat /\ call[c].arg \in Nat
                            /\ call[c].op = "buy" => call[c].batch \in Batch
        BY <1>1 DEF PaidFor, InTurn, Orderly, StampTypeOK, Calls
    <2>2. price' \in Nat /\ block \in Nat /\ \A b \in Batch : batch[b].balance \in Nat
        BY <1>1, <1>2, Constants DEF StampTypeOK, Accounts
    <2>3. \A x, s \in Nat : s <= block => Covers(x, 0, s, price', block)
        BY <2>2, CoversNothing
    <2> QED
        BY <1>1, <1>2, <1>3, <2>1, <2>2, <2>3 DEF PaidFor, Pending, Known
<1> QED
    BY <1>5, <1>6, <1>7 DEF Honoured

\* What a node does to a batch, short of its blocks and its transactions.
LEMMA NodeMovesKeeps ==
    ASSUME OneBuyer, StampsInv, NEW b \in Batch, NodeMoves(b)
    PROVE  Honoured'
<1>1. StampTypeOK /\ InTurn /\ SentByCaller /\ Numbered /\ NoEarlySign /\ Answered /\ PaidFor
    BY DEF StampsInv, BooksOK, Honoured
<1>2. UNCHANGED <<price, block, wallet, txs, sent, lost, applied, call, answered, promised, upload>>
    BY DEF NodeMoves, askVars
<1>3. batch[b] \in Accounts /\ batch[b].first <= batch[b].ledger /\ Known(b)
    BY <1>1, NodeTurns DEF StampsInv, NoEarlySign
<1>4. PICK r \in Accounts :
          /\ batch' = [batch EXCEPT ![b] = r]
          /\ r.status \in {"syncing", "usable"} /\ (batch[b].status = "usable" => r.status = "usable")
          /\ r.balance = batch[b].balance /\ r.depth = batch[b].depth /\ r.first = batch[b].first
          /\ r.ledger \in {batch[b].ledger, batch[b].first}
    BY NodeTurns DEF StampsInv
<1>5. r.first <= r.ledger /\ r.ledger <= batch[b].ledger
    BY <1>3, <1>4 DEF Accounts
<1>6. \A o \in Batch : /\ batch'[o] \in Accounts /\ batch'[o].balance = batch[o].balance
                       /\ batch'[o].depth = batch[o].depth
                       /\ batch'[o].first <= batch'[o].ledger /\ batch'[o].ledger <= batch[o].ledger
                       /\ batch[o].status = "usable" => batch'[o].status = "usable"
                       /\ batch[o].status = "unknown" => batch'[o] = batch[o]
                       /\ batch[o].status = "gone" => batch'[o].status = "gone"
                       /\ batch[o].status # "unknown" => batch'[o].status # "unknown"
                       /\ batch'[o].status \in {"syncing", "usable"} => Known(o)
    BY <1>1, <1>3, <1>4, <1>5 DEF StampTypeOK, Accounts, NoEarlySign, Known
<1>7. Numbered'
    BY <1>1, <1>2 DEF Numbered
<1>8. SentByCaller'
    BY <1>1, <1>2, <1>6 DEF SentByCaller, StampTypeOK, Transactions, Unsold
<1>9. Answered'
    BY <1>1, <1>2, <1>6 DEF Answered, StampTypeOK
<1>10. \A c \in Caller : call[c].op # "none" => call[c].batch \in Batch
    BY <1>1 DEF InTurn, Orderly
<1>11. NoEarlySign'
    BY <1>1, <1>2, <1>6, <1>10 DEF NoEarlySign, Pending, Known, Ttl, StampTypeOK, Accounts, Calls
<1>12. PaidFor'
    BY <1>1, <1>2, <1>6, <1>10 DEF PaidFor, Pending, Known, StampTypeOK
<1> QED
    BY <1>7, <1>8, <1>9, <1>11, <1>12 DEF Honoured

\* A block takes its price of every batch, and ends those it spends.
LEMMA BlockKeeps ==
    ASSUME OneBuyer, StampsInv, Block
    PROVE  Honoured'
<1>1. StampTypeOK /\ InTurn /\ SentByCaller /\ Numbered /\ NoEarlySign /\ Answered /\ PaidFor
    BY DEF StampsInv, BooksOK, Honoured
<1>2. /\ block' = block + 1 /\ batch' = [b \in Batch |-> Drained(b)]
      /\ UNCHANGED <<price, wallet, txs, sent, lost, applied, call, answered, promised, upload>>
    BY DEF Block, askVars
<1>3. price \in Nat \ {0} /\ block \in Nat /\ \A o \in Batch : batch[o] \in Accounts /\ batch[o].balance \in Nat
    BY <1>1, Constants DEF StampTypeOK, Accounts
<1>4. \A o \in Batch : /\ batch'[o] \in Accounts /\ batch'[o].balance \in Nat
                       /\ batch[o].balance - price <= batch'[o].balance /\ batch'[o].balance <= batch[o].balance
                       /\ batch'[o].depth = batch[o].depth /\ batch'[o].first = batch[o].first
                       /\ batch'[o].ledger = batch[o].ledger
                       /\ ~Known(o) => batch'[o] = batch[o]
                       /\ Known(o) => batch'[o].status \in {batch[o].status, "gone"}
    BY BlockDrains DEF StampsInv
<1>5. Numbered'
    BY <1>1, <1>2 DEF Numbered
<1>6. SentByCaller'
    BY <1>1, <1>2, <1>4 DEF SentByCaller, StampTypeOK, Transactions, Unsold, Known
<1>7. Answered'
    BY <1>1, <1>2, <1>4 DEF Answered, StampTypeOK, Known
<1>8. \A c \in Caller : /\ call[c].op # "none" => call[c].batch \in Batch
                        /\ call[c].arg \in Nat /\ call[c].total \in Nat /\ call[c].since \in Nat /\ call[c].ttl \in Int
    BY <1>1 DEF InTurn, Orderly, StampTypeOK, Calls
<1>9. NoEarlySign'
    <2>1. \A o \in Batch : Ttl(o)' <= Ttl(o) /\ Ttl(o)' \in Nat /\ Ttl(o) \in Nat
        <3> SUFFICES ASSUME NEW o \in Batch
                     PROVE  Ttl(o)' <= Ttl(o) /\ Ttl(o)' \in Nat /\ Ttl(o) \in Nat
            OBVIOUS
        <3> DEFINE x == batch[o].balance * BlockSecs
                   y == batch'[o].balance * BlockSecs
        <3>1. x \in Nat /\ y \in Nat /\ y <= x
            BY <1>3, <1>4, Constants
        <3>2. Ttl(o)' = y \div price /\ Ttl(o) = x \div price
            BY <1>2 DEF Ttl
        <3> HIDE DEF x, y
        <3>3. y \div price \in Nat /\ x \div price \in Nat /\ y \div price <= x \div price
            BY <1>3, <3>1
        <3> QED
            BY <3>2, <3>3
    <2>2. \A b \in Batch : batch'[b].first <= batch'[b].ledger
        BY <1>1, <1>4 DEF NoEarlySign
    <2>3. \A c \in Caller : (Pending(c) /\ call[c].stage # "plans" /\ Known(call[c].batch))' =>
              /\ batch'[call[c].batch].ledger <= call[c].ledger
              /\ Ttl(call[c].batch)' <= call[c].ttl
        BY <1>1, <1>2, <1>4, <1>8, <2>1 DEF NoEarlySign, Pending, Known
    <2> QED
        BY <1>2, <2>2, <2>3 DEF NoEarlySign, Ttl
<1>10. PaidFor'
    <2>1. \A o \in Batch : \A t, s \in Nat : Covers(batch[o].balance, t, s, price, block) =>
                                             Covers(batch'[o].balance, t, s, price, block + 1)
        BY <1>3, <1>4, CoversLater
    <2>2. \A p \in promised' : p.since <= block' /\ Covers(batch'[p.batch].balance, p.total, p.since, price', block')
        BY <1>1, <1>2, <1>3, <2>1 DEF PaidFor, StampTypeOK
    <2>3. \A c \in Caller : call[c].since <= block'
        BY <1>1, <1>2, <1>3, <1>8 DEF PaidFor
    <2>4. \A c \in Caller : call[c].op = "buy" =>
              /\ Covers(call[c].arg, call[c].total, call[c].since, price, block + 1)
              /\ Known(call[c].batch)' => Covers(batch'[call[c].batch].balance, call[c].total, call[c].since, price, block + 1)
        <3> SUFFICES ASSUME NEW c \in Caller, call[c].op = "buy"
                     PROVE  /\ Covers(call[c].arg, call[c].total, call[c].since, price, block + 1)
                            /\ Known(call[c].batch)' =>
                                  Covers(batch'[call[c].batch].balance, call[c].total, call[c].since, price, block + 1)
            OBVIOUS
        <3>1. Covers(call[c].arg, call[c].total, call[c].since, price, block)
            BY <1>1 DEF PaidFor
        <3>2. call[c].arg - price <= call[c].arg
            BY <1>3, <1>8
        <3>3. Covers(call[c].arg, call[c].total, call[c].since, price, block + 1)
            BY <1>3, <1>8, <3>1, <3>2, CoversLater
        <3>4. call[c].batch \in Batch
            BY <1>8
        <3>5. Known(call[c].batch)' => Known(call[c].batch)
            BY <1>2, <1>4, <3>4 DEF Known
        <3>6. Known(call[c].batch) => Covers(batch[call[c].batch].balance, call[c].total, call[c].since, price, block)
            BY <1>1 DEF PaidFor
        <3> QED
            BY <1>8, <2>1, <3>3, <3>4, <3>5, <3>6
    <2>5. \A c \in Caller : call[c].op = "topup" /\ Known(call[c].batch)' =>
              Covers(batch'[call[c].batch].balance + (IF Pending(c) THEN call[c].arg ELSE 0),
                     call[c].total, call[c].since, price, block + 1)
        <3> SUFFICES ASSUME NEW c \in Caller, call[c].op = "topup", Known(call[c].batch)'
                     PROVE  Covers(batch'[call[c].batch].balance + (IF Pending(c) THEN call[c].arg ELSE 0),
                                   call[c].total, call[c].since, price, block + 1)
            OBVIOUS
        <3> DEFINE more == IF Pending(c) THEN call[c].arg ELSE 0
                   x == batch[call[c].batch].balance + more
                   y == batch'[call[c].batch].balance + more
        <3>1. call[c].batch \in Batch /\ more \in Nat
            BY <1>8
        <3>2. Known(call[c].batch)
            BY <1>2, <1>4, <3>1 DEF Known
        <3>3. Covers(x, call[c].total, call[c].since, price, block)
            BY <1>1, <3>2 DEF PaidFor
        <3> HIDE DEF more
        <3>4. x \in Nat /\ y \in Nat /\ x - price <= y
            BY <1>3, <1>4, <3>1
        <3> HIDE DEF x, y
        <3>5. Covers(y, call[c].total, call[c].since, price, block + 1)
            BY <1>3, <1>8, <3>3, <3>4, CoversLater
        <3> QED
            BY <3>5 DEF y, more
    <2>6. \A c \in Caller : Pending(c)' = Pending(c)
        BY <1>2 DEF Pending
    <2> HIDE DEF Covers, Pending
    <2> QED
        BY <1>2, <2>2, <2>3, <2>4, <2>5, <2>6 DEF PaidFor
<1> QED
    BY <1>5, <1>6, <1>7, <1>9, <1>10 DEF Honoured

\* A transaction is applied once, and nothing else is under way.
LEMMA AppliesKeeps ==
    ASSUME OneBuyer, StampsInv, NEW tx \in txs, Applies(tx)
    PROVE  Honoured'
<1> DEFINE b == tx.batch
<1>1. StampTypeOK /\ InTurn /\ SentByCaller /\ Numbered /\ NoEarlySign /\ Answered /\ PaidFor
    BY DEF StampsInv, BooksOK, Honoured
<1>2. tx \in Transactions /\ b \in Batch /\ tx.arg \in Nat /\ tx.id \in Nat
    BY <1>1 DEF StampTypeOK, Transactions
<1>3. txs' = {} /\ UNCHANGED <<price, block, sent, call, answered>>
    BY <1>1 DEF Applies, SentByCaller
<1>4. price \in Nat /\ block \in Nat
    BY <1>1, Constants DEF StampTypeOK
<1>5. CASE ~Takes(tx)
    <2>1. lost' = lost \union {tx} /\ UNCHANGED <<batch, wallet, applied, promised, upload>>
        BY <1>5 DEF Applies
    <2>2. SentByCaller' /\ Numbered'
        BY <1>1, <1>3, <2>1 DEF SentByCaller, Numbered
    <2>3. NoEarlySign' /\ Answered'
        BY <1>1, <1>3, <2>1 DEF NoEarlySign, Pending, Known, Ttl, Answered
    <2>4. PaidFor'
        BY <1>1, <1>3, <2>1 DEF PaidFor, Pending, Known
    <2> QED
        BY <2>2, <2>3, <2>4 DEF Honoured
<1>6. CASE Takes(tx)
    <2>1. PICK r : r = After(tx)
        OBVIOUS
    <2>2. /\ batch' = [batch EXCEPT ![b] = r] /\ applied' = applied \union {tx.id} /\ lost' = lost
          /\ promised' = {p \in promised : tx.op = "dilute" => p.batch # b}
        BY <1>6, <2>1 DEF Applies
    <2>3. TakenAs(tx, r)
        BY <1>6, <2>1, TakenSo DEF StampsInv
    <2>4. /\ r \in Accounts /\ batch'[b] = r /\ batch[b] \in Accounts
          /\ \A o \in Batch : o # b => batch'[o] = batch[o]
        BY <1>1, <1>2, <2>2, <2>3 DEF TakenAs, StampTypeOK
    <2>5. \A c \in Caller : /\ call[c].stage = "polls" /\ call[c].tx = tx.id /\ call[c].op = tx.op
                            /\ call[c].batch = b /\ call[c].arg = tx.arg
        BY <1>1 DEF SentByCaller
    <2>6. SentByCaller' /\ Numbered'
        BY <1>1, <1>2, <1>3, <2>2 DEF SentByCaller, Numbered
    <2>7. NoEarlySign'
        <3>1. \A o \in Batch : batch'[o].first <= batch'[o].ledger
            <4>1. batch[b].first <= batch[b].ledger
                BY <1>1, <1>2 DEF NoEarlySign
            <4>2. r.first <= r.ledger
                BY <1>2, <2>3, <4>1 DEF TakenAs, Transactions, Accounts
            <4>3. \A o \in Batch : o # b => batch'[o].first <= batch'[o].ledger
                BY <1>1, <2>4 DEF NoEarlySign
            <4> QED
                BY <2>4, <4>2, <4>3
        <3>2. \A c \in Caller : ~Pending(c)'
            BY <1>3, <2>2, <2>5 DEF Pending
        <3> QED
            BY <3>1, <3>2 DEF NoEarlySign
    <2>8. Answered'
        <3>1. batch[b].status # "unknown" =>
                  batch'[b].status = batch[b].status /\ batch[b].depth <= batch'[b].depth
            BY <1>2, <2>3, <2>4 DEF TakenAs, Transactions, Accounts, Unsold
        <3>2. \A o \in Batch : batch[o].status # "unknown" =>
                  batch'[o].status = batch[o].status /\ batch[o].depth <= batch'[o].depth
            BY <1>1, <2>4, <3>1 DEF StampTypeOK, Accounts
        <3>3. \A o \in Batch : batch[o].depth \in Nat /\ batch'[o].depth \in Nat
            BY <1>1, <2>4 DEF StampTypeOK, Accounts
        <3>4. \A a \in answered : a.batch \in Batch /\ a.arg \in Nat
            BY <1>1 DEF StampTypeOK
        <3> QED
            BY <1>1, <1>3, <2>2, <3>2, <3>3, <3>4 DEF Answered
    <2>9. PaidFor'
        <3>1. tx.op # "dilute" => /\ batch[b].balance <= batch'[b].balance
                                  /\ batch[b].balance \in Nat /\ batch'[b].balance \in Nat
            BY <1>2, <2>3, <2>4 DEF TakenAs, Accounts, Unsold, Transactions
        <3>2. tx.op # "dilute" => \A t, s \in Nat : Covers(batch[b].balance, t, s, price, block) =>
                                                    Covers(batch'[b].balance, t, s, price, block)
            BY <1>4, <3>1, CoversMore
        <3>3. \A p \in promised' : p.since <= block /\ Covers(batch'[p.batch].balance, p.total, p.since, price, block)
            BY <1>1, <2>2, <2>4, <3>2 DEF PaidFor, StampTypeOK
        <3>4. \A c \in Caller : call[c].since <= block /\ call[c].total \in Nat /\ call[c].since \in Nat
            BY <1>1 DEF PaidFor, StampTypeOK, Calls
        <3>5. \A c \in Caller : call[c].op = "buy" =>
                  /\ Covers(call[c].arg, call[c].total, call[c].since, price, block)
                  /\ Covers(batch'[call[c].batch].balance, call[c].total, call[c].since, price, block)
            BY <1>1, <2>3, <2>4, <2>5 DEF PaidFor, TakenAs
        <3>6. \A c \in Caller : call[c].op = "topup" =>
                  Covers(batch'[call[c].batch].balance, call[c].total, call[c].since, price, block)
            <4> SUFFICES ASSUME NEW c \in Caller, call[c].op = "topup"
                         PROVE  Covers(batch'[b].balance, call[c].total, call[c].since, price, block)
                BY <2>5
            <4> DEFINE x == batch[b].balance + (IF Pending(c) THEN call[c].arg ELSE 0)
            <4>1. Covers(x, call[c].total, call[c].since, price, block)
                BY <1>1, <2>3, <2>5 DEF PaidFor, TakenAs
            <4>2. x \in Nat /\ x <= batch'[b].balance /\ batch'[b].balance \in Nat
                BY <1>2, <2>3, <2>4, <2>5 DEF TakenAs, Accounts
            <4> HIDE DEF x
            <4> QED
                BY <1>4, <3>4, <4>1, <4>2, CoversMore
        <3>7. \A c \in Caller : ~Pending(c)'
            BY <1>3, <2>2, <2>5 DEF Pending
        <3>8. \A c \in Caller : batch'[call[c].batch].balance + 0 = batch'[call[c].batch].balance
            BY <2>4, <2>5 DEF Accounts
        <3> QED
            BY <1>3, <3>3, <3>4, <3>5, <3>6, <3>7, <3>8 DEF PaidFor
    <2> QED
        BY <2>6, <2>7, <2>8, <2>9 DEF Honoured
<1> QED
    BY <1>5, <1>6

(***************************************************************************)
(* What a call reports, and what a plan promises.                          *)
(***************************************************************************)
LEMMA NextKeeps ==
    ASSUME OneBuyer, StampsInv, [Next]_vars
    PROVE  Honoured'
<1>1. CASE UNCHANGED vars \/ Resolves
    <2>1. UNCHANGED <<price, block, batch, wallet, txs, sent, lost, applied, call, answered, promised>>
        BY <1>1 DEF vars, Resolves, chainVars, askVars
    <2>2. SentByCaller /\ Numbered /\ NoEarlySign /\ Answered /\ PaidFor
        BY DEF StampsInv, Honoured
    <2>3. SentByCaller' /\ Numbered'
        BY <2>1, <2>2 DEF SentByCaller, Numbered
    <2>4. NoEarlySign' /\ Answered'
        BY <2>1, <2>2 DEF NoEarlySign, Pending, Known, Ttl, Answered
    <2>5. PaidFor'
        BY <2>1, <2>2 DEF PaidFor, Pending, Known
    <2> QED
        BY <2>3, <2>4, <2>5 DEF Honoured
<1>2. CASE \E tx \in txs : Applies(tx)
    BY <1>2, AppliesKeeps
<1>3. CASE Block \/ PriceMoves
    BY <1>3, BlockKeeps, PriceMovesKeeps
<1>4. CASE \E b \in Batch : NodeMoves(b)
    BY <1>4, NodeMovesKeeps
<1>5. CASE \E c \in Caller : CallerSteps(c)
    <2>1. PICK c \in Caller : CallerSteps(c)
        BY <1>5
    <2>2. CASE \E b \in Batch, secs \in Targets, depth \in Depths : Buys(c, b, secs, depth)
        BY <2>2, BuysKeeps
    <2>3. CASE \E b \in Batch : PlansTopup(c, b) \/ \E to \in Depths : DiluteReads(c, b, to)
        BY <2>3, PlansTopupKeeps, DiluteReadsKeeps
    <2>4. CASE TopupReads(c) \/ TopupChecks(c) \/ TopupSubmits(c) \/ DiluteSubmits(c)
        BY <2>4, TopupReadsKeeps, TopupChecksKeeps, TopupSubmitsKeeps, DiluteSubmitsKeeps
    <2>5. CASE Polls(c) \/ GivesUp(c)
        BY <2>5, PollsKeeps, GivesUpKeeps
    <2> QED
        BY <2>1, <2>2, <2>3, <2>4, <2>5 DEF CallerSteps
<1> QED
    BY <1>1, <1>2, <1>3, <1>4, <1>5 DEF Next

\* The inductive invariant of one who buys, for any number of batches, prices
\* and blocks (stamps.py 475-520 and 640-770).
THEOREM StampsInvariant ==
    ASSUME OneBuyer
    PROVE  Spec => []StampsInv
<1>1. Init => StampsInv
    BY BooksFrom, InitKeeps DEF StampsInv
<1>2. StampsInv /\ [Next]_vars => StampsInv'
    BY BooksKept, NextKeeps DEF StampsInv
<1> QED
    BY <1>1, <1>2, PTL DEF Spec

\* A purchase, a topup or a dilution that returned has been applied: the signs
\* its poller waits for cannot come early, a reloaded ledger included
\* (stamps.py 516-517, 666-667, 720-728 and 764-765).
THEOREM AnswersAreTrue ==
    ASSUME OneBuyer
    PROVE  Spec => []AnswersTrue
<1>1. StampsInv => AnswersTrue
    <2> SUFFICES ASSUME StampsInv, NEW a \in answered
                 PROVE  CASE a.op = "buy"    -> batch[a.batch].status \in {"usable", "gone"}
                          [] a.op = "topup"  -> a.tx \in applied
                          [] a.op = "dilute" -> batch[a.batch].depth >= a.arg
        BY DEF AnswersTrue
    <2>1. a.op \in {"buy", "topup", "dilute"}
        BY DEF StampsInv, BooksOK, StampTypeOK
    <2> QED
        BY <2>1 DEF StampsInv, Honoured, Answered
<1> QED
    BY <1>1, StampsInvariant, PTL

\* What is paid for in whole blocks lasts no less than what was asked for.
LEMMA PlansReachTheirs ==
    ASSUME BooksOK
    PROVE  PlansReach
<1>1. price \in Prices /\ price \in Nat \ {0}
    BY Constants DEF BooksOK, StampTypeOK
<1>2. ASSUME NEW x \in Nat
      PROVE  AmountToTtl(x) \in Nat /\ \A n \in Nat : n * price <= x * BlockSecs => n <= AmountToTtl(x)
    <2>1. x * BlockSecs \in Nat
        BY Constants
    <2> QED
        BY <1>1, <2>1, Quotients DEF AmountToTtl
<1>3. ASSUME NEW b \in Batch, NEW left \in Nat, NEW plan \in Extensions(b, left)
      PROVE  plan.to >= plan.asked
    <2>1. CASE \E secs \in Nat : plan = TopupPlan(left, TtlToAmount(secs), left + secs)
        <3>1. PICK secs \in Nat : plan = TopupPlan(left, TtlToAmount(secs), left + secs)
            BY <2>1
        <3>2. TtlToAmount(secs) \in Nat /\ secs * price <= TtlToAmount(secs) * BlockSecs
            BY <1>1, AmountCovers
        <3>3. AmountToTtl(TtlToAmount(secs)) \in Nat /\ secs <= AmountToTtl(TtlToAmount(secs))
            BY <1>2, <3>2
        <3>4. plan.to = left + AmountToTtl(TtlToAmount(secs)) /\ plan.asked = left + secs
            BY <3>1 DEF TopupPlan
        <3> QED
            BY <3>3, <3>4
    <2>2. CASE \E n \in Nat : plan = TopupPlan(left, n, left)
        <3>1. PICK n \in Nat : plan = TopupPlan(left, n, left)
            BY <2>2
        <3>2. plan.to = left + AmountToTtl(n) /\ plan.asked = left /\ AmountToTtl(n) \in Nat
            BY <1>2, <3>1 DEF TopupPlan
        <3> QED
            BY <3>2
    <2>3. \A n \in {budget \div 2^batch[b].depth : budget \in Budgets} : n \in Nat
        <3>1. batch[b].depth \in Nat
            BY DEF BooksOK, StampTypeOK, Accounts
        <3> QED
            BY <3>1, PowersArePositive, Quotients, Constants
    <2>4. \A secs \in Targets \union UNION {Missing(total, left) : total \in Targets} : secs \in Nat
        BY Constants DEF Missing
    <2> QED
        BY <2>1, <2>2, <2>3, <2>4 DEF Extensions
<1>4. ASSUME NEW b \in Batch, NEW ttl \in Told(b)
      PROVE  Max({ttl, 0}) \in Nat
    <2>1. PICK zero \in Int : zero = 0
        OBVIOUS
    <2>2. ttl \in Int /\ zero \in Int
        BY <2>1, ToldTyped
    <2>3. Max({ttl, zero}) \in {ttl, zero} /\ zero <= Max({ttl, zero})
        BY <2>2, MaxOfTwo
    <2> QED
        BY <2>1, <2>2, <2>3
<1> QED
    BY <1>3, <1>4 DEF PlansReach

\* A plan says no less than what was asked for, in whole blocks; and at a price
\* that stays what it was, what it said a batch would last is what it lasts
\* (stamps.py 304, 359-360 and 652-653).
THEOREM PlansAreKept ==
    ASSUME OneBuyer
    PROVE  Spec => []PlansKept
<1>1. StampsInv => PlansReach
    BY PlansReachTheirs DEF StampsInv
<1>2. StampsInv => PlansLast
    <2> SUFFICES ASSUME StampsInv, NEW p \in promised
                 PROVE  Ttl(p.batch) + BlockSecs * (block - p.since) >= p.total
        BY DEF PlansLast
    <2> DEFINE gone == (block - p.since) * BlockSecs
               rest == p.total - gone
    <2>1. /\ StampTypeOK /\ price \in Nat /\ block \in Nat
          /\ p.batch \in Batch /\ p.total \in Nat /\ p.since \in Nat
          /\ Covers(batch[p.batch].balance, p.total, p.since, price, block)
        BY Constants DEF StampsInv, BooksOK, Honoured, StampTypeOK, PaidFor
    <2>2. gone \in Int /\ rest \in Int /\ gone = BlockSecs * (block - p.since)
        BY <2>1, Constants
    <2>3. p.total * price <= batch[p.batch].balance * BlockSecs + gone * price
        BY <2>1 DEF Covers
    <2>4. rest * price <= batch[p.batch].balance * BlockSecs
        <3>1. gone * price \in Int /\ p.total * price \in Int /\ batch[p.batch].balance * BlockSecs \in Int
            BY <2>1, <2>2, Constants DEF StampTypeOK, Accounts
        <3> HIDE DEF gone
        <3>2. (p.total - gone) * price = p.total * price - gone * price
            BY <2>1, <2>2
        <3> QED
            BY <2>3, <3>1, <3>2
    <2> HIDE DEF gone
    <2>5. rest <= Ttl(p.batch) /\ Ttl(p.batch) \in Nat
        BY <2>1, <2>2, <2>4, TimeLeft
    <2> QED
        BY <2>1, <2>2, <2>5
<1>3. StampsInv => PlansKept
    BY <1>1, <1>2 DEF PlansKept
<1> QED
    BY <1>3, StampsInvariant, PTL

(***************************************************************************)
(* The wallet and the minimum, with a plan that pays for the price's moves. *)
(***************************************************************************)
\* A call that is over, or is no topup, asks nothing of the wallet.
LEMMA WalletUnasked ==
    ASSUME OneBuyer, WalletSuffices, NEW c \in Caller, call'[c].op # "topup",
           UNCHANGED <<batch, wallet, lost, applied>>,
           \A tx \in txs' : tx.op = "buy" =>
               Cost(tx.arg, tx.depth) <= wallet /\ \A p \in Prices : tx.arg > MinBlocks * p
    PROVE  WalletSuffices'
BY OneAlone DEF WalletSuffices, Pending

\* A purchase pays for the minimum at any price that may come.
LEMMA BuysAbove ==
    ASSUME OneBuyer, PaddingCovers, StampsInv, WalletSuffices, NEW c \in Caller, NEW b \in Batch,
           NEW secs \in Targets, NEW depth \in Depths, Buys(c, b, secs, depth)
    PROVE  WalletSuffices'
<1> DEFINE blocks == PlanBlocks(secs)
           tx == [id |-> sent + 1, op |-> "buy", batch |-> b, arg |-> blocks * price, depth |-> depth]
<1>1. StampTypeOK
    BY DEF StampsInv, BooksOK
<1>2. /\ txs' = txs \union {tx}
      /\ UNCHANGED <<price, block, batch, wallet, lost, applied>>
      /\ call' = [call EXCEPT ![c] = [Idle EXCEPT !.op = "buy", !.stage = "polls", !.batch = b, !.tx = sent + 1,
                                                  !.arg = blocks * price, !.total = blocks * BlockSecs, !.since = block]]
    BY DEF Buys, Asks, chainVars
<1>3. call'[c].op = "buy"
    BY <1>1, <1>2 DEF StampTypeOK, Idle
<1>4. blocks \in Nat /\ MinBlocks + PadBlocks <= blocks /\ MinBlocks \in Nat /\ PadBlocks \in Nat
    BY PlanCovers, Constants
<1> HIDE DEF blocks
<1>5. \A p \in Prices : blocks * price > MinBlocks * p
    <2> SUFFICES ASSUME NEW p \in Prices
                 PROVE  blocks * price > MinBlocks * p
        OBVIOUS
    <2>1. price \in Prices /\ price \in Nat /\ p \in Nat
        BY <1>1, Constants DEF StampTypeOK
    <2>2. MinBlocks * p < (MinBlocks + PadBlocks) * price
        BY <2>1 DEF PaddingCovers
    <2>3. (MinBlocks + PadBlocks) * price <= blocks * price
        BY <1>4, <2>1
    <2>4. MinBlocks * p \in Int /\ (MinBlocks + PadBlocks) * price \in Int /\ blocks * price \in Int
        BY <1>4, <2>1
    <2> QED
        BY <2>2, <2>3, <2>4
<1>6. Cost(tx.arg, tx.depth) <= wallet
    BY DEF Buys, Sells, Due, Cost, blocks
<1>7. \A ty \in txs' : ty.op = "buy" =>
          Cost(ty.arg, ty.depth) <= wallet /\ \A p \in Prices : ty.arg > MinBlocks * p
    BY <1>2, <1>5, <1>6 DEF WalletSuffices
<1> QED
    BY <1>2, <1>3, <1>7, WalletUnasked

\* What a topup read of its batch, and asked of the wallet.
LEMMA PlansTopupAsks ==
    ASSUME OneBuyer, StampsInv, WalletSuffices, NEW c \in Caller, NEW b \in Batch, PlansTopup(c, b)
    PROVE  WalletSuffices'
<1>1. Known(b) /\ UNCHANGED <<batch, wallet, txs, lost, applied>>
    BY DEF PlansTopup, chainVars
<1>2. PICK a, t : call' = [call EXCEPT ![c] = [Idle EXCEPT !.op = "topup", !.stage = "plans", !.batch = b, !.arg = a,
                                                           !.total = t, !.since = block]]
    BY DEF PlansTopup, Asks
<1>3. call'[c].op = "topup" /\ call'[c].stage = "plans" /\ call'[c].batch = b
    BY <1>2 DEF StampsInv, BooksOK, StampTypeOK, Idle
<1> QED
    BY <1>1, <1>3, OneAlone DEF WalletSuffices, Pending, Known

LEMMA TopupReadsAsks ==
    ASSUME OneBuyer, StampsInv, WalletSuffices, NEW c \in Caller, TopupReads(c)
    PROVE  WalletSuffices'
<1> DEFINE b == call[c].batch
<1>1. UNCHANGED <<batch, wallet, txs, lost, applied>> /\ call[c].stage = "plans"
    BY DEF TopupReads, chainVars
<1>2. call[c] \in Calls /\ call[c].op = "topup" /\ call \in [Caller -> Calls]
    BY <1>1, TopupsUnderWay DEF StampsInv, BooksOK, StampTypeOK
<1>3. CASE Known(b)
    <2>1. PICK ttl : call' = [call EXCEPT ![c].stage = "checks", ![c].ledger = batch[b].ledger,
                                          ![c].ttl = ttl, ![c].depth = batch[b].depth]
        BY <1>3 DEF TopupReads
    <2>2. PICK request : request = [call[c] EXCEPT !.stage = "checks", !.ledger = batch[b].ledger,
                                                   !.ttl = ttl, !.depth = batch[b].depth]
        OBVIOUS
    <2>3. call'[c] = request
        BY <1>2, <2>1, <2>2
    <2>4. request.op = "topup" /\ request.stage = "checks" /\ request.batch = b /\ request.depth = batch[b].depth
        BY <1>2, <2>2 DEF Calls
    <2> QED
        BY <1>1, <1>2, <2>3, <2>4, OneAlone DEF WalletSuffices, Pending, Known
<1>4. CASE ~Known(b)
    <2>1. call'[c] = Idle
        BY <1>2, <1>4 DEF TopupReads, Raises
    <2> QED
        BY <1>1, <2>1, WalletUnasked DEF WalletSuffices, Idle
<1> QED
    BY <1>3, <1>4

LEMMA TopupChecksAsks ==
    ASSUME OneBuyer, StampsInv, WalletSuffices, NEW c \in Caller, TopupChecks(c)
    PROVE  WalletSuffices'
<1>1. UNCHANGED <<batch, wallet, txs, lost, applied>> /\ call[c].stage = "checks"
    BY DEF TopupChecks, chainVars
<1>2. call[c] \in Calls /\ call[c].op = "topup" /\ call \in [Caller -> Calls] /\ wallet \in Int
    BY <1>1, TopupsUnderWay DEF StampsInv, BooksOK, StampTypeOK
<1>3. Cost(call[c].arg, call[c].depth) \in Int
    <2>1. call[c].arg \in Nat /\ call[c].depth \in Nat
        BY <1>2 DEF Calls
    <2>2. 2^call[c].depth \in Nat
        BY <2>1, PowersArePositive
    <2> QED
        BY <2>1, <2>2 DEF Cost
<1>4. CASE Cost(call[c].arg, call[c].depth) > wallet
    <2>1. call'[c] = Idle
        BY <1>2, <1>4 DEF TopupChecks, Raises
    <2> QED
        BY <1>1, <2>1, WalletUnasked DEF WalletSuffices, Idle
<1>5. CASE ~(Cost(call[c].arg, call[c].depth) > wallet)
    <2>1. call' = [call EXCEPT ![c].stage = "submits"]
        BY <1>5 DEF TopupChecks
    <2>2. PICK request : request = [call[c] EXCEPT !.stage = "submits"]
        OBVIOUS
    <2>3. call'[c] = request
        BY <1>2, <2>1, <2>2
    <2>4. request.op = "topup" /\ request.stage = "submits" /\ request.batch = call[c].batch
          /\ request.depth = call[c].depth /\ request.arg = call[c].arg
        BY <1>2, <2>2 DEF Calls
    <2>5. Cost(call[c].arg, call[c].depth) <= wallet
        BY <1>2, <1>3, <1>5
    <2> QED
        BY <1>1, <1>2, <2>3, <2>4, <2>5, OneAlone DEF WalletSuffices, Pending, Known
<1> QED
    BY <1>4, <1>5

LEMMA TopupSubmitsAsks ==
    ASSUME OneBuyer, StampsInv, WalletSuffices, NEW c \in Caller, TopupSubmits(c)
    PROVE  WalletSuffices'
<1>1. UNCHANGED <<batch, wallet, lost, applied>> /\ call[c].stage = "submits" /\ call[c].op = "topup"
    BY DEF TopupSubmits, chainVars
<1>2. call[c] \in Calls /\ call \in [Caller -> Calls]
    BY DEF StampsInv, BooksOK, StampTypeOK
<1>3. CASE Known(call[c].batch)
    <2>1. call' = [call EXCEPT ![c].stage = "polls", ![c].tx = sent + 1]
        BY <1>3 DEF TopupSubmits, Sends
    <2>2. \A tx \in txs' : tx \in txs \/ tx.op = "topup"
        BY <1>3 DEF TopupSubmits, Sends
    <2>3. PICK request : request = [call[c] EXCEPT !.stage = "polls", !.tx = sent + 1]
        OBVIOUS
    <2>4. call'[c] = request
        BY <1>2, <2>1, <2>3
    <2>5. request.op = "topup" /\ request.stage = "polls" /\ request.batch = call[c].batch
          /\ request.depth = call[c].depth /\ request.arg = call[c].arg
        BY <1>1, <1>2, <2>3 DEF Calls
    <2> QED
        BY <1>1, <2>2, <2>4, <2>5, OneAlone DEF WalletSuffices, Pending, Known
<1>4. CASE ~Known(call[c].batch)
    <2>1. call'[c] = Idle /\ txs' = txs
        BY <1>2, <1>4 DEF TopupSubmits, Raises
    <2> QED
        BY <1>1, <2>1, WalletUnasked DEF WalletSuffices, Idle
<1> QED
    BY <1>3, <1>4

LEMMA DiluteAsksNothing ==
    ASSUME OneBuyer, StampsInv, WalletSuffices, NEW c \in Caller,
           DiluteSubmits(c) \/ \E b \in Batch, to \in Depths : DiluteReads(c, b, to)
    PROVE  WalletSuffices'
<1>1. call \in [Caller -> Calls]
    BY DEF StampsInv, BooksOK, StampTypeOK
<1>2. UNCHANGED <<batch, wallet, lost, applied>>
    BY DEF DiluteSubmits, DiluteReads, chainVars
<1>3. \A tx \in txs' : tx \in txs \/ tx.op = "dilute"
    <2>1. CASE \E b \in Batch, to \in Depths : DiluteReads(c, b, to)
        BY <2>1 DEF DiluteReads
    <2>2. CASE DiluteSubmits(c)
        <3>1. txs' = txs \/ \E n, b, a : txs' = txs \union {[id |-> n, op |-> "dilute", batch |-> b, arg |-> a, depth |-> 0]}
            BY <2>2 DEF DiluteSubmits, Sends
        <3> QED
            BY <3>1
    <2> QED
        BY <2>1, <2>2
<1>4. call'[c].op # "topup"
    <2>1. CASE \E b \in Batch, to \in Depths : DiluteReads(c, b, to)
        BY <1>1, <2>1 DEF DiluteReads, Asks, Idle
    <2>2. CASE DiluteSubmits(c)
        <3>1. call[c].op = "dilute" /\ call[c] \in Calls
            BY <1>1, <2>2 DEF DiluteSubmits
        <3>2. CASE call' = [call EXCEPT ![c] = Idle]
            BY <1>1, <3>2 DEF Idle
        <3>3. CASE call' = [call EXCEPT ![c].stage = "polls", ![c].tx = sent + 1]
            BY <1>1, <3>1, <3>3 DEF Calls
        <3> QED
            BY <2>2, <3>2, <3>3 DEF DiluteSubmits, Sends, Raises
    <2> QED
        BY <2>1, <2>2
<1> QED
    BY <1>2, <1>3, <1>4, WalletUnasked DEF WalletSuffices

\* What happens to the batches alone changes no depth and brings none back.
LEMMA WalletBeside ==
    ASSUME StampsInv, WalletSuffices, UNCHANGED <<wallet, txs, lost, applied, call>>,
           \A o \in Batch : /\ batch'[o].depth = batch[o].depth
                            /\ batch[o].status # "unknown" => batch'[o].status # "unknown"
                            /\ batch[o].status = "gone" => batch'[o].status = "gone"
                            /\ batch'[o].status \in {"syncing", "usable"} => Known(o)
    PROVE  WalletSuffices'
<1>1. \A tx \in lost : tx.batch \in Batch
    BY DEF StampsInv, BooksOK, StampTypeOK, Transactions
<1>2. \A c \in Caller : call[c].op = "topup" => call[c].batch \in Batch
    BY DEF StampsInv, BooksOK, InTurn, Orderly
<1> QED
    BY <1>1, <1>2 DEF WalletSuffices, Pending, Known

LEMMA ChainAsksNothing ==
    ASSUME StampsInv, WalletSuffices, Block \/ \E b \in Batch : NodeMoves(b)
    PROVE  WalletSuffices'
<1>1. batch \in [Batch -> Accounts] /\ BooksOK
    BY DEF StampsInv, BooksOK, StampTypeOK
<1>2. UNCHANGED <<wallet, txs, lost, applied, call>>
    BY DEF Block, NodeMoves, askVars
<1>3. \A o \in Batch : /\ batch'[o].depth = batch[o].depth
                       /\ batch[o].status # "unknown" => batch'[o].status # "unknown"
                       /\ batch[o].status = "gone" => batch'[o].status = "gone"
                       /\ batch'[o].status \in {"syncing", "usable"} => Known(o)
    <2>1. CASE Block
        BY <1>1, <2>1, BlockDrains DEF Known
    <2>2. CASE \E b \in Batch : NodeMoves(b)
        <3>1. PICK b \in Batch : NodeMoves(b)
            BY <2>2
        <3>2. Known(b)
            BY <1>1, <3>1, NodeTurns
        <3>3. PICK r \in Accounts : /\ batch' = [batch EXCEPT ![b] = r]
                                    /\ r.depth = batch[b].depth /\ r.status \in {"syncing", "usable"}
            BY <1>1, <3>1, NodeTurns
        <3> QED
            BY <1>1, <3>2, <3>3 DEF Known
    <2> QED
        BY <2>1, <2>2
<1> QED
    BY <1>2, <1>3, WalletBeside

\* The chain takes what was planned: the purchase is above the minimum, and the
\* wallet that was asked pays; a batch that is gone is the one refusal.
LEMMA AppliesTakes ==
    ASSUME OneBuyer, StampsInv, WalletSuffices, NEW tx \in txs, Applies(tx)
    PROVE  WalletSuffices'
<1> DEFINE b == tx.batch
<1>1. StampTypeOK /\ SentByCaller /\ Numbered
    BY DEF StampsInv, BooksOK, Honoured
<1>2. tx \in Transactions /\ b \in Batch /\ batch[b] \in Accounts
    BY <1>1 DEF StampTypeOK, Transactions
<1>3. /\ txs' = {} /\ call' = call /\ Caller # {}
      /\ \A c \in Caller : /\ call[c].stage = "polls" /\ call[c].tx = tx.id /\ call[c].op = tx.op
                           /\ call[c].batch = b /\ call[c].arg = tx.arg
    BY <1>1 DEF Applies, SentByCaller
<1>4. PICK c \in Caller : TRUE
    BY <1>3
<1>5. tx.id \notin applied
    BY <1>1 DEF Numbered
<1>6. CASE ~Takes(tx)
    <2>1. lost' = lost \union {tx} /\ UNCHANGED <<batch, wallet, applied>>
        BY <1>6 DEF Applies
    <2>2. tx.op # "buy"
        <3>1. price \in Prices
            BY <1>1 DEF StampTypeOK
        <3> QED
            BY <1>6, <3>1 DEF WalletSuffices, Takes, Due, Cost
    <2>3. tx.op = "topup" => batch[b].status = "gone"
        <3> SUFFICES ASSUME tx.op = "topup"
                     PROVE  batch[b].status = "gone"
            OBVIOUS
        <3>1. ~Known(b) \/ ~(Due(tx) <= wallet)
            BY <1>6 DEF Takes
        <3>2. Pending(c) /\ call[c].stage # "plans"
            BY <1>3, <1>5 DEF Pending
        <3>3. Known(b) => batch[b].depth = call[c].depth /\ Cost(call[c].arg, call[c].depth) <= wallet
            BY <1>3, <3>2 DEF WalletSuffices
        <3>4. Due(tx) = Cost(tx.arg, batch[b].depth)
            BY DEF Due, Cost
        <3>5. Known(b) => Due(tx) <= wallet
            BY <1>3, <3>3, <3>4
        <3>6. batch[b].status # "unknown"
            BY <1>3 DEF WalletSuffices
        <3> QED
            BY <1>2, <3>1, <3>5, <3>6 DEF Known, Accounts
    <2> QED
        BY <1>3, <2>1, <2>2, <2>3 DEF WalletSuffices, Pending, Known
<1>7. CASE Takes(tx)
    <2>1. PICK r : r = After(tx)
        OBVIOUS
    <2>2. batch' = [batch EXCEPT ![b] = r] /\ applied' = applied \union {tx.id} /\ lost' = lost
        BY <1>7, <2>1 DEF Applies
    <2>3. TakenAs(tx, r)
        BY <1>7, <2>1, TakenSo DEF StampsInv
    <2>4. r.status # "unknown" /\ batch[b].status # "gone"
        BY <1>2, <2>3 DEF TakenAs, Known, Transactions, Unsold
    <2>5. \A o \in Batch : /\ batch[o].status = "gone" => batch'[o].status = "gone"
                           /\ batch[o].status # "unknown" => batch'[o].status # "unknown"
        BY <1>1, <2>2, <2>4 DEF StampTypeOK
    <2>6. \A ty \in lost : ty.batch \in Batch
        BY <1>1 DEF StampTypeOK, Transactions
    <2>7. \A d \in Caller : ~Pending(d)'
        BY <1>3, <2>2 DEF Pending
    <2> QED
        BY <1>2, <1>3, <2>2, <2>5, <2>6, <2>7 DEF WalletSuffices
<1> QED
    BY <1>6, <1>7

LEMMA NextAsks ==
    ASSUME OneBuyer, PaddingCovers, StampsInv, WalletSuffices, [Next]_vars
    PROVE  WalletSuffices'
<1>1. CASE UNCHANGED vars \/ Resolves
    BY <1>1 DEF vars, Resolves, chainVars, askVars, WalletSuffices, Pending, Known
<1>2. CASE \E tx \in txs : Applies(tx)
    BY <1>2, AppliesTakes
<1>3. CASE Block \/ \E b \in Batch : NodeMoves(b)
    BY <1>3, ChainAsksNothing
<1>4. CASE PriceMoves
    <2>1. \A c \in Caller : call'[c].op # "topup"
        <3> SUFFICES ASSUME NEW c \in Caller
                     PROVE  call'[c].op # "topup"
            OBVIOUS
        <3>1. call'[c] = [call[c] EXCEPT !.total = 0] /\ call[c].op # "topup" /\ call[c] \in Calls
            BY <1>4 DEF PriceMoves, OneBuyer, StampsInv, BooksOK, StampTypeOK
        <3> QED
            BY <3>1 DEF Calls
    <2>2. UNCHANGED <<batch, wallet, txs, lost, applied>>
        BY <1>4 DEF PriceMoves
    <2> QED
        BY <2>1, <2>2 DEF WalletSuffices, Pending
<1>5. CASE \E c \in Caller : CallerSteps(c)
    <2>1. PICK c \in Caller : CallerSteps(c)
        BY <1>5
    <2>2. CASE \E b \in Batch, secs \in Targets, depth \in Depths : Buys(c, b, secs, depth)
        BY <2>2, BuysAbove
    <2>3. CASE \E b \in Batch : PlansTopup(c, b) \/ \E to \in Depths : DiluteReads(c, b, to)
        BY <2>3, PlansTopupAsks, DiluteAsksNothing
    <2>4. CASE TopupReads(c) \/ TopupChecks(c) \/ TopupSubmits(c) \/ DiluteSubmits(c)
        BY <2>4, TopupReadsAsks, TopupChecksAsks, TopupSubmitsAsks, DiluteAsksNothing
    <2>5. CASE Polls(c) \/ GivesUp(c)
        <3>1. call'[c] = Idle /\ UNCHANGED <<batch, wallet, txs, lost, applied>>
            BY <2>5 DEF Polls, GivesUp, Answers, Raises, chainVars, StampsInv, BooksOK, StampTypeOK
        <3> QED
            BY <3>1, WalletUnasked DEF WalletSuffices, Idle
    <2> QED
        BY <2>1, <2>2, <2>3, <2>4, <2>5 DEF CallerSteps
<1> QED
    BY <1>1, <1>2, <1>3, <1>4, <1>5 DEF Next

\* A plan that one buyer carries out is taken by the chain, when the padding is
\* worth the price's moves; only a batch that is gone refuses its topup
\* (stamps.py 488-491 and 670-672).
THEOREM PlansAreTaken ==
    ASSUME OneBuyer, PaddingCovers
    PROVE  Spec => []NothingRefused
<1>1. Init => WalletSuffices
    BY DEF Init, WalletSuffices, Pending, Idle
<1>2. StampsInv /\ WalletSuffices /\ [Next]_vars => WalletSuffices'
    BY NextAsks
<1>3. StampsInv /\ WalletSuffices => NothingRefused
    BY DEF WalletSuffices, NothingRefused, Known
<1> QED
    BY <1>1, <1>2, <1>3, StampsInvariant, PTL DEF Spec

(***************************************************************************)
(* The depth of a batch.                                                   *)
(***************************************************************************)
\* What the node sells is at least as deep as its least depth, and a dilution
\* only makes it deeper.
DepthsOK ==
    /\ \A b \in Batch : Known(b) => batch[b].depth >= MinDepth
    /\ \A tx \in txs : tx.op = "buy" => tx.depth >= MinDepth

LEMMA DepthsApplied ==
    ASSUME BooksOK, DepthsOK, NEW tx \in txs, Applies(tx)
    PROVE  DepthsOK'
<1>1. /\ StampTypeOK /\ tx \in Transactions /\ tx.batch \in Batch /\ batch \in [Batch -> Accounts]
      /\ MinDepth \in Nat /\ txs' = txs \ {tx}
    BY ChainAssumption DEF BooksOK, StampTypeOK, Transactions, Applies
<1>2. CASE ~Takes(tx)
    <2>1. UNCHANGED batch
        BY <1>2 DEF Applies
    <2> QED
        BY <1>1, <2>1 DEF DepthsOK, Known
<1>3. CASE Takes(tx)
    <2>1. PICK r : r = After(tx)
        OBVIOUS
    <2>2. batch' = [batch EXCEPT ![tx.batch] = r]
        BY <1>3, <2>1 DEF Applies
    <2>3. TakenAs(tx, r)
        BY <1>3, <2>1, TakenSo
    <2>4. r.depth >= MinDepth
        <3>1. CASE tx.op = "buy"
            <4>1. r.depth = tx.depth
                BY <2>1, <3>1 DEF After
            <4> QED
                BY <3>1, <4>1 DEF DepthsOK
        <3>2. CASE tx.op = "topup"
            BY <1>1, <2>3, <3>2 DEF DepthsOK, TakenAs
        <3>3. CASE tx.op = "dilute"
            <4>1. r.depth = tx.arg /\ batch[tx.batch].depth < tx.arg /\ batch[tx.batch].depth >= MinDepth
                BY <1>1, <2>3, <3>3 DEF DepthsOK, TakenAs
            <4>2. tx.arg \in Nat /\ batch[tx.batch].depth \in Nat
                BY <1>1 DEF Transactions, Accounts
            <4> QED
                BY <1>1, <4>1, <4>2
        <3> QED
            BY <1>1, <3>1, <3>2, <3>3 DEF Transactions
    <2>5. \A b \in Batch : batch'[b] = IF b = tx.batch THEN r ELSE batch[b]
        BY <1>1, <2>2
    <2>6. \A b \in Batch : Known(b)' => batch'[b].depth >= MinDepth
        BY <2>4, <2>5 DEF DepthsOK, Known
    <2> QED
        BY <1>1, <2>6 DEF DepthsOK
<1> QED
    BY <1>2, <1>3

LEMMA DepthsCalled ==
    ASSUME BooksOK, DepthsOK, NEW c \in Caller, CallerSteps(c)
    PROVE  DepthsOK'
<1>1. SUFFICES batch' = batch /\ \A tx \in txs' : tx \in txs \/ (tx.op = "buy" => tx.depth >= MinDepth)
    BY DEF DepthsOK, Known
<1>2. CASE \E b \in Batch, secs \in Targets, depth \in Depths : Buys(c, b, secs, depth)
    BY <1>2 DEF Buys, Sells, chainVars
<1>3. CASE \E b \in Batch : PlansTopup(c, b) \/ \E to \in Depths : DiluteReads(c, b, to)
    BY <1>3 DEF PlansTopup, DiluteReads, chainVars
<1>4. CASE TopupReads(c) \/ TopupChecks(c)
    BY <1>4 DEF TopupReads, TopupChecks, chainVars
<1>5. CASE TopupSubmits(c)
    BY <1>5 DEF TopupSubmits, Sends, chainVars
<1>6. CASE DiluteSubmits(c)
    BY <1>6 DEF DiluteSubmits, Sends, chainVars
<1>7. CASE Polls(c) \/ GivesUp(c)
    BY <1>7 DEF Polls, GivesUp, chainVars
<1> QED
    BY <1>2, <1>3, <1>4, <1>5, <1>6, <1>7 DEF CallerSteps

LEMMA DepthsKept ==
    ASSUME BooksOK, DepthsOK, [Next]_vars
    PROVE  DepthsOK'
<1>1. CASE UNCHANGED vars
    BY <1>1 DEF vars, DepthsOK, Known
<1>2. CASE \E tx \in txs : Applies(tx)
    BY <1>2, DepthsApplied
<1>3. CASE Block
    <2>1. UNCHANGED txs
        BY <1>3 DEF Block
    <2>2. \A b \in Batch : batch'[b].depth = batch[b].depth /\ (Known(b)' => Known(b))
        BY <1>3, BlockDrains DEF Known
    <2> QED
        BY <2>1, <2>2 DEF DepthsOK
<1>4. CASE PriceMoves \/ Resolves
    BY <1>4 DEF PriceMoves, Resolves, chainVars, DepthsOK, Known
<1>5. CASE \E b \in Batch : NodeMoves(b)
    <2>1. PICK b \in Batch : NodeMoves(b)
        BY <1>5
    <2>2. PICK r \in Accounts : batch' = [batch EXCEPT ![b] = r] /\ r.depth = batch[b].depth
        BY <2>1, NodeTurns
    <2>3. Known(b) /\ UNCHANGED txs /\ batch \in [Batch -> Accounts]
        BY <2>1, NodeTurns DEF NodeMoves, BooksOK, StampTypeOK
    <2>4. \A o \in Batch : batch'[o].depth = batch[o].depth /\ (Known(o)' => Known(o))
        BY <2>2, <2>3 DEF Known
    <2> QED
        BY <2>3, <2>4 DEF DepthsOK
<1>6. CASE \E c \in Caller : CallerSteps(c)
    BY <1>6, DepthsCalled
<1> QED
    BY <1>1, <1>2, <1>3, <1>4, <1>5, <1>6 DEF Next

\* No batch that the node knows is shallower than the node sells one (stamps.py
\* 49-56), whoever dilutes it.
LEMMA DepthsSuffice == Spec => []DepthsOK
<1>1. Init => DepthsOK
    BY DEF Init, DepthsOK, Known, Unsold
<1> QED
    BY <1>1, BooksFrom, BooksKept, DepthsKept, PTL DEF Spec

\* There are as many sets of n things as 2^n, and more of more things.
LEMMA Powers ==
    ASSUME NEW n \in Nat
    PROVE  2^n \in Nat /\ n <= 2^n /\ \A m \in Nat : m <= n => 2^m <= 2^n
<1>1. ASSUME NEW m \in Nat
      PROVE  /\ IsFiniteSet(1..m) /\ Cardinality(1..m) = m
             /\ IsFiniteSet(SUBSET (1..m)) /\ Cardinality(SUBSET (1..m)) = 2^m
    <2>1. IsFiniteSet(1..m) /\ Cardinality(1..m) = m
        <3>1. IsFiniteSet(1..m) /\ Cardinality(1..m) = IF 1 > m THEN 0 ELSE m - 1 + 1
            BY FS_Interval
        <3> QED
            BY <3>1
    <2> QED
        BY <2>1, FS_SUBSET
<1>2. ASSUME NEW m \in Nat, m <= n PROVE 2^m <= 2^n
    <2>1. 1..m \subseteq 1..n
        BY <1>2
    <2>2. SUBSET (1..m) \subseteq SUBSET (1..n)
        BY <2>1
    <2>3. Cardinality(SUBSET (1..m)) <= Cardinality(SUBSET (1..n))
        BY <1>1, <2>2, FS_Subset
    <2> QED
        BY <1>1, <2>3
<1>3. n <= 2^n
    <2> DEFINE A == 1..n
               B == SUBSET A
               f == [x \in A |-> {x}]
    <2>1. f \in [A -> B]
        OBVIOUS
    <2>2. \A x, y \in A : f[x] = f[y] => x = y
        OBVIOUS
    <2>3. f \in Injection(A, B)
        <3> HIDE DEF f, A, B
        <3> QED
            BY <2>1, <2>2 DEF Injection, IsInjective
    <2>4. IsFiniteSet(B) /\ Cardinality(B) = 2^n /\ Cardinality(A) = n
        BY <1>1
    <2> HIDE DEF f, A, B
    <2>5. Cardinality(A) <= Cardinality(B)
        BY <2>3, <2>4, FS_Injection
    <2> QED
        BY <2>4, <2>5
<1> QED
    BY <1>2, <1>3, PowersArePositive

\* The first depth, from the least one on, at which the fullest bucket fits.
LEMMA DepthFound ==
    ASSUME NEW most \in Nat
    PROVE  LET Deeper[depth \in Nat] == IF Fits(most, depth) THEN depth ELSE Deeper[depth + 1]
           IN  \A depth \in Nat : depth >= MinDepth => (Deeper[MinDepth] <= depth <=> Fits(most, depth))
<1> DEFINE Step(g, x) == IF Fits(most, x) THEN x ELSE g[x + 1]
           Deeper == CHOOSE f : f = [x \in Nat |-> Step(f, x)]
           H == [g \in [Nat -> Nat] |-> [x \in Nat |-> Step(g, x)]]
           top == most + BucketDepth
           size == [x \in Nat |-> IF x >= top THEN 0 ELSE top - x]
<1>1. BucketDepth \in Nat /\ MinDepth \in Nat /\ MinDepth >= BucketDepth /\ top \in Nat
    BY ChainAssumption
<1>2. ASSUME NEW x \in Nat, x >= top PROVE Fits(most, x)
    <2>1. x - BucketDepth \in Nat /\ most <= x - BucketDepth
        BY <1>1, <1>2
    <2>2. x - BucketDepth <= 2^(x - BucketDepth) /\ 2^(x - BucketDepth) \in Nat
        BY <2>1, Powers
    <2> QED
        BY <2>1, <2>2 DEF Fits
<1>3. ASSUME NEW x \in Nat, NEW y \in Nat, x >= BucketDepth, x <= y, Fits(most, x) PROVE Fits(most, y)
    <2>1. x - BucketDepth \in Nat /\ y - BucketDepth \in Nat /\ x - BucketDepth <= y - BucketDepth
        BY <1>1, <1>3
    <2>2. 2^(x - BucketDepth) <= 2^(y - BucketDepth) /\ 2^(y - BucketDepth) \in Nat /\ 2^(x - BucketDepth) \in Nat
        BY <2>1, Powers
    <2> QED
        BY <1>3, <2>2 DEF Fits
<1>4. size \in [Nat -> Nat]
    BY <1>1
<1>5. ASSUME NEW x \in Nat, ~Fits(most, x) PROVE size[x + 1] < size[x]
    <2>1. x < top
        BY <1>1, <1>2, <1>5
    <2> QED
        BY <1>1, <2>1
<1>6. H \in [[Nat -> Nat] -> [Nat -> Nat]]
    OBVIOUS
<1>7. ASSUME NEW g \in [Nat -> Nat], NEW h \in [Nat -> Nat], NEW x \in Nat,
             \A y \in Nat : size[y] < size[x] => g[y] = h[y]
      PROVE  H[g][x] = H[h][x]
    <2> HIDE DEF size
    <2>1. ~Fits(most, x) => g[x + 1] = h[x + 1]
        BY <1>5, <1>7
    <2> QED
        BY <2>1
<1>8. \E f \in [Nat -> Nat] : f = H[f]
    <2> HIDE DEF H, size
    <2>1. Descends(H, Nat, Nat, size)
        BY <1>4, <1>6, <1>7 DEF Descends
    <2> QED
        BY <2>1, RecursionDefines
<1>9. PICK f \in [Nat -> Nat] : f = [x \in Nat |-> Step(f, x)]
    BY <1>8
<1> HIDE DEF Step
<1>10. Deeper = [x \in Nat |-> Step(Deeper, x)]
    BY <1>9
<1>11. \A x \in Nat : Deeper[x] = Step(Deeper, x)
    <2> HIDE DEF Deeper
    <2> QED
        BY <1>10
<1> DEFINE Right(x) == /\ Deeper[x] \in Nat /\ Deeper[x] >= x
                       /\ \A depth \in Nat : depth >= x => (Deeper[x] <= depth <=> Fits(most, depth))
<1> HIDE DEF Deeper, top
<1>12. ASSUME NEW x \in Nat, x >= BucketDepth, Fits(most, x) PROVE Right(x)
    <2>1. Deeper[x] = x
        BY <1>11, <1>12 DEF Step
    <2> QED
        BY <1>3, <1>12, <2>1
<1>13. ASSUME NEW x \in Nat, x >= BucketDepth, ~Fits(most, x), Right(x + 1) PROVE Right(x)
    <2>1. Deeper[x] = Deeper[x + 1] /\ Deeper[x + 1] \in Nat /\ Deeper[x + 1] >= x + 1
        BY <1>11, <1>13 DEF Step
    <2>2. ASSUME NEW depth \in Nat, depth >= x PROVE Deeper[x] <= depth <=> Fits(most, depth)
        <3>1. CASE depth = x
            BY <1>13, <2>1, <3>1
        <3>2. CASE depth >= x + 1
            BY <1>13, <2>1, <3>2
        <3> QED
            BY <2>2, <3>1, <3>2
    <2> QED
        BY <2>1, <2>2
<1> DEFINE Good == {n \in Nat : \A x \in Nat : x >= BucketDepth /\ top - x <= n => Right(x)}
<1> HIDE DEF Right
<1>14. 0 \in Good
    <2>1. ASSUME NEW x \in Nat, x >= BucketDepth, top - x <= 0 PROVE Right(x)
        BY <1>1, <1>2, <1>12, <2>1
    <2> QED
        BY <2>1
<1>15. ASSUME NEW n \in Good PROVE n + 1 \in Good
    <2>1. ASSUME NEW x \in Nat, x >= BucketDepth, top - x <= n + 1 PROVE Right(x)
        <3>1. CASE Fits(most, x)
            BY <1>12, <2>1, <3>1
        <3>2. CASE ~Fits(most, x)
            <4>1. x + 1 \in Nat /\ x + 1 >= BucketDepth /\ top - (x + 1) <= n
                BY <1>1, <2>1
            <4>2. Right(x + 1)
                BY <4>1
            <4> QED
                BY <1>13, <2>1, <3>2, <4>2
        <3> QED
            BY <3>1, <3>2
    <2> QED
        BY <2>1
<1>16. Good = Nat
    <2>1. Good \in SUBSET Nat
        OBVIOUS
    <2> HIDE DEF Good
    <2> QED
        BY <1>14, <1>15, <2>1, SetInduction
<1>17. Right(MinDepth)
    <2>1. top \in Good /\ top - MinDepth <= top
        <3> HIDE DEF Good
        <3> QED
            BY <1>1, <1>16
    <2> QED
        BY <1>1, <2>1
<1> QED
    BY <1>17 DEF Right, Deeper, Step
================================================================================
