-------------------------------- MODULE Stamps --------------------------------
(***************************************************************************)
(* swarmfs/stamps.py: StampManager.  It chooses the postage batch of an    *)
(* upload, and buys, tops up and dilutes batches.  Money moves with a      *)
(* transaction that the node answers for at once and applies later; until  *)
(* then every read shows the old state.                                    *)
(*                                                                         *)
(* A batch has a balance per chunk that drains by the price at every       *)
(* block, and is dropped when it is spent.  The chain, the node's wallet   *)
(* and its batch store are external: they are modelled from what stamps.py *)
(* says of them.                                                           *)
(***************************************************************************)
EXTENDS Integers, FiniteSetsExt

CONSTANTS
    Batch, NoBatch, Caller,
    BlockSecs,              \* BLOCK_SECS
    BucketDepth, MinDepth,  \* BUCKET_DEPTH and MIN_DEPTH
    MinTtl,                 \* min_ttl of the manager
    MinBlocks, PadBlocks,   \* the chain's minimum validity, and plan's hour of padding
    Prices, Targets, Budgets, Depths,  \* prices per block; times, budgets and depths asked for
    Funds,                  \* what the wallet begins with
    Faults,                 \* what may happen, out of FaultNames
    MaxBlocks, MaxTx        \* bounds: blocks, and transactions sent

FaultNames == {
    "moves",    \* the price moves while a topup is under way
    "reloads",  \* the node's ledger of a batch goes back to its first amount
    "expires",  \* calls run out of time
    "guesses"}  \* the node may have no estimate of a batch's time

ASSUME BatchAssumption == NoBatch \notin Batch
ASSUME ChainAssumption ==
    /\ BlockSecs \in Nat \ {0} /\ Prices \subseteq Nat \ {0}
    /\ {MinTtl, MinBlocks, PadBlocks, BucketDepth, Funds, MaxBlocks, MaxTx} \subseteq Nat
    /\ MinDepth \in Nat \ {0} /\ MinDepth >= BucketDepth /\ Targets \subseteq Nat \ {0} /\ Budgets \subseteq Nat /\ Depths \subseteq Nat
    /\ Faults \subseteq FaultNames

VARIABLES
    price, block,
    batch,     \* the node's batches: status, balance, depth, first amount, ledger, fullest bucket
    wallet,
    txs,       \* transactions sent and not applied
    sent,
    lost,      \* transactions the chain refused when it came to them
    applied,   \* the numbers of those applied
    call,      \* what each caller is waiting for
    answered,  \* calls that returned: what they said is done
    promised,  \* what the callers were told of a batch's time, and when
    upload     \* the batch an upload has been given, and when

chainVars == <<price, block, batch, wallet, lost, applied>>
askVars == <<call, answered, promised>>
vars == <<price, block, batch, wallet, txs, sent, lost, applied, call, answered, promised, upload>>

Unsold == [status |-> "unknown", balance |-> 0, depth |-> 0, first |-> 0, ledger |-> 0, full |-> FALSE]

Idle == [op |-> "none", stage |-> "idle", batch |-> NoBatch, arg |-> 0, depth |-> 0, ledger |-> 0, ttl |-> 0,
         tx |-> 0, total |-> 0, since |-> 0]

Init ==
    /\ price \in Prices /\ block = 0 /\ wallet = Funds
    /\ batch = [b \in Batch |-> Unsold]
    /\ txs = {} /\ sent = 0 /\ lost = {} /\ applied = {}
    /\ call = [c \in Caller |-> Idle] /\ answered = {} /\ promised = {}
    /\ upload = [batch |-> NoBatch, at |-> 0]

(***************************************************************************)
(* Arithmetic.                                                             *)
(***************************************************************************)
CeilDiv(m, n) == (m + n - 1) \div n

\* Mutant of TtlToAmount: a begun block is not paid for.
TtlToAmountDown(secs) == (secs \div BlockSecs) * price

TtlToAmount(secs) == CeilDiv(secs, BlockSecs) * price

\* Mutant of AmountToTtl: a begun second counts.
AmountToTtlUp(amount) == CeilDiv(amount * BlockSecs, price)

AmountToTtl(amount) == (amount * BlockSecs) \div price

\* Mutant of Cost: of one chunk.
CostOfChunk(amount, depth) == amount

\* batch_cost_bzz, in the chain's unit.
Cost(amount, depth) == amount * 2^depth

\* Mutant of PlanBlocks: without padding.
PlanBlocksBare(secs) == Max({CeilDiv(secs, BlockSecs), MinBlocks})

\* BatchPlan: the blocks a purchase pays for.
PlanBlocks(secs) == Max({CeilDiv(secs, BlockSecs), MinBlocks + PadBlocks})

\* What a node tells of a batch's time.
Ttl(b) == (batch[b].balance * BlockSecs) \div price
Told(b) == {Ttl(b)} \union (IF "guesses" \in Faults THEN {-1} ELSE {})

Known(b) == batch[b].status \in {"syncing", "usable"}

\* Mutant of Problem: exactly the minimum is enough.
ProblemBelow(b, ttl) ==
    batch[b].status # "usable" \/ (0 <= ttl /\ ttl < MinTtl) \/ batch[b].full

\* StampInfo.problem, a disjunct for each.
Problem(b, ttl) ==
    \/ batch[b].status # "usable"
    \/ 0 <= ttl /\ ttl <= MinTtl
    \/ batch[b].full

(***************************************************************************)
(* The chain and the node.                                                 *)
(***************************************************************************)
\* What an applied transaction makes of its batch.
After(tx) ==
    CASE tx.op = "buy"    -> [status |-> "syncing", balance |-> tx.arg, depth |-> tx.depth,
                              first |-> tx.arg, ledger |-> tx.arg, full |-> FALSE]
      [] tx.op = "topup"  -> [batch[tx.batch] EXCEPT !.balance = @ + tx.arg, !.ledger = @ + tx.arg]
      [] tx.op = "dilute" -> [batch[tx.batch] EXCEPT !.balance = @ \div 2^(tx.arg - batch[tx.batch].depth),
                                                     !.depth = tx.arg, !.full = FALSE]

\* Whether the chain takes it by now, and for how much: what is paid is paid
\* for every chunk the batch has room for.
Due(tx) ==
    CASE tx.op = "buy"    -> tx.arg * 2^tx.depth
      [] tx.op = "topup"  -> tx.arg * 2^batch[tx.batch].depth
      [] tx.op = "dilute" -> 0

Takes(tx) ==
    CASE tx.op = "buy"    -> tx.arg > MinBlocks * price /\ Due(tx) <= wallet
      [] tx.op = "topup"  -> Known(tx.batch) /\ Due(tx) <= wallet
      [] tx.op = "dilute" -> Known(tx.batch) /\ tx.arg > batch[tx.batch].depth

\* What the node sells, on its own account and not stamps.py's: a batch of the
\* least depth or deeper, that its wallet pays for (stamps.py 49-56 and 530-531).
Sells(tx) == tx.depth >= MinDepth /\ Due(tx) <= wallet

\* A dilution ends what was said of the batch's time.
Applies(tx) ==
    /\ txs' = txs \ {tx}
    /\ IF Takes(tx)
       THEN /\ batch' = [batch EXCEPT ![tx.batch] = After(tx)]
            /\ wallet' = wallet - Due(tx)
            /\ applied' = applied \union {tx.id}
            /\ promised' = {p \in promised : tx.op = "dilute" => p.batch # tx.batch}
            /\ upload' = IF tx.op = "dilute" /\ upload.batch = tx.batch THEN [batch |-> NoBatch, at |-> 0] ELSE upload
            /\ UNCHANGED lost
       ELSE lost' = lost \union {tx} /\ UNCHANGED <<batch, wallet, applied, promised, upload>>
    /\ UNCHANGED <<price, block, sent, call, answered>>

Drained(b) ==
    IF ~Known(b) THEN batch[b]
    ELSE IF batch[b].balance <= price THEN [batch[b] EXCEPT !.status = "gone", !.balance = 0]
    ELSE [batch[b] EXCEPT !.balance = @ - price]

Block ==
    /\ block < MaxBlocks /\ block' = block + 1
    /\ batch' = [b \in Batch |-> Drained(b)]
    /\ UNCHANGED <<price, wallet, txs, sent, lost, applied, askVars, upload>>

\* A quoted time is an estimate, which ends with the price it was made at.
PriceMoves ==
    /\ "moves" \in Faults \/ \A c \in Caller : call[c].op # "topup"
    /\ price' \in Prices \ {price}
    /\ promised' = {} /\ upload' = [batch |-> NoBatch, at |-> 0]
    /\ call' = [c \in Caller |-> [call[c] EXCEPT !.total = 0]]
    /\ UNCHANGED <<block, batch, wallet, txs, sent, lost, applied, answered>>

\* The node has synced a batch, stamped its fullest bucket full, or reloaded its ledger.
NodeMoves(b) ==
    /\ \/ batch[b].status = "syncing" /\ batch' = [batch EXCEPT ![b].status = "usable"]
       \/ Known(b) /\ ~batch[b].full /\ batch' = [batch EXCEPT ![b].full = TRUE]
       \/ "reloads" \in Faults /\ Known(b) /\ batch' = [batch EXCEPT ![b].ledger = batch[b].first]
    /\ UNCHANGED <<price, block, wallet, txs, sent, lost, applied, askVars, upload>>

(***************************************************************************)
(* resolve: the batch of an upload, named or the one that lasts longest;   *)
(* as any may be named, any without a problem.                             *)
(***************************************************************************)
Resolves ==
    /\ \E b \in Batch, ttl \in UNION {Told(o) : o \in Batch} :
          ttl \in Told(b) /\ ~Problem(b, ttl) /\ upload' = [batch |-> b, at |-> block]
    /\ UNCHANGED <<chainVars, txs, sent, askVars>>

(***************************************************************************)
(* Purchases and renewals.                                                 *)
(***************************************************************************)
Asks(c, request) == call' = [call EXCEPT ![c] = request]

\* Sends a transaction, and waits for it.
Sends(c, tx) ==
    /\ sent < MaxTx /\ sent' = sent + 1
    /\ txs' = txs \union {tx}
    /\ call' = [call EXCEPT ![c].stage = "polls", ![c].tx = tx.id]

\* A call is over; what it answers, when it does not raise, is recorded.
Raises(c) == call' = [call EXCEPT ![c] = Idle] /\ UNCHANGED <<answered, promised>>

Answers(c) ==
    /\ call' = [call EXCEPT ![c] = Idle]
    /\ answered' = answered \union {[op |-> call[c].op, batch |-> call[c].batch, arg |-> call[c].arg, tx |-> call[c].tx]}
    /\ promised' = IF call[c].op = "dilute" THEN promised
                   ELSE promised \union {[batch |-> call[c].batch, total |-> call[c].total, since |-> call[c].since]}

\* plan and buy up to its request: the depth is the caller's.  Where the node
\* does not sell, buy raises and nothing has changed.
Buys(c, b, secs, depth) ==
    LET amount == PlanBlocks(secs) * price
        purchase == [id |-> sent + 1, op |-> "buy", batch |-> b, arg |-> amount, depth |-> depth]
    IN  /\ call[c] = Idle /\ batch[b] = Unsold /\ (\A tx \in txs : tx.batch # b) /\ Sells(purchase)
        /\ sent < MaxTx /\ sent' = sent + 1
        /\ txs' = txs \union {purchase}
        /\ Asks(c, [Idle EXCEPT !.op = "buy", !.stage = "polls", !.batch = b, !.tx = sent + 1, !.arg = amount,
                             !.total = PlanBlocks(secs) * BlockSecs, !.since = block])
        /\ UNCHANGED <<chainVars, answered, promised, upload>>

\* The time still to buy, when the batch is to last so long in all.
Missing(total, left) == {n \in {total - left} : n > 0}

\* TopupPlan: what is added, what the batch is said to come to with it, and what
\* it was asked to come to.
TopupPlan(left, added, asked) == [added |-> added, to |-> left + AmountToTtl(added), asked |-> asked]

\* plan_topup: by a time, to a time, or for a budget, which asks for nothing
\* beyond what is left.  A budget that buys nothing is refused.
Extensions(b, left) ==
    {TopupPlan(left, TtlToAmount(secs), left + secs) :
        secs \in Targets \union UNION {Missing(total, left) : total \in Targets}}
    \union {TopupPlan(left, n, left) : n \in {budget \div 2^batch[b].depth : budget \in Budgets} \ {0}}

PlansTopup(c, b) ==
    /\ call[c] = Idle /\ Known(b)
    /\ \E ttl \in Told(b) : \E plan \in Extensions(b, Max({ttl, 0})) :
          Asks(c, [Idle EXCEPT !.op = "topup", !.stage = "plans", !.batch = b, !.arg = plan.added,
                               !.total = plan.to, !.since = block])
    /\ UNCHANGED <<chainVars, txs, sent, answered, promised, upload>>

\* topup reads the batch; a batch that is gone raises.
TopupReads(c) ==
    LET b == call[c].batch
    IN  /\ call[c].stage = "plans"
        /\ IF Known(b)
           THEN /\ \E ttl \in Told(b) :
                      call' = [call EXCEPT ![c].stage = "checks", ![c].ledger = batch[b].ledger, ![c].ttl = ttl,
                                           ![c].depth = batch[b].depth]
                /\ UNCHANGED <<answered, promised>>
           ELSE Raises(c)
        /\ UNCHANGED <<chainVars, txs, sent, upload>>

\* The wallet is asked before the transaction is.
TopupChecks(c) ==
    /\ call[c].stage = "checks"
    /\ IF Cost(call[c].arg, call[c].depth) > wallet THEN Raises(c)
       ELSE call' = [call EXCEPT ![c].stage = "submits"] /\ UNCHANGED <<answered, promised>>
    /\ UNCHANGED <<chainVars, txs, sent, upload>>

TopupSubmits(c) ==
    LET b == call[c].batch
    IN  /\ call[c].op = "topup" /\ call[c].stage = "submits"
        /\ IF Known(b)
           THEN /\ Sends(c, [id |-> sent + 1, op |-> "topup", batch |-> b, arg |-> call[c].arg, depth |-> 0])
                /\ UNCHANGED <<answered, promised>>
           ELSE Raises(c) /\ UNCHANGED <<txs, sent>>
        /\ UNCHANGED <<chainVars, upload>>

\* dilute up to its request: it only ever goes deeper.
DiluteReads(c, b, to) ==
    /\ call[c] = Idle /\ Known(b) /\ to > batch[b].depth
    /\ Asks(c, [Idle EXCEPT !.op = "dilute", !.stage = "submits", !.batch = b, !.arg = to])
    /\ UNCHANGED <<chainVars, txs, sent, answered, promised, upload>>

DiluteSubmits(c) ==
    LET b == call[c].batch
    IN  /\ call[c].op = "dilute" /\ call[c].stage = "submits"
        /\ IF Known(b) /\ call[c].arg > batch[b].depth
           THEN /\ Sends(c, [id |-> sent + 1, op |-> "dilute", batch |-> b, arg |-> call[c].arg, depth |-> 0])
                /\ UNCHANGED <<answered, promised>>
           ELSE Raises(c) /\ UNCHANGED <<txs, sent>>
        /\ UNCHANGED <<chainVars, upload>>

\* Mutant of Done: a topup is taken for applied when nothing went down.
DoneSoon(c, ttl) ==
    LET b == call[c].batch
    IN  CASE call[c].op = "buy"    -> batch[b].status = "usable"
          [] call[c].op = "topup"  -> Known(b) /\ (batch[b].ledger >= call[c].ledger \/ ttl > call[c].ttl)
          [] call[c].op = "dilute" -> Known(b) /\ batch[b].depth >= call[c].arg

\* What the pollers of buy and _await_applied look for: either sign of a topup will do.
Done(c, ttl) ==
    LET b == call[c].batch
    IN  CASE call[c].op = "buy"    -> batch[b].status = "usable"
          [] call[c].op = "topup"  -> Known(b) /\ (batch[b].ledger > call[c].ledger \/ ttl > call[c].ttl)
          [] call[c].op = "dilute" -> Known(b) /\ batch[b].depth >= call[c].arg

\* A poll that finds it applied returns; one that does not waits on.
Polls(c) ==
    /\ call[c].stage = "polls" /\ \E ttl \in Told(call[c].batch) : Done(c, ttl)
    /\ Answers(c)
    /\ UNCHANGED <<chainVars, txs, sent, upload>>

\* The deadline passed, or the node answered a poll with an error.
GivesUp(c) ==
    /\ call[c].stage = "polls"
    /\ "expires" \in Faults \/ \A tx \in txs : tx.id # call[c].tx
    /\ Raises(c)
    /\ UNCHANGED <<chainVars, txs, sent, upload>>

CallerSteps(c) ==
    \/ \E b \in Batch, secs \in Targets, depth \in Depths : Buys(c, b, secs, depth)
    \/ \E b \in Batch : PlansTopup(c, b) \/ \E to \in Depths : DiluteReads(c, b, to)
    \/ TopupReads(c) \/ TopupChecks(c) \/ TopupSubmits(c) \/ DiluteSubmits(c)
    \/ Polls(c) \/ GivesUp(c)

Next ==
    \/ \E tx \in txs : Applies(tx)
    \/ Block \/ PriceMoves \/ Resolves
    \/ \E b \in Batch : NodeMoves(b)
    \/ \E c \in Caller : CallerSteps(c)

Spec == Init /\ [][Next]_vars

(***************************************************************************)
(* Sizes: depth_for_addresses of addresses that are all known.  An address  *)
(* is the bucket it falls into.                                            *)
(***************************************************************************)
Loads(addresses) == [k \in {addresses[n] : n \in DOMAIN addresses} |->
                        Cardinality({n \in DOMAIN addresses : addresses[n] = k})]

\* Mutant of Fits: a bucket may not be filled.
FitsLoosely(load, depth) == load < 2^(depth - BucketDepth)

Fits(load, depth) == load <= 2^(depth - BucketDepth)

DepthForAddresses(addresses) ==
    LET most == Max({0} \union {Loads(addresses)[k] : k \in DOMAIN Loads(addresses)})
        Deeper[depth \in Nat] == IF Fits(most, depth) THEN depth ELSE Deeper[depth + 1]
    IN  Deeper[MinDepth]

(***************************************************************************)
(* Properties.                                                             *)
(***************************************************************************)
\* A purchase, a topup or a dilution that returned has been applied: the batch
\* was usable, this very transaction went through, the depth is reached
\* (stamps.py 516-517, 666-667, 764-765).
AnswersTrue ==
    \A a \in answered :
        CASE a.op = "buy"    -> batch[a.batch].status \in {"usable", "gone"}
          [] a.op = "topup"  -> a.tx \in applied
          [] a.op = "dilute" -> batch[a.batch].depth >= a.arg

\* What a plan of a topup says is no less than what was asked for, though it
\* pays for whole blocks (stamps.py 611-613 and 652-653).
PlansReach ==
    \A b \in Batch : Known(b) =>
        \A plan \in UNION {Extensions(b, Max({ttl, 0})) : ttl \in Told(b)} : plan.to >= plan.asked

\* What a plan said a batch would last, once the transaction is applied, is what
\* it lasts, the blocks it was rounded up to included: the time left and the
\* time gone since the plan are no less (BatchPlan.ttl_secs and
\* TopupPlan.total_ttl_secs, stamps.py 304, 359-360 and 653).
PlansLast == \A p \in promised : Ttl(p.batch) + BlockSecs * (block - p.since) >= p.total

\* A plan reaches what its caller asked for, and what it says is kept.
PlansKept == PlansReach /\ PlansLast

\* A plan that was carried out is taken by the chain: the purchase is above the
\* minimum, and the wallet that was asked pays (stamps.py 488-491 and 670-672).
NothingRefused == \A tx \in lost : tx.op # "buy" /\ (tx.op = "topup" => ~Known(tx.batch))

\* An upload's batch outlives the minimum the manager asked of it: no upload
\* that takes no longer meets a batch that is gone (stamps.py 3-4 and 431-432).
UploadsOutlive ==
    upload.batch # NoBatch /\ (block - upload.at) * BlockSecs <= MinTtl => batch[upload.batch].status = "usable"
===============================================================================
