--------------------------- MODULE MockWalletProofs ---------------------------
(***************************************************************************)
(* Theorems about the mock wallet for boxes of any size, any number of     *)
(* payments in an input, of holders and of assets.                         *)
(*                                                                         *)
(* A batch is a run of inputs, each a run of payments.  One payment moves  *)
(* or adds its amount; what a run does to the sum of balances, and takes   *)
(* from a holder, is the sum over its steps.                               *)
(***************************************************************************)
EXTENDS MockWallet, SumProofs

Tables == [Assets -> [Addresses -> Nat]]

Senders == Addresses \cup {PortalContract}
Amounts == Nat \cup {NoAmount}

\* Inputs that can be executed, and deposits that are what they say.
Executable(blob) ==
    /\ blob \in Blobs(Senders, Amounts)
    /\ blob.transaction = "Transfer" \/ blob.sender = PortalContract =>
          \A i \in DOMAIN blob.payments : blob.payments[i].amount \in Nat
    /\ blob.sender = PortalContract => blob.transaction = "Deposit"

\* The units an amount stands for in what an input adds to an asset, and in
\* what it may take from a holder.
Adds(blob, asset) == blob.sender = PortalContract /\ blob.asset = asset

Takes(blob, asset, x) ==
    blob.transaction = "Transfer" /\ blob.sender = x /\ blob.asset = asset

\* What a step from b to c, with these units, may do.
Fair(b, c, asset, x, added, taken) ==
    /\ SumOf(c[asset]) = SumOf(b[asset]) + added
    /\ b[asset][x] <= c[asset][x] + taken

\* One payment credits a deposit, or moves what its sender has, if to somebody
\* else; it takes from the sender of a transfer only.
LEMMA OnePayment ==
    ASSUME NEW b \in Tables, NEW blob, Executable(blob), NEW i \in DOMAIN blob.payments,
           NEW asset \in Assets, NEW x \in Addresses
    PROVE  LET p == blob.payments[i]
               c == Transact(b, blob, p)
           IN  /\ c \in Tables
               /\ Fair(b, c, asset, x,
                       IF Adds(blob, asset) THEN p.amount ELSE 0,
                       IF Takes(blob, asset, x) THEN p.amount ELSE 0)
<1>. DEFINE p == blob.payments[i]
            r == p.receiver
            n == p.amount
            s == blob.sender
            c == Transact(b, blob, p)
<1>0. /\ p \in [receiver : Addresses, amount : Amounts] /\ r \in Addresses
      /\ blob.asset \in Assets /\ s \in Senders /\ IsFiniteSet(Addresses)
      /\ blob.transaction \in {"Deposit", "Transfer", "Withdraw"}
      /\ blob.transaction = "Transfer" \/ s = PortalContract => n \in Nat
      /\ s = PortalContract => blob.transaction = "Deposit"
      /\ PortalContract \notin Addresses
  <2>1. /\ blob \in Blobs(Senders, Amounts)
        /\ blob.transaction = "Transfer" \/ s = PortalContract => n \in Nat
        /\ s = PortalContract => blob.transaction = "Deposit"
    BY DEF Executable
  <2>2. /\ blob.payments \in Seq([receiver : Addresses, amount : Amounts])
        /\ blob.asset \in Assets /\ s \in Senders
        /\ blob.transaction \in {"Deposit", "Transfer", "Withdraw"}
    BY <2>1 DEF Blobs
  <2>3. p \in [receiver : Addresses, amount : Amounts]
    <3>1. \A R : \A q \in Seq(R) : \A j \in DOMAIN q : q[j] \in R
      OBVIOUS
    <3>. QED BY <2>2, <3>1, Zenon
  <2>4. r \in Addresses
    BY <2>3
  <2>. QED BY <2>1, <2>2, <2>3, <2>4, WalletAssumption
<1>1. \A a \in Assets : b[a] \in [Addresses -> Nat] /\ SumOf(b[a]) \in Nat
  BY <1>0, SumIsNat DEF Tables
<1>2. CASE c = b /\ ~Adds(blob, asset)
  <2>1. b[asset][x] \in Nat /\ (Takes(blob, asset, x) => n \in Nat)
    BY <1>0, <1>1 DEF Takes
  <2>. HIDE DEF p, c, n
  <2>2. Fair(b, c, asset, x, 0, IF Takes(blob, asset, x) THEN n ELSE 0)
    BY <1>1, <1>2, <2>1 DEF Fair
  <2>. QED BY <1>2, <2>2 DEF c, p, n
<1>3. CASE blob.transaction = "Deposit" /\ s = PortalContract
  <2>1. n \in Nat /\ ~Takes(blob, asset, x) /\ (Adds(blob, asset) <=> asset = blob.asset)
    BY <1>0, <1>3 DEF Takes, Adds
  <2>2. c = [b EXCEPT ![blob.asset][r] = @ + n]
    BY <1>3 DEF Transact, Credit
  <2>. HIDE DEF p, c, n, r
  <2>3. c \in Tables
    BY <1>0, <2>1, <2>2 DEF Tables
  <2>4. /\ \A a \in Assets \ {blob.asset} : c[a] = b[a]
        /\ c[blob.asset][r] = b[blob.asset][r] + n
        /\ \A y \in Addresses \ {r} : c[blob.asset][y] = b[blob.asset][y]
    BY <1>0, <2>2 DEF Tables
  <2>5. c[asset] \in [Addresses -> Nat]
    BY <2>3 DEF Tables
  <2>6. CASE asset = blob.asset
    <3>1. SumOf(c[asset]) = SumOf(b[asset]) + n
      BY <1>0, <1>1, <2>1, <2>4, <2>5, <2>6, SumWithMore
    <3>2. b[asset][x] <= c[asset][x]
      BY <1>0, <1>1, <2>1, <2>4, <2>5, <2>6
    <3>3. c[asset][x] + 0 = c[asset][x]
      BY <2>5
    <3>. QED BY <2>1, <2>3, <2>6, <3>1, <3>2, <3>3 DEF Fair, c, p, n
  <2>7. CASE asset # blob.asset
    <3>1. c[asset] = b[asset] /\ b[asset][x] \in Nat
      BY <1>1, <2>4, <2>7
    <3>. QED BY <1>1, <2>1, <2>3, <2>7, <3>1 DEF Fair, c, p, n
  <2>. QED BY <2>6, <2>7
<1>4. CASE blob.transaction = "Transfer" /\ b[blob.asset][s] >= n
  <2>1. n \in Nat /\ s \in Addresses /\ ~Adds(blob, asset)
    BY <1>0, <1>4 DEF Adds, Senders
  <2>. DEFINE less == [b EXCEPT ![blob.asset][s] = @ - n]
  <2>6. c = [less EXCEPT ![blob.asset][r] = @ + n]
    BY <1>4 DEF Transact, Move
  <2>. HIDE DEF p, c, n, r, s
  <2>3. b[blob.asset][s] - n \in Nat /\ (b[blob.asset][s] - n) + n = b[blob.asset][s]
    BY <1>0, <1>1, <1>4, <2>1
  <2>4. less \in Tables
    BY <1>0, <2>1, <2>3 DEF Tables
  <2>5. /\ \A a \in Assets \ {blob.asset} : less[a] = b[a]
        /\ less[blob.asset][s] = b[blob.asset][s] - n
        /\ \A y \in Addresses \ {s} : less[blob.asset][y] = b[blob.asset][y]
    BY <1>0, <2>1 DEF Tables
  <2>. HIDE DEF less
  <2>7. c \in Tables
    BY <1>0, <2>1, <2>4, <2>6 DEF Tables
  <2>8. /\ \A a \in Assets \ {blob.asset} : c[a] = less[a]
        /\ c[blob.asset][r] = less[blob.asset][r] + n
        /\ \A y \in Addresses \ {r} : c[blob.asset][y] = less[blob.asset][y]
    BY <1>0, <2>4, <2>6 DEF Tables
  <2>9. c[asset] \in [Addresses -> Nat] /\ less[asset] \in [Addresses -> Nat]
    BY <2>4, <2>7 DEF Tables
  <2>10. CASE asset = blob.asset
    <3>1. SumOf(b[asset]) = SumOf(less[asset]) + n
      BY <1>0, <1>1, <2>1, <2>3, <2>5, <2>9, <2>10, SumWithMore
    <3>2. SumOf(c[asset]) = SumOf(less[asset]) + n
      BY <1>0, <2>1, <2>8, <2>9, <2>10, SumWithMore
    <3>3. SumOf(c[asset]) = SumOf(b[asset]) + 0
      BY <1>1, <3>1, <3>2
    <3>4. less[asset][x] <= c[asset][x] /\ c[asset][x] \in Nat /\ less[asset][x] \in Nat
      BY <1>0, <2>1, <2>8, <2>9, <2>10
    <3>5. CASE x = s
      <4>1. Takes(blob, asset, x)
        BY <1>4, <2>10, <3>5 DEF Takes, s
      <4>2. b[asset][x] = less[asset][x] + n
        BY <1>1, <2>1, <2>3, <2>5, <2>10, <3>5
      <4>3. b[asset][x] <= c[asset][x] + n
        BY <2>1, <3>4, <4>2
      <4>. QED BY <2>1, <2>7, <3>3, <4>1, <4>3 DEF Fair, c, p, n
    <3>6. CASE x # s
      <4>1. ~Takes(blob, asset, x)
        BY <3>6 DEF Takes, s
      <4>2. b[asset][x] = less[asset][x]
        BY <2>5, <2>10, <3>6
      <4>3. b[asset][x] <= c[asset][x] + 0
        BY <3>4, <4>2
      <4>. QED BY <2>1, <2>7, <3>3, <4>1, <4>3 DEF Fair, c, p, n
    <3>. QED BY <3>5, <3>6
  <2>11. CASE asset # blob.asset
    <3>1. c[asset] = b[asset] /\ b[asset][x] \in Nat /\ ~Takes(blob, asset, x)
      BY <1>1, <2>5, <2>8, <2>11 DEF Takes
    <3>. QED BY <1>1, <2>1, <2>7, <3>1 DEF Fair, c, p, n
  <2>. QED BY <2>10, <2>11
<1>5. \/ c = b /\ ~Adds(blob, asset)
      \/ blob.transaction = "Deposit" /\ s = PortalContract
      \/ blob.transaction = "Transfer" /\ b[blob.asset][s] >= n
  BY <1>0 DEF Transact, Credit, Move, Adds
<1>. QED BY <1>2, <1>3, <1>4, <1>5

\* What the steps of a run do, the run does.
LEMMA RunIsFair ==
    ASSUME NEW n \in Nat, NEW run, run[0] \in Tables, NEW asset \in Assets, NEW x \in Addresses,
           NEW added \in [1 .. n -> Nat], NEW taken \in [1 .. n -> Nat],
           \A k \in 1 .. n : run[k - 1] \in Tables =>
               run[k] \in Tables /\ Fair(run[k - 1], run[k], asset, x, added[k], taken[k])
    PROVE  run[n] \in Tables /\ Fair(run[0], run[n], asset, x, SumOf(added), SumOf(taken))
<1>. DEFINE T == {k \in Nat : k <= n => run[k] \in Tables}
            sum == [k \in 0 .. n |-> SumOf(run[k][asset])]
            own == [k \in 0 .. n |-> run[k][asset][x]]
<1>1. 0 \in T
  OBVIOUS
<1>2. ASSUME NEW k \in Nat, k \in T, k + 1 <= n PROVE run[k + 1] \in Tables
  <2>1. k + 1 \in 1 .. n /\ (k + 1) - 1 = k /\ run[k] \in Tables
    BY <1>2
  <2>. QED BY <2>1
<1>3. Nat \subseteq T
  <2>1. \A k \in Nat : k \in T => k + 1 \in T
    BY <1>2
  <2>. HIDE DEF T
  <2>. QED BY <1>1, <2>1, NatSetInduction
<1>4. \A k \in 0 .. n : run[k] \in Tables
  BY <1>3
<1>5. \A k \in 0 .. n : run[k][asset] \in [Addresses -> Nat]
  BY <1>4 DEF Tables
<1>6. sum \in [0 .. n -> Nat] /\ own \in [0 .. n -> Nat]
  BY <1>5, SumIsNat, WalletAssumption
<1>7. ASSUME NEW k \in 1 .. n
      PROVE  sum[k] = sum[k - 1] + added[k] /\ own[k - 1] <= own[k] + taken[k]
  <2>1. k \in 0 .. n /\ k - 1 \in 0 .. n
    OBVIOUS
  <2>2. Fair(run[k - 1], run[k], asset, x, added[k], taken[k])
    BY <1>4, <2>1
  <2>. QED BY <2>1, <2>2 DEF Fair
<1>8. 0 \in 0 .. n /\ n \in 0 .. n
  OBVIOUS
<1>9. /\ sum[0] = SumOf(run[0][asset]) /\ sum[n] = SumOf(run[n][asset])
      /\ own[0] = run[0][asset][x] /\ own[n] = run[n][asset][x]
  BY <1>8
<1>. HIDE DEF sum, own
<1>10. sum[n] = sum[0] + SumOf(added)
  BY <1>6, <1>7, Accumulates
<1>11. own[0] <= own[n] + SumOf(taken)
  BY <1>6, <1>7, Drains
<1>. QED BY <1>4, <1>8, <1>9, <1>10, <1>11 DEF Fair

\* The sum of n numbers that are those of f, or none of them.
LEMMA AllOrNothing ==
    ASSUME NEW S, NEW f, NEW c \in BOOLEAN, c => \A k \in S : f[k] \in Nat
    PROVE  LET g == [k \in S |-> IF c THEN f[k] ELSE 0]
           IN  /\ g \in [S -> Nat]
               /\ SumOf(g) = IF c THEN SumOf([k \in S |-> f[k]]) ELSE 0
<1>. DEFINE g == [k \in S |-> IF c THEN f[k] ELSE 0]
<1>1. g \in [S -> Nat]
  OBVIOUS
<1>2. CASE c
  <2>1. g = [k \in S |-> f[k]]
    BY <1>2
  <2>. QED BY <1>1, <1>2, <2>1
<1>3. CASE ~c
  <2>1. \A k \in S : g[k] = 0
    BY <1>3
  <2>. HIDE DEF g
  <2>2. SumOf(g) = 0
    BY <1>1, <2>1, SumOfZeros
  <2>. QED BY <1>1, <1>3, <2>2 DEF g
<1>. QED BY <1>2, <1>3

\* What an input does to an asset and a holder is what its payments do together.
LEMMA OneInput ==
    ASSUME NEW b \in Tables, NEW blob, Executable(blob),
           NEW asset \in Assets, NEW x \in Addresses
    PROVE  LET c == ProcessInput(b, blob)
           IN  /\ c \in Tables
               /\ Fair(b, c, asset, x,
                       IF Adds(blob, asset) THEN Total(blob.payments) ELSE 0,
                       IF Takes(blob, asset, x) THEN Total(blob.payments) ELSE 0)
<1>. DEFINE n == Len(blob.payments)
            step == [k \in 1 .. n |-> [t \in Tables |-> Transact(t, blob, blob.payments[k])]]
            run == CHOOSE f : f = [k \in 0 .. n |->
                                      IF k = 0 THEN b ELSE Transact(f[k - 1], blob, blob.payments[k])]
            amount == [k \in 1 .. n |-> blob.payments[k].amount]
            added == [k \in 1 .. n |-> IF Adds(blob, asset) THEN amount[k] ELSE 0]
            taken == [k \in 1 .. n |-> IF Takes(blob, asset, x) THEN amount[k] ELSE 0]
<1>1. n \in Nat /\ DOMAIN blob.payments = 1 .. n
  BY DEF Executable, Blobs
<1>2. ProcessInput(b, blob) = run[n]
  BY DEF ProcessInput
<1>3. Total(blob.payments) = SumOf([k \in 1 .. n |-> amount[k]])
  <2>1. [k \in 1 .. n |-> amount[k]] = [k \in DOMAIN blob.payments |-> blob.payments[k].amount]
    BY <1>1
  <2>. QED BY <2>1 DEF Total
<1>4. Adds(blob, asset) \/ Takes(blob, asset, x) => \A k \in 1 .. n : amount[k] \in Nat
  BY <1>1 DEF Executable, Adds, Takes
<1>. HIDE DEF n
<1>5. ASSUME NEW k \in 1 .. n, NEW t \in Tables
      PROVE  LET u == Transact(t, blob, blob.payments[k])
             IN  u \in Tables /\ Fair(t, u, asset, x, added[k], taken[k])
  <2>1. k \in DOMAIN blob.payments
    BY <1>1
  <2>2. /\ added[k] = IF Adds(blob, asset) THEN blob.payments[k].amount ELSE 0
        /\ taken[k] = IF Takes(blob, asset, x) THEN blob.payments[k].amount ELSE 0
    OBVIOUS
  <2>. QED BY <2>1, <2>2, OnePayment
<1>6. Adds(blob, asset) \in BOOLEAN /\ Takes(blob, asset, x) \in BOOLEAN
  BY DEF Adds, Takes
<1>. HIDE DEF amount
<1>7. /\ added \in [1 .. n -> Nat] /\ taken \in [1 .. n -> Nat]
      /\ SumOf(added) = IF Adds(blob, asset) THEN Total(blob.payments) ELSE 0
      /\ SumOf(taken) = IF Takes(blob, asset, x) THEN Total(blob.payments) ELSE 0
  BY <1>3, <1>4, <1>6, AllOrNothing
<1>. HIDE DEF added, taken
<1>8. run[0] = b /\ \A k \in 1 .. n : run[k] = Transact(run[k - 1], blob, blob.payments[k])
  <2>1. \A k \in 1 .. n : \A t \in Tables : step[k][t] = Transact(t, blob, blob.payments[k])
    OBVIOUS
  <2>2. \A k \in 1 .. n : \A t \in Tables : step[k][t] \in Tables
    BY <1>5, <2>1
  <2>. HIDE DEF step
  <2>3. PICK f \in [0 .. n -> Tables] : IsRun(f, n, b, step)
    BY <1>1, <2>2, RunExists
  <2>4. ASSUME NEW k \in 0 .. n, k # 0
        PROVE  step[k][f[k - 1]] = Transact(f[k - 1], blob, blob.payments[k])
    <3>1. k \in 1 .. n /\ k - 1 \in 0 .. n
      BY <1>1, <2>4
    <3>. QED BY <2>1, <3>1
  <2>5. f = [k \in 0 .. n |-> IF k = 0 THEN b ELSE step[k][f[k - 1]]]
    BY <2>3 DEF IsRun
  <2>6. f = [k \in 0 .. n |-> IF k = 0 THEN b ELSE Transact(f[k - 1], blob, blob.payments[k])]
    BY <2>4, <2>5, Zenon
  <2>7. run = [k \in 0 .. n |-> IF k = 0 THEN b ELSE Transact(run[k - 1], blob, blob.payments[k])]
    BY <2>6, Zenon
  <2>. HIDE DEF run
  <2>8. /\ 0 \in 0 .. n
        /\ \A k \in 1 .. n : k \in 0 .. n /\ k # 0
    BY <1>1
  <2>. QED BY <2>7, <2>8, Zenon
<1>. HIDE DEF run
<1>9. run[n] \in Tables /\ Fair(run[0], run[n], asset, x, SumOf(added), SumOf(taken))
  BY <1>1, <1>5, <1>7, <1>8, RunIsFair
<1>. QED BY <1>2, <1>7, <1>8, <1>9

\* The payments of an input whose amounts are numbers have a total.
LEMMA TotalIsNat ==
    ASSUME NEW blob, blob \in Blobs(Senders, Amounts),
           \A i \in DOMAIN blob.payments : blob.payments[i].amount \in Nat
    PROVE  Total(blob.payments) \in Nat
<1>. DEFINE n == Len(blob.payments)
            f == [i \in DOMAIN blob.payments |-> blob.payments[i].amount]
<1>1. n \in Nat /\ DOMAIN blob.payments = 1 .. n
  BY DEF Blobs
<1>2. IsFiniteSet(DOMAIN blob.payments)
  BY <1>1, FS_Interval
<1>3. f \in [DOMAIN blob.payments -> Nat]
  OBVIOUS
<1>. HIDE DEF f
<1>4. SumOf(f) \in Nat
  BY <1>2, <1>3, SumIsNat
<1>. QED BY <1>4 DEF Total, f

\* What a batch does to an asset and a holder is what its inputs do together.
LEMMA OneBatch ==
    ASSUME NEW b \in Tables, NEW box \in Seq(Blobs(Senders, Amounts)),
           \A k \in 1 .. Len(box) : Executable(box[k]),
           NEW asset \in Assets, NEW x \in Addresses
    PROVE  LET c == ProcessBatchInputs(b, box)
           IN  /\ c \in Tables
               /\ Fair(b, c, asset, x, DepositsOf(box, asset), TransfersOf(box, asset, x))
               /\ DepositsOf(box, asset) \in Nat /\ TransfersOf(box, asset, x) \in Nat
<1>. DEFINE n == Len(box)
            step == [k \in 1 .. n |-> [t \in Tables |-> ProcessInput(t, box[k])]]
            run == CHOOSE f : f = [k \in 0 .. n |->
                                      IF k = 0 THEN b ELSE ProcessInput(f[k - 1], box[k])]
            added == [k \in 1 .. n |-> IF Adds(box[k], asset) THEN Total(box[k].payments) ELSE 0]
            taken == [k \in 1 .. n |-> IF Takes(box[k], asset, x) THEN Total(box[k].payments) ELSE 0]
<1>1. n \in Nat /\ DOMAIN box = 1 .. n
  OBVIOUS
<1>2. ProcessBatchInputs(b, box) = run[n]
  BY DEF ProcessBatchInputs
<1>3. DepositsOf(box, asset) = SumOf(added) /\ TransfersOf(box, asset, x) = SumOf(taken)
  BY <1>1 DEF DepositsOf, TransfersOf, Adds, Takes
<1>4. ASSUME NEW k \in 1 .. n, Adds(box[k], asset) \/ Takes(box[k], asset, x)
      PROVE  Total(box[k].payments) \in Nat
  BY <1>4, TotalIsNat DEF Executable, Adds, Takes
<1>. HIDE DEF n
<1>5. ASSUME NEW k \in 1 .. n, NEW t \in Tables
      PROVE  LET u == ProcessInput(t, box[k])
             IN  u \in Tables /\ Fair(t, u, asset, x, added[k], taken[k])
  <2>1. Executable(box[k])
    BY DEF n
  <2>2. /\ added[k] = IF Adds(box[k], asset) THEN Total(box[k].payments) ELSE 0
        /\ taken[k] = IF Takes(box[k], asset, x) THEN Total(box[k].payments) ELSE 0
    OBVIOUS
  <2>. QED BY <2>1, <2>2, OneInput
<1>6. added \in [1 .. n -> Nat] /\ taken \in [1 .. n -> Nat]
  BY <1>4
<1>. HIDE DEF added, taken
<1>7. run[0] = b /\ \A k \in 1 .. n : run[k] = ProcessInput(run[k - 1], box[k])
  <2>1. \A k \in 1 .. n : \A t \in Tables : step[k][t] = ProcessInput(t, box[k])
    OBVIOUS
  <2>2. \A k \in 1 .. n : \A t \in Tables : step[k][t] \in Tables
    BY <1>5, <2>1
  <2>. HIDE DEF step
  <2>3. PICK f \in [0 .. n -> Tables] : IsRun(f, n, b, step)
    BY <1>1, <2>2, RunExists
  <2>4. ASSUME NEW k \in 0 .. n, k # 0
        PROVE  step[k][f[k - 1]] = ProcessInput(f[k - 1], box[k])
    <3>1. k \in 1 .. n /\ k - 1 \in 0 .. n
      BY <1>1, <2>4
    <3>. QED BY <2>1, <3>1
  <2>5. f = [k \in 0 .. n |-> IF k = 0 THEN b ELSE step[k][f[k - 1]]]
    BY <2>3 DEF IsRun
  <2>6. f = [k \in 0 .. n |-> IF k = 0 THEN b ELSE ProcessInput(f[k - 1], box[k])]
    BY <2>4, <2>5, Zenon
  <2>7. run = [k \in 0 .. n |-> IF k = 0 THEN b ELSE ProcessInput(run[k - 1], box[k])]
    BY <2>6, Zenon
  <2>. HIDE DEF run
  <2>8. /\ 0 \in 0 .. n
        /\ \A k \in 1 .. n : k \in 0 .. n /\ k # 0
    BY <1>1
  <2>. QED BY <2>7, <2>8, Zenon
<1>. HIDE DEF run
<1>8. run[n] \in Tables /\ Fair(run[0], run[n], asset, x, SumOf(added), SumOf(taken))
  BY <1>1, <1>5, <1>6, <1>7, RunIsFair
<1>9. SumOf(added) \in Nat /\ SumOf(taken) \in Nat
  <2>1. IsFiniteSet(1 .. n)
    BY <1>1, FS_Interval
  <2>. QED BY <1>6, <2>1, SumIsNat
<1>. QED BY <1>2, <1>3, <1>7, <1>8, <1>9

-----------------------------------------------------------------------------
(* The invariant.                                                          *)

\* Only the portal sends deposits that count, and their amounts are there.
Lawful(blob) ==
    /\ blob \in Blobs(Senders, Amounts)
    /\ blob.sender = PortalContract =>
          /\ blob.transaction = "Deposit"
          /\ \A i \in DOMAIN blob.payments : blob.payments[i].amount \in Nat

BoxInv ==
    /\ inputBlobBox \in Seq(Blobs(Senders, Amounts)) /\ Len(inputBlobBox) <= BoxSize
    /\ \A k \in 1 .. Len(inputBlobBox) : Lawful(inputBlobBox[k])

AmountsInv ==
    /\ balanceOf \in Tables
    /\ held \in [Assets -> Nat] /\ uncredited \in [Assets -> Nat]

WalletInv == BoxInv /\ AmountsInv /\ DepositsAreAccounted

\* What an input adds to an asset once it is executed.
CreditOf(blob, asset) == IF Adds(blob, asset) THEN Total(blob.payments) ELSE 0

\* What waits in a box is a number, and grows with the box.
LEMMA DepositsGrow ==
    ASSUME NEW box \in Seq(Blobs(Senders, Amounts)), \A k \in 1 .. Len(box) : Lawful(box[k]),
           NEW blob, Lawful(blob), NEW asset
    PROVE  /\ DepositsOf(box, asset) \in Nat /\ CreditOf(blob, asset) \in Nat
           /\ DepositsOf(Append(box, blob), asset) = DepositsOf(box, asset) + CreditOf(blob, asset)
<1>. DEFINE n == Len(box)
            more == Append(box, blob)
            h == [k \in 1 .. n + 1 |-> CreditOf(more[k], asset)]
<1>1. /\ n \in Nat /\ DOMAIN box = 1 .. n
      /\ blob \in Blobs(Senders, Amounts)
  BY DEF Lawful
<1>2. /\ DOMAIN more = 1 .. n + 1 /\ more[n + 1] = blob
      /\ \A k \in 1 .. n : more[k] = box[k]
  BY <1>1
<1>. HIDE DEF n, more
<1>3. ASSUME NEW k \in 1 .. n + 1 PROVE CreditOf(more[k], asset) \in Nat
  <2>1. Lawful(more[k])
    <3>1. k = n + 1 \/ k \in 1 .. n
      BY <1>1
    <3>. QED BY <1>2, <3>1 DEF n
  <2>. QED BY <2>1, TotalIsNat DEF Lawful, CreditOf, Adds
<1>4. h \in [1 .. n + 1 -> Nat] /\ n + 1 \in Nat /\ n + 1 <= n + 1
  BY <1>1, <1>3
<1>5. DepositsOf(more, asset) = SumOf([k \in 1 .. n + 1 |-> h[k]])
  BY <1>2 DEF DepositsOf, CreditOf, Adds
<1>6. DepositsOf(box, asset) = SumOf([k \in 1 .. n |-> h[k]])
  <2>1. \A k \in 1 .. n : h[k] = CreditOf(box[k], asset)
    BY <1>1, <1>2
  <2>2. [k \in 1 .. n |-> h[k]] =
        [k \in DOMAIN box |-> IF box[k].sender = PortalContract /\ box[k].asset = asset
                              THEN Total(box[k].payments) ELSE 0]
    <3>. HIDE DEF h
    <3>. QED BY <1>1, <2>1 DEF CreditOf, Adds
  <2>. QED BY <2>2 DEF DepositsOf
<1>7. h[n + 1] = CreditOf(blob, asset)
  BY <1>1, <1>2
<1>8. CreditOf(blob, asset) \in Nat
  BY <1>1, <1>2, <1>3
<1>. HIDE DEF h
<1>9. /\ SumOf([k \in 1 .. n + 1 |-> h[k]]) = SumOf([k \in 1 .. n |-> h[k]]) + h[n + 1]
      /\ SumOf([k \in 1 .. n |-> h[k]]) \in Nat
  BY <1>1, <1>4, PartGrows
<1>. QED BY <1>5, <1>6, <1>7, <1>8, <1>9 DEF more

\* So does what waits now, whatever is added.
LEMMA DepositsAreNat ==
    ASSUME NEW box \in Seq(Blobs(Senders, Amounts)), \A k \in 1 .. Len(box) : Lawful(box[k]),
           NEW asset
    PROVE  DepositsOf(box, asset) \in Nat
<1>. DEFINE blob == [transaction |-> "Deposit", asset |-> Ether, payments |-> <<>>,
                     sender |-> PortalContract]
<1>1. Lawful(blob)
  <2>1. blob \in Blobs(Senders, Amounts)
    <3>1. \A R : <<>> \in Seq(R)
      OBVIOUS
    <3>2. <<>> \in Seq([receiver : Addresses, amount : Amounts])
      BY <3>1, Zenon
    <3>. QED BY <3>2 DEF Blobs, Senders, Assets
  <2>. QED BY <2>1 DEF Lawful
<1>. QED BY <1>1, DepositsGrow

\* A batch that does not revert can be executed.
LEMMA LawfulIsExecutable ==
    ASSUME NEW box \in Seq(Blobs(Senders, Amounts)), \A k \in 1 .. Len(box) : Lawful(box[k]),
           ~Reverts(box)
    PROVE  \A k \in 1 .. Len(box) : Executable(box[k])
<1>. SUFFICES ASSUME NEW k \in 1 .. Len(box) PROVE Executable(box[k])
  OBVIOUS
<1>. DEFINE blob == box[k]
<1>1. Lawful(blob) /\ blob \in ToSet(box)
  BY DEF ToSet
<1>. HIDE DEF blob
<1>2. ASSUME blob.transaction = "Transfer", NEW i \in DOMAIN blob.payments
      PROVE  blob.payments[i].amount \in Nat
  <2>1. blob.payments[i] \in ToSet(blob.payments)
    BY DEF ToSet
  <2>2. blob.payments[i].amount # NoAmount
    BY <1>1, <1>2, <2>1 DEF Reverts
  <2>3. blob.payments \in Seq([receiver : Addresses, amount : Amounts])
    BY <1>1 DEF Lawful, Blobs
  <2>4. blob.payments[i] \in [receiver : Addresses, amount : Amounts]
    <3>1. \A R : \A q \in Seq(R) : \A j \in DOMAIN q : q[j] \in R
      OBVIOUS
    <3>. QED BY <2>3, <3>1, Zenon
  <2>5. blob.payments[i].amount \in Amounts
    BY <2>4
  <2>. QED BY <2>2, <2>5 DEF Amounts
<1>3. Executable(blob)
  BY <1>1, <1>2 DEF Executable, Lawful
<1>. QED BY <1>3 DEF blob

\* An input adds what it deposits: to the balances, with what else its batch
\* deposits, or to what waits in the box.  It takes from no holder more than
\* the transfers of that holder.
LEMMA InputIsAccounted ==
    ASSUME BoxInv, balanceOf \in Tables, NEW blob, Lawful(blob), AddInput(blob),
           NEW asset \in Assets, NEW x \in Addresses
    PROVE  /\ BoxInv' /\ balanceOf' \in Tables
           /\ Balances(asset)' + Pending(asset)' =
                  Balances(asset) + Pending(asset) + CreditOf(blob, asset)
           /\ \/ balanceOf' = balanceOf
              \/ /\ TransfersOf(inputBlobBox', asset, x) \in Nat
                 /\ balanceOf[asset][x] <=
                        balanceOf'[asset][x] + TransfersOf(inputBlobBox', asset, x)
<1>. DEFINE box == inputBlobBox
            more == Append(box, blob)
<1>1. /\ box \in Seq(Blobs(Senders, Amounts)) /\ Len(box) < BoxSize /\ BoxSize \in Nat
      /\ \A k \in 1 .. Len(box) : Lawful(box[k])
      /\ blob \in Blobs(Senders, Amounts) /\ inputBlobBox' = more
  BY WalletAssumption DEF BoxInv, AddInput, Lawful
<1>2. /\ more \in Seq(Blobs(Senders, Amounts)) /\ Len(more) = Len(box) + 1
      /\ \A k \in 1 .. Len(more) : Lawful(more[k])
  <2>1. /\ more \in Seq(Blobs(Senders, Amounts)) /\ Len(more) = Len(box) + 1
        /\ more[Len(box) + 1] = blob /\ Len(box) \in Nat
        /\ \A k \in 1 .. Len(box) : more[k] = box[k]
    BY <1>1
  <2>2. \A k \in 1 .. Len(more) : k = Len(box) + 1 \/ k \in 1 .. Len(box)
    BY <2>1
  <2>. HIDE DEF more, box
  <2>. QED BY <1>1, <2>1, <2>2
<1>3. BoxInv'
  <2>. HIDE DEF more, box
  <2>1. Len(more) <= BoxSize
    BY <1>1, <1>2
  <2>. QED BY <1>1, <1>2, <2>1 DEF BoxInv, Lawful
<1>4. /\ DepositsOf(box, asset) \in Nat /\ CreditOf(blob, asset) \in Nat
      /\ DepositsOf(more, asset) = DepositsOf(box, asset) + CreditOf(blob, asset)
  BY <1>1, DepositsGrow
<1>5. /\ Pending(asset) = DepositsOf(box, asset)
      /\ Pending(asset)' = IF Len(more) = BoxSize THEN 0 ELSE DepositsOf(more, asset)
  <2>1. Len(box) # BoxSize
    BY <1>1
  <2>. QED BY <1>1, <2>1 DEF Pending
<1>6. Balances(asset) \in Nat
  <2>1. balanceOf[asset] \in [Addresses -> Nat] /\ IsFiniteSet(Addresses)
    BY WalletAssumption DEF Tables
  <2>. QED BY <2>1, SumIsNat DEF Balances
<1>. HIDE DEF more, box
<1>7. CASE Len(more) = BoxSize
  <2>1. ~Reverts(more) /\ balanceOf' = ProcessBatchInputs(balanceOf, more)
    BY <1>1, <1>7 DEF AddInput
  <2>2. \A k \in 1 .. Len(more) : Executable(more[k])
    BY <1>2, <2>1, LawfulIsExecutable
  <2>3. /\ balanceOf' \in Tables
        /\ Fair(balanceOf, balanceOf', asset, x, DepositsOf(more, asset), TransfersOf(more, asset, x))
        /\ TransfersOf(more, asset, x) \in Nat
    <3>. DEFINE c == ProcessBatchInputs(balanceOf, more)
    <3>1. /\ c \in Tables
          /\ Fair(balanceOf, c, asset, x, DepositsOf(more, asset), TransfersOf(more, asset, x))
          /\ TransfersOf(more, asset, x) \in Nat
      BY <1>2, <2>2, OneBatch
    <3>2. balanceOf' = c
      BY <2>1
    <3>. HIDE DEF c
    <3>. QED BY <3>1, <3>2
  <2>4. /\ Balances(asset)' = Balances(asset) + DepositsOf(more, asset)
        /\ balanceOf[asset][x] <= balanceOf'[asset][x] + TransfersOf(more, asset, x)
    BY <2>3 DEF Fair, Balances
  <2>5. Balances(asset)' + Pending(asset)' =
            Balances(asset) + Pending(asset) + CreditOf(blob, asset)
    BY <1>4, <1>5, <1>6, <1>7, <2>4
  <2>. QED BY <1>1, <1>3, <2>3, <2>4, <2>5
<1>8. CASE Len(more) # BoxSize
  <2>1. balanceOf' = balanceOf
    BY <1>1, <1>8 DEF AddInput
  <2>2. Balances(asset)' = Balances(asset)
    BY <2>1 DEF Balances
  <2>3. Balances(asset)' + Pending(asset)' =
            Balances(asset) + Pending(asset) + CreditOf(blob, asset)
    BY <1>4, <1>5, <1>6, <1>8, <2>2
  <2>. QED BY <1>3, <2>1, <2>3
<1>. QED BY <1>7, <1>8

\* What is counted are numbers.
LEMMA SumsAreNat ==
    ASSUME BoxInv, balanceOf \in Tables, NEW a \in Assets
    PROVE  Balances(a) \in Nat /\ Pending(a) \in Nat
<1>1. Balances(a) \in Nat
  <2>1. balanceOf[a] \in [Addresses -> Nat] /\ IsFiniteSet(Addresses)
    BY WalletAssumption DEF Tables
  <2>. QED BY <2>1, SumIsNat DEF Balances
<1>2. DepositsOf(inputBlobBox, a) \in Nat
  BY DepositsAreNat DEF BoxInv
<1>. QED BY <1>1, <1>2 DEF Pending

\* The payments of a deposit are what a portal may be asked for.
LEMMA DepositIsLawful ==
    ASSUME NEW asset \in Assets, NEW payments \in DepositLists
    PROVE  /\ Lawful(DepositBlob(asset, payments)) /\ Total(payments) \in Nat
           /\ \A a : CreditOf(DepositBlob(asset, payments), a) =
                         IF a = asset THEN Total(payments) ELSE 0
<1>. DEFINE blob == DepositBlob(asset, payments)
<1>1. payments \in Seq([receiver : Addresses, amount : Nat])
  BY WalletAssumption
<1>2. payments \in Seq([receiver : Addresses, amount : Amounts])
  <2>1. [receiver : Addresses, amount : Nat] \subseteq [receiver : Addresses, amount : Amounts]
    BY DEF Amounts
  <2>2. \A R, T : R \subseteq T => Seq(R) \subseteq Seq(T)
    OBVIOUS
  <2>. QED BY <1>1, <2>1, <2>2, Zenon
<1>3. \A j \in DOMAIN payments : payments[j].amount \in Nat
  <2>1. \A R : \A q \in Seq(R) : \A j \in DOMAIN q : q[j] \in R
    OBVIOUS
  <2>2. \A j \in DOMAIN payments : payments[j] \in [receiver : Addresses, amount : Nat]
    BY <1>1, <2>1, Zenon
  <2>. QED BY <2>2
<1>4. /\ blob.payments = payments /\ blob.asset = asset
      /\ blob.sender = PortalContract /\ blob.transaction = "Deposit"
  BY DEF DepositBlob
<1>5. blob \in Blobs(Senders, Amounts)
  BY <1>2 DEF DepositBlob, Blobs, Senders
<1>. HIDE DEF blob
<1>6. Lawful(blob)
  BY <1>3, <1>4, <1>5 DEF Lawful
<1>7. Total(payments) \in Nat
  BY <1>3, <1>4, <1>5, TotalIsNat
<1>8. \A a : CreditOf(blob, a) = IF a = asset THEN Total(payments) ELSE 0
  BY <1>4 DEF CreditOf, Adds
<1>. QED BY <1>6, <1>7, <1>8 DEF blob

\* Nor do users send deposits that count.
LEMMA UserIsLawful ==
    ASSUME NEW blob \in UserInputs
    PROVE  Lawful(blob) /\ \A a : CreditOf(blob, a) = 0
<1>1. /\ blob \in Blobs(Addresses, Amounts) /\ PortalContract \notin Addresses
  BY WalletAssumption DEF Amounts
<1>2. blob \in Blobs(Senders, Amounts) /\ blob.sender # PortalContract
  BY <1>1 DEF Blobs, Senders
<1>. QED BY <1>2 DEF Lawful, CreditOf, Adds

\* A deposit adds to the portal what its input adds, or to what nobody is
\* credited with.
LEMMA DepositKeeps ==
    ASSUME WalletInv, NEW asset \in Assets, NEW payments \in DepositLists,
           NEW s \in Nat, Deposit(asset, payments, Total(payments) + s)
    PROVE  WalletInv'
<1>. DEFINE blob == DepositBlob(asset, payments)
            t == Total(payments)
            d(a) == IF a = asset THEN t ELSE 0
            e(a) == IF a = asset THEN s ELSE 0
<1>1. Lawful(blob) /\ t \in Nat /\ (\A a : CreditOf(blob, a) = d(a)) /\ AddInput(blob)
  BY DepositIsLawful DEF Deposit
<1>2. BoxInv /\ balanceOf \in Tables /\ held \in [Assets -> Nat] /\ uncredited \in [Assets -> Nat]
  BY DEF WalletInv, AmountsInv
<1>. HIDE DEF blob, t
<1>3. ASSUME NEW a \in Assets
      PROVE  /\ held'[a] = held[a] + d(a) + e(a) /\ held'[a] \in Nat
             /\ uncredited'[a] = uncredited[a] + e(a) /\ uncredited'[a] \in Nat
  <2>1. /\ held' = [held EXCEPT ![asset] = @ + (t + s)]
        /\ uncredited' = [uncredited EXCEPT ![asset] = @ + ((t + s) - t)]
    BY DEF Deposit, t
  <2>2. (t + s) - t = s /\ s \in Nat
    BY <1>1
  <2>3. /\ a = asset => held'[a] = held[a] + (t + s) /\ uncredited'[a] = uncredited[a] + s
        /\ a # asset => held'[a] = held[a] /\ uncredited'[a] = uncredited[a]
    BY <1>2, <2>1, <2>2
  <2>4. held[a] \in Nat /\ uncredited[a] \in Nat
    BY <1>2
  <2>. QED BY ONLY <1>1, <2>2, <2>3, <2>4
<1>4. held' \in [Assets -> Nat] /\ uncredited' \in [Assets -> Nat]
  <2>1. /\ held' = [a \in Assets |-> held'[a]]
        /\ uncredited' = [a \in Assets |-> uncredited'[a]]
    BY <1>2 DEF Deposit
  <2>. QED BY <1>3, <2>1, Zenon
<1>5. PICK x : x \in Addresses
  BY WalletAssumption
<1>6. /\ BoxInv' /\ balanceOf' \in Tables
      /\ \A a \in Assets : Balances(a)' + Pending(a)' = Balances(a) + Pending(a) + d(a)
  <2>1. /\ BoxInv' /\ balanceOf' \in Tables
        /\ \A a \in Assets : Balances(a)' + Pending(a)' =
                                 Balances(a) + Pending(a) + CreditOf(blob, a)
    BY <1>1, <1>2, <1>5, InputIsAccounted
  <2>. QED BY <1>1, <2>1
<1>7. ASSUME NEW a \in Assets
      PROVE  held'[a] = Balances(a)' + Pending(a)' + uncredited'[a]
  <2>1. held[a] = Balances(a) + Pending(a) + uncredited[a]
    BY DEF WalletInv, DepositsAreAccounted
  <2>2. Balances(a)' + Pending(a)' = Balances(a) + Pending(a) + d(a)
    BY <1>6
  <2>3. Balances(a) \in Nat /\ Pending(a) \in Nat
    BY <1>2, SumsAreNat
  <2>4. Balances(a)' \in Nat
    <3>1. balanceOf'[a] \in [Addresses -> Nat] /\ IsFiniteSet(Addresses)
      BY <1>6, WalletAssumption DEF Tables
    <3>. QED BY <3>1, SumIsNat DEF Balances
  <2>5. Pending(a)' \in Nat
    <3>1. DepositsOf(inputBlobBox', a) \in Nat
      BY <1>6, DepositsAreNat DEF BoxInv
    <3>. QED BY <3>1 DEF Pending
  <2>6. d(a) \in Nat /\ e(a) \in Nat /\ uncredited[a] \in Nat
    <3>1. t \in Nat /\ s \in Nat /\ 0 \in Nat
      BY <1>1
    <3>2. d(a) \in Nat /\ e(a) \in Nat
      BY <3>1
    <3>. QED BY <1>2, <3>2
  <2>. HIDE DEF d, e
  <2>. QED BY <1>3, <2>1, <2>2, <2>3, <2>4, <2>5, <2>6
<1>. QED BY <1>4, <1>6, <1>7 DEF WalletInv, AmountsInv, DepositsAreAccounted

\* Nothing waits in an empty box.
LEMMA NothingWaits == \A a : DepositsOf(<<>>, a) = 0
<1>. SUFFICES ASSUME NEW a PROVE DepositsOf(<<>>, a) = 0
  OBVIOUS
<1>. DEFINE box == <<>>
            f == [i \in DOMAIN box |->
                     IF box[i].sender = PortalContract /\ box[i].asset = a
                     THEN Total(box[i].payments) ELSE 0]
<1>1. DOMAIN box = {}
  OBVIOUS
<1>2. f \in [{} -> Nat] /\ \A i \in {} : f[i] = 0
  BY <1>1
<1>. HIDE DEF f
<1>3. SumOf(f) = 0
  BY <1>2, SumOfZeros
<1>. QED BY <1>3 DEF DepositsOf, f

\* The wallet starts empty.
LEMMA InitWallet == Init => WalletInv
<1>. SUFFICES ASSUME Init PROVE WalletInv
  OBVIOUS
<1>1. BoxInv
  <2>1. \A R : <<>> \in Seq(R) /\ Len(<<>>) = 0
    OBVIOUS
  <2>2. <<>> \in Seq(Blobs(Senders, Amounts)) /\ Len(<<>>) = 0
    BY <2>1, Zenon
  <2>. QED BY <2>2, WalletAssumption DEF Init, BoxInv
<1>2. AmountsInv
  BY DEF Init, AmountsInv, Tables
<1>3. ASSUME NEW a \in Assets PROVE held[a] = Balances(a) + Pending(a) + uncredited[a]
  <2>1. held[a] = 0 /\ uncredited[a] = 0
    BY DEF Init
  <2>2. Balances(a) = 0
    <3>1. balanceOf[a] \in [Addresses -> Nat] /\ \A x \in Addresses : balanceOf[a][x] = 0
      BY DEF Init
    <3>. QED BY <3>1, SumOfZeros DEF Balances
  <2>3. Pending(a) = 0
    <3>1. inputBlobBox = <<>>
      BY DEF Init
    <3>. QED BY <3>1, NothingWaits DEF Pending
  <2>. QED BY <2>1, <2>2, <2>3
<1>. QED BY <1>1, <1>2, <1>3 DEF WalletInv, DepositsAreAccounted

\* Clearing the box keeps count of what it clears.
LEMMA ClearingKeeps ==
    ASSUME WalletInv, OnNewEpoch
    PROVE  WalletInv'
<1>1. BoxInv'
  <2>1. \A R : <<>> \in Seq(R) /\ Len(<<>>) = 0
    OBVIOUS
  <2>2. <<>> \in Seq(Blobs(Senders, Amounts)) /\ Len(<<>>) = 0
    BY <2>1, Zenon
  <2>3. inputBlobBox' = <<>>
    BY DEF OnNewEpoch
  <2>. QED BY <2>2, <2>3, WalletAssumption DEF BoxInv
<1>2. /\ BoxInv /\ balanceOf \in Tables /\ balanceOf' = balanceOf
      /\ held \in [Assets -> Nat] /\ held' = held
      /\ uncredited \in [Assets -> Nat]
      /\ uncredited' = [a \in Assets |-> uncredited[a] + Pending(a)]
  BY DEF WalletInv, AmountsInv, OnNewEpoch
<1>3. ASSUME NEW a \in Assets
      PROVE  /\ uncredited'[a] \in Nat
             /\ held'[a] = Balances(a)' + Pending(a)' + uncredited'[a]
  <2>1. Balances(a) \in Nat /\ Pending(a) \in Nat /\ uncredited[a] \in Nat
    BY <1>2, SumsAreNat
  <2>2. Balances(a)' = Balances(a) /\ held'[a] = held[a]
    BY <1>2 DEF Balances
  <2>3. Pending(a)' = 0
    BY NothingWaits DEF Pending, OnNewEpoch
  <2>4. held[a] = Balances(a) + Pending(a) + uncredited[a]
    BY DEF WalletInv, DepositsAreAccounted
  <2>5. uncredited'[a] = uncredited[a] + Pending(a)
    BY <1>2
  <2>. QED BY ONLY <2>1, <2>2, <2>3, <2>4, <2>5
<1>4. uncredited' \in [Assets -> Nat]
  <2>1. uncredited' = [a \in Assets |-> uncredited'[a]]
    BY <1>2
  <2>. QED BY <1>3, <2>1, Zenon
<1>. QED BY <1>1, <1>2, <1>3, <1>4 DEF WalletInv, AmountsInv, DepositsAreAccounted

\* Users' inputs add nothing.
LEMMA UserKeeps ==
    ASSUME WalletInv, NEW blob \in UserInputs, UserInput(blob)
    PROVE  WalletInv'
<1>1. Lawful(blob) /\ AddInput(blob) /\ \A a : CreditOf(blob, a) = 0
  BY UserIsLawful DEF UserInput
<1>2. /\ BoxInv /\ balanceOf \in Tables
      /\ held \in [Assets -> Nat] /\ uncredited \in [Assets -> Nat]
      /\ held' = held /\ uncredited' = uncredited
  BY DEF WalletInv, AmountsInv, UserInput
<1>3. PICK x : x \in Addresses
  BY WalletAssumption
<1>4. /\ BoxInv' /\ balanceOf' \in Tables
      /\ \A a \in Assets : Balances(a)' + Pending(a)' =
                               Balances(a) + Pending(a) + CreditOf(blob, a)
  <2>1. Lawful(blob) /\ AddInput(blob)
    BY <1>1
  <2>. QED BY ONLY <1>2, <1>3, <2>1, InputIsAccounted, WalletAssumption DEF Assets
<1>5. ASSUME NEW a \in Assets
      PROVE  held'[a] = Balances(a)' + Pending(a)' + uncredited'[a]
  <2>1. held[a] = Balances(a) + Pending(a) + uncredited[a]
    BY DEF WalletInv, DepositsAreAccounted
  <2>2. Balances(a)' + Pending(a)' = Balances(a) + Pending(a) + 0
    BY <1>1, <1>4
  <2>3. Balances(a) \in Nat /\ Pending(a) \in Nat
    BY <1>2, SumsAreNat
  <2>. QED BY <1>2, <2>1, <2>2, <2>3
<1>. QED BY <1>2, <1>4, <1>5 DEF WalletInv, AmountsInv, DepositsAreAccounted

\* Every step keeps the invariant.
LEMMA StepWallet == WalletInv /\ [Next]_vars => WalletInv'
<1>. SUFFICES ASSUME WalletInv, [Next]_vars PROVE WalletInv'
  OBVIOUS
<1>1. ASSUME NEW payments \in DepositLists, NEW s \in Surpluses, EtherDeposit(payments, s)
      PROVE  WalletInv'
  <2>1. Ether \in Assets /\ s \in Nat /\ Deposit(Ether, payments, Total(payments) + s)
    BY <1>1, WalletAssumption DEF EtherDeposit, Assets
  <2>. QED BY <2>1, DepositKeeps
<1>2. ASSUME NEW t \in Tokens, NEW payments \in DepositLists, Erc20Deposit(t, payments)
      PROVE  WalletInv'
  <2>1. t \in Assets /\ Deposit(t, payments, Total(payments))
    BY <1>2 DEF Erc20Deposit, Assets
  <2>2. Total(payments) \in Nat
    BY <2>1, DepositIsLawful
  <2>3. Total(payments) + 0 = Total(payments) /\ 0 \in Nat
    BY <2>2
  <2>4. Deposit(t, payments, Total(payments) + 0)
    BY <2>1, <2>3, Zenon
  <2>. QED BY <2>1, <2>3, <2>4, DepositKeeps
<1>3. ASSUME NEW blob \in UserInputs, UserInput(blob) PROVE WalletInv'
  BY <1>3, UserKeeps
<1>4. CASE OnNewEpoch
  BY <1>4, ClearingKeeps
<1>5. CASE UNCHANGED vars
  BY <1>5 DEF vars, WalletInv, BoxInv, AmountsInv, DepositsAreAccounted, Balances, Pending
<1>. QED BY <1>1, <1>2, <1>3, <1>4, <1>5 DEF Next

-----------------------------------------------------------------------------
(* Theorems.                                                               *)

\* What the portal holds of an asset is what the balances of layer 2 add up
\* to, with the deposits that wait in the box and those that nobody is
\* credited with (MockInputImpl.sol:166).
THEOREM DepositsAreAlwaysAccounted == Spec => []DepositsAreAccounted
<1>1. WalletInv => DepositsAreAccounted
  BY DEF WalletInv
<1>. QED BY <1>1, InitWallet, StepWallet, PTL DEF Spec

\* A batch takes from nobody more than their own transfers in it amount to
\* (MockInputImpl.sol:159).
THEOREM OnlyHoldersEverSpend == Spec => OnlyHolderSpends
<1>. DEFINE Spent == \A a \in Assets, x \in Addresses :
                        balanceOf'[a][x] < balanceOf[a][x] =>
                            balanceOf[a][x] - balanceOf'[a][x] <= TransfersOf(inputBlobBox', a, x)
<1>1. ASSUME WalletInv, [Next]_vars PROVE [Spent]_vars
  <2>1. ASSUME NEW blob, Lawful(blob), AddInput(blob) PROVE Spent
    <3>. SUFFICES ASSUME NEW a \in Assets, NEW x \in Addresses,
                         balanceOf'[a][x] < balanceOf[a][x]
                  PROVE  balanceOf[a][x] - balanceOf'[a][x] <= TransfersOf(inputBlobBox', a, x)
      OBVIOUS
    <3>1. /\ balanceOf \in Tables /\ balanceOf' \in Tables
          /\ \/ balanceOf' = balanceOf
             \/ /\ TransfersOf(inputBlobBox', a, x) \in Nat
                /\ balanceOf[a][x] <= balanceOf'[a][x] + TransfersOf(inputBlobBox', a, x)
      BY <1>1, <2>1, InputIsAccounted DEF WalletInv, AmountsInv
    <3>2. balanceOf[a][x] \in Nat /\ balanceOf'[a][x] \in Nat
      BY <3>1 DEF Tables
    <3>3. balanceOf' # balanceOf
      BY <3>2
    <3>. QED BY <3>1, <3>2, <3>3
  <2>2. ASSUME balanceOf' = balanceOf PROVE Spent
    <3>. SUFFICES ASSUME NEW a \in Assets, NEW x \in Addresses,
                         balanceOf'[a][x] < balanceOf[a][x]
                  PROVE  FALSE
      OBVIOUS
    <3>1. balanceOf[a][x] \in Nat
      BY <1>1 DEF WalletInv, AmountsInv, Tables
    <3>. QED BY <2>2, <3>1
  <2>. HIDE DEF Spent
  <2>3. ASSUME NEW asset \in Assets, NEW payments \in DepositLists, NEW value,
               Deposit(asset, payments, value)
        PROVE  Spent
    BY <2>1, <2>3, DepositIsLawful DEF Deposit
  <2>4. CASE Next
    BY <2>1, <2>2, <2>3, <2>4, UserIsLawful
    DEF Next, EtherDeposit, Erc20Deposit, UserInput, OnNewEpoch, Assets
  <2>. QED BY <1>1, <2>4
<1>2. WalletInv /\ [Next]_vars => [Spent]_vars
  BY <1>1
<1>. QED BY <1>2, InitWallet, StepWallet, PTL DEF Spec, OnlyHolderSpends

=============================================================================
