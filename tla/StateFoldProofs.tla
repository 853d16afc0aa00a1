---------------------------- MODULE StateFoldProofs ----------------------------
(***************************************************************************)
(* Theorems about the off-chain view, for every InputDuration,             *)
(* SafetyMargin, set of blocks and starting epoch.                         *)
(*                                                                         *)
(* Queries: what they select from a log that grows by one block or by one  *)
(* event.  Views(L, e0): the views a node that starts at epoch e0 can hold *)
(* when the contracts have emitted the log L; a sync or a fold over the    *)
(* next good block leads to one of them.  ChainInv: the contracts'         *)
(* storage and timers are what their log says, and every block, also the   *)
(* one being built, is good.  Emitted: what one transaction adds to the    *)
(* log, which is how ChainInv is preserved.  FoldInv joins the invariant   *)
(* of the contracts, ChainInv and ViewInv: the node's view is one of       *)
(* Views(AllLogs(blocks), initialEpoch).  The theorems at the end read the *)
(* properties of StateFold off FoldInv.                                    *)
(***************************************************************************)
EXTENDS StateFold, DescartesV2Proofs, SumProofs

-----------------------------------------------------------------------------
(* What is picked from a sequence that grows.                              *)

PickStep(s, S, X) ==
    [k \in 1 .. Len(s) |-> [x \in X |-> IF s[k] \in S THEN Append(x, s[k]) ELSE x]]

\* Picking is a run over the sequence.
LEMMA PickedRun ==
    ASSUME NEW E, NEW s \in Seq(E), NEW S
    PROVE  \E f \in [0 .. Len(s) -> Seq(E \cap S)] :
               /\ IsRun(f, Len(s), <<>>, PickStep(s, S, Seq(E \cap S)))
               /\ Picked(s, S) = f[Len(s)]
<1>. DEFINE n == Len(s)
            X == Seq(E \cap S)
            step == PickStep(s, S, X)
            run == CHOOSE g : g = [k \in 0 .. n |->
                                      IF k = 0 THEN <<>>
                                      ELSE IF s[k] \in S THEN Append(g[k - 1], s[k]) ELSE g[k - 1]]
<1>1. n \in Nat /\ \A k \in 1 .. n : s[k] \in E
  OBVIOUS
<1>2. <<>> \in X
  OBVIOUS
<1>3. \A k \in 1 .. n : \A x \in X :
          step[k][x] = IF s[k] \in S THEN Append(x, s[k]) ELSE x
  BY DEF PickStep
<1>4. \A k \in 1 .. n : \A x \in X : step[k][x] \in X
  <2>1. ASSUME NEW k \in 1 .. n, NEW x \in X, s[k] \in S PROVE Append(x, s[k]) \in X
    <3>1. s[k] \in E \cap S
      BY <1>1, <2>1
    <3>. QED BY <3>1
  <2>. HIDE DEF n, X, step
  <2>2. ASSUME NEW k \in 1 .. n, NEW x \in X PROVE step[k][x] \in X
    <3>1. step[k][x] = IF s[k] \in S THEN Append(x, s[k]) ELSE x
      BY <1>3
    <3>. QED BY <2>1, <3>1
  <2>. QED BY <2>2
<1>5. Picked(s, S) = run[n]
  BY DEF Picked
<1>. HIDE DEF n, X, step
<1>6. PICK f \in [0 .. n -> X] : IsRun(f, n, <<>>, step)
  BY <1>1, <1>2, <1>4, RunExists
<1>7. ASSUME NEW k \in 0 .. n, k # 0
      PROVE  k \in 1 .. n /\ step[k][f[k - 1]] = IF s[k] \in S THEN Append(f[k - 1], s[k]) ELSE f[k - 1]
  <2>1. k \in 1 .. n /\ k - 1 \in 0 .. n
    BY <1>1, <1>7
  <2>. QED BY <1>3, <2>1
<1>8. f = [k \in 0 .. n |-> IF k = 0 THEN <<>> ELSE step[k][f[k - 1]]]
  BY <1>6 DEF IsRun
<1>9. f = [k \in 0 .. n |-> IF k = 0 THEN <<>>
                            ELSE IF s[k] \in S THEN Append(f[k - 1], s[k]) ELSE f[k - 1]]
  BY <1>7, <1>8, Zenon
<1>10. run = [k \in 0 .. n |-> IF k = 0 THEN <<>>
                               ELSE IF s[k] \in S THEN Append(run[k - 1], s[k]) ELSE run[k - 1]]
  BY <1>9, Zenon
<1>11. run[n] = f[n]
  <2>. DEFINE T == {k \in Nat : k <= n => run[k] = f[k]}
  <2>. HIDE DEF run
  <2>1. 0 \in T
    <3>1. 0 \in 0 .. n
      BY <1>1
    <3>. QED BY <1>9, <1>10, <3>1
  <2>2. ASSUME NEW k \in Nat, k \in T, k + 1 <= n PROVE run[k + 1] = f[k + 1]
    <3>1. k + 1 \in 0 .. n /\ k + 1 # 0 /\ (k + 1) - 1 = k /\ k <= n
      BY <1>1, <2>2
    <3>2. f[k + 1] = IF s[k + 1] \in S THEN Append(f[k], s[k + 1]) ELSE f[k]
      BY <1>9, <3>1, Zenon
    <3>3. run[k + 1] = IF s[k + 1] \in S THEN Append(run[k], s[k + 1]) ELSE run[k]
      BY <1>10, <3>1, Zenon
    <3>4. run[k] = f[k]
      BY <2>2, <3>1
    <3>. QED BY <3>2, <3>3, <3>4
  <2>3. Nat \subseteq T
    <3>1. \A k \in Nat : k \in T => k + 1 \in T
      BY <2>2
    <3>. QED BY <2>1, <3>1, NatSetInduction
  <2>. QED BY <1>1, <2>3
<1>. QED BY <1>5, <1>6, <1>11 DEF n, X, step

\* From a longer sequence at most its last element more is picked.
LEMMA PickedAppend ==
    ASSUME NEW E, NEW s \in Seq(E), NEW e \in E, NEW S
    PROVE  /\ Picked(s, S) \in Seq(E \cap S)
           /\ Picked(Append(s, e), S) = IF e \in S THEN Append(Picked(s, S), e) ELSE Picked(s, S)
<1>. DEFINE X == Seq(E \cap S)
            t == Append(s, e)
            n == Len(s)
<1>1. /\ n \in Nat /\ t \in Seq(E) /\ Len(t) = n + 1 /\ t[n + 1] = e
      /\ \A k \in 1 .. n : t[k] = s[k]
  OBVIOUS
<1>2. PICK f \in [0 .. n -> X] : IsRun(f, n, <<>>, PickStep(s, S, X)) /\ Picked(s, S) = f[n]
  BY PickedRun
<1>3. PICK g \in [0 .. Len(t) -> X] :
          IsRun(g, Len(t), <<>>, PickStep(t, S, X)) /\ Picked(t, S) = g[Len(t)]
  BY <1>1, PickedRun
<1>. HIDE DEF t, n, X
<1>4. \A k \in 1 .. n : PickStep(t, S, X)[k] = PickStep(s, S, X)[k]
  <2>1. \A k \in 1 .. n : k \in 1 .. n + 1 /\ k \in 1 .. Len(s) /\ k \in 1 .. Len(t)
    BY <1>1 DEF n
  <2>. QED BY <1>1, <2>1 DEF PickStep
<1>5. g[n + 1] = PickStep(t, S, X)[n + 1][f[n]]
  BY <1>1, <1>2, <1>3, <1>4, RunGrows
<1>6. f[n] \in X /\ n + 1 \in 1 .. Len(t)
  BY <1>1, <1>2
<1>7. PickStep(t, S, X)[n + 1][f[n]] = IF e \in S THEN Append(f[n], e) ELSE f[n]
  BY <1>1, <1>6 DEF PickStep
<1>. QED BY <1>1, <1>2, <1>3, <1>5, <1>6, <1>7 DEF t, X

\* Nothing is picked from the empty sequence.
LEMMA PickedEmpty ==
    ASSUME NEW S PROVE Picked(<<>>, S) = <<>>
<1>. DEFINE s == <<>>
            X == Seq({} \cap S)
<1>1. s \in Seq({}) /\ Len(s) = 0
  OBVIOUS
<1>. HIDE DEF s, X
<1>2. PICK f \in [0 .. Len(s) -> X] :
          IsRun(f, Len(s), <<>>, PickStep(s, S, X)) /\ Picked(s, S) = f[Len(s)]
  BY <1>1, PickedRun DEF X
<1>3. 0 \in 0 .. Len(s)
  BY <1>1
<1>4. f[0] = <<>>
  BY <1>2, <1>3, Zenon DEF IsRun
<1>. QED BY <1>1, <1>2, <1>4 DEF s

\* Induction over sequences: what holds of the empty one, and of every longer one
\* if of the shorter, is stated of the sequences in a set.
LEMMA SeqSetInduction ==
    ASSUME NEW E, NEW P, <<>> \in P, \A s \in Seq(E) : \A e \in E : s \in P => Append(s, e) \in P
    PROVE  Seq(E) \subseteq P
<1>. DEFINE T == {n \in Nat : \A s \in Seq(E) : Len(s) = n => s \in P}
<1>1. 0 \in T
  <2>1. \A s \in Seq(E) : Len(s) = 0 => s = <<>>
    OBVIOUS
  <2>. QED BY <2>1
<1>2. ASSUME NEW n \in Nat, n \in T, NEW s \in Seq(E), Len(s) = n + 1 PROVE s \in P
  <2>. DEFINE front == [i \in 1 .. n |-> s[i]]
  <2>1. front \in Seq(E) /\ Len(front) = n /\ s[n + 1] \in E
    BY <1>2
  <2>2. s = Append(front, s[n + 1])
    BY <1>2, <2>1
  <2>. HIDE DEF front
  <2>3. front \in P
    BY <1>2, <2>1
  <2>4. Append(front, s[n + 1]) \in P
    BY <2>1, <2>3
  <2>. QED BY <2>2, <2>4
<1>3. Nat \subseteq T
  <2>1. \A n \in Nat : n \in T => n + 1 \in T
    BY <1>2
  <2>. HIDE DEF T
  <2>. QED BY <1>1, <2>1, NatSetInduction
<1>. QED
  <2>. SUFFICES ASSUME NEW s \in Seq(E) PROVE s \in P
    OBVIOUS
  <2>1. Len(s) \in Nat
    OBVIOUS
  <2>2. Len(s) \in T
    BY <1>3, <2>1
  <2>. QED BY <2>2

\* A longer sequence has its last element more.
LEMMA AppendRange ==
    ASSUME NEW E, NEW s \in Seq(E), NEW e
    PROVE  ToSet(Append(s, e)) = ToSet(s) \cup {e}
<1>1. /\ Len(s) \in Nat /\ DOMAIN s = 1 .. Len(s)
      /\ DOMAIN Append(s, e) = 1 .. Len(s) + 1
      /\ Append(s, e)[Len(s) + 1] = e
      /\ \A i \in 1 .. Len(s) : Append(s, e)[i] = s[i]
  <2>1. s \in Seq(E \cup {e}) /\ e \in E \cup {e}
    OBVIOUS
  <2>. QED BY <2>1
<1>2. \A i \in 1 .. Len(s) + 1 : i \in 1 .. Len(s) \/ i = Len(s) + 1
  BY <1>1
<1>3. \A i \in 1 .. Len(s) : i \in 1 .. Len(s) + 1
  BY <1>1
<1>4. Len(s) + 1 \in 1 .. Len(s) + 1
  BY <1>1
<1>. QED BY <1>1, <1>2, <1>3, <1>4 DEF ToSet

\* What is picked are the elements that are in S.
LEMMA PickedRange ==
    ASSUME NEW E, NEW s \in Seq(E), NEW S
    PROVE  /\ Picked(s, S) \in Seq(E \cap S) /\ Picked(s, S) \in Seq(E)
           /\ ToSet(Picked(s, S)) = ToSet(s) \cap S
<1>. DEFINE P == {t \in Seq(E) : /\ Picked(t, S) \in Seq(E \cap S)
                                 /\ ToSet(Picked(t, S)) = ToSet(t) \cap S}
<1>1. <<>> \in P
  <2>1. ToSet(<<>>) = {} /\ <<>> \in Seq(E) /\ <<>> \in Seq(E \cap S)
    BY DEF ToSet
  <2>. QED BY <2>1, PickedEmpty
<1>2. ASSUME NEW t \in Seq(E), NEW e \in E, t \in P PROVE Append(t, e) \in P
  <2>1. Append(t, e) \in Seq(E) /\ ToSet(Append(t, e)) = ToSet(t) \cup {e}
    BY AppendRange
  <2>2. CASE e \in S
    <3>1. Picked(Append(t, e), S) = Append(Picked(t, S), e) /\ e \in E \cap S
      <4>1. Picked(Append(t, e), S) =
                IF e \in S THEN Append(Picked(t, S), e) ELSE Picked(t, S)
        BY PickedAppend
      <4>. QED BY <2>2, <4>1
    <3>2. ToSet(Append(Picked(t, S), e)) = ToSet(Picked(t, S)) \cup {e}
      BY <1>2, <3>1, AppendRange
    <3>3. Append(Picked(t, S), e) \in Seq(E \cap S)
      BY <1>2, <3>1
    <3>. QED BY <1>2, <2>1, <2>2, <3>1, <3>2, <3>3
  <2>3. CASE e \notin S
    <3>1. Picked(Append(t, e), S) = Picked(t, S)
      <4>1. Picked(Append(t, e), S) =
                IF e \in S THEN Append(Picked(t, S), e) ELSE Picked(t, S)
        BY PickedAppend
      <4>. QED BY <2>3, <4>1
    <3>. QED BY <1>2, <2>1, <2>3, <3>1
  <2>. QED BY <2>2, <2>3
<1>3. Seq(E) \subseteq P
  <2>. HIDE DEF P
  <2>. QED BY <1>1, <1>2, SeqSetInduction
<1>4. \A q \in Seq(E \cap S) : q \in Seq(E)
  OBVIOUS
<1>. QED BY <1>3, <1>4

\* What is picked from two sequences in a row is picked from each.
LEMMA PickedConcat ==
    ASSUME NEW E, NEW s \in Seq(E), NEW t \in Seq(E), NEW S
    PROVE  Picked(s \o t, S) = Picked(s, S) \o Picked(t, S)
<1>. DEFINE P == {u \in Seq(E) : Picked(s \o u, S) = Picked(s, S) \o Picked(u, S)}
<1>0. Picked(s, S) \in Seq(E)
  BY PickedRange
<1>1. <<>> \in P
  <2>1. s \o <<>> = s /\ Picked(s, S) \o <<>> = Picked(s, S) /\ <<>> \in Seq(E)
    BY <1>0
  <2>. QED BY <2>1, PickedEmpty
<1>2. ASSUME NEW u \in Seq(E), NEW e \in E, u \in P PROVE Append(u, e) \in P
  <2>1. s \o Append(u, e) = Append(s \o u, e) /\ s \o u \in Seq(E) /\ Append(u, e) \in Seq(E)
    OBVIOUS
  <2>2. Picked(u, S) \in Seq(E)
    BY PickedRange
  <2>3. Picked(Append(s \o u, e), S) =
            IF e \in S THEN Append(Picked(s \o u, S), e) ELSE Picked(s \o u, S)
    BY <2>1, PickedAppend
  <2>4. Picked(Append(u, e), S) = IF e \in S THEN Append(Picked(u, S), e) ELSE Picked(u, S)
    BY PickedAppend
  <2>5. Picked(s, S) \o Append(Picked(u, S), e) = Append(Picked(s, S) \o Picked(u, S), e)
    BY <1>0, <2>2
  <2>. QED BY <1>2, <2>1, <2>3, <2>4, <2>5
<1>3. Seq(E) \subseteq P
  <2>. HIDE DEF P
  <2>. QED BY <1>1, <1>2, SeqSetInduction
<1>. QED BY <1>3

\* Only membership of its elements matters.
LEMMA PickedSame ==
    ASSUME NEW E, NEW s \in Seq(E), NEW S, NEW T, \A x \in ToSet(s) : x \in S <=> x \in T
    PROVE  Picked(s, S) = Picked(s, T)
<1>. DEFINE P == {u \in Seq(E) : (\A x \in ToSet(u) : x \in S <=> x \in T) =>
                                     Picked(u, S) = Picked(u, T)}
<1>1. <<>> \in P
  <2>1. <<>> \in Seq(E)
    OBVIOUS
  <2>. QED BY <2>1, PickedEmpty
<1>2. ASSUME NEW u \in Seq(E), NEW e \in E, u \in P PROVE Append(u, e) \in P
  <2>1. Append(u, e) \in Seq(E) /\ ToSet(Append(u, e)) = ToSet(u) \cup {e}
    BY AppendRange
  <2>2. /\ Picked(Append(u, e), S) = IF e \in S THEN Append(Picked(u, S), e) ELSE Picked(u, S)
        /\ Picked(Append(u, e), T) = IF e \in T THEN Append(Picked(u, T), e) ELSE Picked(u, T)
    BY PickedAppend
  <2>3. ASSUME \A x \in ToSet(Append(u, e)) : x \in S <=> x \in T
        PROVE  Picked(Append(u, e), S) = Picked(Append(u, e), T)
    <3>1. (e \in S <=> e \in T) /\ \A x \in ToSet(u) : x \in S <=> x \in T
      BY <2>1, <2>3
    <3>2. Picked(u, S) = Picked(u, T)
      BY <1>2, <3>1
    <3>. QED BY <2>2, <3>1, <3>2
  <2>. QED BY <2>1, <2>3
<1>3. Seq(E) \subseteq P
  <2>. HIDE DEF P
  <2>. QED BY <1>1, <1>2, SeqSetInduction
<1>. QED BY <1>3

-----------------------------------------------------------------------------
(* The log of a chain.                                                     *)

AllEvents ==
    [kind : {"PhaseChange"}, ts : Nat, phase : Phases]
        \cup [kind : {"Claim"}, ts : Nat, epoch : Nat, claimer : Addresses, hash : Claims]
        \cup [kind : {"InputAdded"}, ts : Nat, epoch : Nat, input : Inputs]
        \cup [kind : {"FinalizeEpoch"}, ts : Nat, epoch : Nat, hash : Claims]

AllBlocks == [timestamp : Nat, logs : Seq(AllEvents), noise : Noise]

LogStep(chain) ==
    [k \in 1 .. Len(chain) |-> [x \in Seq(AllEvents) |-> x \o chain[k].logs]]

\* The log is a run over the blocks.
LEMMA LogsRun ==
    ASSUME NEW chain \in Seq(AllBlocks)
    PROVE  \E f \in [0 .. Len(chain) -> Seq(AllEvents)] :
               /\ IsRun(f, Len(chain), <<>>, LogStep(chain))
               /\ AllLogs(chain) = f[Len(chain)]
<1>. DEFINE n == Len(chain)
            X == Seq(AllEvents)
            step == LogStep(chain)
            run == CHOOSE g : g = [k \in 0 .. n |->
                                      IF k = 0 THEN <<>> ELSE g[k - 1] \o chain[k].logs]
<1>1. n \in Nat /\ \A k \in 1 .. n : chain[k].logs \in X
  <2>1. \A k \in 1 .. n : chain[k] \in AllBlocks
    OBVIOUS
  <2>. QED BY <2>1 DEF AllBlocks
<1>2. <<>> \in X /\ \A x, y \in X : x \o y \in X
  OBVIOUS
<1>3. \A k \in 1 .. n : \A x \in X : step[k][x] = x \o chain[k].logs
  BY DEF LogStep
<1>. HIDE DEF X
<1>4. \A k \in 1 .. n : \A x \in X : step[k][x] \in X
  BY <1>1, <1>2, <1>3
<1>5. AllLogs(chain) = run[n]
  BY DEF AllLogs
<1>. HIDE DEF n, step
<1>6. PICK f \in [0 .. n -> X] : IsRun(f, n, <<>>, step)
  BY <1>1, <1>2, <1>4, RunExists
<1>7. ASSUME NEW k \in 0 .. n, k # 0
      PROVE  k \in 1 .. n /\ step[k][f[k - 1]] = f[k - 1] \o chain[k].logs
  <2>1. k \in 1 .. n /\ k - 1 \in 0 .. n
    BY <1>1, <1>7
  <2>. QED BY <1>3, <2>1
<1>8. f = [k \in 0 .. n |-> IF k = 0 THEN <<>> ELSE step[k][f[k - 1]]]
  BY <1>6 DEF IsRun
<1>9. f = [k \in 0 .. n |-> IF k = 0 THEN <<>> ELSE f[k - 1] \o chain[k].logs]
  BY <1>7, <1>8, Zenon
<1>10. run = [k \in 0 .. n |-> IF k = 0 THEN <<>> ELSE run[k - 1] \o chain[k].logs]
  BY <1>9, Zenon
<1>11. run[n] = f[n]
  <2>. DEFINE T == {k \in Nat : k <= n => run[k] = f[k]}
  <2>. HIDE DEF run
  <2>1. 0 \in T
    <3>1. 0 \in 0 .. n
      BY <1>1
    <3>. QED BY <1>9, <1>10, <3>1
  <2>2. ASSUME NEW k \in Nat, k \in T, k + 1 <= n PROVE run[k + 1] = f[k + 1]
    <3>1. k + 1 \in 0 .. n /\ k + 1 # 0 /\ (k + 1) - 1 = k /\ k <= n
      BY <1>1, <2>2
    <3>2. f[k + 1] = f[k] \o chain[k + 1].logs
      BY <1>9, <3>1, Zenon
    <3>3. run[k + 1] = run[k] \o chain[k + 1].logs
      BY <1>10, <3>1, Zenon
    <3>4. run[k] = f[k]
      BY <2>2, <3>1
    <3>. QED BY <3>2, <3>3, <3>4
  <2>3. Nat \subseteq T
    <3>1. \A k \in Nat : k \in T => k + 1 \in T
      BY <2>2
    <3>. QED BY <2>1, <3>1, NatSetInduction
  <2>. QED BY <1>1, <2>3
<1>. QED BY <1>5, <1>6, <1>11 DEF n, X, step

\* One more block adds its events.
LEMMA LogsGrow ==
    ASSUME NEW chain \in Seq(AllBlocks), NEW b \in AllBlocks
    PROVE  /\ AllLogs(chain) \in Seq(AllEvents)
           /\ AllLogs(Append(chain, b)) = AllLogs(chain) \o b.logs
<1>. DEFINE X == Seq(AllEvents)
            t == Append(chain, b)
            n == Len(chain)
<1>1. /\ n \in Nat /\ t \in Seq(AllBlocks) /\ Len(t) = n + 1 /\ t[n + 1] = b
      /\ \A k \in 1 .. n : t[k] = chain[k]
  OBVIOUS
<1>2. PICK f \in [0 .. n -> X] : IsRun(f, n, <<>>, LogStep(chain)) /\ AllLogs(chain) = f[n]
  BY LogsRun
<1>3. PICK g \in [0 .. Len(t) -> X] :
          IsRun(g, Len(t), <<>>, LogStep(t)) /\ AllLogs(t) = g[Len(t)]
  BY <1>1, LogsRun
<1>. HIDE DEF t, n, X
<1>4. \A k \in 1 .. n : LogStep(t)[k] = LogStep(chain)[k]
  <2>1. \A k \in 1 .. n : k \in 1 .. n + 1 /\ k \in 1 .. Len(chain) /\ k \in 1 .. Len(t)
    BY <1>1 DEF n
  <2>. QED BY <1>1, <2>1 DEF LogStep
<1>5. g[n + 1] = LogStep(t)[n + 1][f[n]]
  BY <1>1, <1>2, <1>3, <1>4, RunGrows
<1>6. f[n] \in X /\ n + 1 \in 1 .. Len(t)
  BY <1>1, <1>2
<1>7. LogStep(t)[n + 1][f[n]] = f[n] \o b.logs
  BY <1>1, <1>6 DEF LogStep, X
<1>. QED BY <1>1, <1>2, <1>3, <1>5, <1>6, <1>7 DEF t, X

\* A chain without blocks has an empty log.
LEMMA NoLogs == AllLogs(<<>>) = <<>>
<1>. DEFINE chain == <<>>
<1>1. chain \in Seq(AllBlocks) /\ Len(chain) = 0
  OBVIOUS
<1>. HIDE DEF chain
<1>2. PICK f \in [0 .. Len(chain) -> Seq(AllEvents)] :
          IsRun(f, Len(chain), <<>>, LogStep(chain)) /\ AllLogs(chain) = f[Len(chain)]
  BY <1>1, LogsRun
<1>3. 0 \in 0 .. Len(chain)
  BY <1>1
<1>4. f[0] = <<>>
  BY <1>2, <1>3, Zenon DEF IsRun
<1>. QED BY <1>1, <1>2, <1>4 DEF chain

\* A log consists of events.
LEMMA AllLogsType ==
    ASSUME NEW chain \in Seq(AllBlocks)
    PROVE  AllLogs(chain) \in Seq(AllEvents)
<1>1. PICK f \in [0 .. Len(chain) -> Seq(AllEvents)] : AllLogs(chain) = f[Len(chain)]
  BY LogsRun
<1>2. Len(chain) \in 0 .. Len(chain)
  OBVIOUS
<1>. QED BY <1>1, <1>2

-----------------------------------------------------------------------------
(* What a log says.                                                        *)

Changes(L) == Query(L, "PhaseChange")
Finals(L)  == Query(L, "FinalizeEpoch")
AddedTo(L, e)   == QueryEpoch(L, "InputAdded", e)
ClaimedOf(L, e) == QueryEpoch(L, "Claim", e)

PhaseOf(L)   == IF Changes(L) = <<>> THEN "InputAccumulation" ELSE Last(Changes(L)).phase
ChangedOf(L) == IF Changes(L) = <<>> THEN None ELSE Last(Changes(L)).ts
InputsOf(L, e) == [i \in 1 .. Len(AddedTo(L, e)) |-> AddedTo(L, e)[i].input]
ClaimsOf(L, e) == ClaimsIn(ClaimedOf(L, e))
FirstOf(L, e)  == IF ClaimedOf(L, e) = <<>> THEN None ELSE ClaimedOf(L, e)[1].ts

\* The elements of two sequences in a row are those of each.
LEMMA ConcatRange ==
    ASSUME NEW E, NEW s \in Seq(E), NEW t \in Seq(E)
    PROVE  ToSet(s \o t) = ToSet(s) \cup ToSet(t)
<1>. DEFINE u == s \o t
<1>1. /\ u \in Seq(E) /\ Len(u) = Len(s) + Len(t) /\ Len(s) \in Nat /\ Len(t) \in Nat
      /\ \A i \in 1 .. Len(s) : u[i] = s[i]
      /\ \A i \in 1 .. Len(t) : u[Len(s) + i] = t[i]
      /\ DOMAIN u = 1 .. Len(u) /\ DOMAIN s = 1 .. Len(s) /\ DOMAIN t = 1 .. Len(t)
  OBVIOUS
<1>. HIDE DEF u
<1>2. ASSUME NEW i \in 1 .. Len(u) PROVE u[i] \in ToSet(s) \cup ToSet(t)
  <2>1. CASE i <= Len(s)
    <3>1. i \in 1 .. Len(s)
      BY <1>1, <2>1
    <3>. QED BY <1>1, <3>1 DEF ToSet
  <2>2. CASE ~(i <= Len(s))
    <3>1. i - Len(s) \in 1 .. Len(t) /\ Len(s) + (i - Len(s)) = i
      BY <1>1, <2>2
    <3>2. u[i] = t[i - Len(s)]
      BY <1>1, <3>1
    <3>. QED BY <1>1, <3>1, <3>2 DEF ToSet
  <2>. QED BY <2>1, <2>2
<1>3. ASSUME NEW i \in 1 .. Len(s) PROVE s[i] \in ToSet(u)
  <2>1. i \in 1 .. Len(u)
    BY <1>1
  <2>. QED BY <1>1, <2>1 DEF ToSet
<1>4. ASSUME NEW i \in 1 .. Len(t) PROVE t[i] \in ToSet(u)
  <2>1. Len(s) + i \in 1 .. Len(u)
    BY <1>1
  <2>. QED BY <1>1, <2>1 DEF ToSet
<1>. QED BY <1>1, <1>2, <1>3, <1>4 DEF ToSet, u

\* Queries of a longer log continue those of the shorter.
LEMMA QueriesConcat ==
    ASSUME NEW s \in Seq(AllEvents), NEW t \in Seq(AllEvents), NEW k, NEW e
    PROVE  /\ Query(s \o t, k) = Query(s, k) \o Query(t, k)
           /\ QueryEpoch(s \o t, k, e) = QueryEpoch(s, k, e) \o QueryEpoch(t, k, e)
<1>. DEFINE S(u) == {ev \in OfKind(u, k) : ev.epoch = e}
<1>1. ToSet(s \o t) = ToSet(s) \cup ToSet(t)
  BY ConcatRange
<1>2. /\ \A x \in ToSet(s) : x \in OfKind(s, k) <=> x \in OfKind(s \o t, k)
      /\ \A x \in ToSet(t) : x \in OfKind(t, k) <=> x \in OfKind(s \o t, k)
  BY <1>1 DEF OfKind
<1>3. /\ Picked(s, OfKind(s \o t, k)) = Query(s, k)
      /\ Picked(t, OfKind(s \o t, k)) = Query(t, k)
  <2>1. Picked(s, OfKind(s, k)) = Picked(s, OfKind(s \o t, k))
    BY <1>2, PickedSame
  <2>2. Picked(t, OfKind(t, k)) = Picked(t, OfKind(s \o t, k))
    BY <1>2, PickedSame
  <2>. QED BY <2>1, <2>2 DEF Query
<1>4. Picked(s \o t, OfKind(s \o t, k)) = Picked(s, OfKind(s \o t, k)) \o Picked(t, OfKind(s \o t, k))
  BY PickedConcat
<1>5. /\ \A x \in ToSet(s) : x \in S(s) <=> x \in S(s \o t)
      /\ \A x \in ToSet(t) : x \in S(t) <=> x \in S(s \o t)
  BY <1>2
<1>. HIDE DEF S
<1>6. /\ Picked(s, S(s)) = Picked(s, S(s \o t))
      /\ Picked(t, S(t)) = Picked(t, S(s \o t))
  <2>1. Picked(s, S(s)) = Picked(s, S(s \o t))
    BY <1>5, PickedSame
  <2>2. Picked(t, S(t)) = Picked(t, S(s \o t))
    BY <1>5, PickedSame
  <2>. QED BY <2>1, <2>2
<1>7. Picked(s \o t, S(s \o t)) = Picked(s, S(s \o t)) \o Picked(t, S(s \o t))
  BY PickedConcat
<1>8. \A u : QueryEpoch(u, k, e) = Picked(u, S(u))
  BY DEF QueryEpoch, S
<1>. QED BY <1>3, <1>4, <1>6, <1>7, <1>8 DEF Query

\* What queries find.
LEMMA QueriesFind ==
    ASSUME NEW s \in Seq(AllEvents), NEW k, NEW e
    PROVE  /\ Query(s, k) \in Seq(AllEvents) /\ QueryEpoch(s, k, e) \in Seq(AllEvents)
           /\ ToSet(Query(s, k)) = OfKind(s, k)
           /\ ToSet(QueryEpoch(s, k, e)) = {ev \in OfKind(s, k) : ev.epoch = e}
<1>1. /\ Query(s, k) \in Seq(AllEvents)
      /\ ToSet(Query(s, k)) = ToSet(s) \cap OfKind(s, k)
  BY PickedRange DEF Query
<1>2. /\ QueryEpoch(s, k, e) \in Seq(AllEvents)
      /\ ToSet(QueryEpoch(s, k, e)) = ToSet(s) \cap {ev \in OfKind(s, k) : ev.epoch = e}
  BY PickedRange DEF QueryEpoch
<1>. QED BY <1>1, <1>2 DEF OfKind

\* Queries of one event.
LEMMA QueriesOfOne ==
    ASSUME NEW ev \in AllEvents, NEW k, NEW e
    PROVE  /\ Query(<<ev>>, k) = IF ev.kind = k THEN <<ev>> ELSE <<>>
           /\ QueryEpoch(<<ev>>, k, e) = IF ev.kind = k /\ ev.epoch = e THEN <<ev>> ELSE <<>>
<1>1. /\ <<>> \in Seq(AllEvents) /\ Append(<<>>, ev) = <<ev>> /\ ToSet(<<ev>>) = {ev}
  BY DEF ToSet
<1>2. \A S : Picked(<<ev>>, S) = IF ev \in S THEN <<ev>> ELSE <<>>
  <2>. SUFFICES ASSUME NEW S PROVE Picked(<<ev>>, S) = IF ev \in S THEN <<ev>> ELSE <<>>
    OBVIOUS
  <2>1. Picked(Append(<<>>, ev), S) = IF ev \in S THEN Append(Picked(<<>>, S), ev) ELSE Picked(<<>>, S)
    BY <1>1, PickedAppend
  <2>. QED BY <1>1, <2>1, PickedEmpty
<1>3. Query(<<ev>>, k) = IF ev.kind = k THEN <<ev>> ELSE <<>>
  BY <1>1, <1>2 DEF Query, OfKind
<1>4. QueryEpoch(<<ev>>, k, e) = IF ev.kind = k /\ ev.epoch = e THEN <<ev>> ELSE <<>>
  BY <1>1, <1>2 DEF QueryEpoch, OfKind
<1>. QED BY <1>3, <1>4

\* Queries of no event.
LEMMA QueriesOfNone == \A k, e : Query(<<>>, k) = <<>> /\ QueryEpoch(<<>>, k, e) = <<>>
  BY PickedEmpty DEF Query, QueryEpoch

\* The elements of a sequence are its values at its indices.
LEMMA InRange ==
    ASSUME NEW E, NEW s \in Seq(E)
    PROVE  /\ Len(s) \in Nat /\ DOMAIN s = 1 .. Len(s)
           /\ \A i \in 1 .. Len(s) : s[i] \in E /\ s[i] \in ToSet(s)
           /\ \A x \in ToSet(s) : \E i \in 1 .. Len(s) : x = s[i]
           /\ s # <<>> => Len(s) \in 1 .. Len(s) /\ 1 \in 1 .. Len(s)
           /\ s = <<>> <=> ToSet(s) = {}
<1>1. /\ Len(s) \in Nat /\ DOMAIN s = 1 .. Len(s)
      /\ \A i \in 1 .. Len(s) : s[i] \in E
      /\ s # <<>> => Len(s) \in 1 .. Len(s) /\ 1 \in 1 .. Len(s)
  OBVIOUS
<1>2. /\ \A i \in 1 .. Len(s) : s[i] \in ToSet(s)
      /\ \A x \in ToSet(s) : \E i \in 1 .. Len(s) : x = s[i]
  BY <1>1 DEF ToSet
<1>3. s = <<>> <=> ToSet(s) = {}
  BY <1>1, <1>2
<1>. QED BY <1>1, <1>2, <1>3

\* A sequence of length one is its element.
LEMMA OneElement ==
    ASSUME NEW E, NEW s \in Seq(E), Len(s) = 1
    PROVE  s = <<s[1]>> /\ s[1] \in E
<1>1. s = [i \in 1 .. 1 |-> s[i]] /\ s[1] \in E
  OBVIOUS
<1>2. <<s[1]>> = [i \in 1 .. 1 |-> s[1]]
  OBVIOUS
<1>3. \A i \in 1 .. 1 : i = 1
  OBVIOUS
<1>. QED BY <1>1, <1>2, <1>3

\* The values that a log holds.
LEMMA LogTypes ==
    ASSUME NEW L \in Seq(AllEvents), NEW e
    PROVE  /\ Changes(L) \in Seq(AllEvents) /\ Finals(L) \in Seq(AllEvents)
           /\ AddedTo(L, e) \in Seq(AllEvents) /\ ClaimedOf(L, e) \in Seq(AllEvents)
           /\ \A i \in 1 .. Len(Finals(L)) : Finals(L)[i].epoch \in Nat /\ Finals(L)[i].hash \in Claims
           /\ PhaseOf(L) \in Phases /\ ChangedOf(L) \in Nat
           /\ InputsOf(L, e) \in Seq(Inputs)
           /\ ClaimsOf(L, e) \subseteq Addresses \X Claims
           /\ FirstOf(L, e) \in Nat
           /\ ClaimedOf(L, e) = <<>> <=> ClaimsOf(L, e) = {}
<1>1. /\ Changes(L) \in Seq(AllEvents) /\ Finals(L) \in Seq(AllEvents)
      /\ AddedTo(L, e) \in Seq(AllEvents) /\ ClaimedOf(L, e) \in Seq(AllEvents)
  BY QueriesFind DEF Changes, Finals, AddedTo, ClaimedOf
<1>2. ASSUME NEW ev \in AllEvents
      PROVE  /\ ev.kind = "PhaseChange" => ev.phase \in Phases
             /\ ev.kind = "FinalizeEpoch" => ev.epoch \in Nat /\ ev.hash \in Claims
             /\ ev.kind = "InputAdded" => ev.epoch \in Nat /\ ev.input \in Inputs
             /\ ev.kind = "Claim" => /\ ev.epoch \in Nat /\ ev.claimer \in Addresses
                                     /\ ev.hash \in Claims
             /\ ev.ts \in Nat
  BY DEF AllEvents
<1>3. /\ \A i \in 1 .. Len(Changes(L)) : Changes(L)[i] \in AllEvents /\ Changes(L)[i].kind = "PhaseChange"
      /\ \A i \in 1 .. Len(Finals(L)) : Finals(L)[i] \in AllEvents /\ Finals(L)[i].kind = "FinalizeEpoch"
      /\ \A i \in 1 .. Len(AddedTo(L, e)) : AddedTo(L, e)[i] \in AllEvents /\ AddedTo(L, e)[i].kind = "InputAdded"
      /\ \A i \in 1 .. Len(ClaimedOf(L, e)) : ClaimedOf(L, e)[i] \in AllEvents /\ ClaimedOf(L, e)[i].kind = "Claim"
  <2>1. /\ ToSet(Changes(L)) = OfKind(L, "PhaseChange")
        /\ ToSet(Finals(L)) = OfKind(L, "FinalizeEpoch")
        /\ ToSet(AddedTo(L, e)) \subseteq OfKind(L, "InputAdded")
        /\ ToSet(ClaimedOf(L, e)) \subseteq OfKind(L, "Claim")
    BY QueriesFind DEF Changes, Finals, AddedTo, ClaimedOf
  <2>2. \A s \in Seq(AllEvents) : \A i \in 1 .. Len(s) : s[i] \in AllEvents /\ s[i] \in ToSet(s)
    BY InRange
  <2>3. \A k : \A ev \in OfKind(L, k) : ev.kind = k
    BY DEF OfKind
  <2>. QED BY <1>1, <2>1, <2>2, <2>3
<1>4. PhaseOf(L) \in Phases /\ ChangedOf(L) \in Nat
  <2>1. Changes(L) # <<>> => Len(Changes(L)) \in 1 .. Len(Changes(L))
    BY <1>1, InRange
  <2>. QED BY <1>2, <1>3, <2>1 DEF PhaseOf, ChangedOf, Last, Phases, None
<1>5. InputsOf(L, e) \in Seq(Inputs)
  <2>1. Len(AddedTo(L, e)) \in Nat
    BY <1>1
  <2>2. \A i \in 1 .. Len(AddedTo(L, e)) : AddedTo(L, e)[i].input \in Inputs
    BY <1>2, <1>3
  <2>. QED BY <2>1, <2>2 DEF InputsOf
<1>6. /\ ClaimsOf(L, e) \subseteq Addresses \X Claims /\ FirstOf(L, e) \in Nat
      /\ ClaimedOf(L, e) = <<>> <=> ClaimsOf(L, e) = {}
  <2>1. ClaimedOf(L, e) # <<>> => 1 \in 1 .. Len(ClaimedOf(L, e))
    BY <1>1, InRange
  <2>2. ClaimedOf(L, e) = <<>> => 1 .. Len(ClaimedOf(L, e)) = {}
    OBVIOUS
  <2>3. \A i \in 1 .. Len(ClaimedOf(L, e)) :
            <<ClaimedOf(L, e)[i].claimer, ClaimedOf(L, e)[i].hash>> \in Addresses \X Claims
    BY <1>2, <1>3
  <2>4. ClaimsOf(L, e) = {<<ClaimedOf(L, e)[i].claimer, ClaimedOf(L, e)[i].hash>> :
                              i \in 1 .. Len(ClaimedOf(L, e))}
    BY DEF ClaimsOf, ClaimsIn
  <2>5. FirstOf(L, e) \in Nat
    BY <1>2, <1>3, <2>1 DEF FirstOf, None
  <2>. QED BY <2>1, <2>2, <2>3, <2>4, <2>5
<1>. QED BY <1>1, <1>2, <1>3, <1>4, <1>5, <1>6

\* What a longer log says.
LEMMA LogContinues ==
    ASSUME NEW s \in Seq(AllEvents), NEW t \in Seq(AllEvents), NEW e
    PROVE  /\ PhaseOf(s \o t) = IF Changes(t) = <<>> THEN PhaseOf(s) ELSE PhaseOf(t)
           /\ ChangedOf(s \o t) = IF Changes(t) = <<>> THEN ChangedOf(s) ELSE ChangedOf(t)
           /\ Finals(s \o t) = Finals(s) \o Finals(t)
           /\ Changes(s \o t) = Changes(s) \o Changes(t)
           /\ InputsOf(s \o t, e) = InputsOf(s, e) \o InputsOf(t, e)
           /\ ClaimsOf(s \o t, e) = ClaimsOf(s, e) \cup ClaimsOf(t, e)
           /\ FirstOf(s \o t, e) = IF ClaimsOf(s, e) # {} THEN FirstOf(s, e) ELSE FirstOf(t, e)
<1>. DEFINE cs == Changes(s)
            ct == Changes(t)
            xs == AddedTo(s, e)
            ys == AddedTo(t, e)
            ms == ClaimedOf(s, e)
            mt == ClaimedOf(t, e)
<1>1. /\ Changes(s \o t) = cs \o ct /\ Finals(s \o t) = Finals(s) \o Finals(t)
      /\ AddedTo(s \o t, e) = xs \o ys /\ ClaimedOf(s \o t, e) = ms \o mt
  <2>1. \A k : /\ Query(s \o t, k) = Query(s, k) \o Query(t, k)
               /\ QueryEpoch(s \o t, k, e) = QueryEpoch(s, k, e) \o QueryEpoch(t, k, e)
    BY QueriesConcat
  <2>2. Query(s \o t, "PhaseChange") = Query(s, "PhaseChange") \o Query(t, "PhaseChange")
    BY <2>1, Zenon
  <2>3. Query(s \o t, "FinalizeEpoch") = Query(s, "FinalizeEpoch") \o Query(t, "FinalizeEpoch")
    BY <2>1, Zenon
  <2>4. /\ QueryEpoch(s \o t, "InputAdded", e)
               = QueryEpoch(s, "InputAdded", e) \o QueryEpoch(t, "InputAdded", e)
        /\ QueryEpoch(s \o t, "Claim", e) = QueryEpoch(s, "Claim", e) \o QueryEpoch(t, "Claim", e)
    BY <2>1, Zenon
  <2>. QED BY <2>2, <2>3, <2>4, Zenon DEF Changes, Finals, AddedTo, ClaimedOf
<1>2. /\ cs \in Seq(AllEvents) /\ ct \in Seq(AllEvents)
      /\ xs \in Seq(AllEvents) /\ ys \in Seq(AllEvents)
      /\ ms \in Seq(AllEvents) /\ mt \in Seq(AllEvents)
      /\ ms = <<>> <=> ClaimsOf(s, e) = {}
  BY LogTypes
<1>3. \A u, v \in Seq(AllEvents) :
          /\ u \o v \in Seq(AllEvents) /\ Len(u \o v) = Len(u) + Len(v)
          /\ Len(u) \in Nat /\ Len(v) \in Nat
          /\ v = <<>> => u \o v = u
          /\ u = <<>> => u \o v = v
          /\ v # <<>> => u \o v # <<>> /\ (u \o v)[Len(u \o v)] = v[Len(v)]
          /\ u # <<>> => u \o v # <<>> /\ (u \o v)[1] = u[1]
          /\ \A i \in 1 .. Len(u) : (u \o v)[i] = u[i]
          /\ \A i \in 1 .. Len(v) : (u \o v)[Len(u) + i] = v[i]
  OBVIOUS
<1>. HIDE DEF cs, ct, xs, ys, ms, mt
<1>4. /\ PhaseOf(s \o t) = IF ct = <<>> THEN PhaseOf(s) ELSE PhaseOf(t)
      /\ ChangedOf(s \o t) = IF ct = <<>> THEN ChangedOf(s) ELSE ChangedOf(t)
  <2>1. CASE ct = <<>>
    <3>1. cs \o ct = cs
      BY <1>2, <1>3, <2>1
    <3>. QED BY <1>1, <2>1, <3>1 DEF PhaseOf, ChangedOf, cs
  <2>2. CASE ct # <<>>
    <3>1. cs \o ct # <<>> /\ Last(cs \o ct) = Last(ct)
      BY <1>2, <1>3, <2>2 DEF Last
    <3>. QED BY <1>1, <2>2, <3>1 DEF PhaseOf, ChangedOf, ct
  <2>. QED BY <2>1, <2>2
<1>5. FirstOf(s \o t, e) = IF ClaimsOf(s, e) # {} THEN FirstOf(s, e) ELSE FirstOf(t, e)
  <2>1. CASE ms = <<>>
    <3>1. ms \o mt = mt
      BY <1>2, <1>3, <2>1
    <3>. QED BY <1>1, <1>2, <2>1, <3>1 DEF FirstOf, mt
  <2>2. CASE ms # <<>>
    <3>1. ms \o mt # <<>> /\ (ms \o mt)[1] = ms[1]
      BY <1>2, <1>3, <2>2
    <3>. QED BY <1>1, <1>2, <2>2, <3>1 DEF FirstOf, ms
  <2>. QED BY <2>1, <2>2
<1>6. ClaimsOf(s \o t, e) = ClaimsOf(s, e) \cup ClaimsOf(t, e)
  <2>. DEFINE pair(ev) == <<ev.claimer, ev.hash>>
  <2>1. \A u \in Seq(AllEvents) : \A x : x \in ClaimsIn(u) <=> \E ev \in ToSet(u) : x = pair(ev)
    <3>. SUFFICES ASSUME NEW u \in Seq(AllEvents), NEW x
                  PROVE  x \in ClaimsIn(u) <=> \E ev \in ToSet(u) : x = pair(ev)
      OBVIOUS
    <3>1. /\ \A i \in 1 .. Len(u) : u[i] \in ToSet(u)
          /\ \A ev \in ToSet(u) : \E i \in 1 .. Len(u) : ev = u[i]
      BY InRange
    <3>2. x \in ClaimsIn(u) <=> \E i \in 1 .. Len(u) : x = pair(u[i])
      BY DEF ClaimsIn
    <3>. HIDE DEF pair
    <3>. QED BY <3>1, <3>2
  <2>2. ms \o mt \in Seq(AllEvents) /\ ToSet(ms \o mt) = ToSet(ms) \cup ToSet(mt)
    BY <1>2, <1>3, ConcatRange
  <2>. HIDE DEF pair
  <2>3. ClaimsIn(ms \o mt) = ClaimsIn(ms) \cup ClaimsIn(mt)
    <3>1. ASSUME NEW x
          PROVE  x \in ClaimsIn(ms \o mt) <=> x \in ClaimsIn(ms) \/ x \in ClaimsIn(mt)
      <4>1. x \in ClaimsIn(ms \o mt) <=> \E ev \in ToSet(ms \o mt) : x = pair(ev)
        BY <2>1, <2>2, Zenon
      <4>2. /\ x \in ClaimsIn(ms) <=> \E ev \in ToSet(ms) : x = pair(ev)
            /\ x \in ClaimsIn(mt) <=> \E ev \in ToSet(mt) : x = pair(ev)
        BY <1>2, <2>1, Zenon
      <4>. QED BY <2>2, <4>1, <4>2
    <3>2. /\ \A x \in ClaimsIn(ms \o mt) : x \in ClaimsIn(ms) \cup ClaimsIn(mt)
          /\ \A x \in ClaimsIn(ms) \cup ClaimsIn(mt) : x \in ClaimsIn(ms \o mt)
      BY <3>1
    <3>. QED BY <3>2
  <2>. QED BY <1>1, <2>3 DEF ClaimsOf, ms, mt
<1>7. InputsOf(s \o t, e) = InputsOf(s, e) \o InputsOf(t, e)
  <2>0. /\ Len(xs) \in Nat /\ Len(ys) \in Nat /\ Len(xs \o ys) = Len(xs) + Len(ys)
        /\ \A i \in 1 .. Len(xs) : (xs \o ys)[i] = xs[i]
        /\ \A i \in 1 .. Len(ys) : (xs \o ys)[Len(xs) + i] = ys[i]
    <3>0. xs \in Seq(AllEvents) /\ ys \in Seq(AllEvents)
      BY <1>2
    <3>1. Len(xs) \in Nat /\ Len(ys) \in Nat /\ Len(xs \o ys) = Len(xs) + Len(ys)
      BY <3>0
    <3>2. \A i \in 1 .. Len(xs) : (xs \o ys)[i] = xs[i]
      BY <3>0
    <3>3. ASSUME NEW i \in 1 .. Len(ys) PROVE (xs \o ys)[Len(xs) + i] = ys[i]
      BY <3>0
    <3>. QED BY <3>1, <3>2, <3>3
  <2>. DEFINE f == InputsOf(s, e)
              g == InputsOf(t, e)
              h == InputsOf(s \o t, e)
              r == f \o g
              n == Len(xs)
              m == Len(ys)
  <2>1. /\ n \in Nat /\ m \in Nat /\ Len(xs \o ys) = n + m
        /\ \A i \in 1 .. n : (xs \o ys)[i] = xs[i]
        /\ \A i \in 1 .. m : (xs \o ys)[n + i] = ys[i]
    BY <2>0
  <2>2. f \in Seq(Inputs) /\ g \in Seq(Inputs)
    BY LogTypes
  <2>3. /\ f = [i \in 1 .. n |-> xs[i].input] /\ g = [i \in 1 .. m |-> ys[i].input]
        /\ h = [i \in 1 .. Len(xs \o ys) |-> (xs \o ys)[i].input]
    BY <1>1 DEF InputsOf, xs, ys
  <2>. HIDE DEF f, g, h, n, m
  <2>4. Len(f) = n /\ Len(g) = m
    BY <2>1, <2>3
  <2>5. /\ r \in Seq(Inputs) /\ Len(r) = n + m
        /\ \A i \in 1 .. n : r[i] = f[i]
        /\ \A i \in 1 .. m : r[n + i] = g[i]
    <3>1. \A u, v \in Seq(Inputs) :
              /\ u \o v \in Seq(Inputs) /\ Len(u \o v) = Len(u) + Len(v)
              /\ \A i \in 1 .. Len(u) : (u \o v)[i] = u[i]
              /\ \A i \in 1 .. Len(v) : (u \o v)[Len(u) + i] = v[i]
      OBVIOUS
    <3>2. /\ r \in Seq(Inputs) /\ Len(r) = Len(f) + Len(g)
          /\ \A i \in 1 .. Len(f) : r[i] = f[i]
          /\ \A i \in 1 .. Len(g) : r[Len(f) + i] = g[i]
      BY <2>2, <3>1, Zenon
    <3>. HIDE DEF r
    <3>. QED BY <2>4, <3>2
  <2>6. \A i \in 1 .. n + m : h[i] = (xs \o ys)[i].input
    BY <2>1, <2>3
  <2>7. /\ \A i \in 1 .. n : f[i] = xs[i].input
        /\ \A i \in 1 .. m : g[i] = ys[i].input
    BY <2>3
  <2>. HIDE DEF r, n, m
  <2>8. ASSUME NEW i \in 1 .. n + m PROVE r[i] = h[i]
    <3>1. CASE i <= n
      <4>1. i \in 1 .. n
        BY <2>1, <3>1
      <4>. QED BY <2>1, <2>5, <2>6, <2>7, <4>1
    <3>2. CASE ~(i <= n)
      <4>1. i - n \in 1 .. m /\ n + (i - n) = i
        BY <2>1, <3>2
      <4>2. r[i] = g[i - n]
        BY <2>5, <4>1
      <4>3. (xs \o ys)[i] = ys[i - n]
        BY <2>1, <4>1
      <4>. QED BY <2>6, <2>7, <4>1, <4>2, <4>3
    <3>. QED BY <3>1, <3>2
  <2>9. r = h
    <3>1. \A u \in Seq(Inputs) : u = [i \in 1 .. Len(u) |-> u[i]]
      OBVIOUS
    <3>2. r = [i \in 1 .. n + m |-> r[i]]
      BY <2>5, <3>1
    <3>3. h = [i \in 1 .. n + m |-> h[i]]
      BY <2>1, <2>3
    <3>. QED BY <2>8, <3>2, <3>3, Zenon
  <2>. QED BY <2>9 DEF f, g, h, r
<1>. QED BY <1>1, <1>4, <1>5, <1>6, <1>7 DEF ct, cs

\* The same, for what no epoch is named for.
LEMMA PhaseContinues ==
    ASSUME NEW s \in Seq(AllEvents), NEW t \in Seq(AllEvents)
    PROVE  /\ PhaseOf(s \o t) = IF Changes(t) = <<>> THEN PhaseOf(s) ELSE PhaseOf(t)
           /\ ChangedOf(s \o t) = IF Changes(t) = <<>> THEN ChangedOf(s) ELSE ChangedOf(t)
           /\ Finals(s \o t) = Finals(s) \o Finals(t)
           /\ Changes(s \o t) = Changes(s) \o Changes(t)
  BY LogContinues

\* The same, for the inputs of an epoch.
LEMMA InputsContinue ==
    ASSUME NEW s \in Seq(AllEvents), NEW t \in Seq(AllEvents), NEW e
    PROVE  InputsOf(s \o t, e) = InputsOf(s, e) \o InputsOf(t, e)
  BY LogContinues

\* The same, for the claims of an epoch.
LEMMA ClaimsContinue ==
    ASSUME NEW s \in Seq(AllEvents), NEW t \in Seq(AllEvents), NEW e
    PROVE  /\ ClaimsOf(s \o t, e) = ClaimsOf(s, e) \cup ClaimsOf(t, e)
           /\ FirstOf(s \o t, e) = IF ClaimsOf(s, e) # {} THEN FirstOf(s, e) ELSE FirstOf(t, e)
  BY LogContinues

\* What the empty log says.
LEMMA EmptyLog ==
    ASSUME NEW e
    PROVE  /\ Changes(<<>>) = <<>> /\ Finals(<<>>) = <<>>
           /\ PhaseOf(<<>>) = "InputAccumulation" /\ ChangedOf(<<>>) = None
           /\ InputsOf(<<>>, e) = <<>> /\ ClaimsOf(<<>>, e) = {} /\ FirstOf(<<>>, e) = None
<1>1. /\ Changes(<<>>) = <<>> /\ Finals(<<>>) = <<>>
      /\ AddedTo(<<>>, e) = <<>> /\ ClaimedOf(<<>>, e) = <<>>
  BY QueriesOfNone, Zenon DEF Changes, Finals, AddedTo, ClaimedOf
<1>2. InputsOf(<<>>, e) = <<>>
  BY <1>1 DEF InputsOf
<1>3. ClaimsOf(<<>>, e) = {}
  BY <1>1 DEF ClaimsOf, ClaimsIn
<1>. QED BY <1>1, <1>2, <1>3 DEF PhaseOf, ChangedOf, FirstOf

\* What one event says.
LEMMA OneEvent ==
    ASSUME NEW ev \in AllEvents, NEW e
    PROVE  /\ ev.kind = "PhaseChange" =>
                  /\ Changes(<<ev>>) # <<>>
                  /\ PhaseOf(<<ev>>) = ev.phase /\ ChangedOf(<<ev>>) = ev.ts
           /\ ev.kind # "PhaseChange" => Changes(<<ev>>) = <<>>
           /\ Finals(<<ev>>) = IF ev.kind = "FinalizeEpoch" THEN <<ev>> ELSE <<>>
           /\ InputsOf(<<ev>>, e) =
                  IF ev.kind = "InputAdded" /\ ev.epoch = e THEN <<ev.input>> ELSE <<>>
           /\ ClaimsOf(<<ev>>, e) =
                  IF ev.kind = "Claim" /\ ev.epoch = e THEN {<<ev.claimer, ev.hash>>} ELSE {}
           /\ FirstOf(<<ev>>, e) = IF ev.kind = "Claim" /\ ev.epoch = e THEN ev.ts ELSE None
<1>1. \A k : /\ Query(<<ev>>, k) = IF ev.kind = k THEN <<ev>> ELSE <<>>
             /\ QueryEpoch(<<ev>>, k, e) = IF ev.kind = k /\ ev.epoch = e THEN <<ev>> ELSE <<>>
  BY QueriesOfOne
<1>2. /\ Changes(<<ev>>) = IF ev.kind = "PhaseChange" THEN <<ev>> ELSE <<>>
      /\ Finals(<<ev>>) = IF ev.kind = "FinalizeEpoch" THEN <<ev>> ELSE <<>>
      /\ AddedTo(<<ev>>, e) = IF ev.kind = "InputAdded" /\ ev.epoch = e THEN <<ev>> ELSE <<>>
      /\ ClaimedOf(<<ev>>, e) = IF ev.kind = "Claim" /\ ev.epoch = e THEN <<ev>> ELSE <<>>
  BY <1>1, Zenon DEF Changes, Finals, AddedTo, ClaimedOf
<1>3. InputsOf(<<ev>>, e) =
          IF ev.kind = "InputAdded" /\ ev.epoch = e THEN <<ev.input>> ELSE <<>>
  BY <1>2 DEF InputsOf
<1>4. ClaimsOf(<<ev>>, e) =
          IF ev.kind = "Claim" /\ ev.epoch = e THEN {<<ev.claimer, ev.hash>>} ELSE {}
  <2>1. ClaimsIn(<<ev>>) = {<<ev.claimer, ev.hash>>}
    BY DEF ClaimsIn
  <2>2. ClaimsIn(<<>>) = {}
    BY DEF ClaimsIn
  <2>. QED BY <1>2, <2>1, <2>2 DEF ClaimsOf
<1>5. <<ev>> # <<>> /\ Last(<<ev>>) = ev /\ <<ev>>[1] = ev
  BY DEF Last
<1>6. FirstOf(<<ev>>, e) = IF ev.kind = "Claim" /\ ev.epoch = e THEN ev.ts ELSE None
  BY <1>2, <1>5 DEF FirstOf
<1>. QED BY <1>2, <1>3, <1>4, <1>5, <1>6 DEF PhaseOf, ChangedOf

\* Claims for an epoch are claims.
LEMMA ClaimsAreInBloom ==
    ASSUME NEW b \in AllBlocks, NEW e, ~InBloom(b, "Claim")
    PROVE  ClaimedOf(b.logs, e) = <<>>
<1>1. b.logs \in Seq(AllEvents)
  BY DEF AllBlocks
<1>2. Query(b.logs, "Claim") = <<>>
  BY DEF InBloom
<1>3. \A k : ToSet(Query(b.logs, k)) = OfKind(b.logs, k)
  BY <1>1, QueriesFind
<1>4. OfKind(b.logs, "Claim") = {}
  <2>1. ToSet(Query(b.logs, "Claim")) = OfKind(b.logs, "Claim")
    BY <1>3, Zenon
  <2>. QED BY <1>2, <2>1 DEF ToSet
<1>5. ToSet(ClaimedOf(b.logs, e)) = {} /\ ClaimedOf(b.logs, e) \in Seq(AllEvents)
  BY <1>1, <1>4, QueriesFind DEF ClaimedOf
<1>. QED BY <1>5, InRange

-----------------------------------------------------------------------------
(* What the view is for a log, wherever the node started.                  *)

\* The epoch the node waits for to be finalized; it starts with e0.
EpochOf(L, e0) == IF Len(Finals(L)) < e0 THEN e0 ELSE Len(Finals(L))

FinalizedIn(L, e0) ==
    [i \in 1 .. IF Len(Finals(L)) < e0 THEN 0 ELSE Len(Finals(L)) - e0 |->
        [number |-> Finals(L)[e0 + i].epoch,
         hash   |-> Finals(L)[e0 + i].hash,
         inputs |-> InputsOf(L, Finals(L)[e0 + i].epoch)]]

OpenIn(L, e) == [number |-> e, inputs |-> InputsOf(L, e)]

SealedIn(L, e, ins) ==
    [epoch |-> e, inputs |-> ins, claims |-> ClaimsOf(L, e), first |-> FirstOf(L, e)]

\* Inputs come from the sync, which may lie some blocks before the one that first
\* showed the epoch sealed.
SyncedAt(chain, k, n) ==
    /\ n <= k + SafetyMargin
    /\ PhaseOf(AllLogs(SubSeq(chain, 1, n))) # "InputAccumulation"
    /\ Len(Finals(AllLogs(SubSeq(chain, 1, n)))) = Len(Finals(AllLogs(chain)))

SealedInputs(chain, e0) ==
    LET L == AllLogs(chain) IN
    {ins \in Seq(Inputs) :
        /\ \E k, n \in 1 .. Len(chain) :
               SyncedAt(chain, k, n) /\ ins = InputsOf(AllLogs(SubSeq(chain, 1, k)), EpochOf(L, e0))
        /\ SafetyMargin <= 1 /\ e0 <= Len(Finals(L)) => ins = InputsOf(L, Len(Finals(L)))}

OpenView(L, e0) ==
    [phase       |-> "InputAccumulation",
     finalized   |-> FinalizedIn(L, e0),
     phaseChange |-> ChangedOf(L),
     current     |-> OpenIn(L, EpochOf(L, e0))]

SealedView(L, e0, ins) ==
    [phase       |-> IF PhaseOf(L) = "AwaitingDispute" /\ ClaimsOf(L, EpochOf(L, e0)) = {}
                     THEN "Illegal" ELSE PhaseOf(L),
     finalized   |-> FinalizedIn(L, e0),
     phaseChange |-> ChangedOf(L),
     current     |-> OpenIn(L, EpochOf(L, e0) + 1),
     sealed      |-> SealedIn(L, EpochOf(L, e0), ins),
     roundStart  |-> ChangedOf(L)]

Views(chain, e0) ==
    IF PhaseOf(AllLogs(chain)) = "InputAccumulation" THEN {OpenView(AllLogs(chain), e0)}
    ELSE {SealedView(AllLogs(chain), e0, ins) : ins \in SealedInputs(chain, e0)}

\* What the contracts guarantee of a block after the log L: an epoch that is
\* finalized in it is the next one, and is neither opened nor sealed in it;
\* finalized epochs get no inputs, and a sealed one none since it was; in a
\* dispute there are no claims.
GoodBlock(L, b) ==
    /\ \A i \in 1 .. Len(Finals(L)) : Finals(L)[i].epoch = i - 1
    /\ Changes(b.logs) # <<>> => ChangedOf(b.logs) = b.timestamp
    /\ \A e \in Nat : ClaimsOf(b.logs, e) # {} => FirstOf(b.logs, e) = b.timestamp
    /\ Finals(b.logs) # <<>> =>
          /\ Len(Finals(b.logs)) = 1 /\ Finals(b.logs)[1].epoch = Len(Finals(L))
          /\ Changes(b.logs) # <<>> /\ PhaseOf(b.logs) = "InputAccumulation"
    /\ \A e \in Nat : e < Len(Finals(L)) => InputsOf(b.logs, e) = <<>>
    /\ PhaseOf(L \o b.logs) # "InputAccumulation" => InputsOf(b.logs, Len(Finals(L))) = <<>>
    /\ PhaseOf(L) = "AwaitingDispute" /\ Changes(b.logs) = <<>> =>
          \A e \in Nat : ClaimsOf(b.logs, e) = {}

GoodChain(chain) ==
    \A k \in 1 .. Len(chain) : GoodBlock(AllLogs(SubSeq(chain, 1, k - 1)), chain[k])

\* The claims of one more block go to the sealed epoch they are for.
LEMMA SealedFoldContinues ==
    ASSUME NEW L \in Seq(AllEvents), NEW b \in AllBlocks, NEW e \in Nat, NEW ins,
           ClaimsOf(b.logs, e) # {} => FirstOf(b.logs, e) = b.timestamp
    PROVE  SealedFold(SealedIn(L, e, ins), b) = SealedIn(L \o b.logs, e, ins)
<1>. DEFINE old == SealedIn(L, e, ins)
            mt == ClaimedOf(b.logs, e)
<1>1. b.logs \in Seq(AllEvents)
  BY DEF AllBlocks
<1>2. /\ ClaimsOf(L \o b.logs, e) = ClaimsOf(L, e) \cup ClaimsOf(b.logs, e)
      /\ FirstOf(L \o b.logs, e) = IF ClaimsOf(L, e) # {} THEN FirstOf(L, e) ELSE FirstOf(b.logs, e)
  BY <1>1, LogContinues
<1>3. mt = <<>> <=> ClaimsOf(b.logs, e) = {}
  BY <1>1, LogTypes
<1>4. ClaimsOf(L, e) = {} => FirstOf(L, e) = None
  BY LogTypes DEF FirstOf
<1>5. /\ old = [epoch |-> e, inputs |-> ins, claims |-> ClaimsOf(L, e), first |-> FirstOf(L, e)]
      /\ old.epoch = e /\ old.claims = ClaimsOf(L, e) /\ old.first = FirstOf(L, e)
  BY DEF SealedIn
<1>6. SealedFold(old, b) =
          IF ~InBloom(b, "Claim") \/ mt = <<>> THEN old
          ELSE [old EXCEPT !.claims = @ \cup ClaimsIn(mt),
                           !.first  = IF old.claims = {} THEN b.timestamp ELSE @]
  BY <1>5, Zenon DEF SealedFold, ClaimedOf
<1>. HIDE DEF old, mt
<1>7. CASE mt = <<>>
  <2>1. /\ ClaimsOf(L \o b.logs, e) = ClaimsOf(L, e)
        /\ FirstOf(L \o b.logs, e) = FirstOf(L, e)
    <3>1. FirstOf(b.logs, e) = None
      BY <1>7 DEF FirstOf, mt
    <3>. QED BY <1>2, <1>3, <1>4, <1>7, <3>1
  <2>2. SealedFold(old, b) = old
    BY <1>6, <1>7
  <2>. QED BY <1>5, <2>1, <2>2 DEF SealedIn, old
<1>8. CASE mt # <<>>
  <2>1. InBloom(b, "Claim")
    BY <1>8, ClaimsAreInBloom DEF mt
  <2>2. ClaimsIn(mt) = ClaimsOf(b.logs, e)
    BY DEF ClaimsOf, mt
  <2>3. SealedFold(old, b) =
            [old EXCEPT !.claims = @ \cup ClaimsIn(mt),
                        !.first  = IF old.claims = {} THEN b.timestamp ELSE @]
    BY <1>6, <1>8, <2>1
  <2>4. SealedFold(old, b) =
            [epoch |-> e, inputs |-> ins, claims |-> ClaimsOf(L, e) \cup ClaimsOf(b.logs, e),
             first |-> IF ClaimsOf(L, e) = {} THEN b.timestamp ELSE FirstOf(L, e)]
    BY <1>5, <2>2, <2>3
  <2>5. FirstOf(L \o b.logs, e) = IF ClaimsOf(L, e) = {} THEN b.timestamp ELSE FirstOf(L, e)
    BY <1>2, <1>3, <1>8
  <2>. QED BY <1>2, <2>4, <2>5 DEF SealedIn, old
<1>. QED BY <1>7, <1>8

\* A chain up to a block is the chain before it and the block.
LEMMA ChainUpTo ==
    ASSUME NEW chain \in Seq(AllBlocks), NEW k \in 1 .. Len(chain)
    PROVE  /\ chain[k] \in AllBlocks /\ chain[k].logs \in Seq(AllEvents)
           /\ SubSeq(chain, 1, k) \in Seq(AllBlocks) /\ SubSeq(chain, 1, k - 1) \in Seq(AllBlocks)
           /\ Len(SubSeq(chain, 1, k)) = k
           /\ SubSeq(chain, 1, k) = Append(SubSeq(chain, 1, k - 1), chain[k])
           /\ AllLogs(SubSeq(chain, 1, k - 1)) \in Seq(AllEvents)
           /\ AllLogs(SubSeq(chain, 1, k)) = AllLogs(SubSeq(chain, 1, k - 1)) \o chain[k].logs
           /\ SubSeq(chain, 1, Len(chain)) = chain
<1>1. chain[k] \in AllBlocks /\ chain[k].logs \in Seq(AllEvents)
  <2>1. chain[k] \in AllBlocks
    OBVIOUS
  <2>. QED BY <2>1 DEF AllBlocks
<1>2. /\ SubSeq(chain, 1, k) \in Seq(AllBlocks) /\ SubSeq(chain, 1, k - 1) \in Seq(AllBlocks)
      /\ Len(SubSeq(chain, 1, k)) = k
      /\ SubSeq(chain, 1, k) = Append(SubSeq(chain, 1, k - 1), chain[k])
      /\ SubSeq(chain, 1, Len(chain)) = chain
  OBVIOUS
<1>. QED BY <1>1, <1>2, LogsGrow

\* The blocks of a chain are also those of its prefixes.
LEMMA PrefixOfPrefix ==
    ASSUME NEW chain \in Seq(AllBlocks), NEW k \in 0 .. Len(chain), NEW j \in 1 .. k
    PROVE  /\ SubSeq(chain, 1, k)[j] = chain[j] /\ Len(SubSeq(chain, 1, k)) = k
           /\ SubSeq(SubSeq(chain, 1, k), 1, j - 1) = SubSeq(chain, 1, j - 1)
           /\ SubSeq(SubSeq(chain, 1, k), 1, j) = SubSeq(chain, 1, j)
           /\ SubSeq(chain, 1, k) \in Seq(AllBlocks)
  OBVIOUS

\* Every chain's prefix is as good.
LEMMA GoodPrefix ==
    ASSUME NEW chain \in Seq(AllBlocks), GoodChain(chain), NEW k \in 0 .. Len(chain)
    PROVE  GoodChain(SubSeq(chain, 1, k)) /\ SubSeq(chain, 1, k) \in Seq(AllBlocks)
<1>1. SubSeq(chain, 1, k) \in Seq(AllBlocks) /\ Len(SubSeq(chain, 1, k)) = k
  OBVIOUS
<1>2. ASSUME NEW j \in 1 .. k
      PROVE  GoodBlock(AllLogs(SubSeq(SubSeq(chain, 1, k), 1, j - 1)), SubSeq(chain, 1, k)[j])
  <2>1. j \in 1 .. Len(chain)
    OBVIOUS
  <2>2. GoodBlock(AllLogs(SubSeq(chain, 1, j - 1)), chain[j])
    BY <2>1 DEF GoodChain
  <2>3. /\ SubSeq(chain, 1, k)[j] = chain[j]
        /\ SubSeq(SubSeq(chain, 1, k), 1, j - 1) = SubSeq(chain, 1, j - 1)
    BY PrefixOfPrefix
  <2>. QED BY <2>2, <2>3
<1>. QED BY <1>1, <1>2 DEF GoodChain

\* The sync looks at a part of the chain.
LEMMA SyncBlockInChain ==
    ASSUME NEW chain \in Seq(AllBlocks), chain # <<>>
    PROVE  /\ Len(chain) \in Nat /\ SyncBlock(chain) \in 1 .. Len(chain)
           /\ Len(chain) <= SyncBlock(chain) + SafetyMargin
           /\ SafetyMargin <= 1 => SyncBlock(chain) = Len(chain) \/ SyncBlock(chain) = Len(chain) - 1
<1>. DEFINE n == Len(chain)
<1>1. n \in Nat /\ n >= 1
  OBVIOUS
<1>2. SyncBlock(chain) = IF n > SafetyMargin THEN n - SafetyMargin ELSE 1
  BY DEF SyncBlock
<1>3. SafetyMargin \in Nat
  BY FoldAssumption
<1>. HIDE DEF n
<1>4. SyncBlock(chain) \in 1 .. n
  BY <1>1, <1>2, <1>3
<1>5. SafetyMargin <= 1 => SyncBlock(chain) = n \/ SyncBlock(chain) = n - 1
  BY <1>1, <1>2, <1>3
<1>6. n <= SyncBlock(chain) + SafetyMargin
  BY <1>1, <1>2, <1>3
<1>. QED BY <1>1, <1>4, <1>5, <1>6 DEF n

\* The sealed epoch rebuilt from a sync has the claims of the whole log and the
\* inputs of the log up to the sync.
LEMMA SealedFromSyncIs ==
    ASSUME NEW chain \in Seq(AllBlocks), chain # <<>>, GoodChain(chain), NEW e \in Nat
    PROVE  SealedFromSync(e, chain) =
               SealedIn(AllLogs(chain), e, InputsOf(AllLogs(SubSeq(chain, 1, SyncBlock(chain))), e))
<1>. DEFINE s == SyncBlock(chain)
            n == Len(chain) - s
            ins == InputsOf(AllLogs(SubSeq(chain, 1, s)), e)
            base == SealedSync(e, SubSeq(chain, 1, s))
            run == CHOOSE g : g = [k \in 0 .. n |->
                                      IF k = 0 THEN base ELSE SealedFold(g[k - 1], chain[s + k])]
            f == [k \in 0 .. n |-> SealedIn(AllLogs(SubSeq(chain, 1, s + k)), e, ins)]
<1>1. Len(chain) \in Nat /\ s \in 1 .. Len(chain) /\ n \in Nat
  BY SyncBlockInChain
<1>2. base = SealedIn(AllLogs(SubSeq(chain, 1, s)), e, ins)
  BY DEF SealedSync, EpochInputs, SealedIn, InputsOf, ClaimsOf, FirstOf, AddedTo, ClaimedOf
<1>3. SealedFromSync(e, chain) = run[n]
  BY DEF SealedFromSync
<1>. HIDE DEF s, ins, base
<1>4. ASSUME NEW k \in 0 .. n
      PROVE  SealedIn(AllLogs(SubSeq(chain, 1, s + k)), e, ins) =
                 IF k = 0 THEN base
                 ELSE SealedFold(SealedIn(AllLogs(SubSeq(chain, 1, s + (k - 1))), e, ins), chain[s + k])
  <2>1. CASE k = 0
    <3>1. s + k = s
      BY <1>1, <2>1
    <3>. QED BY <1>2, <2>1, <3>1
  <2>2. CASE k # 0
    <3>. DEFINE j == s + k
    <3>1. j \in 1 .. Len(chain) /\ j - 1 = s + (k - 1)
      BY <1>1, <2>2
    <3>. HIDE DEF j
    <3>2. /\ chain[j] \in AllBlocks /\ AllLogs(SubSeq(chain, 1, j - 1)) \in Seq(AllEvents)
          /\ AllLogs(SubSeq(chain, 1, j)) = AllLogs(SubSeq(chain, 1, j - 1)) \o chain[j].logs
      BY <3>1, ChainUpTo
    <3>3. ClaimsOf(chain[j].logs, e) # {} => FirstOf(chain[j].logs, e) = chain[j].timestamp
      BY <3>1 DEF GoodChain, GoodBlock
    <3>4. SealedFold(SealedIn(AllLogs(SubSeq(chain, 1, j - 1)), e, ins), chain[j]) =
              SealedIn(AllLogs(SubSeq(chain, 1, j)), e, ins)
      BY <3>2, <3>3, SealedFoldContinues
    <3>. QED BY <2>2, <3>1, <3>4 DEF j
  <2>. QED BY <2>1, <2>2
<1>5. f = [k \in 0 .. n |-> IF k = 0 THEN base ELSE SealedFold(f[k - 1], chain[s + k])]
  <2>1. ASSUME NEW k \in 0 .. n
        PROVE  f[k] = IF k = 0 THEN base ELSE SealedFold(f[k - 1], chain[s + k])
    <3>1. k # 0 => k - 1 \in 0 .. n
      BY <1>1
    <3>2. k # 0 => f[k - 1] = SealedIn(AllLogs(SubSeq(chain, 1, s + (k - 1))), e, ins)
      BY <3>1
    <3>3. f[k] = SealedIn(AllLogs(SubSeq(chain, 1, s + k)), e, ins)
      OBVIOUS
    <3>. QED BY <1>4, <3>2, <3>3
  <2>2. f = [k \in 0 .. n |-> f[k]]
    OBVIOUS
  <2>. HIDE DEF f
  <2>. QED BY <2>1, <2>2, Zenon
<1>6. run = [k \in 0 .. n |-> IF k = 0 THEN base ELSE SealedFold(run[k - 1], chain[s + k])]
  BY <1>5, Zenon
<1>7. run[n] = f[n]
  <2>. DEFINE T == {k \in Nat : k <= n => run[k] = f[k]}
  <2>. HIDE DEF run, f, n
  <2>1. 0 \in T
    <3>1. 0 \in 0 .. n
      BY <1>1
    <3>2. run[0] = base /\ f[0] = base
      BY <1>5, <1>6, <3>1, Zenon
    <3>. QED BY <3>2
  <2>2. ASSUME NEW k \in Nat, k \in T, k + 1 <= n PROVE run[k + 1] = f[k + 1]
    <3>1. k + 1 \in 0 .. n /\ k + 1 # 0 /\ (k + 1) - 1 = k /\ k <= n
      BY <1>1, <2>2
    <3>2. f[k + 1] = SealedFold(f[k], chain[s + (k + 1)])
      BY <1>5, <3>1, Zenon
    <3>3. run[k + 1] = SealedFold(run[k], chain[s + (k + 1)])
      BY <1>6, <3>1, Zenon
    <3>4. run[k] = f[k]
      BY <2>2, <3>1
    <3>. QED BY <3>2, <3>3, <3>4
  <2>3. Nat \subseteq T
    <3>1. \A k \in Nat : k \in T => k + 1 \in T
      BY <2>2
    <3>. QED BY <2>1, <3>1, NatSetInduction
  <2>. QED BY <1>1, <2>3
<1>8. f[n] = SealedIn(AllLogs(chain), e, ins)
  <2>1. n \in 0 .. n /\ s + n = Len(chain) /\ Len(chain) \in 1 .. Len(chain)
    BY <1>1
  <2>2. SubSeq(chain, 1, Len(chain)) = chain
    BY <2>1, ChainUpTo
  <2>. QED BY <2>1, <2>2
<1>. QED BY <1>3, <1>7, <1>8 DEF ins, s

\* What a good block does not change in the log.
LEMMA BlockContinues ==
    ASSUME NEW L \in Seq(AllEvents), NEW b \in AllBlocks, GoodBlock(L, b), NEW e0 \in Nat
    PROVE  LET M == L \o b.logs IN
           /\ M \in Seq(AllEvents)
           /\ PhaseOf(M) # "InputAccumulation" \/ Changes(b.logs) = <<>> => Finals(b.logs) = <<>>
           /\ Finals(b.logs) = <<>> => Finals(M) = Finals(L) /\ EpochOf(M, e0) = EpochOf(L, e0)
           /\ \A i \in 1 .. Len(Finals(L)) :
                  InputsOf(M, Finals(L)[i].epoch) = InputsOf(L, Finals(L)[i].epoch)
           /\ PhaseOf(M) # "InputAccumulation" =>
                  InputsOf(M, Len(Finals(L))) = InputsOf(L, Len(Finals(L)))
<1>. DEFINE M == L \o b.logs
<1>1. b.logs \in Seq(AllEvents) /\ M \in Seq(AllEvents)
  <2>1. b.logs \in Seq(AllEvents)
    BY DEF AllBlocks
  <2>. QED BY <2>1
<1>2. /\ PhaseOf(M) = IF Changes(b.logs) = <<>> THEN PhaseOf(L) ELSE PhaseOf(b.logs)
      /\ Finals(M) = Finals(L) \o Finals(b.logs)
      /\ \A e : InputsOf(M, e) = InputsOf(L, e) \o InputsOf(b.logs, e)
  <2>0. b.logs \in Seq(AllEvents)
    BY <1>1
  <2>1. PhaseOf(L \o b.logs) = IF Changes(b.logs) = <<>> THEN PhaseOf(L) ELSE PhaseOf(b.logs)
    BY <2>0, PhaseContinues
  <2>2. Finals(L \o b.logs) = Finals(L) \o Finals(b.logs)
    BY <2>0, PhaseContinues
  <2>3. \A e : InputsOf(L \o b.logs, e) = InputsOf(L, e) \o InputsOf(b.logs, e)
    BY <2>0, InputsContinue
  <2>. QED BY <2>1, <2>2, <2>3
<1>3. /\ Finals(L) \in Seq(AllEvents) /\ \A e : InputsOf(L, e) \in Seq(Inputs)
      /\ \A i \in 1 .. Len(Finals(L)) : Finals(L)[i].epoch \in Nat
  BY LogTypes
<1>. HIDE DEF M
<1>4. PhaseOf(M) # "InputAccumulation" \/ Changes(b.logs) = <<>> => Finals(b.logs) = <<>>
  BY <1>2 DEF GoodBlock
<1>5. Finals(b.logs) = <<>> => Finals(M) = Finals(L) /\ EpochOf(M, e0) = EpochOf(L, e0)
  <2>1. Finals(L) \o <<>> = Finals(L)
    BY <1>3
  <2>. QED BY <1>2, <2>1 DEF EpochOf
<1>6. \A e : InputsOf(b.logs, e) = <<>> => InputsOf(M, e) = InputsOf(L, e)
  <2>1. \A q \in Seq(Inputs) : q \o <<>> = q
    OBVIOUS
  <2>. QED BY <1>2, <1>3, <2>1
<1>7. ASSUME NEW i \in 1 .. Len(Finals(L))
      PROVE  InputsOf(M, Finals(L)[i].epoch) = InputsOf(L, Finals(L)[i].epoch)
  <2>1. Len(Finals(L)) \in Nat
    BY <1>3
  <2>2. /\ Finals(L)[i].epoch = i - 1
        /\ \A e \in Nat : e < Len(Finals(L)) => InputsOf(b.logs, e) = <<>>
    BY DEF GoodBlock
  <2>3. InputsOf(b.logs, Finals(L)[i].epoch) = <<>>
    BY <2>1, <2>2
  <2>. QED BY <1>6, <2>3
<1>8. PhaseOf(M) # "InputAccumulation" =>
          InputsOf(M, Len(Finals(L))) = InputsOf(L, Len(Finals(L)))
  BY <1>6 DEF GoodBlock, M
<1>. QED BY <1>1, <1>4, <1>5, <1>7, <1>8 DEF M

\* A nonempty good chain ends with a good block.
LEMMA LastBlock ==
    ASSUME NEW chain \in Seq(AllBlocks), NEW b \in AllBlocks, GoodChain(Append(chain, b))
    PROVE  /\ Append(chain, b) \in Seq(AllBlocks) /\ Append(chain, b) # <<>>
           /\ Last(Append(chain, b)) = b
           /\ AllLogs(chain) \in Seq(AllEvents)
           /\ AllLogs(Append(chain, b)) = AllLogs(chain) \o b.logs
           /\ GoodBlock(AllLogs(chain), b)
<1>. DEFINE t == Append(chain, b)
            n == Len(t)
<1>1. /\ t \in Seq(AllBlocks) /\ t # <<>> /\ n \in 1 .. n /\ t[n] = b
      /\ SubSeq(t, 1, n - 1) = chain
  OBVIOUS
<1>2. AllLogs(chain) \in Seq(AllEvents) /\ AllLogs(t) = AllLogs(chain) \o b.logs
  BY LogsGrow
<1>3. GoodBlock(AllLogs(SubSeq(t, 1, n - 1)), t[n])
  BY <1>1, Zenon DEF GoodChain
<1>4. GoodBlock(AllLogs(chain), b)
  BY <1>1, <1>3
<1>. QED BY <1>1, <1>2, <1>4 DEF Last

\* With a small margin the sync already has all the inputs of a sealed epoch.
LEMMA SyncedInputs ==
    ASSUME NEW chain \in Seq(AllBlocks), chain # <<>>, GoodChain(chain), SafetyMargin <= 1,
           PhaseOf(AllLogs(chain)) # "InputAccumulation"
    PROVE  InputsOf(AllLogs(SubSeq(chain, 1, SyncBlock(chain))), Len(Finals(AllLogs(chain)))) =
               InputsOf(AllLogs(chain), Len(Finals(AllLogs(chain))))
<1>. DEFINE n == Len(chain)
            s == SyncBlock(chain)
            L == AllLogs(SubSeq(chain, 1, n - 1))
            M == AllLogs(chain)
<1>1. /\ n \in Nat /\ n \in 1 .. n /\ s \in 1 .. n /\ (s = n \/ s = n - 1)
  BY SyncBlockInChain
<1>2. /\ chain[n] \in AllBlocks /\ L \in Seq(AllEvents)
      /\ SubSeq(chain, 1, n) = chain /\ M = L \o chain[n].logs
  BY <1>1, ChainUpTo
<1>3. CASE s = n
  BY <1>2, <1>3
<1>4. CASE s = n - 1
  <2>1. GoodBlock(L, chain[n])
    BY <1>1 DEF GoodChain
  <2>. HIDE DEF L, M, n
  <2>2. /\ Finals(chain[n].logs) = <<>>
        /\ Finals(chain[n].logs) = <<>> => Finals(M) = Finals(L)
        /\ InputsOf(M, Len(Finals(L))) = InputsOf(L, Len(Finals(L)))
    <3>1. PhaseOf(L \o chain[n].logs) # "InputAccumulation"
      BY <1>2 DEF M
    <3>2. 0 \in Nat
      OBVIOUS
    <3>. QED BY <1>2, <2>1, <3>1, <3>2, BlockContinues
  <2>. QED BY <1>4, <2>2 DEF L, M, n
<1>. QED BY <1>1, <1>3, <1>4

\* Once synced, the sealed epoch is that of the log.
LEMMA SealedSynced ==
    ASSUME NEW chain \in Seq(AllBlocks), chain # <<>>, GoodChain(chain), NEW e0 \in Nat,
           PhaseOf(AllLogs(chain)) # "InputAccumulation"
    PROVE  \E ins \in SealedInputs(chain, e0) :
               SealedFromSync(EpochOf(AllLogs(chain), e0), chain) =
                   SealedIn(AllLogs(chain), EpochOf(AllLogs(chain), e0), ins)
<1>. DEFINE L == AllLogs(chain)
            e == EpochOf(L, e0)
            s == SyncBlock(chain)
            m == Len(chain)
            ins == InputsOf(AllLogs(SubSeq(chain, 1, s)), e)
<1>1. m \in Nat /\ s \in 1 .. m /\ m \in 1 .. m /\ m <= s + SafetyMargin
  BY SyncBlockInChain
<1>2. L \in Seq(AllEvents) /\ SubSeq(chain, 1, m) = chain
  <2>1. SubSeq(chain, 1, m) = chain
    BY <1>1, ChainUpTo
  <2>. QED BY <2>1, AllLogsType
<1>3. Len(Finals(L)) \in Nat
  <2>1. Finals(L) \in Seq(AllEvents)
    BY <1>2, LogTypes
  <2>. QED BY <2>1
<1>4. e \in Nat
  BY <1>3 DEF EpochOf
<1>5. SealedFromSync(e, chain) = SealedIn(L, e, ins)
  BY <1>4, SealedFromSyncIs
<1>6. AllLogs(SubSeq(chain, 1, s)) \in Seq(AllEvents)
  <2>1. SubSeq(chain, 1, s) \in Seq(AllBlocks)
    BY <1>1, ChainUpTo
  <2>. QED BY <2>1, AllLogsType
<1>7. ins \in Seq(Inputs)
  BY <1>6, LogTypes
<1>8. SafetyMargin <= 1 /\ e0 <= Len(Finals(L)) => ins = InputsOf(L, Len(Finals(L)))
  <2>. SUFFICES ASSUME SafetyMargin <= 1, e0 <= Len(Finals(L))
                PROVE  ins = InputsOf(L, Len(Finals(L)))
    OBVIOUS
  <2>1. e = Len(Finals(L))
    BY <1>3 DEF EpochOf
  <2>. QED BY <2>1, SyncedInputs
<1>9. SyncedAt(chain, s, m)
  BY <1>1, <1>2 DEF SyncedAt
<1>10. \E k, n \in 1 .. m : SyncedAt(chain, k, n) /\ ins = InputsOf(AllLogs(SubSeq(chain, 1, k)), e)
  BY <1>1, <1>9
<1>. HIDE DEF ins, s, e
<1>11. ins \in SealedInputs(chain, e0)
  BY <1>7, <1>8, <1>10 DEF SealedInputs, e
<1>. QED BY <1>5, <1>11 DEF e

\* The finalized epochs of a view have their types, and their number.
LEMMA FinalizedTypes ==
    ASSUME NEW L \in Seq(AllEvents), NEW e0 \in Nat
    PROVE  /\ FinalizedIn(L, e0) \in Seq([number : Nat, hash : Claims, inputs : Seq(Inputs)])
           /\ Len(FinalizedIn(L, e0)) = IF Len(Finals(L)) < e0 THEN 0 ELSE Len(Finals(L)) - e0
           /\ e0 + Len(FinalizedIn(L, e0)) = EpochOf(L, e0)
           /\ EpochOf(L, e0) \in Nat
<1>. DEFINE n == Len(Finals(L))
            m == IF n < e0 THEN 0 ELSE n - e0
            X == [number : Nat, hash : Claims, inputs : Seq(Inputs)]
            val(i) == [number |-> Finals(L)[e0 + i].epoch, hash |-> Finals(L)[e0 + i].hash,
                       inputs |-> InputsOf(L, Finals(L)[e0 + i].epoch)]
<1>1. n \in Nat /\ m \in Nat
  <2>1. Finals(L) \in Seq(AllEvents)
    BY LogTypes
  <2>2. n \in Nat
    BY <2>1
  <2>. HIDE DEF n
  <2>. QED BY <2>2
<1>2. ASSUME NEW i \in 1 .. m PROVE val(i) \in X
  <2>1. e0 + i \in 1 .. n
    <3>. HIDE DEF n
    <3>. QED BY <1>1
  <2>2. Finals(L)[e0 + i].epoch \in Nat /\ Finals(L)[e0 + i].hash \in Claims
    BY <2>1, LogTypes
  <2>3. InputsOf(L, Finals(L)[e0 + i].epoch) \in Seq(Inputs)
    BY LogTypes
  <2>. QED BY <2>2, <2>3
<1>3. FinalizedIn(L, e0) = [i \in 1 .. m |-> val(i)]
  BY DEF FinalizedIn
<1>4. EpochOf(L, e0) = IF n < e0 THEN e0 ELSE n
  BY DEF EpochOf
<1>. HIDE DEF X, val, n
<1>5. m = IF n < e0 THEN 0 ELSE n - e0
  OBVIOUS
<1>. HIDE DEF m
<1>6. FinalizedIn(L, e0) \in Seq(X) /\ Len(FinalizedIn(L, e0)) = m
  BY <1>1, <1>2, <1>3
<1>. QED BY <1>1, <1>4, <1>5, <1>6 DEF X, n

\* The finalized epochs after one more block.
LEMMA FinalizedContinues ==
    ASSUME NEW L \in Seq(AllEvents), NEW b \in AllBlocks, GoodBlock(L, b), NEW e0 \in Nat
    PROVE  LET M  == L \o b.logs
               ev == Finals(b.logs)[1]
           IN
           /\ Finals(b.logs) = <<>> \/ Len(Finals(L)) < e0 =>
                  FinalizedIn(M, e0) = FinalizedIn(L, e0)
           /\ Finals(b.logs) # <<>> /\ ~(Len(Finals(L)) < e0) =>
                  FinalizedIn(M, e0) =
                      FinalizedIn(L, e0) \o <<[number |-> ev.epoch, hash |-> ev.hash,
                                               inputs |-> InputsOf(M, ev.epoch)]>>
<1>. DEFINE M == L \o b.logs
            n == Len(Finals(L))
            ev == Finals(b.logs)[1]
            val(i) == [number |-> Finals(M)[e0 + i].epoch, hash |-> Finals(M)[e0 + i].hash,
                       inputs |-> InputsOf(M, Finals(M)[e0 + i].epoch)]
            old(i) == [number |-> Finals(L)[e0 + i].epoch, hash |-> Finals(L)[e0 + i].hash,
                       inputs |-> InputsOf(L, Finals(L)[e0 + i].epoch)]
<1>1. /\ b.logs \in Seq(AllEvents) /\ M \in Seq(AllEvents)
      /\ Finals(b.logs) = <<>> => Finals(M) = Finals(L)
      /\ \A i \in 1 .. n : InputsOf(M, Finals(L)[i].epoch) = InputsOf(L, Finals(L)[i].epoch)
  <2>1. b.logs \in Seq(AllEvents)
    BY DEF AllBlocks
  <2>. QED BY <2>1, BlockContinues
<1>2. /\ Finals(L) \in Seq(AllEvents) /\ Finals(b.logs) \in Seq(AllEvents)
      /\ n \in Nat
  <2>1. Finals(L) \in Seq(AllEvents) /\ Finals(b.logs) \in Seq(AllEvents)
    BY <1>1, LogTypes
  <2>. QED BY <2>1
<1>3. Finals(b.logs) # <<>> => Finals(M) = Append(Finals(L), ev) /\ Len(Finals(M)) = n + 1
  <2>1. SUFFICES ASSUME Finals(b.logs) # <<>>
                 PROVE  Finals(M) = Append(Finals(L), ev) /\ Len(Finals(M)) = n + 1
    OBVIOUS
  <2>2. Len(Finals(b.logs)) = 1
    BY <2>1 DEF GoodBlock
  <2>3. Finals(b.logs) = <<ev>> /\ ev \in AllEvents
    BY <1>2, <2>2, OneElement
  <2>4. \A q \in Seq(AllEvents) : \A x \in AllEvents :
            q \o <<x>> = Append(q, x) /\ Len(Append(q, x)) = Len(q) + 1
    OBVIOUS
  <2>5. Finals(M) = Finals(L) \o Finals(b.logs)
    BY <1>1, PhaseContinues
  <2>6. Finals(M) = Finals(L) \o <<ev>>
    BY <2>3, <2>5
  <2>. HIDE DEF ev, M
  <2>. QED BY <1>2, <2>3, <2>4, <2>6
<1>4. /\ FinalizedIn(M, e0) =
             [i \in 1 .. IF Len(Finals(M)) < e0 THEN 0 ELSE Len(Finals(M)) - e0 |-> val(i)]
      /\ FinalizedIn(L, e0) = [i \in 1 .. IF n < e0 THEN 0 ELSE n - e0 |-> old(i)]
  BY DEF FinalizedIn
<1>5. ASSUME NEW i \in 1 .. n - e0 PROVE val(i) = old(i)
  <2>1. e0 + i \in 1 .. n
    <3>. HIDE DEF n
    <3>. QED BY <1>2
  <2>2. Finals(M)[e0 + i] = Finals(L)[e0 + i]
    <3>1. CASE Finals(b.logs) = <<>>
      BY <1>1, <3>1
    <3>2. CASE Finals(b.logs) # <<>>
      <4>1. \A q \in Seq(AllEvents) : \A x : \A j \in 1 .. Len(q) : Append(q, x)[j] = q[j]
        OBVIOUS
      <4>. QED BY <1>2, <1>3, <2>1, <3>2, <4>1
    <3>. QED BY <3>1, <3>2
  <2>3. InputsOf(M, Finals(L)[e0 + i].epoch) = InputsOf(L, Finals(L)[e0 + i].epoch)
    BY <1>1, <2>1
  <2>. QED BY <2>2, <2>3
<1>. HIDE DEF val, old, M, n
<1>6. ASSUME Finals(b.logs) = <<>> PROVE FinalizedIn(M, e0) = FinalizedIn(L, e0)
  <2>1. Finals(M) = Finals(L)
    BY <1>1, <1>6
  <2>2. Len(Finals(M)) = n
    BY <2>1 DEF n
  <2>3. FinalizedIn(M, e0) = [i \in 1 .. IF n < e0 THEN 0 ELSE n - e0 |-> val(i)]
    BY <1>4, <2>2
  <2>4. \A i \in 1 .. IF n < e0 THEN 0 ELSE n - e0 : val(i) = old(i)
    BY <1>2, <1>5
  <2>. DEFINE m == IF n < e0 THEN 0 ELSE n - e0
  <2>5. /\ FinalizedIn(M, e0) = [i \in 1 .. m |-> val(i)]
        /\ FinalizedIn(L, e0) = [i \in 1 .. m |-> old(i)]
        /\ \A i \in 1 .. m : val(i) = old(i)
    BY <1>4, <2>3, <2>4
  <2>. HIDE DEF m
  <2>. QED BY <2>5
<1>7. ASSUME n < e0 PROVE FinalizedIn(M, e0) = FinalizedIn(L, e0)
  <2>1. Len(Finals(M)) = n \/ Len(Finals(M)) = n + 1
    BY <1>1, <1>3 DEF n
  <2>2. (IF Len(Finals(M)) < e0 THEN 0 ELSE Len(Finals(M)) - e0) = 0
    BY <1>2, <1>7, <2>1
  <2>3. FinalizedIn(M, e0) = [i \in 1 .. 0 |-> val(i)]
    BY <1>4, <2>2
  <2>4. FinalizedIn(L, e0) = [i \in 1 .. 0 |-> old(i)]
    BY <1>4, <1>7
  <2>5. \A i \in 1 .. 0 : val(i) = old(i)
    OBVIOUS
  <2>. QED BY <2>3, <2>4, <2>5
<1>8. ASSUME Finals(b.logs) # <<>>, ~(n < e0)
      PROVE  FinalizedIn(M, e0) =
                 FinalizedIn(L, e0) \o <<[number |-> ev.epoch, hash |-> ev.hash,
                                          inputs |-> InputsOf(M, ev.epoch)]>>
  <2>. DEFINE k == n - e0
              last == [number |-> ev.epoch, hash |-> ev.hash, inputs |-> InputsOf(M, ev.epoch)]
              F == FinalizedIn(L, e0)
  <2>1. k \in Nat /\ Len(Finals(M)) = n + 1 /\ (n + 1) - e0 = k + 1 /\ ~(n + 1 < e0)
        /\ e0 + (k + 1) = n + 1
    BY <1>2, <1>3, <1>8
  <2>2. FinalizedIn(M, e0) = [i \in 1 .. k + 1 |-> val(i)]
    BY <1>4, <2>1
  <2>3. F \in Seq([number : Nat, hash : Claims, inputs : Seq(Inputs)]) /\ Len(F) = k
    BY <1>8, FinalizedTypes DEF n
  <2>4. F = [i \in 1 .. k |-> old(i)]
    BY <1>4, <1>8
  <2>5. val(k + 1) = last
    <3>1. Finals(M)[n + 1] = ev
      <4>1. \A q \in Seq(AllEvents) : \A x : Append(q, x)[Len(q) + 1] = x
        OBVIOUS
      <4>. QED BY <1>2, <1>3, <1>8, <4>1 DEF n
    <3>. QED BY <2>1, <3>1 DEF val
  <2>. DEFINE X == [number : Nat, hash : Claims, inputs : Seq(Inputs)]
  <2>6. F \in Seq(X \cup {last})
    <3>1. \A Y, z : \A q \in Seq(Y) : q \in Seq(Y \cup {z})
      OBVIOUS
    <3>2. F \in Seq(X)
      BY <2>3
    <3>. HIDE DEF F, X, last
    <3>. QED BY <3>1, <3>2
  <2>. HIDE DEF last, F, k, X
  <2>7. F \o <<last>> = [i \in 1 .. k + 1 |-> IF i = k + 1 THEN last ELSE F[i]]
    <3>. DEFINE Y == X \cup {last}
    <3>1. \A q \in Seq(Y) : \A x \in Y :
              q \o <<x>> = [i \in 1 .. Len(q) + 1 |-> IF i = Len(q) + 1 THEN x ELSE q[i]]
      <4>. HIDE DEF Y
      <4>. QED OBVIOUS
    <3>2. last \in Y /\ F \in Seq(Y)
      BY <2>6
    <3>. HIDE DEF Y
    <3>3. F \o <<last>> = [i \in 1 .. Len(F) + 1 |-> IF i = Len(F) + 1 THEN last ELSE F[i]]
      BY <3>1, <3>2
    <3>4. Len(F) = k
      BY <2>3
    <3>. QED BY <3>3, <3>4
  <2>8. \A i \in 1 .. k + 1 : val(i) = IF i = k + 1 THEN last ELSE F[i]
    <3>1. \A i \in 1 .. k + 1 : i # k + 1 => i \in 1 .. k
      BY <2>1
    <3>2. \A i \in 1 .. k : F[i] = old(i) /\ val(i) = old(i)
      BY <1>5, <2>4 DEF k
    <3>. QED BY <2>5, <3>1, <3>2
  <2>. QED BY <2>2, <2>7, <2>8 DEF last, F
<1>. QED BY <1>6, <1>7, <1>8 DEF M, n

\* Folding the finalized epochs of one more block.
LEMMA FinalizedFoldContinues ==
    ASSUME NEW chain \in Seq(AllBlocks), NEW b \in AllBlocks, GoodChain(Append(chain, b)),
           initialEpoch \in Nat
    PROVE  FinalizedFold(FinalizedIn(AllLogs(chain), initialEpoch), Append(chain, b)) =
               FinalizedIn(AllLogs(Append(chain, b)), initialEpoch)
<1>. DEFINE t == Append(chain, b)
            L == AllLogs(chain)
            M == AllLogs(t)
            e0 == initialEpoch
            f == FinalizedIn(L, e0)
            S == {ev \in OfKind(b.logs, "FinalizeEpoch") : ev.epoch >= NextEpoch(f)}
            new == Picked(b.logs, S)
<1>1. /\ Last(t) = b /\ L \in Seq(AllEvents) /\ M = L \o b.logs /\ GoodBlock(L, b)
  BY LastBlock
<1>2. b.logs \in Seq(AllEvents)
  BY DEF AllBlocks
<1>3. /\ f \in Seq([number : Nat, hash : Claims, inputs : Seq(Inputs)])
      /\ NextEpoch(f) = EpochOf(L, e0)
  BY <1>1, FinalizedTypes DEF NextEpoch
<1>4. FinalizedFold(f, t) =
          IF InBloom(b, "FinalizeEpoch")
          THEN f \o [i \in 1 .. Len(new) |-> FinalizedEpoch(new[i], t)] ELSE f
  BY <1>1 DEF FinalizedFold
<1>5. /\ Finals(b.logs) = Query(b.logs, "FinalizeEpoch")
      /\ ToSet(Finals(b.logs)) = OfKind(b.logs, "FinalizeEpoch")
      /\ Finals(b.logs) = Picked(b.logs, OfKind(b.logs, "FinalizeEpoch"))
      /\ Finals(b.logs) \in Seq(AllEvents)
  <2>1. /\ Query(b.logs, "FinalizeEpoch") \in Seq(AllEvents)
        /\ ToSet(Query(b.logs, "FinalizeEpoch")) = OfKind(b.logs, "FinalizeEpoch")
    <3>1. \A k : /\ Query(b.logs, k) \in Seq(AllEvents)
                 /\ ToSet(Query(b.logs, k)) = OfKind(b.logs, k)
      BY <1>2, QueriesFind
    <3>. QED BY <3>1, Zenon
  <2>. QED BY <2>1 DEF Finals, Query
<1>6. new \in Seq(AllEvents) /\ ToSet(new) = ToSet(b.logs) \cap S
  BY <1>2, PickedRange
<1>. HIDE DEF t, L, M, e0, f, S, new
<1>7. new = <<>> => FinalizedFold(f, t) = f
  <2>1. \A q \in Seq([number : Nat, hash : Claims, inputs : Seq(Inputs)]) : q \o <<>> = q
    OBVIOUS
  <2>2. new = <<>> => [i \in 1 .. Len(new) |-> FinalizedEpoch(new[i], t)] = <<>>
    OBVIOUS
  <2>. QED BY <1>3, <1>4, <2>1, <2>2
<1>8. S = {} => new = <<>>
  BY <1>6, InRange
<1>9. CASE Finals(b.logs) = <<>>
  <2>1. S = {}
    <3>1. OfKind(b.logs, "FinalizeEpoch") = {}
      BY <1>5, <1>9 DEF ToSet
    <3>. QED BY <3>1 DEF S
  <2>2. FinalizedIn(M, e0) = f
    BY <1>1, <1>9, FinalizedContinues DEF e0, f
  <2>. QED BY <1>7, <1>8, <2>1, <2>2 DEF t, L, M, e0, f
<1>10. CASE Finals(b.logs) # <<>>
  <2>. DEFINE ev == Finals(b.logs)[1]
              n == Len(Finals(L))
  <2>1. /\ Len(Finals(b.logs)) = 1 /\ ev.epoch = n
    BY <1>1, <1>10 DEF GoodBlock
  <2>2. /\ Finals(b.logs) = <<ev>> /\ ev \in AllEvents
        /\ \A x \in OfKind(b.logs, "FinalizeEpoch") : x = ev
    <3>1. Finals(b.logs) \in Seq(AllEvents)
      BY <1>5
    <3>2. Finals(b.logs) = <<ev>> /\ ev \in AllEvents
      BY <2>1, <3>1, OneElement
    <3>3. ToSet(<<ev>>) = {ev}
      BY DEF ToSet
    <3>. QED BY <1>5, <3>2, <3>3
  <2>3. n \in Nat
    <3>1. Finals(L) \in Seq(AllEvents)
      BY <1>1, LogTypes
    <3>. QED BY <3>1
  <2>4. NextEpoch(f) = IF n < e0 THEN e0 ELSE n
    BY <1>3 DEF EpochOf
  <2>5. e0 \in Nat
    BY DEF e0
  <2>. HIDE DEF n
  <2>6. CASE n < e0
    <3>1. ~(ev.epoch >= NextEpoch(f))
      BY <2>1, <2>3, <2>4, <2>5, <2>6
    <3>2. S = {}
      BY <2>2, <3>1 DEF S
    <3>3. FinalizedIn(M, e0) = f
      BY <1>1, <2>6, FinalizedContinues DEF n, e0, f
    <3>. QED BY <1>7, <1>8, <3>2, <3>3 DEF t, L, M, e0, f
  <2>7. CASE ~(n < e0)
    <3>1. ev.epoch >= NextEpoch(f)
      BY <2>1, <2>3, <2>4, <2>5, <2>7
    <3>2. S = OfKind(b.logs, "FinalizeEpoch")
      BY <2>2, <3>1 DEF S
    <3>3. new = <<ev>>
      BY <1>5, <2>2, <3>2 DEF new
    <3>4. InBloom(b, "FinalizeEpoch")
      BY <1>5, <1>10 DEF InBloom
    <3>5. [i \in 1 .. Len(new) |-> FinalizedEpoch(new[i], t)] = <<FinalizedEpoch(ev, t)>>
      BY <3>3
    <3>6. FinalizedEpoch(ev, t) =
              [number |-> ev.epoch, hash |-> ev.hash, inputs |-> InputsOf(M, ev.epoch)]
      BY DEF FinalizedEpoch, EpochInputs, InputsOf, AddedTo, M
    <3>7. FinalizedIn(M, e0) =
              f \o <<[number |-> ev.epoch, hash |-> ev.hash, inputs |-> InputsOf(M, ev.epoch)]>>
      BY <1>1, <1>10, <2>7, FinalizedContinues DEF n, e0, f
    <3>8. FinalizedFold(f, t) = f \o <<FinalizedEpoch(ev, t)>>
      BY <1>4, <3>4, <3>5
    <3>. QED BY <3>6, <3>7, <3>8 DEF t, L, M, e0, f
  <2>. QED BY <2>6, <2>7
<1>. QED BY <1>9, <1>10

\* No bloom filter says that a block changes the phase when it does not.
NoPhaseNoise == \A n \in Noise : "PhaseChange" \notin n

\* Without such noise the fold looks for phase changes where there are some.
LEMMA PhaseInBloom ==
    ASSUME NoPhaseNoise, NEW b \in AllBlocks
    PROVE  InBloom(b, "PhaseChange") <=> Changes(b.logs) # <<>>
<1>1. b.noise \in Noise
  BY DEF AllBlocks
<1>. QED BY <1>1 DEF InBloom, Changes, NoPhaseNoise

\* What a block leaves of the sealed epoch.
LEMMA SealedContinues ==
    ASSUME NEW chain \in Seq(AllBlocks), NEW b \in AllBlocks, GoodBlock(AllLogs(chain), b),
           NEW e0 \in Nat, PhaseOf(AllLogs(Append(chain, b))) # "InputAccumulation"
    PROVE  /\ EpochOf(AllLogs(Append(chain, b)), e0) = EpochOf(AllLogs(chain), e0)
           /\ \A ins \in SealedInputs(chain, e0) : ins \in SealedInputs(Append(chain, b), e0)
<1>. DEFINE t == Append(chain, b)
            L == AllLogs(chain)
            M == AllLogs(t)
<1>1. L \in Seq(AllEvents) /\ M = L \o b.logs
  BY AllLogsType, LogsGrow
<1>2. /\ Finals(M) = Finals(L) /\ EpochOf(M, e0) = EpochOf(L, e0)
      /\ InputsOf(M, Len(Finals(L))) = InputsOf(L, Len(Finals(L)))
  <2>1. PhaseOf(L \o b.logs) # "InputAccumulation" /\ GoodBlock(L, b)
    BY <1>1
  <2>. HIDE DEF M, L
  <2>2. /\ Finals(b.logs) = <<>>
        /\ Finals(b.logs) = <<>> =>
               Finals(L \o b.logs) = Finals(L) /\ EpochOf(L \o b.logs, e0) = EpochOf(L, e0)
        /\ InputsOf(L \o b.logs, Len(Finals(L))) = InputsOf(L, Len(Finals(L)))
    BY <1>1, <2>1, BlockContinues
  <2>. QED BY <1>1, <2>2
<1>3. /\ Len(chain) \in Nat /\ Len(t) = Len(chain) + 1
      /\ \A k \in 1 .. Len(chain) : k \in 1 .. Len(t) /\ SubSeq(t, 1, k) = SubSeq(chain, 1, k)
  OBVIOUS
<1>. HIDE DEF t, L, M
<1>4. ASSUME NEW ins \in SealedInputs(chain, e0) PROVE ins \in SealedInputs(t, e0)
  <2>1. /\ ins \in Seq(Inputs)
        /\ SafetyMargin <= 1 /\ e0 <= Len(Finals(L)) => ins = InputsOf(L, Len(Finals(L)))
        /\ \E k, n \in 1 .. Len(chain) :
              SyncedAt(chain, k, n) /\ ins = InputsOf(AllLogs(SubSeq(chain, 1, k)), EpochOf(L, e0))
    BY DEF SealedInputs, L
  <2>2. PICK k \in 1 .. Len(chain), n \in 1 .. Len(chain) :
            SyncedAt(chain, k, n) /\ ins = InputsOf(AllLogs(SubSeq(chain, 1, k)), EpochOf(L, e0))
    BY <2>1
  <2>3. SyncedAt(t, k, n)
    BY <1>2, <1>3, <2>2 DEF SyncedAt, L, M
  <2>4. ins = InputsOf(AllLogs(SubSeq(t, 1, k)), EpochOf(M, e0))
    BY <1>2, <1>3, <2>2
  <2>5. \E i, j \in 1 .. Len(t) :
            SyncedAt(t, i, j) /\ ins = InputsOf(AllLogs(SubSeq(t, 1, i)), EpochOf(M, e0))
    BY <1>3, <2>3, <2>4
  <2>6. SafetyMargin <= 1 /\ e0 <= Len(Finals(M)) => ins = InputsOf(M, Len(Finals(M)))
    BY <1>2, <2>1
  <2>. QED BY <2>1, <2>5, <2>6 DEF SealedInputs, M
<1>. QED BY <1>2, <1>4 DEF t, L, M

\* The inputs of an epoch that a block finds sealed: archived, or from a sync.
InputsAtSealing(state, chain, t) ==
    IF PhaseOf(AllLogs(chain)) = "InputAccumulation"
    THEN InputsOf(AllLogs(SubSeq(t, 1, SyncBlock(t))), EpochOf(AllLogs(chain), initialEpoch))
    ELSE state.sealed.inputs

\* Whatever view a log has, folding one more block gives a view of the longer log,
\* with the inputs archived or synced for the sealed epoch.
LEMMA EpochFoldContinues ==
    ASSUME NoPhaseNoise, initialEpoch \in Nat, NEW chain \in Seq(AllBlocks), NEW b \in AllBlocks,
           GoodChain(Append(chain, b)), NEW state \in Views(chain, initialEpoch)
    PROVE  /\ EpochFold(state, Append(chain, b)) \in Views(Append(chain, b), initialEpoch)
           /\ PhaseOf(AllLogs(Append(chain, b))) # "InputAccumulation" =>
                  EpochFold(state, Append(chain, b)).sealed.inputs =
                      InputsAtSealing(state, chain, Append(chain, b))
<1>. DEFINE t == Append(chain, b)
            L == AllLogs(chain)
            M == AllLogs(t)
            e0 == initialEpoch
            N == EpochOf(L, e0)
            given == InputsAtSealing(state, chain, t)
<1>1. /\ t \in Seq(AllBlocks) /\ t # <<>> /\ GoodChain(t)
      /\ Last(t) = b /\ L \in Seq(AllEvents) /\ M = L \o b.logs /\ GoodBlock(L, b)
  BY LastBlock
<1>2. /\ b.logs \in Seq(AllEvents) /\ M \in Seq(AllEvents)
      /\ InBloom(b, "PhaseChange") <=> Changes(b.logs) # <<>>
  <2>1. b.logs \in Seq(AllEvents)
    BY DEF AllBlocks
  <2>. QED BY <1>1, <2>1, PhaseInBloom
<1>3. /\ PhaseOf(M) = IF Changes(b.logs) = <<>> THEN PhaseOf(L) ELSE PhaseOf(b.logs)
      /\ ChangedOf(M) = IF Changes(b.logs) = <<>> THEN ChangedOf(L) ELSE ChangedOf(b.logs)
  <2>1. PhaseOf(M) = IF Changes(b.logs) = <<>> THEN PhaseOf(L) ELSE PhaseOf(b.logs)
    BY <1>1, <1>2, PhaseContinues
  <2>2. ChangedOf(M) = IF Changes(b.logs) = <<>> THEN ChangedOf(L) ELSE ChangedOf(b.logs)
    BY <1>1, <1>2, PhaseContinues
  <2>. QED BY <2>1, <2>2
<1>4. \A e : AccumulatingEpoch(e, t) = OpenIn(M, e)
  BY DEF AccumulatingEpoch, EpochInputs, OpenIn, InputsOf, AddedTo
<1>5. FinalizedFold(FinalizedIn(L, e0), t) = FinalizedIn(M, e0)
  BY FinalizedFoldContinues
<1>6. NextEpoch(FinalizedIn(M, e0)) = EpochOf(M, e0) /\ EpochOf(M, e0) \in Nat /\ N \in Nat
  BY <1>1, <1>2, FinalizedTypes DEF NextEpoch
<1>7. \A ins : SealedFold(SealedIn(L, N, ins), b) = SealedIn(M, N, ins)
  <2>1. ClaimsOf(b.logs, N) # {} => FirstOf(b.logs, N) = b.timestamp
    BY <1>1, <1>6 DEF GoodBlock
  <2>. HIDE DEF N, L, M
  <2>. QED BY <1>1, <1>6, <2>1, SealedFoldContinues
<1>8. PhaseOf(M) # "InputAccumulation" =>
          EpochOf(M, e0) = N /\ \A ins \in SealedInputs(chain, e0) : ins \in SealedInputs(t, e0)
  BY <1>1, SealedContinues
<1>9. PhaseOf(L) = "InputAccumulation" => state = OpenView(L, e0)
  BY DEF Views
<1>10. PhaseOf(L) # "InputAccumulation" =>
           \E ins \in SealedInputs(chain, e0) : state = SealedView(L, e0, ins)
  BY DEF Views
<1>11. state.finalized = FinalizedIn(L, e0)
  BY <1>9, <1>10 DEF OpenView, SealedView
<1>12. /\ PhaseOf(M) = "InputAccumulation" => Views(t, e0) = {OpenView(M, e0)}
       /\ PhaseOf(M) # "InputAccumulation" =>
              \A ins \in SealedInputs(t, e0) : SealedView(M, e0, ins) \in Views(t, e0)
  BY DEF Views
<1>13. /\ PhaseOf(L) = "InputAccumulation" =>
               given = InputsOf(AllLogs(SubSeq(t, 1, SyncBlock(t))), N)
       /\ PhaseOf(L) # "InputAccumulation" => given = state.sealed.inputs
  BY DEF InputsAtSealing
<1>14. \A ins : SealedView(M, e0, ins).sealed.inputs = ins
  BY DEF SealedView, SealedIn
<1>. HIDE DEF t, L, M, e0, N, given
<1>15. CASE Changes(b.logs) = <<>>
  <2>1. /\ PhaseOf(M) = PhaseOf(L) /\ ChangedOf(M) = ChangedOf(L)
    BY <1>3, <1>15
  <2>2. Finals(b.logs) = <<>>
    BY <1>1, <1>15 DEF GoodBlock
  <2>3. FinalizedIn(M, e0) = FinalizedIn(L, e0)
    BY <1>1, <2>2, FinalizedContinues DEF e0
  <2>4. EpochOf(M, e0) = N
    <3>1. Finals(b.logs) = <<>> => EpochOf(M, e0) = EpochOf(L, e0)
      BY <1>1, BlockContinues DEF e0
    <3>. QED BY <2>2, <3>1 DEF N
  <2>5. ~InBloom(b, "PhaseChange")
    BY <1>2, <1>15
  <2>6. EpochFold(state, t) =
            IF state.phase = "InputAccumulation"
            THEN [state EXCEPT !.current = AccumulatingEpoch(state.current.number, t)]
            ELSE [state EXCEPT !.current = AccumulatingEpoch(state.current.number, t),
                               !.sealed  = SealedFold(@, b)]
    BY <1>1, <2>5 DEF EpochFold
  <2>7. CASE PhaseOf(L) = "InputAccumulation"
    <3>1. state = OpenView(L, e0)
      BY <1>9, <2>7
    <3>2. state = [phase |-> "InputAccumulation", finalized |-> FinalizedIn(L, e0),
                   phaseChange |-> ChangedOf(L), current |-> OpenIn(L, N)]
      BY <3>1 DEF OpenView, N
    <3>3. state.phase = "InputAccumulation" /\ state.current.number = N
      BY <3>2 DEF OpenIn
    <3>4. EpochFold(state, t) = [state EXCEPT !.current = OpenIn(M, N)]
      BY <1>4, <2>6, <3>3
    <3>5. EpochFold(state, t) = [phase |-> "InputAccumulation", finalized |-> FinalizedIn(L, e0),
                                 phaseChange |-> ChangedOf(L), current |-> OpenIn(M, N)]
      BY <3>2, <3>4
    <3>6. EpochFold(state, t) = OpenView(M, e0)
      BY <2>1, <2>3, <2>4, <3>5 DEF OpenView
    <3>. QED BY <1>12, <2>1, <2>7, <3>6 DEF t, M, e0
  <2>8. CASE PhaseOf(L) # "InputAccumulation"
    <3>1. PICK ins \in SealedInputs(chain, e0) : state = SealedView(L, e0, ins)
      BY <1>10, <2>8
    <3>. DEFINE p == IF PhaseOf(L) = "AwaitingDispute" /\ ClaimsOf(L, N) = {}
                     THEN "Illegal" ELSE PhaseOf(L)
    <3>2. state = [phase |-> p, finalized |-> FinalizedIn(L, e0), phaseChange |-> ChangedOf(L),
                   current |-> OpenIn(L, N + 1), sealed |-> SealedIn(L, N, ins),
                   roundStart |-> ChangedOf(L)]
      BY <3>1 DEF SealedView, N
    <3>3. p # "InputAccumulation"
      BY <2>8
    <3>4. p = IF PhaseOf(M) = "AwaitingDispute" /\ ClaimsOf(M, N) = {}
              THEN "Illegal" ELSE PhaseOf(M)
      <4>1. PhaseOf(L) = "AwaitingDispute" => ClaimsOf(b.logs, N) = {}
        BY <1>1, <1>6, <1>15 DEF GoodBlock
      <4>2. ClaimsOf(M, N) = ClaimsOf(L, N) \cup ClaimsOf(b.logs, N)
        BY <1>1, <1>2, ClaimsContinue
      <4>. QED BY <2>1, <4>1, <4>2
    <3>. HIDE DEF p
    <3>5. state.phase = p /\ state.current.number = N + 1 /\ state.sealed = SealedIn(L, N, ins)
      BY <3>2 DEF OpenIn
    <3>6. EpochFold(state, t) = [state EXCEPT !.current = OpenIn(M, N + 1),
                                              !.sealed  = SealedIn(M, N, ins)]
      BY <1>4, <1>7, <2>6, <3>3, <3>5
    <3>7. EpochFold(state, t) =
              [phase |-> p, finalized |-> FinalizedIn(L, e0), phaseChange |-> ChangedOf(L),
               current |-> OpenIn(M, N + 1), sealed |-> SealedIn(M, N, ins),
               roundStart |-> ChangedOf(L)]
      BY <3>2, <3>6
    <3>8. EpochFold(state, t) = SealedView(M, e0, ins)
      BY <2>1, <2>3, <2>4, <3>4, <3>7 DEF SealedView
    <3>9. EpochFold(state, t) \in Views(t, e0)
      BY <1>8, <1>12, <2>1, <2>8, <3>1, <3>8
    <3>10. state.sealed.inputs = ins
      BY <3>5 DEF SealedIn
    <3>11. EpochFold(state, t).sealed.inputs = given
      BY <1>13, <1>14, <2>8, <3>8, <3>10
    <3>. QED BY <3>9, <3>11 DEF t, M, e0, given
  <2>. QED BY <2>7, <2>8
<1>16. CASE Changes(b.logs) # <<>>
  <2>1. /\ PhaseOf(M) = Last(Changes(b.logs)).phase
        /\ ChangedOf(M) = b.timestamp
    BY <1>1, <1>3, <1>16 DEF GoodBlock, PhaseOf
  <2>2. EpochFold(state, t) =
            PhaseAfter(Changes(b.logs), FinalizedIn(M, e0), b.timestamp,
                       SealedAt(state, EpochOf(M, e0), t), t)
    BY <1>1, <1>2, <1>5, <1>6, <1>11, <1>16 DEF EpochFold, Changes
  <2>3. CASE PhaseOf(M) = "InputAccumulation"
    <3>1. EpochFold(state, t) = InputAccumulationState(FinalizedIn(M, e0), b.timestamp, t)
      BY <2>1, <2>2, <2>3 DEF PhaseAfter
    <3>2. EpochFold(state, t) = OpenView(M, e0)
      BY <1>4, <1>6, <2>1, <3>1 DEF InputAccumulationState, OpenView
    <3>. QED BY <1>12, <2>3, <3>2 DEF t, M, e0
  <2>4. CASE PhaseOf(M) # "InputAccumulation"
    <3>. DEFINE sealed == SealedAt(state, EpochOf(M, e0), t)
    <3>1. EpochOf(M, e0) = N
      BY <1>8, <2>4
    <3>2. \E ins \in SealedInputs(t, e0) : sealed = SealedIn(M, N, ins) /\ ins = given
      <4>1. CASE PhaseOf(L) = "InputAccumulation"
        <5>1. "sealed" \notin DOMAIN state
          BY <1>9, <4>1 DEF OpenView
        <5>2. sealed = SealedFromSync(N, t)
          BY <3>1, <5>1 DEF SealedAt, Archived
        <5>3. \E ins \in SealedInputs(t, e0) :
                  SealedFromSync(EpochOf(M, e0), t) = SealedIn(M, EpochOf(M, e0), ins)
          BY <1>1, <2>4, SealedSynced DEF M, e0
        <5>4. SealedFromSync(N, t) = SealedIn(M, N, InputsOf(AllLogs(SubSeq(t, 1, SyncBlock(t))), N))
          BY <1>1, <1>6, SealedFromSyncIs DEF M
        <5>5. \A x : SealedIn(M, N, x).inputs = x
          BY DEF SealedIn
        <5>6. PICK ins \in SealedInputs(t, e0) : sealed = SealedIn(M, N, ins)
          BY <3>1, <5>2, <5>3
        <5>7. sealed.inputs = ins /\ sealed.inputs = given
          BY <1>13, <4>1, <5>2, <5>4, <5>5, <5>6
        <5>. QED BY <5>6, <5>7
      <4>2. CASE PhaseOf(L) # "InputAccumulation"
        <5>1. PICK ins \in SealedInputs(chain, e0) : state = SealedView(L, e0, ins)
          BY <1>10, <4>2
        <5>2. "sealed" \in DOMAIN state /\ state.sealed = SealedIn(L, N, ins)
          BY <5>1 DEF SealedView, N
        <5>3. state.sealed.epoch = N
          BY <5>2 DEF SealedIn
        <5>4. sealed = SealedFold(SealedIn(L, N, ins), b)
          BY <1>1, <3>1, <5>2, <5>3 DEF SealedAt, Archived
        <5>5. given = ins
          BY <1>13, <4>2, <5>2 DEF SealedIn
        <5>. QED BY <1>7, <1>8, <2>4, <5>1, <5>4, <5>5
      <4>. QED BY <4>1, <4>2
    <3>3. PICK ins \in SealedInputs(t, e0) : sealed = SealedIn(M, N, ins) /\ ins = given
      BY <3>2
    <3>4. EpochFold(state, t) =
              SealedState(PhaseOf(M), SealedIn(M, N, ins), FinalizedIn(M, e0), b.timestamp, t)
      BY <1>16, <2>1, <2>2, <2>4, <3>3 DEF PhaseAfter
    <3>5. SealedIn(M, N, ins).claims = ClaimsOf(M, N)
      BY DEF SealedIn
    <3>6. EpochFold(state, t) = SealedView(M, e0, ins)
      BY <1>4, <1>6, <2>1, <3>1, <3>4, <3>5 DEF SealedState, SealedView
    <3>. QED BY <1>12, <1>14, <2>4, <3>3, <3>6 DEF t, M, e0, given
  <2>. QED BY <2>3, <2>4
<1>. QED BY <1>15, <1>16

\* A sync gives a view of the log.
LEMMA EpochSyncIs ==
    ASSUME initialEpoch \in Nat, NEW chain \in Seq(AllBlocks), chain # <<>>, GoodChain(chain)
    PROVE  EpochSync(chain) \in Views(chain, initialEpoch)
<1>. DEFINE L == AllLogs(chain)
            e0 == initialEpoch
            cs == Changes(L)
            changed == IF cs = <<>> THEN None ELSE Last(cs).ts
            sealed == SealedFromSync(EpochOf(L, e0), chain)
<1>1. FinalizedSync(chain) = FinalizedIn(L, e0)
  BY DEF FinalizedSync, FinalizedIn, FinalizedEpoch, EpochInputs, InputsOf, AddedTo, Finals
<1>2. L \in Seq(AllEvents) /\ NextEpoch(FinalizedIn(L, e0)) = EpochOf(L, e0)
  BY AllLogsType, FinalizedTypes DEF NextEpoch
<1>3. \A e : AccumulatingEpoch(e, chain) = OpenIn(L, e)
  BY DEF AccumulatingEpoch, EpochInputs, OpenIn, InputsOf, AddedTo
<1>4. EpochSync(chain) = PhaseAfter(cs, FinalizedIn(L, e0), changed, sealed, chain)
  BY <1>1, <1>2 DEF EpochSync, Changes
<1>5. /\ PhaseOf(L) = IF cs = <<>> THEN "InputAccumulation" ELSE Last(cs).phase
      /\ ChangedOf(L) = changed
  BY DEF PhaseOf, ChangedOf
<1>6. PhaseOf(L) # "InputAccumulation" =>
          \E ins \in SealedInputs(chain, e0) : sealed = SealedIn(L, EpochOf(L, e0), ins)
  BY SealedSynced
<1>. HIDE DEF L, e0, cs, changed, sealed
<1>7. CASE PhaseOf(L) = "InputAccumulation"
  <2>1. EpochSync(chain) = InputAccumulationState(FinalizedIn(L, e0), ChangedOf(L), chain)
    BY <1>4, <1>5, <1>7 DEF PhaseAfter
  <2>2. EpochSync(chain) = OpenView(L, e0)
    BY <1>2, <1>3, <2>1 DEF InputAccumulationState, OpenView
  <2>. QED BY <1>7, <2>2 DEF Views, L, e0
<1>8. CASE PhaseOf(L) # "InputAccumulation"
  <2>1. PICK ins \in SealedInputs(chain, e0) : sealed = SealedIn(L, EpochOf(L, e0), ins)
    BY <1>6, <1>8
  <2>2. EpochSync(chain) =
            SealedState(PhaseOf(L), SealedIn(L, EpochOf(L, e0), ins), FinalizedIn(L, e0),
                        ChangedOf(L), chain)
    BY <1>4, <1>5, <1>8, <2>1 DEF PhaseAfter
  <2>3. SealedIn(L, EpochOf(L, e0), ins).claims = ClaimsOf(L, EpochOf(L, e0))
    BY DEF SealedIn
  <2>4. EpochSync(chain) = SealedView(L, e0, ins)
    BY <1>2, <1>3, <2>2, <2>3 DEF SealedState, SealedView
  <2>. QED BY <1>8, <2>1, <2>4 DEF Views, L, e0
<1>. QED BY <1>7, <1>8

\* Folding the blocks since a view gives a view, unless it fails on the way.
LEMMA FoldFromIs ==
    ASSUME NoPhaseNoise, initialEpoch \in Nat,
           NEW chain \in Seq(AllBlocks), GoodChain(chain), NEW s \in 1 .. Len(chain), NEW failed,
           NEW state, state.phase \in failed \/ state \in Views(SubSeq(chain, 1, s), initialEpoch)
    PROVE  \/ FoldFrom(state, s, chain, failed).phase \in failed
           \/ FoldFrom(state, s, chain, failed) \in Views(chain, initialEpoch)
<1>. DEFINE n == Len(chain) - s
            upTo(k) == SubSeq(chain, 1, s + k)
            X == {state} \cup UNION {Views(upTo(k), initialEpoch) : k \in 0 .. n}
            V(k) == {x \in X : x.phase \in failed \/ x \in Views(upTo(k), initialEpoch)}
            next(x, k) == IF x.phase \in failed THEN x ELSE EpochFold(x, upTo(k))
            step == [k \in 1 .. n |-> [x \in X |-> IF x \in V(k - 1) THEN next(x, k) ELSE x]]
            run == CHOOSE g : g = [k \in 0 .. n |-> IF k = 0 THEN state ELSE next(g[k - 1], k)]
<1>1. Len(chain) \in Nat /\ n \in Nat
  OBVIOUS
<1>2. state \in V(0)
  <2>1. s + 0 = s
    OBVIOUS
  <2>. QED BY <2>1
<1>3. ASSUME NEW k \in 1 .. n, NEW x \in V(k - 1) PROVE next(x, k) \in V(k)
  <2>. DEFINE j == s + k
  <2>1. j \in 1 .. Len(chain) /\ j - 1 = s + (k - 1) /\ j \in 0 .. Len(chain) /\ k \in 0 .. n
    BY <1>1
  <2>2. CASE x.phase \in failed
    BY <2>2
  <2>3. CASE x.phase \notin failed
    <3>. HIDE DEF j, n
    <3>1. /\ SubSeq(chain, 1, j) = Append(SubSeq(chain, 1, j - 1), chain[j])
          /\ chain[j] \in AllBlocks /\ SubSeq(chain, 1, j - 1) \in Seq(AllBlocks)
      BY <2>1, ChainUpTo
    <3>2. GoodChain(SubSeq(chain, 1, j))
      BY <2>1, GoodPrefix
    <3>3. x \in Views(SubSeq(chain, 1, j - 1), initialEpoch)
      BY <2>1, <2>3
    <3>4. EpochFold(x, Append(SubSeq(chain, 1, j - 1), chain[j]))
              \in Views(Append(SubSeq(chain, 1, j - 1), chain[j]), initialEpoch)
      BY <3>1, <3>2, <3>3, EpochFoldContinues
    <3>5. EpochFold(x, upTo(k)) \in Views(upTo(k), initialEpoch)
      BY <3>1, <3>4 DEF j
    <3>. QED BY <2>1, <2>3, <3>5
  <2>. QED BY <2>2, <2>3
<1>4. FoldFrom(state, s, chain, failed) = run[n]
  BY DEF FoldFrom
<1>5. \A k \in 0 .. n : \A x \in V(k) : x \in X
  OBVIOUS
<1>16. ASSUME NEW x \in V(n) PROVE x.phase \in failed \/ x \in Views(chain, initialEpoch)
  <2>1. s + n = Len(chain) /\ Len(chain) \in 1 .. Len(chain)
    BY <1>1
  <2>2. SubSeq(chain, 1, Len(chain)) = chain
    BY <2>1, ChainUpTo
  <2>. QED BY <2>1, <2>2
<1>. HIDE DEF V, upTo, X, next
<1>6. \A k \in 1 .. n : \A x \in X :
          step[k][x] = IF x \in V(k - 1) THEN next(x, k) ELSE x
  OBVIOUS
<1>. HIDE DEF n, step
<1>7. \A k \in 1 .. n : \A x \in X : step[k][x] \in X
  <2>1. \A k \in 1 .. n : k \in 0 .. n
    BY <1>1
  <2>. QED BY <1>3, <1>5, <1>6, <2>1
<1>8. state \in X
  <2>1. 0 \in 0 .. n
    BY <1>1
  <2>. QED BY <1>2, <1>5, <2>1
<1>9. PICK f \in [0 .. n -> X] : IsRun(f, n, state, step)
  BY <1>1, <1>7, <1>8, RunExists
<1>10. \A k \in 0 .. n : f[k] = IF k = 0 THEN state ELSE step[k][f[k - 1]]
  BY <1>9, Zenon DEF IsRun
<1>11. ASSUME NEW k \in Nat, k + 1 <= n, f[k] \in V(k)
       PROVE  f[k + 1] = next(f[k], k + 1) /\ f[k + 1] \in V(k + 1)
  <2>1. k + 1 \in 0 .. n /\ k + 1 # 0 /\ (k + 1) - 1 = k /\ k + 1 \in 1 .. n /\ k \in 0 .. n
    BY <1>1, <1>11
  <2>2. f[k + 1] = step[k + 1][f[k]]
    BY <1>10, <2>1, Zenon
  <2>3. f[k] \in X
    BY <1>9, <2>1
  <2>4. step[k + 1][f[k]] = IF f[k] \in V((k + 1) - 1) THEN next(f[k], k + 1) ELSE f[k]
    BY <1>6, <2>1, <2>3, Zenon
  <2>5. f[k + 1] = next(f[k], k + 1)
    BY <1>11, <2>1, <2>2, <2>4
  <2>6. next(f[k], k + 1) \in V(k + 1)
    <3>1. f[k] \in V((k + 1) - 1)
      BY <1>11, <2>1
    <3>. QED BY <1>3, <2>1, <3>1, Zenon
  <2>. QED BY <2>5, <2>6
<1>12. \A k \in 0 .. n : f[k] \in V(k)
  <2>. DEFINE T == {k \in Nat : k <= n => f[k] \in V(k)}
  <2>1. 0 \in T
    <3>1. 0 \in 0 .. n
      BY <1>1
    <3>2. f[0] = state
      BY <1>10, <3>1, Zenon
    <3>. QED BY <1>2, <3>2
  <2>2. ASSUME NEW k \in Nat, k \in T PROVE k + 1 \in T
    <3>1. k + 1 <= n => k <= n
      BY <1>1
    <3>. QED BY <1>11, <2>2, <3>1
  <2>3. Nat \subseteq T
    <3>. HIDE DEF T
    <3>. QED BY <2>1, <2>2, NatSetInduction
  <2>. QED BY <1>1, <2>3
<1>13. f = [k \in 0 .. n |-> IF k = 0 THEN state ELSE next(f[k - 1], k)]
  <2>1. ASSUME NEW k \in 0 .. n
        PROVE  f[k] = IF k = 0 THEN state ELSE next(f[k - 1], k)
    <3>1. CASE k = 0
      BY <1>10, <3>1
    <3>2. CASE k # 0
      <4>. DEFINE j == k - 1
      <4>1. j \in Nat /\ j + 1 = k /\ j + 1 <= n /\ j \in 0 .. n
        BY <1>1, <3>2
      <4>. HIDE DEF j
      <4>2. f[j] \in V(j)
        BY <1>12, <4>1
      <4>3. f[j + 1] = next(f[j], j + 1)
        BY <1>11, <4>1, <4>2
      <4>4. f[k] = next(f[j], k)
        BY <4>1, <4>3
      <4>. QED BY <3>2, <4>4 DEF j
    <3>. QED BY <3>1, <3>2
  <2>2. f = [k \in 0 .. n |-> f[k]]
    BY <1>9
  <2>. QED BY <2>1, <2>2, Zenon
<1>14. run = [k \in 0 .. n |-> IF k = 0 THEN state ELSE next(run[k - 1], k)]
  BY <1>13, Zenon
<1>15. run[n] = f[n]
  <2>. DEFINE T == {k \in Nat : k <= n => run[k] = f[k]}
  <2>. HIDE DEF run
  <2>1. 0 \in T
    <3>1. 0 \in 0 .. n
      BY <1>1
    <3>2. run[0] = state /\ f[0] = state
      BY <1>13, <1>14, <3>1, Zenon
    <3>. QED BY <3>2
  <2>2. ASSUME NEW k \in Nat, k \in T, k + 1 <= n PROVE run[k + 1] = f[k + 1]
    <3>1. k + 1 \in 0 .. n /\ k + 1 # 0 /\ (k + 1) - 1 = k /\ k <= n
      BY <1>1, <2>2
    <3>2. f[k + 1] = next(f[k], k + 1)
      BY <1>13, <3>1, Zenon
    <3>3. run[k + 1] = next(run[k], k + 1)
      BY <1>14, <3>1, Zenon
    <3>4. run[k] = f[k]
      BY <2>2, <3>1
    <3>. QED BY <3>2, <3>3, <3>4
  <2>3. Nat \subseteq T
    <3>1. \A k \in Nat : k \in T => k + 1 \in T
      BY <2>2
    <3>. QED BY <2>1, <3>1, NatSetInduction
  <2>. QED BY <1>1, <2>3
<1>17. f[n] \in V(n)
  <2>1. n \in 0 .. n
    BY <1>1
  <2>. QED BY <1>12, <2>1
<1>. QED BY <1>4, <1>15, <1>16, <1>17

\* A node that starts has a view of the log, or none.
LEMMA FromSyncIs ==
    ASSUME NoPhaseNoise, initialEpoch \in Nat,
           NEW chain \in Seq(AllBlocks), chain # <<>>, GoodChain(chain)
    PROVE  FromSync(chain).phase \in Unanswered \/ FromSync(chain) \in Views(chain, initialEpoch)
<1>1. ASSUME NEW t \in Seq(AllBlocks), t # <<>>, GoodChain(t)
      PROVE  /\ SyncBlock(t) \in 1 .. Len(t)
             /\ SubSeq(t, 1, SyncBlock(t)) \in Seq(AllBlocks) /\ SubSeq(t, 1, SyncBlock(t)) # <<>>
             /\ GoodChain(SubSeq(t, 1, SyncBlock(t)))
  <2>1. Len(t) \in Nat /\ SyncBlock(t) \in 1 .. Len(t) /\ SyncBlock(t) \in 0 .. Len(t)
    BY <1>1, SyncBlockInChain
  <2>2. SubSeq(t, 1, SyncBlock(t)) \in Seq(AllBlocks) /\ GoodChain(SubSeq(t, 1, SyncBlock(t)))
    BY <1>1, <2>1, GoodPrefix
  <2>3. SubSeq(t, 1, SyncBlock(t)) # <<>>
    BY <2>1
  <2>. QED BY <2>1, <2>2, <2>3
<1>2. ASSUME NEW t \in Seq(AllBlocks), t # <<>>, GoodChain(t)
      PROVE  EpochFromSync(t).phase \in Illegal \/ EpochFromSync(t) \in Views(t, initialEpoch)
  <2>. DEFINE s == SyncBlock(t)
              base == EpochSync(SubSeq(t, 1, s))
  <2>1. base \in Views(SubSeq(t, 1, s), initialEpoch) /\ s \in 1 .. Len(t)
    BY <1>1, <1>2, EpochSyncIs
  <2>2. EpochFromSync(t) = FoldFrom(base, s, t, Illegal)
    BY DEF EpochFromSync
  <2>. HIDE DEF s, base
  <2>. QED BY <1>2, <2>1, <2>2, FoldFromIs
<1>. DEFINE s == SyncBlock(chain)
            base == EpochFromSync(SubSeq(chain, 1, s))
<1>3. s \in 1 .. Len(chain)
  BY <1>1
<1>4. base.phase \in Illegal \/ base \in Views(SubSeq(chain, 1, s), initialEpoch)
  BY <1>1, <1>2
<1>5. FromSync(chain) = FoldFrom(base, s, chain, Unanswered)
  BY DEF FromSync
<1>6. base.phase \in Unanswered \/ base \in Views(SubSeq(chain, 1, s), initialEpoch)
  BY <1>4 DEF Unanswered
<1>. HIDE DEF s, base
<1>. QED BY <1>3, <1>5, <1>6, FoldFromIs

-----------------------------------------------------------------------------
(* What the contracts' storage has to do with what they logged.            *)

Log == AllLogs(blocks) \o logs

\* The storage is what the events say, and so is the history.
StorageIsLogged ==
    /\ Len(Finals(Log)) = Len(epochHashes)
    /\ \A i \in 1 .. Len(epochHashes) :
           Finals(Log)[i].epoch = i - 1 /\ Finals(Log)[i].hash = epochHashes[i]
    /\ PhaseOf(Log) = currentPhase
    /\ \A e \in Epochs : InputsOf(Log, e) = inputAdded[e]
    /\ \A e \in Nat : e > GetCurrentEpoch => InputsOf(Log, e) = <<>>
    /\ \A e \in Nat : e > Len(epochHashes) => ClaimsOf(Log, e) = {}
    /\ ClaimsOf(Log, Len(epochHashes)) = IF currentPhase = "InputAccumulation" THEN {} ELSE votes

\* The timers are those of the events: a phase change starts the accumulation
\* and, except for the one an input causes, the challenge period.
TimersAreLogged ==
    /\ inputAccumulationStart <= now
    /\ \A e \in Nat : FirstOf(Log, e) <= now
    /\ currentPhase = "InputAccumulation" =>
           inputAccumulationStart = IF ChangedOf(Log) = None THEN DeploymentTime ELSE ChangedOf(Log)
    /\ currentPhase # "InputAccumulation" /\ challenge.by # "input" =>
           /\ votes # {}
           /\ FirstOf(Log, Len(epochHashes)) <= challenge.start
           /\ currentPhase = "AwaitingConsensus" => ChangedOf(Log) = challenge.start

\* The block that is being built will be a good one.
BlockIsGood ==
    /\ Changes(logs) # <<>> => ChangedOf(logs) = now
    /\ \A e \in Nat : ClaimsOf(logs, e) # {} => FirstOf(logs, e) = now
    /\ Finals(logs) # <<>> =>
           /\ Len(Finals(logs)) = 1 /\ Changes(logs) # <<>>
           /\ currentPhase = "InputAccumulation" /\ inputAccumulationStart = now
    /\ \A e \in Nat : e < Len(Finals(AllLogs(blocks))) => InputsOf(logs, e) = <<>>
    /\ currentPhase # "InputAccumulation" \/ SealingTimeReached =>
           InputsOf(logs, Len(epochHashes)) = <<>>
    /\ PhaseOf(AllLogs(blocks)) = "AwaitingDispute" /\ Changes(logs) = <<>> =>
           \A e \in Nat : ClaimsOf(logs, e) = {}

ChainInv ==
    /\ logs \in Seq(AllEvents) /\ blocks \in Seq(AllBlocks) /\ initialEpoch \in Nat
    /\ StorageIsLogged
    /\ TimersAreLogged
    /\ BlockIsGood
    /\ GoodChain(blocks)

-----------------------------------------------------------------------------
(* A transaction appends new to the log; what it changes is what new says. *)

PhaseEmitted(new) ==
    /\ Changes(new) = <<>> => currentPhase' = currentPhase
    /\ Changes(new) # <<>> => PhaseOf(new) = currentPhase' /\ ChangedOf(new) = now
    /\ currentPhase = "InputAccumulation" => (SealingTimeReached <=> Changes(new) # <<>>)

FinalEmitted(new) ==
    \/ /\ Finals(new) = <<>>
       /\ Changes(new) # <<>> => currentPhase' # "InputAccumulation"
       /\ epochHashes' = epochHashes /\ inputAccumulationStart' = inputAccumulationStart
    \/ /\ Changes(new) # <<>>
       /\ currentPhase' = "InputAccumulation" /\ inputAccumulationStart' = now
       /\ \E ev \in AllEvents :
              /\ Finals(new) = <<ev>> /\ ev.epoch = Len(epochHashes)
              /\ ev.hash \in Claims /\ epochHashes' = Append(epochHashes, ev.hash)

InputsEmitted(new) ==
    /\ \A e \in Nat : InputsOf(new, e) # <<>> => e = GetCurrentEpoch'
    /\ \A e \in Epochs : inputAdded'[e] = inputAdded[e] \o InputsOf(new, e)

ClaimsEmitted(new) ==
    /\ \A e \in Nat : ClaimsOf(new, e) # {} =>
           e = Len(epochHashes) /\ (SealingTimeReached \/ currentPhase = "AwaitingConsensus")
    /\ \A e \in Nat : FirstOf(new, e) = IF ClaimsOf(new, e) = {} THEN None ELSE now
    /\ votes' = (IF SealingTimeReached THEN {} ELSE votes) \cup ClaimsOf(new, Len(epochHashes))

\* The challenge period is started by a phase change, or by an input.
ChallengeEmitted(new) ==
    currentPhase' # "InputAccumulation" =>
        \/ challenge'.by = "input"
        \/ /\ challenge'.start = now /\ votes' # {}
           /\ currentPhase' = "AwaitingConsensus" => Changes(new) # <<>>
        \/ /\ challenge' = challenge /\ currentPhase # "InputAccumulation"
           /\ currentPhase' = "AwaitingConsensus" => Changes(new) = <<>>

Emitted(new) ==
    /\ new \in Seq(AllEvents)
    /\ PhaseEmitted(new) /\ FinalEmitted(new)
    /\ InputsEmitted(new) /\ ClaimsEmitted(new) /\ ChallengeEmitted(new)

\* The logs before and after a transaction.
LEMMA LogAppends ==
    ASSUME ChainInv, NEW new \in Seq(AllEvents), logs' = logs \o new, blocks' = blocks
    PROVE  /\ Log \in Seq(AllEvents) /\ AllLogs(blocks) \in Seq(AllEvents)
           /\ logs' \in Seq(AllEvents)
           /\ Log' = Log \o new
<1>1. logs \in Seq(AllEvents) /\ AllLogs(blocks) \in Seq(AllEvents)
  BY AllLogsType DEF ChainInv
<1>2. \A s, t, u \in Seq(AllEvents) : (s \o t) \o u = s \o (t \o u) /\ s \o t \in Seq(AllEvents)
  OBVIOUS
<1>3. Log' = AllLogs(blocks) \o (logs \o new)
  BY DEF Log
<1>. QED BY <1>1, <1>2, <1>3 DEF Log

\* A transaction that finds the sealing time reached is not the second one
\* after a finalization in the same block.
LEMMA OneFinalPerBlock ==
    ASSUME TypeOK, BlockIsGood, NEW new, PhaseEmitted(new), FinalEmitted(new), logs \in Seq(AllEvents)
    PROVE  /\ Finals(logs) # <<>> => /\ Finals(new) = <<>> /\ Changes(new) = <<>>
                                     /\ ~SealingTimeReached
           /\ currentPhase = "InputAccumulation" /\ Changes(new) = <<>> => ~SealingTimeReached
<1>1. InputDuration \in Nat /\ now \in Int
  BY TimeAssumption DEF TypeOK
<1>2. inputAccumulationStart = now => ~SealingTimeReached
  BY <1>1 DEF SealingTimeReached
<1>3. Finals(logs) # <<>> => currentPhase = "InputAccumulation" /\ inputAccumulationStart = now
  BY DEF BlockIsGood
<1>4. Finals(new) # <<>> => Changes(new) # <<>>
  BY DEF FinalEmitted
<1>. QED BY <1>2, <1>3, <1>4 DEF PhaseEmitted

\* The storage stays what the log says.
LEMMA StorageStaysLogged ==
    ASSUME TypeOK, ChainInv, NEW new, Emitted(new), logs' = logs \o new, blocks' = blocks
    PROVE  StorageIsLogged'
<1>. DEFINE N == Len(epochHashes)
            K == Log
            M == K \o new
<1>1. K \in Seq(AllEvents) /\ new \in Seq(AllEvents) /\ Log' = M
  BY LogAppends DEF Emitted
<1>2. N \in Nat /\ epochHashes \in Seq(Claims)
  BY DEF TypeOK
<1>3. StorageIsLogged /\ BlockIsGood /\ logs \in Seq(AllEvents)
  BY DEF ChainInv
<1>. HIDE DEF K, M, N
<1>4. /\ PhaseOf(M) = IF Changes(new) = <<>> THEN PhaseOf(K) ELSE PhaseOf(new)
      /\ Finals(M) = Finals(K) \o Finals(new)
  BY <1>1, PhaseContinues DEF M
<1>5. \A e \in Nat : InputsOf(M, e) = InputsOf(K, e) \o InputsOf(new, e)
  BY <1>1, InputsContinue DEF M
<1>6. \A e \in Nat : ClaimsOf(M, e) = ClaimsOf(K, e) \cup ClaimsOf(new, e)
  BY <1>1, ClaimsContinue DEF M
<1>7. /\ PhaseOf(K) = currentPhase
      /\ \A e \in Epochs : InputsOf(K, e) = inputAdded[e]
      /\ \A e \in Nat : e > N => ClaimsOf(K, e) = {}
      /\ ClaimsOf(K, N) = IF currentPhase = "InputAccumulation" THEN {} ELSE votes
  BY <1>3 DEF StorageIsLogged, K, N
<1>8. Finals(K) \in Seq(AllEvents) /\ Finals(new) \in Seq(AllEvents)
  BY <1>1, LogTypes
<1>9. /\ Len(Finals(K)) = N
      /\ \A i \in 1 .. N : Finals(K)[i].epoch = i - 1 /\ Finals(K)[i].hash = epochHashes[i]
  BY <1>3 DEF StorageIsLogged, K, N
<1>10. /\ Len(Finals(M)) = Len(epochHashes')
       /\ \A i \in 1 .. Len(epochHashes') :
              Finals(M)[i].epoch = i - 1 /\ Finals(M)[i].hash = epochHashes'[i]
  <2>1. CASE Finals(new) = <<>> /\ epochHashes' = epochHashes
    <3>1. Finals(M) = Finals(K)
      BY <1>4, <1>8, <2>1
    <3>. QED BY <1>9, <2>1, <3>1 DEF N
  <2>2. ASSUME NEW ev \in AllEvents, Finals(new) = <<ev>>, ev.epoch = N, ev.hash \in Claims,
               epochHashes' = Append(epochHashes, ev.hash)
        PROVE  /\ Len(Finals(M)) = Len(epochHashes')
               /\ \A i \in 1 .. Len(epochHashes') :
                      Finals(M)[i].epoch = i - 1 /\ Finals(M)[i].hash = epochHashes'[i]
    <3>1. Finals(M) = Append(Finals(K), ev)
      <4>1. \A s \in Seq(AllEvents) : s \o <<ev>> = Append(s, ev)
        OBVIOUS
      <4>. QED BY <1>4, <1>8, <2>2, <4>1
    <3>2. /\ Len(epochHashes') = N + 1 /\ epochHashes'[N + 1] = ev.hash
          /\ \A i \in 1 .. N : epochHashes'[i] = epochHashes[i]
      BY <1>2, <2>2 DEF N
    <3>3. /\ Len(Finals(M)) = N + 1 /\ Finals(M)[N + 1] = ev
          /\ \A i \in 1 .. N : Finals(M)[i] = Finals(K)[i]
      BY <1>8, <1>9, <3>1
    <3>4. \A i \in 1 .. N + 1 : i \in 1 .. N \/ i = N + 1
      BY <1>2
    <3>. QED BY <1>2, <1>9, <2>2, <3>2, <3>3, <3>4
  <2>. QED BY <2>1, <2>2 DEF Emitted, FinalEmitted, N
<1>11. PhaseOf(M) = currentPhase'
  BY <1>4, <1>7 DEF Emitted, PhaseEmitted
<1>12. \A e \in Epochs : InputsOf(M, e) = inputAdded'[e]
  <2>1. Epochs \subseteq Nat
    BY BoundsAssumption DEF Epochs
  <2>. QED BY <1>5, <1>7, <2>1 DEF Emitted, InputsEmitted
<1>13. \A e \in Nat : e > GetCurrentEpoch => InputsOf(K, e) = <<>>
  BY <1>3 DEF StorageIsLogged, K
<1>14. \/ Len(epochHashes') = N
       \/ Len(epochHashes') = N + 1 /\ currentPhase' = "InputAccumulation"
  BY <1>2 DEF Emitted, FinalEmitted, N
<1>15. \A e \in Nat : e # N => ClaimsOf(new, e) = {}
  BY DEF Emitted, ClaimsEmitted, N
<1>16. \A e \in Nat : e > Len(epochHashes') => ClaimsOf(M, e) = {}
  BY <1>2, <1>6, <1>7, <1>14, <1>15
<1>17. ClaimsOf(M, Len(epochHashes')) =
           IF currentPhase' = "InputAccumulation" THEN {} ELSE votes'
  <2>1. CASE Len(epochHashes') = N + 1 /\ currentPhase' = "InputAccumulation"
    BY <1>2, <1>6, <1>7, <1>15, <2>1
  <2>2. CASE Len(epochHashes') = N /\ currentPhase' = "InputAccumulation"
    <3>1. epochHashes' = epochHashes
      <4>1. \A h : Len(Append(epochHashes, h)) = N + 1
        BY <1>2 DEF N
      <4>. QED BY <1>2, <2>2, <4>1 DEF Emitted, FinalEmitted
    <3>2. Changes(new) = <<>> /\ currentPhase = "InputAccumulation"
      <4>1. \A h : Append(epochHashes, h) # epochHashes
        BY <1>2
      <4>2. Changes(new) = <<>>
        BY <2>2, <3>1, <4>1 DEF Emitted, FinalEmitted
      <4>. QED BY <2>2, <4>2 DEF Emitted, PhaseEmitted
    <3>3. ClaimsOf(new, N) = {}
      <4>1. ~SealingTimeReached
        BY <3>2 DEF Emitted, PhaseEmitted
      <4>. QED BY <1>2, <3>2, <4>1 DEF Emitted, ClaimsEmitted
    <3>. QED BY <1>2, <1>6, <1>7, <2>2, <3>2, <3>3
  <2>3. CASE Len(epochHashes') = N /\ currentPhase' # "InputAccumulation"
    <3>1. SealingTimeReached <=> currentPhase = "InputAccumulation"
      BY <2>3 DEF Emitted, PhaseEmitted, SealingTimeReached
    <3>2. votes' = (IF SealingTimeReached THEN {} ELSE votes) \cup ClaimsOf(new, N)
      BY DEF Emitted, ClaimsEmitted, N
    <3>. QED BY <1>2, <1>6, <1>7, <2>3, <3>1, <3>2
  <2>. QED BY <1>14, <2>1, <2>2, <2>3
<1>18. \A e \in Nat : e > GetCurrentEpoch' => InputsOf(M, e) = <<>>
  <2>1. GetCurrentEpoch' \in Nat /\ GetCurrentEpoch' >= GetCurrentEpoch /\ GetCurrentEpoch \in Nat
    <3>1. currentPhase' = "InputAccumulation" /\ currentPhase # "InputAccumulation" =>
              Changes(new) # <<>>
      BY DEF Emitted, PhaseEmitted
    <3>2. Changes(new) # <<>> /\ currentPhase' = "InputAccumulation" => Len(epochHashes') = N + 1
      BY <1>2 DEF Emitted, FinalEmitted, N
    <3>. QED BY <1>2, <1>14, <3>1, <3>2 DEF GetCurrentEpoch, N
  <2>2. \A e \in Nat : e > GetCurrentEpoch' => InputsOf(new, e) = <<>>
    BY <2>1 DEF Emitted, InputsEmitted
  <2>3. \A e \in Nat : e > GetCurrentEpoch' => e > GetCurrentEpoch
    BY <2>1
  <2>4. ASSUME NEW e \in Nat, e > GetCurrentEpoch' PROVE InputsOf(M, e) = <<>>
    <3>1. InputsOf(K, e) = <<>> /\ InputsOf(new, e) = <<>>
      BY <1>13, <2>2, <2>3, <2>4
    <3>2. InputsOf(M, e) = InputsOf(K, e) \o InputsOf(new, e)
      BY <1>5
    <3>. QED BY <3>1, <3>2
  <2>. QED BY <2>4
<1>. QED BY <1>1, <1>10, <1>11, <1>12, <1>16, <1>17, <1>18 DEF StorageIsLogged
\* The timers stay those of the log.
LEMMA TimersStayLogged ==
    ASSUME TypeOK, ChainInv, NEW new, Emitted(new), logs' = logs \o new, blocks' = blocks,
           now' = now
    PROVE  TimersAreLogged'
<1>. DEFINE N == Len(epochHashes)
            K == Log
            M == K \o new
<1>1. K \in Seq(AllEvents) /\ new \in Seq(AllEvents) /\ Log' = M
  BY LogAppends DEF Emitted
<1>2. /\ N \in Nat /\ now \in Nat /\ DeploymentTime <= now /\ DeploymentTime \in Nat
      /\ epochHashes \in Seq(Claims) /\ inputAccumulationStart \in Nat
  BY TimeAssumption DEF TypeOK
<1>3. /\ StorageIsLogged /\ TimersAreLogged /\ BlockIsGood /\ logs \in Seq(AllEvents)
  BY DEF ChainInv
<1>. HIDE DEF K, M, N
<1>4. /\ ChangedOf(M) = IF Changes(new) = <<>> THEN ChangedOf(K) ELSE ChangedOf(new)
      /\ Changes(new) # <<>> => ChangedOf(new) = now
  BY <1>1, PhaseContinues DEF M, Emitted, PhaseEmitted
<1>5. \A e \in Nat : FirstOf(M, e) = IF ClaimsOf(K, e) # {} THEN FirstOf(K, e) ELSE FirstOf(new, e)
  BY <1>1, ClaimsContinue DEF M
<1>6. \A e \in Nat : FirstOf(new, e) <= now
  BY <1>2 DEF Emitted, ClaimsEmitted, None
<1>7. \A e \in Nat : FirstOf(M, e) <= now
  BY <1>3, <1>5, <1>6 DEF TimersAreLogged, K
<1>8. inputAccumulationStart' <= now
  BY <1>2, <1>3 DEF TimersAreLogged, Emitted, FinalEmitted
<1>9. CASE currentPhase' = "InputAccumulation"
  <2>1. CASE Changes(new) # <<>>
    <3>1. inputAccumulationStart' = now /\ ChangedOf(M) = now
      BY <1>4, <1>9, <2>1 DEF Emitted, FinalEmitted
    <3>2. inputAccumulationStart' = IF ChangedOf(M) = None THEN DeploymentTime ELSE ChangedOf(M)
      BY <1>2, <3>1 DEF None
    <3>. QED BY <1>1, <1>7, <1>8, <1>9, <3>2 DEF TimersAreLogged
  <2>2. CASE Changes(new) = <<>>
    <3>1. inputAccumulationStart' = inputAccumulationStart /\ currentPhase = "InputAccumulation"
      BY <1>9, <2>2 DEF Emitted, FinalEmitted, PhaseEmitted
    <3>2. ChangedOf(M) = ChangedOf(K)
      BY <1>4, <2>2
    <3>3. inputAccumulationStart = IF ChangedOf(K) = None THEN DeploymentTime ELSE ChangedOf(K)
      BY <1>3, <3>1 DEF TimersAreLogged, K
    <3>. QED BY <1>1, <1>7, <1>8, <1>9, <3>1, <3>2, <3>3 DEF TimersAreLogged
  <2>. QED BY <2>1, <2>2
<1>10. CASE currentPhase' # "InputAccumulation"
  <2>1. SUFFICES ASSUME challenge'.by # "input"
                 PROVE  /\ votes' # {}
                        /\ FirstOf(M, Len(epochHashes')) <= challenge'.start
                        /\ currentPhase' = "AwaitingConsensus" => ChangedOf(M) = challenge'.start
    BY <1>1, <1>7, <1>8, <1>10 DEF TimersAreLogged
  <2>2. Len(epochHashes') = N
    BY <1>10 DEF Emitted, FinalEmitted, N
  <2>3. CASE /\ challenge'.start = now /\ votes' # {}
             /\ currentPhase' = "AwaitingConsensus" => Changes(new) # <<>>
    BY <1>2, <1>4, <1>7, <2>2, <2>3
  <2>4. CASE /\ challenge' = challenge /\ currentPhase # "InputAccumulation"
             /\ currentPhase' = "AwaitingConsensus" => Changes(new) = <<>>
    <3>1. /\ votes # {} /\ FirstOf(K, N) <= challenge.start
          /\ currentPhase = "AwaitingConsensus" => ChangedOf(K) = challenge.start
      BY <1>3, <2>1, <2>4 DEF TimersAreLogged, K, N
    <3>2. ClaimsOf(K, N) = votes
      BY <1>3, <2>4 DEF StorageIsLogged, K, N
    <3>3. votes' # {}
      <4>1. ~SealingTimeReached
        BY <2>4 DEF SealingTimeReached
      <4>. QED BY <3>1, <4>1 DEF Emitted, ClaimsEmitted
    <3>4. FirstOf(M, N) = FirstOf(K, N)
      BY <1>2, <1>5, <3>1, <3>2
    <3>5. currentPhase' = "AwaitingConsensus" => ChangedOf(M) = challenge.start
      BY <1>4, <2>4, <3>1 DEF Emitted, PhaseEmitted
    <3>. QED BY <2>2, <2>4, <3>1, <3>3, <3>4, <3>5
  <2>. QED BY <1>10, <2>1, <2>3, <2>4 DEF Emitted, ChallengeEmitted
<1>. QED BY <1>9, <1>10

\* The block stays a good one.
LEMMA BlockStaysGood ==
    ASSUME TypeOK, ChainInv, NEW new, Emitted(new), logs' = logs \o new, blocks' = blocks,
           now' = now
    PROVE  BlockIsGood'
<1>. DEFINE N == Len(epochHashes)
            A == AllLogs(blocks)
            u == logs \o new
<1>1. /\ logs \in Seq(AllEvents) /\ new \in Seq(AllEvents) /\ A \in Seq(AllEvents)
      /\ logs' = u /\ AllLogs(blocks') = A
  BY LogAppends DEF Emitted, ChainInv
<1>2. N \in Nat /\ epochHashes \in Seq(Claims) /\ now \in Nat /\ InputDuration \in Nat
  BY TimeAssumption DEF TypeOK
<1>3. StorageIsLogged /\ BlockIsGood
  BY DEF ChainInv
<1>. HIDE DEF A, N
<1>4. /\ ChangedOf(u) = IF Changes(new) = <<>> THEN ChangedOf(logs) ELSE ChangedOf(new)
      /\ Finals(u) = Finals(logs) \o Finals(new)
      /\ Changes(u) = Changes(logs) \o Changes(new)
  BY <1>1, PhaseContinues
<1>5. \A e \in Nat : InputsOf(u, e) = InputsOf(logs, e) \o InputsOf(new, e)
  BY <1>1, InputsContinue
<1>6. \A e \in Nat : /\ ClaimsOf(u, e) = ClaimsOf(logs, e) \cup ClaimsOf(new, e)
                     /\ FirstOf(u, e) = IF ClaimsOf(logs, e) # {} THEN FirstOf(logs, e)
                                        ELSE FirstOf(new, e)
  BY <1>1, ClaimsContinue
<1>7. /\ Finals(logs) # <<>> => /\ Finals(new) = <<>> /\ Changes(new) = <<>>
                                /\ ~SealingTimeReached
      /\ currentPhase = "InputAccumulation" /\ Changes(new) = <<>> => ~SealingTimeReached
  BY <1>1, <1>3, OneFinalPerBlock DEF Emitted
<1>8. /\ Finals(logs) \in Seq(AllEvents) /\ Finals(new) \in Seq(AllEvents)
      /\ Changes(logs) \in Seq(AllEvents) /\ Changes(new) \in Seq(AllEvents)
      /\ Finals(A) \in Seq(AllEvents)
  BY <1>1, LogTypes
<1>9. \A e \in Nat : InputsOf(logs, e) \in Seq(Inputs) /\ InputsOf(new, e) \in Seq(Inputs)
  BY <1>1, LogTypes
<1>. HIDE DEF u
<1>10. Changes(u) = <<>> <=> Changes(logs) = <<>> /\ Changes(new) = <<>>
  BY <1>4, <1>8
<1>11. Changes(u) # <<>> => ChangedOf(u) = now
  BY <1>3, <1>4, <1>10 DEF BlockIsGood, Emitted, PhaseEmitted
<1>12. \A e \in Nat : ClaimsOf(u, e) # {} => FirstOf(u, e) = now
  BY <1>3, <1>6 DEF BlockIsGood, Emitted, ClaimsEmitted
<1>13. Finals(u) # <<>> =>
           /\ Len(Finals(u)) = 1 /\ Changes(u) # <<>>
           /\ currentPhase' = "InputAccumulation" /\ inputAccumulationStart' = now
  <2>1. CASE Finals(logs) # <<>>
    <3>1. Finals(u) = Finals(logs)
      BY <1>4, <1>7, <1>8, <2>1
    <3>2. currentPhase' = currentPhase /\ inputAccumulationStart' = inputAccumulationStart
      BY <1>7, <2>1 DEF Emitted, PhaseEmitted, FinalEmitted
    <3>. QED BY <1>3, <1>10, <2>1, <3>1, <3>2 DEF BlockIsGood
  <2>2. CASE Finals(logs) = <<>>
    <3>1. Finals(u) = Finals(new)
      BY <1>4, <1>8, <2>2
    <3>2. \A ev : Len(<<ev>>) = 1
      OBVIOUS
    <3>. QED BY <1>10, <3>1, <3>2 DEF Emitted, FinalEmitted
  <2>. QED BY <2>1, <2>2
<1>14. /\ \/ Len(epochHashes') = N /\ epochHashes' = epochHashes
          \/ Len(epochHashes') = N + 1
       /\ GetCurrentEpoch' = IF currentPhase' = "InputAccumulation" THEN Len(epochHashes')
                             ELSE Len(epochHashes') + 1
  BY <1>2 DEF Emitted, FinalEmitted, GetCurrentEpoch, N
<1>15. Len(Finals(A)) \in Nat /\ Len(Finals(A)) <= N
  <2>1. Finals(Log) = Finals(A) \o Finals(logs)
    BY <1>1, PhaseContinues DEF Log, A
  <2>. QED BY <1>3, <1>8, <2>1 DEF StorageIsLogged, N
<1>16. \A e \in Nat : e < Len(Finals(A)) => InputsOf(u, e) = <<>>
  <2>1. \A e \in Nat : e < Len(Finals(A)) => InputsOf(logs, e) = <<>>
    BY <1>3 DEF BlockIsGood, A
  <2>2. \A e \in Nat : e < Len(Finals(A)) => InputsOf(new, e) = <<>>
    BY <1>2, <1>14, <1>15 DEF Emitted, InputsEmitted
  <2>. QED BY <1>5, <2>1, <2>2
<1>17. currentPhase' # "InputAccumulation" \/ SealingTimeReached' =>
           InputsOf(u, Len(epochHashes')) = <<>>
  <2>1. ~SealingTimeReached'
    <3>. SUFFICES ASSUME SealingTimeReached' PROVE FALSE
      OBVIOUS
    <3>1. currentPhase' = "InputAccumulation" /\ inputAccumulationStart' # now
      BY <1>2 DEF SealingTimeReached
    <3>2. inputAccumulationStart' = inputAccumulationStart /\ Changes(new) = <<>>
      BY <3>1 DEF Emitted, FinalEmitted
    <3>3. currentPhase = "InputAccumulation"
      BY <3>1, <3>2 DEF Emitted, PhaseEmitted
    <3>4. SealingTimeReached
      BY <3>2, <3>3 DEF SealingTimeReached
    <3>. QED BY <1>7, <3>2, <3>3, <3>4
  <2>2. SUFFICES ASSUME currentPhase' # "InputAccumulation"
                 PROVE  InputsOf(u, Len(epochHashes')) = <<>>
    BY <2>1
  <2>3. Len(epochHashes') = N
    BY <2>2 DEF Emitted, FinalEmitted, N
  <2>4. InputsOf(new, N) = <<>>
    BY <1>2, <1>14, <2>2, <2>3 DEF Emitted, InputsEmitted
  <2>5. currentPhase # "InputAccumulation" \/ SealingTimeReached
    BY <2>2 DEF Emitted, PhaseEmitted
  <2>6. InputsOf(logs, N) = <<>>
    BY <1>3, <2>5 DEF BlockIsGood, N
  <2>. QED BY <1>2, <1>5, <2>3, <2>4, <2>6
<1>18. PhaseOf(A) = "AwaitingDispute" /\ Changes(u) = <<>> => \A e \in Nat : ClaimsOf(u, e) = {}
  <2>. SUFFICES ASSUME PhaseOf(A) = "AwaitingDispute", Changes(u) = <<>>
                PROVE  \A e \in Nat : ClaimsOf(u, e) = {}
    OBVIOUS
  <2>1. \A e \in Nat : ClaimsOf(logs, e) = {}
    BY <1>3, <1>10 DEF BlockIsGood, A
  <2>2. currentPhase = "AwaitingDispute"
    <3>1. PhaseOf(Log) = PhaseOf(A)
      BY <1>1, <1>10, PhaseContinues DEF Log, A
    <3>. QED BY <1>3, <3>1 DEF StorageIsLogged
  <2>3. \A e \in Nat : ClaimsOf(new, e) = {}
    BY <2>2 DEF Emitted, ClaimsEmitted, SealingTimeReached
  <2>. QED BY <1>6, <2>1, <2>3
<1>. QED BY <1>1, <1>11, <1>12, <1>13, <1>16, <1>17, <1>18 DEF BlockIsGood
\* A transaction keeps log, storage and block together.
LEMMA TransactionKeepsChain ==
    ASSUME TypeOK, ChainInv, NEW new, Emitted(new), logs' = logs \o new, blocks' = blocks,
           now' = now, initialEpoch' = initialEpoch
    PROVE  ChainInv'
<1>1. logs' \in Seq(AllEvents)
  BY LogAppends DEF Emitted
<1>2. StorageIsLogged' /\ TimersAreLogged' /\ BlockIsGood'
  BY StorageStaysLogged, TimersStayLogged, BlockStaysGood
<1>3. blocks' \in Seq(AllBlocks) /\ initialEpoch' \in Nat /\ GoodChain(blocks')
  BY DEF ChainInv
<1>. QED BY <1>1, <1>2, <1>3 DEF ChainInv

\* The block that is closed is a good one.
LEMMA ClosedBlockIsGood ==
    ASSUME TypeOK, ChainInv, NEW noise
    PROVE  GoodBlock(AllLogs(blocks), [timestamp |-> now, logs |-> logs, noise |-> noise])
<1>. DEFINE N == Len(epochHashes)
            A == AllLogs(blocks)
            b == [timestamp |-> now, logs |-> logs, noise |-> noise]
<1>1. logs \in Seq(AllEvents) /\ A \in Seq(AllEvents) /\ Log = A \o logs
  BY AllLogsType DEF ChainInv, Log
<1>2. N \in Nat /\ b.logs = logs /\ b.timestamp = now
  BY DEF TypeOK
<1>3. StorageIsLogged /\ BlockIsGood
  BY DEF ChainInv
<1>. HIDE DEF A, N, b
<1>4. /\ PhaseOf(A \o logs) = IF Changes(logs) = <<>> THEN PhaseOf(A) ELSE PhaseOf(logs)
      /\ Finals(A \o logs) = Finals(A) \o Finals(logs)
  BY <1>1, PhaseContinues
<1>5. Finals(A) \in Seq(AllEvents) /\ Finals(logs) \in Seq(AllEvents)
  BY <1>1, LogTypes
<1>6. /\ PhaseOf(A \o logs) = currentPhase
      /\ Len(Finals(A)) + Len(Finals(logs)) = N
      /\ \A i \in 1 .. N : (Finals(A) \o Finals(logs))[i].epoch = i - 1
  BY <1>1, <1>3, <1>4, <1>5 DEF StorageIsLogged, N
<1>7. \A i \in 1 .. Len(Finals(A)) : Finals(A)[i].epoch = i - 1
  BY <1>2, <1>5, <1>6
<1>8. Finals(logs) # <<>> =>
          /\ Len(Finals(logs)) = 1 /\ Finals(logs)[1].epoch = Len(Finals(A))
          /\ Changes(logs) # <<>> /\ PhaseOf(logs) = "InputAccumulation"
  <2>. SUFFICES ASSUME Finals(logs) # <<>>
                PROVE  /\ Len(Finals(logs)) = 1 /\ Finals(logs)[1].epoch = Len(Finals(A))
                       /\ Changes(logs) # <<>> /\ PhaseOf(logs) = "InputAccumulation"
    OBVIOUS
  <2>1. /\ Len(Finals(logs)) = 1 /\ Changes(logs) # <<>>
        /\ currentPhase = "InputAccumulation"
    BY <1>3 DEF BlockIsGood
  <2>2. (Finals(A) \o Finals(logs))[Len(Finals(A)) + 1] = Finals(logs)[1]
    BY <1>5, <2>1
  <2>. QED BY <1>2, <1>4, <1>5, <1>6, <2>1, <2>2
<1>9. PhaseOf(A \o logs) # "InputAccumulation" => InputsOf(logs, Len(Finals(A))) = <<>>
  <2>. SUFFICES ASSUME currentPhase # "InputAccumulation"
                PROVE  InputsOf(logs, Len(Finals(A))) = <<>>
    BY <1>6
  <2>1. Finals(logs) = <<>>
    BY <1>3 DEF BlockIsGood
  <2>2. Len(Finals(A)) = N
    BY <1>5, <1>6, <2>1
  <2>. QED BY <1>3, <2>2 DEF BlockIsGood, N
<1>10. /\ Changes(logs) # <<>> => ChangedOf(logs) = now
       /\ \A e \in Nat : ClaimsOf(logs, e) # {} => FirstOf(logs, e) = now
       /\ \A e \in Nat : e < Len(Finals(A)) => InputsOf(logs, e) = <<>>
       /\ PhaseOf(A) = "AwaitingDispute" /\ Changes(logs) = <<>> =>
              \A e \in Nat : ClaimsOf(logs, e) = {}
  BY <1>3 DEF BlockIsGood, A
<1>11. GoodBlock(A, b)
  BY <1>2, <1>7, <1>8, <1>9, <1>10 DEF GoodBlock
<1>. QED BY <1>11 DEF A, b

\* Closing a block keeps log and storage together.
LEMMA ClosingKeepsChain ==
    ASSUME TypeOK, ChainInv, NEW noise \in Noise, AdvanceTime, logs' = <<>>,
           blocks' = Append(blocks, [timestamp |-> now, logs |-> logs, noise |-> noise]),
           initialEpoch' = initialEpoch
    PROVE  ChainInv'
<1>. DEFINE b == [timestamp |-> now, logs |-> logs, noise |-> noise]
            A == AllLogs(blocks)
<1>1. /\ logs \in Seq(AllEvents) /\ blocks \in Seq(AllBlocks) /\ A \in Seq(AllEvents)
      /\ now \in Nat /\ now' = now + 1
  BY AllLogsType, TimeAssumption DEF ChainInv, TypeOK, AdvanceTime
<1>2. b \in AllBlocks /\ b.logs = logs
  BY <1>1 DEF AllBlocks
<1>3. GoodBlock(A, b)
  BY ClosedBlockIsGood
<1>4. StorageIsLogged /\ TimersAreLogged /\ GoodChain(blocks)
  BY DEF ChainInv
<1>. HIDE DEF b
<1>5. blocks' = Append(blocks, b) /\ logs' = <<>>
  BY DEF b
<1>6. AllLogs(Append(blocks, b)) = A \o logs
  BY <1>1, <1>2, LogsGrow
<1>7. Log' = Log /\ Log \in Seq(AllEvents)
  <2>1. \A s, t \in Seq(AllEvents) : s \o t \in Seq(AllEvents) /\ (s \o t) \o <<>> = s \o t
    OBVIOUS
  <2>2. Log' = AllLogs(Append(blocks, b)) \o <<>>
    BY <1>5 DEF Log
  <2>. QED BY <1>1, <1>6, <2>1, <2>2 DEF Log
<1>8. blocks' \in Seq(AllBlocks) /\ logs' \in Seq(AllEvents)
  BY <1>1, <1>2, <1>5
<1>9. GoodChain(blocks')
  <2>. SUFFICES ASSUME NEW k \in 1 .. Len(Append(blocks, b))
                PROVE  GoodBlock(AllLogs(SubSeq(Append(blocks, b), 1, k - 1)), Append(blocks, b)[k])
    BY <1>5 DEF GoodChain
  <2>1. CASE k \in 1 .. Len(blocks)
    <3>1. SubSeq(Append(blocks, b), 1, k - 1) = SubSeq(blocks, 1, k - 1)
      BY <1>1, <1>2, <2>1
    <3>2. Append(blocks, b)[k] = blocks[k]
      BY <1>1, <1>2, <2>1
    <3>. QED BY <1>4, <2>1, <3>1, <3>2 DEF GoodChain
  <2>2. CASE k = Len(blocks) + 1
    <3>1. SubSeq(Append(blocks, b), 1, k - 1) = blocks
      BY <1>1, <1>2, <2>2
    <3>2. Append(blocks, b)[k] = b
      BY <1>1, <1>2, <2>2
    <3>. QED BY <1>3, <3>1, <3>2
  <2>. QED BY <1>1, <1>2, <2>1, <2>2
<1>10. StorageIsLogged'
  <2>1. UNCHANGED <<epochHashes, currentPhase, inputAdded, votes>>
    BY DEF AdvanceTime, chainVars, historyVars
  <2>. QED BY <1>4, <1>7, <2>1 DEF StorageIsLogged, GetCurrentEpoch
<1>11. TimersAreLogged'
  <2>1. UNCHANGED <<epochHashes, currentPhase, inputAccumulationStart, votes, challenge>>
    BY DEF AdvanceTime, chainVars, historyVars
  <2>2. inputAccumulationStart' <= now'
    BY <1>1, <1>4, <2>1, TimeAssumption DEF TimersAreLogged, TypeOK
  <2>3. \A e \in Nat : FirstOf(Log, e) <= now'
    <3>1. \A e \in Nat : FirstOf(Log, e) \in Nat
      BY <1>7, LogTypes
    <3>. QED BY <1>1, <1>4, <3>1 DEF TimersAreLogged
  <2>. QED BY <1>4, <1>7, <2>1, <2>2, <2>3 DEF TimersAreLogged
<1>12. BlockIsGood'
  <2>1. /\ Changes(logs') = <<>> /\ Finals(logs') = <<>>
        /\ \A e : InputsOf(logs', e) = <<>> /\ ClaimsOf(logs', e) = {}
    BY <1>5, EmptyLog
  <2>. QED BY <2>1 DEF BlockIsGood
<1>13. initialEpoch' \in Nat
  BY DEF ChainInv
<1>. QED BY <1>8, <1>9, <1>10, <1>11, <1>12, <1>13 DEF ChainInv

\* An empty log is what the contracts start with.
LEMMA InitKeepsChain == FoldInit => ChainInv
<1>. SUFFICES ASSUME FoldInit PROVE ChainInv
  OBVIOUS
<1>1. Init /\ logs = <<>> /\ blocks = <<>> /\ initialEpoch \in Nat
  BY FoldAssumption DEF FoldInit
<1>2. Log = <<>>
  BY <1>1, NoLogs DEF Log
<1>3. /\ Changes(<<>>) = <<>> /\ Finals(<<>>) = <<>>
      /\ PhaseOf(<<>>) = "InputAccumulation" /\ ChangedOf(<<>>) = None
      /\ \A e : InputsOf(<<>>, e) = <<>> /\ ClaimsOf(<<>>, e) = {} /\ FirstOf(<<>>, e) = None
  BY EmptyLog
<1>4. StorageIsLogged
  BY <1>1, <1>2, <1>3 DEF StorageIsLogged, Init
<1>5. TimersAreLogged
  BY <1>1, <1>2, <1>3, TimeAssumption DEF TimersAreLogged, Init, None
<1>6. BlockIsGood
  BY <1>1, <1>3 DEF BlockIsGood
<1>7. GoodChain(blocks)
  BY <1>1 DEF GoodChain
<1>. QED BY <1>1, <1>4, <1>5, <1>6, <1>7 DEF ChainInv
-----------------------------------------------------------------------------
(* What each transaction emits.                                            *)

\* Nothing but phase changes, all of this block.
OnlyChanges(t) ==
    /\ t \in Seq(AllEvents) /\ Finals(t) = <<>>
    /\ Changes(t) # <<>> => ChangedOf(t) = now
    /\ \A e \in Nat : InputsOf(t, e) = <<>> /\ ClaimsOf(t, e) = {} /\ FirstOf(t, e) = None

\* A phase change, and none.
LEMMA ChangeIsLogged ==
    ASSUME TypeOK, NEW p \in Phases
    PROVE  /\ OnlyChanges(<<PhaseChange(p)>>)
           /\ Changes(<<PhaseChange(p)>>) # <<>> /\ PhaseOf(<<PhaseChange(p)>>) = p
           /\ OnlyChanges(<<>>) /\ Changes(<<>>) = <<>>
<1>. DEFINE ev == PhaseChange(p)
<1>1. ev \in AllEvents /\ ev.kind = "PhaseChange" /\ ev.phase = p /\ ev.ts = now
  BY TimeAssumption DEF TypeOK, AllEvents, PhaseChange
<1>. HIDE DEF ev
<1>2. \A e : /\ Changes(<<ev>>) # <<>> /\ PhaseOf(<<ev>>) = p /\ ChangedOf(<<ev>>) = now
             /\ Finals(<<ev>>) = <<>>
             /\ InputsOf(<<ev>>, e) = <<>> /\ ClaimsOf(<<ev>>, e) = {} /\ FirstOf(<<ev>>, e) = None
  BY <1>1, OneEvent
<1>3. <<ev>> \in Seq(AllEvents) /\ <<>> \in Seq(AllEvents)
  BY <1>1
<1>4. OnlyChanges(<<ev>>) /\ Changes(<<ev>>) # <<>> /\ PhaseOf(<<ev>>) = p
  BY <1>2, <1>3 DEF OnlyChanges
<1>5. OnlyChanges(<<>>) /\ Changes(<<>>) = <<>>
  BY <1>3, EmptyLog DEF OnlyChanges
<1>. QED BY <1>4, <1>5 DEF ev

\* Phase changes in a row: the last one counts.
LEMMA ChangesInARow ==
    ASSUME NEW s, NEW t, OnlyChanges(s), OnlyChanges(t)
    PROVE  /\ OnlyChanges(s \o t)
           /\ Changes(s \o t) = <<>> <=> Changes(s) = <<>> /\ Changes(t) = <<>>
           /\ PhaseOf(s \o t) = IF Changes(t) = <<>> THEN PhaseOf(s) ELSE PhaseOf(t)
<1>1. s \in Seq(AllEvents) /\ t \in Seq(AllEvents)
  BY DEF OnlyChanges
<1>2. s \o t \in Seq(AllEvents)
  BY <1>1
<1>. DEFINE u == s \o t
<1>3. /\ PhaseOf(u) = IF Changes(t) = <<>> THEN PhaseOf(s) ELSE PhaseOf(t)
      /\ ChangedOf(u) = IF Changes(t) = <<>> THEN ChangedOf(s) ELSE ChangedOf(t)
      /\ Finals(u) = Finals(s) \o Finals(t)
      /\ Changes(u) = Changes(s) \o Changes(t)
  BY <1>1, PhaseContinues
<1>4. \A e \in Nat : InputsOf(u, e) = InputsOf(s, e) \o InputsOf(t, e)
  BY <1>1, InputsContinue
<1>5. \A e \in Nat : /\ ClaimsOf(u, e) = ClaimsOf(s, e) \cup ClaimsOf(t, e)
                     /\ FirstOf(u, e) = IF ClaimsOf(s, e) # {} THEN FirstOf(s, e) ELSE FirstOf(t, e)
  BY <1>1, ClaimsContinue
<1>6. Changes(s) \in Seq(AllEvents) /\ Changes(t) \in Seq(AllEvents)
  BY <1>1, LogTypes
<1>. HIDE DEF u
<1>7. Changes(u) = <<>> <=> Changes(s) = <<>> /\ Changes(t) = <<>>
  BY <1>3, <1>6
<1>8. <<>> \o <<>> = <<>>
  OBVIOUS
<1>9. Finals(u) = <<>>
  BY <1>3, <1>8 DEF OnlyChanges
<1>10. Changes(u) # <<>> => ChangedOf(u) = now
  BY <1>3, <1>7 DEF OnlyChanges
<1>11. \A e \in Nat : InputsOf(u, e) = <<>>
  BY <1>4, <1>8 DEF OnlyChanges
<1>12. \A e \in Nat : ClaimsOf(u, e) = {} /\ FirstOf(u, e) = None
  BY <1>5 DEF OnlyChanges
<1>13. OnlyChanges(u)
  BY <1>2, <1>9, <1>10, <1>11, <1>12 DEF OnlyChanges, u
<1>. QED BY <1>3, <1>7, <1>13 DEF u

\* updatePhase logs the change if there is one.
LEMMA UpdatePhaseIsLogged ==
    ASSUME TypeOK, NEW p \in Phases, NEW q \in Phases
    PROVE  /\ OnlyChanges(UpdatePhase(p, q))
           /\ Changes(UpdatePhase(p, q)) = <<>> <=> p = q
           /\ p # q => PhaseOf(UpdatePhase(p, q)) = q
  BY ChangeIsLogged DEF UpdatePhase

\* The last event of a transaction is the epoch it finalizes, if it does.
LEMMA FinalIsLogged ==
    ASSUME TypeOK, NEW s \in Seq(AllEvents), Finals(s) = <<>>,
           epochHashes' = epochHashes \/ \E h \in Claims : epochHashes' = Append(epochHashes, h)
    PROVE  /\ FinalizedNow \in Seq(AllEvents) /\ s \o FinalizedNow \in Seq(AllEvents)
           /\ Changes(s \o FinalizedNow) = Changes(s) /\ PhaseOf(s \o FinalizedNow) = PhaseOf(s)
           /\ ChangedOf(s \o FinalizedNow) = ChangedOf(s)
           /\ \A e \in Nat : /\ InputsOf(s \o FinalizedNow, e) = InputsOf(s, e)
                             /\ ClaimsOf(s \o FinalizedNow, e) = ClaimsOf(s, e)
                             /\ FirstOf(s \o FinalizedNow, e) = FirstOf(s, e)
           /\ epochHashes' = epochHashes => Finals(s \o FinalizedNow) = <<>>
           /\ epochHashes' # epochHashes =>
                 \E ev \in AllEvents :
                     /\ Finals(s \o FinalizedNow) = <<ev>> /\ ev.epoch = Len(epochHashes)
                     /\ ev.hash \in Claims /\ epochHashes' = Append(epochHashes, ev.hash)
<1>. DEFINE ev == EpochFinalized(Last(epochHashes'))
            t == FinalizedNow
            u == s \o t
<1>1. epochHashes \in Seq(Claims)
  BY DEF TypeOK
<1>2. t = IF epochHashes' = epochHashes THEN <<>> ELSE <<ev>>
  BY DEF FinalizedNow
<1>3. epochHashes' # epochHashes =>
          /\ ev \in AllEvents /\ ev.kind = "FinalizeEpoch" /\ ev.epoch = Len(epochHashes)
          /\ ev.hash \in Claims /\ epochHashes' = Append(epochHashes, ev.hash)
  <2>. SUFFICES ASSUME NEW h \in Claims, epochHashes' = Append(epochHashes, h)
                PROVE  /\ ev \in AllEvents /\ ev.kind = "FinalizeEpoch"
                       /\ ev.epoch = Len(epochHashes) /\ ev.hash = h
    OBVIOUS
  <2>1. Last(Append(epochHashes, h)) = h
    BY <1>1 DEF Last
  <2>2. ev = EpochFinalized(h)
    BY <2>1
  <2>. HIDE DEF ev
  <2>. QED BY <1>1, <2>2, TimeAssumption DEF TypeOK, AllEvents, EpochFinalized
<1>. HIDE DEF ev, t
<1>4. /\ t \in Seq(AllEvents) /\ Changes(t) = <<>>
      /\ Finals(t) = IF epochHashes' = epochHashes THEN <<>> ELSE <<ev>>
      /\ \A e \in Nat : InputsOf(t, e) = <<>> /\ ClaimsOf(t, e) = {} /\ FirstOf(t, e) = None
  <2>1. CASE epochHashes' = epochHashes
    <3>1. t = <<>> /\ <<>> \in Seq(AllEvents)
      BY <1>2, <2>1
    <3>. QED BY <2>1, <3>1, EmptyLog
  <2>2. CASE epochHashes' # epochHashes
    <3>1. t = <<ev>> /\ <<ev>> \in Seq(AllEvents)
      BY <1>2, <1>3, <2>2
    <3>2. \A e : /\ Changes(<<ev>>) = <<>> /\ Finals(<<ev>>) = <<ev>>
                 /\ InputsOf(<<ev>>, e) = <<>> /\ ClaimsOf(<<ev>>, e) = {}
                 /\ FirstOf(<<ev>>, e) = None
      <4>1. ev \in AllEvents /\ ev.kind = "FinalizeEpoch"
        BY <1>3, <2>2
      <4>. QED BY <4>1, OneEvent
    <3>. QED BY <2>2, <3>1, <3>2
  <2>. QED BY <2>1, <2>2
<1>5. \A e \in Nat : InputsOf(s, e) \in Seq(Inputs) /\ (ClaimsOf(s, e) = {} => FirstOf(s, e) = None)
  BY LogTypes DEF FirstOf
<1>6. /\ PhaseOf(u) = PhaseOf(s) /\ ChangedOf(u) = ChangedOf(s)
      /\ Finals(u) = Finals(s) \o Finals(t) /\ Changes(u) = Changes(s) \o Changes(t)
  BY <1>4, PhaseContinues
<1>7. \A e \in Nat : InputsOf(u, e) = InputsOf(s, e) \o InputsOf(t, e)
  BY <1>4, InputsContinue
<1>8. \A e \in Nat : /\ ClaimsOf(u, e) = ClaimsOf(s, e) \cup ClaimsOf(t, e)
                     /\ FirstOf(u, e) = IF ClaimsOf(s, e) # {} THEN FirstOf(s, e) ELSE FirstOf(t, e)
  BY <1>4, ClaimsContinue
<1>9. u \in Seq(AllEvents)
  BY <1>4
<1>10. Changes(s) \in Seq(AllEvents) /\ Finals(t) \in Seq(AllEvents)
  BY <1>4, LogTypes
<1>. HIDE DEF u
<1>11. Changes(u) = Changes(s)
  BY <1>4, <1>6, <1>10
<1>12. Finals(u) = Finals(t)
  BY <1>6, <1>10
<1>13. \A e \in Nat : InputsOf(u, e) = InputsOf(s, e)
  <2>1. \A x \in Seq(Inputs) : x \o <<>> = x
    OBVIOUS
  <2>. QED BY <1>4, <1>5, <1>7, <2>1
<1>14. \A e \in Nat : ClaimsOf(u, e) = ClaimsOf(s, e) /\ FirstOf(u, e) = FirstOf(s, e)
  BY <1>4, <1>5, <1>8
<1>15. /\ epochHashes' = epochHashes => Finals(u) = <<>>
       /\ epochHashes' # epochHashes =>
             \E x \in AllEvents :
                 /\ Finals(u) = <<x>> /\ x.epoch = Len(epochHashes)
                 /\ x.hash \in Claims /\ epochHashes' = Append(epochHashes, x.hash)
  BY <1>3, <1>4, <1>12
<1>. QED BY <1>4, <1>6, <1>9, <1>11, <1>13, <1>14, <1>15 DEF t, u

ClaimBetween(s, a, c, t) == (s \o <<ClaimEvent(a, c)>>) \o t

\* A claim between phase changes.
LEMMA ClaimIsLogged ==
    ASSUME TypeOK, NEW s, NEW t, OnlyChanges(s), OnlyChanges(t), NEW a \in Addresses, NEW c \in Claims
    PROVE  LET u == ClaimBetween(s, a, c, t) IN
           /\ u \in Seq(AllEvents) /\ Finals(u) = <<>>
           /\ Changes(u) = <<>> <=> Changes(s) = <<>> /\ Changes(t) = <<>>
           /\ PhaseOf(u) = IF Changes(t) = <<>> THEN PhaseOf(s) ELSE PhaseOf(t)
           /\ Changes(u) # <<>> => ChangedOf(u) = now
           /\ \A e \in Nat : InputsOf(u, e) = <<>>
           /\ \A e \in Nat : ClaimsOf(u, e) = IF e = Len(epochHashes) THEN {<<a, c>>} ELSE {}
           /\ \A e \in Nat : FirstOf(u, e) = IF e = Len(epochHashes) THEN now ELSE None
<1>. DEFINE ev == ClaimEvent(a, c)
            m == <<ev>>
            v == s \o m
            u == ClaimBetween(s, a, c, t)
<1>1. /\ ev \in AllEvents /\ ev.kind = "Claim" /\ ev.epoch = Len(epochHashes)
      /\ ev.claimer = a /\ ev.hash = c /\ ev.ts = now
  BY TimeAssumption DEF TypeOK, AllEvents, ClaimEvent
<1>2. s \in Seq(AllEvents) /\ t \in Seq(AllEvents) /\ u = v \o t
  BY DEF OnlyChanges, ClaimBetween
<1>. HIDE DEF ev, u
<1>3. m \in Seq(AllEvents)
  BY <1>1
<1>4. v \in Seq(AllEvents)
  BY <1>2, <1>3
<1>5. u \in Seq(AllEvents)
  <2>1. \A x, y \in Seq(AllEvents) : x \o y \in Seq(AllEvents)
    OBVIOUS
  <2>. QED BY <1>2, <1>4, <2>1
<1>6. \A e : /\ Changes(m) = <<>> /\ Finals(m) = <<>> /\ InputsOf(m, e) = <<>>
             /\ ClaimsOf(m, e) = IF e = Len(epochHashes) THEN {<<a, c>>} ELSE {}
             /\ FirstOf(m, e) = IF e = Len(epochHashes) THEN now ELSE None
  BY <1>1, OneEvent
<1>. HIDE DEF m
<1>7. /\ PhaseOf(v) = PhaseOf(s) /\ ChangedOf(v) = ChangedOf(s)
      /\ Finals(v) = Finals(s) \o Finals(m) /\ Changes(v) = Changes(s) \o Changes(m)
  BY <1>2, <1>3, <1>6, PhaseContinues
<1>8. \A e \in Nat : /\ InputsOf(v, e) = InputsOf(s, e) \o InputsOf(m, e)
                     /\ ClaimsOf(v, e) = ClaimsOf(s, e) \cup ClaimsOf(m, e)
                     /\ FirstOf(v, e) = IF ClaimsOf(s, e) # {} THEN FirstOf(s, e) ELSE FirstOf(m, e)
  BY <1>2, <1>3, InputsContinue, ClaimsContinue
<1>. HIDE DEF v
<1>9. /\ PhaseOf(u) = IF Changes(t) = <<>> THEN PhaseOf(v) ELSE PhaseOf(t)
      /\ ChangedOf(u) = IF Changes(t) = <<>> THEN ChangedOf(v) ELSE ChangedOf(t)
      /\ Finals(u) = Finals(v) \o Finals(t) /\ Changes(u) = Changes(v) \o Changes(t)
  BY <1>2, <1>4, PhaseContinues
<1>10. \A e \in Nat : /\ InputsOf(u, e) = InputsOf(v, e) \o InputsOf(t, e)
                      /\ ClaimsOf(u, e) = ClaimsOf(v, e) \cup ClaimsOf(t, e)
                      /\ FirstOf(u, e) = IF ClaimsOf(v, e) # {} THEN FirstOf(v, e) ELSE FirstOf(t, e)
  <2>1. \A e \in Nat : InputsOf(v \o t, e) = InputsOf(v, e) \o InputsOf(t, e)
    BY <1>2, <1>4, InputsContinue
  <2>2. \A e \in Nat : /\ ClaimsOf(v \o t, e) = ClaimsOf(v, e) \cup ClaimsOf(t, e)
                       /\ FirstOf(v \o t, e) = IF ClaimsOf(v, e) # {} THEN FirstOf(v, e)
                                              ELSE FirstOf(t, e)
    BY <1>2, <1>4, ClaimsContinue
  <2>. QED BY <1>2, <2>1, <2>2, Zenon
<1>11. Changes(s) \in Seq(AllEvents) /\ Changes(t) \in Seq(AllEvents)
  BY <1>2, LogTypes
<1>12. <<>> \o <<>> = <<>>
  OBVIOUS
<1>13. Finals(u) = <<>> /\ \A e \in Nat : InputsOf(u, e) = <<>>
  BY <1>6, <1>7, <1>8, <1>9, <1>10, <1>12 DEF OnlyChanges
<1>14. Changes(v) = Changes(s)
  BY <1>6, <1>7, <1>11
<1>15. Changes(u) = <<>> <=> Changes(s) = <<>> /\ Changes(t) = <<>>
  BY <1>9, <1>11, <1>14
<1>16. \A e \in Nat : /\ ClaimsOf(u, e) = IF e = Len(epochHashes) THEN {<<a, c>>} ELSE {}
                      /\ FirstOf(u, e) = IF e = Len(epochHashes) THEN now ELSE None
  BY <1>6, <1>8, <1>10 DEF OnlyChanges
<1>17. Changes(u) # <<>> => ChangedOf(u) = now
  BY <1>7, <1>9, <1>15 DEF OnlyChanges
<1>. QED BY <1>5, <1>7, <1>9, <1>13, <1>15, <1>16, <1>17 DEF u
\* A transaction that claims or ends something leaves the epoch sealed or
\* starts a new one.
EpochMoves ==
    \/ /\ currentPhase' \in {"AwaitingConsensus", "AwaitingDispute"}
       /\ epochHashes' = epochHashes /\ inputAccumulationStart' = inputAccumulationStart
    \/ /\ currentPhase' = "InputAccumulation" /\ inputAccumulationStart' = now
       /\ \E h \in Claims : epochHashes' = Append(epochHashes, h)

\* So does every answer of the validator manager.
LEMMA AnswerMovesEpoch ==
    ASSUME NEW r, NEW b, NEW t, ResolveValidatorResult(r, b, t), r.vm.claim \in Claims
    PROVE  EpochMoves
  BY DEF ResolveValidatorResult, StartNewEpoch, EpochMoves

\* What is logged last is what happened to the epoch.
LEMMA MoveIsLogged ==
    ASSUME TypeOK, EpochMoves, NEW s \in Seq(AllEvents), Finals(s) = <<>>,
           currentPhase' = "InputAccumulation" => Changes(s) # <<>>
    PROVE  /\ s \o FinalizedNow \in Seq(AllEvents) /\ FinalizedNow \in Seq(AllEvents)
           /\ FinalEmitted(s \o FinalizedNow)
           /\ Changes(s \o FinalizedNow) = Changes(s) /\ PhaseOf(s \o FinalizedNow) = PhaseOf(s)
           /\ ChangedOf(s \o FinalizedNow) = ChangedOf(s)
           /\ \A e \in Nat : /\ InputsOf(s \o FinalizedNow, e) = InputsOf(s, e)
                             /\ ClaimsOf(s \o FinalizedNow, e) = ClaimsOf(s, e)
                             /\ FirstOf(s \o FinalizedNow, e) = FirstOf(s, e)
<1>1. \A h \in Claims : Append(epochHashes, h) # epochHashes
  BY DEF TypeOK
<1>. DEFINE u == s \o FinalizedNow
<1>2. epochHashes' = epochHashes \/ \E h \in Claims : epochHashes' = Append(epochHashes, h)
  BY DEF EpochMoves
<1>3. /\ FinalizedNow \in Seq(AllEvents) /\ u \in Seq(AllEvents)
      /\ Changes(u) = Changes(s) /\ PhaseOf(u) = PhaseOf(s) /\ ChangedOf(u) = ChangedOf(s)
      /\ \A e \in Nat : /\ InputsOf(u, e) = InputsOf(s, e) /\ ClaimsOf(u, e) = ClaimsOf(s, e)
                        /\ FirstOf(u, e) = FirstOf(s, e)
      /\ epochHashes' = epochHashes => Finals(u) = <<>>
      /\ epochHashes' # epochHashes =>
             \E ev \in AllEvents :
                 /\ Finals(u) = <<ev>> /\ ev.epoch = Len(epochHashes)
                 /\ ev.hash \in Claims /\ epochHashes' = Append(epochHashes, ev.hash)
  BY <1>2, FinalIsLogged
<1>. HIDE DEF u
<1>4. FinalEmitted(u)
  BY <1>1, <1>3 DEF FinalEmitted, EpochMoves
<1>. QED BY <1>3, <1>4 DEF u

\* Longer logs in a row.
LEMMA LogsInARow ==
    ASSUME NEW s \in Seq(AllEvents), NEW t \in Seq(AllEvents), NEW u \in Seq(AllEvents)
    PROVE  (s \o t) \o u = s \o (t \o u) /\ t \o u \in Seq(AllEvents)
  OBVIOUS

\* A log without inputs adds none.
LEMMA NoInputsEmitted ==
    ASSUME TypeOK, NEW new, \A e \in Nat : InputsOf(new, e) = <<>>, inputAdded' = inputAdded
    PROVE  InputsEmitted(new)
<1>1. \A e \in Epochs : inputAdded[e] \in Seq(Inputs) /\ e \in Nat
  BY BoundsAssumption DEF TypeOK, Epochs
<1>2. \A x \in Seq(Inputs) : x \o <<>> = x
  OBVIOUS
<1>. QED BY <1>1, <1>2 DEF InputsEmitted

\* finalizeEpoch logs a new accumulation and the final claim.
LEMMA FinalizeEpochEmits ==
    ASSUME IInv, logs \in Seq(AllEvents), FinalizeEpoch,
           logs' = logs \o UpdatePhase(currentPhase, currentPhase') \o FinalizedNow
    PROVE  \E new : Emitted(new) /\ logs' = logs \o new
<1>. DEFINE s == UpdatePhase(currentPhase, currentPhase')
            u == s \o FinalizedNow
<1>1. /\ currentPhase = "AwaitingConsensus" /\ currentPhase' = "InputAccumulation"
      /\ inputAccumulationStart' = now /\ epochHashes' = Append(epochHashes, vm.claim)
      /\ vm.claim # NoClaim /\ inputAdded' = inputAdded /\ votes' = votes
  BY DEF FinalizeEpoch, StartNewEpoch, historyVars
<1>2. TypeOK /\ vm.claim \in Claims
  BY <1>1 DEF IInv, TypeOK, ValidatorManagerState
<1>3. EpochMoves
  BY <1>1, <1>2 DEF EpochMoves
<1>4. OnlyChanges(s) /\ Changes(s) # <<>> /\ PhaseOf(s) = currentPhase'
  <2>1. currentPhase \in Phases /\ currentPhase' \in Phases
    BY <1>1 DEF Phases
  <2>. QED BY <1>1, <1>2, <2>1, UpdatePhaseIsLogged
<1>. HIDE DEF s
<1>5. s \in Seq(AllEvents) /\ Finals(s) = <<>>
  BY <1>4 DEF OnlyChanges
<1>6. /\ u \in Seq(AllEvents) /\ FinalizedNow \in Seq(AllEvents) /\ FinalEmitted(u)
      /\ Changes(u) = Changes(s) /\ PhaseOf(u) = PhaseOf(s) /\ ChangedOf(u) = ChangedOf(s)
      /\ \A e \in Nat : /\ InputsOf(u, e) = InputsOf(s, e) /\ ClaimsOf(u, e) = ClaimsOf(s, e)
                        /\ FirstOf(u, e) = FirstOf(s, e)
  BY <1>2, <1>3, <1>4, <1>5, MoveIsLogged
<1>7. logs' = logs \o u
  BY <1>5, <1>6, LogsInARow DEF s
<1>. HIDE DEF u
<1>8. PhaseEmitted(u)
  BY <1>1, <1>4, <1>6 DEF PhaseEmitted, OnlyChanges
<1>9. InputsEmitted(u)
  <2>1. \A e \in Nat : InputsOf(u, e) = <<>>
    BY <1>4, <1>6 DEF OnlyChanges
  <2>. QED BY <1>1, <1>2, <2>1, NoInputsEmitted
<1>10. ClaimsEmitted(u)
  <2>1. \A e \in Nat : ClaimsOf(u, e) = {} /\ FirstOf(u, e) = None
    BY <1>4, <1>6 DEF OnlyChanges
  <2>2. Len(epochHashes) \in Nat
    BY <1>2 DEF TypeOK
  <2>. QED BY <1>1, <2>1, <2>2 DEF ClaimsEmitted, SealingTimeReached
<1>11. ChallengeEmitted(u)
  BY <1>1 DEF ChallengeEmitted
<1>. QED BY <1>6, <1>7, <1>8, <1>9, <1>10, <1>11 DEF Emitted

\* resolveDispute logs the phase that follows and the final claim, if any.
LEMMA ResolveDisputeEmits ==
    ASSUME IInv, logs \in Seq(AllEvents), NEW d \in disputes, NEW k \in 1 .. 2,
           ResolveDispute(d, k),
           logs' = logs \o UpdatePhase(currentPhase, currentPhase') \o FinalizedNow
    PROVE  \E new : Emitted(new) /\ logs' = logs \o new
<1>. DEFINE s == UpdatePhase(currentPhase, currentPhase')
            u == s \o FinalizedNow
            r == OnDisputeEnd(vm, d.claimers[k], d.claimers[3 - k], d.claims[k])
<1>1. /\ ResolveValidatorResult(r, currentInputBox, now) /\ challenge'.start = now
      /\ inputAdded' = inputAdded /\ votes' = votes
  BY DEF ResolveDispute
<1>2. TypeOK /\ r.vm.claim \in Claims
  BY DisputeAnswerIsBacked DEF IInv, Backed
<1>3. currentPhase = "AwaitingDispute" /\ votes # {}
  BY DEF IInv, AgreementInv, DisputantsClaimed
<1>. HIDE DEF r
<1>4. EpochMoves
  BY <1>1, <1>2, AnswerMovesEpoch
<1>5. /\ OnlyChanges(s) /\ (Changes(s) = <<>> <=> currentPhase' = currentPhase)
      /\ Changes(s) # <<>> => PhaseOf(s) = currentPhase'
  <2>1. currentPhase \in Phases /\ currentPhase' \in Phases
    BY <1>3, <1>4 DEF Phases, EpochMoves
  <2>. QED BY <1>2, <2>1, UpdatePhaseIsLogged
<1>. HIDE DEF s
<1>6. s \in Seq(AllEvents) /\ Finals(s) = <<>>
  BY <1>5 DEF OnlyChanges
<1>7. /\ u \in Seq(AllEvents) /\ FinalizedNow \in Seq(AllEvents) /\ FinalEmitted(u)
      /\ Changes(u) = Changes(s) /\ PhaseOf(u) = PhaseOf(s) /\ ChangedOf(u) = ChangedOf(s)
      /\ \A e \in Nat : /\ InputsOf(u, e) = InputsOf(s, e) /\ ClaimsOf(u, e) = ClaimsOf(s, e)
                        /\ FirstOf(u, e) = FirstOf(s, e)
  BY <1>2, <1>3, <1>4, <1>5, <1>6, MoveIsLogged
<1>8. logs' = logs \o u
  BY <1>6, <1>7, LogsInARow DEF s
<1>. HIDE DEF u
<1>9. PhaseEmitted(u)
  BY <1>3, <1>5, <1>7 DEF PhaseEmitted, OnlyChanges
<1>10. InputsEmitted(u)
  <2>1. \A e \in Nat : InputsOf(u, e) = <<>>
    BY <1>5, <1>7 DEF OnlyChanges
  <2>. QED BY <1>1, <1>2, <2>1, NoInputsEmitted
<1>11. ClaimsEmitted(u)
  <2>1. \A e \in Nat : ClaimsOf(u, e) = {} /\ FirstOf(u, e) = None
    BY <1>5, <1>7 DEF OnlyChanges
  <2>2. Len(epochHashes) \in Nat
    BY <1>2 DEF TypeOK
  <2>. QED BY <1>1, <1>3, <2>1, <2>2 DEF ClaimsEmitted, SealingTimeReached
<1>12. ChallengeEmitted(u)
  BY <1>1, <1>3, <1>5, <1>7 DEF ChallengeEmitted
<1>. QED BY <1>7, <1>8, <1>9, <1>10, <1>11, <1>12 DEF Emitted
\* claim logs the sealing, the claim, what the validator manager answers and
\* the final claim, if any.
LEMMA ClaimEmits ==
    ASSUME IInv, logs \in Seq(AllEvents), NEW a \in Addresses, NEW c \in Claims, Claim(a, c),
           logs' = logs
                   \o (IF SealingTimeReached THEN <<PhaseChange("AwaitingConsensus")>> ELSE <<>>)
                   \o <<ClaimEvent(a, c)>>
                   \o (IF Raised(OnClaim(vm, a, c))
                       THEN <<PhaseChange("AwaitingDispute"), PhaseChange(currentPhase')>>
                       ELSE UpdatePhase("AwaitingConsensus", currentPhase'))
                   \o FinalizedNow
    PROVE  \E new : Emitted(new) /\ logs' = logs \o new
<1>. DEFINE s == IF SealingTimeReached THEN <<PhaseChange("AwaitingConsensus")>> ELSE <<>>
            t == IF Raised(OnClaim(vm, a, c))
                 THEN <<PhaseChange("AwaitingDispute"), PhaseChange(currentPhase')>>
                 ELSE UpdatePhase("AwaitingConsensus", currentPhase')
            m == ClaimBetween(s, a, c, t)
            u == m \o FinalizedNow
            r == Settled(OnClaim(vm, a, c))
            raised == Raised(OnClaim(vm, a, c))
<1>1. /\ SealingTimeReached \/ currentPhase = "AwaitingConsensus"
      /\ ~OnClaimReverts(vm, a, c)
      /\ ResolveValidatorResult(r, InboxAfter(SealingTimeReached),
                                SealingAfter(SealingTimeReached, OnClaim(vm, a, c)))
      /\ inputAdded' = inputAdded
      /\ votes' = (IF SealingTimeReached THEN {} ELSE votes) \cup {<<a, c>>}
      /\ challenge' = IF raised THEN [by |-> "dispute", start |-> now]
                      ELSE IF SealingTimeReached THEN [by |-> "claim", start |-> now]
                      ELSE challenge
  BY DEF Claim
<1>2. TypeOK /\ r.vm.claim \in Claims
  BY <1>1, ClaimAnswerIsBacked DEF IInv, Backed
<1>3. InstantDisputes => r.result # "Conflict"
  BY <1>1, ClaimAnswerIsBacked DEF IInv
<1>4. raised => currentPhase' # "AwaitingDispute"
  BY <1>1, <1>3 DEF Raised, ResolveValidatorResult
<1>. HIDE DEF r
<1>5. EpochMoves
  BY <1>1, <1>2, AnswerMovesEpoch
<1>6. currentPhase' \in Phases /\ "AwaitingConsensus" \in Phases /\ "AwaitingDispute" \in Phases
  BY <1>5 DEF EpochMoves, Phases
<1>7. /\ OnlyChanges(s) /\ (Changes(s) = <<>> <=> ~SealingTimeReached)
      /\ SealingTimeReached => PhaseOf(s) = "AwaitingConsensus"
  BY <1>2, <1>6, ChangeIsLogged
<1>8. /\ OnlyChanges(t)
      /\ Changes(t) = <<>> <=> ~raised /\ currentPhase' = "AwaitingConsensus"
      /\ Changes(t) # <<>> => PhaseOf(t) = currentPhase'
  <2>1. CASE ~raised
    BY <1>2, <1>6, <2>1, UpdatePhaseIsLogged
  <2>2. CASE raised
    <3>. DEFINE x == <<PhaseChange("AwaitingDispute")>>
                y == <<PhaseChange(currentPhase')>>
    <3>1. OnlyChanges(x) /\ OnlyChanges(y) /\ Changes(y) # <<>> /\ PhaseOf(y) = currentPhase'
      BY <1>2, <1>6, ChangeIsLogged
    <3>2. t = x \o y
      BY <2>2
    <3>. HIDE DEF x, y, t
    <3>. QED BY <2>2, <3>1, <3>2, ChangesInARow
  <2>. QED BY <2>1, <2>2
<1>9. logs' = (((logs \o s) \o <<ClaimEvent(a, c)>>) \o t) \o FinalizedNow
  OBVIOUS
<1>. HIDE DEF s, t, raised
<1>10. /\ m \in Seq(AllEvents) /\ Finals(m) = <<>>
       /\ Changes(m) = <<>> <=> Changes(s) = <<>> /\ Changes(t) = <<>>
       /\ PhaseOf(m) = IF Changes(t) = <<>> THEN PhaseOf(s) ELSE PhaseOf(t)
       /\ Changes(m) # <<>> => ChangedOf(m) = now
       /\ \A e \in Nat : InputsOf(m, e) = <<>>
       /\ \A e \in Nat : ClaimsOf(m, e) = IF e = Len(epochHashes) THEN {<<a, c>>} ELSE {}
       /\ \A e \in Nat : FirstOf(m, e) = IF e = Len(epochHashes) THEN now ELSE None
  BY <1>2, <1>7, <1>8, ClaimIsLogged
<1>11. ((logs \o s) \o <<ClaimEvent(a, c)>>) \o t = logs \o m
  <2>1. s \in Seq(AllEvents) /\ t \in Seq(AllEvents)
    BY <1>7, <1>8 DEF OnlyChanges
  <2>2. <<ClaimEvent(a, c)>> \in Seq(AllEvents)
    BY <1>2, TimeAssumption DEF TypeOK, AllEvents, ClaimEvent
  <2>. DEFINE z == <<ClaimEvent(a, c)>>
  <2>. HIDE DEF z
  <2>3. (logs \o s) \o z = logs \o (s \o z) /\ s \o z \in Seq(AllEvents)
    BY <2>1, <2>2, LogsInARow DEF z
  <2>4. (logs \o (s \o z)) \o t = logs \o ((s \o z) \o t)
    BY <2>1, <2>3, LogsInARow
  <2>. QED BY <2>3, <2>4 DEF z, ClaimBetween
<1>. HIDE DEF m
<1>12. /\ u \in Seq(AllEvents) /\ FinalizedNow \in Seq(AllEvents) /\ FinalEmitted(u)
       /\ Changes(u) = Changes(m) /\ PhaseOf(u) = PhaseOf(m) /\ ChangedOf(u) = ChangedOf(m)
       /\ \A e \in Nat : /\ InputsOf(u, e) = InputsOf(m, e) /\ ClaimsOf(u, e) = ClaimsOf(m, e)
                         /\ FirstOf(u, e) = FirstOf(m, e)
  <2>1. currentPhase' = "InputAccumulation" => Changes(m) # <<>>
    BY <1>8, <1>10
  <2>. QED BY <1>2, <1>5, <1>10, <2>1, MoveIsLogged
<1>13. logs' = logs \o u
  <2>1. m \in Seq(AllEvents) /\ FinalizedNow \in Seq(AllEvents)
    BY <1>10, <1>12
  <2>2. (logs \o m) \o FinalizedNow = logs \o u
    BY <2>1, LogsInARow
  <2>. QED BY <1>9, <1>11, <2>2, Zenon
<1>. HIDE DEF u
<1>14. PhaseEmitted(u)
  <2>1. currentPhase = "InputAccumulation" => SealingTimeReached
    BY <1>1
  <2>2. SealingTimeReached => currentPhase = "InputAccumulation"
    BY DEF SealingTimeReached
  <2>3. Changes(u) # <<>> => ChangedOf(u) = now
    BY <1>10, <1>12
  <2>4. Changes(u) = <<>> => currentPhase' = currentPhase
    BY <1>1, <1>7, <1>8, <1>10, <1>12
  <2>5. Changes(u) # <<>> => PhaseOf(u) = currentPhase'
    BY <1>7, <1>8, <1>10, <1>12
  <2>6. SealingTimeReached => Changes(u) # <<>>
    BY <1>7, <1>10, <1>12
  <2>. QED BY <2>1, <2>3, <2>4, <2>5, <2>6 DEF PhaseEmitted
<1>15. InputsEmitted(u)
  BY <1>1, <1>2, <1>10, <1>12, NoInputsEmitted
<1>16. ClaimsEmitted(u)
  <2>1. Len(epochHashes) \in Nat
    BY <1>2 DEF TypeOK
  <2>2. \A e \in Nat : /\ ClaimsOf(u, e) = IF e = Len(epochHashes) THEN {<<a, c>>} ELSE {}
                       /\ FirstOf(u, e) = IF e = Len(epochHashes) THEN now ELSE None
    BY <1>10, <1>12
  <2>. QED BY <1>1, <2>1, <2>2 DEF ClaimsEmitted
<1>17. ChallengeEmitted(u)
  <2>1. votes' # {}
    BY <1>1
  <2>2. CASE raised
    BY <1>1, <1>8, <1>10, <1>12, <2>1, <2>2 DEF ChallengeEmitted
  <2>3. CASE ~raised /\ SealingTimeReached
    BY <1>1, <1>7, <1>10, <1>12, <2>1, <2>3 DEF ChallengeEmitted
  <2>4. CASE ~raised /\ ~SealingTimeReached
    BY <1>1, <1>7, <1>8, <1>10, <1>12, <2>4 DEF ChallengeEmitted
  <2>. QED BY <2>2, <2>3, <2>4
<1>. QED BY <1>12, <1>13, <1>14, <1>15, <1>16, <1>17 DEF Emitted

\* An input after phase changes.
LEMMA InputIsLogged ==
    ASSUME TypeOK, NEW s, OnlyChanges(s), NEW k \in Nat, NEW x \in Inputs
    PROVE  LET u == s \o <<InputAdded(k, x)>> IN
           /\ u \in Seq(AllEvents) /\ <<InputAdded(k, x)>> \in Seq(AllEvents)
           /\ Finals(u) = <<>> /\ Changes(u) = Changes(s) /\ PhaseOf(u) = PhaseOf(s)
           /\ ChangedOf(u) = ChangedOf(s)
           /\ \A e \in Nat : /\ InputsOf(u, e) = IF e = k THEN <<x>> ELSE <<>>
                             /\ ClaimsOf(u, e) = {} /\ FirstOf(u, e) = None
<1>. DEFINE ev == InputAdded(k, x)
            m == <<ev>>
            u == s \o m
<1>1. ev \in AllEvents /\ ev.kind = "InputAdded" /\ ev.epoch = k /\ ev.input = x
  BY TimeAssumption DEF TypeOK, AllEvents, InputAdded
<1>2. s \in Seq(AllEvents)
  BY DEF OnlyChanges
<1>. HIDE DEF ev
<1>3. m \in Seq(AllEvents)
  BY <1>1
<1>4. u \in Seq(AllEvents)
  BY <1>2, <1>3
<1>5. \A e : /\ Changes(m) = <<>> /\ Finals(m) = <<>>
             /\ InputsOf(m, e) = IF e = k THEN <<x>> ELSE <<>>
             /\ ClaimsOf(m, e) = {} /\ FirstOf(m, e) = None
  BY <1>1, OneEvent
<1>. HIDE DEF m
<1>6. /\ PhaseOf(u) = PhaseOf(s) /\ ChangedOf(u) = ChangedOf(s)
      /\ Finals(u) = Finals(s) \o Finals(m) /\ Changes(u) = Changes(s) \o Changes(m)
  BY <1>2, <1>3, <1>5, PhaseContinues
<1>7. \A e \in Nat : InputsOf(u, e) = InputsOf(s, e) \o InputsOf(m, e)
  BY <1>2, <1>3, InputsContinue
<1>8. \A e \in Nat : /\ ClaimsOf(u, e) = ClaimsOf(s, e) \cup ClaimsOf(m, e)
                     /\ FirstOf(u, e) = IF ClaimsOf(s, e) # {} THEN FirstOf(s, e) ELSE FirstOf(m, e)
  BY <1>2, <1>3, ClaimsContinue
<1>9. Changes(s) \in Seq(AllEvents)
  BY <1>2, LogTypes
<1>. HIDE DEF u
<1>10. Changes(u) = Changes(s)
  BY <1>5, <1>6, <1>9
<1>11. /\ <<>> \o <<>> = <<>> /\ <<>> \o <<x>> = <<x>>
  OBVIOUS
<1>12. Finals(u) = <<>>
  BY <1>5, <1>6, <1>11 DEF OnlyChanges
<1>13. \A e \in Nat : InputsOf(u, e) = IF e = k THEN <<x>> ELSE <<>>
  BY <1>5, <1>7, <1>11 DEF OnlyChanges
<1>14. \A e \in Nat : ClaimsOf(u, e) = {} /\ FirstOf(u, e) = None
  BY <1>5, <1>8 DEF OnlyChanges
<1>. QED BY <1>3, <1>4, <1>6, <1>10, <1>12, <1>13, <1>14 DEF u, m, ev

\* addInput logs the sealing and the input.
LEMMA AddInputEmits ==
    ASSUME IInv, IInv', logs \in Seq(AllEvents), NEW x \in Inputs, AddInput(x),
           logs' = logs \o UpdatePhase(currentPhase, currentPhase')
                        \o <<InputAdded(GetCurrentEpoch', x)>>
    PROVE  \E new : Emitted(new) /\ logs' = logs \o new
<1>. DEFINE s == UpdatePhase(currentPhase, currentPhase')
            k == GetCurrentEpoch'
            u == s \o <<InputAdded(k, x)>>
<1>1. /\ currentPhase' = IF SealingTimeReached THEN "AwaitingConsensus" ELSE currentPhase
      /\ epochHashes' = epochHashes /\ inputAccumulationStart' = inputAccumulationStart
      /\ inputAdded' = [inputAdded EXCEPT ![k] = Append(@, x)]
      /\ votes' = IF SealingTimeReached THEN {} ELSE votes
      /\ challenge' = IF SealingTimeReached THEN [by |-> "input", start |-> now] ELSE challenge
  BY DEF AddInput
<1>2. TypeOK /\ currentPhase \in Phases /\ currentPhase' \in Phases
      /\ \A e \in Epochs : inputAdded[e] \in Seq(Inputs)
      /\ DOMAIN inputAdded = Epochs
  BY DEF IInv, TypeOK
<1>3. k \in Nat /\ Epochs \subseteq Nat
  BY <1>1, BoundsAssumption DEF IInv, TypeOK, GetCurrentEpoch, Epochs
<1>4. SealingTimeReached => currentPhase = "InputAccumulation"
  BY DEF SealingTimeReached
<1>5. /\ OnlyChanges(s) /\ (Changes(s) = <<>> <=> ~SealingTimeReached)
      /\ Changes(s) # <<>> => PhaseOf(s) = currentPhase'
  BY <1>1, <1>2, <1>4, UpdatePhaseIsLogged
<1>. HIDE DEF s, k
<1>6. /\ u \in Seq(AllEvents) /\ <<InputAdded(k, x)>> \in Seq(AllEvents)
      /\ Finals(u) = <<>> /\ Changes(u) = Changes(s) /\ PhaseOf(u) = PhaseOf(s)
      /\ ChangedOf(u) = ChangedOf(s)
      /\ \A e \in Nat : /\ InputsOf(u, e) = IF e = k THEN <<x>> ELSE <<>>
                        /\ ClaimsOf(u, e) = {} /\ FirstOf(u, e) = None
  BY <1>2, <1>3, <1>5, InputIsLogged
<1>7. logs' = logs \o u
  <2>1. s \in Seq(AllEvents)
    BY <1>5 DEF OnlyChanges
  <2>. QED BY <1>6, <2>1, LogsInARow DEF s, k
<1>. HIDE DEF u
<1>8. PhaseEmitted(u)
  BY <1>1, <1>5, <1>6 DEF PhaseEmitted, OnlyChanges
<1>9. FinalEmitted(u)
  BY <1>1, <1>5, <1>6 DEF FinalEmitted
<1>10. InputsEmitted(u)
  <2>1. \A e \in Nat : InputsOf(u, e) # <<>> => e = k
    BY <1>6
  <2>2. \A e \in Epochs : inputAdded'[e] = inputAdded[e] \o InputsOf(u, e)
    <3>1. \A y \in Seq(Inputs) : y \o <<>> = y /\ y \o <<x>> = Append(y, x)
      OBVIOUS
    <3>2. \A e \in Epochs : inputAdded'[e] = IF e = k THEN Append(inputAdded[e], x)
                                             ELSE inputAdded[e]
      BY <1>1, <1>2
    <3>. QED BY <1>2, <1>3, <1>6, <3>1, <3>2
  <2>. QED BY <2>1, <2>2 DEF InputsEmitted, k
<1>11. ClaimsEmitted(u)
  <2>1. Len(epochHashes) \in Nat
    BY <1>2 DEF TypeOK
  <2>. QED BY <1>1, <1>6, <2>1 DEF ClaimsEmitted
<1>12. ChallengeEmitted(u)
  BY <1>1, <1>4, <1>5, <1>6 DEF ChallengeEmitted
<1>. QED BY <1>6, <1>7, <1>8, <1>9, <1>10, <1>11, <1>12 DEF Emitted
-----------------------------------------------------------------------------
(* The inductive invariant of chain and view.                              *)

ViewInv ==
    \/ view = NoView
    \/ /\ blocks # <<>> /\ view.phase \notin Unanswered
       /\ view \in Views(blocks, initialEpoch)

\* While an epoch is sealed there is a current claim as soon as somebody claimed.
ClaimInv == currentPhase # "InputAccumulation" /\ votes # {} => vm.claim # NoClaim

FoldInv == IInv /\ ClaimInv /\ ChainInv /\ ViewInv

\* The current claim is only cleared with the end of the epoch.
LEMMA StepClaim ==
    ASSUME IInv, ClaimInv, [Next]_vars PROVE ClaimInv'
<1>1. ASSUME NEW r, NEW box, NEW t, NEW V, ResolveValidatorResult(r, box, t), Backed(r, V)
      PROVE  ClaimInv'
  <2>1. r.vm.claim # NoClaim
    BY <1>1, ConstantsAssumption DEF Backed
  <2>. QED BY <1>1, <2>1 DEF ResolveValidatorResult, ClaimInv
<1>2. ASSUME NEW a \in Addresses, NEW c \in Claims, Claim(a, c) PROVE ClaimInv'
  <2>1. \E box, t : ResolveValidatorResult(Settled(OnClaim(vm, a, c)), box, t)
    BY <1>2 DEF Claim
  <2>2. \E V : Backed(Settled(OnClaim(vm, a, c)), V)
    BY <1>2, ClaimAnswerIsBacked DEF IInv, Claim
  <2>. QED BY <1>1, <2>1, <2>2
<1>3. CASE FinalizeEpoch
  BY <1>3 DEF FinalizeEpoch, ClaimInv
<1>4. ASSUME NEW x \in Inputs, AddInput(x) PROVE ClaimInv'
  BY <1>4 DEF AddInput, ClaimInv
<1>5. ASSUME NEW d \in disputes, NEW k \in 1 .. 2, ResolveDispute(d, k) PROVE ClaimInv'
  <2>. DEFINE r == OnDisputeEnd(vm, d.claimers[k], d.claimers[3 - k], d.claims[k])
  <2>1. ResolveValidatorResult(r, currentInputBox, now)
    BY <1>5 DEF ResolveDispute
  <2>2. Backed(r, votes)
    BY DisputeAnswerIsBacked DEF IInv
  <2>. HIDE DEF r
  <2>. QED BY <1>1, <2>1, <2>2
<1>6. CASE AdvanceTime \/ UNCHANGED vars
  BY <1>6 DEF AdvanceTime, vars, chainVars, historyVars, ClaimInv
<1>. QED BY <1>2, <1>3, <1>4, <1>5, <1>6 DEF Next

\* What the node has folded is what the log up to the last closed block says.
LEMMA ClosingKeepsView ==
    ASSUME NoPhaseNoise, ChainInv, ChainInv', ViewInv, NEW noise \in Noise, CloseBlock(noise)
    PROVE  ViewInv'
<1>. DEFINE b == [timestamp |-> now, logs |-> logs, noise |-> noise]
<1>1. /\ blocks \in Seq(AllBlocks) /\ initialEpoch \in Nat /\ initialEpoch' = initialEpoch
      /\ blocks' = Append(blocks, b) /\ blocks' \in Seq(AllBlocks) /\ GoodChain(blocks')
  BY DEF ChainInv, CloseBlock
<1>. HIDE DEF b
<1>2. /\ blocks' # <<>> /\ Len(blocks') = Len(blocks) + 1 /\ blocks'[Len(blocks) + 1] = b
      /\ Len(blocks) \in Nat
  BY <1>1
<1>3. b \in AllBlocks
  BY <1>1, <1>2
<1>4. \/ view # NoView /\ view' = Answered(EpochFold(view, blocks'))
      \/ view' = Answered(FromSync(blocks'))
      \/ view' = NoView
  BY DEF CloseBlock
<1>5. ASSUME view # NoView
      PROVE  EpochFold(view, blocks') \in Views(blocks', initialEpoch)
  <2>1. view \in Views(blocks, initialEpoch)
    BY <1>5 DEF ViewInv
  <2>2. EpochFold(view, Append(blocks, b)) \in Views(Append(blocks, b), initialEpoch)
    BY <1>1, <1>3, <2>1, EpochFoldContinues
  <2>. QED BY <1>1, <2>2
<1>6. FromSync(blocks').phase \in Unanswered \/ FromSync(blocks') \in Views(blocks', initialEpoch)
  <2>1. \A chain \in Seq(AllBlocks) :
            GoodChain(chain) /\ chain # <<>> =>
                FromSync(chain).phase \in Unanswered \/ FromSync(chain) \in Views(chain, initialEpoch)
    BY <1>1, FromSyncIs
  <2>. QED BY <1>1, <1>2, <2>1
<1>7. ASSUME NEW x, x.phase \in Unanswered \/ x \in Views(blocks', initialEpoch),
             view' = Answered(x)
      PROVE  ViewInv'
  <2>1. CASE x.phase \in Unanswered
    BY <1>7, <2>1 DEF Answered, ViewInv
  <2>2. CASE x.phase \notin Unanswered
    BY <1>1, <1>2, <1>7, <2>2 DEF Answered, ViewInv
  <2>. QED BY <2>1, <2>2
<1>8. CASE view' = NoView
  BY <1>8 DEF ViewInv
<1>. QED BY <1>4, <1>5, <1>6, <1>7, <1>8

\* A transaction emits what it does.
LEMMA TransactionsEmit ==
    ASSUME IInv, IInv', logs \in Seq(AllEvents), FoldNext
    PROVE  \/ \E new : Emitted(new) /\ logs' = logs \o new /\ now' = now
                       /\ UNCHANGED <<blocks, view, initialEpoch>>
           \/ \E noise \in Noise : CloseBlock(noise)
<1>1. ASSUME NEW a \in Addresses, NEW c \in Claims, LogClaim(a, c)
      PROVE  \E new : Emitted(new) /\ logs' = logs \o new /\ now' = now
  <2>1. \E new : Emitted(new) /\ logs' = logs \o new
    BY <1>1, ClaimEmits DEF LogClaim
  <2>2. now' = now
    BY <1>1 DEF LogClaim, Claim
  <2>. QED BY <2>1, <2>2
<1>2. ASSUME LogFinalizeEpoch
      PROVE  \E new : Emitted(new) /\ logs' = logs \o new /\ now' = now
  <2>1. \E new : Emitted(new) /\ logs' = logs \o new
    BY <1>2, FinalizeEpochEmits DEF LogFinalizeEpoch
  <2>2. now' = now
    BY <1>2 DEF LogFinalizeEpoch, FinalizeEpoch
  <2>. QED BY <2>1, <2>2
<1>3. ASSUME NEW x \in Inputs, LogInput(x)
      PROVE  \E new : Emitted(new) /\ logs' = logs \o new /\ now' = now
  <2>1. \E new : Emitted(new) /\ logs' = logs \o new
    BY <1>3, AddInputEmits DEF LogInput
  <2>2. now' = now
    BY <1>3 DEF LogInput, AddInput
  <2>. QED BY <2>1, <2>2
<1>4. ASSUME NEW d \in disputes, NEW k \in 1 .. 2, LogResolveDispute(d, k)
      PROVE  \E new : Emitted(new) /\ logs' = logs \o new /\ now' = now
  <2>1. \E new : Emitted(new) /\ logs' = logs \o new
    BY <1>4, ResolveDisputeEmits DEF LogResolveDispute
  <2>2. now' = now
    BY <1>4 DEF LogResolveDispute, ResolveDispute
  <2>. QED BY <2>1, <2>2
<1>. QED BY <1>1, <1>2, <1>3, <1>4
         DEF FoldNext, LogClaim, LogFinalizeEpoch, LogInput, LogResolveDispute

\* Every step is one of the contracts', or none.
LEMMA FoldNextIsNext == FoldNext => [Next]_vars
  BY DEF FoldNext, LogClaim, LogFinalizeEpoch, LogInput, LogResolveDispute, CloseBlock, Next

\* The node starts without a view, the chain without blocks.
LEMMA InitFold == FoldInit => FoldInv
<1>1. FoldInit => IInv
  BY InitInductive DEF FoldInit
<1>2. FoldInit => ViewInv /\ ClaimInv
  BY DEF FoldInit, Init, ViewInv, ClaimInv
<1>. QED BY <1>1, <1>2, InitKeepsChain DEF FoldInv

\* Every step keeps contracts, log and view together.
LEMMA StepFold ==
    ASSUME NoPhaseNoise, FoldInv, [FoldNext]_allVars PROVE FoldInv'
<1>1. CASE FoldNext
  <2>1. IInv' /\ ClaimInv'
    BY <1>1, FoldNextIsNext, StepInductive, StepClaim DEF FoldInv
  <2>2. TypeOK /\ logs \in Seq(AllEvents)
    BY DEF FoldInv, IInv, ChainInv
  <2>3. ASSUME NEW new, Emitted(new), logs' = logs \o new, now' = now,
               UNCHANGED <<blocks, view, initialEpoch>>
        PROVE  ChainInv' /\ ViewInv'
    <3>1. ChainInv'
      BY <2>2, <2>3, TransactionKeepsChain DEF FoldInv
    <3>2. ViewInv'
      BY <2>3 DEF FoldInv, ViewInv
    <3>. QED BY <3>1, <3>2
  <2>4. ASSUME NEW noise \in Noise, CloseBlock(noise)
        PROVE  ChainInv' /\ ViewInv'
    <3>1. ChainInv'
      BY <2>2, <2>4, ClosingKeepsChain DEF FoldInv, CloseBlock
    <3>2. ViewInv'
      BY <2>4, <3>1, ClosingKeepsView DEF FoldInv
    <3>. QED BY <3>1, <3>2
  <2>5. ChainInv' /\ ViewInv'
    BY <1>1, <2>1, <2>2, <2>3, <2>4, TransactionsEmit DEF FoldInv
  <2>. QED BY <2>1, <2>5 DEF FoldInv
<1>2. CASE UNCHANGED allVars
  <2>1. UNCHANGED <<vars, logs, blocks, view, initialEpoch>>
    BY <1>2 DEF allVars, foldVars
  <2>2. IInv' /\ ClaimInv'
    BY <2>1, StepInductive, StepClaim DEF FoldInv
  <2>3. UNCHANGED <<now, epochHashes, currentPhase, inputAccumulationStart, inputAdded, votes,
                    challenge>>
    BY <2>1 DEF vars, chainVars, historyVars
  <2>4. Log' = Log
    BY <2>1 DEF Log
  <2>5. StorageIsLogged' /\ TimersAreLogged' /\ BlockIsGood'
    BY <2>1, <2>3, <2>4
    DEF FoldInv, ChainInv, StorageIsLogged, TimersAreLogged, BlockIsGood, SealingTimeReached,
        GetCurrentEpoch
  <2>6. ChainInv' /\ ViewInv'
    BY <2>1, <2>5 DEF FoldInv, ChainInv, ViewInv
  <2>. QED BY <2>2, <2>6 DEF FoldInv
<1>. QED BY <1>1, <1>2
-----------------------------------------------------------------------------
(* What the node may rely on.                                              *)

\* As of a closed block, the view is that of the log, and the log is the storage's.
LEMMA SeenView ==
    ASSUME FoldInv, Seen
    PROVE  /\ view \in Views(blocks, initialEpoch) /\ view.phase \notin Unanswered
           /\ Log = AllLogs(blocks) /\ Log \in Seq(AllEvents)
           /\ initialEpoch \in Nat /\ Len(epochHashes) \in Nat
           /\ EpochOf(Log, initialEpoch) = Len(epochHashes)
           /\ StorageIsLogged /\ TimersAreLogged
           /\ InputsOf(Log, GetCurrentEpoch) = inputBox[currentInputBox]
           /\ \A e \in 0 .. Len(epochHashes) : InputsOf(Log, e) = inputAdded[e]
           /\ currentPhase # "InputAccumulation" =>
                  /\ inputBox[1 - currentInputBox] = inputAdded[Len(epochHashes)]
                  /\ ClaimsOf(Log, Len(epochHashes)) = votes
           /\ currentPhase = "AwaitingDispute" => votes # {}
<1>1. /\ TypeOK /\ InboxesMatchEpochs /\ DisputantsClaimed /\ StorageIsLogged /\ TimersAreLogged
      /\ blocks \in Seq(AllBlocks) /\ initialEpoch \in Nat
  BY DEF FoldInv, IInv, AgreementInv, ChainInv
<1>2. /\ logs = <<>> /\ Len(epochHashes) >= initialEpoch
      /\ view \in Views(blocks, initialEpoch) /\ view.phase \notin Unanswered
  BY DEF Seen, FoldInv, ViewInv
<1>3. Log = AllLogs(blocks) /\ Log \in Seq(AllEvents)
  <2>1. \A s \in Seq(AllEvents) : s \o <<>> = s
    OBVIOUS
  <2>2. AllLogs(blocks) \in Seq(AllEvents)
    BY <1>1, AllLogsType
  <2>. QED BY <1>2, <2>1, <2>2 DEF Log
<1>4. /\ Len(epochHashes) \in Nat /\ Len(epochHashes) <= MaxEpochs /\ MaxEpochs \in Nat
      /\ currentPhase \in Phases
  BY <1>1, BoundsAssumption DEF TypeOK
<1>5. Len(Finals(Log)) = Len(epochHashes)
  BY <1>1 DEF StorageIsLogged
<1>6. EpochOf(Log, initialEpoch) = Len(epochHashes)
  BY <1>1, <1>2, <1>4, <1>5 DEF EpochOf
<1>7. \A e \in 0 .. Len(epochHashes) + 1 : InputsOf(Log, e) = inputAdded[e]
  BY <1>1, <1>4 DEF StorageIsLogged, Epochs
<1>8. InputsOf(Log, GetCurrentEpoch) = inputBox[currentInputBox]
  BY <1>1, <1>4, <1>7 DEF GetCurrentEpoch, InboxesMatchEpochs
<1>9. currentPhase # "InputAccumulation" =>
          /\ inputBox[1 - currentInputBox] = inputAdded[Len(epochHashes)]
          /\ ClaimsOf(Log, Len(epochHashes)) = votes
  BY <1>1 DEF InboxesMatchEpochs, StorageIsLogged
<1>10. currentPhase = "AwaitingDispute" => votes # {}
  <2>. SUFFICES ASSUME currentPhase = "AwaitingDispute" PROVE votes # {}
    OBVIOUS
  <2>1. disputes # {}
    BY <1>1 DEF DisputantsClaimed
  <2>2. ASSUME NEW d \in disputes PROVE votes # {}
    <3>1. \A k \in 1 .. 2 : <<d.claimers[k], d.claims[k]>> \in votes
      BY <1>1, Zenon DEF DisputantsClaimed
    <3>. QED BY <3>1
  <2>. QED BY <2>1, <2>2
<1>. QED BY <1>1, <1>2, <1>3, <1>4, <1>6, <1>7, <1>8, <1>9, <1>10

\* The fields of the view of an epoch that is open, and of one that is sealed.
LEMMA SeenFields ==
    ASSUME FoldInv, Seen
    PROVE  /\ view.phase = currentPhase /\ currentPhase # "AwaitingDispute"
           /\ view.finalized = FinalizedIn(Log, initialEpoch)
           /\ view.phaseChange = ChangedOf(Log)
           /\ view.current = [number |-> GetCurrentEpoch, inputs |-> inputBox[currentInputBox]]
           /\ currentPhase # "InputAccumulation" =>
                  /\ view.roundStart = ChangedOf(Log)
                  /\ view.sealed.epoch = Len(epochHashes) /\ view.sealed.claims = votes
                  /\ view.sealed.first = FirstOf(Log, Len(epochHashes))
                  /\ view.sealed.inputs \in SealedInputs(blocks, initialEpoch)
<1>. DEFINE N == Len(epochHashes)
<1>1. /\ view \in Views(blocks, initialEpoch) /\ initialEpoch \in Nat /\ N \in Nat
      /\ Log = AllLogs(blocks) /\ view.phase \notin Unanswered
      /\ EpochOf(Log, initialEpoch) = N /\ PhaseOf(Log) = currentPhase
      /\ InputsOf(Log, GetCurrentEpoch) = inputBox[currentInputBox]
  BY SeenView DEF StorageIsLogged
<1>2. CASE currentPhase = "InputAccumulation"
  <2>1. view = OpenView(Log, initialEpoch)
    BY <1>1, <1>2 DEF Views
  <2>2. GetCurrentEpoch = N
    BY <1>2 DEF GetCurrentEpoch
  <2>. QED BY <1>1, <1>2, <2>1, <2>2 DEF OpenView, OpenIn
<1>3. CASE currentPhase # "InputAccumulation"
  <2>1. PICK ins \in SealedInputs(blocks, initialEpoch) : view = SealedView(Log, initialEpoch, ins)
    BY <1>1, <1>3 DEF Views
  <2>2. GetCurrentEpoch = N + 1
    BY <1>3 DEF GetCurrentEpoch
  <2>3. ClaimsOf(Log, N) = votes
    BY <1>3, SeenView
  <2>. HIDE DEF N
  <2>4. view.phase = currentPhase /\ currentPhase # "AwaitingDispute"
    <3>1. view.phase = IF PhaseOf(Log) = "AwaitingDispute" /\ ClaimsOf(Log, N) = {}
                       THEN "Illegal" ELSE PhaseOf(Log)
      BY <1>1, <2>1 DEF SealedView
    <3>. QED BY <1>1, <3>1 DEF Unanswered, Illegal
  <2>5. view.current = [number |-> GetCurrentEpoch, inputs |-> inputBox[currentInputBox]]
    BY <1>1, <2>1, <2>2 DEF SealedView, OpenIn
  <2>6. /\ view.finalized = FinalizedIn(Log, initialEpoch)
        /\ view.phaseChange = ChangedOf(Log) /\ view.roundStart = ChangedOf(Log)
        /\ view.sealed = SealedIn(Log, N, ins)
    BY <1>1, <2>1 DEF SealedView
  <2>7. /\ view.sealed.epoch = N /\ view.sealed.claims = votes
        /\ view.sealed.first = FirstOf(Log, N) /\ view.sealed.inputs = ins
    BY <2>3, <2>6 DEF SealedIn
  <2>. QED BY <2>1, <2>4, <2>5, <2>6, <2>7 DEF N
<1>. QED BY <1>2, <1>3

\* The node's view of phase, epochs, claims and inputs is the contracts'.
LEMMA ViewIsChain == FoldInv => ViewMatchesChain
<1>. DEFINE N == Len(epochHashes)
            fin == FinalizedIn(Log, initialEpoch)
<1>. SUFFICES ASSUME FoldInv, Seen
              PROVE  /\ Len(fin) = N - initialEpoch
                     /\ \A i \in DOMAIN fin :
                           LET e == initialEpoch + i - 1
                           IN  fin[i] = [number |-> e, hash |-> epochHashes[e + 1],
                                         inputs |-> inputAdded[e]]
  BY SeenFields DEF ViewMatchesChain
<1>1. /\ initialEpoch \in Nat /\ N \in Nat /\ N >= initialEpoch
      /\ \A e \in 0 .. N : InputsOf(Log, e) = inputAdded[e]
  BY SeenView DEF Seen
<1>2. /\ Len(Finals(Log)) = N
      /\ \A i \in 1 .. N : Finals(Log)[i].epoch = i - 1 /\ Finals(Log)[i].hash = epochHashes[i]
  BY SeenView DEF StorageIsLogged
<1>3. fin = [i \in 1 .. N - initialEpoch |->
                [number |-> Finals(Log)[initialEpoch + i].epoch,
                 hash   |-> Finals(Log)[initialEpoch + i].hash,
                 inputs |-> InputsOf(Log, Finals(Log)[initialEpoch + i].epoch)]]
  BY <1>1, <1>2 DEF FinalizedIn
<1>. HIDE DEF N, fin
<1>4. N - initialEpoch \in Nat
  BY <1>1
<1>5. Len(fin) = N - initialEpoch /\ DOMAIN fin = 1 .. N - initialEpoch
  BY <1>3, <1>4
<1>6. ASSUME NEW i \in 1 .. N - initialEpoch
      PROVE  fin[i] = [number |-> initialEpoch + i - 1,
                       hash   |-> epochHashes[initialEpoch + i - 1 + 1],
                       inputs |-> inputAdded[initialEpoch + i - 1]]
  <2>. DEFINE e == initialEpoch + i - 1
  <2>1. initialEpoch + i \in 1 .. N /\ e \in 0 .. N /\ e + 1 = initialEpoch + i
    BY <1>1
  <2>2. Finals(Log)[initialEpoch + i].epoch = e
        /\ Finals(Log)[initialEpoch + i].hash = epochHashes[initialEpoch + i]
    BY <1>2, <2>1
  <2>3. InputsOf(Log, e) = inputAdded[e]
    BY <1>1, <2>1
  <2>. HIDE DEF e
  <2>4. fin[i] = [number |-> e, hash |-> epochHashes[e + 1], inputs |-> inputAdded[e]]
    BY <1>3, <2>1, <2>2, <2>3
  <2>. QED BY <2>4 DEF e
<1>. QED BY <1>5, <1>6

\* The timers the node computes are the contracts', also in an epoch that has
\* a challenge period but no claim left.
LEMMA TimersAreChain ==
    ASSUME FoldInv, Seen
    PROVE  /\ currentPhase = "InputAccumulation" => AccumulationStart(view) = inputAccumulationStart
           /\ currentPhase = "AwaitingConsensus" /\ challenge.by # "input" =>
                  TimeOfLastMove(view) = sealingEpochTimestamp
<1>1. TimersAreLogged /\ view.phaseChange = ChangedOf(Log)
  BY SeenView, SeenFields
<1>2. currentPhase = "InputAccumulation" => AccumulationStart(view) = inputAccumulationStart
  BY <1>1 DEF TimersAreLogged, AccumulationStart
<1>3. ASSUME currentPhase = "AwaitingConsensus", challenge.by # "input"
      PROVE  TimeOfLastMove(view) = sealingEpochTimestamp
  <2>1. sealingEpochTimestamp = challenge.start /\ challenge.start \in Int
    BY <1>3, TimeAssumption DEF FoldInv, IInv, TimestampInv, TypeOK, Challenges
  <2>2. ChangedOf(Log) = challenge.start /\ FirstOf(Log, Len(epochHashes)) <= challenge.start
    BY <1>1, <1>3 DEF TimersAreLogged
  <2>3. view.roundStart = ChangedOf(Log) /\ view.sealed.first = FirstOf(Log, Len(epochHashes))
    BY <1>3, SeenFields
  <2>4. FirstOf(Log, Len(epochHashes)) \in Nat
    BY SeenView, LogTypes
  <2>. QED BY <2>1, <2>2, <2>3, <2>4 DEF TimeOfLastMove
<1>. QED BY <1>2, <1>3

\* What the node decides to send, the contracts accept.
LEMMA DecisionsFit == FoldInv => DecisionsAreAccepted
<1>. DEFINE phase == LogicalPhase(view, now - 1)
<1>. SUFFICES ASSUME FoldInv, Seen, phase # "InputAccumulation"
              PROVE  /\ \A i \in ActiveSlots(vm.validators), c \in Claims :
                           \/ ClaimIsAccepted(vm.validators[i], c)
                           \/ phase # "EpochSealedAwaitingFirstClaim" /\ vm.claim # c /\ vm.agreed = {}
                     /\ phase = "ConsensusTimeout" =>
                           (FinalizeIsAccepted <=> ~(challenge.by = "input" /\ epochHashes # <<>>))
  BY DEF DecisionsAreAccepted
<1>1. /\ view.phase = currentPhase /\ currentPhase \in Phases /\ currentPhase # "AwaitingDispute"
      /\ now \in Nat /\ now <= MaxTime /\ MaxTime \in Nat /\ MaxUint \in Nat /\ MaxTime < MaxUint
      /\ inputAccumulationStart \in Nat /\ sealingEpochTimestamp \in Nat
      /\ InputDuration \in Nat /\ ChallengePeriod \in Nat
      /\ currentPhase # "InputAccumulation" => view.sealed.claims = votes
  BY SeenFields, TimeAssumption DEF FoldInv, IInv, TypeOK
<1>2. /\ vm \in ValidatorManagerState /\ NoClaim \notin Claims
      /\ vm.claim # NoClaim => votes # {}
      /\ currentPhase # "InputAccumulation" /\ votes # {} => vm.claim # NoClaim
      /\ currentPhase = "InputAccumulation" => vm.claim = NoClaim
  BY ConstantsAssumption DEF FoldInv, IInv, TypeOK, AgreementInv, Made, ClaimInv
<1>3. ASSUME NEW i \in ActiveSlots(vm.validators), NEW c \in Claims
      PROVE  OnClaimReverts(vm, vm.validators[i], c) => vm.claim \notin {NoClaim, c} /\ vm.agreed = {}
  BY <1>2 DEF OnClaimReverts, IsAllowed, SlotsOf, ActiveSlots, WithFirstClaim, ValidatorManagerState
<1>4. CASE Expired(view, now - 1)
  <2>1. currentPhase = "InputAccumulation" /\ now - 1 > AccumulationStart(view) + InputDuration
    BY <1>1, <1>4 DEF Expired
  <2>2. AccumulationStart(view) = inputAccumulationStart
    BY <2>1, TimersAreChain
  <2>3. phase = "EpochSealedAwaitingFirstClaim"
    BY <1>4 DEF LogicalPhase
  <2>4. SealingTimeReached /\ SealingTimeFits
    BY <1>1, <2>1, <2>2 DEF SealingTimeReached, SealingTimeFits
  <2>. QED BY <1>2, <1>3, <2>1, <2>3, <2>4 DEF ClaimIsAccepted
<1>5. CASE ~Expired(view, now - 1)
  <2>1. currentPhase = "AwaitingConsensus"
    BY <1>1, <1>5 DEF LogicalPhase, Phases
  <2>2. phase = "EpochSealedAwaitingFirstClaim" => votes = {}
    BY <1>1, <1>5, <2>1 DEF LogicalPhase
  <2>3. SealingTimeFits
    BY <2>1 DEF SealingTimeFits
  <2>4. ASSUME NEW i \in ActiveSlots(vm.validators), NEW c \in Claims
        PROVE  \/ ClaimIsAccepted(vm.validators[i], c)
               \/ phase # "EpochSealedAwaitingFirstClaim" /\ vm.claim # c /\ vm.agreed = {}
    <3>. HIDE DEF phase
    <3>1. phase = "EpochSealedAwaitingFirstClaim" => vm.claim = NoClaim
      BY <1>2, <2>2
    <3>. QED BY <1>3, <2>1, <2>3, <3>1 DEF ClaimIsAccepted
  <2>5. ASSUME phase = "ConsensusTimeout"
        PROVE  FinalizeIsAccepted <=> ~(challenge.by = "input" /\ epochHashes # <<>>)
    <3>1. votes # {} /\ now - 1 > TimeOfLastMove(view) + ChallengePeriod
      BY <1>1, <1>5, <2>1, <2>5 DEF LogicalPhase
    <3>2. vm.claim # NoClaim
      BY <1>2, <2>1, <3>1
    <3>3. sealingEpochTimestamp = IF challenge.by # "input" THEN challenge.start
                                  ELSE IF epochHashes = <<>> THEN 0 ELSE MaxUint
      BY <2>1 DEF FoldInv, IInv, TimestampInv
    <3>4. CASE challenge.by # "input"
      <4>1. TimeOfLastMove(view) = sealingEpochTimestamp
        BY <2>1, <3>4, TimersAreChain
      <4>. QED BY <1>1, <2>1, <3>1, <3>2, <3>4, <4>1 DEF FinalizeIsAccepted
    <3>5. CASE challenge.by = "input" /\ epochHashes = <<>>
      <4>1. TimeOfLastMove(view) \in Nat
        <5>1. view.roundStart \in Nat /\ view.sealed.first \in Nat
          BY <2>1, SeenFields, SeenView, LogTypes
        <5>. QED BY <5>1 DEF TimeOfLastMove
      <4>2. sealingEpochTimestamp = 0
        BY <3>3, <3>5
      <4>. QED BY <1>1, <2>1, <3>1, <3>2, <3>5, <4>1, <4>2 DEF FinalizeIsAccepted
    <3>6. CASE challenge.by = "input" /\ epochHashes # <<>>
      <4>1. sealingEpochTimestamp = MaxUint
        BY <3>3, <3>6
      <4>. QED BY <1>1, <3>6, <4>1 DEF FinalizeIsAccepted
    <3>. QED BY <3>4, <3>5, <3>6
  <2>. QED BY <2>4, <2>5
<1>. QED BY <1>4, <1>5

\* What the machine computes the claim from was synced close to the sealing.
LEMMA SealedInputsFit == FoldInv => SealedInputsMatchChain
<1>. DEFINE N == Len(epochHashes)
<1>. SUFFICES ASSUME FoldInv, Seen, currentPhase # "InputAccumulation"
              PROVE  \E k, n \in DOMAIN blocks :
                        /\ n <= k + SafetyMargin /\ ShowsSealed(N, SubSeq(blocks, 1, n))
                        /\ view.sealed.inputs = EpochInputs(N, SubSeq(blocks, 1, k))
  BY DEF SealedInputsMatchChain
<1>1. /\ view.sealed.inputs \in SealedInputs(blocks, initialEpoch)
      /\ Log = AllLogs(blocks) /\ EpochOf(Log, initialEpoch) = N /\ Len(Finals(Log)) = N
  BY SeenFields, SeenView DEF StorageIsLogged
<1>2. PICK k \in 1 .. Len(blocks), n \in 1 .. Len(blocks) :
          /\ SyncedAt(blocks, k, n)
          /\ view.sealed.inputs = InputsOf(AllLogs(SubSeq(blocks, 1, k)), N)
  BY <1>1 DEF SealedInputs
<1>. HIDE DEF N
<1>3. k \in DOMAIN blocks /\ n \in DOMAIN blocks
  BY DEF FoldInv, ChainInv
<1>4. n <= k + SafetyMargin /\ ShowsSealed(N, SubSeq(blocks, 1, n))
  BY <1>1, <1>2 DEF SyncedAt, ShowsSealed, PhaseOf, Changes, Finals
<1>5. EpochInputs(N, SubSeq(blocks, 1, k)) = InputsOf(AllLogs(SubSeq(blocks, 1, k)), N)
  BY DEF EpochInputs, InputsOf, AddedTo
<1>. QED BY <1>2, <1>3, <1>4, <1>5

\* With a margin of at most one block nothing is lost.
LEMMA SealedInputsAreExact ==
    ASSUME FoldInv, Seen, currentPhase # "InputAccumulation", SafetyMargin <= 1
    PROVE  view.sealed.inputs = inputBox[1 - currentInputBox]
<1>. DEFINE N == Len(epochHashes)
<1>1. /\ view.sealed.inputs \in SealedInputs(blocks, initialEpoch) /\ Log = AllLogs(blocks)
      /\ Len(Finals(Log)) = N /\ initialEpoch <= N /\ N \in Nat
      /\ inputBox[1 - currentInputBox] = inputAdded[N] /\ InputsOf(Log, N) = inputAdded[N]
  BY SeenFields, SeenView DEF StorageIsLogged, Seen
<1>2. view.sealed.inputs = InputsOf(Log, N)
  BY <1>1 DEF SealedInputs
<1>. QED BY <1>1, <1>2

\* Which epoch the node takes for sealed, in the view of a log.
LEMMA SealedInView ==
    ASSUME NEW chain \in Seq(AllBlocks), NEW e0 \in Nat, NEW v \in Views(chain, e0), NEW n,
           NEW s \in LogicalSealed(v, n), NEW L, L = AllLogs(chain)
    PROVE  /\ s.number = EpochOf(L, e0)
           /\ PhaseOf(L) = "InputAccumulation" =>
                  s.inputs = InputsOf(L, EpochOf(L, e0)) /\ n > AccumulationStart(v) + InputDuration
           /\ PhaseOf(L) # "InputAccumulation" => s.inputs = v.sealed.inputs
<1>1. CASE PhaseOf(L) = "InputAccumulation"
  <2>1. v = OpenView(L, e0)
    BY <1>1 DEF Views
  <2>2. v.phase = "InputAccumulation" /\ v.current = OpenIn(L, EpochOf(L, e0))
    BY <2>1 DEF OpenView
  <2>3. s = v.current /\ n > AccumulationStart(v) + InputDuration
    BY <2>2 DEF LogicalSealed, Expired
  <2>. QED BY <1>1, <2>2, <2>3 DEF OpenIn
<1>2. CASE PhaseOf(L) # "InputAccumulation"
  <2>1. PICK ins : v = SealedView(L, e0, ins)
    BY <1>2 DEF Views
  <2>2. v.phase # "InputAccumulation" /\ v.sealed.epoch = EpochOf(L, e0)
    BY <1>2, <2>1 DEF SealedView, SealedIn
  <2>3. s = [number |-> v.sealed.epoch, inputs |-> v.sealed.inputs]
    BY <2>2 DEF LogicalSealed, Expired
  <2>. QED BY <1>2, <2>2, <2>3
<1>. QED BY <1>1, <1>2

\* A block in which the accumulation is over by the clock, but not by a
\* transaction, brings no input.
LEMMA NoInputsAfterExpiry ==
    ASSUME FoldInv, PhaseOf(Log) = "InputAccumulation",
           now > (IF ChangedOf(Log) = None THEN DeploymentTime ELSE ChangedOf(Log)) + InputDuration
    PROVE  /\ PhaseOf(AllLogs(blocks)) = "InputAccumulation"
           /\ EpochOf(Log, initialEpoch) = EpochOf(AllLogs(blocks), initialEpoch)
           /\ InputsOf(Log, EpochOf(Log, initialEpoch)) =
                  InputsOf(AllLogs(blocks), EpochOf(Log, initialEpoch))
<1>. DEFINE A == AllLogs(blocks)
            N == Len(epochHashes)
            E == EpochOf(Log, initialEpoch)
<1>1. /\ TypeOK /\ StorageIsLogged /\ TimersAreLogged /\ BlockIsGood
      /\ logs \in Seq(AllEvents) /\ A \in Seq(AllEvents) /\ Log = A \o logs
      /\ initialEpoch \in Nat
  BY AllLogsType DEF FoldInv, IInv, ChainInv, Log
<1>2. /\ N \in Nat /\ now \in Nat /\ InputDuration \in Nat /\ DeploymentTime \in Nat
      /\ DeploymentTime <= now
  BY <1>1, TimeAssumption DEF TypeOK
<1>3. currentPhase = "InputAccumulation" /\ GetCurrentEpoch = N
  BY <1>1 DEF StorageIsLogged, GetCurrentEpoch
<1>4. SealingTimeReached
  BY <1>1, <1>3 DEF TimersAreLogged, SealingTimeReached
<1>. HIDE DEF A, N
<1>5. /\ PhaseOf(A \o logs) = IF Changes(logs) = <<>> THEN PhaseOf(A) ELSE PhaseOf(logs)
      /\ ChangedOf(A \o logs) = IF Changes(logs) = <<>> THEN ChangedOf(A) ELSE ChangedOf(logs)
      /\ Finals(A \o logs) = Finals(A) \o Finals(logs)
  BY <1>1, PhaseContinues
<1>6. Changes(logs) = <<>>
  <2>1. Changes(logs) # <<>> => ChangedOf(Log) = now
    BY <1>1, <1>5 DEF BlockIsGood
  <2>. QED BY <1>2, <2>1 DEF None
<1>7. Finals(logs) = <<>>
  BY <1>1, <1>6 DEF BlockIsGood
<1>8. Finals(Log) = Finals(A) /\ PhaseOf(A) = PhaseOf(Log)
  <2>1. Finals(A) \in Seq(AllEvents)
    BY <1>1, LogTypes
  <2>. QED BY <1>1, <1>5, <1>6, <1>7, <2>1
<1>9. E = EpochOf(A, initialEpoch)
  BY <1>8 DEF EpochOf
<1>10. E \in Nat /\ (E = N \/ E > N)
  BY <1>1, <1>2 DEF EpochOf, StorageIsLogged, N
<1>. HIDE DEF E
<1>11. InputsOf(Log, E) = InputsOf(A, E) \o InputsOf(logs, E)
  <2>1. InputsOf(A \o logs, E) = InputsOf(A, E) \o InputsOf(logs, E)
    BY <1>1, InputsContinue
  <2>. QED BY <1>1, <2>1
<1>12. InputsOf(A, E) \in Seq(Inputs) /\ InputsOf(logs, E) \in Seq(Inputs)
  BY <1>1, LogTypes
<1>13. CASE E = N
  <2>1. InputsOf(logs, N) = <<>>
    BY <1>1, <1>4 DEF BlockIsGood, N
  <2>2. InputsOf(Log, E) = InputsOf(A, E)
    BY <1>11, <1>12, <1>13, <2>1
  <2>. QED BY <1>8, <1>9, <2>2 DEF A, E
<1>14. CASE E > N
  <2>1. InputsOf(Log, E) = <<>>
    BY <1>1, <1>3, <1>10, <1>14 DEF StorageIsLogged
  <2>2. \A x, y \in Seq(Inputs) : x \o y = <<>> => x = <<>>
    OBVIOUS
  <2>3. InputsOf(A, E) = <<>>
    BY <1>11, <1>12, <2>1, <2>2
  <2>. QED BY <1>8, <1>9, <2>1, <2>3 DEF A, E
<1>. QED BY <1>10, <1>13, <1>14

\* The inputs of the epoch the node takes for sealed stay, but for the sync when
\* the contract's phase follows the clock.
LEMMA SealedInputsStay ==
    ASSUME NoPhaseNoise, FoldInv, ChainInv', ViewInv', NEW noise \in Noise,
           CloseBlock(noise), view # NoView, view' # NoView,
           NEW s \in LogicalSealed(view, now - 1), NEW t \in LogicalSealed(view', now),
           s.number = t.number
    PROVE  \/ s.inputs = t.inputs
           \/ /\ view.phase = "InputAccumulation" /\ view'.phase # "InputAccumulation"
              /\ t.inputs = EpochInputs(t.number, SubSeq(blocks', 1, SyncBlock(blocks')))
<1>. DEFINE b == [timestamp |-> now, logs |-> logs, noise |-> noise]
            A == AllLogs(blocks)
            e0 == initialEpoch
<1>1. /\ blocks \in Seq(AllBlocks) /\ e0 \in Nat /\ initialEpoch' = e0
      /\ blocks' = Append(blocks, b) /\ blocks' \in Seq(AllBlocks) /\ GoodChain(blocks')
      /\ A \in Seq(AllEvents)
  BY AllLogsType DEF FoldInv, ChainInv, CloseBlock
<1>2. /\ blocks # <<>> /\ view \in Views(blocks, e0) /\ view' \in Views(blocks', e0)
      /\ view' = EpochFold(view, Append(blocks, b))
  BY <1>1 DEF FoldInv, ViewInv, CloseBlock, Answered
<1>. HIDE DEF b
<1>3. b \in AllBlocks /\ b.logs = logs
  <2>1. blocks'[Len(blocks) + 1] = b /\ Len(blocks) + 1 \in 1 .. Len(blocks')
    BY <1>1
  <2>. QED BY <1>1, <2>1 DEF b
<1>4. AllLogs(blocks') = Log /\ Log \in Seq(AllEvents) /\ GoodBlock(A, b) /\ Log = A \o b.logs
  <2>1. AllLogs(Append(blocks, b)) = A \o b.logs
    BY <1>1, <1>3, LogsGrow
  <2>2. AllLogs(blocks') \in Seq(AllEvents)
    BY <1>1, AllLogsType
  <2>3. GoodBlock(A, b)
    BY ClosedBlockIsGood DEF FoldInv, IInv, b
  <2>. QED BY <1>1, <1>3, <2>1, <2>2, <2>3 DEF Log
<1>5. /\ s.number = EpochOf(A, e0)
      /\ PhaseOf(A) = "InputAccumulation" => s.inputs = InputsOf(A, EpochOf(A, e0))
      /\ PhaseOf(A) # "InputAccumulation" => s.inputs = view.sealed.inputs
  BY <1>1, <1>2, SealedInView
<1>6. /\ t.number = EpochOf(Log, e0)
      /\ PhaseOf(Log) = "InputAccumulation" =>
             t.inputs = InputsOf(Log, EpochOf(Log, e0)) /\ now > AccumulationStart(view') + InputDuration
      /\ PhaseOf(Log) # "InputAccumulation" => t.inputs = view'.sealed.inputs
  <2>1. ASSUME NEW chain \in Seq(AllBlocks), NEW e \in Nat, NEW v \in Views(chain, e), NEW n,
               NEW x \in LogicalSealed(v, n), NEW L, L = AllLogs(chain)
        PROVE  /\ x.number = EpochOf(L, e)
               /\ PhaseOf(L) = "InputAccumulation" => x.inputs = InputsOf(L, EpochOf(L, e))
               /\ PhaseOf(L) = "InputAccumulation" => n > AccumulationStart(v) + InputDuration
               /\ PhaseOf(L) # "InputAccumulation" => x.inputs = v.sealed.inputs
    BY <2>1, SealedInView
  <2>2. blocks' \in Seq(AllBlocks) /\ e0 \in Nat /\ view' \in Views(blocks', e0)
        /\ Log = AllLogs(blocks')
    BY <1>1, <1>2, <1>4
  <2>. HIDE DEF e0
  <2>3. /\ t.number = EpochOf(Log, e0)
        /\ PhaseOf(Log) = "InputAccumulation" => t.inputs = InputsOf(Log, EpochOf(Log, e0))
        /\ PhaseOf(Log) = "InputAccumulation" => now > AccumulationStart(view') + InputDuration
        /\ PhaseOf(Log) # "InputAccumulation" => t.inputs = view'.sealed.inputs
    BY <2>1, <2>2
  <2>. QED BY <2>3
<1>7. CASE PhaseOf(Log) # "InputAccumulation"
  <2>1. view'.sealed.inputs = InputsAtSealing(view, blocks, Append(blocks, b))
    <3>1. PhaseOf(AllLogs(Append(blocks, b))) # "InputAccumulation"
      BY <1>1, <1>4, <1>7
    <3>2. EpochFold(view, Append(blocks, b)).sealed.inputs =
              InputsAtSealing(view, blocks, Append(blocks, b))
      BY <1>1, <1>2, <1>3, <3>1, EpochFoldContinues
    <3>. QED BY <1>2, <3>2
  <2>2. CASE PhaseOf(A) # "InputAccumulation"
    BY <1>5, <1>6, <1>7, <2>1, <2>2 DEF InputsAtSealing
  <2>3. CASE PhaseOf(A) = "InputAccumulation"
    <3>1. EpochOf(Log, e0) = EpochOf(A, e0)
      <4>1. PhaseOf(AllLogs(Append(blocks, b))) # "InputAccumulation"
        BY <1>1, <1>4, <1>7
      <4>2. EpochOf(AllLogs(Append(blocks, b)), e0) = EpochOf(A, e0)
        BY <1>1, <1>3, <1>4, <4>1, SealedContinues
      <4>. QED BY <1>1, <1>4, <4>2
    <3>2. t.inputs = InputsOf(AllLogs(SubSeq(blocks', 1, SyncBlock(blocks'))), t.number)
      BY <1>1, <1>6, <1>7, <2>1, <2>3, <3>1 DEF InputsAtSealing
    <3>3. t.inputs = EpochInputs(t.number, SubSeq(blocks', 1, SyncBlock(blocks')))
      BY <3>2 DEF EpochInputs, InputsOf, AddedTo
    <3>4. view.phase = "InputAccumulation"
      BY <1>2, <2>3 DEF Views, OpenView
    <3>5. view'.phase # "InputAccumulation"
      <4>1. AllLogs(blocks') = Log
        BY <1>4
      <4>2. PICK ins : view' = SealedView(Log, e0, ins)
        BY <1>2, <1>7, <4>1 DEF Views
      <4>. QED BY <1>7, <4>2 DEF SealedView
    <3>. QED BY <3>3, <3>4, <3>5
  <2>. QED BY <2>2, <2>3
<1>8. CASE PhaseOf(Log) = "InputAccumulation"
  <2>1. view' = OpenView(Log, e0)
    BY <1>2, <1>4, <1>8 DEF Views
  <2>2. AccumulationStart(view') =
            IF ChangedOf(Log) = None THEN DeploymentTime ELSE ChangedOf(Log)
    BY <2>1 DEF AccumulationStart, OpenView
  <2>. QED BY <1>5, <1>6, <1>8, <2>2, NoInputsAfterExpiry
<1>. QED BY <1>7, <1>8

\* If no bloom filter wrongly shows a phase change, the invariant always holds,
\* wherever the node starts and however far back it syncs.
THEOREM FoldInvariant == NoPhaseNoise /\ FoldSpec => []FoldInv
<1>. SUFFICES ASSUME NoPhaseNoise PROVE FoldSpec => []FoldInv
  OBVIOUS
<1>1. FoldInv /\ [FoldNext]_allVars => FoldInv'
  BY StepFold
<1>. QED BY InitFold, <1>1, PTL DEF FoldSpec

\* The node's view of phase, epochs, claims and inputs is always the contracts'.
THEOREM ViewAlwaysMatchesChain == NoPhaseNoise /\ FoldSpec => []ViewMatchesChain
  BY FoldInvariant, ViewIsChain, PTL

\* The timers it rebuilds from the events are always those of the contracts.
THEOREM TimersAlwaysMatchChain == NoPhaseNoise /\ FoldSpec => []TimersMatchChain
<1>1. FoldInv => TimersMatchChain
  BY TimersAreChain DEF TimersMatchChain
<1>. QED BY <1>1, FoldInvariant, PTL

\* What it decides to send is always accepted, but for a claim nobody defends and
\* an epoch an input sealed.
THEOREM DecisionsAreAlwaysAccepted == NoPhaseNoise /\ FoldSpec => []DecisionsAreAccepted
  BY FoldInvariant, DecisionsFit, PTL

\* The inputs it computes the claim from are always those of the sealed epoch as of
\* a block at most safety_margin blocks before one that showed it sealed.
THEOREM SealedInputsAlwaysMatchChain == NoPhaseNoise /\ FoldSpec => []SealedInputsMatchChain
  BY FoldInvariant, SealedInputsFit, PTL

\* They are all the contract has if the sync is at most one block back.
THEOREM SealedInputsAreAlwaysExact ==
    NoPhaseNoise /\ SafetyMargin <= 1 /\ FoldSpec =>
        [](Seen /\ currentPhase # "InputAccumulation" =>
               view.sealed.inputs = inputBox[1 - currentInputBox])
<1>. SUFFICES ASSUME NoPhaseNoise, SafetyMargin <= 1
              PROVE  FoldSpec => [](Seen /\ currentPhase # "InputAccumulation" =>
                                        view.sealed.inputs = inputBox[1 - currentInputBox])
  OBVIOUS
<1>1. FoldInv => (Seen /\ currentPhase # "InputAccumulation" =>
                      view.sealed.inputs = inputBox[1 - currentInputBox])
  BY SealedInputsAreExact
<1>2. FoldSpec => []FoldInv
  BY FoldInvariant
<1>. QED BY <1>1, <1>2, PTL

\* Once the node takes an epoch for sealed, no later block changes its inputs, but
\* for the sync when the contract's phase follows the clock.
THEOREM SealedInputsStayTheSame == NoPhaseNoise /\ FoldSpec => SealedInputsNeverChange
<1>. SUFFICES ASSUME NoPhaseNoise PROVE FoldSpec => SealedInputsNeverChange
  OBVIOUS
<1>. DEFINE Stay ==
         view # NoView /\ view' # NoView =>
             \A s \in LogicalSealed(view, now - 1), t \in LogicalSealed(view', now) :
                 s.number = t.number =>
                     \/ s.inputs = t.inputs
                     \/ /\ view.phase = "InputAccumulation" /\ view'.phase # "InputAccumulation"
                        /\ t.inputs = EpochInputs(t.number, SubSeq(blocks', 1, SyncBlock(blocks')))
<1>1. ASSUME FoldInv, FoldInv', [FoldNext]_allVars PROVE [Stay]_view
  <2>. SUFFICES ASSUME view' # view PROVE Stay
    OBVIOUS
  <2>1. FoldNext
    BY <1>1 DEF allVars, foldVars
  <2>2. PICK noise \in Noise : CloseBlock(noise)
    BY <2>1 DEF FoldNext, LogClaim, LogFinalizeEpoch, LogInput, LogResolveDispute
  <2>. QED BY <1>1, <2>2, SealedInputsStay DEF FoldInv
<1>2. FoldSpec => []FoldInv
  BY FoldInvariant
<1>. QED BY <1>1, <1>2, PTL DEF FoldSpec, SealedInputsNeverChange
=============================================================================
