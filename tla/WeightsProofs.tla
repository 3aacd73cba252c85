---------------------------- MODULE WeightsProofs ----------------------------
(***************************************************************************)
(* The order in which GPTQ quantizes the columns of a weight, several      *)
(* quantizers and smoothers of one recipe, and smoothing on several ranks. *)
(***************************************************************************)
EXTENDS GptqColumns, Quantizers, Smoothing, Inductions, SequenceTheorems, TLAPS

Values == [col : Int, errors : [Positions -> Int], scale : Int]

(* v is the value of position p, without the errors of the positions before k. *)
Pending(v, p, k) ==
  /\ v.col = perm[p]
  /\ \A q \in Positions : v.errors[q] = IF isFactorized /\ q < k THEN 1 ELSE 0

IsRounded(v, p) == Pending(v, p, p) /\ v.scale = ColumnScale(p)

SetupOK ==
  /\ columns \in Nat \ {0} /\ blockSize \in Nat \ {0} /\ groupSize \in Nat
  /\ IsOrder(perm) /\ isFactorized \in BOOLEAN

ValuesOK ==
  /\ held \in [Positions -> Values]
  /\ window \in [Positions -> Values]
  /\ rounded \in [Positions -> Values]

StartInv == phase = "start" =>
  /\ next = 0
  /\ held = [p \in Positions |-> Fresh(p)]

BlockInv == phase = "block" =>
  /\ next \in 0 .. columns - 1
  /\ \A p \in Positions : p < next => IsRounded(held[p], p)
  /\ \A p \in Positions : next <= p => Pending(held[p], p, next)

ColumnInv == phase = "column" =>
  /\ first \in 0 .. columns - 1 /\ stop \in 1 .. columns /\ first < stop
  /\ next \in first .. stop
  /\ \A p \in Positions : p < first => IsRounded(held[p], p)
  /\ \A p \in Positions : first <= p => Pending(held[p], p, first)
  /\ \A p \in Positions : first <= p /\ p < next => IsRounded(rounded[p], p)
  /\ \A p \in Positions : next <= p /\ p < stop => Pending(window[p], p, next)

RestoreInv == phase = "restore" => \A p \in Positions : IsRounded(held[p], p)

ColumnsInv ==
  /\ SetupOK /\ ValuesOK
  /\ phase \in {"start", "block", "column", "restore", "done"}
  /\ StartInv /\ BlockInv /\ ColumnInv /\ RestoreInv
  /\ ColumnsKeepTheirGroup

-----------------------------------------------------------------------------
(* What a subtraction does to a value. *)
LEMMA SubtractErrors ==
  ASSUME NEW p \in Positions, NEW v \in Values, NEW S
  PROVE  /\ Subtract(v, p, S) \in Values
         /\ Subtract(v, p, S).col = v.col
         /\ Subtract(v, p, S).scale = v.scale
         /\ \A q \in Positions : Subtract(v, p, S).errors[q] =
              IF q \in S /\ (isFactorized \/ q = p) THEN v.errors[q] + 1 ELSE v.errors[q]
<1> DEFINE e == [q \in Positions |->
                   IF q \in S /\ (isFactorized \/ q = p) THEN v.errors[q] + 1 ELSE v.errors[q]]
<1>1. e \in [Positions -> Int]
  BY DEF Values
<1>2. Subtract(v, p, S) = [v EXCEPT !.errors = e]
  BY DEF Subtract
<1>3. [v EXCEPT !.errors = e] = [col |-> v.col, errors |-> e, scale |-> v.scale]
  BY DEF Values
<1>4. QED BY <1>1, <1>2, <1>3 DEF Values

(* The errors of the positions from i up to k complete those before i. *)
LEMMA SubtractPending ==
  ASSUME SetupOK, NEW p \in Positions, NEW v \in Values, NEW S,
         NEW i \in Nat, NEW k \in Nat, i <= k, k <= p,
         \A q \in Positions : q \in S <=> i <= q /\ q < k,
         Pending(v, p, i)
  PROVE  Pending(Subtract(v, p, S), p, k)
<1> DEFINE w == Subtract(v, p, S)
<1>1. /\ w.col = v.col
      /\ \A q \in Positions : w.errors[q] =
           IF q \in S /\ (isFactorized \/ q = p) THEN v.errors[q] + 1 ELSE v.errors[q]
  BY SubtractErrors
<1>2. ASSUME NEW q \in Positions
      PROVE  w.errors[q] = IF isFactorized /\ q < k THEN 1 ELSE 0
  <2>1. q \in Int /\ p \in Int
    BY DEF Positions, SetupOK
  <2>2. v.errors[q] = IF isFactorized /\ q < i THEN 1 ELSE 0
    BY DEF Pending
  <2>3. q \in S <=> i <= q /\ q < k
    OBVIOUS
  <2>4. w.errors[q] = IF q \in S /\ (isFactorized \/ q = p) THEN v.errors[q] + 1 ELSE v.errors[q]
    BY <1>1
  <2> HIDE DEF w
  <2>5. CASE q \in S
    <3>1. q # p /\ ~ (q < i) /\ q < k
      BY <2>1, <2>3, <2>5
    <3>2. QED BY <2>2, <2>4, <2>5, <3>1
  <2>6. CASE q \notin S
    <3>1. q < k <=> q < i
      BY <2>1, <2>3, <2>6
    <3>2. QED BY <2>2, <2>4, <2>6, <3>1
  <2>7. QED BY <2>5, <2>6
<1>3. QED BY <1>1, <1>2 DEF Pending

LEMMA ColumnsInit ==
  GptqColumnsInit => ColumnsInv
<1> SUFFICES ASSUME GptqColumnsInit PROVE ColumnsInv
  OBVIOUS
<1>1. SetupOK
  BY GptqColumnsAssumption DEF GptqColumnsInit, SetupOK
<1>2. \A c \in Positions : Fresh(c) \in Values
  BY <1>1 DEF Fresh, Values, Unquantized, Positions
<1>3. ValuesOK
  BY <1>2 DEF ValuesOK, GptqColumnsInit
<1>4. QED BY <1>1, <1>3 DEF GptqColumnsInit, ColumnsInv, StartInv, BlockInv, ColumnInv,
         RestoreInv, ColumnsKeepTheirGroup

LEMMA ScaleIsInt ==
  ASSUME SetupOK, NEW p \in Positions
  PROVE  ColumnScale(p) \in Int
BY DEF SetupOK, ColumnScale, GroupIndex, IsOrder, Positions

-----------------------------------------------------------------------------
LEMMA PermuteKeeps ==
  ASSUME ColumnsInv, Permute PROVE ColumnsInv'
<1> USE DEF ColumnsInv
<1>1. SetupOK' /\ Positions' = Positions
  BY DEF Permute, SetupOK, gptqSetup, Positions, IsOrder
<1>2. \A p \in Positions : perm[p] \in Positions
  BY DEF SetupOK, IsOrder
<1>3. held' = [p \in Positions |-> Fresh(perm[p])]
  BY <1>2 DEF Permute, StartInv
<1>4. ValuesOK'
  <2>1. \A c \in Positions : Fresh(c) \in Values
    BY DEF Fresh, Values, Unquantized, Positions, SetupOK
  <2>2. held' \in [Positions -> Values]
    BY <1>2, <1>3, <2>1
  <2>3. Values' = Values
    BY <1>1 DEF Values
  <2>4. QED BY <1>1, <2>2, <2>3 DEF ValuesOK, Permute
<1>5. \A p \in Positions : Pending(held'[p], p, 0)
  <2> TAKE p \in Positions
  <2>1. held'[p] = Fresh(perm[p])
    BY <1>3
  <2>2. \A q \in Positions : ~ (q < 0)
    BY DEF Positions, SetupOK
  <2>3. QED BY <2>1, <2>2 DEF Pending, Fresh
<1>6. BlockInv'
  <2>1. next' = 0 /\ next' \in 0 .. columns' - 1 /\ gptqSetup' = gptqSetup
    BY DEF Permute, StartInv, SetupOK, gptqSetup
  <2>2. \A p \in Positions : ~ (p < 0) /\ (Pending(held'[p], p, 0) => Pending(held[p], p, 0)')
    BY <1>1, <2>1 DEF Pending, gptqSetup, Positions, SetupOK
  <2>3. \A p \in Positions : Pending(held[p], p, 0)'
    BY <1>5, <2>2
  <2>4. QED BY <1>1, <2>1, <2>2, <2>3 DEF BlockInv
<1>7. QED BY <1>1, <1>4, <1>6 DEF Permute, StartInv, ColumnInv, RestoreInv,
         ColumnsKeepTheirGroup

(* The setup does not change. *)
LEMMA SetupKept ==
  ASSUME SetupOK, gptqSetup' = gptqSetup
  PROVE  /\ columns' = columns /\ blockSize' = blockSize /\ groupSize' = groupSize
         /\ perm' = perm /\ isFactorized' = isFactorized
         /\ Positions' = Positions /\ Values' = Values /\ SetupOK'
         /\ \A p : ColumnScale(p)' = ColumnScale(p)
<1>1. /\ columns' = columns /\ blockSize' = blockSize /\ groupSize' = groupSize
      /\ perm' = perm /\ isFactorized' = isFactorized
  BY DEF gptqSetup
<1>2. Positions' = Positions
  BY <1>1 DEF Positions
<1>3. Values' = Values
  BY <1>2 DEF Values
<1>4. SetupOK'
  BY <1>1, <1>2 DEF SetupOK, IsOrder
<1>5. \A p : ColumnScale(p)' = ColumnScale(p)
  BY <1>1 DEF ColumnScale, GroupIndex
<1>6. QED BY <1>1, <1>2, <1>3, <1>4, <1>5

LEMMA BeginBlockKeeps ==
  ASSUME ColumnsInv, BeginBlock PROVE ColumnsInv'
<1> USE DEF ColumnsInv
<1>0. gptqSetup' = gptqSetup /\ held' = held /\ window' = held /\ rounded' = rounded
  BY DEF BeginBlock
<1>1. /\ columns' = columns /\ perm' = perm /\ isFactorized' = isFactorized
      /\ Positions' = Positions /\ Values' = Values /\ SetupOK'
      /\ \A p : ColumnScale(p)' = ColumnScale(p)
  BY <1>0, SetupKept
<1>2. ValuesOK'
  BY <1>0, <1>1 DEF ValuesOK
<1>3. /\ phase = "block" /\ phase' = "column" /\ first' = next /\ next' = next
      /\ stop' = IF next + blockSize < columns THEN next + blockSize ELSE columns
  BY DEF BeginBlock
<1>4. /\ next \in 0 .. columns - 1
      /\ \A p \in Positions : p < next => IsRounded(held[p], p)
      /\ \A p \in Positions : next <= p => Pending(held[p], p, next)
  BY <1>3 DEF BlockInv
<1>5. /\ stop' \in 1 .. columns /\ next < stop'
  BY <1>3, <1>4 DEF SetupOK
<1>6. \A p, q \in Positions : p < q => ~ (q <= p)
  BY DEF Positions, SetupOK
<1>7. ColumnInv'
  <2>1. /\ first' \in 0 .. columns' - 1 /\ stop' \in 1 .. columns' /\ first' < stop'
        /\ next' \in first' .. stop'
    BY <1>1, <1>3, <1>4, <1>5 DEF SetupOK
  <2>2. ASSUME NEW p \in Positions, p < first' PROVE IsRounded(held[p], p)'
    <3>1. IsRounded(held[p], p)
      BY <1>3, <1>4, <2>2
    <3>2. QED BY <3>1, <1>0, <1>1 DEF IsRounded, Pending
  <2>3. ASSUME NEW p \in Positions, first' <= p PROVE Pending(held[p], p, first)'
    BY <2>3, <1>0, <1>1, <1>3, <1>4 DEF Pending
  <2>4. ASSUME NEW p \in Positions, next' <= p PROVE Pending(window[p], p, next)'
    BY <2>4, <1>0, <1>1, <1>3, <1>4 DEF Pending
  <2>5. \A p \in Positions : ~ (first' <= p /\ p < next')
    BY <1>3, <1>4 DEF Positions, SetupOK
  <2>6. QED BY <1>1, <2>1, <2>2, <2>3, <2>4, <2>5 DEF ColumnInv
<1>8. QED BY <1>1, <1>2, <1>3, <1>7 DEF StartInv, BlockInv, RestoreInv, ColumnsKeepTheirGroup

LEMMA QuantizeColumnKeeps ==
  ASSUME ColumnsInv, NEW S, next + 1 .. stop - 1 \subseteq S, QuantizeColumn(S)
  PROVE  ColumnsInv'
<1> USE DEF ColumnsInv
<1>0. gptqSetup' = gptqSetup /\ held' = held
  BY DEF QuantizeColumn
<1>1. /\ columns' = columns /\ perm' = perm /\ isFactorized' = isFactorized
      /\ Positions' = Positions /\ Values' = Values /\ SetupOK'
      /\ \A p : ColumnScale(p)' = ColumnScale(p)
  BY <1>0, SetupKept
<1>2. /\ phase = "column" /\ phase' = "column" /\ next < stop
      /\ first' = first /\ stop' = stop /\ next' = next + 1
  BY DEF QuantizeColumn
<1>3. /\ first \in 0 .. columns - 1 /\ stop \in 1 .. columns /\ first < stop
      /\ next \in first .. stop
      /\ \A p \in Positions : p < first => IsRounded(held[p], p)
      /\ \A p \in Positions : first <= p => Pending(held[p], p, first)
      /\ \A p \in Positions : first <= p /\ p < next => IsRounded(rounded[p], p)
      /\ \A p \in Positions : next <= p /\ p < stop => Pending(window[p], p, next)
  BY <1>2 DEF ColumnInv
<1>4. next \in Positions /\ next \in Nat /\ next + 1 \in Nat /\ first \in Nat /\ stop \in Nat
  BY <1>2, <1>3 DEF Positions, SetupOK
<1>5. /\ rounded' = [rounded EXCEPT ![next] = [window[next] EXCEPT !.scale = ColumnScale(next)]]
      /\ window' = [p \in Positions |->
                      IF p \in S THEN Subtract(window[p], p, {next}) ELSE window[p]]
  BY DEF QuantizeColumn
<1>6. \A p \in Positions : window[p] \in Values
  BY DEF ValuesOK
<1>7. [window[next] EXCEPT !.scale = ColumnScale(next)] \in Values
  BY <1>4, <1>6, ScaleIsInt DEF Values
<1>8. ValuesOK'
  <2>1. \A p \in Positions : Subtract(window[p], p, {next}) \in Values
    BY <1>6, SubtractErrors
  <2>2. window' \in [Positions -> Values]
    BY <1>5, <1>6, <2>1
  <2>3. rounded' \in [Positions -> Values]
    BY <1>5, <1>7 DEF ValuesOK
  <2>4. QED BY <1>0, <1>1, <2>2, <2>3 DEF ValuesOK
<1>9. ASSUME NEW n \in Positions, n = next PROVE IsRounded(rounded[n], n)'
  <2> DEFINE v == [window[n] EXCEPT !.scale = ColumnScale(n)]
  <2>1. rounded'[n] = v /\ Pending(window[n], n, n)
    BY <1>2, <1>3, <1>5, <1>9 DEF ValuesOK
  <2>2. /\ v.col = window[n].col /\ v.errors = window[n].errors
        /\ v.scale = ColumnScale(n)
    BY <1>6 DEF Values
  <2> HIDE DEF v
  <2>3. Pending(v, n, n)
    BY <2>1, <2>2 DEF Pending
  <2>4. v.col = perm'[n] /\ v.scale = ColumnScale(n)'
    BY <1>1, <2>2, <2>3 DEF Pending
  <2>5. \A q \in Positions' : v.errors[q] = IF isFactorized' /\ q < n THEN 1 ELSE 0
    BY <1>1, <2>3 DEF Pending
  <2>6. QED BY <2>1, <2>4, <2>5 DEF IsRounded, Pending
<1>10. ASSUME NEW p \in Positions, first <= p, p < next' PROVE IsRounded(rounded[p], p)'
  <2>1. p \in Nat
    BY DEF Positions, SetupOK
  <2>2. CASE p = next
    BY <2>2, <1>9
  <2>3. CASE p < next
    <3>1. rounded'[p] = rounded[p] /\ IsRounded(rounded[p], p)
      BY <1>3, <1>4, <1>5, <1>10, <2>1, <2>3 DEF ValuesOK
    <3>2. QED BY <3>1, <1>1 DEF IsRounded, Pending
  <2>4. QED BY <2>1, <2>2, <2>3, <1>2, <1>4, <1>10
<1>11. ASSUME NEW p \in Positions, next' <= p, p < stop PROVE Pending(window[p], p, next)'
  <2>1. p \in Nat /\ p \in next + 1 .. stop - 1 /\ next <= p
    BY <1>2, <1>3, <1>4, <1>11 DEF Positions, SetupOK
  <2>2. window'[p] = Subtract(window[p], p, {next}) /\ Pending(window[p], p, next)
    BY <1>3, <1>5, <1>11, <2>1
  <2>3. \A q \in Positions : q \in {next} <=> next <= q /\ q < next + 1
    BY <1>4 DEF Positions, SetupOK
  <2>4. Pending(Subtract(window[p], p, {next}), p, next + 1)
    <3> DEFINE v == window[p]
    <3>1. v \in Values /\ Pending(v, p, next)
      BY <1>6, <2>2
    <3>2. next <= next + 1 /\ next + 1 <= p
      BY <1>4, <2>1
    <3> HIDE DEF v
    <3>3. Pending(Subtract(v, p, {next}), p, next + 1)
      BY <1>4, <2>3, <3>1, <3>2, SubtractPending
    <3> QED
      BY <3>3 DEF v
  <2>5. Pending(window'[p], p, next')
    BY <1>2, <2>2, <2>4
  <2>6. QED BY <1>1, <2>5 DEF Pending
<1>12. ColumnInv'
  <2>1. /\ first' \in 0 .. columns' - 1 /\ stop' \in 1 .. columns' /\ first' < stop'
        /\ next' \in first' .. stop'
    BY <1>1, <1>2, <1>3
  <2>2. \A p \in Positions : p < first' => IsRounded(held[p], p)'
    BY <1>0, <1>1, <1>2, <1>3 DEF IsRounded, Pending
  <2>3. \A p \in Positions : first' <= p => Pending(held[p], p, first)'
    BY <1>0, <1>1, <1>2, <1>3 DEF Pending
  <2>4. \A p \in Positions : first' <= p /\ p < next' => IsRounded(rounded[p], p)'
    BY <1>2, <1>10
  <2>5. \A p \in Positions : next' <= p /\ p < stop' => Pending(window[p], p, next)'
    BY <1>2, <1>11
  <2>6. QED BY <1>1, <2>1, <2>2, <2>3, <2>4, <2>5 DEF ColumnInv
<1>13. QED BY <1>1, <1>2, <1>8, <1>12 DEF StartInv, BlockInv, RestoreInv, ColumnsKeepTheirGroup

LEMMA EndBlockKeeps ==
  ASSUME ColumnsInv, EndBlock PROVE ColumnsInv'
<1> USE DEF ColumnsInv
<1>0. gptqSetup' = gptqSetup /\ window' = window /\ rounded' = rounded
  BY DEF EndBlock
<1>1. /\ columns' = columns /\ perm' = perm /\ isFactorized' = isFactorized
      /\ Positions' = Positions /\ Values' = Values /\ SetupOK'
      /\ \A p : ColumnScale(p)' = ColumnScale(p)
  BY <1>0, SetupKept
<1>2. /\ phase = "column" /\ next = stop /\ next' = next
      /\ phase' = IF next < columns THEN "block" ELSE "restore"
      /\ held' = [p \in Positions |->
           IF p < first THEN held[p]
           ELSE IF p < stop THEN rounded[p] ELSE Subtract(held[p], p, BlockErrors)]
  BY DEF EndBlock
<1>3. /\ first \in 0 .. columns - 1 /\ stop \in 1 .. columns /\ first < stop
      /\ \A p \in Positions : p < first => IsRounded(held[p], p)
      /\ \A p \in Positions : first <= p => Pending(held[p], p, first)
      /\ \A p \in Positions : first <= p /\ p < stop => IsRounded(rounded[p], p)
  BY <1>2 DEF ColumnInv
<1>4. first \in Nat /\ stop \in Nat /\ columns \in Nat /\ \A p \in Positions : p \in Nat
  BY <1>3 DEF Positions, SetupOK
<1>5. ValuesOK'
  <2>1. \A p \in Positions : Subtract(held[p], p, BlockErrors) \in Values
    BY SubtractErrors DEF ValuesOK
  <2>2. held' \in [Positions -> Values]
    BY <1>2, <2>1 DEF ValuesOK
  <2>3. QED BY <1>0, <1>1, <2>2 DEF ValuesOK
<1>6. ASSUME NEW p \in Positions, p < stop PROVE IsRounded(held[p], p)'
  <2>1. IsRounded(held'[p], p)
    BY <1>2, <1>3, <1>4, <1>6
  <2>2. QED BY <1>1, <2>1 DEF IsRounded, Pending
<1>7. ASSUME NEW p \in Positions, stop <= p PROVE Pending(held[p], p, stop) '
  <2>1. held'[p] = Subtract(held[p], p, BlockErrors) /\ Pending(held[p], p, first)
    BY <1>2, <1>3, <1>4, <1>7
  <2>2. \A q \in Positions : q \in BlockErrors <=> first <= q /\ q < stop
    BY <1>4 DEF BlockErrors
  <2>3. held[p] \in Values
    BY DEF ValuesOK
  <2>4. Pending(Subtract(held[p], p, BlockErrors), p, stop)
    BY SubtractPending, <1>3, <1>4, <1>7, <2>1, <2>2, <2>3
  <2>5. stop' = stop
    BY DEF EndBlock
  <2>6. QED BY <1>1, <2>1, <2>4, <2>5 DEF Pending
<1>8. stop' = stop
  BY DEF EndBlock
<1>9. CASE next < columns
  <2>1. BlockInv'
    <3>1. next' \in 0 .. columns' - 1
      BY <1>1, <1>2, <1>4, <1>9
    <3>2. \A p \in Positions : p < next' => IsRounded(held[p], p)'
      BY <1>2, <1>6
    <3>3. \A p \in Positions : next' <= p => Pending(held[p], p, next)'
      BY <1>2, <1>7, <1>8 DEF Pending
    <3>4. QED BY <1>1, <3>1, <3>2, <3>3 DEF BlockInv
  <2>2. QED BY <1>1, <1>2, <1>5, <1>9, <2>1 DEF StartInv, ColumnInv, RestoreInv,
               ColumnsKeepTheirGroup
<1>10. CASE ~ (next < columns)
  <2>1. \A p \in Positions : p < stop
    BY <1>2, <1>3, <1>4, <1>10 DEF Positions
  <2>2. RestoreInv'
    BY <1>1, <1>6, <2>1 DEF RestoreInv
  <2>3. QED BY <1>1, <1>2, <1>5, <1>10, <2>2 DEF StartInv, ColumnInv, BlockInv,
               ColumnsKeepTheirGroup
<1>11. QED BY <1>9, <1>10

LEMMA RestoreKeeps ==
  ASSUME ColumnsInv, Restore PROVE ColumnsInv'
<1> USE DEF ColumnsInv
<1>0. gptqSetup' = gptqSetup /\ window' = window /\ rounded' = rounded
  BY DEF Restore
<1>1. /\ columns' = columns /\ perm' = perm /\ isFactorized' = isFactorized
      /\ groupSize' = groupSize
      /\ Positions' = Positions /\ Values' = Values /\ SetupOK'
  BY <1>0, SetupKept
<1>2. /\ phase = "restore" /\ phase' = "done"
      /\ held' = [c \in Positions |-> held[CHOOSE p \in Positions : perm[p] = c]]
  BY DEF Restore
<1>3. ASSUME NEW c \in Positions
      PROVE  \E p \in Positions : perm[p] = c /\ held'[c] = held[p]
  <2>1. \E p \in Positions : perm[p] = c
    BY DEF SetupOK, IsOrder
  <2> DEFINE p == CHOOSE p \in Positions : perm[p] = c
  <2>2. p \in Positions /\ perm[p] = c
    BY <2>1
  <2>3. held'[c] = held[p]
    BY <1>2
  <2>4. QED BY <2>2, <2>3
<1>4. ValuesOK'
  <2>1. held' \in [Positions -> Values]
    BY <1>2, <1>3 DEF ValuesOK
  <2>2. QED BY <1>0, <1>1, <2>1 DEF ValuesOK
<1>5. ASSUME NEW c \in Positions
      PROVE  /\ held'[c].col = c
             /\ held'[c].scale = IF groupSize = 0 THEN 0 ELSE c \div groupSize
  <2>1. PICK p \in Positions : perm[p] = c /\ held'[c] = held[p]
    BY <1>3
  <2>2. IsRounded(held[p], p)
    BY <1>2 DEF RestoreInv
  <2>3. held[p].col = perm[p] /\ held[p].scale = ColumnScale(p)
    BY <2>2 DEF IsRounded, Pending
  <2>4. QED BY <2>1, <2>3 DEF ColumnScale, GroupIndex
<1>6. ColumnsKeepTheirGroup'
  BY <1>1, <1>5 DEF ColumnsKeepTheirGroup
<1>7. QED BY <1>1, <1>2, <1>4, <1>6 DEF StartInv, ColumnInv, BlockInv, RestoreInv

LEMMA ColumnsStep ==
  ColumnsInv /\ [GptqColumnsNext]_gptqVars => ColumnsInv'
<1> SUFFICES ASSUME ColumnsInv, [GptqColumnsNext]_gptqVars PROVE ColumnsInv'
  OBVIOUS
<1>1. CASE Permute BY <1>1, PermuteKeeps
<1>2. CASE BeginBlock BY <1>2, BeginBlockKeeps
<1>3. CASE TorchColumn
  <2>1. next + 1 .. stop - 1 \subseteq next .. stop - 1
    <3>1. phase = "column"
      BY <1>3 DEF TorchColumn, QuantizeColumn
    <3>2. first \in Int /\ stop \in Int /\ next \in Int
      BY <3>1 DEF ColumnsInv, ColumnInv, SetupOK
    <3>3. QED BY <3>2
  <2>2. QED BY <1>3, <2>1, QuantizeColumnKeeps DEF TorchColumn
<1>4. CASE FusedColumn BY <1>4, QuantizeColumnKeeps DEF FusedColumn
<1>5. CASE EndBlock BY <1>5, EndBlockKeeps
<1>6. CASE Restore BY <1>6, RestoreKeeps
<1>7. CASE UNCHANGED gptqVars
  <2>1. /\ gptqSetup' = gptqSetup /\ phase' = phase /\ next' = next /\ first' = first
        /\ stop' = stop /\ held' = held /\ window' = window /\ rounded' = rounded
    BY <1>7 DEF gptqVars
  <2>2. /\ perm' = perm /\ isFactorized' = isFactorized /\ columns' = columns
        /\ groupSize' = groupSize /\ Positions' = Positions /\ Values' = Values /\ SetupOK'
        /\ \A p : ColumnScale(p)' = ColumnScale(p)
    BY <2>1, SetupKept DEF ColumnsInv
  <2>3. ValuesOK'
    BY <2>1, <2>2 DEF ColumnsInv, ValuesOK
  <2>4. StartInv'
    BY <2>1, <2>2 DEF ColumnsInv, StartInv, Fresh
  <2>5. BlockInv'
    BY <2>1, <2>2 DEF ColumnsInv, BlockInv, IsRounded, Pending
  <2>6. ColumnInv'
    BY <2>1, <2>2 DEF ColumnsInv, ColumnInv, IsRounded, Pending
  <2>7. RestoreInv' /\ ColumnsKeepTheirGroup'
    BY <2>1, <2>2 DEF ColumnsInv, RestoreInv, ColumnsKeepTheirGroup, IsRounded, Pending
  <2>8. QED BY <2>1, <2>2, <2>3, <2>4, <2>5, <2>6, <2>7 DEF ColumnsInv
<1>8. QED BY <1>1, <1>2, <1>3, <1>4, <1>5, <1>6, <1>7 DEF GptqColumnsNext

LEMMA ColumnsInvariant ==
  GptqColumnsSpec => []ColumnsInv
<1>1. QED BY ColumnsInit, ColumnsStep, PTL DEF GptqColumnsSpec

-----------------------------------------------------------------------------
(* quantize_weight returns every column at its place, quantized with the scale of its
   group, for every width, block size, group size and activation order. *)
THEOREM GroupsAreKept ==
  GptqColumnsSpec => []ColumnsKeepTheirGroup
<1>1. ColumnsInv => ColumnsKeepTheirGroup
  BY DEF ColumnsInv
<1>2. QED BY <1>1, ColumnsInvariant, PTL

(* The copies of the blocks and the update of the rest together give every column
   the errors of all columns before it exactly once, whichever backend ran. *)
THEOREM ErrorsAreComplete ==
  GptqColumnsSpec => []ErrorsReachOnce
<1>1. ColumnsInv => ErrorsReachOnce
  <2> SUFFICES ASSUME ColumnsInv, phase = "restore", NEW p \in Positions, NEW q \in Positions
               PROVE  held[p].errors[q] = IF isFactorized /\ q < p THEN 1 ELSE 0
    BY DEF ErrorsReachOnce
  <2>1. IsRounded(held[p], p)
    BY DEF ColumnsInv, RestoreInv
  <2>2. QED BY <2>1 DEF IsRounded, Pending
<1>2. QED BY <1>1, ColumnsInvariant, PTL
-----------------------------------------------------------------------------
(* Quantizers.  A recipe is run in pipelines of consecutive modifiers; the invariant says,
   for each module, which modifiers have started, seen its epoch end, and ended. *)

Steps == DOMAIN modifiers

(* The modifiers whose pipelines are over, and those whose pipelines are not to come. *)
Over == running[1] - 1
Begun == Over + Len(running)

(* The modifiers that have started, and that have ended, their calibration. *)
Started ==
  IF nextEvent = "initialize" THEN 0
  ELSE IF nextEvent = "start" THEN Over + turn - 1 ELSE Begun
Ended ==
  IF nextEvent = "end" THEN Over + turn - 1
  ELSE IF nextEvent \in {"finalize", "done"} THEN Begun ELSE Over

(* The modifiers that have had the end of the epoch of m. *)
Past(m) ==
  IF nextEvent \in {"forward", "epoch"}
  THEN IF m \in Epochs[epoch] THEN Over + turn - 1
       ELSE IF \E k \in 1 .. epoch - 1 : m \in Epochs[k] THEN Begun ELSE Over
  ELSE IF nextEvent \in {"initialize", "start"} THEN Over ELSE Begun

Quantizes(i, m) == IsQuantizer(i) /\ m \in modifiers[i].targets
Rounds(i, m) == modifiers[i].kind = "gptq" /\ m \in modifiers[i].targets

(* i takes the scale of m when m has a weight observer. *)
Takes(i, m) == IsQuantizer(i) /\ (modifiers[i].kind = "gptq" => m \in modifiers[i].targets)

AnyQuantizes(m, a, b) == \E i \in Steps : a < i /\ i <= b /\ Quantizes(i, m)
AnyRounds(m, b) == \E i \in Steps : i <= b /\ Rounds(i, m)
AnyTakes(m, a, b) == \E i \in Steps : a < i /\ i <= b /\ Takes(i, m)
AnyGPTQ(a, b) == \E i \in Steps : a < i /\ i <= b /\ modifiers[i].kind = "gptq"

(* A modifier of this pipeline has put an observer on m, and none has frozen it. *)
IsLive(m) == AnyQuantizes(m, Over, Started) /\ ~ AnyQuantizes(m, Over, Ended)

-----------------------------------------------------------------------------

QSetupOK ==
  /\ modifiers \in QuantRecipes /\ isIndependent \in BOOLEAN
  /\ subgraphing \in Subgraphings /\ important \subseteq Configured

PlaceInv ==
  /\ nextEvent \in {"initialize", "start", "forward", "epoch", "end", "finalize", "done"}
  /\ Over \in Nat /\ Begun \in Nat /\ Over < Begun /\ Begun <= Len(modifiers)
  /\ running = [i \in 1 .. Begun - Over |-> Over + i]
  /\ waiting = [i \in 1 .. Len(modifiers) - Begun |-> Begun + i]
  /\ turn \in 1 .. Len(running)
  /\ IF isIndependent /\ nextEvent \in {"start", "forward", "epoch", "end"}
     THEN Begun = Over + 1 ELSE Over = 0 /\ Begun = Len(modifiers)
  /\ epoch \in Nat \ {0}
  /\ nextEvent \in {"forward", "epoch"} => epoch <= Len(Epochs)
  /\ nextEvent = "start" => epoch = 1
  /\ nextEvent = "forward" => PipelineNeedsData /\ turn = 1

StatusInv ==
  /\ nextEvent = "initialize" =>
       \A i \in Steps : i < turn /\ IsQuantizer(i) /\ modifiers[i].configures =>
         \A m \in modifiers[i].targets : qStatus[m] # "none"
  /\ nextEvent # "initialize" => \A m \in Configured : qStatus[m] # "none"
  /\ \A m \in QuantModules : IsLive(m) => qStatus[m] = "calibration"
  /\ \A m \in QuantModules : AnyQuantizes(m, 0, Ended) /\ ~ IsLive(m) => qStatus[m] = "frozen"

ObserverInv ==
  /\ \A m \in QuantModules :
       /\ attached[m] \in Nat
       /\ observer[m] = IF IsLive(m) THEN attached[m] ELSE 0
       /\ IsLive(m) => attached[m] # 0
  /\ \A h \in importanceHooks :
       /\ h = <<h[1], h[2]>> /\ h[1] \in important
       /\ ~ IsObservedTwice(h[1]) => IsLive(h[1]) /\ h[2] = attached[h[1]]
  /\ \A m \in important : IsLive(m) => <<m, attached[m]>> \in importanceHooks

HooksInv ==
  hooks = {h \in Steps \X QuantModules :
             /\ modifiers[h[1]].kind # "quantization" /\ h[2] \in modifiers[h[1]].targets
             /\ Ended < h[1] /\ h[1] <= Started}

HessiansInv ==
  hessians = {h \in Steps \X QuantModules :
                /\ nextEvent = "epoch" /\ h[2] \in Epochs[epoch] /\ Rounds(h[1], h[2])
                /\ Over + turn <= h[1] /\ h[1] <= Begun}

ImportanceInv ==
  /\ \A m \in QuantModules \ important : importance[m] # "deleted"
  /\ nextEvent = "epoch" =>
       \A m \in important : m \in Epochs[epoch] /\ IsLive(m) =>
         IF AnyTakes(m, Over, Past(m)) THEN importance[m] = "deleted" /\ statistics[m] = Absent
                                       ELSE importance[m] = "collected"

StatisticsInv ==
  \A m \in QuantModules : IsLive(m) =>
    /\ ~ AnyGPTQ(Over, Past(m)) => statistics[m] = Absent
    /\ ~ MayBeStale(m) => statistics[m] \in {Absent, weight[m]}

Works == {"smooth", "round"}
EndsRounded(m) == weight[m] # <<>> /\ Last(weight[m]) = "round"

WeightInv ==
  \A m \in QuantModules :
    /\ weight[m] \in Seq(Works)
    /\ EndsRounded(m) => AnyRounds(m, Past(m))

ScaleInv ==
  \A m \in QuantModules : AnyQuantizes(m, 0, Past(m)) =>
    /\ Fits(m) \/ MayBeStale(m)
    /\ m \in important => isInformed[m]

(* No two quantizers have observed the importance of m. *)
OnceInv ==
  \A m \in important : \A i, j \in Steps :
    ~ (~ isIndependent /\ i < j /\ j <= Past(m) /\ Takes(i, m) /\ IsQuantizer(j))

RunInv ==
  /\ PlaceInv /\ StatusInv /\ ObserverInv /\ HooksInv /\ HessiansInv
  /\ ImportanceInv /\ StatisticsInv /\ WeightInv /\ ScaleInv /\ OnceInv

QuantizersInv ==
  /\ QSetupOK
  /\ nextEvent = "raised" => \E m \in important : IsObservedTwice(m)
  /\ nextEvent # "raised" => RunInv

-----------------------------------------------------------------------------
(* The recipe, the epochs and the order of the events. *)

LEMMA RecipeFacts ==
  ASSUME QSetupOK
  PROVE  /\ modifiers \in Seq(QuantModifiers) /\ Len(modifiers) \in Nat \ {0}
         /\ Steps = 1 .. Len(modifiers)
         /\ \A i \in Steps :
              /\ modifiers[i].kind \in {"gptq", "quantization", "awq"}
              /\ modifiers[i].targets \subseteq QuantModules
         /\ Configured \subseteq QuantModules
         /\ \A m : m \in Configured <=> \E i \in Steps : Quantizes(i, m)
<1>1. modifiers \in Seq(QuantModifiers) /\ modifiers # <<>>
  BY QuantizersAssumption DEF QSetupOK, IsQuantRecipe
<1>2. Len(modifiers) \in Nat \ {0} /\ Steps = 1 .. Len(modifiers)
  BY <1>1 DEF Steps
<1>3. ASSUME NEW i \in Steps
      PROVE  /\ modifiers[i].kind \in {"gptq", "quantization", "awq"}
             /\ modifiers[i].targets \subseteq QuantModules
  <2>1. modifiers[i] \in QuantModifiers
    BY <1>1, <1>2
  <2> QED
    BY <2>1 DEF QuantModifiers
<1>4. \A m : m \in Configured <=> \E i \in Steps : Quantizes(i, m)
  BY DEF Configured, Quantizes, Steps
<1>5. Configured \subseteq QuantModules
  BY <1>3, <1>4 DEF Quantizes
<1> QED
  BY <1>1, <1>2, <1>3, <1>4, <1>5

(* A module is smoothed before it is quantized, and rounded by the last of its quantizers. *)
LEMMA RecipeOrder ==
  ASSUME QSetupOK, NEW i \in Steps, NEW j \in Steps, NEW m, Quantizes(i, m), i < j
  PROVE  /\ modifiers[j].kind = "awq" => m \notin modifiers[j].targets
         /\ Quantizes(j, m) => modifiers[i].kind = "quantization"
<1>1. IsQuantRecipe(modifiers)
  BY QuantizersAssumption DEF QSetupOK
<1>2. modifiers[i].kind # "awq" /\ m \in modifiers[i].targets
  BY DEF Quantizes, IsQuantizer
<1>3. modifiers[j].kind = "awq" => m \notin modifiers[j].targets
  BY <1>1, <1>2 DEF IsQuantRecipe, Steps
<1>4. Quantizes(j, m) => modifiers[i].kind = "quantization"
  BY <1>1, <1>2 DEF IsQuantRecipe, Steps, Quantizes, IsQuantizer
<1> QED
  BY <1>3, <1>4

(* Every configured module has a quantizer that gives it its scheme. *)
LEMMA ConfiguredBySome ==
  ASSUME QSetupOK, NEW m \in Configured
  PROVE  \E i \in Steps : Quantizes(i, m) /\ modifiers[i].configures
<1>1. PICK i \in Steps : Quantizes(i, m)
  BY RecipeFacts
<1>2. IsQuantRecipe(modifiers)
  BY QuantizersAssumption DEF QSetupOK
<1>3. CASE ~ modifiers[i].configures
  <2>1. PICK j \in Steps : modifiers[j].kind # "awq" /\ j < i
                           /\ modifiers[i].targets \subseteq modifiers[j].targets
    BY <1>1, <1>2, <1>3 DEF IsQuantRecipe, Steps, Quantizes, IsQuantizer
  <2>2. Quantizes(j, m) /\ m \in modifiers[i].targets \cap modifiers[j].targets
    BY <1>1, <2>1 DEF Quantizes, IsQuantizer
  <2>3. modifiers[j].kind = "quantization"
    BY <1>1, <2>1, <2>2, RecipeOrder
  <2>4. modifiers[j].configures
    BY <1>2, <2>3 DEF IsQuantRecipe, Steps
  <2> QED
    BY <2>2, <2>4
<1> QED
  BY <1>1, <1>3

(* The epochs of a run divide the modules among them. *)
LEMMA EpochFacts ==
  ASSUME QSetupOK
  PROVE  /\ Len(Epochs) \in Nat \ {0}
         /\ \A k \in 1 .. Len(Epochs) : Epochs[k] \subseteq QuantModules
         /\ \A m \in QuantModules : \E k \in 1 .. Len(Epochs) : m \in Epochs[k]
         /\ \A k, l \in 1 .. Len(Epochs) : k # l => Epochs[k] \cap Epochs[l] = {}
<1>1. /\ subgraphing \in Seq(SUBSET QuantModules) /\ UNION ToSet(subgraphing) = QuantModules
      /\ \A k, l \in DOMAIN subgraphing : k # l => subgraphing[k] \cap subgraphing[l] = {}
  BY QuantizersAssumption DEF QSetupOK
<1>2. QuantModules # {}
  <2>1. IsQuantRecipe(modifiers)
    BY QuantizersAssumption DEF QSetupOK
  <2>2. 1 \in Steps /\ modifiers[1] \in QuantModifiers
    BY RecipeFacts
  <2> QED
    BY <2>2 DEF QuantModifiers
<1>3. DOMAIN subgraphing = 1 .. Len(subgraphing) /\ Len(subgraphing) \in Nat
  BY <1>1
<1>4. \A m \in QuantModules : \E k \in 1 .. Len(subgraphing) : m \in subgraphing[k]
  BY <1>1, <1>3 DEF ToSet
<1>5. CASE PipelineNeedsData
  <2>1. Epochs = subgraphing
    BY <1>5 DEF Epochs
  <2>2. Len(subgraphing) # 0
    BY <1>2, <1>3, <1>4
  <2> QED
    BY <1>1, <1>3, <1>4, <2>1, <2>2
<1>6. CASE ~ PipelineNeedsData
  <2>1. Epochs = <<QuantModules>>
    BY <1>6 DEF Epochs
  <2> QED
    BY <2>1
<1> QED
  BY <1>5, <1>6

(* What a step that leaves the setup alone leaves alone. *)
LEMMA QSetupStays ==
  ASSUME UNCHANGED qSetup
  PROVE  /\ QSetupOK => QSetupOK'
         /\ Steps' = Steps /\ Configured' = Configured /\ modifiers' = modifiers
         /\ important' = important /\ isIndependent' = isIndependent
         /\ \A i : IsQuantizer(i)' = IsQuantizer(i) /\ NeedsData(i)' = NeedsData(i)
         /\ \A m : MayBeStale(m)' = MayBeStale(m)
         /\ \A m : IsObservedTwice(m)' = IsObservedTwice(m)
         /\ \A i, m : /\ Quantizes(i, m)' = Quantizes(i, m) /\ Rounds(i, m)' = Rounds(i, m)
                      /\ Takes(i, m)' = Takes(i, m)
<1>1. modifiers' = modifiers /\ isIndependent' = isIndependent /\ important' = important
      /\ subgraphing' = subgraphing
  BY DEF qSetup
<1>2. Steps' = Steps /\ Configured' = Configured
  BY <1>1 DEF Steps, Configured, IsQuantizer
<1>3. QSetupOK => QSetupOK'
  BY <1>1, <1>2 DEF QSetupOK
<1>4. \A i : IsQuantizer(i)' = IsQuantizer(i) /\ NeedsData(i)' = NeedsData(i)
  BY <1>1 DEF IsQuantizer, NeedsData
<1>5. \A m : MayBeStale(m)' = MayBeStale(m)
  BY <1>1 DEF MayBeStale
<1>6. \A m : IsObservedTwice(m)' = IsObservedTwice(m)
  BY <1>1 DEF IsObservedTwice, IsQuantizer
<1>7. \A i, m : /\ Quantizes(i, m)' = Quantizes(i, m) /\ Rounds(i, m)' = Rounds(i, m)
                /\ Takes(i, m)' = Takes(i, m)
  BY <1>1 DEF Quantizes, Rounds, Takes, IsQuantizer
<1> QED
  BY <1>1, <1>2, <1>3, <1>4, <1>5, <1>6, <1>7

(* The epochs are those of the pipeline. *)
LEMMA EpochsStay ==
  ASSUME UNCHANGED <<qSetup, running>>
  PROVE  PipelineNeedsData' = PipelineNeedsData /\ Epochs' = Epochs
<1>1. PipelineNeedsData' = PipelineNeedsData
  BY QSetupStays DEF PipelineNeedsData
<1>2. subgraphing' = subgraphing
  BY DEF qSetup
<1> QED
  BY <1>1, <1>2 DEF Epochs

LEMMA SeqIs ==
  ASSUME NEW S, NEW w \in Seq(S)
  PROVE  w = [i \in 1 .. Len(w) |-> w[i]]
OBVIOUS

(* The pipelines are runs of consecutive modifiers. *)
LEMMA RunFacts ==
  ASSUME NEW a \in Nat, NEW b \in Nat, a <= b, NEW s, s = [i \in 1 .. b - a |-> a + i]
  PROVE  /\ s \in Seq(Nat) /\ Len(s) = b - a /\ \A i \in 1 .. b - a : s[i] = a + i
         /\ s = <<>> <=> a = b
         /\ a < b => /\ Head(s) = a + 1 /\ s[1] = a + 1
                     /\ <<Head(s)>> = [i \in 1 .. (a + 1) - a |-> a + i]
                     /\ Tail(s) = [i \in 1 .. b - (a + 1) |-> (a + 1) + i]
<1>1. b - a \in Nat
  OBVIOUS
<1>2. s \in Seq(Nat) /\ Len(s) = b - a /\ \A i \in 1 .. b - a : s[i] = a + i
  <2>1. \A i \in 1 .. b - a : a + i \in Nat
    OBVIOUS
  <2> QED
    BY <1>1, <2>1
<1>3. s = <<>> <=> a = b
  BY <1>2
<1>4. ASSUME a < b
      PROVE  /\ Head(s) = a + 1 /\ s[1] = a + 1
             /\ <<Head(s)>> = [i \in 1 .. (a + 1) - a |-> a + i]
             /\ Tail(s) = [i \in 1 .. b - (a + 1) |-> (a + 1) + i]
  <2>1. 1 \in 1 .. b - a /\ (a + 1) - a = 1 /\ b - (a + 1) = (b - a) - 1
    BY <1>4
  <2>2. s[1] = a + 1 /\ Head(s) = a + 1
    BY <1>2, <2>1
  <2>3. <<Head(s)>> = [i \in 1 .. (a + 1) - a |-> a + i]
    BY <2>1, <2>2
  <2>4. Tail(s) = [i \in 1 .. b - (a + 1) |-> (a + 1) + i]
    <3>1. /\ Tail(s) \in Seq(Nat) /\ Len(Tail(s)) = (b - a) - 1
          /\ \A i \in 1 .. (b - a) - 1 : Tail(s)[i] = s[i + 1]
      BY <1>2, <1>3, <1>4
    <3>2. \A i \in 1 .. (b - a) - 1 : s[i + 1] = (a + 1) + i
      BY <1>1, <1>2
    <3>3. Tail(s) \in Seq(Nat)
      BY <3>1
    <3>4. Tail(s) = [i \in 1 .. Len(Tail(s)) |-> Tail(s)[i]]
      BY <3>3, SeqIs
    <3> QED
      BY <2>1, <3>1, <3>2, <3>4
  <2> QED
    BY <2>2, <2>3, <2>4
<1> QED
  BY <1>2, <1>3, <1>4

LEMMA RunEnds ==
  ASSUME NEW a \in Nat, NEW b \in Nat, a < b, NEW s, s = [i \in 1 .. b - a |-> a + i]
  PROVE  /\ Head(s) = a + 1
         /\ Tail(s) = [i \in 1 .. b - (a + 1) |-> (a + 1) + i]
<1>1. a <= b
  OBVIOUS
<1> QED
  BY <1>1, RunFacts

(* Where in the recipe the modifier is that handles the event. *)
LEMMA MeFacts ==
  ASSUME QSetupOK, PlaceInv
  PROVE  /\ Me = Over + turn /\ Me \in Steps /\ Me <= Begun /\ Over < Me
         /\ Len(running) = Begun - Over /\ Over < Begun /\ Over \in Nat /\ Begun \in Nat
         /\ turn \in Nat \ {0} /\ turn <= Begun - Over
<1>1. /\ Over \in Nat /\ Begun \in Nat /\ Over < Begun /\ Begun <= Len(modifiers)
      /\ running = [i \in 1 .. Begun - Over |-> Over + i] /\ turn \in 1 .. Len(running)
  BY DEF PlaceInv
<1>2. Len(running) = Begun - Over
  BY <1>1, RunFacts
<1>3. turn \in 1 .. Begun - Over
  BY <1>1, <1>2
<1>4. Me = Over + turn
  BY <1>1, <1>3 DEF Me
<1>5. Steps = 1 .. Len(modifiers) /\ Len(modifiers) \in Nat
  BY RecipeFacts
<1> QED
  BY <1>1, <1>2, <1>3, <1>4, <1>5

-----------------------------------------------------------------------------
(* A step inside a pipeline, and one to another pipeline. *)
LEMMA OverStays ==
  ASSUME UNCHANGED running
  PROVE  Over' = Over /\ Begun' = Begun
<1>1. Over' = Over
  BY DEF Over
<1> QED
  BY <1>1 DEF Begun

LEMMA RunIs ==
  ASSUME NEW a \in Nat, NEW b \in Nat, a < b, running' = [i \in 1 .. b - a |-> a + i]
  PROVE  Over' = a /\ Begun' = b
<1>1. running'[1] = a + 1 /\ Len(running') = b - a
  BY RunFacts
<1>2. Over' = a
  BY <1>1 DEF Over
<1> QED
  BY <1>1, <1>2 DEF Begun

(* The event goes to the next modifier of the pipeline. *)
LEMMA NextTurn ==
  ASSUME QSetupOK, PlaceInv, UNCHANGED <<qSetup, nextEvent, running, waiting, epoch>>,
         turn' = turn + 1, turn < Len(running), nextEvent # "forward"
  PROVE  PlaceInv'
<1>1. /\ Over' = Over /\ Begun' = Begun /\ Epochs' = Epochs /\ running' = running
      /\ waiting' = waiting /\ nextEvent' = nextEvent /\ epoch' = epoch
      /\ modifiers' = modifiers /\ isIndependent' = isIndependent
  BY OverStays, EpochsStay, QSetupStays
<1>2. turn' \in 1 .. Len(running)
  BY MeFacts
<1> QED
  BY <1>1, <1>2 DEF PlaceInv

(* Each event leads to a place in the recipe, and to which one. *)
LEMMA InitializePlace ==
  ASSUME QSetupOK, PlaceInv, nextEvent = "initialize", UNCHANGED qSetup,
         HandledThen(FirstPipeline)
  PROVE  /\ PlaceInv' /\ Over' = 0 /\ Me = turn
         /\ \/ nextEvent' = "initialize" /\ turn' = turn + 1
            \/ nextEvent' = "start" /\ turn' = 1 /\ turn = Len(modifiers)
<1>1. /\ Over = 0 /\ Begun = Len(modifiers) /\ waiting = [i \in 1 .. 0 |-> Begun + i]
      /\ running = [i \in 1 .. Len(modifiers) |-> i] /\ Len(running) = Len(modifiers)
      /\ Me = turn /\ turn \in 1 .. Len(running)
  BY RecipeFacts, MeFacts DEF PlaceInv
<1>2. modifiers' = modifiers /\ isIndependent' = isIndependent
  BY QSetupStays
<1>3. Len(modifiers) \in Nat \ {0}
  BY RecipeFacts
<1>4. CASE turn < Len(running)
  <2>1. turn' = turn + 1 /\ UNCHANGED <<nextEvent, running, waiting, epoch>>
    BY <1>4 DEF HandledThen
  <2>2. PlaceInv'
    BY <1>4, <2>1, NextTurn
  <2>3. Over' = Over
    BY <2>1, OverStays
  <2> QED
    BY <1>1, <2>1, <2>2, <2>3
<1>5. CASE ~ turn < Len(running)
  <2>1. turn' = 1 /\ FirstPipeline /\ turn = Len(modifiers)
    BY <1>1, <1>3, <1>5 DEF HandledThen
  <2>2. nextEvent' = "start" /\ epoch' = 1
    BY <2>1 DEF FirstPipeline
  <2>3. CASE isIndependent
    <3>1. running' = <<Head(running)>> /\ waiting' = Tail(running)
      BY <2>1, <2>3 DEF FirstPipeline
    <3>2. running = [i \in 1 .. Len(modifiers) - 0 |-> 0 + i]
      BY <1>1, <1>3 DEF PlaceInv
    <3>3. /\ running' = [i \in 1 .. (0 + 1) - 0 |-> 0 + i]
          /\ waiting' = [i \in 1 .. Len(modifiers) - (0 + 1) |-> (0 + 1) + i]
      BY <1>3, <3>1, <3>2, RunFacts
    <3>4. /\ running' = [i \in 1 .. 1 - 0 |-> 0 + i]
          /\ waiting' = [i \in 1 .. Len(modifiers) - 1 |-> 1 + i]
      BY <3>3
    <3>5. Over' = 0 /\ Begun' = 1 /\ Len(running') = 1
      BY <3>4, RunIs, RunFacts
    <3> QED
      BY <1>1, <1>2, <1>3, <2>1, <2>2, <2>3, <3>4, <3>5 DEF PlaceInv
  <2>4. CASE ~ isIndependent
    <3>1. running' = running /\ waiting' = waiting
      BY <2>1, <2>4 DEF FirstPipeline
    <3>2. Over' = Over /\ Begun' = Begun
      BY <3>1, OverStays
    <3> QED
      BY <1>1, <1>2, <1>3, <2>1, <2>2, <2>4, <3>1, <3>2 DEF PlaceInv
  <2> QED
    BY <2>3, <2>4
<1> QED
  BY <1>4, <1>5

LEMMA StartPlace ==
  ASSUME QSetupOK, PlaceInv, nextEvent = "start", UNCHANGED qSetup, HandledThen(FirstEpoch)
  PROVE  /\ PlaceInv' /\ running' = running /\ Over' = Over /\ Begun' = Begun
         /\ Epochs' = Epochs /\ epoch' = 1 /\ epoch = 1
         /\ \/ nextEvent' = "start" /\ turn' = turn + 1
            \/ /\ turn' = 1 /\ Over + turn = Begun
               /\ nextEvent' = IF PipelineNeedsData THEN "forward" ELSE "epoch"
<1>1. epoch = 1 /\ turn \in Nat \ {0} /\ turn <= Len(running) /\ Len(running) = Begun - Over
      /\ Over \in Nat /\ Begun \in Nat /\ Over < Begun
  BY MeFacts DEF PlaceInv
<1>2. running' = running /\ waiting' = waiting /\ epoch' = epoch
  BY DEF HandledThen, FirstEpoch
<1>3. /\ Over' = Over /\ Begun' = Begun /\ Epochs' = Epochs
      /\ PipelineNeedsData' = PipelineNeedsData
      /\ modifiers' = modifiers /\ isIndependent' = isIndependent
  BY <1>2, OverStays, EpochsStay, QSetupStays
<1>4. CASE turn < Len(running)
  <2>1. turn' = turn + 1 /\ nextEvent' = nextEvent
    BY <1>4 DEF HandledThen
  <2>2. PlaceInv'
    BY <1>2, <1>4, <2>1, NextTurn
  <2> QED
    BY <1>1, <1>2, <1>3, <2>1, <2>2
<1>5. CASE ~ turn < Len(running)
  <2>1. turn' = 1 /\ FirstEpoch
    BY <1>5 DEF HandledThen
  <2>2. Over + turn = Begun
    BY <1>1, <1>5
  <2>3. nextEvent' = IF PipelineNeedsData THEN "forward" ELSE "epoch"
    BY <2>1 DEF FirstEpoch
  <2>4. Len(Epochs) \in Nat \ {0}
    BY EpochFacts
  <2>5. turn' \in 1 .. Len(running')
    BY <1>1, <1>2, <2>1
  <2>6. PlaceInv'
    BY <1>1, <1>2, <1>3, <2>3, <2>4, <2>1, <2>5 DEF PlaceInv
  <2> QED
    BY <1>1, <1>2, <1>3, <2>1, <2>2, <2>3, <2>6
<1> QED
  BY <1>4, <1>5

LEMMA ForwardPlace ==
  ASSUME QSetupOK, PlaceInv, nextEvent = "forward", nextEvent' = "epoch",
         UNCHANGED <<qSetup, running, waiting, turn, epoch>>
  PROVE  PlaceInv' /\ Over' = Over /\ Begun' = Begun /\ Epochs' = Epochs /\ turn = 1
<1>1. /\ Over' = Over /\ Begun' = Begun /\ Epochs' = Epochs
      /\ modifiers' = modifiers /\ isIndependent' = isIndependent
  BY OverStays, EpochsStay, QSetupStays
<1> QED
  BY <1>1 DEF PlaceInv

LEMMA EpochPlace ==
  ASSUME QSetupOK, PlaceInv, nextEvent = "epoch", UNCHANGED qSetup, HandledThen(NextEpoch)
  PROVE  /\ PlaceInv' /\ Over' = Over /\ Begun' = Begun /\ Epochs' = Epochs
         /\ \/ nextEvent' = "epoch" /\ turn' = turn + 1 /\ epoch' = epoch
            \/ /\ nextEvent' = "forward" /\ turn' = 1 /\ epoch' = epoch + 1
               /\ Over + turn = Begun
            \/ /\ nextEvent' = "end" /\ turn' = 1 /\ epoch = Len(Epochs) /\ Over + turn = Begun
<1>1. turn \in Nat \ {0} /\ turn <= Len(running) /\ Len(running) = Begun - Over
      /\ Over \in Nat /\ Begun \in Nat /\ Over < Begun /\ epoch \in Nat \ {0}
      /\ epoch <= Len(Epochs)
  BY MeFacts DEF PlaceInv
<1>2. running' = running /\ waiting' = waiting
  BY DEF HandledThen, NextEpoch
<1>3. /\ Over' = Over /\ Begun' = Begun /\ Epochs' = Epochs
      /\ PipelineNeedsData' = PipelineNeedsData
      /\ modifiers' = modifiers /\ isIndependent' = isIndependent
  BY <1>2, OverStays, EpochsStay, QSetupStays
<1>4. CASE turn < Len(running)
  <2>1. turn' = turn + 1 /\ nextEvent' = nextEvent /\ epoch' = epoch
    BY <1>4 DEF HandledThen
  <2>2. PlaceInv'
    BY <1>2, <1>4, <2>1, NextTurn
  <2> QED
    BY <1>1, <1>2, <1>3, <2>1, <2>2
<1>5. CASE ~ turn < Len(running)
  <2>1. turn' = 1 /\ NextEpoch
    BY <1>5 DEF HandledThen
  <2>2. Over + turn = Begun
    BY <1>1, <1>5
  <2>3. Len(Epochs) \in Nat \ {0}
    BY EpochFacts
  <2>4. turn' \in 1 .. Len(running')
    BY <1>1, <1>2, <2>1
  <2>5. CASE epoch < Len(Epochs)
    <3>1. nextEvent' = "forward" /\ epoch' = epoch + 1
      BY <2>1, <2>5 DEF NextEpoch
    <3>2. PipelineNeedsData
      <4>1. CASE ~ PipelineNeedsData
        <5>1. Epochs = <<QuantModules>>
          BY <4>1 DEF Epochs
        <5>2. Len(Epochs) = 1
          BY <5>1
        <5> QED
          BY <1>1, <2>5, <5>2
      <4> QED
        BY <4>1
    <3>3. epoch' \in Nat \ {0} /\ epoch' <= Len(Epochs)
      BY <1>1, <2>3, <2>5, <3>1
    <3>4. PlaceInv'
      BY <1>2, <1>3, <2>1, <2>4, <3>1, <3>2, <3>3 DEF PlaceInv
    <3> QED
      BY <1>3, <2>1, <2>2, <3>1, <3>4
  <2>6. CASE ~ epoch < Len(Epochs)
    <3>1. nextEvent' = "end" /\ epoch' = epoch /\ epoch = Len(Epochs)
      BY <1>1, <2>1, <2>3, <2>6 DEF NextEpoch
    <3>2. PlaceInv'
      BY <1>1, <1>2, <1>3, <2>1, <2>4, <3>1 DEF PlaceInv
    <3> QED
      BY <1>3, <2>1, <2>2, <3>1, <3>2
  <2> QED
    BY <2>5, <2>6
<1> QED
  BY <1>4, <1>5

(* The last pipeline has none after it. *)
LEMMA EmptyRun ==
  ASSUME NEW a \in Nat, NEW b \in Nat, a <= b
  PROVE  [i \in 1 .. b - a |-> a + i] = <<>> <=> a = b
<1> DEFINE s == [i \in 1 .. b - a |-> a + i]
<1>1. s = s
  OBVIOUS
<1> HIDE DEF s
<1>2. s = <<>> <=> a = b
  BY RunFacts DEF s
<1> QED
  BY <1>2 DEF s

LEMMA EndPlace ==
  ASSUME QSetupOK, PlaceInv, nextEvent = "end", UNCHANGED qSetup, HandledThen(NextPipeline)
  PROVE  /\ PlaceInv'
         /\ \/ nextEvent' = "end" /\ turn' = turn + 1 /\ Over' = Over /\ Begun' = Begun
            \/ /\ nextEvent' = "start" /\ turn' = 1 /\ Over' = Begun /\ Over + turn = Begun
               /\ isIndependent
            \/ /\ nextEvent' = "finalize" /\ turn' = 1 /\ Over' = 0
               /\ Begun' = Len(modifiers) /\ Begun = Len(modifiers) /\ Over + turn = Begun
<1>1. turn \in Nat \ {0} /\ turn <= Len(running) /\ Len(running) = Begun - Over
      /\ Over \in Nat /\ Begun \in Nat /\ Over < Begun /\ epoch \in Nat \ {0}
      /\ Begun <= Len(modifiers)
  BY MeFacts DEF PlaceInv
<1>0. Begun \in Nat /\ Begun <= Len(modifiers) /\ Len(modifiers) \in Nat
  BY MeFacts, RecipeFacts DEF PlaceInv
<1>2. modifiers' = modifiers /\ isIndependent' = isIndependent /\ Len(modifiers) \in Nat \ {0}
  BY RecipeFacts, QSetupStays
<1>3. CASE turn < Len(running)
  <2>1. turn' = turn + 1 /\ UNCHANGED <<nextEvent, running, waiting, epoch>>
    BY <1>3 DEF HandledThen
  <2>2. PlaceInv'
    BY <1>3, <2>1, NextTurn
  <2>3. Over' = Over /\ Begun' = Begun
    BY <2>1, OverStays
  <2> QED
    BY <2>1, <2>2, <2>3
<1>4. CASE ~ turn < Len(running)
  <2>1. turn' = 1 /\ NextPipeline
    BY <1>4 DEF HandledThen
  <2>2. Over + turn = Begun
    BY <1>1, <1>4
  <2>3. waiting = [i \in 1 .. Len(modifiers) - Begun |-> Begun + i]
    BY DEF PlaceInv
  <2>4. waiting = <<>> <=> Begun = Len(modifiers)
    BY <1>0, <2>3, EmptyRun
  <2>5. CASE waiting = <<>>
    <3>1. /\ nextEvent' = "finalize" /\ running' = [i \in DOMAIN modifiers |-> i]
          /\ waiting' = waiting /\ epoch' = epoch
      BY <2>1, <2>5 DEF NextPipeline
    <3>2. running' = [i \in 1 .. Len(modifiers) - 0 |-> 0 + i]
      <4>1. DOMAIN modifiers = 1 .. Len(modifiers) - 0
        BY <1>2, RecipeFacts DEF Steps
      <4> QED
        BY <3>1, <4>1
    <3>3. Over' = 0 /\ Begun' = Len(modifiers) /\ Len(running') = Len(modifiers)
      BY <1>2, <3>2, RunIs, RunFacts
    <3>4. waiting' = [i \in 1 .. Len(modifiers) - Begun' |-> Begun' + i]
      BY <2>3, <2>4, <2>5, <3>1, <3>3
    <3>5. PlaceInv'
      BY <1>1, <1>2, <2>1, <3>1, <3>2, <3>3, <3>4 DEF PlaceInv
    <3> QED
      BY <2>1, <2>2, <2>4, <2>5, <3>1, <3>3, <3>5
  <2>6. CASE waiting # <<>>
    <3>1. /\ nextEvent' = "start" /\ epoch' = 1
          /\ running' = <<Head(waiting)>> /\ waiting' = Tail(waiting)
      BY <2>1, <2>6 DEF NextPipeline
    <3>2. Begun < Len(modifiers)
      BY <1>1, <1>2, <2>4, <2>6
    <3>3. /\ running' = [i \in 1 .. (Begun + 1) - Begun |-> Begun + i]
          /\ waiting' = [i \in 1 .. Len(modifiers) - (Begun + 1) |-> (Begun + 1) + i]
      <4>1. <<Begun + 1>> = [i \in 1 .. (Begun + 1) - Begun |-> Begun + i]
        BY <1>0
      <4>2. /\ Head(waiting) = Begun + 1
            /\ Tail(waiting) = [i \in 1 .. Len(modifiers) - (Begun + 1) |-> (Begun + 1) + i]
        BY <1>0, <2>3, <3>2, RunEnds
      <4> QED
        BY <3>1, <4>1, <4>2
    <3>4. Begun + 1 \in Nat /\ Begun < Begun + 1 /\ Begun + 1 <= Len(modifiers)
      BY <1>1, <1>2, <3>2
    <3>5. Over' = Begun /\ Begun' = Begun + 1
      BY <1>1, <3>3, <3>4, RunIs
    <3>6. Len(running') = 1
      <4>1. Len(running') = (Begun + 1) - Begun
        BY <1>1, <3>3, <3>4, RunFacts
      <4> QED
        BY <1>1, <4>1
    <3>7. isIndependent
      BY <3>2 DEF PlaceInv
    <3>8. /\ running' = [i \in 1 .. Begun' - Over' |-> Over' + i]
          /\ waiting' = [i \in 1 .. Len(modifiers) - Begun' |-> Begun' + i]
      BY <3>3, <3>5
    <3>9. PlaceInv'
      <4>1. Over' \in Nat /\ Begun' \in Nat /\ Over' < Begun' /\ Begun' <= Len(modifiers')
        BY <1>0, <1>2, <3>4, <3>5
      <4>2. turn' \in 1 .. Len(running') /\ epoch' \in Nat \ {0} /\ Begun' = Over' + 1
        BY <2>1, <3>1, <3>5, <3>6
      <4> QED
        BY <1>2, <3>1, <3>7, <3>8, <4>1, <4>2 DEF PlaceInv
    <3> QED
      BY <2>1, <2>2, <3>1, <3>5, <3>7, <3>9
  <2> QED
    BY <2>5, <2>6
<1> QED
  BY <1>3, <1>4

LEMMA FinalizePlace ==
  ASSUME QSetupOK, PlaceInv, nextEvent = "finalize", UNCHANGED qSetup,
         HandledThen(nextEvent' = "done" /\ UNCHANGED <<running, waiting, epoch>>)
  PROVE  /\ PlaceInv' /\ Over' = Over /\ Begun' = Begun /\ nextEvent' \in {"finalize", "done"}
         /\ Over = 0 /\ Begun = Len(modifiers)
<1>1. running' = running /\ waiting' = waiting /\ epoch' = epoch
  BY DEF HandledThen
<1>2. /\ Over' = Over /\ Begun' = Begun /\ Epochs' = Epochs
      /\ modifiers' = modifiers /\ isIndependent' = isIndependent
  BY <1>1, OverStays, EpochsStay, QSetupStays
<1>3. /\ nextEvent' \in {"finalize", "done"} /\ turn' \in 1 .. Len(running')
  BY <1>1, MeFacts DEF HandledThen
<1>4. Over = 0 /\ Begun = Len(modifiers)
  BY DEF PlaceInv
<1> QED
  BY <1>1, <1>2, <1>3, <1>4 DEF PlaceInv

-----------------------------------------------------------------------------
(* What is live after a step. *)
LEMMA LiveNext ==
  ASSUME UNCHANGED qSetup, NEW m
  PROVE  IsLive(m)' <=> /\ \E i \in Steps : Over' < i /\ i <= Started' /\ Quantizes(i, m)
                        /\ ~ \E i \in Steps : Over' < i /\ i <= Ended' /\ Quantizes(i, m)
BY QSetupStays DEF IsLive, AnyQuantizes

LEMMA SameLive ==
  ASSUME UNCHANGED qSetup, NEW m, Over' = Over, Started' = Started, Ended' = Ended
  PROVE  IsLive(m)' <=> IsLive(m)
BY LiveNext DEF IsLive, AnyQuantizes

(* Modifiers are counted from one. *)
LEMMA StepNumbers ==
  ASSUME QSetupOK
  PROVE  \A i \in Steps : i \in Nat \ {0} /\ i <= Len(modifiers)
BY RecipeFacts

(* What each event changes of the modifiers that started, ended and saw an epoch end. *)
LEMMA InitializeProgress ==
  ASSUME QSetupOK, PlaceInv, nextEvent = "initialize", UNCHANGED qSetup,
         HandledThen(FirstPipeline)
  PROVE  /\ Over = 0 /\ Ended = 0 /\ Ended' = 0 /\ Started = 0 /\ Started' = 0
         /\ \A m : Past(m) = 0 /\ Past(m)' = 0 /\ ~ IsLive(m) /\ ~ IsLive(m)'
<1>1. Over = 0
  BY DEF PlaceInv
<1>2. Over' = 0 /\ (nextEvent' = "initialize" \/ (nextEvent' = "start" /\ turn' = 1))
  BY InitializePlace
<1>3. Ended = 0 /\ Started = 0 /\ Ended' = 0 /\ Started' = 0
  BY <1>1, <1>2 DEF Started, Ended
<1>4. ASSUME NEW m PROVE Past(m) = 0 /\ Past(m)' = 0
  BY <1>1, <1>2 DEF Past
<1>5. ASSUME NEW m PROVE ~ IsLive(m) /\ ~ IsLive(m)'
  BY <1>1, <1>2, <1>3, LiveNext, StepNumbers DEF IsLive, AnyQuantizes
<1> QED
  BY <1>1, <1>3, <1>4, <1>5

LEMMA StartProgress ==
  ASSUME QSetupOK, PlaceInv, nextEvent = "start", UNCHANGED qSetup, HandledThen(FirstEpoch)
  PROVE  /\ Ended = Over /\ Ended' = Over /\ Started = Me - 1 /\ Started' = Me
         /\ \A m : Past(m) = Over /\ Past(m)' = Over
         /\ \A m : IsLive(m) <=> \E i \in Steps : Over < i /\ i < Me /\ Quantizes(i, m)
         /\ \A m : IsLive(m)' <=> \E i \in Steps : Over < i /\ i <= Me /\ Quantizes(i, m)
<1>1. Me = Over + turn /\ Over \in Nat /\ turn \in Nat /\ Me \in Nat
  BY MeFacts
<1>2. /\ Over' = Over /\ Begun' = Begun /\ epoch' = 1
      /\ \/ nextEvent' = "start" /\ turn' = turn + 1
         \/ nextEvent' \in {"forward", "epoch"} /\ turn' = 1 /\ Over + turn = Begun
  BY StartPlace
<1>3. Ended = Over /\ Ended' = Over
  BY <1>2 DEF Ended
<1>4. Started = Me - 1 /\ Started' = Me
  BY <1>1, <1>2 DEF Started
<1>5. ASSUME NEW m PROVE Past(m) = Over /\ Past(m)' = Over
  <2>1. Past(m) = Over
    BY DEF Past
  <2>2. CASE nextEvent' = "start"
    BY <1>2, <2>2 DEF Past
  <2>3. CASE nextEvent' \in {"forward", "epoch"} /\ turn' = 1
    <3>1. Over + turn' - 1 = Over
      BY <1>1, <2>3
    <3>2. ~ \E k \in 1 .. epoch' - 1 : m \in Epochs'[k]
      BY <1>2
    <3> QED
      BY <1>2, <2>1, <2>3, <3>1, <3>2 DEF Past
  <2> QED
    BY <1>2, <2>1, <2>2, <2>3
<1>6. ASSUME NEW m
      PROVE  /\ IsLive(m) <=> \E i \in Steps : Over < i /\ i < Me /\ Quantizes(i, m)
             /\ IsLive(m)' <=> \E i \in Steps : Over < i /\ i <= Me /\ Quantizes(i, m)
  <2>1. \A i \in Steps : ~ (Over < i /\ i <= Over) /\ (i <= Me - 1 <=> i < Me)
    BY <1>1, StepNumbers
  <2>2. IsLive(m) <=> \E i \in Steps : Over < i /\ i < Me /\ Quantizes(i, m)
    BY <1>3, <1>4, <2>1 DEF IsLive, AnyQuantizes
  <2>3. IsLive(m)' <=> \E i \in Steps : Over < i /\ i <= Me /\ Quantizes(i, m)
    BY <1>2, <1>3, <1>4, <2>1, LiveNext
  <2> QED
    BY <2>2, <2>3
<1> QED
  BY <1>3, <1>4, <1>5, <1>6

LEMMA ForwardProgress ==
  ASSUME QSetupOK, PlaceInv, nextEvent = "forward", nextEvent' = "epoch",
         UNCHANGED <<qSetup, running, waiting, turn, epoch>>
  PROVE  /\ Ended' = Ended /\ Started' = Started
         /\ \A m : /\ Past(m)' = Past(m) /\ (IsLive(m)' <=> IsLive(m))
                   /\ m \in Epochs[epoch] => Past(m) = Over
<1>1. Over' = Over /\ Begun' = Begun /\ Epochs' = Epochs /\ turn = 1 /\ Over \in Nat
  BY ForwardPlace, MeFacts
<1>2. Ended' = Ended /\ Started' = Started
  BY <1>1 DEF Ended, Started
<1>3. ASSUME NEW m PROVE Past(m)' = Past(m) /\ (m \in Epochs[epoch] => Past(m) = Over)
  BY <1>1 DEF Past
<1>4. ASSUME NEW m PROVE IsLive(m)' <=> IsLive(m)
  BY <1>1, <1>2, SameLive
<1> QED
  BY <1>2, <1>3, <1>4

LEMMA EpochProgress ==
  ASSUME QSetupOK, PlaceInv, nextEvent = "epoch", UNCHANGED qSetup, HandledThen(NextEpoch)
  PROVE  /\ Ended' = Ended /\ Started' = Started
         /\ \A m : IsLive(m)' <=> IsLive(m)
         /\ \A m \in QuantModules :
              Past(m)' = IF m \in Epochs[epoch] THEN Me ELSE Past(m)
<1>1. /\ Over' = Over /\ Begun' = Begun /\ Epochs' = Epochs
      /\ \/ nextEvent' = "epoch" /\ turn' = turn + 1 /\ epoch' = epoch
         \/ /\ nextEvent' = "forward" /\ turn' = 1 /\ epoch' = epoch + 1
            /\ Over + turn = Begun
         \/ /\ nextEvent' = "end" /\ turn' = 1 /\ epoch = Len(Epochs) /\ Over + turn = Begun
  BY EpochPlace
<1>2. /\ Me = Over + turn /\ Over \in Nat /\ turn \in Nat /\ Begun \in Nat
      /\ epoch \in 1 .. Len(Epochs) /\ epoch \in Nat \ {0} /\ Len(Epochs) \in Nat
  BY MeFacts, EpochFacts DEF PlaceInv
<1>3. Ended' = Ended /\ Started' = Started
  BY <1>1, <1>2 DEF Ended, Started
<1>4. ASSUME NEW m PROVE IsLive(m)' <=> IsLive(m)
  BY <1>1, <1>3, SameLive
<1>5. ASSUME NEW m \in QuantModules
      PROVE  Past(m)' = IF m \in Epochs[epoch] THEN Me ELSE Past(m)
  <2>1. CASE nextEvent' = "epoch" /\ turn' = turn + 1 /\ epoch' = epoch
    <3>1. Over + (turn + 1) - 1 = Me
      BY <1>2
    <3> QED
      BY <1>1, <2>1, <3>1 DEF Past
  <2>2. CASE /\ nextEvent' = "forward" /\ turn' = 1 /\ epoch' = epoch + 1
             /\ Over + turn = Begun
    <3>1. Over + 1 - 1 = Over /\ Me = Begun /\ 1 .. epoch' - 1 = 1 .. epoch
      BY <1>2, <2>2
    <3>2. epoch' \in 1 .. Len(Epochs)
      <4>1. PlaceInv'
        BY EpochPlace
      <4>2. epoch' \in Nat \ {0} /\ epoch' <= Len(Epochs')
        BY <2>2, <4>1 DEF PlaceInv
      <4> QED
        BY <1>1, <1>2, <4>2
    <3>3. \A k \in 1 .. epoch : k \in 1 .. Len(Epochs) /\ k # epoch'
      BY <1>2, <2>2
    <3>4. m \in Epochs[epoch'] => ~ \E k \in 1 .. epoch : m \in Epochs[k]
      BY <3>2, <3>3, EpochFacts
    <3>5. (\E k \in 1 .. epoch : m \in Epochs[k])
            <=> (m \in Epochs[epoch] \/ \E k \in 1 .. epoch - 1 : m \in Epochs[k])
      BY <1>2
    <3>6. Past(m)' = IF m \in Epochs[epoch'] THEN Over
                     ELSE IF \E k \in 1 .. epoch : m \in Epochs[k] THEN Begun ELSE Over
      BY <1>1, <2>2, <3>1 DEF Past
    <3>7. Past(m) = IF m \in Epochs[epoch] THEN Over + turn - 1
                    ELSE IF \E k \in 1 .. epoch - 1 : m \in Epochs[k] THEN Begun ELSE Over
      BY DEF Past
    <3> QED
      BY <3>1, <3>4, <3>5, <3>6, <3>7
  <2>3. CASE /\ nextEvent' = "end" /\ epoch = Len(Epochs) /\ Over + turn = Begun
    <3>1. m \in Epochs[epoch] \/ \E k \in 1 .. epoch - 1 : m \in Epochs[k]
      <4>1. PICK k \in 1 .. Len(Epochs) : m \in Epochs[k]
        BY EpochFacts
      <4>2. k = epoch \/ k \in 1 .. epoch - 1
        BY <1>2, <2>3
      <4> QED
        BY <4>1, <4>2
    <3>2. Past(m)' = Begun
      BY <1>1, <2>3 DEF Past
    <3>3. Me = Begun
      BY <1>2, <2>3
    <3> QED
      BY <3>1, <3>2, <3>3 DEF Past
  <2> QED
    BY <1>1, <2>1, <2>2, <2>3
<1> QED
  BY <1>3, <1>4, <1>5

LEMMA EndProgress ==
  ASSUME QSetupOK, PlaceInv, nextEvent = "end", UNCHANGED qSetup, HandledThen(NextPipeline)
  PROVE  /\ Ended = Me - 1 /\ Ended' = Me /\ Started = Begun /\ Started' = Begun
         /\ \A m : Past(m)' = Past(m)
         /\ \A m : IsLive(m)' <=> IsLive(m) /\ ~ Quantizes(Me, m)
         /\ \A m : IsLive(m)' => Over' = Over
<1>1. \/ nextEvent' = "end" /\ turn' = turn + 1 /\ Over' = Over /\ Begun' = Begun
      \/ nextEvent' = "start" /\ turn' = 1 /\ Over' = Begun /\ Over + turn = Begun
      \/ /\ nextEvent' = "finalize" /\ turn' = 1 /\ Over' = 0
         /\ Begun' = Len(modifiers) /\ Begun = Len(modifiers) /\ Over + turn = Begun
  BY EndPlace
<1>2. /\ Me = Over + turn /\ Over \in Nat /\ turn \in Nat /\ Begun \in Nat /\ Me \in Steps
      /\ Over < Me /\ Me <= Begun
  BY MeFacts
<1>3. Ended = Me - 1 /\ Started = Begun
  BY <1>2 DEF Ended, Started
<1>4. Ended' = Me
  BY <1>1, <1>2 DEF Ended
<1>5. Started' = Begun
  BY <1>1, <1>2 DEF Started
<1>6. ASSUME NEW m PROVE Past(m)' = Past(m)
  BY <1>1, <1>2 DEF Past
<1>7. ASSUME NEW m
      PROVE  /\ IsLive(m)' <=> IsLive(m) /\ ~ Quantizes(Me, m)
             /\ IsLive(m)' => Over' = Over
  <2>1. IsLive(m) <=> /\ \E i \in Steps : Over < i /\ i <= Begun /\ Quantizes(i, m)
                      /\ ~ \E i \in Steps : Over < i /\ i <= Me - 1 /\ Quantizes(i, m)
    BY <1>3 DEF IsLive, AnyQuantizes
  <2>2. IsLive(m)' <=> /\ \E i \in Steps : Over' < i /\ i <= Begun /\ Quantizes(i, m)
                       /\ ~ \E i \in Steps : Over' < i /\ i <= Me /\ Quantizes(i, m)
    BY <1>4, <1>5, LiveNext
  <2>3. \A i \in Steps : i \in Nat \ {0} /\ i <= Len(modifiers)
    BY StepNumbers
  <2>4. CASE Over' = Over
    <3>1. \A i \in Steps : Over < i /\ i <= Me <=> (Over < i /\ i <= Me - 1) \/ i = Me
      BY <1>2, <2>3
    <3>2. (\E i \in Steps : Over < i /\ i <= Me /\ Quantizes(i, m))
            <=> (\E i \in Steps : Over < i /\ i <= Me - 1 /\ Quantizes(i, m)) \/ Quantizes(Me, m)
      BY <1>2, <3>1
    <3> QED
      BY <2>1, <2>2, <2>4, <3>2
  <2>5. CASE Me = Begun /\ (Over' = Begun \/ Over' = 0)
    <3>1. ~ IsLive(m)'
      BY <1>2, <2>2, <2>3, <2>5
    <3>2. \A i \in Steps : Over < i /\ i <= Begun => i = Me \/ i <= Me - 1
      BY <1>2, <2>3, <2>5
    <3>3. IsLive(m) => Quantizes(Me, m)
      BY <2>1, <3>2
    <3> QED
      BY <3>1, <3>3
  <2> QED
    BY <1>1, <1>2, <2>4, <2>5
<1> QED
  BY <1>3, <1>4, <1>5, <1>6, <1>7

LEMMA FinalizeProgress ==
  ASSUME QSetupOK, PlaceInv, nextEvent = "finalize", UNCHANGED qSetup,
         HandledThen(nextEvent' = "done" /\ UNCHANGED <<running, waiting, epoch>>)
  PROVE  /\ Ended' = Ended /\ Started' = Started
         /\ \A m : Past(m)' = Past(m) /\ (IsLive(m)' <=> IsLive(m))
<1>1. Over' = Over /\ Begun' = Begun /\ nextEvent' \in {"finalize", "done"}
  BY FinalizePlace
<1>2. Ended' = Ended /\ Started' = Started
  BY <1>1 DEF Ended, Started
<1>3. ASSUME NEW m PROVE Past(m)' = Past(m)
  BY <1>1 DEF Past
<1>4. ASSUME NEW m PROVE IsLive(m)' <=> IsLive(m)
  BY <1>1, <1>2, SameLive
<1> QED
  BY <1>2, <1>3, <1>4

-----------------------------------------------------------------------------
(* The epoch ends a module has had are those of this pipeline. *)
LEMMA PastFacts ==
  ASSUME QSetupOK, PlaceInv
  PROVE  \A m : /\ Past(m) \in Nat /\ Over <= Past(m) /\ Past(m) <= Begun
                /\ nextEvent = "epoch" /\ m \in Epochs[epoch] => Past(m) = Me - 1
<1>1. /\ Me = Over + turn /\ Over \in Nat /\ turn \in Nat \ {0} /\ Begun \in Nat
      /\ turn <= Begun - Over /\ Over < Begun
  BY MeFacts
<1>2. ASSUME NEW m PROVE Past(m) \in {Over, Over + turn - 1, Begun}
  BY DEF Past
<1>3. ASSUME NEW m, nextEvent = "epoch", m \in Epochs[epoch] PROVE Past(m) = Me - 1
  BY <1>1, <1>3 DEF Past
<1>4. ASSUME NEW m PROVE Past(m) \in Nat /\ Over <= Past(m) /\ Past(m) <= Begun
  BY <1>1, <1>2
<1> QED
  BY <1>3, <1>4

(* Another modifier of the same pipeline: there is only one of them. *)
LEMMA OnePipeline ==
  ASSUME QSetupOK, PlaceInv, nextEvent \in {"start", "forward", "epoch", "end"},
         NEW i \in Steps, Over < i, i < Me
  PROVE  ~ isIndependent /\ Over = 0 /\ Begun = Len(modifiers)
<1>1. Me <= Begun /\ Over \in Nat /\ Begun \in Nat /\ Me \in Nat /\ i \in Nat
  BY MeFacts, StepNumbers
<1>2. Begun # Over + 1
  BY <1>1
<1> QED
  BY <1>2 DEF PlaceInv

-----------------------------------------------------------------------------
(* The parts of the invariant that a step does not touch. *)

LEMMA StatusKept ==
  ASSUME UNCHANGED <<qSetup, qStatus>>, Ended' = Ended, \A m : IsLive(m)' <=> IsLive(m),
         nextEvent # "initialize", nextEvent' # "initialize", StatusInv
  PROVE  StatusInv'
<1>1. Configured' = Configured
  BY QSetupStays
<1>2. \A m : AnyQuantizes(m, 0, Ended)' <=> AnyQuantizes(m, 0, Ended)
  BY QSetupStays DEF AnyQuantizes
<1> QED
  BY <1>1, <1>2 DEF StatusInv

LEMMA ObserverKept ==
  ASSUME UNCHANGED <<qSetup, observer, attached, importanceHooks>>,
         \A m : IsLive(m)' <=> IsLive(m), ObserverInv
  PROVE  ObserverInv'
BY QSetupStays DEF ObserverInv

LEMMA HooksKept ==
  ASSUME UNCHANGED <<qSetup, hooks>>, Ended' = Ended, Started' = Started, HooksInv
  PROVE  HooksInv'
BY QSetupStays DEF HooksInv

LEMMA NoHessians ==
  ASSUME UNCHANGED <<qSetup, hessians>>, nextEvent # "epoch", nextEvent' # "epoch", HessiansInv
  PROVE  HessiansInv'
BY QSetupStays DEF HessiansInv

LEMMA ImportanceKept ==
  ASSUME UNCHANGED <<qSetup, importance>>, nextEvent' # "epoch", ImportanceInv
  PROVE  ImportanceInv'
BY QSetupStays DEF ImportanceInv

LEMMA StatisticsKept ==
  ASSUME UNCHANGED <<qSetup, statistics, weight>>, StatisticsInv,
         \A m : IsLive(m)' => IsLive(m) /\ Past(m)' = Past(m) /\ Over' = Over
  PROVE  StatisticsInv'
<1>1. ASSUME NEW m, IsLive(m)' PROVE (~ AnyGPTQ(Over, Past(m)))' => ~ AnyGPTQ(Over, Past(m))
  BY <1>1, QSetupStays DEF AnyGPTQ
<1> QED
  BY <1>1, QSetupStays DEF StatisticsInv

LEMMA WeightKept ==
  ASSUME UNCHANGED <<qSetup, weight>>, \A m : Past(m)' = Past(m), WeightInv
  PROVE  WeightInv'
<1>1. \A m : AnyRounds(m, Past(m))' <=> AnyRounds(m, Past(m))
  BY QSetupStays DEF AnyRounds
<1>2. \A m : EndsRounded(m)' <=> EndsRounded(m)
  BY DEF EndsRounded
<1> QED
  BY <1>1, <1>2 DEF WeightInv

LEMMA ScaleKept ==
  ASSUME UNCHANGED <<qSetup, weight, scale, isInformed>>, \A m : Past(m)' = Past(m), ScaleInv
  PROVE  ScaleInv'
<1>1. \A m : AnyQuantizes(m, 0, Past(m))' <=> AnyQuantizes(m, 0, Past(m))
  BY QSetupStays DEF AnyQuantizes
<1>2. \A m : Fits(m)' <=> Fits(m)
  BY DEF Fits
<1> QED
  BY <1>1, <1>2, QSetupStays DEF ScaleInv

LEMMA OnceKept ==
  ASSUME UNCHANGED qSetup, \A m : Past(m)' = Past(m), OnceInv
  PROVE  OnceInv'
BY QSetupStays DEF OnceInv

-----------------------------------------------------------------------------

(* Initialization gives every configured module a status. *)
LEMMA InitializeOK ==
  ASSUME QSetupOK, RunInv, InitializeQuantizer
  PROVE  RunInv'
<1>1. /\ UNCHANGED qSetup /\ nextEvent = "initialize" /\ HandledThen(FirstPipeline)
      /\ UNCHANGED <<observer, attached, statistics, importance, importanceHooks>>
      /\ UNCHANGED <<weight, scale, isInformed, hooks, hessians>>
  BY DEF InitializeQuantizer, Handling, qObservers
<1>2. PlaceInv
  BY DEF RunInv
<1>3. /\ PlaceInv' /\ Over' = 0 /\ Me = turn
      /\ \/ nextEvent' = "initialize" /\ turn' = turn + 1
         \/ nextEvent' = "start" /\ turn' = 1 /\ turn = Len(modifiers)
  BY <1>1, <1>2, InitializePlace
<1>4. /\ Over = 0 /\ Ended = 0 /\ Ended' = 0 /\ Started = 0 /\ Started' = 0
      /\ \A m : Past(m) = 0 /\ Past(m)' = 0 /\ ~ IsLive(m) /\ ~ IsLive(m)'
  BY <1>1, <1>2, InitializeProgress
<1>5. StatusInv'
  <2>1. qStatus' = IF modifiers[Me].configures
                   THEN [m \in QuantModules |-> IF m \in Targets THEN "initialized" ELSE qStatus[m]]
                   ELSE qStatus
    BY DEF InitializeQuantizer
  <2>2. Me \in Steps /\ Targets = modifiers[Me].targets /\ Targets \subseteq QuantModules
    BY <1>2, MeFacts, RecipeFacts DEF Targets
  <2>3. ASSUME NEW i \in Steps, i <= turn, IsQuantizer(i), modifiers[i].configures,
               NEW m \in modifiers[i].targets
        PROVE  qStatus'[m] # "none"
    <3>1. m \in QuantModules
      BY RecipeFacts
    <3>2. CASE i = turn
      BY <1>3, <2>1, <2>2, <2>3, <3>1, <3>2
    <3>3. CASE i # turn
      <4>1. i < turn
        BY <1>2, <2>3, <3>3, MeFacts, StepNumbers
      <4>2. qStatus[m] # "none"
        BY <1>1, <2>3, <4>1 DEF RunInv, StatusInv
      <4> QED
        BY <2>1, <3>1, <4>2
    <3> QED
      BY <3>2, <3>3
  <2>4. ASSUME nextEvent' = "initialize", NEW i \in Steps, i < turn', IsQuantizer(i),
               modifiers[i].configures, NEW m \in modifiers[i].targets
        PROVE  qStatus'[m] # "none"
    <3>1. i <= turn
      BY <1>2, <1>3, <2>4, MeFacts, StepNumbers
    <3> QED
      BY <2>3, <2>4, <3>1
  <2>5. ASSUME nextEvent' # "initialize", NEW m \in Configured PROVE qStatus'[m] # "none"
    <3>1. PICK i \in Steps : Quantizes(i, m) /\ modifiers[i].configures
      BY ConfiguredBySome
    <3>2. i <= turn
      BY <1>3, <2>5, StepNumbers
    <3> QED
      BY <2>3, <3>1, <3>2 DEF Quantizes
  <2>6. \A m : ~ AnyQuantizes(m, 0, Ended)'
    BY <1>1, <1>4, QSetupStays, StepNumbers DEF AnyQuantizes
  <2> QED
    BY <1>1, <1>4, <2>4, <2>5, <2>6, QSetupStays DEF StatusInv
<1>6. ObserverInv' /\ HooksInv'
  BY <1>1, <1>4, ObserverKept, HooksKept DEF RunInv
<1>7. HessiansInv' /\ ImportanceInv'
  BY <1>1, <1>3, NoHessians, ImportanceKept DEF RunInv
<1>8. StatisticsInv'
  BY <1>1, <1>4, StatisticsKept DEF RunInv
<1>9. WeightInv' /\ ScaleInv' /\ OnceInv'
  BY <1>1, <1>4, WeightKept, ScaleKept, OnceKept DEF RunInv
<1> QED
  BY <1>3, <1>5, <1>6, <1>7, <1>8, <1>9 DEF RunInv

(* No Hessians are left when the modifiers are finalized. *)
LEMMA FinalizeOK ==
  ASSUME QSetupOK, RunInv, FinalizeQuantizers
  PROVE  RunInv'
<1>1. /\ UNCHANGED qSetup /\ nextEvent = "finalize"
      /\ UNCHANGED <<observer, attached, statistics, importance, importanceHooks>>
      /\ UNCHANGED <<qStatus, weight, scale, isInformed, hooks, hessians>>
  BY DEF FinalizeQuantizers, Handling, qObservers, qModel
<1>2. hessians = {}
  BY <1>1 DEF RunInv, HessiansInv
<1>3. HandledThen(nextEvent' = "done" /\ UNCHANGED <<running, waiting, epoch>>)
  BY <1>2 DEF FinalizeQuantizers
<1>4. PlaceInv' /\ Over' = Over /\ nextEvent' \in {"finalize", "done"}
  BY <1>1, <1>3, FinalizePlace DEF RunInv
<1>5. /\ Ended' = Ended /\ Started' = Started
      /\ \A m : Past(m)' = Past(m) /\ (IsLive(m)' <=> IsLive(m))
  BY <1>1, <1>3, FinalizeProgress DEF RunInv
<1>6. StatusInv'
  BY <1>1, <1>4, <1>5, StatusKept DEF RunInv
<1>7. ObserverInv' /\ HooksInv'
  BY <1>1, <1>5, ObserverKept, HooksKept DEF RunInv
<1>8. HessiansInv' /\ ImportanceInv'
  BY <1>1, <1>4, NoHessians, ImportanceKept DEF RunInv
<1>9. StatisticsInv'
  BY <1>1, <1>4, <1>5, StatisticsKept DEF RunInv
<1>10. WeightInv' /\ ScaleInv' /\ OnceInv'
  BY <1>1, <1>5, WeightKept, ScaleKept, OnceKept DEF RunInv
<1> QED
  BY <1>4, <1>6, <1>7, <1>8, <1>9, <1>10 DEF RunInv

-----------------------------------------------------------------------------
LEMMA AfterTurn ==
  ASSUME NEW a \in Nat, NEW b \in Nat \ {0}, NEW c \in Nat, a + b <= c
  PROVE  a < c
OBVIOUS

(* A pipeline with a modifier that needs data uses data. *)
LEMMA RunningAt ==
  ASSUME QSetupOK, PlaceInv
  PROVE  \A i \in Steps : Over < i /\ i <= Begun /\ NeedsData(i) => PipelineNeedsData
<1> SUFFICES ASSUME NEW i \in Steps, Over < i, i <= Begun, NeedsData(i) PROVE PipelineNeedsData
  OBVIOUS
<1>1. /\ running = [k \in 1 .. Begun - Over |-> Over + k]
      /\ Over \in Nat /\ Begun \in Nat /\ i \in Nat
  BY StepNumbers DEF PlaceInv
<1>2. i - Over \in 1 .. Begun - Over /\ Over + (i - Over) = i
  BY <1>1
<1>3. i - Over \in DOMAIN running /\ running[i - Over] = i
  BY <1>1, <1>2
<1>4. i \in ToSet(running)
  BY <1>3 DEF ToSet
<1> QED
  BY <1>4 DEF PipelineNeedsData

(* Starting calibration puts observers and hooks where the invariant says, and no others. *)
LEMMA StartOK ==
  ASSUME QSetupOK, RunInv, StartCalibration
  PROVE  RunInv'
<1>1. /\ UNCHANGED qSetup /\ nextEvent = "start" /\ HandledThen(FirstEpoch)
      /\ UNCHANGED <<weight, scale, isInformed, hessians>>
  BY DEF StartCalibration, Handling
<1>2. PlaceInv
  BY DEF RunInv
<1>3. /\ PlaceInv' /\ Over' = Over /\ Begun' = Begun /\ Epochs' = Epochs
      /\ nextEvent' = "epoch" => ~ PipelineNeedsData
      /\ nextEvent' \in {"start", "forward", "epoch"}
  BY <1>1, <1>2, StartPlace
<1>4. /\ Ended = Over /\ Ended' = Over /\ Started = Me - 1 /\ Started' = Me
      /\ \A m : Past(m) = Over /\ Past(m)' = Over
      /\ \A m : IsLive(m) <=> \E i \in Steps : Over < i /\ i < Me /\ Quantizes(i, m)
      /\ \A m : IsLive(m)' <=> \E i \in Steps : Over < i /\ i <= Me /\ Quantizes(i, m)
  BY <1>1, <1>2, StartProgress
<1>5. Me \in Steps /\ Over < Me /\ Over \in Nat /\ Me \in Nat /\ Me <= Begun /\ Begun \in Nat
  BY <1>2, MeFacts
<1>6. \A m : IsLive(m)' <=> IsLive(m) \/ Quantizes(Me, m)
  <2>1. \A i \in Steps : i <= Me <=> i < Me \/ i = Me
    BY <1>5, StepNumbers
  <2> QED
    BY <1>4, <1>5, <2>1
<1>7. Targets = modifiers[Me].targets /\ Targets \subseteq QuantModules
      /\ \A m : Quantizes(Me, m) <=> IsQuantizer(Me) /\ m \in Targets
  BY <1>5, RecipeFacts DEF Targets, Quantizes
<1>8. ASSUME NEW m \in QuantModules
      PROVE  IF Quantizes(Me, m)
             THEN /\ attached'[m] = attached[m] + 1 /\ observer'[m] = attached'[m]
                  /\ statistics'[m] = Absent /\ importance'[m] = "zero"
                  /\ qStatus'[m] = "calibration"
             ELSE /\ attached'[m] = attached[m] + 0 \/ attached'[m] = attached[m]
                  /\ observer'[m] = observer[m]
                  /\ statistics'[m] = statistics[m] /\ importance'[m] = importance[m]
                  /\ qStatus'[m] = qStatus[m]
  <2>1. CASE IsQuantizer(Me)
    <3>1. AttachObservers
      BY <2>1 DEF StartCalibration
    <3> QED
      BY <1>7, <2>1, <3>1 DEF AttachObservers
  <2>2. CASE ~ IsQuantizer(Me)
    <3>1. UNCHANGED <<qObservers, qStatus>>
      BY <2>2 DEF StartCalibration
    <3> QED
      BY <1>7, <2>2, <3>1 DEF qObservers
  <2> QED
    BY <2>1, <2>2
<1>9. \A h : h \in importanceHooks' <=>
        \/ h \in importanceHooks
        \/ \E m \in important : Quantizes(Me, m) /\ h = <<m, attached'[m]>>
  <2>1. CASE IsQuantizer(Me)
    <3>1. importanceHooks' =
            importanceHooks \cup {<<m, attached'[m]>> : m \in Targets \cap important}
      BY <2>1 DEF StartCalibration, AttachObservers
    <3> QED
      BY <1>7, <2>1, <3>1
  <2>2. CASE ~ IsQuantizer(Me)
    <3>1. importanceHooks' = importanceHooks
      BY <2>2 DEF StartCalibration, qObservers
    <3> QED
      BY <1>7, <2>2, <3>1
  <2> QED
    BY <2>1, <2>2
<1>10. important \subseteq QuantModules
  BY RecipeFacts DEF QSetupOK
<1>11. \A m \in QuantModules :
         attached[m] \in Nat /\ (~ Quantizes(Me, m) => attached'[m] = attached[m])
  BY <1>8 DEF RunInv, ObserverInv
<1>12. StatusInv'
  <2>1. \A m \in Configured : qStatus'[m] # "none"
    <3>1. Configured \subseteq QuantModules
      BY RecipeFacts
    <3>2. \A m \in Configured : qStatus[m] # "none"
      BY <1>1 DEF RunInv, StatusInv
    <3> QED
      BY <1>8, <3>1, <3>2
  <2>2. ASSUME NEW m \in QuantModules, IsLive(m)' PROVE qStatus'[m] = "calibration"
    BY <1>6, <1>8, <2>2 DEF RunInv, StatusInv
  <2>3. ASSUME NEW m \in QuantModules, AnyQuantizes(m, 0, Ended)', ~ IsLive(m)'
        PROVE  qStatus'[m] = "frozen"
    <3>1. AnyQuantizes(m, 0, Ended)
      BY <1>1, <1>4, <2>3, QSetupStays DEF AnyQuantizes
    <3> QED
      BY <1>6, <1>8, <2>3, <3>1 DEF RunInv, StatusInv
  <2> QED
    BY <1>1, <1>3, <2>1, <2>2, <2>3, QSetupStays DEF StatusInv
<1>13. ObserverInv'
  <2>1. ASSUME NEW m \in QuantModules
        PROVE  /\ attached'[m] \in Nat
               /\ observer'[m] = IF IsLive(m)' THEN attached'[m] ELSE 0
               /\ IsLive(m)' => attached'[m] # 0
    <3>1. /\ attached[m] \in Nat /\ observer[m] = IF IsLive(m) THEN attached[m] ELSE 0
          /\ IsLive(m) => attached[m] # 0
      BY DEF RunInv, ObserverInv
    <3>2. CASE Quantizes(Me, m)
      <4>1. attached'[m] = attached[m] + 1 /\ observer'[m] = attached'[m]
        BY <1>8, <3>2
      <4>2. IsLive(m)'
        BY <1>6, <3>2
      <4>3. attached'[m] \in Nat /\ attached'[m] # 0
        BY <3>1, <4>1
      <4> QED
        BY <4>1, <4>2, <4>3
    <3>3. CASE ~ Quantizes(Me, m)
      BY <1>6, <1>8, <1>11, <3>1, <3>3
    <3> QED
      BY <3>2, <3>3
  <2>2. ASSUME NEW h \in importanceHooks'
        PROVE  /\ h = <<h[1], h[2]>> /\ h[1] \in important
               /\ ~ IsObservedTwice(h[1]) => IsLive(h[1])' /\ h[2] = attached'[h[1]]
    <3>1. CASE h \in importanceHooks
      <4>1. /\ h = <<h[1], h[2]>> /\ h[1] \in important
            /\ ~ IsObservedTwice(h[1]) => IsLive(h[1]) /\ h[2] = attached[h[1]]
        BY <3>1 DEF RunInv, ObserverInv
      <4>2. ASSUME ~ IsObservedTwice(h[1]), Quantizes(Me, h[1]) PROVE FALSE
        <5>1. PICK i \in Steps : Over < i /\ i < Me /\ Quantizes(i, h[1])
          BY <1>4, <4>1, <4>2
        <5>2. ~ isIndependent
          BY <1>1, <1>2, <5>1, OnePipeline
        <5>3. i \in DOMAIN modifiers /\ Me \in DOMAIN modifiers
          BY <1>5 DEF Steps
        <5> QED
          BY <4>2, <5>1, <5>2, <5>3 DEF IsObservedTwice, Quantizes
      <4> QED
        BY <1>6, <1>10, <1>11, <4>1, <4>2
    <3>2. CASE \E m \in important : Quantizes(Me, m) /\ h = <<m, attached'[m]>>
      BY <1>6, <3>2
    <3> QED
      BY <1>9, <2>2, <3>1, <3>2
  <2>3. ASSUME NEW m \in important, IsLive(m)' PROVE <<m, attached'[m]>> \in importanceHooks'
    <3>1. CASE Quantizes(Me, m)
      BY <1>9, <3>1
    <3>2. CASE ~ Quantizes(Me, m)
      <4>1. <<m, attached[m]>> \in importanceHooks
        BY <1>6, <2>3, <3>2 DEF RunInv, ObserverInv
      <4> QED
        BY <1>9, <1>10, <1>11, <3>2, <4>1
    <3> QED
      BY <3>1, <3>2
  <2> QED
    BY <1>1, <2>1, <2>2, <2>3, QSetupStays DEF ObserverInv
<1>14. HooksInv'
  <2>1. hooks = {h \in Steps \X QuantModules :
                   /\ modifiers[h[1]].kind # "quantization" /\ h[2] \in modifiers[h[1]].targets
                   /\ Over < h[1] /\ h[1] <= Me - 1}
    BY <1>4 DEF RunInv, HooksInv
  <2>2. hooks' = IF modifiers[Me].kind = "quantization" THEN hooks
                 ELSE hooks \cup {<<Me, m>> : m \in Targets}
    BY DEF StartCalibration
  <2>3. \A i \in Steps : i <= Me <=> i <= Me - 1 \/ i = Me
    BY <1>5, StepNumbers
  <2>4. hooks' = {h \in Steps \X QuantModules :
                   /\ modifiers[h[1]].kind # "quantization" /\ h[2] \in modifiers[h[1]].targets
                   /\ Over < h[1] /\ h[1] <= Me}
    <3>1. CASE modifiers[Me].kind = "quantization"
      <4>1. hooks' = hooks
        BY <2>2, <3>1
      <4> QED
        BY <1>5, <2>1, <2>3, <3>1, <4>1
    <3>2. CASE modifiers[Me].kind # "quantization"
      <4>1. hooks' = hooks \cup {<<Me, m>> : m \in modifiers[Me].targets}
        BY <1>7, <2>2, <3>2
      <4>2. ASSUME NEW h \in {<<Me, m>> : m \in modifiers[Me].targets}
            PROVE  /\ h \in Steps \X QuantModules /\ modifiers[h[1]].kind # "quantization"
                   /\ h[2] \in modifiers[h[1]].targets /\ Over < h[1] /\ h[1] <= Me
        BY <1>5, <1>7, <3>2, <4>2
      <4>3. ASSUME NEW h \in Steps \X QuantModules, h[1] = Me, h[2] \in modifiers[h[1]].targets
            PROVE  h \in {<<Me, m>> : m \in modifiers[Me].targets}
        <5>1. h = <<Me, h[2]>>
          BY <4>3
        <5> QED
          BY <4>3, <5>1
      <4>4. \A h \in Steps \X QuantModules : h[1] \in Steps
        OBVIOUS
      <4> QED
        BY <2>1, <2>3, <4>1, <4>2, <4>3, <4>4
    <3> QED
      BY <3>1, <3>2
  <2> QED
    BY <1>1, <1>4, <2>4, QSetupStays DEF HooksInv
<1>15. HessiansInv'
  <2>1. hessians = {}
    BY <1>1 DEF RunInv, HessiansInv
  <2>2. ASSUME nextEvent' = "epoch", NEW i \in Steps, NEW m, Rounds(i, m),
               Over + turn' <= i, i <= Begun
        PROVE  FALSE
    <3>1. NeedsData(i)
      BY <2>2 DEF Rounds, NeedsData
    <3>2. turn' \in Nat \ {0} /\ i \in Nat
      <4>1. QSetupOK'
        BY <1>1, QSetupStays
      <4> QED
        BY <1>2, <1>3, <4>1, MeFacts, StepNumbers DEF PlaceInv
    <3>3. Over < i
      <4>1. Over \in Nat /\ turn' \in Nat \ {0} /\ i \in Nat /\ Over + turn' <= i
        BY <1>5, <2>2, <3>2
      <4> QED
        BY <4>1, AfterTurn
    <3> QED
      BY <1>2, <1>3, <2>2, <3>1, <3>3, RunningAt
  <2> QED
    BY <1>1, <1>3, <2>1, <2>2, QSetupStays DEF HessiansInv
<1>16. ImportanceInv'
  <2>1. \A m \in QuantModules \ important : importance'[m] # "deleted"
    BY <1>8 DEF RunInv, ImportanceInv
  <2>2. ASSUME nextEvent' = "epoch", NEW m \in important, IsLive(m)' PROVE FALSE
    <3>1. PICK i \in Steps : Over < i /\ i <= Me /\ Quantizes(i, m)
      BY <1>4, <2>2
    <3>2. NeedsData(i) /\ i <= Begun
      BY <1>5, <3>1, StepNumbers DEF NeedsData, Quantizes
    <3> QED
      BY <1>2, <1>3, <2>2, <3>1, <3>2, RunningAt
  <2> QED
    BY <1>1, <2>1, <2>2, QSetupStays DEF ImportanceInv
<1>17. StatisticsInv'
  <2>1. ASSUME NEW m \in QuantModules, IsLive(m)' PROVE statistics'[m] = Absent
    <3>1. CASE Quantizes(Me, m)
      BY <1>8, <3>1
    <3>2. CASE ~ Quantizes(Me, m)
      <4>1. ~ AnyGPTQ(Over, Past(m))
        BY <1>4, <1>5, StepNumbers DEF AnyGPTQ
      <4>2. statistics[m] = Absent
        BY <1>6, <2>1, <3>2, <4>1 DEF RunInv, StatisticsInv
      <4> QED
        BY <1>8, <3>2, <4>2
    <3> QED
      BY <3>1, <3>2
  <2> QED
    BY <2>1 DEF StatisticsInv, Absent
<1>18. WeightInv' /\ ScaleInv' /\ OnceInv'
  BY <1>1, <1>4, WeightKept, ScaleKept, OnceKept DEF RunInv
<1> QED
  BY <1>3, <1>12, <1>13, <1>14, <1>15, <1>16, <1>17, <1>18 DEF RunInv

-----------------------------------------------------------------------------
(* A forward pass collects the Hessians and the importance of its epoch. *)
LEMMA ForwardOK ==
  ASSUME QSetupOK, RunInv, ForwardEpoch
  PROVE  RunInv'
<1>1. /\ UNCHANGED qSetup /\ nextEvent = "forward" /\ nextEvent' = "epoch"
      /\ UNCHANGED <<running, waiting, turn, epoch>>
      /\ UNCHANGED <<observer, attached, statistics, importanceHooks>>
      /\ UNCHANGED <<qStatus, weight, scale, isInformed, hooks>>
  BY DEF ForwardEpoch, Handling, qModel
<1>2. PlaceInv
  BY DEF RunInv
<1>3. PlaceInv' /\ Over' = Over /\ Begun' = Begun /\ Epochs' = Epochs /\ turn = 1
  BY <1>1, <1>2, ForwardPlace
<1>4. /\ Ended' = Ended /\ Started' = Started
      /\ \A m : /\ Past(m)' = Past(m) /\ (IsLive(m)' <=> IsLive(m))
                /\ m \in Epochs[epoch] => Past(m) = Over
  BY <1>1, <1>2, ForwardProgress
<1>5. Ended = Over /\ Started = Begun /\ Over \in Nat /\ Begun \in Nat
  BY <1>1, <1>2, MeFacts DEF Ended, Started
<1>6. StatusInv' /\ ObserverInv' /\ HooksInv'
  <2>1. StatusInv'
    BY <1>1, <1>4, StatusKept DEF RunInv
  <2>2. ObserverInv'
    BY <1>1, <1>4, ObserverKept DEF RunInv
  <2>3. HooksInv'
    BY <1>1, <1>4, HooksKept DEF RunInv
  <2> QED
    BY <2>1, <2>2, <2>3
<1>7. HessiansInv'
  <2>1. hessians = {}
    BY <1>1 DEF RunInv, HessiansInv
  <2>2. hessians' = {h \in hooks : h[2] \in Epochs[epoch] /\ modifiers[h[1]].kind = "gptq"}
    BY <2>1 DEF ForwardEpoch
  <2>3. hooks = {h \in Steps \X QuantModules :
                   /\ modifiers[h[1]].kind # "quantization" /\ h[2] \in modifiers[h[1]].targets
                   /\ Over < h[1] /\ h[1] <= Begun}
    BY <1>5 DEF RunInv, HooksInv
  <2>4. \A i \in Steps : Over < i <=> Over + 1 <= i
    BY <1>5, StepNumbers
  <2>5. \A h \in Steps \X QuantModules : h[1] \in Steps
    OBVIOUS
  <2>6. hessians' = {h \in Steps \X QuantModules :
                       /\ h[2] \in Epochs[epoch] /\ Rounds(h[1], h[2])
                       /\ Over + 1 <= h[1] /\ h[1] <= Begun}
    BY <2>2, <2>3, <2>4, <2>5 DEF Rounds
  <2>7. Steps' = Steps /\ turn' = 1 /\ epoch' = epoch
        /\ \A i, m : Rounds(i, m)' = Rounds(i, m)
    BY <1>1, <1>3, QSetupStays
  <2> QED
    BY <1>1, <1>3, <2>6, <2>7 DEF HessiansInv
<1>8. ImportanceInv'
  <2>1. important \subseteq QuantModules
    BY RecipeFacts DEF QSetupOK
  <2>2. importance' =
          [m \in QuantModules |->
             IF m \in Epochs[epoch] /\ <<m, observer[m]>> \in importanceHooks
             THEN "collected" ELSE importance[m]]
    BY DEF ForwardEpoch
  <2>3. \A m \in QuantModules \ important : importance'[m] # "deleted"
    BY <2>2 DEF RunInv, ImportanceInv
  <2>4. ASSUME NEW m \in important, m \in Epochs[epoch], IsLive(m)
        PROVE  importance'[m] = "collected" /\ ~ AnyTakes(m, Over, Past(m))'
    <3>1. observer[m] = attached[m] /\ <<m, attached[m]>> \in importanceHooks
      BY <2>1, <2>4 DEF RunInv, ObserverInv
    <3>2. importance'[m] = "collected"
      BY <2>1, <2>2, <2>4, <3>1
    <3>3. Past(m)' = Over
      BY <1>4, <2>4
    <3>4. \A i \in Steps : ~ (Over < i /\ i <= Over)
      BY <1>5, StepNumbers
    <3>5. ~ AnyTakes(m, Over, Past(m))'
      BY <1>1, <1>3, <3>3, <3>4, QSetupStays DEF AnyTakes
    <3> QED
      BY <3>2, <3>5
  <2>5. important' = important /\ epoch' = epoch
    BY <1>1, QSetupStays
  <2> QED
    BY <1>3, <1>4, <2>3, <2>4, <2>5 DEF ImportanceInv
<1>9. StatisticsInv'
  BY <1>1, <1>3, <1>4, StatisticsKept DEF RunInv
<1>10. WeightInv' /\ ScaleInv' /\ OnceInv'
  <2>1. WeightInv'
    BY <1>1, <1>4, WeightKept DEF RunInv
  <2>2. ScaleInv'
    BY <1>1, <1>4, ScaleKept DEF RunInv
  <2>3. OnceInv'
    BY <1>1, <1>4, OnceKept DEF RunInv
  <2> QED
    BY <2>1, <2>2, <2>3
<1> QED
  BY <1>3, <1>6, <1>7, <1>8, <1>9, <1>10 DEF RunInv

(* Ending calibration freezes what is live of its targets and takes its hooks with it. *)
LEMMA EndOK ==
  ASSUME QSetupOK, RunInv, EndCalibration
  PROVE  RunInv'
<1>1. /\ UNCHANGED qSetup /\ nextEvent = "end" /\ HandledThen(NextPipeline)
      /\ UNCHANGED <<attached, statistics, importance>>
      /\ UNCHANGED <<weight, scale, isInformed, hessians>>
  BY DEF EndCalibration, Handling, FreezeTargets
<1>2. PlaceInv
  BY DEF RunInv
<1>3. PlaceInv' /\ nextEvent' \in {"end", "start", "finalize"}
  BY <1>1, <1>2, EndPlace
<1>4. /\ Ended = Me - 1 /\ Ended' = Me /\ Started = Begun /\ Started' = Begun
      /\ \A m : Past(m)' = Past(m)
      /\ \A m : IsLive(m)' <=> IsLive(m) /\ ~ Quantizes(Me, m)
      /\ \A m : IsLive(m)' => Over' = Over
  BY <1>1, <1>2, EndProgress
<1>5. Me \in Steps /\ Me \in Nat
  BY <1>2, MeFacts, StepNumbers
<1>6. \A m : m \in Frozen(Me) <=> Quantizes(Me, m) /\ qStatus[m] # "frozen"
  BY DEF Frozen, Quantizes
<1>7. \A m : Quantizes(Me, m) => m \in QuantModules
  BY <1>5, RecipeFacts DEF Quantizes
<1>8. /\ qStatus' = [m \in QuantModules |-> IF m \in Frozen(Me) THEN "frozen" ELSE qStatus[m]]
      /\ observer' = [m \in QuantModules |-> IF m \in Frozen(Me) THEN 0 ELSE observer[m]]
      /\ importanceHooks' = importanceHooks \ {<<m, observer[m]>> : m \in Frozen(Me)}
      /\ hooks' = {h \in hooks : h[1] # Me}
  BY DEF EndCalibration, FreezeTargets
<1>9. important \subseteq QuantModules /\ Configured \subseteq QuantModules
  BY RecipeFacts DEF QSetupOK
<1>10. \A m \in QuantModules : IsLive(m) /\ Quantizes(Me, m) => m \in Frozen(Me)
  <2>1. \A m \in QuantModules : IsLive(m) => qStatus[m] = "calibration"
    BY DEF RunInv, StatusInv
  <2> QED
    BY <1>6, <2>1
<1>11. StatusInv'
  <2>1. \A m \in Configured : qStatus'[m] # "none"
    <3>1. \A m \in Configured : qStatus[m] # "none"
      BY <1>1 DEF RunInv, StatusInv
    <3> QED
      BY <1>8, <1>9, <3>1
  <2>2. ASSUME NEW m \in QuantModules, IsLive(m)' PROVE qStatus'[m] = "calibration"
    <3>1. IsLive(m) /\ m \notin Frozen(Me)
      BY <1>4, <1>6, <2>2
    <3>2. qStatus[m] = "calibration"
      BY <3>1 DEF RunInv, StatusInv
    <3> QED
      BY <1>8, <3>1, <3>2
  <2>3. ASSUME NEW m \in QuantModules, AnyQuantizes(m, 0, Ended)', ~ IsLive(m)'
        PROVE  qStatus'[m] = "frozen"
    <3>1. PICK i \in Steps : 0 < i /\ i <= Me /\ Quantizes(i, m)
      BY <1>1, <1>4, <2>3, QSetupStays DEF AnyQuantizes
    <3>2. CASE Quantizes(Me, m)
      BY <1>6, <1>8, <3>2
    <3>3. CASE ~ Quantizes(Me, m)
      <4>1. i # Me
        BY <3>1, <3>3
      <4>2. i <= Me - 1
        BY <1>5, <3>1, <4>1, StepNumbers
      <4>3. AnyQuantizes(m, 0, Ended) /\ ~ IsLive(m)
        BY <1>4, <2>3, <3>1, <3>3, <4>2 DEF AnyQuantizes
      <4>4. qStatus[m] = "frozen"
        BY <4>3 DEF RunInv, StatusInv
      <4> QED
        BY <1>8, <4>4
    <3> QED
      BY <3>2, <3>3
  <2>4. Configured' = Configured
    BY <1>1, QSetupStays
  <2> QED
    BY <1>3, <2>1, <2>2, <2>3, <2>4 DEF StatusInv
<1>12. ObserverInv'
  <2>1. ASSUME NEW m \in QuantModules
        PROVE  /\ attached'[m] \in Nat
               /\ observer'[m] = IF IsLive(m)' THEN attached'[m] ELSE 0
               /\ IsLive(m)' => attached'[m] # 0
    <3>1. /\ attached[m] \in Nat /\ observer[m] = IF IsLive(m) THEN attached[m] ELSE 0
          /\ IsLive(m) => attached[m] # 0
      BY DEF RunInv, ObserverInv
    <3>2. attached'[m] = attached[m]
      BY <1>1
    <3>3. CASE m \in Frozen(Me)
      <4>1. observer'[m] = 0 /\ ~ IsLive(m)'
        BY <1>4, <1>6, <1>8, <3>3
      <4> QED
        BY <3>1, <3>2, <4>1
    <3>4. CASE m \notin Frozen(Me)
      <4>1. observer'[m] = observer[m] /\ (IsLive(m)' <=> IsLive(m))
        BY <1>4, <1>8, <1>10, <3>4
      <4> QED
        BY <3>1, <3>2, <4>1
    <3> QED
      BY <3>3, <3>4
  <2>2. ASSUME NEW h \in importanceHooks'
        PROVE  /\ h = <<h[1], h[2]>> /\ h[1] \in important
               /\ ~ IsObservedTwice(h[1]) => IsLive(h[1])' /\ h[2] = attached'[h[1]]
    <3>1. /\ h = <<h[1], h[2]>> /\ h[1] \in important
          /\ ~ IsObservedTwice(h[1]) => IsLive(h[1]) /\ h[2] = attached[h[1]]
      BY <1>8, <2>2 DEF RunInv, ObserverInv
    <3>2. ASSUME ~ IsObservedTwice(h[1]), Quantizes(Me, h[1]) PROVE FALSE
      <4>1. IsLive(h[1]) /\ h[2] = attached[h[1]] /\ h[1] \in Frozen(Me)
        BY <1>9, <1>10, <3>1, <3>2
      <4>2. observer[h[1]] = attached[h[1]]
        BY <1>9, <3>1, <4>1 DEF RunInv, ObserverInv
      <4>3. h = <<h[1], observer[h[1]]>>
        BY <3>1, <4>1, <4>2
      <4>4. h \in {<<m, observer[m]>> : m \in Frozen(Me)}
        BY <4>1, <4>3
      <4> QED
        BY <1>8, <2>2, <4>4
    <3> QED
      BY <1>1, <1>4, <3>1, <3>2
  <2>3. ASSUME NEW m \in important, IsLive(m)' PROVE <<m, attached'[m]>> \in importanceHooks'
    <3>1. <<m, attached[m]>> \in importanceHooks
      BY <1>4, <2>3 DEF RunInv, ObserverInv
    <3>2. m \notin Frozen(Me)
      BY <1>4, <1>6, <2>3
    <3>3. <<m, attached[m]>> \notin {<<l, observer[l]>> : l \in Frozen(Me)}
      BY <3>2
    <3> QED
      BY <1>1, <1>8, <3>1, <3>3
  <2>4. important' = important /\ \A m : IsObservedTwice(m)' = IsObservedTwice(m)
    BY <1>1, QSetupStays
  <2> QED
    BY <2>1, <2>2, <2>3, <2>4 DEF ObserverInv
<1>13. HooksInv'
  <2>1. hooks = {h \in Steps \X QuantModules :
                   /\ modifiers[h[1]].kind # "quantization" /\ h[2] \in modifiers[h[1]].targets
                   /\ Me - 1 < h[1] /\ h[1] <= Begun}
    BY <1>4 DEF RunInv, HooksInv
  <2>2. \A i \in Steps : Me < i <=> Me - 1 < i /\ i # Me
    BY <1>5, StepNumbers
  <2>3. \A h \in Steps \X QuantModules : h[1] \in Steps
    OBVIOUS
  <2>4. hooks' = {h \in Steps \X QuantModules :
                   /\ modifiers[h[1]].kind # "quantization" /\ h[2] \in modifiers[h[1]].targets
                   /\ Me < h[1] /\ h[1] <= Begun}
    BY <1>8, <2>1, <2>2, <2>3
  <2>5. Steps' = Steps /\ modifiers' = modifiers
    BY <1>1, QSetupStays
  <2> QED
    BY <1>4, <2>4, <2>5 DEF HooksInv
<1>14. HessiansInv'
  BY <1>1, <1>3, NoHessians DEF RunInv
<1>15. ImportanceInv'
  BY <1>1, <1>3, ImportanceKept DEF RunInv
<1>16. StatisticsInv'
  BY <1>1, <1>4, StatisticsKept DEF RunInv
<1>17. WeightInv' /\ ScaleInv' /\ OnceInv'
  <2>1. WeightInv'
    BY <1>1, <1>4, WeightKept DEF RunInv
  <2>2. ScaleInv'
    BY <1>1, <1>4, ScaleKept DEF RunInv
  <2>3. OnceInv'
    BY <1>1, <1>4, OnceKept DEF RunInv
  <2> QED
    BY <2>1, <2>2, <2>3
<1> QED
  BY <1>3, <1>11, <1>12, <1>13, <1>14, <1>15, <1>16, <1>17 DEF RunInv

-----------------------------------------------------------------------------
(* At the end of an epoch the live modules are those with an observer. *)
LEMMA EpochLive ==
  ASSUME QSetupOK, RunInv, nextEvent = "epoch"
  PROVE  /\ Ended = Over /\ Started = Begun
         /\ \A m : IsLive(m) <=> \E i \in Steps : Over < i /\ i <= Begun /\ Quantizes(i, m)
         /\ \A m : Quantizes(Me, m) => IsLive(m)
         /\ \A m \in Epochs[epoch] : m \in QuantModules /\ Past(m) = Me - 1
         /\ \A m \in QuantModules : observer[m] # 0 <=> IsLive(m)
         /\ \A m \in QuantModules : IsLive(m) => qStatus[m] # "none"
<1>1. PlaceInv
  BY DEF RunInv
<1>2. Me \in Steps /\ Over < Me /\ Me <= Begun /\ Over \in Nat
  BY <1>1, MeFacts
<1>3. Ended = Over /\ Started = Begun
  BY DEF Ended, Started
<1>4. \A m : IsLive(m) <=> \E i \in Steps : Over < i /\ i <= Begun /\ Quantizes(i, m)
  <2>1. \A i \in Steps : ~ (Over < i /\ i <= Over)
    BY <1>2, StepNumbers
  <2> QED
    BY <1>3, <2>1 DEF IsLive, AnyQuantizes
<1>5. \A m : Quantizes(Me, m) => IsLive(m)
  BY <1>2, <1>4
<1>6. \A m \in Epochs[epoch] : m \in QuantModules /\ Past(m) = Me - 1
  <2>1. epoch \in Nat \ {0} /\ epoch <= Len(Epochs) /\ Len(Epochs) \in Nat
    BY <1>1, EpochFacts DEF PlaceInv
  <2>2. epoch \in 1 .. Len(Epochs)
    BY <2>1
  <2>3. Epochs[epoch] \subseteq QuantModules
    BY <2>2, EpochFacts
  <2> QED
    BY <1>1, <2>3, PastFacts
<1>7. ASSUME NEW m \in QuantModules PROVE observer[m] # 0 <=> IsLive(m)
  <2>1. observer[m] = (IF IsLive(m) THEN attached[m] ELSE 0) /\ (IsLive(m) => attached[m] # 0)
    BY DEF RunInv, ObserverInv
  <2> QED
    BY <2>1
<1>8. \A m \in QuantModules : IsLive(m) => qStatus[m] # "none"
  BY DEF RunInv, StatusInv
<1> QED
  BY <1>3, <1>4, <1>5, <1>6, <1>7, <1>8

LEMMA ObservableIs ==
  ASSUME QSetupOK, RunInv, nextEvent = "epoch"
  PROVE  \A m : m \in Observable <=> m \in Epochs[epoch] /\ IsLive(m) /\ statistics[m] = Absent
BY EpochLive DEF Observable, Epoch

(* Importance is observed twice where a modifier before this one has taken it. *)
LEMMA RaisingIsTwice ==
  ASSUME QSetupOK, RunInv, nextEvent = "epoch", IsQuantizer(Me), ObservingRaises
  PROVE  \E m \in important : IsObservedTwice(m)
<1>1. PICK m \in Observable : importance[m] = "deleted"
  BY DEF ObservingRaises
<1>2. m \in Epochs[epoch] /\ IsLive(m) /\ m \in QuantModules /\ Past(m) = Me - 1
  BY <1>1, ObservableIs, EpochLive
<1>3. m \in important
  BY <1>1, <1>2 DEF RunInv, ImportanceInv
<1>4. AnyTakes(m, Over, Past(m))
  BY <1>1, <1>2, <1>3 DEF RunInv, ImportanceInv
<1>5. PICK i \in Steps : Over < i /\ i <= Me - 1 /\ Takes(i, m)
  BY <1>2, <1>4 DEF AnyTakes
<1>6. PlaceInv
  BY DEF RunInv
<1>7. Me \in Steps /\ i < Me
  BY <1>5, <1>6, MeFacts, StepNumbers
<1>8. ~ isIndependent
  BY <1>5, <1>6, <1>7, OnePipeline
<1>9. i \in DOMAIN modifiers /\ Me \in DOMAIN modifiers
  BY <1>7 DEF Steps
<1>10. IsObservedTwice(m)
  BY <1>5, <1>7, <1>8, <1>9 DEF IsObservedTwice, Takes
<1> QED
  BY <1>3, <1>10

(* Where nothing raises the importance of a live module is there. *)
LEMMA NotTakenBefore ==
  ASSUME QSetupOK, RunInv, nextEvent = "epoch", ~ ObservingRaises,
         NEW m \in important, m \in Epochs[epoch], IsLive(m)
  PROVE  ~ AnyTakes(m, Over, Past(m)) /\ importance[m] = "collected"
<1>1. IF AnyTakes(m, Over, Past(m)) THEN importance[m] = "deleted" /\ statistics[m] = Absent
                                    ELSE importance[m] = "collected"
  BY DEF RunInv, ImportanceInv
<1>2. ASSUME importance[m] = "deleted", statistics[m] = Absent PROVE FALSE
  BY <1>2, ObservableIs DEF ObservingRaises
<1> QED
  BY <1>1, <1>2

(* The modifiers that have had the epoch end of a module of this epoch, and this one. *)
LEMMA UpToMe ==
  ASSUME QSetupOK, RunInv, nextEvent = "epoch"
  PROVE  \A i \in Steps : i <= Me <=> i <= Me - 1 \/ i = Me
<1>1. Me \in Nat
  <2>1. PlaceInv
    BY DEF RunInv
  <2> QED
    BY <2>1, MeFacts
<1> QED
  BY <1>1, StepNumbers

(* What no epoch end changes: status, observers and hooks. *)
LEMMA EpochKept ==
  ASSUME QSetupOK, RunInv, nextEvent = "epoch", HandledThen(NextEpoch),
         UNCHANGED <<qSetup, observer, attached, importanceHooks, qStatus, hooks>>,
         hessians' = {h \in hessians : h[1] # Me}
  PROVE  /\ PlaceInv' /\ StatusInv' /\ ObserverInv' /\ HooksInv' /\ HessiansInv'
         /\ Over' = Over /\ Epochs' = Epochs
         /\ nextEvent' = "epoch" => epoch' = epoch
         /\ \A m : IsLive(m)' <=> IsLive(m)
         /\ \A m \in QuantModules :
              Past(m)' = IF m \in Epochs[epoch] THEN Me ELSE Past(m)
<1>1. PlaceInv
  BY DEF RunInv
<1>2. /\ PlaceInv' /\ Over' = Over /\ Begun' = Begun /\ Epochs' = Epochs
      /\ \/ nextEvent' = "epoch" /\ turn' = turn + 1 /\ epoch' = epoch
         \/ /\ nextEvent' = "forward" /\ turn' = 1 /\ epoch' = epoch + 1
            /\ Over + turn = Begun
         \/ /\ nextEvent' = "end" /\ turn' = 1 /\ epoch = Len(Epochs) /\ Over + turn = Begun
  BY <1>1, EpochPlace
<1>3. /\ Ended' = Ended /\ Started' = Started
      /\ \A m : IsLive(m)' <=> IsLive(m)
      /\ \A m \in QuantModules :
           Past(m)' = IF m \in Epochs[epoch] THEN Me ELSE Past(m)
  BY <1>1, EpochProgress
<1>4. StatusInv'
  BY <1>2, <1>3, StatusKept DEF RunInv
<1>5. ObserverInv'
  BY <1>3, ObserverKept DEF RunInv
<1>6. HooksInv'
  BY <1>3, HooksKept DEF RunInv
<1>7. HessiansInv'
  <2>1. Me = Over + turn /\ Me \in Nat /\ Over \in Nat /\ turn \in Nat /\ Begun \in Nat
        /\ Me <= Begun
    BY <1>1, MeFacts, StepNumbers
  <2>2. hessians = {h \in Steps \X QuantModules :
                      /\ h[2] \in Epochs[epoch] /\ Rounds(h[1], h[2])
                      /\ Me <= h[1] /\ h[1] <= Begun}
    BY <2>1 DEF RunInv, HessiansInv
  <2>3. \A h \in Steps \X QuantModules : h[1] \in Steps
    OBVIOUS
  <2>4. Steps' = Steps /\ \A i, m : Rounds(i, m)' = Rounds(i, m)
    BY QSetupStays
  <2>5. CASE nextEvent' = "epoch" /\ turn' = turn + 1 /\ epoch' = epoch
    <3>1. \A i \in Steps : Me <= i /\ i # Me <=> Over + (turn + 1) <= i
      BY <2>1, StepNumbers
    <3>2. hessians' = {h \in Steps \X QuantModules :
                         /\ h[2] \in Epochs[epoch] /\ Rounds(h[1], h[2])
                         /\ Over + (turn + 1) <= h[1] /\ h[1] <= Begun}
      BY <2>2, <2>3, <3>1
    <3> QED
      BY <1>2, <2>4, <2>5, <3>2 DEF HessiansInv
  <2>6. CASE nextEvent' # "epoch" /\ Me = Begun
    <3>1. \A i \in Steps : Me <= i /\ i <= Me => i = Me
      BY <2>1, StepNumbers
    <3>2. hessians' = {}
      BY <2>2, <2>3, <2>6, <3>1
    <3> QED
      BY <2>6, <3>2 DEF HessiansInv
  <2> QED
    BY <1>2, <2>1, <2>5, <2>6
<1> QED
  BY <1>2, <1>3, <1>4, <1>5, <1>6, <1>7

(* A modifier that rounds nothing has no Hessians to give up. *)
LEMMA NoHessiansOfMine ==
  ASSUME QSetupOK, RunInv, nextEvent = "epoch", modifiers[Me].kind # "gptq"
  PROVE  hessians = {h \in hessians : h[1] # Me}
<1>1. \A h \in hessians : Rounds(h[1], h[2])
  BY DEF RunInv, HessiansInv
<1> QED
  BY <1>1 DEF Rounds

(* An epoch end is never taken back. *)
LEMMA PastGrows ==
  ASSUME QSetupOK, RunInv, nextEvent = "epoch", NEW m \in QuantModules,
         Past(m)' = IF m \in Epochs[epoch] THEN Me ELSE Past(m)
  PROVE  \A i \in Steps : i <= Past(m) => i <= Past(m)'
<1>1. CASE m \in Epochs[epoch]
  BY <1>1, EpochLive, UpToMe
<1>2. CASE m \notin Epochs[epoch]
  BY <1>2
<1> QED
  BY <1>1, <1>2

(* An epoch end that does not raise is the first to read the importance it needs. *)
LEMMA OnceNext ==
  ASSUME QSetupOK, RunInv, nextEvent = "epoch", UNCHANGED qSetup,
         ~ IsQuantizer(Me) \/ ~ ObservingRaises,
         \A m \in QuantModules :
           Past(m)' = IF m \in Epochs[epoch] THEN Me ELSE Past(m)
  PROVE  OnceInv'
<1>1. PlaceInv /\ important \subseteq Configured /\ Configured \subseteq QuantModules
  BY RecipeFacts DEF RunInv, QSetupOK
<1>2. ASSUME NEW m \in important, NEW i \in Steps, NEW j \in Steps,
             ~ isIndependent, i < j, j <= Past(m)', Takes(i, m), IsQuantizer(j)
      PROVE  FALSE
  <2>1. ~ (j <= Past(m))
    BY <1>2 DEF RunInv, OnceInv
  <2>2. m \in QuantModules
    BY <1>1
  <2>3. m \in Epochs[epoch] /\ Past(m)' = Me /\ Past(m) = Me - 1
    BY <1>2, <2>1, <2>2, EpochLive
  <2>4. j = Me
    BY <1>2, <2>1, <2>3, UpToMe
  <2>5. Over = 0 /\ Begun = Len(modifiers)
    BY <1>1, <1>2 DEF PlaceInv
  <2>6. IsLive(m)
    <3>1. PICK k \in Steps : Quantizes(k, m)
      BY <1>1, RecipeFacts
    <3>2. Over < k /\ k <= Begun
      BY <2>5, StepNumbers
    <3> QED
      BY <3>1, <3>2, EpochLive
  <2>7. ~ AnyTakes(m, Over, Past(m))
    BY <1>2, <2>3, <2>4, <2>6, NotTakenBefore
  <2>8. Over < i /\ i <= Me - 1
    <3>1. i \in Nat \ {0} /\ Me \in Nat
      BY <1>1, MeFacts, StepNumbers
    <3> QED
      BY <1>2, <2>4, <2>5, <3>1
  <2> QED
    BY <1>2, <2>3, <2>7, <2>8 DEF AnyTakes
<1> QED
  BY <1>2, QSetupStays DEF OnceInv

-----------------------------------------------------------------------------
(* A weight that was rounded fits the grid it was rounded to. *)
LEMMA RoundedFits ==
  ASSUME NEW w \in Seq(Works)
  PROVE  /\ Append(w, "round") \in Seq(Works) /\ Append(w, "round") # <<>>
         /\ Last(Append(w, "round")) = "round" /\ Front(Append(w, "round")) = w
<1>1. "round" \in Works
  BY DEF Works
<1>2. Append(w, "round") \in Seq(Works) /\ Len(Append(w, "round")) = Len(w) + 1 /\ Len(w) \in Nat
  BY <1>1
<1>3. Append(w, "round") # <<>> /\ Append(w, "round")[Len(w) + 1] = "round"
  BY <1>1, <1>2
<1>4. Last(Append(w, "round")) = "round"
  BY <1>2, <1>3 DEF Last
<1>5. Front(Append(w, "round")) = w
  <2>1. Front(Append(w, "round")) = [i \in 1 .. Len(w) |-> Append(w, "round")[i]]
    BY <1>2 DEF Front
  <2>2. \A i \in 1 .. Len(w) : Append(w, "round")[i] = w[i]
    BY <1>1
  <2>3. w = [i \in 1 .. Len(w) |-> w[i]]
    BY SeqIs
  <2> QED
    BY <2>1, <2>2, <2>3
<1> QED
  BY <1>2, <1>3, <1>4, <1>5

LEMMA SmoothedIs ==
  ASSUME NEW w \in Seq(Works)
  PROVE  /\ Append(w, "smooth") \in Seq(Works)
         /\ Last(Append(w, "smooth")) = "smooth"
<1>1. "smooth" \in Works
  BY DEF Works
<1>2. Append(w, "smooth") \in Seq(Works) /\ Len(Append(w, "smooth")) = Len(w) + 1 /\ Len(w) \in Nat
  BY <1>1
<1>3. Append(w, "smooth")[Len(w) + 1] = "smooth"
  BY <1>1, <1>2
<1>4. Last(Append(w, "smooth")) = "smooth"
  BY <1>2, <1>3 DEF Last
<1> QED
  BY <1>2, <1>4

(* Where a scale is taken it is that of the weight, unless it may be stale. *)
LEMMA ObservedFits ==
  ASSUME QSetupOK, RunInv, nextEvent = "epoch", NEW m \in QuantModules, m \in Epochs[epoch],
         IsLive(m), ~ MayBeStale(m)
  PROVE  Observed[m] = weight[m]
<1>1. statistics[m] \in {Absent, weight[m]}
  BY DEF RunInv, StatisticsInv
<1>2. m \in Observable <=> statistics[m] = Absent
  BY ObservableIs
<1> QED
  BY <1>1, <1>2 DEF Observed

(* A weight that was rounded before a data-free modifier takes its scale. *)
LEMMA RoundedIsStale ==
  ASSUME QSetupOK, RunInv, nextEvent = "epoch", modifiers[Me].kind = "quantization",
         NEW m \in QuantModules, m \in Epochs[epoch], IsLive(m), EndsRounded(m)
  PROVE  MayBeStale(m)
<1>1. Past(m) = Me - 1 /\ PlaceInv
  BY EpochLive DEF RunInv
<1>2. Me \in Steps /\ Me \in Nat /\ Over < Me /\ Me <= Begun /\ Over \in Nat
  BY <1>1, MeFacts, StepNumbers
<1>3. PICK i \in Steps : i <= Me - 1 /\ Rounds(i, m)
  BY <1>1 DEF RunInv, WeightInv, AnyRounds
<1>4. i < Me
  <2>1. Me \in Nat /\ i \in Nat /\ i <= Me - 1
    BY <1>2, <1>3, StepNumbers
  <2> QED
    BY <2>1
<1>5. CASE isIndependent
  <2>1. \A k \in Nat : Over < k /\ k <= Begun => k = Over + 1
    <3>1. Begun = Over + 1
      BY <1>1, <1>5 DEF PlaceInv
    <3> QED
      BY <1>2, <3>1
  <2>2. PICK k \in Steps : Over < k /\ k <= Begun /\ Quantizes(k, m)
    BY EpochLive
  <2>3. k = Me
    <3>1. k \in Nat
      BY StepNumbers
    <3>2. k = Over + 1 /\ Me = Over + 1
      BY <1>2, <2>1, <2>2, <3>1
    <3> QED
      BY <3>2
  <2>4. Quantizes(Me, m)
    BY <2>2, <2>3
  <2>5. Quantizes(i, m) /\ modifiers[i].kind = "gptq"
    BY <1>3 DEF Quantizes, Rounds, IsQuantizer
  <2>6. modifiers[i].kind = "quantization"
    BY <1>2, <1>4, <2>4, <2>5, RecipeOrder
  <2> QED
    BY <2>5, <2>6
<1>6. CASE ~ isIndependent
  BY <1>2, <1>3, <1>4, <1>6 DEF MayBeStale, Rounds, Steps
<1> QED
  BY <1>5, <1>6

(* The epoch end of a quantizer that does not raise: S are the modules it takes the scales of. *)
LEMMA TakingOK ==
  ASSUME QSetupOK, RunInv, nextEvent = "epoch", IsQuantizer(Me), ~ ObservingRaises,
         UNCHANGED qSetup, HandledThen(NextEpoch),
         UNCHANGED <<observer, attached, importanceHooks, qStatus, hooks>>,
         hessians' = {h \in hessians : h[1] # Me},
         NEW S, \A m : m \in S <=> m \in Epochs[epoch] /\ IsLive(m) /\ Takes(Me, m),
         TakeScales(S),
         weight' = IF modifiers[Me].kind = "gptq"
                   THEN [m \in QuantModules |-> IF m \in S THEN Append(weight[m], "round")
                                                          ELSE weight[m]]
                   ELSE weight
  PROVE  RunInv'
<1>1. PlaceInv /\ Me \in Steps /\ Me \in Nat /\ Over < Me /\ Over \in Nat
  BY MeFacts, StepNumbers DEF RunInv
<1>2. /\ PlaceInv' /\ StatusInv' /\ ObserverInv' /\ HooksInv' /\ HessiansInv'
      /\ Over' = Over /\ Epochs' = Epochs
      /\ nextEvent' = "epoch" => epoch' = epoch
      /\ \A m : IsLive(m)' <=> IsLive(m)
      /\ \A m \in QuantModules :
           Past(m)' = IF m \in Epochs[epoch] THEN Me ELSE Past(m)
  BY EpochKept
<1>0. Over' = Over
  BY <1>2
<1>3. /\ \A m \in Epochs[epoch] : m \in QuantModules /\ Past(m) = Me - 1
      /\ \A m : Quantizes(Me, m) => IsLive(m)
  BY EpochLive
<1>4. modifiers[Me].kind \in {"gptq", "quantization"}
  BY <1>1, RecipeFacts DEF IsQuantizer
<1>5. important \subseteq QuantModules /\ important' = important
  BY RecipeFacts, QSetupStays DEF QSetupOK
<1>6. /\ scale' = [m \in QuantModules |-> IF m \in S THEN Observed[m] ELSE scale[m]]
      /\ isInformed' = [m \in QuantModules |->
           IF m \in S THEN importance[m] = "collected" ELSE isInformed[m]]
      /\ statistics' = [m \in QuantModules |-> IF m \in S THEN Absent ELSE Observed[m]]
      /\ importance' = [m \in QuantModules |->
           IF m \in S \cap important THEN "deleted" ELSE importance[m]]
  BY DEF TakeScales
<1>7. ASSUME NEW m \in QuantModules, m \notin S
      PROVE  weight'[m] = weight[m] /\ scale'[m] = scale[m] /\ isInformed'[m] = isInformed[m]
  BY <1>6, <1>7
<1>8. ASSUME NEW m \in QuantModules, m \notin Epochs[epoch]
      PROVE  statistics'[m] = statistics[m] /\ m \notin S
  <2>1. m \notin Observable /\ m \notin S
    BY <1>8, ObservableIs
  <2> QED
    BY <1>6, <2>1 DEF Observed
<1>9. ImportanceInv'
  <2>1. \A m \in QuantModules \ important : importance'[m] # "deleted"
    BY <1>6 DEF RunInv, ImportanceInv
  <2>2. ASSUME nextEvent' = "epoch", NEW m \in important, m \in Epochs[epoch], IsLive(m)
        PROVE  IF AnyTakes(m, Over, Past(m))'
               THEN importance'[m] = "deleted" /\ statistics'[m] = Absent
               ELSE importance'[m] = "collected"
    <3>1. ~ AnyTakes(m, Over, Past(m)) /\ importance[m] = "collected" /\ m \in QuantModules
      BY <1>5, <2>2, NotTakenBefore
    <3>2. Past(m)' = Me /\ Past(m) = Me - 1
      BY <1>2, <1>3, <2>2, <3>1
    <3>3. AnyTakes(m, Over, Past(m))' <=> Takes(Me, m)
      <4>1. AnyTakes(m, Over, Past(m))'
              <=> \E i \in Steps : Over < i /\ i <= Me /\ Takes(i, m)
        BY <1>0, <3>2, QSetupStays DEF AnyTakes
      <4>2. ~ \E i \in Steps : Over < i /\ i <= Me - 1 /\ Takes(i, m)
        BY <3>1, <3>2 DEF AnyTakes
      <4> QED
        BY <1>1, <4>1, <4>2, UpToMe
    <3>4. CASE Takes(Me, m)
      <4>1. m \in S \cap important
        BY <2>2, <3>4
      <4> QED
        BY <1>6, <3>1, <3>3, <3>4, <4>1
    <3>5. CASE ~ Takes(Me, m)
      <4>1. m \notin S
        BY <3>5
      <4> QED
        BY <1>6, <3>1, <3>3, <3>5, <4>1
    <3> QED
      BY <3>4, <3>5
  <2>3. nextEvent' = "epoch" =>
          \A m \in important' : m \in Epochs'[epoch'] /\ IsLive(m)' =>
            IF AnyTakes(m, Over, Past(m))'
            THEN importance'[m] = "deleted" /\ statistics'[m] = Absent
            ELSE importance'[m] = "collected"
    BY <1>2, <1>5, <2>2
  <2>4. \A m \in QuantModules \ important' : importance'[m] # "deleted"
    BY <1>5, <2>1
  <2> QED
    BY <2>3, <2>4 DEF ImportanceInv, Absent
<1>10. StatisticsInv'
  <2>1. ASSUME NEW m \in QuantModules, IsLive(m), ~ AnyGPTQ(Over, Past(m))'
        PROVE  statistics'[m] = Absent
    <3>1. CASE m \in Epochs[epoch]
      <4>1. Past(m)' = Me
        BY <1>2, <3>1
      <4>2. ~ \E i \in Steps : Over < i /\ i <= Me /\ modifiers[i].kind = "gptq"
        BY <1>0, <2>1, <4>1, QSetupStays DEF AnyGPTQ
      <4>3. modifiers[Me].kind # "gptq"
        BY <1>1, <4>2
      <4>4. m \in S
        BY <2>1, <3>1, <4>3 DEF Takes
      <4> QED
        BY <1>6, <4>4
    <3>2. CASE m \notin Epochs[epoch]
      <4>1. Past(m)' = Past(m)
        BY <1>2, <3>2
      <4>2. ~ AnyGPTQ(Over, Past(m))
        BY <1>0, <2>1, <4>1, QSetupStays DEF AnyGPTQ
      <4>3. statistics[m] = Absent
        BY <2>1, <4>2 DEF RunInv, StatisticsInv
      <4> QED
        BY <1>8, <3>2, <4>3
    <3> QED
      BY <3>1, <3>2
  <2>2. ASSUME NEW m \in QuantModules, IsLive(m), ~ MayBeStale(m)
        PROVE  statistics'[m] \in {Absent, weight'[m]}
    <3>1. CASE m \in S
      BY <1>6, <3>1
    <3>2. CASE m \notin S /\ m \in Epochs[epoch]
      <4>1. Observed[m] = weight[m]
        BY <2>2, <3>2, ObservedFits
      <4> QED
        BY <1>6, <1>7, <3>2, <4>1
    <3>3. CASE m \notin Epochs[epoch]
      <4>1. statistics[m] \in {Absent, weight[m]}
        BY <2>2 DEF RunInv, StatisticsInv
      <4> QED
        BY <1>7, <1>8, <3>3, <4>1
    <3> QED
      BY <3>1, <3>2, <3>3
  <2>3. \A m : MayBeStale(m)' = MayBeStale(m)
    BY QSetupStays
  <2> QED
    BY <1>2, <2>1, <2>2, <2>3 DEF StatisticsInv, Absent
<1>11. WeightInv'
  <2>1. ASSUME NEW m \in QuantModules
        PROVE  weight'[m] \in Seq(Works) /\ (EndsRounded(m)' => AnyRounds(m, Past(m))')
    <3>1. weight[m] \in Seq(Works) /\ (EndsRounded(m) => AnyRounds(m, Past(m)))
      BY DEF RunInv, WeightInv
    <3>2. Past(m)' = IF m \in Epochs[epoch] THEN Me ELSE Past(m)
      BY <1>2
    <3>3. CASE m \in S /\ modifiers[Me].kind = "gptq"
      <4>1. weight'[m] \in Seq(Works)
        BY <3>1, <3>3, RoundedFits
      <4>2. Rounds(Me, m) /\ Past(m)' = Me
        BY <3>2, <3>3 DEF Takes, Rounds
      <4>3. AnyRounds(m, Past(m))'
        BY <1>1, <4>2, QSetupStays DEF AnyRounds
      <4> QED
        BY <4>1, <4>3
    <3>4. CASE ~ (m \in S /\ modifiers[Me].kind = "gptq")
      <4>1. weight'[m] = weight[m]
        BY <3>4
      <4>2. AnyRounds(m, Past(m)) => AnyRounds(m, Past(m))'
        BY <3>2, PastGrows, QSetupStays DEF AnyRounds
      <4>3. EndsRounded(m)' <=> EndsRounded(m)
        BY <4>1 DEF EndsRounded
      <4> QED
        BY <3>1, <4>1, <4>2, <4>3
    <3> QED
      BY <3>3, <3>4
  <2> QED
    BY <2>1 DEF WeightInv, Works
<1>12. ScaleInv'
  <2>1. ASSUME NEW m \in QuantModules, m \in S
        PROVE  /\ Fits(m)' \/ MayBeStale(m)
               /\ m \in important => isInformed'[m]
    <3>1. m \in Epochs[epoch] /\ IsLive(m) /\ Takes(Me, m) /\ scale'[m] = Observed[m]
      BY <1>6, <2>1
    <3>2. m \in important => isInformed'[m]
      BY <1>6, <2>1, <3>1, NotTakenBefore
    <3>3. ASSUME ~ MayBeStale(m) PROVE Fits(m)'
      <4>1. scale'[m] = weight[m]
        BY <3>1, <3>3, ObservedFits
      <4>2. CASE modifiers[Me].kind = "gptq"
        <5>1. weight[m] \in Seq(Works)
          BY DEF RunInv, WeightInv
        <5>2. weight'[m] = Append(weight[m], "round")
          BY <2>1, <4>2
        <5> QED
          BY <4>1, <5>1, <5>2, RoundedFits DEF Fits
      <4>3. CASE modifiers[Me].kind = "quantization"
        <5>1. weight'[m] = weight[m]
          BY <4>3
        <5>2. ~ EndsRounded(m)
          BY <3>1, <3>3, <4>3, RoundedIsStale
        <5> QED
          BY <4>1, <5>1, <5>2 DEF Fits, EndsRounded
      <4> QED
        BY <1>4, <4>2, <4>3
    <3> QED
      BY <3>2, <3>3
  <2>2. ASSUME NEW m \in QuantModules, m \notin S, AnyQuantizes(m, 0, Past(m))'
        PROVE  /\ Fits(m)' \/ MayBeStale(m)
               /\ m \in important => isInformed'[m]
    <3>1. AnyQuantizes(m, 0, Past(m))
      <4>1. PICK i \in Steps : 0 < i /\ i <= Past(m)' /\ Quantizes(i, m)
        BY <2>2, QSetupStays DEF AnyQuantizes
      <4>2. CASE m \in Epochs[epoch]
        <5>1. Past(m)' = Me /\ Past(m) = Me - 1
          BY <1>2, <1>3, <4>2
        <5>2. i # Me
          BY <1>3, <2>2, <4>1, <4>2 DEF Takes, Quantizes
        <5>3. i <= Past(m)
          BY <4>1, <5>1, <5>2, UpToMe
        <5> QED
          BY <4>1, <5>3 DEF AnyQuantizes
      <4>3. CASE m \notin Epochs[epoch]
        BY <1>2, <4>1, <4>3 DEF AnyQuantizes
      <4> QED
        BY <4>2, <4>3
    <3>2. Fits(m) \/ MayBeStale(m)
      BY <3>1 DEF RunInv, ScaleInv
    <3>3. m \in important => isInformed[m]
      BY <3>1 DEF RunInv, ScaleInv
    <3>4. Fits(m)' <=> Fits(m)
      BY <1>7, <2>2 DEF Fits
    <3> QED
      BY <1>7, <2>2, <3>2, <3>3, <3>4
  <2>3. \A m : MayBeStale(m)' = MayBeStale(m)
    BY QSetupStays
  <2> QED
    BY <1>5, <2>1, <2>2, <2>3 DEF ScaleInv
<1>13. OnceInv'
  BY <1>2, OnceNext
<1> QED
  BY <1>2, <1>9, <1>10, <1>11, <1>12, <1>13 DEF RunInv

-----------------------------------------------------------------------------
(* The three epoch ends keep the invariant, or raise where importance is observed twice. *)
LEMMA QuantizerEpochEndOK ==
  ASSUME QSetupOK, RunInv, QuantizerEpochEnd
  PROVE  IF ObservingRaises THEN nextEvent' = "raised" /\ \E m \in important : IsObservedTwice(m)
         ELSE RunInv'
<1>1. /\ UNCHANGED qSetup /\ nextEvent = "epoch" /\ modifiers[Me].kind = "quantization"
      /\ UNCHANGED <<observer, attached, importanceHooks, qStatus, weight, hooks, hessians>>
  BY DEF QuantizerEpochEnd, Handling
<1>2. IsQuantizer(Me) /\ \A m : Takes(Me, m)
  BY <1>1 DEF IsQuantizer, Takes
<1>3. CASE ObservingRaises
  <2>1. nextEvent' = "raised"
    BY <1>3 DEF QuantizerEpochEnd, RaiseError
  <2> QED
    BY <1>1, <1>2, <1>3, <2>1, RaisingIsTwice
<1>4. CASE ~ ObservingRaises
  <2> DEFINE S == {m \in Epoch : observer[m] # 0}
  <2>1. TakeScales(S) /\ HandledThen(NextEpoch)
    BY <1>4 DEF QuantizerEpochEnd
  <2>2. \A m : m \in S <=> m \in Epochs[epoch] /\ IsLive(m) /\ Takes(Me, m)
    BY <1>1, <1>2, EpochLive DEF Epoch
  <2>3. hessians' = {h \in hessians : h[1] # Me}
    BY <1>1, NoHessiansOfMine
  <2>4. weight' = IF modifiers[Me].kind = "gptq"
                  THEN [m \in QuantModules |-> IF m \in S THEN Append(weight[m], "round")
                                                         ELSE weight[m]]
                  ELSE weight
    BY <1>1
  <2> HIDE DEF S
  <2>5. RunInv'
    BY <1>1, <1>2, <1>4, <2>1, <2>2, <2>3, <2>4, TakingOK
  <2> QED
    BY <1>4, <2>5
<1> QED
  BY <1>3, <1>4

LEMMA GPTQEpochEndOK ==
  ASSUME QSetupOK, RunInv, GPTQEpochEnd
  PROVE  IF ObservingRaises THEN nextEvent' = "raised" /\ \E m \in important : IsObservedTwice(m)
         ELSE RunInv'
<1>1. /\ UNCHANGED qSetup /\ nextEvent = "epoch" /\ modifiers[Me].kind = "gptq"
      /\ UNCHANGED <<observer, attached, importanceHooks, qStatus, hooks>>
  BY DEF GPTQEpochEnd, Handling
<1>2. IsQuantizer(Me) /\ \A m : Takes(Me, m) <=> m \in modifiers[Me].targets
  BY <1>1 DEF IsQuantizer, Takes
<1>3. CASE ObservingRaises
  <2>1. nextEvent' = "raised"
    BY <1>3 DEF GPTQEpochEnd, RaiseError
  <2> QED
    BY <1>1, <1>2, <1>3, <2>1, RaisingIsTwice
<1>4. CASE ~ ObservingRaises
  <2> DEFINE S == {m \in QuantModules : <<Me, m>> \in hessians}
  <2>1. /\ TakeScales(S) /\ HandledThen(NextEpoch)
        /\ weight' = [m \in QuantModules |-> IF m \in S THEN Append(weight[m], "round")
                                                       ELSE weight[m]]
        /\ hessians' = {h \in hessians : h[1] # Me}
    BY <1>4 DEF GPTQEpochEnd
  <2>2. \A m : m \in S <=> m \in Epochs[epoch] /\ IsLive(m) /\ Takes(Me, m)
    <3>1. PlaceInv /\ Me = Over + turn /\ Me \in Steps /\ Me <= Begun /\ Me \in Nat
      BY MeFacts, StepNumbers DEF RunInv
    <3>2. hessians = {h \in Steps \X QuantModules :
                        /\ h[2] \in Epochs[epoch] /\ Rounds(h[1], h[2])
                        /\ Me <= h[1] /\ h[1] <= Begun}
      BY <1>1, <3>1 DEF RunInv, HessiansInv
    <3>3. Me <= Me
      BY <3>1
    <3>4. \A m \in QuantModules : m \in S <=> m \in Epochs[epoch] /\ Rounds(Me, m)
      BY <3>1, <3>2, <3>3
    <3>5. \A m : Rounds(Me, m) <=> Takes(Me, m)
      BY <1>1, <1>2 DEF Rounds
    <3>6. \A m : Takes(Me, m) => IsLive(m)
      BY <1>1, <1>2, EpochLive DEF Quantizes
    <3>7. \A m \in Epochs[epoch] : m \in QuantModules
      BY <1>1, EpochLive
    <3> QED
      BY <3>4, <3>5, <3>6, <3>7
  <2> HIDE DEF S
  <2>3. weight' = IF modifiers[Me].kind = "gptq"
                  THEN [m \in QuantModules |-> IF m \in S THEN Append(weight[m], "round")
                                                         ELSE weight[m]]
                  ELSE weight
    BY <1>1, <2>1
  <2>4. RunInv'
    BY <1>1, <1>2, <1>4, <2>1, <2>2, <2>3, TakingOK
  <2> QED
    BY <1>4, <2>4
<1> QED
  BY <1>3, <1>4

LEMMA AWQEpochEndOK ==
  ASSUME QSetupOK, RunInv, AWQEpochEnd
  PROVE  RunInv'
<1> DEFINE smoothed == Targets \cap Epochs[epoch]
<1>1. /\ UNCHANGED qSetup /\ nextEvent = "epoch" /\ modifiers[Me].kind = "awq"
      /\ HandledThen(NextEpoch)
      /\ UNCHANGED <<observer, attached, statistics, importance, importanceHooks>>
      /\ UNCHANGED <<qStatus, isInformed, hooks, hessians>>
      /\ weight' = [m \in QuantModules |->
           IF m \in smoothed THEN Append(weight[m], "smooth") ELSE weight[m]]
      /\ scale' = [m \in QuantModules |->
           IF m \in smoothed /\ qStatus[m] # "none" THEN Tried ELSE scale[m]]
  BY DEF AWQEpochEnd, Handling, qObservers
<1>2. \A m : m \in smoothed <=> m \in modifiers[Me].targets /\ m \in Epochs[epoch]
  BY DEF Targets
<1> HIDE DEF smoothed
<1>3. PlaceInv /\ Me \in Steps /\ Me \in Nat /\ Over < Me /\ Over \in Nat
  BY MeFacts, StepNumbers DEF RunInv
<1>4. hessians' = {h \in hessians : h[1] # Me}
  BY <1>1, NoHessiansOfMine
<1>5. /\ PlaceInv' /\ StatusInv' /\ ObserverInv' /\ HooksInv' /\ HessiansInv'
      /\ Over' = Over /\ Epochs' = Epochs
      /\ nextEvent' = "epoch" => epoch' = epoch
      /\ \A m : IsLive(m)' <=> IsLive(m)
      /\ \A m \in QuantModules :
           Past(m)' = IF m \in Epochs[epoch] THEN Me ELSE Past(m)
  BY <1>1, <1>4, EpochKept
<1>6. Over' = Over
  BY <1>5
<1>7. \A m \in Epochs[epoch] : m \in QuantModules /\ Past(m) = Me - 1
  BY <1>1, EpochLive
<1>8. ~ IsQuantizer(Me) /\ \A m : ~ Takes(Me, m) /\ ~ Quantizes(Me, m)
  BY <1>1 DEF IsQuantizer, Takes, Quantizes
<1>9. important \subseteq QuantModules /\ important' = important
  BY <1>1, RecipeFacts, QSetupStays DEF QSetupOK
<1>10. ASSUME NEW m \in QuantModules, NEW i \in Steps, i <= Past(m)', i # Me
       PROVE  i <= Past(m)
  <2>1. Past(m)' = IF m \in Epochs[epoch] THEN Me ELSE Past(m)
    BY <1>5
  <2> QED
    BY <1>1, <1>7, <1>10, <2>1, UpToMe
<1>11. ImportanceInv'
  <2>1. ASSUME nextEvent' = "epoch", NEW m \in important, m \in Epochs[epoch], IsLive(m)
        PROVE  IF AnyTakes(m, Over, Past(m))'
               THEN importance'[m] = "deleted" /\ statistics'[m] = Absent
               ELSE importance'[m] = "collected"
    <3>1. IF AnyTakes(m, Over, Past(m)) THEN importance[m] = "deleted" /\ statistics[m] = Absent
                                        ELSE importance[m] = "collected"
      BY <1>1, <2>1 DEF RunInv, ImportanceInv
    <3>2. AnyTakes(m, Over, Past(m))' => AnyTakes(m, Over, Past(m))
      <4>1. AnyTakes(m, Over, Past(m))'
              => \E i \in Steps : Over < i /\ i <= Past(m)' /\ Takes(i, m)
        BY <1>1, <1>6, QSetupStays DEF AnyTakes
      <4> QED
        BY <1>8, <1>9, <1>10, <4>1 DEF AnyTakes
    <3>3. AnyTakes(m, Over, Past(m)) => AnyTakes(m, Over, Past(m))'
      <4>1. Past(m)' = IF m \in Epochs[epoch] THEN Me ELSE Past(m)
        BY <1>5, <1>9
      <4>2. \A i \in Steps : i <= Past(m) => i <= Past(m)'
        BY <1>1, <1>9, <4>1, PastGrows
      <4> QED
        BY <1>1, <1>6, <4>2, QSetupStays DEF AnyTakes
    <3> QED
      BY <1>1, <3>1, <3>2, <3>3
  <2>2. nextEvent' = "epoch" =>
          \A m \in important' : m \in Epochs'[epoch'] /\ IsLive(m)' =>
            IF AnyTakes(m, Over, Past(m))'
            THEN importance'[m] = "deleted" /\ statistics'[m] = Absent
            ELSE importance'[m] = "collected"
    BY <1>5, <1>9, <2>1
  <2>3. \A m \in QuantModules \ important' : importance'[m] # "deleted"
    BY <1>1, <1>9 DEF RunInv, ImportanceInv
  <2> QED
    BY <2>2, <2>3 DEF ImportanceInv, Absent
<1>12. StatisticsInv'
  <2>1. ASSUME NEW m \in QuantModules, IsLive(m), ~ AnyGPTQ(Over, Past(m))'
        PROVE  statistics'[m] = Absent
    <3>1. Past(m)' = IF m \in Epochs[epoch] THEN Me ELSE Past(m)
      BY <1>5
    <3>2. \A i \in Steps : i <= Past(m) => i <= Past(m)'
      BY <1>1, <3>1, PastGrows
    <3>3. ~ AnyGPTQ(Over, Past(m))
      BY <1>1, <1>6, <2>1, <3>2, QSetupStays DEF AnyGPTQ
    <3>4. statistics[m] = Absent
      BY <2>1, <3>3 DEF RunInv, StatisticsInv
    <3> QED
      BY <1>1, <3>4
  <2>2. ASSUME NEW m \in QuantModules, IsLive(m), ~ MayBeStale(m)
        PROVE  statistics'[m] \in {Absent, weight'[m]}
    <3>1. CASE m \in smoothed
      <4>1. Past(m) = Me - 1 /\ m \in modifiers[Me].targets
        BY <1>2, <1>7, <3>1
      <4>2. ASSUME NEW i \in Steps, Over < i, i <= Me - 1, modifiers[i].kind = "gptq"
            PROVE  FALSE
        <5>1. i < Me
          <6>1. Me \in Nat /\ i \in Nat /\ i <= Me - 1
            BY <1>3, <4>2, StepNumbers
          <6> QED
            BY <6>1
        <5>2. ~ isIndependent
          BY <1>1, <1>3, <4>2, <5>1, OnePipeline
        <5> QED
          BY <1>1, <1>3, <2>2, <4>1, <4>2, <5>1, <5>2 DEF MayBeStale, Steps
      <4>3. ~ AnyGPTQ(Over, Past(m))
        BY <4>1, <4>2 DEF AnyGPTQ
      <4>4. statistics[m] = Absent
        BY <2>2, <4>3 DEF RunInv, StatisticsInv
      <4> QED
        BY <1>1, <4>4
    <3>2. CASE m \notin smoothed
      <4>1. statistics[m] \in {Absent, weight[m]}
        BY <2>2 DEF RunInv, StatisticsInv
      <4> QED
        BY <1>1, <3>2, <4>1
    <3> QED
      BY <3>1, <3>2
  <2>3. \A m : MayBeStale(m)' = MayBeStale(m)
    BY <1>1, QSetupStays
  <2> QED
    BY <1>5, <2>1, <2>2, <2>3 DEF StatisticsInv, Absent
<1>13. WeightInv'
  <2>1. ASSUME NEW m \in QuantModules
        PROVE  weight'[m] \in Seq(Works) /\ (EndsRounded(m)' => AnyRounds(m, Past(m))')
    <3>1. weight[m] \in Seq(Works) /\ (EndsRounded(m) => AnyRounds(m, Past(m)))
      BY DEF RunInv, WeightInv
    <3>2. CASE m \in smoothed
      <4>1. weight'[m] = Append(weight[m], "smooth")
        BY <1>1, <3>2
      <4> QED
        BY <3>1, <4>1, SmoothedIs DEF EndsRounded
    <3>3. CASE m \notin smoothed
      <4>1. weight'[m] = weight[m]
        BY <1>1, <3>3
      <4>2. Past(m)' = IF m \in Epochs[epoch] THEN Me ELSE Past(m)
        BY <1>5
      <4>3. \A i \in Steps : i <= Past(m) => i <= Past(m)'
        BY <1>1, <4>2, PastGrows
      <4>4. AnyRounds(m, Past(m)) => AnyRounds(m, Past(m))'
        BY <1>1, <4>3, QSetupStays DEF AnyRounds
      <4>5. EndsRounded(m)' <=> EndsRounded(m)
        BY <4>1 DEF EndsRounded
      <4> QED
        BY <3>1, <4>1, <4>4, <4>5
    <3> QED
      BY <3>2, <3>3
  <2> QED
    BY <2>1 DEF WeightInv, Works
<1>14. ScaleInv'
  <2>1. ASSUME NEW m \in QuantModules, AnyQuantizes(m, 0, Past(m))'
        PROVE  /\ Fits(m)' \/ MayBeStale(m)
               /\ m \in important => isInformed'[m]
    <3>1. PICK i \in Steps : 0 < i /\ i <= Past(m)' /\ Quantizes(i, m)
      BY <1>1, <2>1, QSetupStays DEF AnyQuantizes
    <3>2. i # Me
      BY <1>8, <3>1
    <3>3. i <= Past(m)
      BY <1>10, <3>1, <3>2
    <3>4. AnyQuantizes(m, 0, Past(m))
      BY <3>1, <3>3 DEF AnyQuantizes
    <3>5. CASE m \in smoothed
      <4>1. m \in modifiers[Me].targets /\ i <= Me - 1
        BY <1>2, <1>7, <3>3, <3>5
      <4>2. i < Me
        BY <1>3, <4>1, StepNumbers
      <4> QED
        BY <1>1, <1>3, <3>1, <4>1, <4>2, RecipeOrder
    <3>6. CASE m \notin smoothed
      <4>1. weight'[m] = weight[m] /\ scale'[m] = scale[m] /\ isInformed'[m] = isInformed[m]
        BY <1>1, <3>6
      <4>2. Fits(m)' <=> Fits(m)
        BY <4>1 DEF Fits
      <4>3. Fits(m) \/ MayBeStale(m)
        BY <3>4 DEF RunInv, ScaleInv
      <4>4. m \in important => isInformed[m]
        BY <3>4 DEF RunInv, ScaleInv
      <4> QED
        BY <4>1, <4>2, <4>3, <4>4
    <3> QED
      BY <3>5, <3>6
  <2>2. \A m : MayBeStale(m)' = MayBeStale(m)
    BY <1>1, QSetupStays
  <2> QED
    BY <1>9, <2>1, <2>2 DEF ScaleInv
<1>15. OnceInv'
  BY <1>1, <1>5, <1>8, OnceNext
<1> QED
  BY <1>5, <1>11, <1>12, <1>13, <1>14, <1>15 DEF RunInv

-----------------------------------------------------------------------------
LEMMA QuantizersStarts ==
  ASSUME QuantizersAssumption, QuantizersInit
  PROVE  QuantizersInv
<1>1. QSetupOK
  BY DEF QuantizersInit, QSetupOK
<1>2. /\ Steps = 1 .. Len(modifiers) /\ Len(modifiers) \in Nat \ {0}
      /\ Configured \subseteq QuantModules
  BY <1>1, RecipeFacts
<1>3. /\ nextEvent = "initialize" /\ turn = 1 /\ epoch = 1 /\ waiting = <<>>
      /\ running = [i \in 1 .. Len(modifiers) |-> i]
  BY <1>2 DEF QuantizersInit, Steps
<1>4. running[1] = 1 /\ Len(running) = Len(modifiers)
  BY <1>2, <1>3
<1>5. Over = 0
  BY <1>4 DEF Over
<1>6. Begun = Len(modifiers)
  BY <1>2, <1>4, <1>5 DEF Begun
<1>7. PlaceInv
  <2>1. running = [i \in 1 .. Begun - Over |-> Over + i]
    <3>1. \A n \in Nat : [i \in 1 .. n |-> i] = [i \in 1 .. n - 0 |-> 0 + i]
      OBVIOUS
    <3> QED
      BY <1>2, <1>3, <1>5, <1>6, <3>1
  <2>2. waiting = [i \in 1 .. Len(modifiers) - Begun |-> Begun + i]
    <3>1. \A n \in Nat : <<>> = [i \in 1 .. n - n |-> n + i]
      OBVIOUS
    <3> QED
      BY <1>2, <1>3, <1>6, <3>1
  <2>3. turn \in 1 .. Len(running) /\ epoch \in Nat \ {0}
    BY <1>2, <1>3, <1>4
  <2>4. Over \in Nat /\ Begun \in Nat /\ Over < Begun /\ Begun <= Len(modifiers)
    BY <1>2, <1>5, <1>6
  <2> QED
    BY <1>3, <1>5, <1>6, <2>1, <2>2, <2>3, <2>4 DEF PlaceInv
<1>8. Started = 0 /\ Ended = 0 /\ \A m : Past(m) = 0
  BY <1>3, <1>5 DEF Started, Ended, Past
<1>9. \A i \in Steps : ~ (i <= 0) /\ ~ (i < turn)
  BY <1>1, <1>3, StepNumbers
<1>10. \A m : ~ IsLive(m) /\ ~ AnyQuantizes(m, 0, 0)
  BY <1>8, <1>9 DEF IsLive, AnyQuantizes
<1>11. /\ qStatus = [m \in QuantModules |-> "none"]
       /\ observer = [m \in QuantModules |-> 0] /\ attached = observer
       /\ importance = [m \in QuantModules |-> "zero"]
       /\ importanceHooks = {} /\ hooks = {} /\ hessians = {}
       /\ weight = [m \in QuantModules |-> <<>>]
  BY DEF QuantizersInit
<1>12. StatusInv
  BY <1>3, <1>8, <1>9, <1>10 DEF StatusInv
<1>13. ObserverInv
  <2>1. \A m \in QuantModules : attached[m] = 0 /\ observer[m] = 0
    BY <1>11
  <2>2. important \subseteq QuantModules
    BY <1>1, <1>2 DEF QSetupOK
  <2> QED
    BY <1>10, <1>11, <2>1, <2>2 DEF ObserverInv
<1>14. HooksInv
  <2>1. \A h \in Steps \X QuantModules : h[1] \in Steps
    OBVIOUS
  <2> QED
    BY <1>8, <1>9, <1>11, <2>1 DEF HooksInv
<1>15. HessiansInv /\ ImportanceInv
  BY <1>3, <1>11 DEF HessiansInv, ImportanceInv
<1>16. StatisticsInv
  BY <1>10 DEF StatisticsInv
<1>17. WeightInv
  BY <1>11 DEF WeightInv, EndsRounded
<1>18. ScaleInv
  BY <1>8, <1>10 DEF ScaleInv
<1>19. OnceInv
  BY <1>8, <1>9 DEF OnceInv
<1> QED
  BY <1>1, <1>3, <1>7, <1>12, <1>13, <1>14, <1>15, <1>16, <1>17, <1>18, <1>19
     DEF QuantizersInv, RunInv

(* Every step keeps the invariant. *)
LEMMA QuantizersSteps ==
  ASSUME QuantizersAssumption, QuantizersInv, [QuantizersNext]_quantVars
  PROVE  QuantizersInv'
<1>1. QSetupOK
  BY DEF QuantizersInv
<1>2. CASE UNCHANGED quantVars
  <2>1. /\ UNCHANGED <<modifiers, isIndependent, important, subgraphing>>
        /\ UNCHANGED <<nextEvent, running, waiting, turn, epoch>>
        /\ UNCHANGED <<observer, attached, statistics, importance, importanceHooks>>
        /\ UNCHANGED <<qStatus, weight, scale, isInformed, hooks, hessians>>
    BY <1>2 DEF quantVars, qSetup, qPlace, qObservers, qModel
  <2>2. UNCHANGED qSetup
    BY <2>1 DEF qSetup
  <2>3. QSetupOK' /\ important' = important /\ \A m : IsObservedTwice(m)' = IsObservedTwice(m)
    BY <1>1, <2>2, QSetupStays
  <2>4. ASSUME RunInv PROVE RunInv'
    <3>1. Over' = Over /\ Begun' = Begun /\ Epochs' = Epochs
          /\ PipelineNeedsData' = PipelineNeedsData
      BY <2>1, <2>2, OverStays, EpochsStay
    <3>2. Started' = Started /\ Ended' = Ended
      BY <2>1, <3>1 DEF Started, Ended
    <3>3. \A m : Past(m)' = Past(m)
      BY <2>1, <3>1 DEF Past
    <3>4. \A m : IsLive(m)' <=> IsLive(m)
      BY <2>2, <3>1, <3>2, SameLive
    <3>5. PlaceInv'
      BY <2>1, <2>4, <3>1 DEF RunInv, PlaceInv
    <3>6. StatusInv'
      <4>1. \A m : AnyQuantizes(m, 0, Ended)' <=> AnyQuantizes(m, 0, Ended)
        BY <2>2, <3>2, QSetupStays DEF AnyQuantizes
      <4> QED
        BY <2>1, <2>2, <2>4, <3>4, <4>1, QSetupStays DEF RunInv, StatusInv
    <3>7. ObserverInv'
      BY <2>1, <2>2, <2>4, <3>4, ObserverKept DEF RunInv
    <3>8. HooksInv'
      BY <2>1, <2>2, <2>4, <3>2, HooksKept DEF RunInv
    <3>9. HessiansInv'
      BY <2>1, <2>2, <2>4, <3>1, QSetupStays DEF RunInv, HessiansInv
    <3>10. ImportanceInv'
      <4>1. \A m : AnyTakes(m, Over, Past(m))' <=> AnyTakes(m, Over, Past(m))
        BY <2>2, <3>1, <3>3, QSetupStays DEF AnyTakes
      <4> QED
        BY <2>1, <2>4, <3>1, <3>4, <4>1 DEF RunInv, ImportanceInv, Absent
    <3>11. StatisticsInv'
      BY <2>1, <2>2, <2>4, <3>1, <3>3, <3>4, StatisticsKept DEF RunInv
    <3>12. WeightInv'
      BY <2>1, <2>2, <2>4, <3>3, WeightKept DEF RunInv
    <3>13. ScaleInv'
      BY <2>1, <2>2, <2>4, <3>3, ScaleKept DEF RunInv
    <3>14. OnceInv'
      BY <2>2, <2>4, <3>3, OnceKept DEF RunInv
    <3> QED
      BY <3>5, <3>6, <3>7, <3>8, <3>9, <3>10, <3>11, <3>12, <3>13, <3>14 DEF RunInv
  <2> QED
    BY <2>1, <2>3, <2>4 DEF QuantizersInv
<1>3. CASE QuantizersNext
  <2>1. UNCHANGED qSetup /\ nextEvent # "raised"
    BY <1>3 DEF QuantizersNext, InitializeQuantizer, StartCalibration, ForwardEpoch,
       EndCalibration, QuantizerEpochEnd, GPTQEpochEnd, AWQEpochEnd, FinalizeQuantizers, Handling
  <2>2. QSetupOK' /\ important' = important /\ \A m : IsObservedTwice(m)' = IsObservedTwice(m)
    BY <1>1, <2>1, QSetupStays
  <2>3. RunInv
    BY <2>1 DEF QuantizersInv
  <2>4. RunInv' \/ (nextEvent' = "raised" /\ \E m \in important : IsObservedTwice(m))
    <3>1. CASE InitializeQuantizer
      BY <1>1, <2>3, <3>1, InitializeOK
    <3>2. CASE StartCalibration
      BY <1>1, <2>3, <3>2, StartOK
    <3>3. CASE ForwardEpoch
      BY <1>1, <2>3, <3>3, ForwardOK
    <3>4. CASE EndCalibration
      BY <1>1, <2>3, <3>4, EndOK
    <3>5. CASE QuantizerEpochEnd
      BY <1>1, <2>3, <3>5, QuantizerEpochEndOK
    <3>6. CASE GPTQEpochEnd
      BY <1>1, <2>3, <3>6, GPTQEpochEndOK
    <3>7. CASE AWQEpochEnd
      BY <1>1, <2>3, <3>7, AWQEpochEndOK
    <3>8. CASE FinalizeQuantizers
      BY <1>1, <2>3, <3>8, FinalizeOK
    <3> QED
      BY <1>3, <3>1, <3>2, <3>3, <3>4, <3>5, <3>6, <3>7, <3>8 DEF QuantizersNext
  <2>5. CASE RunInv'
    <3>1. nextEvent' # "raised"
      BY <2>5 DEF RunInv, PlaceInv
    <3> QED
      BY <2>2, <2>5, <3>1 DEF QuantizersInv
  <2>6. CASE nextEvent' = "raised" /\ \E m \in important : IsObservedTwice(m)
    BY <2>2, <2>6 DEF QuantizersInv
  <2> QED
    BY <2>4, <2>5, <2>6
<1> QED
  BY <1>2, <1>3

(* What the invariant says once the run is over. *)
LEMMA FinishedIs ==
  ASSUME QuantizersAssumption, QuantizersInv
  PROVE  QuantizersFinish
<1>1. QSetupOK
  BY DEF QuantizersInv
<1>2. ASSUME nextEvent = "done"
      PROVE  FinishedAsAlone
  <2>1. RunInv /\ PlaceInv
    BY <1>2 DEF QuantizersInv, RunInv
  <2>2. Over = 0 /\ Begun = Len(modifiers) /\ Len(modifiers) \in Nat
    BY <1>1, <1>2, <2>1, RecipeFacts DEF PlaceInv
  <2>3. Started = Len(modifiers) /\ Ended = Len(modifiers) /\ \A m : Past(m) = Len(modifiers)
    BY <1>2, <2>2 DEF Started, Ended, Past
  <2>4. \A i \in Steps : 0 < i /\ i <= Len(modifiers)
    BY <1>1, StepNumbers
  <2>5. \A m : ~ IsLive(m)
    BY <2>2, <2>3 DEF IsLive
  <2>6. \A m \in Configured : AnyQuantizes(m, 0, Len(modifiers)) /\ m \in QuantModules
    BY <1>1, <2>4, RecipeFacts DEF AnyQuantizes
  <2>7. ASSUME NEW m \in important, IsObservedTwice(m) PROVE FALSE
    <3>1. PICK i, j \in Steps :
            /\ ~ isIndependent /\ i < j /\ IsQuantizer(i) /\ IsQuantizer(j)
            /\ modifiers[i].kind = "gptq" => m \in modifiers[i].targets
      BY <2>7 DEF IsObservedTwice, Steps
    <3>2. j <= Past(m) /\ Takes(i, m)
      BY <2>3, <2>4, <3>1 DEF Takes
    <3> QED
      BY <2>1, <3>1, <3>2 DEF RunInv, OnceInv
  <2>8. hooks = {} /\ hessians = {} /\ importanceHooks = {}
    <3>1. hooks = {}
      <4>1. \A i \in Steps : ~ (Len(modifiers) < i)
        BY <2>2, <1>1, StepNumbers
      <4>2. \A h \in Steps \X QuantModules : h[1] \in Steps
        OBVIOUS
      <4> QED
        BY <2>1, <2>3, <4>1, <4>2 DEF RunInv, HooksInv
    <3>2. hessians = {}
      BY <1>2, <2>1 DEF RunInv, HessiansInv
    <3>3. importanceHooks = {}
      <4>1. ASSUME NEW h \in importanceHooks PROVE FALSE
        BY <2>1, <2>5, <2>7 DEF RunInv, ObserverInv
      <4> QED
        BY <4>1
    <3> QED
      BY <3>1, <3>2, <3>3
  <2>9. \A m \in QuantModules : observer[m] = 0
    BY <2>1, <2>5 DEF RunInv, ObserverInv
  <2>10. ASSUME NEW m \in Configured
         PROVE  /\ qStatus[m] = "frozen"
                /\ m \in important => isInformed[m]
                /\ Fits(m) \/ MayBeStale(m)
    <3>1. qStatus[m] = "frozen"
      BY <2>1, <2>3, <2>5, <2>6 DEF RunInv, StatusInv
    <3>2. AnyQuantizes(m, 0, Past(m))
      BY <2>3, <2>6
    <3> QED
      BY <2>1, <2>6, <3>1, <3>2 DEF RunInv, ScaleInv
  <2> QED
    BY <2>8, <2>9, <2>10 DEF FinishedAsAlone
<1>3. nextEvent = "raised" => \E m \in important : IsObservedTwice(m)
  BY DEF QuantizersInv
<1> QED
  BY <1>2, <1>3 DEF QuantizersFinish

(* However quantizers and smoothers are combined, in one pipeline or each in its own, a run
   that finishes leaves every module frozen with a scale that rests on importance where it
   must and fits, but where MayBeStale says, and nothing of any modifier behind; and no run
   fails but where a weight with importance is observed twice. *)
THEOREM QuantizersAlwaysFinish == QuantizersSpec => []QuantizersFinish
<1>1. QuantizersInit => QuantizersInv
  BY QuantizersAssumption, QuantizersStarts
<1>2. QuantizersInv /\ [QuantizersNext]_quantVars => QuantizersInv'
  BY QuantizersAssumption, QuantizersSteps
<1>3. QuantizersInv => QuantizersFinish
  BY QuantizersAssumption, FinishedIs
<1> QED
  BY <1>1, <1>2, <1>3, PTL DEF QuantizersSpec

-----------------------------------------------------------------------------
(* Smoothing: the operators *)

(* The least and, of a finite set, the greatest number. *)
LEMMA MinOfSet ==
  ASSUME NEW S, S \subseteq Nat, S # {}
  PROVE  Min(S) \in S /\ \A x \in S : Min(S) <= x
<1>1. \E x \in S : \A y \in S : x <= y
  BY LeastNumber
<1> QED
  BY <1>1 DEF Min

(* A nonempty set of numbers that is bounded has a largest one. *)
LEMMA MaxOfBounded ==
  ASSUME NEW S, S \subseteq Nat, S # {}, NEW n \in Nat, \A x \in S : x <= n
  PROVE  Max(S) \in S /\ \A x \in S : x <= Max(S)
<1> DEFINE T == {n - x : x \in S}
<1>1. T \subseteq Nat /\ T # {}
  <2>1. ASSUME NEW x \in S PROVE n - x \in Nat
    BY <2>1
  <2> QED
    BY <2>1
<1>2. PICK t \in T : \A u \in T : t <= u
  <2> HIDE DEF T
  <2> QED
    BY <1>1, LeastNumber
<1>3. PICK x \in S : t = n - x
  BY <1>2
<1>4. ASSUME NEW y \in S PROVE y <= x
  <2>1. n - x <= n - y
    BY <1>2, <1>3
  <2> QED
    BY <2>1
<1>5. \E z \in S : \A y \in S : z >= y
  BY <1>4
<1> QED
  BY <1>5 DEF Max

(* A finite set of numbers is bounded. *)
LEMMA FiniteIsBounded ==
  ASSUME NEW S, IsFiniteSet(S), S \subseteq Nat
  PROVE  \E n \in Nat : \A x \in S : x <= n
<1> DEFINE T == {A \in SUBSET S : \E n \in Nat : \A x \in A : x <= n}
<1>1. {} \in T
  <2>1. 0 \in Nat /\ \A x \in {} : x <= 0
    OBVIOUS
  <2> QED
    BY <2>1
<1>2. ASSUME NEW A \in SUBSET S, NEW x \in S \ A, A \in T PROVE A \cup {x} \in T
  <2>1. PICK n \in Nat : \A y \in A : y <= n
    BY <1>2
  <2>2. n + x \in Nat /\ \A y \in A \cup {x} : y <= n + x
    BY <2>1
  <2> QED
    BY <2>2
<1>3. S \in T
  <2> HIDE DEF T
  <2> QED
    BY <1>1, <1>2, FiniteSetInduction
<1> QED
  BY <1>3

(* A set of places in a sequence is finite. *)
LEMMA PlacesAreFinite ==
  ASSUME NEW n \in Nat, NEW S, S \subseteq 1 .. n
  PROVE  IsFiniteSet(S)
<1>1. IsFiniteSet(1 .. n)
  BY FS_Interval
<1> QED
  BY <1>1, FS_Subset

(* Each element of a finite set of numbers has a place in their order. *)
LEMMA OrderedIsOnto ==
  ASSUME NEW S, IsFiniteSet(S), S \subseteq Nat
  PROVE  /\ Cardinality(S) \in Nat
         /\ Ordered(S) \in [1 .. Cardinality(S) -> S]
         /\ \A i \in S : \E k \in 1 .. Cardinality(S) : Ordered(S)[k] = i
<1> DEFINE n == Cardinality(S)
           upTo(i) == {j \in S : j <= i}
           nth == [i \in S |-> Cardinality(upTo(i))]
<1>1. n \in Nat
  BY FS_CardinalityType
<1>2. ASSUME NEW i \in S PROVE IsFiniteSet(upTo(i)) /\ nth[i] \in 1 .. n
  <2>1. IsFiniteSet(upTo(i)) /\ Cardinality(upTo(i)) <= n
    BY FS_Subset
  <2>2. upTo(i) # {} /\ Cardinality(upTo(i)) \in Nat
    <3>1. i \in upTo(i)
      OBVIOUS
    <3> QED
      BY <2>1, <3>1, FS_CardinalityType
  <2>3. Cardinality(upTo(i)) # 0
    BY <2>1, <2>2, FS_EmptySet
  <2> QED
    BY <1>1, <2>1, <2>2, <2>3
<1>3. ASSUME NEW i \in S, NEW j \in S, i < j PROVE nth[i] # nth[j]
  <2>1. upTo(i) \in SUBSET upTo(j) /\ upTo(i) # upTo(j)
    <3>1. j \in upTo(j) /\ j \notin upTo(i)
      BY <1>3
    <3>2. \A k \in upTo(i) : k \in upTo(j)
      BY <1>3
    <3> QED
      BY <3>1, <3>2
  <2>2. Cardinality(upTo(i)) # Cardinality(upTo(j))
    BY <1>2, <2>1, FS_Subset
  <2> QED
    BY <2>2
<1>4. nth \in Injection(S, 1 .. n)
  <2>1. nth \in [S -> 1 .. n]
    BY <1>2
  <2>2. ASSUME NEW i \in S, NEW j \in S, nth[i] = nth[j] PROVE i = j
    <3>1. i \in Nat /\ j \in Nat
      OBVIOUS
    <3>2. ~ (i < j) /\ ~ (j < i)
      <4> HIDE DEF nth
      <4> QED
        BY <1>3, <2>2
    <3> QED
      BY <3>1, <3>2
  <2> HIDE DEF nth
  <2> QED
    BY <2>1, <2>2 DEF Injection, IsInjective
<1>5. nth \in Surjection(S, 1 .. n)
  <2>1. IsFiniteSet(1 .. n) /\ Cardinality(1 .. n) = n
    BY <1>1, FS_Interval
  <2> HIDE DEF nth
  <2> QED
    BY <1>4, <2>1, FS_Injection
<1>6. \A k \in 1 .. n : \E i \in S : nth[i] = k
  <2> HIDE DEF nth
  <2> QED
    BY <1>5 DEF Surjection
<1>7. ASSUME NEW k \in 1 .. n PROVE Ordered(S)[k] \in S /\ nth[Ordered(S)[k]] = k
  <2>1. \E i \in S : Cardinality(upTo(i)) = k
    BY <1>6
  <2>2. Ordered(S)[k] = (CHOOSE i \in S : Cardinality({j \in S : j <= i}) = k)
    BY DEF Ordered
  <2>3. /\ Ordered(S)[k] \in S
        /\ Cardinality({j \in S : j <= Ordered(S)[k]}) = k
    BY <2>1, <2>2
  <2> QED
    BY <2>3
<1>8. Ordered(S) \in [1 .. n -> S]
  <2>1. ASSUME NEW k \in 1 .. n
        PROVE (CHOOSE i \in S : Cardinality({j \in S : j <= i}) = k) \in S
    BY <1>6
  <2> QED
    BY <2>1 DEF Ordered
<1>9. ASSUME NEW i \in S PROVE \E k \in 1 .. n : Ordered(S)[k] = i
  <2>1. nth[i] \in 1 .. n /\ Ordered(S)[nth[i]] \in S
        /\ nth[Ordered(S)[nth[i]]] = nth[i]
    <3> HIDE DEF nth, n
    <3> QED
      BY <1>2, <1>7
  <2>2. Ordered(S)[nth[i]] = i
    <3> HIDE DEF nth, n
    <3> QED
      BY <1>4, <2>1 DEF Injection, IsInjective
  <2> QED
    BY <2>1, <2>2
<1> QED
  BY <1>1, <1>8, <1>9

(* What the recipe resolves is a sequence of mappings. *)
LEMMA ResolvedIsSequence ==
  ASSUME SmoothingAssumption, NEW matched \in Matched, NEW alg
  PROVE  Resolved(matched, alg) \in Seq(MatchedMappings)
<1> DEFINE S == {i \in DOMAIN matched :
                /\ matched[i].targeted /\ matched[i].balance # {}
                /\ alg = "awq" => matched[i].compatible}
           kept == Ordered(S)
<1>1. matched \in Seq(MatchedMappings)
  BY DEF SmoothingAssumption
<1>2. Len(matched) \in Nat /\ DOMAIN matched = 1 .. Len(matched)
      /\ \A i \in DOMAIN matched : matched[i] \in MatchedMappings
  BY <1>1
<1>3. S \subseteq Nat /\ IsFiniteSet(S) /\ S \subseteq DOMAIN matched
  <2>1. IsFiniteSet(1 .. Len(matched))
    BY <1>2, FS_Interval
  <2>2. S \in SUBSET (1 .. Len(matched))
    BY <1>2
  <2>3. IsFiniteSet(S)
    <3> HIDE DEF S
    <3> QED
      BY <2>1, <2>2, FS_Subset
  <2> QED
    BY <1>2, <2>3
<1>4. Cardinality(S) \in Nat /\ kept \in [1 .. Cardinality(S) -> S]
  <2> HIDE DEF S
  <2> QED
    BY <1>3, OrderedIsOnto
<1>5. Resolved(matched, alg) = [k \in DOMAIN kept |-> matched[kept[k]]]
  BY DEF Resolved
<1>6. \A k \in 1 .. Cardinality(S) : matched[kept[k]] \in MatchedMappings
  <2> HIDE DEF S, kept
  <2> QED
    BY <1>2, <1>3, <1>4
<1>7. Resolved(matched, alg) \in [1 .. Cardinality(S) -> MatchedMappings]
  <2> HIDE DEF S, kept
  <2> QED
    BY <1>4, <1>5, <1>6
<1> HIDE DEF S
<1> QED
  BY <1>4, <1>7

-----------------------------------------------------------------------------
(* Smoothing: the state of a rank *)

(* The mappings of an epoch whose statistics a rank collects. *)
Due(r, e) == {i \in Indices : Hooked(i) \in ReachedLayers(r) /\ layout.subgraph[Hooked(i)] = e}

(* Those whose statistics are there. *)
Collected(r) ==
  IF place[r] \in {"select", "reduce", "smooth"} THEN Due(r, subgraph[r])
  ELSE IF place[r] \in {"reference", "search"} THEN todo[r] ELSE {}

(* Those whose statistics a later pass collects. *)
Ahead(r, i) ==
  \/ layout.subgraph[Hooked(i)] > subgraph[r]
  \/ layout.subgraph[Hooked(i)] = subgraph[r] /\ place[r] = "calibrate"

Behind(r, i) == Hooked(i) \in ReachedLayers(r) /\ ~ Ahead(r, i) /\ i \notin Collected(r)

(* Nothing speaks against a mapping that data reaches. *)
Fine(r, i) ==
  algorithm = "awq" => bad[r][i] = "no" /\ layout.calls[mappings[i].parent] # 0

SmoothSetup ==
  /\ algorithm \in {"awq", "smoothquant"}
  /\ world \subseteq World /\ world # {}
  /\ mappings \in Seq(MatchedMappings)
  /\ layout.subgraph \in [Layers -> Nat \ {0}] /\ layout.calls \in [Parents -> Nat]
  /\ reach \in [world -> Seq(Layers)]
  /\ propagate \in BOOLEAN
  /\ bad \in [world -> [Indices -> {"no", "outputs", "losses"}]]

(* MappingsSupported for the mappings and the layout of the behaviour. *)
MappingsApart ==
  \A i \in Indices :
    /\ \A j \in Indices : j # i => mappings[j].smooth # mappings[i].smooth
    /\ algorithm = "awq" =>
         \A j \in Indices : j # i => mappings[j].parent # mappings[i].parent
    /\ mappings[i].hook \in Inside[mappings[i].parent]
    /\ layout.calls[mappings[i].parent] \in {0, layout.subgraph[mappings[i].hook]}

Reductions == [kind : {"mean", "loss", "scales"}, layer : Layers, data : Nat]

SmoothTypes ==
  /\ place \in [World -> {"calibrate", "select", "reference", "search", "reduce", "smooth",
                       "propagate", "end", "done", "failed"}]
  /\ subgraph \in [World -> Nat \ {0}]
  /\ todo \in [World -> SUBSET Indices] /\ point \in [World -> Nat]
  /\ collected \in [World -> [Layers -> Nat]]
  /\ arguments \in [World -> [Parents -> {"none", "empty", "cached"}]]
  /\ DOMAIN divided = World /\ DOMAIN multiplied = World /\ DOMAIN embedded = World
  /\ quantized \in [World -> SUBSET Layers]
  /\ reductions \in [World -> Seq(Reductions)]
  /\ error \in [World -> {"none", "unused", "key", "losses"}]
  /\ \A r \in World : place[r] = "search" => todo[r] # {}

-----------------------------------------------------------------------------
(* A mapping and its layers. *)
LEMMA MappingTypes ==
  ASSUME SmoothSetup, NEW i \in Indices
  PROVE  /\ i \in Nat /\ Indices = 1 .. Len(mappings) /\ Len(mappings) \in Nat
         /\ mappings[i].smooth \in Layers /\ mappings[i].hook \in Layers
         /\ mappings[i].balance \subseteq Layers /\ mappings[i].parent \in Parents
         /\ Hooked(i) \in Layers
<1>1. mappings \in Seq(MatchedMappings)
  BY DEF SmoothSetup
<1>2. Len(mappings) \in Nat /\ Indices = 1 .. Len(mappings) /\ mappings[i] \in MatchedMappings
  BY <1>1 DEF Indices
<1>3. /\ mappings[i].smooth \in Layers /\ mappings[i].hook \in Layers
      /\ mappings[i].balance \subseteq Layers /\ mappings[i].parent \in Parents
  BY <1>2 DEF MatchedMappings
<1> QED
  BY <1>2, <1>3 DEF Hooked

(* The numbers of the mappings. *)
LEMMA IndicesAreFinite ==
  ASSUME SmoothSetup
  PROVE  Indices \subseteq Nat /\ IsFiniteSet(Indices)
<1>1. mappings \in Seq(MatchedMappings)
  BY DEF SmoothSetup
<1>2. Len(mappings) \in Nat /\ Indices = 1 .. Len(mappings)
  BY <1>1 DEF Indices
<1> QED
  BY <1>2, FS_Interval

(* The first mapping that is left. *)
LEMMA CurrentIsLeft ==
  ASSUME SmoothSetup, SmoothTypes, NEW r \in World, todo[r] # {}
  PROVE  Current(r) \in todo[r] /\ Current(r) \in Indices
<1>1. todo[r] \subseteq Indices
  BY DEF SmoothTypes
<1>2. todo[r] \subseteq Nat
  BY <1>1, IndicesAreFinite
<1> QED
  BY <1>1, <1>2, MinOfSet DEF Current

(* The ranks that take part are ranks. *)
LEMMA RanksTake ==
  ASSUME SmoothSetup, NEW r \in world
  PROVE  r \in World
  BY DEF SmoothSetup

-----------------------------------------------------------------------------
(* The setup never changes. *)
LEMMA SetupStays ==
  ASSUME [SmoothingNext]_smoothVars
  PROVE  /\ algorithm' = algorithm /\ world' = world /\ mappings' = mappings
         /\ layout' = layout /\ reach' = reach /\ propagate' = propagate
         /\ bad' = bad
<1>1. CASE UNCHANGED smoothVars
  BY <1>1 DEF smoothVars, smoothSetup
<1>2. ASSUME NEW r \in world, SmoothStep(r) PROVE UNCHANGED smoothSetup
  <2>1. CASE Calibrate(r)
    BY <2>1 DEF Calibrate
  <2>2. CASE FinishEpoch(r)
    BY <2>2 DEF FinishEpoch
  <2>3. CASE CalibrationEnd(r)
    BY <2>3 DEF CalibrationEnd, Fail
  <2>4. CASE ReduceScales(r)
    BY <2>4 DEF ReduceScales
  <2>5. CASE ApplyScales(r)
    BY <2>5 DEF ApplyScales
  <2>6. CASE SelectMappings(r)
    BY <2>6 DEF SelectMappings
  <2>7. CASE Reference(r)
    BY <2>7 DEF Reference, Fail, SkipMapping
  <2>8. CASE SearchPoint(r)
    BY <2>8 DEF SearchPoint
  <2>9. CASE NoFiniteLoss(r)
    BY <2>9 DEF NoFiniteLoss, Fail
  <2>10. CASE ApplyBest(r)
    BY <2>10 DEF ApplyBest
  <2>11. CASE EndSmoothing(r)
    BY <2>11 DEF EndSmoothing, Fail
  <2> QED
    BY <1>2, <2>1, <2>2, <2>3, <2>4, <2>5, <2>6, <2>7, <2>8, <2>9, <2>10, <2>11 DEF SmoothStep
<1>3. CASE SmoothingNext
  <2>1. PICK r \in world : SmoothStep(r)
    BY <1>3 DEF SmoothingNext
  <2> QED
    BY <1>2, <2>1 DEF smoothSetup
<1> QED
  BY <1>1, <1>3

(* The setup that a calibration starts with. *)
LEMMA SetupInit ==
  ASSUME SmoothingAssumption, SmoothingInit
  PROVE  SmoothSetup
<1>1. PICK matched \in Matched : mappings = Resolved(matched, algorithm)
  BY DEF SmoothingInit
<1>2. mappings \in Seq(MatchedMappings)
  BY <1>1, ResolvedIsSequence
<1>3. layout.subgraph \in [Layers -> Nat \ {0}] /\ layout.calls \in [Parents -> Nat]
  BY DEF SmoothingInit, SmoothingAssumption, IsLayout
<1>4. reach \in [world -> Seq(Layers)]
  BY DEF SmoothingInit, SmoothingAssumption
<1>5. bad \in [world -> [Indices -> {"no", "outputs", "losses"}]]
  BY DEF SmoothingInit, Indices, Troubles
<1> QED
  BY <1>2, <1>3, <1>4, <1>5 DEF SmoothSetup, SmoothingInit

(* What is supported of all mappings is true of those resolved. *)
LEMMA ApartInit ==
  ASSUME MappingsSupported, SmoothingInit
  PROVE  MappingsApart
<1>1. PICK matched \in Matched : mappings = Resolved(matched, algorithm)
  BY DEF SmoothingInit
<1>2. algorithm \in {"awq", "smoothquant"} /\ layout \in Layouts
  BY DEF SmoothingInit
<1>3. \A i \in DOMAIN mappings :
      /\ \A j \in DOMAIN mappings : j # i =>
           /\ mappings[j].smooth # mappings[i].smooth
           /\ algorithm = "awq" => mappings[j].parent # mappings[i].parent
      /\ mappings[i].hook \in Inside[mappings[i].parent]
      /\ layout.calls[mappings[i].parent] \in {0, layout.subgraph[mappings[i].hook]}
  <2> USE <1>1
  <2> QED
    BY <1>2 DEF MappingsSupported
<1> QED
  BY <1>3 DEF MappingsApart, Indices

(* So what is stated of the setup stays true. *)
LEMMA SetupNext ==
  ASSUME SmoothSetup, [SmoothingNext]_smoothVars
  PROVE  SmoothSetup'
  BY SetupStays DEF SmoothSetup, Indices

(* And so do the mappings stay apart. *)
LEMMA ApartNext ==
  ASSUME MappingsApart, [SmoothingNext]_smoothVars
  PROVE  MappingsApart'
  BY SetupStays DEF MappingsApart, Indices

-----------------------------------------------------------------------------
(* Types *)
LEMMA SmoothTypesInit ==
  ASSUME SmoothingInit
  PROVE  SmoothTypes
<1>1. /\ place \in [World -> {"calibrate", "select", "reference", "search", "reduce", "smooth",
                           "propagate", "end", "done", "failed"}]
      /\ subgraph \in [World -> Nat \ {0}]
      /\ todo \in [World -> SUBSET Indices] /\ point \in [World -> Nat]
      /\ collected \in [World -> [Layers -> Nat]]
  BY DEF SmoothingInit
<1>2. /\ arguments \in [World -> [Parents -> {"none", "empty", "cached"}]]
      /\ DOMAIN divided = World /\ DOMAIN multiplied = World /\ DOMAIN embedded = World
  BY DEF SmoothingInit
<1>3. /\ quantized \in [World -> SUBSET Layers]
      /\ reductions \in [World -> Seq(Reductions)]
      /\ error \in [World -> {"none", "unused", "key", "losses"}]
      /\ \A r \in World : place[r] = "search" => todo[r] # {}
  BY DEF SmoothingInit
<1> QED
  BY <1>1, <1>2, <1>3 DEF SmoothTypes

(* What a rank that raises leaves. *)
LEMMA FailTypes ==
  ASSUME SmoothTypes, NEW r \in World, NEW e \in {"unused", "key", "losses"}, Fail(r, e),
         UNCHANGED Indices
  PROVE  SmoothTypes'
  BY DEF Fail, SmoothTypes, weights

(* What a rank issues are reductions. *)
LEMMA IssueTypes ==
  ASSUME SmoothTypes, NEW r \in World, NEW ops \in Seq(Reductions), AllReduce(r, ops)
  PROVE  (reductions \in [World -> Seq(Reductions)])'
<1>1. reductions \in [World -> Seq(Reductions)]
  BY DEF SmoothTypes
<1>2. reductions[r] \o ops \in Seq(Reductions)
  BY <1>1
<1> QED
  BY <1>1, <1>2 DEF AllReduce

(* Types are kept by every step. *)
LEMMA SmoothTypesNext ==
  ASSUME SmoothSetup, SmoothTypes, [SmoothingNext]_smoothVars
  PROVE  SmoothTypes'
<1>0. Indices' = Indices
  BY SetupStays DEF Indices
<1>1. CASE UNCHANGED smoothVars
  BY <1>0, <1>1 DEF smoothVars, smoothSetup, weights, SmoothTypes
<1>2. ASSUME NEW r \in world, SmoothStep(r) PROVE SmoothTypes'
  <2>0. r \in World
    BY RanksTake
  <2>1. CASE Calibrate(r)
    <3>1. ASSUME NEW l \in Layers
          PROVE  collected[r][l] + Cardinality({i \in Indices : /\ mappings[i].smooth = l
                                                      /\ Hooked(i) \in Runs(r)}) \in Nat
      <4> DEFINE C == {i \in Indices : /\ mappings[i].smooth = l
                                       /\ Hooked(i) \in Runs(r)}
      <4>1. IsFiniteSet(C)
        <5>1. C \in SUBSET Indices
          OBVIOUS
        <5> HIDE DEF C
        <5> QED
          BY <5>1, IndicesAreFinite, FS_Subset
      <4>2. Cardinality(C) \in Nat
        BY <4>1, FS_CardinalityType
      <4>3. collected[r][l] \in Nat
        BY <2>0 DEF SmoothTypes
      <4> QED
        BY <4>2, <4>3
    <3>2. collected' \in [World -> [Layers -> Nat]]
      BY <2>0, <2>1, <3>1 DEF Calibrate, SmoothTypes
    <3>3. arguments' \in [World -> [Parents -> {"none", "empty", "cached"}]]
      BY <2>0, <2>1 DEF Calibrate, SmoothTypes
    <3>4. DOMAIN embedded' = World
      BY <2>1 DEF Calibrate, SmoothTypes, Embedded
    <3>5. place' \in [World -> {"calibrate", "select", "reference", "search", "reduce",
                             "smooth", "propagate", "end", "done", "failed"}]
      BY <2>0, <2>1 DEF Calibrate, SmoothTypes
    <3> QED
      BY <1>0, <2>1, <3>2, <3>3, <3>4, <3>5 DEF Calibrate, SmoothTypes, weights
  <2>2. CASE FinishEpoch(r)
    <3>1. DOMAIN embedded' = World
      BY <2>2 DEF FinishEpoch, SmoothTypes, Embedded
    <3>2. subgraph' \in [World -> Nat \ {0}]
      BY <2>0, <2>2 DEF FinishEpoch, SmoothTypes, Following
    <3>3. place' \in [World -> {"calibrate", "select", "reference", "search", "reduce",
                             "smooth", "propagate", "end", "done", "failed"}]
      BY <2>0, <2>2 DEF FinishEpoch, SmoothTypes, AfterEpoch
    <3> QED
      BY <1>0, <2>2, <3>1, <3>2, <3>3 DEF FinishEpoch, AfterEpoch, SmoothTypes, weights
  <2>3. CASE CalibrationEnd(r)
    <3>1. CASE Fail(r, "unused")
      BY <1>0, <2>0, <3>1, FailTypes
    <3>2. CASE ~ Fail(r, "unused")
      BY <1>0, <2>0, <2>3, <3>2 DEF CalibrationEnd, SmoothTypes, weights
    <3> QED
      BY <3>1, <3>2
  <2>4. CASE ReduceScales(r)
    <3> DEFINE S == {k \in DOMAIN reach[r] : collected[r][reach[r][k]] > 0}
               entries == Ordered(S)
               layer(n) == reach[r][entries[n]]
               ops == [n \in DOMAIN entries |->
                         Reduction("scales", layer(n), collected[r][layer(n)])]
    <3>1. reach[r] \in Seq(Layers)
      BY DEF SmoothSetup
    <3>2. S \subseteq Nat /\ IsFiniteSet(S) /\ S \subseteq DOMAIN reach[r]
      <4>1. Len(reach[r]) \in Nat /\ DOMAIN reach[r] = 1 .. Len(reach[r])
        BY <3>1
      <4>2. S \subseteq 1 .. Len(reach[r])
        BY <4>1
      <4>3. IsFiniteSet(S)
        <5> HIDE DEF S
        <5> QED
          BY <4>1, <4>2, PlacesAreFinite
      <4> QED
        BY <4>1, <4>2, <4>3
    <3>3. Cardinality(S) \in Nat /\ entries \in [1 .. Cardinality(S) -> S]
      <4> HIDE DEF S
      <4> QED
        BY <3>2, OrderedIsOnto
    <3>4. ASSUME NEW n \in 1 .. Cardinality(S) PROVE layer(n) \in Layers
      <4> DEFINE k == entries[n]
      <4>1. k \in DOMAIN reach[r]
        <5> HIDE DEF S, entries
        <5> QED
          BY <3>2, <3>3
      <4>2. reach[r][k] \in Layers
        <5> HIDE DEF k
        <5> QED
          BY <3>1, <4>1
      <4> QED
        BY <4>2
    <3>5. ASSUME NEW n \in 1 .. Cardinality(S)
          PROVE  Reduction("scales", layer(n), collected[r][layer(n)]) \in Reductions
      <4>1. collected[r][layer(n)] \in Nat
        <5> HIDE DEF layer, S
        <5> QED
          BY <2>0, <3>4 DEF SmoothTypes
      <4> HIDE DEF layer, S
      <4> QED
        BY <3>4, <4>1 DEF Reduction, Reductions
    <3>6. ops \in Seq(Reductions)
      <4> HIDE DEF S, layer, entries
      <4>1. ops \in [1 .. Cardinality(S) -> Reductions]
        BY <3>3, <3>5
      <4> QED
        BY <3>3, <4>1
    <3>7. AllReduce(r, ops)
      BY <2>4 DEF ReduceScales
    <3>8. reductions' \in [World -> Seq(Reductions)]
      <4> HIDE DEF ops
      <4> QED
        BY <2>0, <3>6, <3>7, IssueTypes
    <3>9. place' \in [World -> {"calibrate", "select", "reference", "search", "reduce",
                             "smooth", "propagate", "end", "done", "failed"}]
      BY <2>0, <2>4 DEF ReduceScales, SmoothTypes
    <3> QED
      BY <1>0, <2>4, <3>8, <3>9 DEF ReduceScales, SmoothTypes, weights
  <2>5. CASE ApplyScales(r)
    <3>1. DOMAIN divided' = World /\ DOMAIN multiplied' = World
      BY <2>5 DEF ApplyScales, Smooth, SmoothTypes
    <3>2. collected' \in [World -> [Layers -> Nat]]
      BY <2>0, <2>5 DEF ApplyScales, SmoothTypes
    <3>3. place' \in [World -> {"calibrate", "select", "reference", "search", "reduce",
                             "smooth", "propagate", "end", "done", "failed"}]
      BY <2>0, <2>5 DEF ApplyScales, SmoothTypes
    <3> QED
      BY <1>0, <2>5, <3>1, <3>2, <3>3 DEF ApplyScales, SmoothTypes
  <2>6. CASE SelectMappings(r)
    <3>1. MappingsToSmooth(r) \subseteq Indices
      BY DEF MappingsToSmooth
    <3> QED
      BY <1>0, <2>0, <2>6, <3>1 DEF SelectMappings, SmoothTypes, weights
  <2>7. CASE Reference(r)
    <3>1. CASE Fail(r, "key")
      BY <1>0, <2>0, <3>1, FailTypes
    <3>2. CASE SkipMapping(r)
      <4>1. place[r] = "reference"
        BY <2>7 DEF Reference
      <4> QED
        BY <1>0, <2>0, <3>2, <4>1 DEF SkipMapping, SmoothTypes, weights
    <3>3. CASE ~ Fail(r, "key") /\ ~ SkipMapping(r)
      <4> DEFINE m == mappings[Current(r)]
                 ops == << Reduction("mean", m.smooth, collected[r][m.smooth]) >>
      <4>1. /\ todo[r] # {} /\ AllReduce(r, ops)
            /\ point' = [point EXCEPT ![r] = 0]
            /\ place' = [place EXCEPT ![r] = "search"]
            /\ UNCHANGED <<smoothSetup, subgraph, todo, collected, arguments, weights,
                           embedded, error>>
        BY <2>7, <3>3 DEF Reference
      <4>2. m.smooth \in Layers
        BY <2>0, <4>1, CurrentIsLeft, MappingTypes
      <4>3. ops \in Seq(Reductions)
        <5> HIDE DEF m
        <5>1. collected[r][m.smooth] \in Nat
          BY <2>0, <4>2 DEF SmoothTypes
        <5> QED
          BY <4>2, <5>1 DEF Reduction, Reductions
      <4>4. reductions' \in [World -> Seq(Reductions)]
        <5> HIDE DEF ops
        <5> QED
          BY <2>0, <4>1, <4>3, IssueTypes
      <4> HIDE DEF ops
      <4> QED
        BY <1>0, <2>0, <4>1, <4>4 DEF SmoothTypes, weights
    <3> QED
      BY <3>1, <3>2, <3>3
  <2>8. CASE SearchPoint(r)
    <3> DEFINE m == mappings[Current(r)]
               ops == << Reduction("loss", m.smooth, Loss(r)) >>
    <3>1. AllReduce(r, ops) /\ quantized' = [quantized EXCEPT ![r] = @ \cup m.balance]
          /\ point' = [point EXCEPT ![r] = @ + 1]
          /\ UNCHANGED <<smoothSetup, place, subgraph, todo, collected, arguments, divided,
                         multiplied, embedded, error>>
      BY <2>8 DEF SearchPoint
    <3>2. m.smooth \in Layers /\ m.balance \subseteq Layers
      <4>1. todo[r] # {}
        BY <2>0, <2>8 DEF SearchPoint, SmoothTypes
      <4>2. Current(r) \in Indices
        BY <2>0, <4>1, CurrentIsLeft
      <4> QED
        BY <4>2, MappingTypes
    <3>3. ops \in Seq(Reductions)
      <4> HIDE DEF m
      <4> QED
        BY <3>2 DEF Reduction, Reductions, Loss
    <3>4. reductions' \in [World -> Seq(Reductions)]
      <4> HIDE DEF ops
      <4> QED
        BY <2>0, <3>1, <3>3, IssueTypes
    <3>5. quantized' \in [World -> SUBSET Layers]
      <4> HIDE DEF m, ops
      <4> QED
        BY <2>0, <3>1, <3>2 DEF SmoothTypes
    <3>6. point' \in [World -> Nat]
      <4> HIDE DEF m, ops
      <4> QED
        BY <2>0, <3>1 DEF SmoothTypes
    <3> HIDE DEF ops, m
    <3> QED
      BY <1>0, <3>1, <3>4, <3>5, <3>6 DEF SmoothTypes
  <2>9. CASE NoFiniteLoss(r)
    BY <1>0, <2>0, <2>9, FailTypes DEF NoFiniteLoss
  <2>10. CASE ApplyBest(r)
    <3>1. DOMAIN divided' = World /\ DOMAIN multiplied' = World
      BY <2>10 DEF ApplyBest, Smooth, SmoothTypes
    <3>2. collected' \in [World -> [Layers -> Nat]]
      BY <2>0, <2>10 DEF ApplyBest, SmoothTypes
    <3>3. arguments' \in [World -> [Parents -> {"none", "empty", "cached"}]]
      BY <2>0, <2>10 DEF ApplyBest, Dropped, SmoothTypes
    <3>4. quantized' \in [World -> SUBSET Layers]
      BY <2>0, <2>10 DEF ApplyBest, StillQuantized, SmoothTypes
    <3>5. todo' \in [World -> SUBSET Indices]
      BY <2>0, <2>10 DEF ApplyBest, SmoothTypes
    <3> QED
      BY <1>0, <2>0, <2>10, <3>1, <3>2, <3>3, <3>4, <3>5 DEF ApplyBest, SmoothTypes
  <2>11. CASE EndSmoothing(r)
    <3>1. CASE Fail(r, "unused")
      BY <1>0, <2>0, <3>1, FailTypes
    <3>2. CASE ~ Fail(r, "unused")
      BY <1>0, <2>0, <2>11, <3>2 DEF EndSmoothing, SmoothTypes, weights
    <3> QED
      BY <3>1, <3>2
  <2> QED
    BY <1>2, <2>1, <2>2, <2>3, <2>4, <2>5, <2>6, <2>7, <2>8, <2>9, <2>10, <2>11 DEF SmoothStep
<1>3. CASE SmoothingNext
  <2>1. PICK r \in world : SmoothStep(r)
    BY <1>3 DEF SmoothingNext
  <2> QED
    BY <1>2, <2>1
<1> QED
  BY <1>1, <1>3

-----------------------------------------------------------------------------
(* The invariant of a rank, whatever the others do *)

FactorsOf(r, i) == {f \in divided[r][mappings[i].smooth] : f.mapping = i}

PhaseOK(r) ==
  /\ place[r] \in {"select", "reference", "search"} => algorithm = "awq"
  /\ place[r] \in {"reduce", "smooth"} => algorithm = "smoothquant"
  /\ place[r] \in {"reference", "search"} => todo[r] \subseteq Due(r, subgraph[r])
  /\ subgraph[r] \in Subgraphs
  /\ place[r] \in {"end", "done"} => subgraph[r] + 1 \notin Subgraphs

(* Statistics are there for what is pending, once. *)
StatsOK(r) ==
  \A l \in Layers :
    collected[r][l] = IF \E i \in Collected(r) : mappings[i].smooth = l THEN 1 ELSE 0

(* The parents of what is pending have arguments unless they are traced through. *)
ArgumentsOK(r) ==
  algorithm = "awq" => \A i \in Indices :
    /\ Ahead(r, i) => arguments[r][mappings[i].parent] = "empty"
    /\ i \in Collected(r) =>
         arguments[r][mappings[i].parent] =
           IF layout.calls[mappings[i].parent] = 0 THEN "empty" ELSE "cached"

(* A mapping that is past has its factor, if nothing speaks against it. *)
FactorsOK(r) ==
  \A i \in Indices :
    IF Behind(r, i) /\ Fine(r, i) THEN \E f : FactorsOf(r, i) = {f} ELSE FactorsOf(r, i) = {}

(* A search runs a parent that has outputs, and its last reduction is that of its
   loss. *)
SearchOK(r) ==
  place[r] = "search" =>
    /\ point[r] <= Grid
    /\ bad[r][Current(r)] # "outputs"
    /\ layout.calls[mappings[Current(r)].parent] # 0
    /\ SeveralRanks /\ point[r] > 0 =>
         /\ reductions[r] # <<>>
         /\ reductions[r][Len(reductions[r])] = Reduction("loss", mappings[Current(r)].smooth, Loss(r))

RankInv(r) ==
  /\ error[r] \in {"none", "losses"}
  /\ place[r] # "failed" =>
       PhaseOK(r) /\ StatsOK(r) /\ ArgumentsOK(r) /\ FactorsOK(r) /\ SearchOK(r)

(* Every factor belongs to the mapping of its smooth layer, and balance layers are
   multiplied by what smooth layers are divided by. *)
FactorsAreKnown ==
  \A r \in world, l \in Layers : \A f \in divided[r][l] :
    f.mapping \in Indices /\ mappings[f.mapping].smooth = l

BalanceInv ==
  \A r \in world, l \in Layers : \A f :
    f \in multiplied[r][l] <=>
      \E j \in Indices : l \in mappings[j].balance /\ f \in divided[r][mappings[j].smooth]

SmoothLocal ==
  /\ SmoothSetup /\ SmoothTypes /\ MappingsApart
  /\ \A r \in world : RankInv(r)
  /\ FactorsAreKnown /\ BalanceInv

-----------------------------------------------------------------------------
(* Subgraphs are numbered without gaps, and every layer is in one. *)
LEMMA SubgraphsAre ==
  ASSUME SmoothingAssumption, SmoothSetup
  PROVE  /\ 1 \in Subgraphs /\ Subgraphs \subseteq Nat \ {0}
         /\ \A l \in Layers : layout.subgraph[l] \in Subgraphs
         /\ \A e \in Nat, d \in Nat : d \in Subgraphs /\ 1 <= e /\ e <= d => e \in Subgraphs
<1> DEFINE sub == layout.subgraph
           S == {1} \cup {sub[l] : l \in Layers}
<1>1. sub \in [Layers -> Nat \ {0}] /\ IsFiniteSet(Layers)
  BY DEF SmoothSetup, SmoothingAssumption
<1>2. IsFiniteSet({sub[l] : l \in Layers}) /\ {sub[l] : l \in Layers} \subseteq Nat \ {0}
  <2> DEFINE T == {sub[l] : l \in Layers}
  <2> HIDE DEF sub
  <2>1. sub \in [Layers -> T]
    BY <1>1
  <2>2. \A t \in T : \E l \in Layers : sub[l] = t
    OBVIOUS
  <2>3. T \subseteq Nat \ {0}
    BY <1>1
  <2>4. sub \in Surjection(Layers, T)
    <3> HIDE DEF T
    <3> QED
      BY <2>1, <2>2 DEF Surjection
  <2> HIDE DEF T
  <2>5. IsFiniteSet(T)
    BY <1>1, <2>4, FS_Surjection
  <2> QED
    BY <2>3, <2>5 DEF T
<1>3. IsFiniteSet(S) /\ S \subseteq Nat /\ S \subseteq Nat \ {0} /\ S # {}
  <2>1. IsFiniteSet({1})
    BY FS_Singleton
  <2>2. IsFiniteSet(S)
    BY <1>2, <2>1, FS_Union
  <2> QED
    BY <1>2, <2>2
<1>4. PICK n \in Nat : \A x \in S : x <= n
  <2> HIDE DEF S
  <2> QED
    BY <1>3, FiniteIsBounded
<1>5. Max(S) \in S /\ \A x \in S : x <= Max(S)
  <2> HIDE DEF S
  <2> QED
    BY <1>3, <1>4, MaxOfBounded
<1>6. Subgraphs = 1 .. Max(S)
  BY DEF Subgraphs
<1>7. Max(S) \in Nat \ {0}
  BY <1>3, <1>5
<1>8. \A l \in Layers : sub[l] \in S
  OBVIOUS
<1>9. \A l \in Layers : sub[l] \in 1 .. Max(S)
  <2> HIDE DEF S, sub
  <2> QED
    BY <1>1, <1>5, <1>7, <1>8
<1> HIDE DEF S
<1> QED
  BY <1>6, <1>7, <1>9

(* So is the layer that a mapping hooks. *)
LEMMA HookedSubgraph ==
  ASSUME SmoothSetup, NEW i \in Indices
  PROVE  layout.subgraph[Hooked(i)] \in Nat \ {0}
<1>1. Hooked(i) \in Layers
  BY MappingTypes
<1> QED
  BY <1>1 DEF SmoothSetup

(* Nothing is collected and nothing smoothed at first. *)
LEMMA SmoothLocalInit ==
  ASSUME SmoothingAssumption, MappingsSupported, SmoothingInit
  PROVE  SmoothLocal
<1>1. SmoothSetup /\ SmoothTypes /\ MappingsApart
  BY SetupInit, SmoothTypesInit, ApartInit
<1>2. ASSUME NEW r \in world PROVE RankInv(r)
  <2>1. r \in World /\ place[r] = "calibrate" /\ subgraph[r] = 1 /\ todo[r] = {}
        /\ collected[r] = [l \in Layers |-> 0] /\ error[r] = "none"
        /\ divided[r] = [l \in Layers |-> {}]
    BY DEF SmoothingInit
  <2>2. Collected(r) = {}
    BY <2>1 DEF Collected
  <2>3. PhaseOK(r)
    BY <1>1, <2>1, SubgraphsAre DEF PhaseOK
  <2>4. StatsOK(r)
    BY <2>1, <2>2 DEF StatsOK
  <2>5. ArgumentsOK(r)
    <3> SUFFICES ASSUME NEW i \in Indices
                 PROVE  arguments[r][mappings[i].parent] = "empty"
      BY <2>2 DEF ArgumentsOK
    <3>1. mappings[i].parent \in Parents
      BY <1>1, MappingTypes
    <3> QED
      BY <2>1, <3>1 DEF SmoothingInit, Indices
  <2>6. FactorsOK(r)
    <3> SUFFICES ASSUME NEW i \in Indices
                 PROVE  FactorsOf(r, i) = {} /\ ~ Behind(r, i)
      BY DEF FactorsOK
    <3>1. layout.subgraph[Hooked(i)] \in Nat \ {0}
      BY <1>1, HookedSubgraph
    <3>2. ~ Behind(r, i)
      BY <2>1, <3>1 DEF Behind, Ahead
    <3>3. mappings[i].smooth \in Layers
      BY <1>1, MappingTypes
    <3> QED
      BY <2>1, <3>2, <3>3 DEF FactorsOf
  <2>7. SearchOK(r)
    BY <2>1 DEF SearchOK
  <2> QED
    BY <2>1, <2>3, <2>4, <2>5, <2>6, <2>7 DEF RankInv
<1>3. FactorsAreKnown /\ BalanceInv
  <2>1. \A r \in world : r \in World
    BY <1>1, RanksTake
  <2>2. \A r \in world, l \in Layers : divided[r][l] = {} /\ multiplied[r][l] = {}
    BY <2>1 DEF SmoothingInit
  <2>3. \A j \in Indices : mappings[j].smooth \in Layers
    BY <1>1, MappingTypes
  <2> QED
    BY <2>2, <2>3 DEF FactorsAreKnown, BalanceInv
<1> QED
  BY <1>1, <1>2, <1>3 DEF SmoothLocal

-----------------------------------------------------------------------------
(* A step changes the state of one rank. *)
LEMMA OthersStay ==
  ASSUME SmoothSetup, SmoothTypes, NEW r \in world, SmoothStep(r), NEW q \in world, q # r
  PROVE  /\ place'[q] = place[q] /\ subgraph'[q] = subgraph[q] /\ todo'[q] = todo[q]
         /\ point'[q] = point[q] /\ collected'[q] = collected[q] /\ arguments'[q] = arguments[q]
         /\ divided'[q] = divided[q] /\ multiplied'[q] = multiplied[q]
         /\ quantized'[q] = quantized[q] /\ embedded'[q] = embedded[q]
         /\ reductions'[q] = reductions[q] /\ error'[q] = error[q]
<1>0. q \in World /\ r \in World
  BY RanksTake
<1> USE <1>0 DEF SmoothTypes, weights
<1>1. CASE Calibrate(r)
  BY <1>1 DEF Calibrate, Embedded
<1>2. CASE FinishEpoch(r)
  BY <1>2 DEF FinishEpoch, Embedded
<1>3. CASE CalibrationEnd(r)
  BY <1>3 DEF CalibrationEnd, Fail
<1>4. CASE ReduceScales(r)
  BY <1>4 DEF ReduceScales, AllReduce
<1>5. CASE ApplyScales(r)
  BY <1>5 DEF ApplyScales, Smooth
<1>6. CASE SelectMappings(r)
  BY <1>6 DEF SelectMappings
<1>7. CASE Reference(r)
  <2>1. Fail(r, "key") \/ SkipMapping(r)
        \/ /\ \E ops : AllReduce(r, ops)
           /\ point' = [point EXCEPT ![r] = 0]
           /\ place' = [place EXCEPT ![r] = "search"]
           /\ UNCHANGED <<smoothSetup, subgraph, todo, collected, arguments, weights,
                         embedded, error>>
    BY <1>7 DEF Reference
  <2> QED
    BY <2>1 DEF Fail, SkipMapping, AllReduce
<1>8. CASE SearchPoint(r)
  BY <1>8 DEF SearchPoint, AllReduce
<1>9. CASE NoFiniteLoss(r)
  BY <1>9 DEF NoFiniteLoss, Fail
<1>10. CASE ApplyBest(r)
  BY <1>10 DEF ApplyBest, Smooth, Dropped, StillQuantized
<1>11. CASE EndSmoothing(r)
  BY <1>11 DEF EndSmoothing, Fail
<1> QED
  BY <1>1, <1>2, <1>3, <1>4, <1>5, <1>6, <1>7, <1>8, <1>9, <1>10, <1>11 DEF SmoothStep

(* What is stated of a rank stays true when its state does. *)
LEMMA RankStays ==
  ASSUME SmoothSetup, [SmoothingNext]_smoothVars, NEW q \in world,
         place'[q] = place[q], subgraph'[q] = subgraph[q], todo'[q] = todo[q],
         point'[q] = point[q], collected'[q] = collected[q], arguments'[q] = arguments[q],
         divided'[q] = divided[q], reductions'[q] = reductions[q], error'[q] = error[q],
         RankInv(q)
  PROVE  RankInv(q)'
<1>1. /\ algorithm' = algorithm /\ world' = world /\ mappings' = mappings
      /\ layout' = layout /\ reach' = reach /\ propagate' = propagate /\ bad' = bad
  BY SetupStays
<1>2. Indices' = Indices /\ Subgraphs' = Subgraphs /\ ReachedLayers(q)' = ReachedLayers(q)
      /\ SeveralRanks' = SeveralRanks
  BY <1>1 DEF Indices, Subgraphs, ReachedLayers, SeveralRanks
<1>3. \A i : Hooked(i)' = Hooked(i)
  BY <1>1 DEF Hooked
<1>4. Due(q, subgraph[q])' = Due(q, subgraph[q])
  BY <1>1, <1>2, <1>3 DEF Due
<1>5. Collected(q)' = Collected(q)
  BY <1>4 DEF Collected
<1>6. \A i : /\ Ahead(q, i)' = Ahead(q, i) /\ Behind(q, i)' = Behind(q, i)
             /\ Fine(q, i)' = Fine(q, i) /\ FactorsOf(q, i)' = FactorsOf(q, i)
  BY <1>1, <1>2, <1>3, <1>5 DEF Ahead, Behind, Fine, FactorsOf
<1>7. Current(q)' = Current(q) /\ Loss(q)' = Loss(q)
  BY <1>1 DEF Current, Loss
<1>8. CASE place[q] = "failed"
  BY <1>8 DEF RankInv
<1>9. CASE place[q] # "failed"
  <2>1. PhaseOK(q)'
    BY <1>1, <1>2, <1>4, <1>9 DEF RankInv, PhaseOK
  <2>2. StatsOK(q)'
    BY <1>1, <1>5, <1>9 DEF RankInv, StatsOK
  <2>3. ArgumentsOK(q)'
    BY <1>1, <1>2, <1>5, <1>6, <1>9 DEF RankInv, ArgumentsOK
  <2>4. FactorsOK(q)'
    BY <1>2, <1>6, <1>9 DEF RankInv, FactorsOK
  <2>5. SearchOK(q)'
    BY <1>1, <1>2, <1>7, <1>9 DEF RankInv, SearchOK, Reduction
  <2> QED
    BY <1>9, <2>1, <2>2, <2>3, <2>4, <2>5 DEF RankInv
<1> QED
  BY <1>8, <1>9

-----------------------------------------------------------------------------
(* The steps of a rank, for its own invariant. *)

(* What a step leaves as it is. *)
LEMMA StepSetup ==
  ASSUME NEW r \in world, SmoothStep(r)
  PROVE  /\ [SmoothingNext]_smoothVars
         /\ algorithm' = algorithm /\ world' = world /\ mappings' = mappings
         /\ layout' = layout /\ reach' = reach /\ propagate' = propagate
         /\ bad' = bad
         /\ Indices' = Indices /\ Subgraphs' = Subgraphs /\ SeveralRanks' = SeveralRanks
         /\ \A i : Hooked(i)' = Hooked(i) /\ Fine(r, i)' = Fine(r, i)
         /\ Due(r, subgraph[r])' = Due(r, subgraph'[r])
         /\ \A e : Due(r, e)' = Due(r, e)
<1>1. [SmoothingNext]_smoothVars
  BY DEF SmoothingNext
<1>2. /\ algorithm' = algorithm /\ world' = world /\ mappings' = mappings
      /\ layout' = layout /\ reach' = reach /\ propagate' = propagate
      /\ bad' = bad
  BY <1>1, SetupStays
<1>3. Indices' = Indices /\ Subgraphs' = Subgraphs /\ SeveralRanks' = SeveralRanks
  BY <1>2 DEF Indices, Subgraphs, SeveralRanks
<1>4. \A i : Hooked(i)' = Hooked(i) /\ Fine(r, i)' = Fine(r, i)
  BY <1>2 DEF Hooked, Fine
<1>5. \A e : Due(r, e)' = Due(r, e)
  BY <1>2, <1>3, <1>4 DEF Due, ReachedLayers
<1>6. Due(r, subgraph[r])' = Due(r, subgraph'[r])
  BY <1>2, <1>3, <1>4 DEF Due, ReachedLayers
<1> QED
  BY <1>1, <1>2, <1>3, <1>4, <1>5, <1>6

(* A mapping that is pending is the only one of its smooth layer. *)
LEMMA OnlyMapping ==
  ASSUME MappingsApart, NEW i \in Indices, NEW j \in Indices,
         mappings[i].smooth = mappings[j].smooth
  PROVE  i = j
  BY DEF MappingsApart

(* What is collected are mappings. *)
LEMMA PendingAreIndices ==
  ASSUME SmoothTypes, NEW r \in World
  PROVE  Collected(r) \subseteq Indices
  BY DEF Collected, Due, SmoothTypes

(* The calibrating pass collects what is due. *)
LEMMA CalibrateKeeps ==
  ASSUME SmoothingAssumption, SmoothLocal, NEW r \in world, Calibrate(r)
  PROVE  RankInv(r)'
<1> DEFINE e == subgraph[r]
<1>0. r \in World /\ SmoothSetup /\ SmoothTypes /\ MappingsApart /\ RankInv(r)
  BY RanksTake DEF SmoothLocal
<1>1. SmoothStep(r)
  BY DEF SmoothStep
<1>2. place[r] = "calibrate" /\ e \in Nat \ {0}
      /\ place'[r] = (IF algorithm = "awq" THEN "select" ELSE "reduce")
      /\ subgraph'[r] = e /\ error'[r] = error[r] /\ divided' = divided
  BY <1>0 DEF Calibrate, SmoothTypes, weights
<1>3. PhaseOK(r) /\ StatsOK(r) /\ ArgumentsOK(r) /\ FactorsOK(r)
  BY <1>0, <1>2 DEF RankInv
<1>4. algorithm \in {"awq", "smoothquant"}
  BY <1>0 DEF SmoothSetup
<1>5. Collected(r) = {} /\ Collected(r)' = Due(r, e)
  BY <1>1, <1>2, StepSetup DEF Collected
<1>6. \A i \in Indices : Hooked(i) \in Runs(r) <=> i \in Due(r, e)
  BY DEF Runs, Due
<1>7. \A i \in Indices : layout.subgraph[Hooked(i)] \in Nat \ {0}
  BY <1>0, HookedSubgraph
<1>8. PhaseOK(r)'
  BY <1>1, <1>2, <1>3, <1>4, StepSetup DEF PhaseOK
<1>9. StatsOK(r)'
  <2> SUFFICES ASSUME NEW l \in Layers
               PROVE  collected'[r][l] =
                        IF \E i \in Due(r, e) : mappings[i].smooth = l THEN 1 ELSE 0
    BY <1>1, <1>5, StepSetup DEF StatsOK
  <2> DEFINE C == {i \in Indices : /\ mappings[i].smooth = l
                                   /\ Hooked(i) \in Runs(r)}
  <2>1. collected'[r][l] = collected[r][l] + Cardinality(C)
    BY <1>0 DEF Calibrate, SmoothTypes
  <2>2. collected[r][l] = 0
    BY <1>3, <1>5 DEF StatsOK
  <2>3. Due(r, e) \subseteq Indices
    BY DEF Due
  <2>4. CASE \E i \in Due(r, e) : mappings[i].smooth = l
    <3>1. PICK i \in Due(r, e) : mappings[i].smooth = l
      BY <2>4
    <3>2. \A j \in Indices : mappings[j].smooth = l => j = i
      BY <1>0, <2>3, <3>1, OnlyMapping
    <3>3. C = {i}
      BY <1>6, <2>3, <3>1, <3>2
    <3>4. Cardinality(C) = 1
      BY <3>3, FS_Singleton
    <3> HIDE DEF C
    <3> QED
      BY <2>1, <2>2, <2>4, <3>4
  <2>5. CASE ~ \E i \in Due(r, e) : mappings[i].smooth = l
    <3>1. C = {}
      BY <1>6, <2>5
    <3>2. Cardinality(C) = 0
      BY <3>1, FS_EmptySet
    <3> HIDE DEF C
    <3> QED
      BY <2>1, <2>2, <2>5, <3>2
  <2> QED
    BY <2>4, <2>5
<1>10. ArgumentsOK(r)'
  <2> SUFFICES ASSUME algorithm = "awq", NEW i \in Indices
               PROVE  /\ layout.subgraph[Hooked(i)] > e =>
                           arguments'[r][mappings[i].parent] = "empty"
                      /\ i \in Due(r, e) =>
                           arguments'[r][mappings[i].parent] =
                             IF layout.calls[mappings[i].parent] = 0 THEN "empty"
                             ELSE "cached"
    <3>1. \A i \in Indices : Ahead(r, i)' => layout.subgraph[Hooked(i)] > e
      BY <1>1, <1>2, StepSetup DEF Ahead
    <3> QED
      BY <1>1, <1>5, <3>1, StepSetup DEF ArgumentsOK
  <2> DEFINE p == mappings[i].parent
             s == layout.subgraph[Hooked(i)]
             c == layout.calls[p]
  <2>1. p \in Parents /\ s \in Nat \ {0} /\ Hooked(i) = mappings[i].hook
    BY <1>0, <1>7, MappingTypes DEF Hooked
  <2>2. c \in {0, s} /\ Hooked(i) \in Inside[p]
    BY <1>0, <2>1 DEF MappingsApart
  <2>3. s >= e => arguments[r][p] = "empty"
    BY <1>2, <1>3, <2>1 DEF ArgumentsOK, Ahead
  <2>4. arguments'[r][p] =
          IF arguments[r][p] # "none" /\ p \in Called(r) THEN "cached" ELSE arguments[r][p]
    BY <1>0, <2>1 DEF Calibrate, SmoothTypes
  <2>5. p \in Called(r) => c = e
    BY DEF Called
  <2>6. c = e /\ Hooked(i) \in ReachedLayers(r) => p \in Called(r)
    BY <2>1, <2>2 DEF Called
  <2>7. i \in Due(r, e) => s = e /\ Hooked(i) \in ReachedLayers(r)
    BY DEF Due
  <2> HIDE DEF s, c, p
  <2>8. s > e => arguments'[r][p] = "empty"
    BY <1>2, <2>1, <2>2, <2>3, <2>4, <2>5
  <2>9. i \in Due(r, e) => arguments'[r][p] = IF c = 0 THEN "empty" ELSE "cached"
    BY <1>2, <2>1, <2>2, <2>3, <2>4, <2>5, <2>6, <2>7
  <2> QED
    BY <2>8, <2>9 DEF s, c, p
<1>11. FactorsOK(r)'
  <2>1. \A i \in Indices : Behind(r, i)' = Behind(r, i)
    <3> SUFFICES ASSUME NEW i \in Indices PROVE Behind(r, i)' = Behind(r, i)
      OBVIOUS
    <3>1. layout.subgraph[Hooked(i)] \in Nat \ {0}
      BY <1>7
    <3>2. Behind(r, i)' <=> /\ Hooked(i) \in ReachedLayers(r)
                          /\ ~ (layout.subgraph[Hooked(i)] > e)
                          /\ i \notin Due(r, e)
      BY <1>1, <1>2, <1>5, StepSetup DEF Behind, Ahead, ReachedLayers
    <3>3. Behind(r, i) <=> /\ Hooked(i) \in ReachedLayers(r)
                         /\ ~ (layout.subgraph[Hooked(i)] > e)
                         /\ layout.subgraph[Hooked(i)] # e
      BY <1>2, <1>5 DEF Behind, Ahead
    <3>4. Hooked(i) \in ReachedLayers(r) =>
            (i \in Due(r, e) <=> layout.subgraph[Hooked(i)] = e)
      BY DEF Due
    <3>5. Behind(r, i)' <=> Behind(r, i)
      BY <3>2, <3>3, <3>4
    <3> QED
      BY <3>5 DEF Behind
  <2>2. \A i : FactorsOf(r, i)' = FactorsOf(r, i)
    BY <1>1, <1>2, StepSetup DEF FactorsOf
  <2> QED
    BY <1>1, <1>3, <2>1, <2>2, StepSetup DEF FactorsOK
<1>12. SearchOK(r)'
  BY <1>2 DEF SearchOK
<1> QED
  BY <1>0, <1>2, <1>8, <1>9, <1>10, <1>11, <1>12 DEF RankInv

(* A step that neither collects nor uses statistics. *)
LEMMA NothingUsed ==
  ASSUME SmoothLocal, NEW r \in world, SmoothStep(r), place[r] # "failed",
         Collected(r)' = Collected(r), \A i \in Indices : Ahead(r, i)' <=> Ahead(r, i),
         collected'[r] = collected[r], arguments'[r] = arguments[r], divided'[r] = divided[r]
  PROVE  StatsOK(r)' /\ ArgumentsOK(r)' /\ FactorsOK(r)'
<1>1. RankInv(r)
  BY DEF SmoothLocal
<1>2. StatsOK(r) /\ ArgumentsOK(r) /\ FactorsOK(r)
  BY <1>1 DEF RankInv
<1>3. StatsOK(r)'
  BY <1>2, StepSetup DEF StatsOK
<1>4. ArgumentsOK(r)'
  BY <1>2, StepSetup DEF ArgumentsOK
<1>5. \A i \in Indices : Behind(r, i)' <=> Behind(r, i)
  BY StepSetup DEF Behind, ReachedLayers
<1>6. \A i : FactorsOf(r, i)' = FactorsOf(r, i)
  BY StepSetup DEF FactorsOf
<1>7. FactorsOK(r)'
  <2> SUFFICES ASSUME NEW i \in Indices
               PROVE  IF Behind(r, i)' /\ Fine(r, i)' THEN \E f : FactorsOf(r, i)' = {f}
                      ELSE FactorsOf(r, i)' = {}
    BY StepSetup DEF FactorsOK
  <2>1. IF Behind(r, i) /\ Fine(r, i) THEN \E f : FactorsOf(r, i) = {f}
        ELSE FactorsOf(r, i) = {}
    BY <1>2 DEF FactorsOK
  <2>2. (Behind(r, i)' <=> Behind(r, i)) /\ Fine(r, i)' = Fine(r, i)
        /\ FactorsOf(r, i)' = FactorsOf(r, i)
    BY <1>5, <1>6, StepSetup
  <2> HIDE DEF FactorsOf, Fine, Behind
  <2> QED
    BY <2>1, <2>2
<1> QED
  BY <1>3, <1>4, <1>7

(* The smooth layer of a mapping that is pending has its statistics. *)
LEMMA PendingHasStats ==
  ASSUME SmoothLocal, NEW r \in world, place[r] # "failed"
  PROVE  /\ \A i \in Collected(r) : collected[r][mappings[i].smooth] = 1
         /\ \A i \in Indices : collected[r][mappings[i].smooth] > 0 <=> i \in Collected(r)
         /\ Collected(r) = {} => \A l \in Layers : collected[r][l] = 0
<1>1. /\ r \in World /\ SmoothSetup /\ SmoothTypes /\ MappingsApart /\ StatsOK(r)
      /\ Collected(r) \subseteq Indices
  BY RanksTake, PendingAreIndices DEF SmoothLocal, RankInv
<1>2. ASSUME NEW i \in Collected(r) PROVE collected[r][mappings[i].smooth] = 1
  <2>1. mappings[i].smooth \in Layers
    BY <1>1, MappingTypes
  <2> QED
    BY <1>1, <2>1 DEF StatsOK
<1>3. ASSUME NEW i \in Indices, collected[r][mappings[i].smooth] > 0 PROVE i \in Collected(r)
  <2>1. mappings[i].smooth \in Layers
    BY <1>1, MappingTypes
  <2>2. PICK j \in Collected(r) : mappings[j].smooth = mappings[i].smooth
    BY <1>1, <1>3, <2>1 DEF StatsOK
  <2> QED
    BY <1>1, <2>2, OnlyMapping
<1>4. ASSUME NEW l \in Layers, Collected(r) = {} PROVE collected[r][l] = 0
  BY <1>1, <1>4 DEF StatsOK
<1> QED
  BY <1>2, <1>3, <1>4

(* The next epoch starts with nothing left of the last. *)
LEMMA FinishKeeps ==
  ASSUME SmoothingAssumption, SmoothLocal, NEW r \in world, FinishEpoch(r)
  PROVE  RankInv(r)'
<1> DEFINE e == subgraph[r]
<1>0. r \in World /\ SmoothSetup /\ SmoothTypes /\ MappingsApart /\ RankInv(r)
  BY RanksTake DEF SmoothLocal
<1>1. SmoothStep(r)
  BY DEF SmoothStep
<1>2. place[r] = "propagate" /\ e \in Nat \ {0}
      /\ place'[r] = AfterEpoch(r) /\ subgraph'[r] = Following(r)
      /\ error'[r] = error[r] /\ collected' = collected /\ arguments' = arguments
      /\ divided' = divided
  BY <1>0 DEF FinishEpoch, SmoothTypes, weights
<1>3. PhaseOK(r)
  BY <1>0, <1>2 DEF RankInv
<1>4. \/ place'[r] = "calibrate" /\ subgraph'[r] = e + 1 /\ e + 1 \in Subgraphs
      \/ place'[r] = "end" /\ subgraph'[r] = e /\ e + 1 \notin Subgraphs
  BY <1>2 DEF AfterEpoch, Following
<1>5. PhaseOK(r)'
  BY <1>1, <1>2, <1>3, <1>4, StepSetup DEF PhaseOK
<1>6. Collected(r) = {} /\ Collected(r)' = {}
  BY <1>2, <1>4 DEF Collected
<1>7. \A i \in Indices : Ahead(r, i)' <=> Ahead(r, i)
  <2> SUFFICES ASSUME NEW i \in Indices PROVE Ahead(r, i)' <=> Ahead(r, i)
    OBVIOUS
  <2> DEFINE s == layout.subgraph[Hooked(i)]
  <2>1. s \in Nat \ {0}
    BY <1>0, HookedSubgraph
  <2>2. Ahead(r, i)' <=> (s > subgraph'[r] \/ (s = subgraph'[r] /\ place'[r] = "calibrate"))
    <3>1. layout' = layout /\ Hooked(i)' = Hooked(i)
      BY <1>1, StepSetup
    <3> QED
      BY <3>1 DEF Ahead
  <2>3. Ahead(r, i) <=> s > e
    BY <1>2 DEF Ahead
  <2> HIDE DEF s, e
  <2>4. CASE place'[r] = "calibrate" /\ subgraph'[r] = e + 1
    <3>1. e \in Nat
      BY <1>2
    <3>2. (s > e + 1 \/ s = e + 1) <=> s > e
      BY <2>1, <3>1
    <3> QED
      BY <2>2, <2>3, <2>4, <3>2
  <2>5. CASE place'[r] = "end" /\ subgraph'[r] = e
    BY <2>2, <2>3, <2>5
  <2> QED
    BY <1>4, <2>4, <2>5
<1>8. StatsOK(r)' /\ ArgumentsOK(r)' /\ FactorsOK(r)'
  <2>1. place[r] # "failed" /\ Collected(r)' = Collected(r)
        /\ collected'[r] = collected[r] /\ arguments'[r] = arguments[r] /\ divided'[r] = divided[r]
    BY <1>2, <1>6
  <2> QED
    BY <1>1, <1>7, <2>1, NothingUsed
<1>9. SearchOK(r)'
  BY <1>4 DEF SearchOK
<1> QED
  BY <1>0, <1>2, <1>5, <1>8, <1>9 DEF RankInv

(* Nothing is left at an end, so neither assertion fails. *)
LEMMA EndKeeps ==
  ASSUME SmoothingAssumption, SmoothLocal, NEW r \in world,
         CalibrationEnd(r) \/ EndSmoothing(r)
  PROVE  RankInv(r)'
<1>0. r \in World /\ SmoothSetup /\ SmoothTypes /\ MappingsApart /\ RankInv(r)
  BY RanksTake DEF SmoothLocal
<1>1. SmoothStep(r)
  BY DEF SmoothStep
<1>2. Collected(r) = {} /\ place[r] # "failed"
  BY DEF CalibrationEnd, EndSmoothing, Collected
<1>3. ~ \E l \in Layers : collected[r][l] > 0
  BY <1>2, PendingHasStats
<1>4. /\ UNCHANGED <<smoothSetup, subgraph, todo, point, collected, arguments,
                     weights, embedded, reductions, error>>
      /\ \/ place[r] = "end" /\ place'[r] = "done"
         \/ place[r] = "reference" /\ place'[r] = "propagate"
  BY <1>0, <1>3 DEF CalibrationEnd, EndSmoothing, SmoothTypes
<1>5. PhaseOK(r)
  BY <1>0, <1>2 DEF RankInv
<1>6. PhaseOK(r)'
  BY <1>1, <1>4, <1>5, StepSetup DEF PhaseOK
<1>7. Collected(r)' = {}
  BY <1>4 DEF Collected
<1>8. \A i \in Indices : Ahead(r, i)' <=> Ahead(r, i)
  BY <1>1, <1>4, StepSetup DEF Ahead
<1>9. collected'[r] = collected[r] /\ arguments'[r] = arguments[r] /\ divided'[r] = divided[r]
      /\ error'[r] = error[r]
  BY <1>4 DEF weights
<1>10. StatsOK(r)' /\ ArgumentsOK(r)' /\ FactorsOK(r)'
  BY <1>1, <1>2, <1>7, <1>8, <1>9, NothingUsed
<1>11. SearchOK(r)'
  BY <1>4 DEF SearchOK
<1> QED
  BY <1>0, <1>6, <1>9, <1>10, <1>11 DEF RankInv

(* Reductions leave the statistics of a rank alone. *)
LEMMA ReduceKeeps ==
  ASSUME SmoothingAssumption, SmoothLocal, NEW r \in world, ReduceScales(r)
  PROVE  RankInv(r)'
<1>0. r \in World /\ SmoothSetup /\ SmoothTypes /\ MappingsApart /\ RankInv(r)
  BY RanksTake DEF SmoothLocal
<1>1. SmoothStep(r)
  BY DEF SmoothStep
<1>2. /\ place[r] = "reduce" /\ place'[r] = "smooth" /\ subgraph' = subgraph
      /\ collected'[r] = collected[r] /\ arguments'[r] = arguments[r] /\ divided'[r] = divided[r]
      /\ error'[r] = error[r]
  BY <1>0 DEF ReduceScales, SmoothTypes, weights
<1>3. PhaseOK(r)
  BY <1>0, <1>2 DEF RankInv
<1>4. PhaseOK(r)'
  BY <1>1, <1>2, <1>3, StepSetup DEF PhaseOK
<1>5. Collected(r)' = Collected(r)
  BY <1>1, <1>2, StepSetup DEF Collected
<1>6. \A i \in Indices : Ahead(r, i)' <=> Ahead(r, i)
  BY <1>1, <1>2, StepSetup DEF Ahead
<1>7. StatsOK(r)' /\ ArgumentsOK(r)' /\ FactorsOK(r)'
  BY <1>1, <1>2, <1>5, <1>6, NothingUsed
<1>8. SearchOK(r)'
  BY <1>2 DEF SearchOK
<1> QED
  BY <1>0, <1>2, <1>4, <1>7, <1>8 DEF RankInv

(* AWQ selects exactly what is due. *)
LEMMA SelectKeeps ==
  ASSUME SmoothingAssumption, SmoothLocal, NEW r \in world, SelectMappings(r)
  PROVE  RankInv(r)' /\ todo'[r] = Due(r, subgraph[r])
<1>0. r \in World /\ SmoothSetup /\ SmoothTypes /\ MappingsApart /\ RankInv(r)
  BY RanksTake DEF SmoothLocal
<1>1. SmoothStep(r)
  BY DEF SmoothStep
<1>2. /\ place[r] = "select" /\ place'[r] = "reference" /\ subgraph' = subgraph
      /\ collected'[r] = collected[r] /\ arguments'[r] = arguments[r] /\ divided'[r] = divided[r]
      /\ error'[r] = error[r] /\ todo'[r] = MappingsToSmooth(r)
  BY <1>0 DEF SelectMappings, SmoothTypes, weights
<1>3. PhaseOK(r)
  BY <1>0, <1>2 DEF RankInv
<1>4. Collected(r) = Due(r, subgraph[r])
  BY <1>2 DEF Collected
<1>5. MappingsToSmooth(r) = Collected(r)
  <2>1. Collected(r) \subseteq Indices
    BY <1>0, PendingAreIndices
  <2> QED
    BY <1>2, <2>1, PendingHasStats DEF MappingsToSmooth
<1>6. Collected(r)' = Collected(r)
  BY <1>2, <1>5 DEF Collected
<1>7. PhaseOK(r)'
  BY <1>1, <1>2, <1>3, <1>4, <1>5, StepSetup DEF PhaseOK
<1>8. \A i \in Indices : Ahead(r, i)' <=> Ahead(r, i)
  BY <1>1, <1>2, StepSetup DEF Ahead
<1>9. StatsOK(r)' /\ ArgumentsOK(r)' /\ FactorsOK(r)'
  BY <1>1, <1>2, <1>6, <1>8, NothingUsed
<1>10. SearchOK(r)'
  BY <1>2 DEF SearchOK
<1> QED
  BY <1>0, <1>2, <1>4, <1>5, <1>7, <1>9, <1>10 DEF RankInv

(* What is collected is due in the epoch under way. *)
LEMMA PendingIsDue ==
  ASSUME SmoothLocal, NEW r \in world, place[r] # "failed", NEW i \in Collected(r)
  PROVE  /\ i \in Indices /\ i \in Due(r, subgraph[r]) /\ ~ Ahead(r, i)
         /\ Hooked(i) \in ReachedLayers(r)
<1>1. r \in World /\ SmoothSetup /\ SmoothTypes /\ PhaseOK(r)
  BY RanksTake DEF SmoothLocal, RankInv
<1>2. i \in Due(r, subgraph[r]) /\ place[r] # "calibrate"
  BY <1>1 DEF Collected, PhaseOK
<1>3. layout.subgraph[Hooked(i)] = subgraph[r] /\ subgraph[r] \in Nat
      /\ i \in Indices /\ Hooked(i) \in ReachedLayers(r)
  BY <1>1, <1>2 DEF Due, SmoothTypes
<1> QED
  BY <1>2, <1>3 DEF Ahead

(* A step that uses the statistics of the mappings in U, each of which gets its factor
   unless something speaks against it. *)
LEMMA MappingsUsed ==
  ASSUME SmoothLocal, NEW r \in world, SmoothStep(r), place[r] # "failed",
         NEW U \in SUBSET Collected(r), Collected(r)' = Collected(r) \ U,
         \A i \in Indices : Ahead(r, i)' <=> Ahead(r, i),
         \A l \in Layers :
           collected'[r][l] = IF \E i \in U : mappings[i].smooth = l THEN 0 ELSE collected[r][l],
         \A i \in Indices \ U : /\ arguments'[r][mappings[i].parent]
                                     = arguments[r][mappings[i].parent]
                                /\ FactorsOf(r, i)' = FactorsOf(r, i),
         \A i \in U : IF Fine(r, i) THEN \E f : FactorsOf(r, i)' = {f}
                      ELSE FactorsOf(r, i)' = {}
  PROVE  StatsOK(r)' /\ ArgumentsOK(r)' /\ FactorsOK(r)'
<1>1. /\ r \in World /\ SmoothSetup /\ SmoothTypes /\ MappingsApart
      /\ Collected(r) \subseteq Indices
      /\ StatsOK(r) /\ ArgumentsOK(r) /\ FactorsOK(r)
  BY RanksTake, PendingAreIndices DEF SmoothLocal, RankInv
<1>2. StatsOK(r)'
  <2> SUFFICES ASSUME NEW l \in Layers
               PROVE  collected'[r][l] =
                        IF \E i \in Collected(r) \ U : mappings[i].smooth = l THEN 1 ELSE 0
    BY StepSetup DEF StatsOK
  <2>1. CASE \E i \in U : mappings[i].smooth = l
    <3>1. PICK i \in U : mappings[i].smooth = l
      BY <2>1
    <3>2. \A j \in Collected(r) : mappings[j].smooth = l => j = i
      BY <1>1, <3>1, OnlyMapping
    <3>3. ~ \E j \in Collected(r) \ U : mappings[j].smooth = l
      BY <3>1, <3>2
    <3> QED
      BY <2>1, <3>3
  <2>2. CASE ~ \E i \in U : mappings[i].smooth = l
    <3>1. collected'[r][l] = collected[r][l]
      BY <2>2
    <3>2. (\E i \in Collected(r) \ U : mappings[i].smooth = l)
            <=> \E i \in Collected(r) : mappings[i].smooth = l
      BY <2>2
    <3>3. collected[r][l] = IF \E i \in Collected(r) : mappings[i].smooth = l THEN 1 ELSE 0
      BY <1>1 DEF StatsOK
    <3> QED
      BY <3>1, <3>2, <3>3
  <2> QED
    BY <2>1, <2>2
<1>3. \A i \in U : i \in Indices /\ ~ Ahead(r, i) /\ Hooked(i) \in ReachedLayers(r)
  BY PendingIsDue
<1>4. ArgumentsOK(r)'
  <2> SUFFICES ASSUME algorithm = "awq", NEW i \in Indices
               PROVE  /\ Ahead(r, i) => arguments'[r][mappings[i].parent] = "empty"
                      /\ i \in Collected(r) \ U =>
                           arguments'[r][mappings[i].parent] =
                             IF layout.calls[mappings[i].parent] = 0 THEN "empty"
                             ELSE "cached"
    BY StepSetup DEF ArgumentsOK
  <2>1. CASE i \in U
    BY <1>3, <2>1
  <2>2. CASE i \notin U
    <3>1. arguments'[r][mappings[i].parent] = arguments[r][mappings[i].parent]
      BY <2>2
    <3> QED
      BY <1>1, <3>1 DEF ArgumentsOK
  <2> QED
    BY <2>1, <2>2
<1>5. FactorsOK(r)'
  <2> SUFFICES ASSUME NEW i \in Indices
               PROVE  IF Behind(r, i)' /\ Fine(r, i)' THEN \E f : FactorsOf(r, i)' = {f}
                      ELSE FactorsOf(r, i)' = {}
    BY StepSetup DEF FactorsOK
  <2>1. Fine(r, i)' = Fine(r, i)
    BY StepSetup
  <2>2. Behind(r, i)' <=> /\ Hooked(i) \in ReachedLayers(r) /\ ~ Ahead(r, i)
                        /\ i \notin Collected(r) \ U
    BY StepSetup DEF Behind, ReachedLayers
  <2>3. CASE i \in U
    <3>1. Behind(r, i)'
      BY <1>3, <2>2, <2>3
    <3>2. IF Fine(r, i) THEN \E f : FactorsOf(r, i)' = {f} ELSE FactorsOf(r, i)' = {}
      BY <2>3
    <3> HIDE DEF FactorsOf, Fine, Behind
    <3> QED
      BY <2>1, <3>1, <3>2
  <2>4. CASE i \notin U
    <3>1. Behind(r, i)' <=> Behind(r, i)
      BY <2>2, <2>4 DEF Behind
    <3>2. FactorsOf(r, i)' = FactorsOf(r, i)
      BY <2>4
    <3>3. IF Behind(r, i) /\ Fine(r, i) THEN \E f : FactorsOf(r, i) = {f}
          ELSE FactorsOf(r, i) = {}
      BY <1>1 DEF FactorsOK
    <3> HIDE DEF FactorsOf, Fine, Behind
    <3> QED
      BY <2>1, <3>1, <3>2, <3>3
  <2> QED
    BY <2>3, <2>4
<1> QED
  BY <1>2, <1>4, <1>5

(* A mapping that is not past has no factor. *)
LEMMA PendingHasNoFactor ==
  ASSUME SmoothLocal, NEW r \in world, place[r] # "failed", NEW i \in Collected(r)
  PROVE  FactorsOf(r, i) = {}
<1>1. FactorsOK(r) /\ i \in Indices
  BY PendingIsDue DEF SmoothLocal, RankInv
<1>2. ~ Behind(r, i)
  BY DEF Behind
<1> QED
  BY <1>1, <1>2 DEF FactorsOK

(* What smoothing adds to the factors of a mapping. *)
LEMMA SmoothAdds ==
  ASSUME SmoothSetup, SmoothTypes, NEW r \in world, NEW F, Smooth(r, F),
         \A f \in F : f.mapping \in Indices, mappings' = mappings, NEW i \in Indices
  PROVE  FactorsOf(r, i)' = FactorsOf(r, i) \cup {f \in F : f.mapping = i}
<1>1. r \in World /\ mappings[i].smooth \in Layers
  BY RanksTake, MappingTypes
<1>2. divided'[r][mappings[i].smooth] =
        divided[r][mappings[i].smooth]
          \cup {f \in F : mappings[i].smooth = mappings[f.mapping].smooth}
  BY <1>1 DEF Smooth, SmoothTypes
<1>3. FactorsOf(r, i)' = {f \in divided'[r][mappings[i].smooth] : f.mapping = i}
  BY DEF FactorsOf
<1> QED
  BY <1>2, <1>3 DEF FactorsOf

(* SmoothQuant smooths all that is due at once. *)
LEMMA ApplyKeeps ==
  ASSUME SmoothingAssumption, SmoothLocal, NEW r \in world, ApplyScales(r)
  PROVE  RankInv(r)'
<1> DEFINE U == Collected(r)
           F == {Factor(i, ScalesOf(r, i), {}) : i \in {j \in Indices : HasScales(r, j)}}
<1>0. r \in World /\ SmoothSetup /\ SmoothTypes /\ MappingsApart /\ RankInv(r)
  BY RanksTake DEF SmoothLocal
<1>1. SmoothStep(r)
  BY DEF SmoothStep
<1>2. /\ place[r] = "smooth" /\ place'[r] = "propagate" /\ subgraph' = subgraph
      /\ arguments' = arguments /\ error' = error /\ Smooth(r, F)
      /\ collected'[r] = [l \in Layers |->
           IF \E i \in Indices : mappings[i].smooth = l THEN 0 ELSE collected[r][l]]
  BY <1>0 DEF ApplyScales, SmoothTypes
<1>3. PhaseOK(r) /\ StatsOK(r) /\ algorithm = "smoothquant"
  BY <1>0, <1>2 DEF RankInv, PhaseOK
<1>4. PhaseOK(r)'
  BY <1>1, <1>2, <1>3, StepSetup DEF PhaseOK
<1>5. Collected(r)' = {} /\ Collected(r) \subseteq Indices
  BY <1>0, <1>2, PendingAreIndices DEF Collected
<1>6. \A i \in Indices : Ahead(r, i)' <=> Ahead(r, i)
  BY <1>1, <1>2, StepSetup DEF Ahead
<1>7. \A i \in Indices : HasScales(r, i) <=> i \in U
  <2> SUFFICES ASSUME NEW i \in Indices PROVE HasScales(r, i) <=> i \in U
    OBVIOUS
  <2>1. collected[r][mappings[i].smooth] > 0 <=> i \in Collected(r)
    BY <1>2, PendingHasStats
  <2>2. \A j \in Indices : j < i => mappings[j].smooth # mappings[i].smooth
    <3> SUFFICES ASSUME NEW j \in Indices, j < i PROVE mappings[j].smooth # mappings[i].smooth
      OBVIOUS
    <3>1. j # i
      BY <1>0, IndicesAreFinite
    <3> QED
      BY <1>0, <3>1 DEF MappingsApart
  <2> QED
    BY <2>1, <2>2 DEF HasScales
<1>8. \A l \in Layers :
        collected'[r][l] = IF \E i \in U : mappings[i].smooth = l THEN 0 ELSE collected[r][l]
  <2> SUFFICES ASSUME NEW l \in Layers
               PROVE  collected'[r][l] = IF \E i \in U : mappings[i].smooth = l THEN 0
                                     ELSE collected[r][l]
    OBVIOUS
  <2>1. collected'[r][l] = IF \E i \in Indices : mappings[i].smooth = l THEN 0
                       ELSE collected[r][l]
    BY <1>2
  <2>2. (~ \E i \in U : mappings[i].smooth = l) => collected[r][l] = 0
    BY <1>3 DEF StatsOK
  <2> QED
    BY <1>5, <2>1, <2>2
<1>9. \A f \in F : f.mapping \in Indices
  BY DEF Factor
<1>10. \A i \in Indices : FactorsOf(r, i)' = FactorsOf(r, i) \cup {f \in F : f.mapping = i}
  <2> HIDE DEF F
  <2>1. mappings' = mappings
    BY <1>1, StepSetup
  <2> QED
    BY <1>0, <1>2, <1>9, <2>1, SmoothAdds
<1>11. ASSUME NEW i \in Indices \ U PROVE FactorsOf(r, i)' = FactorsOf(r, i)
  <2>1. {f \in F : f.mapping = i} = {}
    BY <1>7, <1>11 DEF Factor
  <2> QED
    BY <1>10, <2>1
<1>12. ASSUME NEW i \in U
       PROVE  IF Fine(r, i) THEN \E f : FactorsOf(r, i)' = {f} ELSE FactorsOf(r, i)' = {}
  <2>1. Fine(r, i)
    BY <1>3 DEF Fine
  <2>2. FactorsOf(r, i) = {} /\ i \in Indices
    BY <1>2, <1>5, PendingHasNoFactor
  <2>3. {f \in F : f.mapping = i} = {Factor(i, ScalesOf(r, i), {})}
    BY <1>7, <2>2 DEF Factor
  <2>4. FactorsOf(r, i)' = {Factor(i, ScalesOf(r, i), {})}
    BY <1>10, <2>2, <2>3
  <2> QED
    BY <2>1, <2>4
<1>13. StatsOK(r)' /\ ArgumentsOK(r)' /\ FactorsOK(r)'
  <2>1. U \in SUBSET Collected(r) /\ Collected(r)' = Collected(r) \ U /\ place[r] # "failed"
    BY <1>2, <1>5
  <2>2. \A i \in Indices \ U : /\ arguments'[r][mappings[i].parent]
                                     = arguments[r][mappings[i].parent]
                               /\ FactorsOf(r, i)' = FactorsOf(r, i)
    BY <1>2, <1>11
  <2> HIDE DEF U
  <2> QED
    BY <1>1, <1>6, <1>8, <1>12, <2>1, <2>2, MappingsUsed
<1>14. SearchOK(r)'
  BY <1>2 DEF SearchOK
<1> QED
  BY <1>0, <1>2, <1>4, <1>13, <1>14 DEF RankInv

(* A mapping is skipped when it has to be, and it is never without its cache. *)
LEMMA ReferenceKeeps ==
  ASSUME SmoothingAssumption, SmoothLocal, NEW r \in world, Reference(r)
  PROVE  /\ RankInv(r)' /\ ~ Fail(r, "key")
         /\ SkipMapping(r) <=> (\/ layout.calls[mappings[Current(r)].parent] = 0
                                \/ bad[r][Current(r)] = "outputs")
<1> DEFINE c == Current(r)
           m == mappings[c]
<1>0. r \in World /\ SmoothSetup /\ SmoothTypes /\ MappingsApart /\ RankInv(r)
  BY RanksTake DEF SmoothLocal
<1>1. SmoothStep(r)
  BY DEF SmoothStep
<1>2. place[r] = "reference" /\ todo[r] # {} /\ Collected(r) = todo[r]
  BY DEF Reference, Collected
<1>3. PhaseOK(r) /\ StatsOK(r) /\ ArgumentsOK(r)
  BY <1>0, <1>2 DEF RankInv
<1>4. c \in todo[r] /\ c \in Indices
  BY <1>0, <1>2, CurrentIsLeft
<1>5. algorithm = "awq" /\ todo[r] \subseteq Due(r, subgraph[r])
  BY <1>2, <1>3 DEF PhaseOK
<1>6. m.smooth \in Layers /\ m.parent \in Parents
  BY <1>0, <1>4, MappingTypes
<1>7. collected[r][m.smooth] = 1
  BY <1>2, <1>4, PendingHasStats
<1>8. arguments[r][m.parent] = IF layout.calls[m.parent] = 0 THEN "empty" ELSE "cached"
  BY <1>2, <1>3, <1>4, <1>5 DEF ArgumentsOK
<1>9. bad[r][c] \in {"no", "outputs", "losses"}
  BY <1>0, <1>4 DEF SmoothSetup
<1> HIDE DEF c
<1>10. \/ /\ SkipMapping(r)
          /\ layout.calls[m.parent] = 0 \/ bad[r][c] = "outputs"
       \/ /\ AllReduce(r, << Reduction("mean", m.smooth, collected[r][m.smooth]) >>)
          /\ point' = [point EXCEPT ![r] = 0]
          /\ place' = [place EXCEPT ![r] = "search"]
          /\ UNCHANGED <<smoothSetup, subgraph, todo, collected, arguments, weights,
                         embedded, error>>
          /\ layout.calls[m.parent] # 0 /\ bad[r][c] # "outputs"
  BY <1>7, <1>8 DEF Reference, c
<1>11. ~ Fail(r, "key")
  BY <1>0, <1>2, <1>10 DEF Fail, SkipMapping, SmoothTypes
<1>12. CASE SkipMapping(r) /\ (layout.calls[m.parent] = 0 \/ bad[r][c] = "outputs")
  <2>1. /\ collected' = [collected EXCEPT ![r][m.smooth] = 0]
        /\ todo' = [todo EXCEPT ![r] = @ \ {c}]
        /\ UNCHANGED <<smoothSetup, place, subgraph, point, arguments, weights, embedded,
                       reductions, error>>
    BY <1>12 DEF SkipMapping, c
  <2>2. Collected(r)' = Collected(r) \ {c} /\ todo'[r] = todo[r] \ {c} /\ place'[r] = place[r]
    BY <1>0, <1>2, <2>1 DEF Collected, SmoothTypes
  <2>3. PhaseOK(r)'
    BY <1>1, <1>2, <1>3, <2>1, <2>2, StepSetup DEF PhaseOK
  <2>4. \A i \in Indices : Ahead(r, i)' <=> Ahead(r, i)
    BY <1>1, <2>1, StepSetup DEF Ahead
  <2>5. \A l \in Layers :
          collected'[r][l] = IF \E i \in {c} : mappings[i].smooth = l THEN 0 ELSE collected[r][l]
    BY <1>0, <1>6, <2>1 DEF SmoothTypes
  <2>6. \A i : FactorsOf(r, i)' = FactorsOf(r, i)
    BY <1>1, <2>1, StepSetup DEF FactorsOf, weights
  <2>7. \A i \in {c} : IF Fine(r, i) THEN \E f : FactorsOf(r, i)' = {f}
                       ELSE FactorsOf(r, i)' = {}
    <3>1. ~ Fine(r, c)
      BY <1>5, <1>12 DEF Fine
    <3>2. FactorsOf(r, c) = {}
      BY <1>2, <1>4, PendingHasNoFactor
    <3> QED
      BY <2>6, <3>1, <3>2
  <2>8. StatsOK(r)' /\ ArgumentsOK(r)' /\ FactorsOK(r)'
    <3>1. {c} \in SUBSET Collected(r) /\ place[r] # "failed"
      BY <1>2, <1>4
    <3>2. \A i \in Indices \ {c} : /\ arguments'[r][mappings[i].parent]
                                     = arguments[r][mappings[i].parent]
                                   /\ FactorsOf(r, i)' = FactorsOf(r, i)
      BY <2>1, <2>6
    <3> QED
      BY <1>1, <2>2, <2>4, <2>5, <2>7, <3>1, <3>2, MappingsUsed
  <2>9. SearchOK(r)'
    BY <1>2, <2>2 DEF SearchOK
  <2>10. error'[r] = error[r]
    BY <2>1
  <2>11. RankInv(r)'
    BY <1>0, <2>3, <2>8, <2>9, <2>10 DEF RankInv
  <2> QED
    BY <1>11, <1>12, <2>11, <1>5, <1>9 DEF c, Fine
<1>13. CASE /\ AllReduce(r, << Reduction("mean", m.smooth, collected[r][m.smooth]) >>)
            /\ point' = [point EXCEPT ![r] = 0]
            /\ place' = [place EXCEPT ![r] = "search"]
            /\ UNCHANGED <<smoothSetup, subgraph, todo, collected, arguments, weights,
                         embedded, error>>
            /\ layout.calls[m.parent] # 0 /\ bad[r][c] # "outputs"
  <2>1. place'[r] = "search" /\ point'[r] = 0 /\ todo' = todo /\ subgraph' = subgraph
        /\ collected'[r] = collected[r] /\ arguments'[r] = arguments[r] /\ divided'[r] = divided[r]
        /\ error'[r] = error[r]
    BY <1>0, <1>13 DEF SmoothTypes, weights
  <2>2. PhaseOK(r)'
    BY <1>1, <1>2, <1>3, <2>1, StepSetup DEF PhaseOK
  <2>3. Collected(r)' = Collected(r)
    BY <1>2, <2>1 DEF Collected
  <2>4. \A i \in Indices : Ahead(r, i)' <=> Ahead(r, i)
    BY <1>1, <1>2, <2>1, StepSetup DEF Ahead
  <2>5. StatsOK(r)' /\ ArgumentsOK(r)' /\ FactorsOK(r)'
    BY <1>1, <1>2, <2>1, <2>3, <2>4, NothingUsed
  <2>6. SearchOK(r)'
    <3>1. c' = c
      BY <2>1 DEF Current, c
    <3>2. 0 <= Grid
      BY DEF SmoothingAssumption
    <3>3. layout' = layout /\ mappings' = mappings /\ bad' = bad
      BY <1>1, StepSetup
    <3> QED
      BY <1>13, <2>1, <3>1, <3>2, <3>3 DEF SearchOK, c
  <2>7. RankInv(r)'
    BY <1>0, <2>1, <2>2, <2>5, <2>6 DEF RankInv
  <2>8. ~ SkipMapping(r)
    BY <1>2, <2>1 DEF SkipMapping
  <2> QED
    BY <1>11, <1>13, <2>7, <2>8, <1>5, <1>9 DEF c, Fine
<1> QED
  BY <1>10, <1>12, <1>13

(* A point of the search uses nothing up. *)
LEMMA SearchKeeps ==
  ASSUME SmoothingAssumption, SmoothLocal, NEW r \in world, SearchPoint(r)
  PROVE  RankInv(r)'
<1> DEFINE c == Current(r)
           op == Reduction("loss", mappings[c].smooth, Loss(r))
<1>0. r \in World /\ SmoothSetup /\ SmoothTypes /\ MappingsApart /\ RankInv(r)
  BY RanksTake DEF SmoothLocal
<1>1. SmoothStep(r)
  BY DEF SmoothStep
<1>2. /\ place[r] = "search" /\ place' = place /\ todo' = todo /\ subgraph' = subgraph
      /\ collected'[r] = collected[r] /\ arguments'[r] = arguments[r] /\ divided'[r] = divided[r]
      /\ error'[r] = error[r] /\ point'[r] = point[r] + 1 /\ point[r] < Grid
      /\ AllReduce(r, <<op>>)
  BY <1>0 DEF SearchPoint, SmoothTypes
<1>3. PhaseOK(r) /\ SearchOK(r)
  BY <1>0, <1>2 DEF RankInv
<1>4. PhaseOK(r)'
  BY <1>1, <1>2, <1>3, StepSetup DEF PhaseOK
<1>5. Collected(r)' = Collected(r)
  BY <1>2 DEF Collected
<1>6. \A i \in Indices : Ahead(r, i)' <=> Ahead(r, i)
  BY <1>1, <1>2, StepSetup DEF Ahead
<1>7. StatsOK(r)' /\ ArgumentsOK(r)' /\ FactorsOK(r)'
  BY <1>1, <1>2, <1>5, <1>6, NothingUsed
<1>8. SearchOK(r)'
  <2>1. c' = c
    BY <1>2 DEF Current
  <2>2. layout' = layout /\ mappings' = mappings /\ bad' = bad /\ SeveralRanks' = SeveralRanks
    BY <1>1, StepSetup
  <2>3. op' = op
    BY <2>1, <2>2 DEF Reduction, Loss
  <2>4. point'[r] <= Grid
    BY <1>0, <1>2 DEF SmoothTypes, SmoothingAssumption
  <2>5. SeveralRanks => reductions'[r] # <<>> /\ reductions'[r][Len(reductions'[r])] = op
    <3> HIDE DEF op
    <3>1. SeveralRanks => reductions'[r] = reductions[r] \o <<op>>
      BY <1>0, <1>2 DEF AllReduce, SmoothTypes
    <3>2. reductions[r] \in Seq(Reductions)
      BY <1>0 DEF SmoothTypes
    <3>3. Len(reductions[r] \o <<op>>) = Len(reductions[r]) + 1 /\ Len(reductions[r]) \in Nat
          /\ (reductions[r] \o <<op>>)[Len(reductions[r]) + 1] = op /\ reductions[r] \o <<op>> # <<>>
      BY <3>2
    <3> QED
      BY <3>1, <3>3
  <2>6. /\ bad[r][c] # "outputs" /\ layout.calls[mappings[c].parent] # 0
    BY <1>2, <1>3 DEF SearchOK
  <2> QED
    BY <2>1, <2>2, <2>3, <2>4, <2>5, <2>6 DEF SearchOK
<1> QED
  BY <1>0, <1>2, <1>4, <1>7, <1>8 DEF RankInv

(* The best point is applied when the loss of every rank, and so its own, was finite. *)
LEMMA OwnLoss ==
  ASSUME SmoothingAssumption, SmoothLocal, NEW r \in world, place[r] = "search",
         point[r] = Grid, LossOf(r) = world
  PROVE  Fine(r, Current(r))
<1> DEFINE c == Current(r)
           l == mappings[c].smooth
           S == {j \in DOMAIN reductions[r] : reductions[r][j].kind = "loss" /\ reductions[r][j].layer = l}
<1>0. r \in World /\ SmoothSetup /\ SmoothTypes /\ RankInv(r)
  BY RanksTake DEF SmoothLocal
<1>1. SearchOK(r) /\ PhaseOK(r)
  BY <1>0 DEF RankInv
<1>2. bad[r][c] # "outputs" /\ layout.calls[mappings[c].parent] # 0 /\ point[r] > 0
  BY <1>1 DEF SearchOK, SmoothingAssumption
<1>3. c \in Indices
  BY <1>0, CurrentIsLeft DEF SmoothTypes
<1>4. bad[r][c] \in {"no", "outputs", "losses"}
  BY <1>0, <1>3 DEF SmoothSetup
<1>5. SummedUp(r, "loss", l, Loss(r))[r] > 0
  BY DEF LossOf
<1>6. Loss(r) > 0
  <2>1. CASE ~ SeveralRanks
    BY <1>5, <2>1 DEF SummedUp
  <2>2. CASE SeveralRanks
    <3> DEFINE n == Len(reductions[r])
    <3>1. reductions[r] # <<>> /\ reductions[r][n] = Reduction("loss", l, Loss(r))
      BY <1>1, <1>2, <2>2 DEF SearchOK
    <3>2. n \in Nat /\ DOMAIN reductions[r] = 1 .. n /\ n \in DOMAIN reductions[r]
      <4>1. reductions[r] \in Seq(Reductions)
        BY <1>0 DEF SmoothTypes
      <4> QED
        BY <3>1, <4>1
    <3>3. n \in S /\ S \subseteq Nat /\ \A x \in S : x <= n
      <4>1. n \in S
        BY <3>1, <3>2 DEF Reduction
      <4> QED
        BY <3>2, <4>1
    <3>4. Max(S) \in S /\ \A x \in S : x <= Max(S)
      <4> HIDE DEF S, n
      <4> QED
        BY <3>2, <3>3, MaxOfBounded
    <3>5. Max(S) = n
      <4>1. Max(S) <= n /\ n <= Max(S) /\ Max(S) \in Nat
        <5> HIDE DEF S, n
        <5> QED
          BY <3>3, <3>4
      <4> HIDE DEF S, n
      <4> QED
        BY <3>2, <4>1
    <3>6. SummedUp(r, "loss", l, Loss(r)) = [q \in world |-> reductions[q][Max(S)].data]
      BY <2>2 DEF SummedUp
    <3>7. SummedUp(r, "loss", l, Loss(r))[r] = reductions[r][n].data
      <4> HIDE DEF S, n
      <4> QED
        BY <3>5, <3>6
    <3> QED
      BY <1>5, <3>1, <3>7 DEF Reduction
  <2> QED
    BY <2>1, <2>2
<1>7. bad[r][c] # "losses"
  BY <1>6 DEF Loss
<1> QED
  BY <1>2, <1>4, <1>7 DEF Fine

(* AWQ smooths the mapping that it has searched for. *)
LEMMA BestKeeps ==
  ASSUME SmoothingAssumption, SmoothLocal, NEW r \in world, ApplyBest(r)
  PROVE  RankInv(r)'
<1> DEFINE c == Current(r)
           l == mappings[c].smooth
           f0 == Factor(c, MeanOf(r, l), LossOf(r))
<1>0. r \in World /\ SmoothSetup /\ SmoothTypes /\ MappingsApart /\ RankInv(r)
  BY RanksTake DEF SmoothLocal
<1>1. SmoothStep(r)
  BY DEF SmoothStep
<1>2. /\ place[r] = "search" /\ place'[r] = "reference" /\ subgraph' = subgraph
      /\ todo[r] # {} /\ todo'[r] = todo[r] \ {c} /\ error' = error
      /\ Smooth(r, {f0}) /\ collected' = [collected EXCEPT ![r][l] = 0]
      /\ arguments' = [arguments EXCEPT ![r][mappings[c].parent] = "none"]
      /\ point[r] = Grid /\ LossOf(r) = world
  BY <1>0 DEF ApplyBest, Dropped, SmoothTypes
<1>3. PhaseOK(r) /\ StatsOK(r) /\ ArgumentsOK(r)
  BY <1>0, <1>2 DEF RankInv
<1>4. c \in todo[r] /\ c \in Indices
  BY <1>0, <1>2, CurrentIsLeft
<1>5. algorithm = "awq" /\ todo[r] \subseteq Due(r, subgraph[r])
  BY <1>2, <1>3 DEF PhaseOK
<1>6. l \in Layers /\ mappings[c].parent \in Parents
  BY <1>0, <1>4, MappingTypes
<1>7. Fine(r, c)
  BY <1>2, OwnLoss
<1>8. Collected(r) = todo[r] /\ Collected(r)' = todo[r] \ {c}
  BY <1>2 DEF Collected
<1>9. PhaseOK(r)'
  <2>1. todo'[r] \subseteq todo[r]
    BY <1>2
  <2> QED
    BY <1>1, <1>2, <1>3, <2>1, StepSetup DEF PhaseOK
<1>10. \A i \in Indices : Ahead(r, i)' <=> Ahead(r, i)
  BY <1>1, <1>2, StepSetup DEF Ahead
<1>11. \A k \in Layers :
         collected'[r][k] = IF \E i \in {c} : mappings[i].smooth = k THEN 0 ELSE collected[r][k]
  BY <1>0, <1>2, <1>6 DEF SmoothTypes
<1>12. \A i \in Indices : FactorsOf(r, i)' = FactorsOf(r, i) \cup {f \in {f0} : f.mapping = i}
  <2>1. mappings' = mappings
    BY <1>1, StepSetup
  <2>2. \A f \in {f0} : f.mapping \in Indices
    BY <1>4 DEF Factor
  <2> HIDE DEF f0
  <2> QED
    BY <1>0, <1>2, <2>1, <2>2, SmoothAdds
<1>13. f0.mapping = c
  BY DEF Factor
<1> HIDE DEF f0
<1>14. \A i \in {c} : IF Fine(r, i) THEN \E f : FactorsOf(r, i)' = {f}
                      ELSE FactorsOf(r, i)' = {}
  <2>1. FactorsOf(r, c) = {}
    BY <1>2, <1>4, <1>8, PendingHasNoFactor
  <2> SUFFICES ASSUME NEW i \in {c} PROVE FactorsOf(r, i)' = {f0}
    BY <1>7
  <2>2. FactorsOf(r, i)' = FactorsOf(r, i) \cup {f \in {f0} : f.mapping = i}
    BY <1>4, <1>12
  <2> QED
    BY <1>13, <2>1, <2>2
<1>15. \A i \in Indices \ {c} : /\ arguments'[r][mappings[i].parent]
                                     = arguments[r][mappings[i].parent]
                                /\ FactorsOf(r, i)' = FactorsOf(r, i)
  <2> SUFFICES ASSUME NEW i \in Indices \ {c}
               PROVE  /\ arguments'[r][mappings[i].parent] = arguments[r][mappings[i].parent]
                      /\ FactorsOf(r, i)' = FactorsOf(r, i)
    OBVIOUS
  <2>1. mappings[i].parent # mappings[c].parent /\ mappings[i].parent \in Parents
    BY <1>0, <1>4, <1>5, MappingTypes DEF MappingsApart
  <2>2. arguments'[r][mappings[i].parent] = arguments[r][mappings[i].parent]
    BY <1>0, <1>2, <2>1 DEF SmoothTypes
  <2>3. FactorsOf(r, i)' = FactorsOf(r, i)
    BY <1>12, <1>13
  <2> QED
    BY <2>2, <2>3
<1>16. StatsOK(r)' /\ ArgumentsOK(r)' /\ FactorsOK(r)'
  <2>1. {c} \in SUBSET Collected(r) /\ Collected(r)' = Collected(r) \ {c} /\ place[r] # "failed"
    BY <1>2, <1>4, <1>8
  <2> HIDE DEF c
  <2> QED
    BY <1>1, <1>10, <1>11, <1>14, <1>15, <2>1, MappingsUsed
<1>17. SearchOK(r)'
  BY <1>2 DEF SearchOK
<1> QED
  BY <1>0, <1>2, <1>9, <1>16, <1>17 DEF RankInv

(* Factors only come with smoothing. *)
LEMMA StepSmooths ==
  ASSUME SmoothingAssumption, SmoothLocal, NEW r \in world, SmoothStep(r)
  PROVE  \/ UNCHANGED <<divided, multiplied>>
         \/ \E F : Smooth(r, F) /\ \A f \in F : f.mapping \in Indices
<1>0. r \in World /\ SmoothSetup /\ SmoothTypes
  BY RanksTake DEF SmoothLocal
<1>1. CASE ApplyScales(r)
  <2> DEFINE F == {Factor(i, ScalesOf(r, i), {}) : i \in {j \in Indices : HasScales(r, j)}}
  <2>1. Smooth(r, F)
    BY <1>1 DEF ApplyScales
  <2>2. \A f \in F : f.mapping \in Indices
    BY DEF Factor
  <2> HIDE DEF F
  <2> QED
    BY <2>1, <2>2
<1>2. CASE ApplyBest(r)
  <2> DEFINE c == Current(r)
             f0 == Factor(c, MeanOf(r, mappings[c].smooth), LossOf(r))
  <2>1. Smooth(r, {f0}) /\ place[r] = "search"
    BY <1>2 DEF ApplyBest
  <2>2. c \in Indices
    BY <1>0, <2>1, CurrentIsLeft DEF SmoothTypes
  <2>3. \A f \in {f0} : f.mapping \in Indices
    BY <2>2 DEF Factor
  <2> HIDE DEF f0
  <2> QED
    BY <2>1, <2>3
<1>3. CASE ~ ApplyScales(r) /\ ~ ApplyBest(r)
  BY <1>3 DEF SmoothStep, Calibrate, FinishEpoch, CalibrationEnd, ReduceScales, SelectMappings,
              Reference, SkipMapping, SearchPoint, NoFiniteLoss, EndSmoothing, Fail, weights
<1> QED
  BY <1>1, <1>2, <1>3

(* A factor divides one layer and multiplies those that read it. *)
LEMMA FactorsKeep ==
  ASSUME SmoothingAssumption, SmoothLocal, NEW r \in world, SmoothStep(r)
  PROVE  FactorsAreKnown' /\ BalanceInv'
<1>0. r \in World /\ SmoothSetup /\ SmoothTypes /\ MappingsApart
      /\ FactorsAreKnown /\ BalanceInv
  BY RanksTake DEF SmoothLocal
<1>1. mappings' = mappings /\ world' = world /\ Indices' = Indices
  BY StepSetup
<1>2. ASSUME NEW q \in world, q # r
      PROVE  divided'[q] = divided[q] /\ multiplied'[q] = multiplied[q]
  BY <1>0, <1>2, OthersStay
<1>3. CASE UNCHANGED <<divided, multiplied>>
  BY <1>0, <1>1, <1>3 DEF FactorsAreKnown, BalanceInv
<1>4. ASSUME NEW F, Smooth(r, F), \A f \in F : f.mapping \in Indices
      PROVE  FactorsAreKnown' /\ BalanceInv'
  <2>1. \A l \in Layers :
          /\ divided'[r][l] = divided[r][l]
                                \cup {f \in F : l = mappings[f.mapping].smooth}
          /\ multiplied'[r][l] = multiplied[r][l]
                                \cup {f \in F : l \in mappings[f.mapping].balance}
    BY <1>0, <1>4 DEF Smooth, SmoothTypes
  <2>2. FactorsAreKnown'
    <3> SUFFICES ASSUME NEW q \in world, NEW l \in Layers, NEW f \in divided'[q][l]
                 PROVE  f.mapping \in Indices /\ mappings[f.mapping].smooth = l
      BY <1>1 DEF FactorsAreKnown
    <3>1. CASE q = r
      BY <1>0, <1>4, <2>1, <3>1 DEF FactorsAreKnown
    <3>2. CASE q # r
      BY <1>0, <1>2, <3>2 DEF FactorsAreKnown
    <3> QED
      BY <3>1, <3>2
  <2>3. BalanceInv'
    <3> SUFFICES ASSUME NEW q \in world, NEW l \in Layers, NEW f
                 PROVE  f \in multiplied'[q][l] <=>
                          \E j \in Indices : l \in mappings[j].balance
                                             /\ f \in divided'[q][mappings[j].smooth]
      BY <1>1 DEF BalanceInv
    <3>1. f \in multiplied[q][l] <=>
            \E j \in Indices : l \in mappings[j].balance
                               /\ f \in divided[q][mappings[j].smooth]
      BY <1>0 DEF BalanceInv
    <3>2. CASE q = r
      <4>1. f \in multiplied'[r][l] <=>
              (f \in multiplied[r][l] \/ (f \in F /\ l \in mappings[f.mapping].balance))
        BY <2>1
      <4>2. \A j \in Indices :
              f \in divided'[r][mappings[j].smooth] <=>
                (f \in divided[r][mappings[j].smooth]
                 \/ (f \in F /\ mappings[j].smooth = mappings[f.mapping].smooth))
        <5> SUFFICES ASSUME NEW j \in Indices
                     PROVE f \in divided'[r][mappings[j].smooth] <=>
                            (f \in divided[r][mappings[j].smooth]
                        \/ (f \in F /\ mappings[j].smooth = mappings[f.mapping].smooth))
          OBVIOUS
        <5>1. mappings[j].smooth \in Layers
          BY <1>0, MappingTypes
        <5> QED
          BY <2>1, <5>1
      <4>3. f \in F => \A j \in Indices :
              mappings[j].smooth = mappings[f.mapping].smooth <=> j = f.mapping
        BY <1>0, <1>4, OnlyMapping
      <4>4. f \in F => f.mapping \in Indices
        BY <1>4
      <4> QED
        BY <3>1, <3>2, <4>1, <4>2, <4>3, <4>4
    <3>3. CASE q # r
      BY <1>2, <3>1, <3>3
    <3> QED
      BY <3>2, <3>3
  <2> QED
    BY <2>2, <2>3
<1> QED
  BY <1>3, <1>4, StepSmooths

(* What is stated of a rank is kept by its own steps. *)
LEMMA StepKeeps ==
  ASSUME SmoothingAssumption, SmoothLocal, NEW r \in world, SmoothStep(r)
  PROVE  RankInv(r)'
<1>0. r \in World /\ SmoothSetup /\ SmoothTypes /\ RankInv(r)
  BY RanksTake DEF SmoothLocal
<1>1. CASE NoFiniteLoss(r)
  <2>1. place'[r] = "failed" /\ error'[r] = "losses"
    BY <1>0, <1>1 DEF NoFiniteLoss, Fail, SmoothTypes
  <2> QED
    BY <2>1 DEF RankInv
<1>2. CASE ~ NoFiniteLoss(r)
  BY <1>2, CalibrateKeeps, FinishKeeps, EndKeeps, ReduceKeeps, ApplyKeeps, SelectKeeps,
     ReferenceKeeps, SearchKeeps, BestKeeps DEF SmoothStep
<1> QED
  BY <1>1, <1>2

(* And by those of the others. *)
LEMMA SmoothLocalNext ==
  ASSUME SmoothingAssumption, SmoothLocal, [SmoothingNext]_smoothVars
  PROVE  SmoothLocal'
<1>0. SmoothSetup /\ SmoothTypes /\ MappingsApart /\ world' = world
  BY SetupStays DEF SmoothLocal
<1>1. SmoothSetup' /\ SmoothTypes' /\ MappingsApart'
  BY <1>0, SetupNext, SmoothTypesNext, ApartNext
<1>2. CASE UNCHANGED smoothVars
  <2>1. ASSUME NEW q \in world PROVE RankInv(q)'
    <3>1. RankInv(q) /\ UNCHANGED <<place, subgraph, todo, point, collected, arguments, divided,
                                    reductions, error>>
      BY <1>2 DEF SmoothLocal, smoothVars, weights
    <3> QED
      BY <1>0, <3>1, RankStays
  <2>2. FactorsAreKnown' /\ BalanceInv'
    BY <1>2 DEF SmoothLocal, FactorsAreKnown, BalanceInv, smoothVars, smoothSetup, weights,
                Indices
  <2> QED
    BY <1>0, <1>1, <2>1, <2>2 DEF SmoothLocal
<1>3. ASSUME NEW r \in world, SmoothStep(r) PROVE SmoothLocal'
  <2>1. ASSUME NEW q \in world PROVE RankInv(q)'
    <3>1. CASE q = r
      BY <1>3, <3>1, StepKeeps
    <3>2. CASE q # r
      <4>1. /\ place'[q] = place[q] /\ subgraph'[q] = subgraph[q] /\ todo'[q] = todo[q]
            /\ point'[q] = point[q] /\ collected'[q] = collected[q]
            /\ arguments'[q] = arguments[q] /\ divided'[q] = divided[q]
            /\ reductions'[q] = reductions[q] /\ error'[q] = error[q]
        BY <1>0, <1>3, <3>2, OthersStay
      <4>2. RankInv(q)
        BY DEF SmoothLocal
      <4> QED
        BY <1>0, <4>1, <4>2, RankStays
    <3> QED
      BY <3>1, <3>2
  <2>2. FactorsAreKnown' /\ BalanceInv'
    BY <1>3, FactorsKeep
  <2> QED
    BY <1>0, <1>1, <2>1, <2>2 DEF SmoothLocal
<1> QED
  BY <1>2, <1>3 DEF SmoothingNext

-----------------------------------------------------------------------------
(* What the invariant of the ranks says of a calibration that ends. *)
LEMMA MappingsOnce ==
  ASSUME SmoothingAssumption, SmoothLocal
  PROVE  EachMappingOnce /\ NothingIsUnused
<1>1. NothingIsUnused
  BY DEF SmoothLocal, RankInv, NothingIsUnused
<1>2. ASSUME NEW r \in world, place[r] = "done", NEW i \in Indices
      PROVE  Cardinality(FactorsOf(r, i)) = IF Smoothable(r, i) THEN 1 ELSE 0
  <2>0. /\ r \in World /\ SmoothSetup /\ SmoothTypes /\ MappingsApart
        /\ PhaseOK(r) /\ FactorsOK(r)
    BY <1>2, RanksTake DEF SmoothLocal, RankInv
  <2> DEFINE s == layout.subgraph[Hooked(i)]
  <2>1. Hooked(i) \in Layers /\ s \in Nat \ {0}
    BY <2>0, MappingTypes, HookedSubgraph
  <2>2. s \in Subgraphs /\ subgraph[r] + 1 \notin Subgraphs /\ subgraph[r] \in Nat
    BY <1>2, <2>0, <2>1, SubgraphsAre DEF PhaseOK, SmoothTypes
  <2>3. ~ (s > subgraph[r])
    <3> SUFFICES ASSUME s > subgraph[r] PROVE FALSE
      OBVIOUS
    <3> HIDE DEF s
    <3>1. subgraph[r] + 1 \in Nat /\ 1 <= subgraph[r] + 1 /\ subgraph[r] + 1 <= s
      BY <2>1, <2>2
    <3>2. \A e \in Nat, d \in Nat : d \in Subgraphs /\ 1 <= e /\ e <= d => e \in Subgraphs
      BY <2>0, SubgraphsAre
    <3> QED
      BY <2>1, <2>2, <3>1, <3>2
  <2>4. Behind(r, i) <=> Hooked(i) \in ReachedLayers(r)
    BY <1>2, <2>3 DEF Behind, Ahead, Collected
  <2>5. \A j \in Indices : j < i => mappings[j].smooth # mappings[i].smooth
    <3> SUFFICES ASSUME NEW j \in Indices, j < i PROVE mappings[j].smooth # mappings[i].smooth
      OBVIOUS
    <3>1. j # i
      BY <2>0, IndicesAreFinite
    <3> QED
      BY <2>0, <3>1 DEF MappingsApart
  <2>6. Smoothable(r, i) <=> Behind(r, i) /\ Fine(r, i)
    BY <2>4, <2>5 DEF Smoothable, Fine
  <2>7. CASE Behind(r, i) /\ Fine(r, i)
    <3>1. PICK f : FactorsOf(r, i) = {f}
      BY <2>0, <2>7 DEF FactorsOK
    <3>2. Cardinality(FactorsOf(r, i)) = 1
      BY <3>1, FS_Singleton
    <3> QED
      BY <2>6, <2>7, <3>2
  <2>8. CASE ~ (Behind(r, i) /\ Fine(r, i))
    <3>1. FactorsOf(r, i) = {}
      BY <2>0, <2>8 DEF FactorsOK
    <3>2. Cardinality(FactorsOf(r, i)) = 0
      BY <3>1, FS_EmptySet
    <3> QED
      BY <2>6, <2>8, <3>2
  <2> QED
    BY <2>7, <2>8
<1>3. EachMappingOnce
  BY <1>2 DEF EachMappingOnce, FactorsOf
<1> QED
  BY <1>1, <1>3

-----------------------------------------------------------------------------
(* What the passes of a rank see: quantized weights are those of the search under
   way, and the cached output of a smooth layer carries its factors. *)
QuantizedOK(r) ==
  place[r] # "failed" =>
    quantized[r] \subseteq IF place[r] = "search" THEN mappings[Current(r)].balance ELSE {}

EmbeddedOK(r) ==
  SmoothedBeforeRead /\ propagate /\ place[r] # "failed" =>
    \A i \in Indices : layout.subgraph[mappings[i].smooth] < subgraph[r] =>
      embedded[r][mappings[i].smooth] = divided[r][mappings[i].smooth]

VisibleInv == \A r \in world : QuantizedOK(r) /\ EmbeddedOK(r)

(* Nothing is quantized and nothing embedded at first. *)
LEMMA VisibleInit ==
  ASSUME SmoothingAssumption, MappingsSupported, SmoothingInit
  PROVE  VisibleInv
<1>0. SmoothSetup
  BY SmoothLocalInit DEF SmoothLocal
<1>1. \A r \in world : r \in World
  BY <1>0, RanksTake
<1>2. \A i \in Indices : mappings[i].smooth \in Layers
  BY <1>0, MappingTypes
<1> QED
  BY <1>1, <1>2 DEF VisibleInv, QuantizedOK, EmbeddedOK, SmoothingInit

(* A search leaves its balance layers as it has found them. *)
LEMMA QuantizedKeeps ==
  ASSUME SmoothingAssumption, SmoothLocal, NEW r \in world, SmoothStep(r), QuantizedOK(r)
  PROVE  QuantizedOK(r)'
<1>0. r \in World /\ SmoothTypes /\ mappings' = mappings
  BY RanksTake, StepSetup DEF SmoothLocal
<1>1. CASE SearchPoint(r)
  <2>1. quantized'[r] = quantized[r] \cup mappings[Current(r)].balance
        /\ place[r] = "search" /\ place'[r] = "search" /\ todo' = todo
    BY <1>0, <1>1 DEF SearchPoint, SmoothTypes
  <2> QED
    BY <1>0, <2>1 DEF QuantizedOK, Current
<1>2. CASE ApplyBest(r)
  <2>1. quantized'[r] = quantized[r] \ mappings[Current(r)].balance
        /\ place[r] = "search" /\ place'[r] = "reference"
    BY <1>0, <1>2 DEF ApplyBest, StillQuantized, SmoothTypes
  <2> QED
    BY <2>1 DEF QuantizedOK
<1>3. CASE place'[r] = "failed"
  BY <1>3 DEF QuantizedOK
<1>4. CASE ~ SearchPoint(r) /\ ~ ApplyBest(r) /\ place'[r] # "failed"
  <2>1. quantized' = quantized /\ place[r] \notin {"search", "failed"}
    BY <1>0, <1>4 DEF SmoothStep, Calibrate, FinishEpoch, CalibrationEnd, ReduceScales,
         ApplyScales, SelectMappings, Reference, SkipMapping, NoFiniteLoss, EndSmoothing,
         Fail, weights, SmoothTypes
  <2> QED
    BY <2>1 DEF QuantizedOK
<1> QED
  BY <1>1, <1>2, <1>3, <1>4

(* A step only adds factors of mappings that are pending. *)
LEMMA AddsPending ==
  ASSUME SmoothingAssumption, SmoothLocal, NEW r \in world, SmoothStep(r)
  PROVE  \/ divided' = divided
         \/ /\ subgraph' = subgraph /\ embedded' = embedded
            /\ \E F : Smooth(r, F) /\ \A f \in F : f.mapping \in Due(r, subgraph[r])
<1>0. r \in World /\ SmoothSetup /\ SmoothTypes /\ MappingsApart /\ RankInv(r)
  BY RanksTake DEF SmoothLocal
<1>1. CASE ApplyScales(r)
  <2> DEFINE F == {Factor(i, ScalesOf(r, i), {}) : i \in {j \in Indices : HasScales(r, j)}}
  <2>1. Smooth(r, F) /\ place[r] = "smooth" /\ subgraph' = subgraph /\ embedded' = embedded
    BY <1>1 DEF ApplyScales
  <2>2. ASSUME NEW i \in Indices, HasScales(r, i) PROVE i \in Due(r, subgraph[r])
    <3>1. i \in Collected(r)
      BY <2>1, <2>2, PendingHasStats DEF HasScales
    <3> QED
      BY <2>1, <3>1 DEF Collected
  <2>3. \A f \in F : f.mapping \in Due(r, subgraph[r])
    BY <2>2 DEF Factor
  <2> HIDE DEF F
  <2> QED
    BY <2>1, <2>3
<1>2. CASE ApplyBest(r)
  <2> DEFINE c == Current(r)
             f0 == Factor(c, MeanOf(r, mappings[c].smooth), LossOf(r))
  <2>1. Smooth(r, {f0}) /\ place[r] = "search" /\ subgraph' = subgraph /\ embedded' = embedded
    BY <1>2 DEF ApplyBest
  <2>2. c \in todo[r]
    BY <1>0, <2>1, CurrentIsLeft DEF SmoothTypes
  <2>3. c \in Collected(r)
    BY <2>1, <2>2 DEF Collected
  <2>4. c \in Due(r, subgraph[r])
    BY <2>1, <2>3, PendingIsDue
  <2>5. \A f \in {f0} : f.mapping \in Due(r, subgraph[r])
    BY <2>4 DEF Factor
  <2> HIDE DEF f0
  <2> QED
    BY <2>1, <2>5
<1>3. CASE ~ ApplyScales(r) /\ ~ ApplyBest(r)
  BY <1>3 DEF SmoothStep, Calibrate, FinishEpoch, CalibrationEnd, ReduceScales, SelectMappings,
              Reference, SkipMapping, SearchPoint, NoFiniteLoss, EndSmoothing, Fail, weights
<1> QED
  BY <1>1, <1>2, <1>3

(* Where layers run never changes. *)
LEMMA BeforeReadStays ==
  ASSUME [SmoothingNext]_smoothVars
  PROVE  SmoothedBeforeRead' <=> SmoothedBeforeRead
BY SetupStays DEF SmoothedBeforeRead, Hooked, Indices

(* The pass after smoothing writes what the epoch has divided. *)
LEMMA EmbeddedKeeps ==
  ASSUME SmoothingAssumption, SmoothLocal, NEW r \in world, SmoothStep(r), EmbeddedOK(r)
  PROVE  EmbeddedOK(r)'
<1>0. /\ r \in World /\ SmoothSetup /\ SmoothTypes
      /\ mappings' = mappings /\ layout' = layout /\ propagate' = propagate
      /\ Indices' = Indices /\ (SmoothedBeforeRead' <=> SmoothedBeforeRead)
  BY RanksTake, StepSetup, BeforeReadStays DEF SmoothLocal
<1> SUFFICES ASSUME SmoothedBeforeRead, propagate, place'[r] # "failed", NEW i \in Indices,
                    layout.subgraph[mappings[i].smooth] < subgraph'[r]
             PROVE  embedded'[r][mappings[i].smooth] = divided'[r][mappings[i].smooth]
  BY <1>0 DEF EmbeddedOK
<1> DEFINE l == mappings[i].smooth
           s == layout.subgraph[l]
<1>1. l \in Layers /\ s \in Nat \ {0} /\ subgraph[r] \in Nat
  BY <1>0, MappingTypes DEF SmoothSetup, SmoothTypes
<1>2. place[r] # "failed"
  BY DEF SmoothStep, Calibrate, FinishEpoch, CalibrationEnd, ReduceScales, ApplyScales,
         SelectMappings, Reference, SearchPoint, NoFiniteLoss, ApplyBest, EndSmoothing
<1>3. CASE FinishEpoch(r)
  <2>1. /\ embedded'[r][l] = IF s = subgraph[r] THEN divided[r][l] ELSE embedded[r][l]
        /\ divided'[r] = divided[r]
    BY <1>0, <1>1, <1>3 DEF FinishEpoch, Embedded, SmoothTypes, weights
  <2>2. subgraph'[r] \in {subgraph[r], subgraph[r] + 1}
    BY <1>0, <1>3 DEF FinishEpoch, Following, SmoothTypes
  <2>3. s = subgraph[r] \/ s < subgraph[r]
    <3> HIDE DEF s
    <3>1. s < subgraph'[r]
      BY DEF s
    <3> QED
      BY <1>1, <2>2, <3>1
  <2>4. s < subgraph[r] => embedded[r][l] = divided[r][l]
    BY <1>2 DEF EmbeddedOK
  <2> HIDE DEF s, l
  <2>5. embedded'[r][l] = divided'[r][l]
    BY <2>1, <2>3, <2>4
  <2> QED
    BY <2>5 DEF l
<1>4. CASE ~ FinishEpoch(r) /\ divided' = divided
  <2>1. subgraph' = subgraph /\ embedded' = embedded
    BY <1>4 DEF SmoothStep, Calibrate, CalibrationEnd, ReduceScales, ApplyScales, SelectMappings,
         Reference, SkipMapping, SearchPoint, NoFiniteLoss, ApplyBest, EndSmoothing, Fail
  <2> QED
    BY <1>2, <1>4, <2>1 DEF EmbeddedOK
<1>5. ASSUME NEW F, Smooth(r, F), \A f \in F : f.mapping \in Due(r, subgraph[r]),
             subgraph' = subgraph, embedded' = embedded
      PROVE  embedded'[r][mappings[i].smooth] = divided'[r][mappings[i].smooth]
  <2>1. divided'[r][l] = divided[r][l] \cup {f \in F : l = mappings[f.mapping].smooth}
    BY <1>0, <1>1, <1>5 DEF Smooth, SmoothTypes
  <2>2. ASSUME NEW f \in F, l = mappings[f.mapping].smooth PROVE FALSE
    <3>1. /\ f.mapping \in Indices
          /\ layout.subgraph[Hooked(f.mapping)] = subgraph[r]
      BY <1>5 DEF Due
    <3>2. layout.subgraph[Hooked(f.mapping)] = s
      BY <2>2, <3>1 DEF SmoothedBeforeRead
    <3> HIDE DEF s
    <3>3. s < subgraph[r] /\ s = subgraph[r]
      BY <1>5, <3>1, <3>2 DEF s
    <3> QED
      BY <1>1, <3>3
  <2>3. divided'[r][l] = divided[r][l]
    BY <2>1, <2>2
  <2>4. embedded[r][l] = divided[r][l]
    BY <1>2, <1>5 DEF EmbeddedOK
  <2> QED
    BY <1>5, <2>3, <2>4
<1> QED
  BY <1>3, <1>4, <1>5, AddsPending

(* What the passes see is kept by every step. *)
LEMMA VisibleNext ==
  ASSUME SmoothingAssumption, SmoothLocal, VisibleInv, [SmoothingNext]_smoothVars
  PROVE  VisibleInv'
<1>0. /\ SmoothSetup /\ SmoothTypes /\ world' = world /\ mappings' = mappings
      /\ layout' = layout /\ propagate' = propagate
      /\ Indices' = Indices /\ (SmoothedBeforeRead' <=> SmoothedBeforeRead)
  BY SetupStays, BeforeReadStays DEF SmoothLocal, Indices
<1>1. ASSUME NEW q \in world, place'[q] = place[q], subgraph'[q] = subgraph[q],
             todo'[q] = todo[q], divided'[q] = divided[q], quantized'[q] = quantized[q],
             embedded'[q] = embedded[q]
      PROVE  QuantizedOK(q)' /\ EmbeddedOK(q)'
  <2>1. QuantizedOK(q) /\ EmbeddedOK(q)
    BY DEF VisibleInv
  <2>2. Current(q)' = Current(q)
    BY <1>1 DEF Current
  <2>3. QuantizedOK(q)'
    BY <1>0, <1>1, <2>1, <2>2 DEF QuantizedOK
  <2>4. EmbeddedOK(q)'
    BY <1>0, <1>1, <2>1 DEF EmbeddedOK
  <2> QED
    BY <2>3, <2>4
<1>2. CASE UNCHANGED smoothVars
  BY <1>0, <1>1, <1>2 DEF VisibleInv, smoothVars, weights
<1>3. ASSUME NEW r \in world, SmoothStep(r) PROVE VisibleInv'
  <2>1. ASSUME NEW q \in world PROVE QuantizedOK(q)' /\ EmbeddedOK(q)'
    <3>1. CASE q = r
      BY <1>3, <3>1, QuantizedKeeps, EmbeddedKeeps DEF VisibleInv
    <3>2. CASE q # r
      <4>1. /\ place'[q] = place[q] /\ subgraph'[q] = subgraph[q] /\ todo'[q] = todo[q]
            /\ divided'[q] = divided[q] /\ quantized'[q] = quantized[q]
            /\ embedded'[q] = embedded[q]
        BY <1>0, <1>3, <3>2, OthersStay
      <4> QED
        BY <1>1, <4>1
    <3> QED
      BY <3>1, <3>2
  <2> QED
    BY <1>0, <2>1 DEF VisibleInv
<1> QED
  BY <1>2, <1>3 DEF SmoothingNext

(* What balance layers are multiplied by is what their inputs are divided by. *)
LEMMA NothingIsVisible ==
  ASSUME SmoothLocal, VisibleInv
  PROVE  SmoothingIsInvisible
<1>0. SmoothSetup /\ SmoothTypes /\ BalanceInv
  BY DEF SmoothLocal
<1>1. SearchLeavesNothing
  BY DEF VisibleInv, QuantizedOK, SearchLeavesNothing
<1>2. ASSUME SmoothedBeforeRead, NEW r \in world, place[r] \in {"calibrate", "propagate"},
             NEW l \in Runs(r)
      PROVE  multiplied[r][l] = InputFactors(r, l)
  <2>1. l \in Layers /\ layout.subgraph[l] = subgraph[r] /\ r \in World
    <3>1. reach[r] \in Seq(Layers)
      BY <1>0 DEF SmoothSetup
    <3>2. ToSet(reach[r]) \subseteq Layers
      BY <3>1 DEF ToSet
    <3> QED
      BY <1>0, <1>2, <3>2, RanksTake DEF Runs, ReachedLayers
  <2> DEFINE J == {j \in Indices : l \in mappings[j].balance}
             Input(i) == IF layout.subgraph[mappings[i].smooth] = subgraph[r]
                         THEN divided[r][mappings[i].smooth]
                         ELSE embedded[r][mappings[i].smooth]
  <2>2. ASSUME NEW i \in J PROVE Input(i) = divided[r][mappings[i].smooth]
    <3> DEFINE s == layout.subgraph[mappings[i].smooth]
    <3>1. s \in Nat /\ subgraph[r] \in Nat
      BY <1>0, <2>1, <2>2, MappingTypes DEF SmoothSetup, SmoothTypes
    <3>2. layout.subgraph[l] = s \/ (propagate /\ layout.subgraph[l] > s)
      BY <1>2, <2>2 DEF SmoothedBeforeRead
    <3>3. s = subgraph[r] \/ (propagate /\ s < subgraph[r])
      <4> HIDE DEF s
      <4> QED
        BY <2>1, <3>1, <3>2
    <3>4. propagate /\ s < subgraph[r] =>
            embedded[r][mappings[i].smooth] = divided[r][mappings[i].smooth]
      BY <1>2, <2>2 DEF VisibleInv, EmbeddedOK
    <3> QED
      BY <3>3, <3>4
  <2>3. InputFactors(r, l) = UNION {Input(i) : i \in J}
    BY DEF InputFactors
  <2>4. \A f : f \in multiplied[r][l] <=>
          \E j \in Indices : l \in mappings[j].balance /\ f \in divided[r][mappings[j].smooth]
    BY <1>0, <2>1 DEF BalanceInv
  <2>5. \A f : f \in multiplied[r][l] <=> \E j \in J : f \in divided[r][mappings[j].smooth]
    BY <2>4
  <2>6. \A f : f \in UNION {Input(i) : i \in J} <=> \E i \in J : f \in Input(i)
    OBVIOUS
  <2> HIDE DEF J, Input
  <2>7. \A f : f \in multiplied[r][l] <=> f \in UNION {Input(i) : i \in J}
    BY <2>2, <2>5, <2>6
  <2>8. multiplied[r][l] = UNION {Input(i) : i \in J}
    BY <2>7
  <2> QED
    BY <2>3, <2>8
<1>3. InputsMatchWeights
  BY <1>2 DEF InputsMatchWeights
<1> QED
  BY <1>1, <1>3 DEF SmoothingIsInvisible

-----------------------------------------------------------------------------
(* What a rank issues *)

Issued(ops, more) == IF SeveralRanks THEN ops \o more ELSE ops

(* The layers that the mappings of an epoch smooth, and their reductions by
   SmoothQuant. *)
SmoothedIn(r, e) == {mappings[i].smooth : i \in Due(r, e)}

Batch(r, e) ==
  LET entries == Ordered({k \in DOMAIN reach[r] : reach[r][k] \in SmoothedIn(r, e)})
  IN [n \in DOMAIN entries |-> Reduction("scales", reach[r][entries[n]], 1)]

MeanOp(i) == Reduction("mean", mappings[i].smooth, 1)

LossOp(r, i) ==
  Reduction("loss", mappings[i].smooth, IF bad[r][i] = "losses" THEN 0 ELSE 1)

(* Reductions go to the end of those a rank has issued. *)
LEMMA IssueAdds ==
  ASSUME SmoothTypes, NEW r \in World, NEW ops, AllReduce(r, ops)
  PROVE  reductions'[r] = Issued(reductions[r], ops)
BY DEF AllReduce, Issued, SmoothTypes

(* A mapping is skipped without a reduction, or its mean is reduced. *)
LEMMA ReferenceIssues ==
  ASSUME SmoothingAssumption, SmoothLocal, NEW r \in world, Reference(r)
  PROVE  \/ /\ layout.calls[mappings[Current(r)].parent] = 0
               \/ bad[r][Current(r)] = "outputs"
            /\ todo'[r] = todo[r] \ {Current(r)} /\ place' = place /\ subgraph' = subgraph
            /\ reductions' = reductions
         \/ /\ layout.calls[mappings[Current(r)].parent] # 0
            /\ bad[r][Current(r)] # "outputs"
            /\ todo' = todo /\ place'[r] = "search" /\ subgraph' = subgraph
            /\ point'[r] = 0 /\ reductions'[r] = Issued(reductions[r], <<MeanOp(Current(r))>>)
<1> DEFINE c == Current(r)
<1>0. r \in World /\ SmoothSetup /\ SmoothTypes
  BY RanksTake DEF SmoothLocal
<1>1. /\ ~ Fail(r, "key")
      /\ SkipMapping(r) <=> (layout.calls[mappings[c].parent] = 0 \/ bad[r][c] = "outputs")
  BY ReferenceKeeps
<1>2. place[r] = "reference" /\ todo[r] # {} /\ Collected(r) = todo[r]
  BY DEF Reference, Collected
<1>3. c \in todo[r] /\ c \in Indices
  BY <1>0, <1>2, CurrentIsLeft
<1>4. collected[r][mappings[c].smooth] = 1
  BY <1>2, <1>3, PendingHasStats
<1>5. CASE SkipMapping(r)
  BY <1>0, <1>1, <1>5 DEF SkipMapping, SmoothTypes
<1>6. CASE ~ SkipMapping(r)
  <2>1. /\ AllReduce(r, << Reduction("mean", mappings[c].smooth, collected[r][mappings[c].smooth]) >>)
        /\ point' = [point EXCEPT ![r] = 0]
        /\ place' = [place EXCEPT ![r] = "search"]
        /\ todo' = todo /\ subgraph' = subgraph
    BY <1>1, <1>6 DEF Reference
  <2>2. AllReduce(r, <<MeanOp(c)>>)
    BY <1>4, <2>1 DEF MeanOp
  <2>3. reductions'[r] = Issued(reductions[r], <<MeanOp(c)>>)
    BY <1>0, <2>2, IssueAdds
  <2>4. place'[r] = "search" /\ point'[r] = 0
    BY <1>0, <2>1 DEF SmoothTypes
  <2> QED
    BY <1>1, <1>6, <2>1, <2>3, <2>4
<1> QED
  BY <1>5, <1>6

(* A point of the search reduces its loss. *)
LEMMA SearchIssues ==
  ASSUME SmoothingAssumption, SmoothLocal, NEW r \in world, SearchPoint(r)
  PROVE  /\ point'[r] = point[r] + 1 /\ point[r] < Grid /\ point[r] \in Nat
         /\ todo' = todo /\ place' = place /\ subgraph' = subgraph
         /\ reductions'[r] = Issued(reductions[r], <<LossOp(r, Current(r))>>)
<1>0. r \in World /\ SmoothSetup /\ SmoothTypes
  BY RanksTake DEF SmoothLocal
<1>1. AllReduce(r, <<LossOp(r, Current(r))>>)
  BY DEF SearchPoint, LossOp, Loss
<1> QED
  BY <1>0, <1>1, IssueAdds DEF SearchPoint, SmoothTypes

(* SmoothQuant reduces what is due. *)
LEMMA ReduceIssues ==
  ASSUME SmoothingAssumption, SmoothLocal, NEW r \in world, ReduceScales(r)
  PROVE  /\ place[r] = "reduce" /\ place'[r] = "smooth" /\ subgraph' = subgraph
         /\ reductions'[r] = Issued(reductions[r], Batch(r, subgraph[r]))
<1>0. r \in World /\ SmoothSetup /\ SmoothTypes /\ RankInv(r)
  BY RanksTake DEF SmoothLocal
<1>1. place[r] = "reduce" /\ place'[r] = "smooth" /\ subgraph' = subgraph
  BY <1>0 DEF ReduceScales, SmoothTypes
<1>2. Collected(r) = Due(r, subgraph[r])
  BY <1>1 DEF Collected
<1>3. \A l \in Layers : collected[r][l] = IF l \in SmoothedIn(r, subgraph[r]) THEN 1 ELSE 0
  BY <1>0, <1>1, <1>2 DEF RankInv, StatsOK, SmoothedIn
<1>4. reach[r] \in Seq(Layers)
  BY <1>0 DEF SmoothSetup
<1>5. \A k \in DOMAIN reach[r] : reach[r][k] \in Layers
  BY <1>4
<1> DEFINE S == {k \in DOMAIN reach[r] : collected[r][reach[r][k]] > 0}
           T == {k \in DOMAIN reach[r] : reach[r][k] \in SmoothedIn(r, subgraph[r])}
<1>6. S = T
  BY <1>3, <1>5
<1> DEFINE entries == Ordered(T)
<1>7. AllReduce(r, [n \in DOMAIN entries |->
                  Reduction("scales", reach[r][entries[n]], collected[r][reach[r][entries[n]]])])
  <2> HIDE DEF T
  <2> QED
    BY <1>6 DEF ReduceScales
<1>8. IsFiniteSet(T) /\ T \subseteq Nat /\ T \subseteq DOMAIN reach[r]
  <2>1. Len(reach[r]) \in Nat /\ DOMAIN reach[r] = 1 .. Len(reach[r])
    BY <1>4
  <2>2. T \subseteq 1 .. Len(reach[r])
    BY <2>1
  <2>3. IsFiniteSet(T)
    <3> HIDE DEF T
    <3> QED
      BY <2>1, <2>2, PlacesAreFinite
  <2> QED
    BY <2>1, <2>2, <2>3
<1>9. entries \in [1 .. Cardinality(T) -> T]
  <2> HIDE DEF T
  <2> QED
    BY <1>8, OrderedIsOnto
<1>10. \A n \in DOMAIN entries : collected[r][reach[r][entries[n]]] = 1
  <2> SUFFICES ASSUME NEW n \in DOMAIN entries PROVE collected[r][reach[r][entries[n]]] = 1
    OBVIOUS
  <2>1. entries[n] \in T
    <3> HIDE DEF T
    <3> QED
      BY <1>9
  <2> HIDE DEF entries
  <2> QED
    BY <1>3, <1>5, <2>1
<1>11. Batch(r, subgraph[r]) = [n \in DOMAIN entries |->
                                  Reduction("scales", reach[r][entries[n]], 1)]
  BY DEF Batch
<1>12. AllReduce(r, Batch(r, subgraph[r]))
  <2> HIDE DEF entries
  <2> QED
    BY <1>7, <1>10, <1>11
<1>13. reductions'[r] = Issued(reductions[r], Batch(r, subgraph[r]))
  BY <1>0, <1>12, IssueAdds
<1> QED
  BY <1>1, <1>13

(* The other steps issue nothing. *)
LEMMA OthersIssue ==
  ASSUME NEW r \in world, SmoothStep(r), ~ Reference(r), ~ SearchPoint(r), ~ ReduceScales(r)
  PROVE  reductions' = reductions
BY DEF SmoothStep, Calibrate, FinishEpoch, CalibrationEnd, ApplyScales, SelectMappings, NoFiniteLoss,
       ApplyBest, EndSmoothing, Fail

(* The reductions of SmoothQuant are those of the layers that are smoothed. *)
LEMMA BatchFacts ==
  ASSUME SmoothSetup, NEW r \in world, NEW e
  PROVE  /\ Batch(r, e) \in Seq(Reductions)
         /\ \A n \in DOMAIN Batch(r, e) :
              Batch(r, e)[n].kind = "scales" /\ Batch(r, e)[n].data = 1
         /\ algorithm = "smoothquant" => \A i \in Due(r, e) : \E n \in DOMAIN Batch(r, e) :
              Batch(r, e)[n].layer = mappings[i].smooth
         /\ Due(r, e) = {} => Batch(r, e) = <<>>
<1> DEFINE T == {k \in DOMAIN reach[r] : reach[r][k] \in SmoothedIn(r, e)}
           entries == Ordered(T)
<1>1. reach[r] \in Seq(Layers)
  BY DEF SmoothSetup
<1>2. /\ Len(reach[r]) \in Nat /\ DOMAIN reach[r] = 1 .. Len(reach[r])
      /\ \A k \in DOMAIN reach[r] : reach[r][k] \in Layers
  BY <1>1
<1>3. IsFiniteSet(T) /\ T \subseteq Nat /\ T \subseteq DOMAIN reach[r]
  <2>1. T \subseteq 1 .. Len(reach[r])
    BY <1>2
  <2>2. IsFiniteSet(T)
    <3> HIDE DEF T
    <3> QED
      BY <1>2, <2>1, PlacesAreFinite
  <2> QED
    BY <1>2, <2>1, <2>2
<1>4. /\ Cardinality(T) \in Nat /\ entries \in [1 .. Cardinality(T) -> T]
      /\ \A k \in T : \E n \in 1 .. Cardinality(T) : entries[n] = k
  <2> HIDE DEF T
  <2> QED
    BY <1>3, OrderedIsOnto
<1>5. Batch(r, e) = [n \in DOMAIN entries |-> Reduction("scales", reach[r][entries[n]], 1)]
  BY DEF Batch
<1>6. T = {} => Cardinality(T) = 0
  BY FS_EmptySet
<1>7. Due(r, e) = {} => T = {}
  BY DEF SmoothedIn
<1>8. algorithm = "smoothquant" =>
        \A i \in Due(r, e) : \E k \in T : reach[r][k] = mappings[i].smooth
  <2> SUFFICES ASSUME algorithm = "smoothquant", NEW i \in Due(r, e)
               PROVE  \E k \in T : reach[r][k] = mappings[i].smooth
    OBVIOUS
  <2>1. mappings[i].smooth \in ToSet(reach[r])
    BY DEF Due, Hooked, ReachedLayers
  <2>2. PICK k \in DOMAIN reach[r] : reach[r][k] = mappings[i].smooth
    BY <2>1 DEF ToSet
  <2> QED
    BY <2>2 DEF SmoothedIn
<1> HIDE DEF T, entries
<1>9. \A n \in 1 .. Cardinality(T) :
        Reduction("scales", reach[r][entries[n]], 1) \in Reductions
  BY <1>2, <1>3, <1>4 DEF Reduction, Reductions
<1>10. Batch(r, e) \in [1 .. Cardinality(T) -> Reductions]
  BY <1>4, <1>5, <1>9
<1>11. Batch(r, e) \in Seq(Reductions)
  BY <1>4, <1>10
<1>12. \A n \in DOMAIN Batch(r, e) :
         Batch(r, e)[n].kind = "scales" /\ Batch(r, e)[n].data = 1
  BY <1>5 DEF Reduction
<1>13. ASSUME algorithm = "smoothquant", NEW i \in Due(r, e)
       PROVE  \E n \in DOMAIN Batch(r, e) : Batch(r, e)[n].layer = mappings[i].smooth
  <2>1. PICK k \in T : reach[r][k] = mappings[i].smooth
    BY <1>8, <1>13
  <2>2. PICK n \in 1 .. Cardinality(T) : entries[n] = k
    BY <1>4, <2>1
  <2>3. n \in DOMAIN Batch(r, e) /\ Batch(r, e)[n].layer = mappings[i].smooth
    BY <1>4, <1>5, <2>1, <2>2 DEF Reduction
  <2> QED
    BY <2>3
<1>14. ASSUME Due(r, e) = {} PROVE Batch(r, e) = <<>>
  <2>1. Cardinality(T) = 0
    BY <1>6, <1>7, <1>14
  <2>2. Len(Batch(r, e)) = 0
    BY <1>10, <1>11, <2>1
  <2> QED
    BY <1>11, <2>2
<1> QED
  BY <1>11, <1>12, <1>13, <1>14

-----------------------------------------------------------------------------
(* The statistics that a rank has reduced count its data once, and what it is about
   to smooth has been reduced. *)
Has(ops, kind, l) == \E j \in DOMAIN ops : ops[j].kind = kind /\ ops[j].layer = l

CountsOnce(ops) ==
  \A j \in DOMAIN ops : ops[j].kind \in {"mean", "scales"} => ops[j].data = 1

OpsOK(r) ==
  /\ CountsOnce(reductions[r])
  /\ SeveralRanks /\ place[r] = "search" =>
       Has(reductions[r], "mean", mappings[Current(r)].smooth)
  /\ SeveralRanks /\ place[r] = "smooth" =>
       \A i \in Due(r, subgraph[r]) : Has(reductions[r], "scales", mappings[i].smooth)

OpsInv == \A r \in world : OpsOK(r)

(* What is issued is kept, and only what is issued is added. *)
LEMMA IssuedFacts ==
  ASSUME NEW a \in Seq(Reductions), NEW b \in Seq(Reductions), NEW c, c = Issued(a, b)
  PROVE  /\ c \in Seq(Reductions)
         /\ \A j \in DOMAIN a : j \in DOMAIN c /\ c[j] = a[j]
         /\ \A j \in DOMAIN c : j \in DOMAIN a \/ \E n \in DOMAIN b : c[j] = b[n]
         /\ SeveralRanks => \A n \in DOMAIN b : \E j \in DOMAIN c : c[j] = b[n]
         /\ Len(a) \in Nat /\ Len(c) \in Nat /\ Len(a) <= Len(c)
<1>1. /\ DOMAIN a = 1 .. Len(a) /\ DOMAIN b = 1 .. Len(b) /\ Len(a) \in Nat /\ Len(b) \in Nat
  OBVIOUS
<1>2. CASE ~ SeveralRanks
  BY <1>1, <1>2 DEF Issued
<1>3. CASE SeveralRanks
  <2>1. c = a \o b
    BY <1>3 DEF Issued
  <2>2. c \in Seq(Reductions) /\ Len(c) = Len(a) + Len(b) /\ DOMAIN c = 1 .. Len(c)
    BY <2>1
  <2>3. \A j \in 1 .. Len(a) : c[j] = a[j]
    BY <2>1
  <2>4. \A n \in 1 .. Len(b) : c[Len(a) + n] = b[n]
    BY <2>1
  <2>5. ASSUME NEW j \in DOMAIN c, j \notin DOMAIN a PROVE \E n \in DOMAIN b : c[j] = b[n]
    <3>1. j - Len(a) \in 1 .. Len(b) /\ j = Len(a) + (j - Len(a))
      BY <1>1, <2>2, <2>5
    <3> QED
      BY <1>1, <2>4, <3>1
  <2>6. ASSUME NEW n \in DOMAIN b PROVE \E j \in DOMAIN c : c[j] = b[n]
    <3>1. Len(a) + n \in DOMAIN c
      BY <1>1, <2>2
    <3> QED
      BY <1>1, <2>4, <3>1
  <2>7. \A j \in DOMAIN a : j \in DOMAIN c /\ c[j] = a[j]
    BY <1>1, <2>2, <2>3
  <2>8. Len(c) \in Nat /\ Len(a) <= Len(c)
    BY <1>1, <2>2
  <2> QED
    BY <1>1, <2>2, <2>5, <2>6, <2>7, <2>8
<1> QED
  BY <1>2, <1>3

(* Reductions of statistics that count once leave it so, and find their place. *)
LEMMA IssuedCounts ==
  ASSUME NEW a \in Seq(Reductions), NEW b \in Seq(Reductions), NEW c, c = Issued(a, b),
         CountsOnce(a), CountsOnce(b)
  PROVE  /\ CountsOnce(c)
         /\ \A kind, l : Has(a, kind, l) => Has(c, kind, l)
         /\ SeveralRanks => \A kind, l : Has(b, kind, l) => Has(c, kind, l)
<1>1. /\ \A j \in DOMAIN a : j \in DOMAIN c /\ c[j] = a[j]
      /\ \A j \in DOMAIN c : j \in DOMAIN a \/ \E n \in DOMAIN b : c[j] = b[n]
      /\ SeveralRanks => \A n \in DOMAIN b : \E j \in DOMAIN c : c[j] = b[n]
  BY IssuedFacts
<1>2. CountsOnce(c)
  BY <1>1 DEF CountsOnce
<1>3. \A kind, l : Has(a, kind, l) => Has(c, kind, l)
  BY <1>1 DEF Has
<1>4. ASSUME SeveralRanks, NEW kind, NEW l, Has(b, kind, l) PROVE Has(c, kind, l)
  <2>1. PICK n \in DOMAIN b : b[n].kind = kind /\ b[n].layer = l
    BY <1>4 DEF Has
  <2>2. PICK j \in DOMAIN c : c[j] = b[n]
    BY <1>1, <1>4
  <2> QED
    BY <2>1, <2>2 DEF Has
<1> QED
  BY <1>2, <1>3, <1>4

(* The reductions of a step. *)
LEMMA OneOp ==
  ASSUME SmoothSetup, NEW r \in world, NEW i \in Indices
  PROVE  /\ <<MeanOp(i)>> \in Seq(Reductions) /\ <<LossOp(r, i)>> \in Seq(Reductions)
         /\ CountsOnce(<<MeanOp(i)>>) /\ CountsOnce(<<LossOp(r, i)>>)
         /\ Has(<<MeanOp(i)>>, "mean", mappings[i].smooth)
<1>1. mappings[i].smooth \in Layers
  BY MappingTypes
<1>2. MeanOp(i) \in Reductions /\ LossOp(r, i) \in Reductions
  BY <1>1 DEF MeanOp, LossOp, Reduction, Reductions
<1>3. <<MeanOp(i)>> \in Seq(Reductions) /\ <<LossOp(r, i)>> \in Seq(Reductions)
  BY <1>2
<1>4. CountsOnce(<<MeanOp(i)>>) /\ CountsOnce(<<LossOp(r, i)>>)
  BY DEF CountsOnce, MeanOp, LossOp, Reduction
<1>5. Has(<<MeanOp(i)>>, "mean", mappings[i].smooth)
  <2>1. 1 \in DOMAIN <<MeanOp(i)>> /\ <<MeanOp(i)>>[1] = MeanOp(i)
    OBVIOUS
  <2> QED
    BY <2>1 DEF Has, MeanOp, Reduction
<1> QED
  BY <1>3, <1>4, <1>5

(* Nothing is issued at first. *)
LEMMA OpsInit ==
  ASSUME SmoothingAssumption, MappingsSupported, SmoothingInit
  PROVE  OpsInv
<1>0. SmoothSetup
  BY SmoothLocalInit DEF SmoothLocal
<1>1. \A r \in world : r \in World
  BY <1>0, RanksTake
<1> QED
  BY <1>1 DEF OpsInv, OpsOK, CountsOnce, SmoothingInit

(* A rank reduces statistics of its data once, before it smooths with them. *)
LEMMA OpsKeeps ==
  ASSUME SmoothingAssumption, SmoothLocal, NEW r \in world, SmoothStep(r), OpsOK(r)
  PROVE  OpsOK(r)'
<1>0. /\ r \in World /\ SmoothSetup /\ SmoothTypes /\ RankInv(r) /\ reductions[r] \in Seq(Reductions)
      /\ mappings' = mappings /\ (SeveralRanks' <=> SeveralRanks)
      /\ \A e : Due(r, e)' = Due(r, e)
  BY RanksTake, StepSetup DEF SmoothLocal, SmoothTypes
<1> DEFINE c == Current(r)
           l == mappings[c].smooth
<1>1. CASE Reference(r)
  <2>1. todo[r] # {} /\ place[r] = "reference"
    BY <1>1 DEF Reference
  <2>2. c \in Indices
    BY <1>0, <2>1, CurrentIsLeft
  <2>3. CASE reductions' = reductions /\ place' = place
    BY <2>1, <2>3 DEF OpsOK
  <2>4. CASE /\ todo' = todo /\ place'[r] = "search"
             /\ reductions'[r] = Issued(reductions[r], <<MeanOp(c)>>)
    <3>1. CountsOnce(reductions'[r]) /\ (SeveralRanks => Has(reductions'[r], "mean", l))
      <4> DEFINE b == <<MeanOp(c)>>
      <4>1. b \in Seq(Reductions) /\ CountsOnce(b) /\ Has(b, "mean", l)
        BY <1>0, <2>2, OneOp
      <4> HIDE DEF b
      <4>2. reductions'[r] = Issued(reductions[r], b) /\ CountsOnce(reductions[r])
        BY <2>4 DEF OpsOK, b
      <4> QED
        BY <1>0, <4>1, <4>2, IssuedCounts
    <3>2. c' = c
      BY <2>4 DEF Current
    <3> QED
      BY <1>0, <2>4, <3>1, <3>2 DEF OpsOK
  <2> QED
    BY <1>1, <2>3, <2>4, ReferenceIssues
<1>2. CASE SearchPoint(r)
  <2>1. /\ todo' = todo /\ place' = place /\ reductions'[r] = Issued(reductions[r], <<LossOp(r, c)>>)
        /\ place[r] = "search"
    BY <1>2, SearchIssues DEF SearchPoint
  <2>2. c \in Indices
    BY <1>0, <2>1, CurrentIsLeft DEF SmoothTypes
  <2>3. /\ CountsOnce(reductions'[r])
        /\ \A kind, m : Has(reductions[r], kind, m) => Has(reductions'[r], kind, m)
    BY <1>0, <2>1, <2>2, OneOp, IssuedCounts DEF OpsOK
  <2>4. c' = c
    BY <2>1 DEF Current
  <2> QED
    BY <1>0, <2>1, <2>3, <2>4 DEF OpsOK
<1>3. CASE ReduceScales(r)
  <2> DEFINE b == Batch(r, subgraph[r])
  <2>1. /\ place[r] = "reduce" /\ place'[r] = "smooth" /\ subgraph' = subgraph
        /\ reductions'[r] = Issued(reductions[r], b)
    BY <1>3, ReduceIssues
  <2>2. algorithm = "smoothquant"
    BY <1>0, <2>1 DEF RankInv, PhaseOK
  <2>3. /\ b \in Seq(Reductions)
        /\ \A n \in DOMAIN b : b[n].kind = "scales" /\ b[n].data = 1
        /\ \A i \in Due(r, subgraph[r]) : \E n \in DOMAIN b : b[n].layer = mappings[i].smooth
    BY <1>0, <2>2, BatchFacts
  <2> HIDE DEF b
  <2>4. CountsOnce(b) /\ \A i \in Due(r, subgraph[r]) : Has(b, "scales", mappings[i].smooth)
    BY <2>3 DEF CountsOnce, Has
  <2>5. /\ CountsOnce(reductions'[r])
        /\ SeveralRanks => \A kind, m : Has(b, kind, m) => Has(reductions'[r], kind, m)
    BY <1>0, <2>1, <2>3, <2>4, IssuedCounts DEF OpsOK
  <2>6. SeveralRanks => \A i \in Due(r, subgraph[r]) : Has(reductions'[r], "scales", mappings[i].smooth)
    BY <2>4, <2>5
  <2> QED
    BY <1>0, <2>1, <2>5, <2>6 DEF OpsOK
<1>4. CASE ~ Reference(r) /\ ~ SearchPoint(r) /\ ~ ReduceScales(r)
  <2>1. reductions' = reductions
    BY <1>4, OthersIssue
  <2>2. place'[r] \notin {"search", "smooth"}
    BY <1>0, <1>4 DEF SmoothStep, Calibrate, FinishEpoch, AfterEpoch, CalibrationEnd, ApplyScales,
         SelectMappings, NoFiniteLoss, ApplyBest, EndSmoothing, Fail, SmoothTypes
  <2> QED
    BY <2>1, <2>2 DEF OpsOK
<1> QED
  BY <1>1, <1>2, <1>3, <1>4

(* This is kept by every step. *)
LEMMA OpsNext ==
  ASSUME SmoothingAssumption, SmoothLocal, OpsInv, [SmoothingNext]_smoothVars
  PROVE  OpsInv'
<1>0. /\ SmoothSetup /\ SmoothTypes /\ world' = world /\ mappings' = mappings
      /\ (SeveralRanks' <=> SeveralRanks) /\ \A q, e : Due(q, e)' = Due(q, e)
  BY SetupStays DEF SmoothLocal, SeveralRanks, Due, Hooked, ReachedLayers, Indices
<1>1. ASSUME NEW q \in world, place'[q] = place[q], subgraph'[q] = subgraph[q],
             todo'[q] = todo[q], reductions'[q] = reductions[q]
      PROVE  OpsOK(q)'
  <2>1. OpsOK(q)
    BY DEF OpsInv
  <2>2. Current(q)' = Current(q)
    BY <1>1 DEF Current
  <2> QED
    BY <1>0, <1>1, <2>1, <2>2 DEF OpsOK
<1>2. CASE UNCHANGED smoothVars
  BY <1>0, <1>1, <1>2 DEF OpsInv, smoothVars
<1>3. ASSUME NEW r \in world, SmoothStep(r) PROVE OpsInv'
  <2>1. ASSUME NEW q \in world PROVE OpsOK(q)'
    <3>1. CASE q = r
      BY <1>3, <3>1, OpsKeeps DEF OpsInv
    <3>2. CASE q # r
      <4>1. /\ place'[q] = place[q] /\ subgraph'[q] = subgraph[q] /\ todo'[q] = todo[q]
            /\ reductions'[q] = reductions[q]
        BY <1>0, <1>3, <3>2, OthersStay
      <4> QED
        BY <1>1, <4>1
    <3> QED
      BY <3>1, <3>2
  <2> QED
    BY <1>0, <2>1 DEF OpsInv
<1> QED
  BY <1>2, <1>3 DEF SmoothingNext

-----------------------------------------------------------------------------
(* The course that all ranks take: what is left of an epoch, how far the search of
   the first mapping is, and the reductions issued until then. *)
Stage(e, t, p, ops) == [epoch |-> e, todo |-> t, point |-> p, ops |-> ops]

Stages == [epoch : Nat, todo : SUBSET Indices, point : Nat, ops : Seq(Reductions)]

Follow(r, s) ==
  LET i == Min(s.todo) IN
  IF s.todo = {} THEN Stage(s.epoch + 1, Due(r, s.epoch + 1), 0, s.ops)
  ELSE IF algorithm = "smoothquant"
  THEN Stage(s.epoch, {}, 0, Issued(s.ops, Batch(r, s.epoch)))
  ELSE IF layout.calls[mappings[i].parent] = 0 \/ bad[r][i] = "outputs"
  THEN Stage(s.epoch, s.todo \ {i}, 0, s.ops)
  ELSE IF s.point = 0 THEN Stage(s.epoch, s.todo, 1, Issued(s.ops, <<MeanOp(i)>>))
  ELSE IF s.point <= Grid
  THEN Stage(s.epoch, s.todo, s.point + 1, Issued(s.ops, <<LossOp(r, i)>>))
  ELSE Stage(s.epoch, s.todo \ {i}, 0, s.ops)

IsCourse(F) ==
  /\ F \in [Nat -> Stages]
  /\ \A r \in world : /\ F[0] = Stage(1, Due(r, 1), 0, <<>>)
                      /\ \A n \in Nat : F[n + 1] = Follow(r, F[n])

(* The stage a rank is at. *)
Left(r) ==
  IF place[r] \in {"calibrate", "select", "reduce"} THEN Due(r, subgraph[r])
  ELSE IF place[r] \in {"reference", "search"} THEN todo[r] ELSE {}

Place(r) ==
  Stage(subgraph[r], Left(r), IF place[r] = "search" THEN point[r] + 1 ELSE 0, reductions[r])

OnCourse(r, F) ==
  \E n \in Nat : IF place[r] = "failed" THEN F[n].ops = reductions[r] ELSE F[n] = Place(r)

CourseInv == SameReach => \E F : IsCourse(F) /\ \A r \in world : OnCourse(r, F)

(* a is the beginning of b. *)
Begins(a, b) == Len(a) <= Len(b) /\ \A j \in DOMAIN a : j \in DOMAIN b /\ b[j] = a[j]

(* The next stage has the reductions of the last, and maybe more. *)
LEMMA FollowTypes ==
  ASSUME SmoothSetup, NEW r \in world, NEW s \in Stages
  PROVE  Follow(r, s) \in Stages /\ Begins(s.ops, Follow(r, s).ops)
<1> DEFINE i == Min(s.todo)
<1>1. /\ s.epoch \in Nat /\ s.todo \subseteq Indices /\ s.point \in Nat
      /\ s.ops \in Seq(Reductions)
  BY DEF Stages
<1>2. s.todo # {} => i \in s.todo /\ i \in Indices
  <2>1. s.todo \subseteq Nat
    BY <1>1, IndicesAreFinite
  <2> QED
    BY <1>1, <2>1, MinOfSet
<1>3. \A e : Due(r, e) \subseteq Indices
  BY DEF Due
<1>4. /\ Batch(r, s.epoch) \in Seq(Reductions)
      /\ s.todo # {} => /\ <<MeanOp(i)>> \in Seq(Reductions)
                        /\ <<LossOp(r, i)>> \in Seq(Reductions)
  BY <1>2, BatchFacts, OneOp
<1> HIDE DEF i
<1>5. ASSUME NEW b \in Seq(Reductions)
      PROVE  Issued(s.ops, b) \in Seq(Reductions) /\ Begins(s.ops, Issued(s.ops, b))
  <2> DEFINE c == Issued(s.ops, b)
  <2>1. /\ c \in Seq(Reductions) /\ \A j \in DOMAIN s.ops : j \in DOMAIN c /\ c[j] = s.ops[j]
        /\ Len(s.ops) <= Len(c)
    BY <1>1, IssuedFacts
  <2> QED
    BY <2>1 DEF Begins
<1>6. Begins(s.ops, s.ops)
  <2>1. Len(s.ops) \in Nat
    BY <1>1
  <2> QED
    BY <2>1 DEF Begins
<1>7. ASSUME NEW e \in Nat, NEW t \in SUBSET Indices, NEW p \in Nat, NEW b \in Seq(Reductions)
      PROVE  Stage(e, t, p, b) \in Stages /\ Stage(e, t, p, b).ops = b
  BY DEF Stage, Stages
<1>8. CASE s.todo = {}
  <2>1. Follow(r, s) = Stage(s.epoch + 1, Due(r, s.epoch + 1), 0, s.ops)
    BY <1>8 DEF Follow
  <2>2. s.epoch + 1 \in Nat /\ Due(r, s.epoch + 1) \in SUBSET Indices
    BY <1>1, <1>3
  <2> QED
    BY <1>1, <1>6, <1>7, <2>1, <2>2
<1>9. CASE s.todo # {} /\ algorithm = "smoothquant"
  <2>1. Follow(r, s) = Stage(s.epoch, {}, 0, Issued(s.ops, Batch(r, s.epoch)))
    BY <1>9 DEF Follow
  <2> QED
    BY <1>1, <1>4, <1>5, <1>7, <2>1
<1>10. CASE s.todo # {} /\ algorithm # "smoothquant"
  <2>1. \/ Follow(r, s) = Stage(s.epoch, s.todo \ {i}, 0, s.ops)
        \/ Follow(r, s) = Stage(s.epoch, s.todo, 1, Issued(s.ops, <<MeanOp(i)>>))
        \/ Follow(r, s) = Stage(s.epoch, s.todo, s.point + 1, Issued(s.ops, <<LossOp(r, i)>>))
    BY <1>10 DEF Follow, i
  <2>2. s.todo \ {i} \in SUBSET Indices /\ s.todo \in SUBSET Indices
        /\ s.point + 1 \in Nat /\ 0 \in Nat /\ 1 \in Nat
    BY <1>1
  <2>3. CASE Follow(r, s) = Stage(s.epoch, s.todo \ {i}, 0, s.ops)
    BY <1>1, <1>6, <1>7, <2>2, <2>3
  <2>4. CASE Follow(r, s) = Stage(s.epoch, s.todo, 1, Issued(s.ops, <<MeanOp(i)>>))
    <3> DEFINE b == Issued(s.ops, <<MeanOp(i)>>)
    <3>1. b \in Seq(Reductions) /\ Begins(s.ops, b)
      BY <1>4, <1>5, <1>10
    <3>2. Follow(r, s) = Stage(s.epoch, s.todo, 1, b)
      BY <2>4
    <3> HIDE DEF b
    <3> QED
      BY <1>1, <1>7, <2>2, <3>1, <3>2
  <2>5. CASE Follow(r, s)
               = Stage(s.epoch, s.todo, s.point + 1, Issued(s.ops, <<LossOp(r, i)>>))
    <3> DEFINE b == Issued(s.ops, <<LossOp(r, i)>>)
    <3>1. b \in Seq(Reductions) /\ Begins(s.ops, b)
      BY <1>4, <1>5, <1>10
    <3>2. Follow(r, s) = Stage(s.epoch, s.todo, s.point + 1, b)
      BY <2>5
    <3> HIDE DEF b
    <3> QED
      BY <1>1, <1>7, <2>2, <3>1, <3>2
  <2> QED
    BY <2>1, <2>3, <2>4, <2>5
<1> QED
  BY <1>8, <1>9, <1>10

(* When the data of all ranks reaches the same, all have the same course. *)
LEMMA SameCourse ==
  ASSUME SameReach, NEW r \in world, NEW q \in world
  PROVE  /\ \A e : Due(q, e) = Due(r, e)
         /\ \A s : Follow(q, s) = Follow(r, s)
<1>1. reach[q] = reach[r] /\ bad[q] = bad[r]
  BY DEF SameReach
<1>2. \A e : Due(q, e) = Due(r, e)
  BY <1>1 DEF Due, ReachedLayers
<1>3. ASSUME NEW e PROVE Batch(q, e) = Batch(r, e)
  <2>1. SmoothedIn(q, e) = SmoothedIn(r, e)
    BY <1>2 DEF SmoothedIn
  <2>2. {k \in DOMAIN reach[q] : reach[q][k] \in SmoothedIn(q, e)}
          = {k \in DOMAIN reach[r] : reach[r][k] \in SmoothedIn(r, e)}
    BY <1>1, <2>1
  <2> QED
    BY <1>1, <2>2 DEF Batch
<1>4. \A i : LossOp(q, i) = LossOp(r, i)
  BY <1>1 DEF LossOp
<1> QED
  BY <1>1, <1>2, <1>3, <1>4 DEF Follow

(* There is a course. *)
LEMMA CourseExists ==
  ASSUME SmoothSetup, SameReach
  PROVE  \E F : IsCourse(F)
<1>1. PICK r \in world : TRUE
  BY DEF SmoothSetup
<1> DEFINE start == Stage(1, Due(r, 1), 0, <<>>)
           step == [p \in Nat \X Stages |-> Follow(r, p[2])]
<1>2. start \in Stages
  BY DEF Stage, Stages, Due
<1>3. step \in [Nat \X Stages -> Stages]
  BY <1>1, FollowTypes
<1>4. \A n \in Nat, s \in Stages : step[<<n, s>>] = Follow(r, s)
  OBVIOUS
<1> HIDE DEF step, start
<1>5. PICK F : F \in [Nat -> Stages] /\ F[0] = start /\ \A n \in Nat : F[n + 1] = step[<<n, F[n]>>]
  <2>1. \E F : IsRecursive(F, Stages, start, step)
    BY <1>2, <1>3, RecursionExists
  <2> QED
    BY <2>1 DEF IsRecursive
<1>6. \A n \in Nat : F[n + 1] = Follow(r, F[n])
  BY <1>4, <1>5
<1>7. ASSUME NEW q \in world
      PROVE  F[0] = Stage(1, Due(q, 1), 0, <<>>) /\ \A n \in Nat : F[n + 1] = Follow(q, F[n])
  BY <1>1, <1>5, <1>6, SameCourse DEF start
<1> QED
  BY <1>5, <1>7 DEF IsCourse

(* The reductions issued at a stage begin those issued at a later one. *)
LEMMA CourseGrows ==
  ASSUME SmoothSetup, NEW F, IsCourse(F), NEW n \in Nat, NEW k \in Nat
  PROVE  Begins(F[n].ops, F[n + k].ops)
<1>1. PICK r \in world : TRUE
  BY DEF SmoothSetup
<1>2. \A m \in Nat : F[m] \in Stages /\ F[m].ops \in Seq(Reductions) /\ Len(F[m].ops) \in Nat
  <2> SUFFICES ASSUME NEW m \in Nat
               PROVE  F[m] \in Stages /\ F[m].ops \in Seq(Reductions) /\ Len(F[m].ops) \in Nat
    OBVIOUS
  <2>1. F[m] \in Stages
    BY DEF IsCourse
  <2>2. F[m].ops \in Seq(Reductions)
    BY <2>1 DEF Stages
  <2> QED
    BY <2>1, <2>2
<1> DEFINE T == {j \in Nat : Begins(F[n].ops, F[n + j].ops)}
<1>3. 0 \in T
  BY <1>2 DEF Begins
<1>4. ASSUME NEW j \in Nat, j \in T PROVE j + 1 \in T
  <2>1. n + j \in Nat /\ (n + j) + 1 = n + (j + 1)
    OBVIOUS
  <2>2. F[n + (j + 1)] = Follow(r, F[n + j])
    BY <1>1, <2>1 DEF IsCourse
  <2>3. Begins(F[n + j].ops, F[n + (j + 1)].ops)
    BY <1>1, <1>2, <2>1, <2>2, FollowTypes
  <2>4. Begins(F[n].ops, F[n + j].ops)
    BY <1>4
  <2>5. Begins(F[n].ops, F[n + (j + 1)].ops)
    <3> DEFINE a == F[n].ops
               b == F[n + j].ops
               c == F[n + (j + 1)].ops
    <3>1. Len(a) \in Nat /\ Len(b) \in Nat /\ Len(c) \in Nat
      BY <1>2, <2>1
    <3>2. Begins(a, b) /\ Begins(b, c)
      BY <2>3, <2>4
    <3> HIDE DEF a, b, c
    <3>3. Begins(a, c)
      BY <3>1, <3>2 DEF Begins
    <3> QED
      BY <3>3 DEF a, c
  <2> QED
    BY <2>5
<1>5. \A j \in Nat : j \in T
  <2> HIDE DEF T
  <2> QED
    BY <1>3, <1>4, NumberInduction
<1> QED
  BY <1>5

(* So the reductions of two ranks agree as far as both have got. *)
LEMMA ReductionsAgree ==
  ASSUME SmoothSetup, CourseInv, SameReach, NEW r \in world, NEW q \in world
  PROVE  \A j \in DOMAIN reductions[r] \cap DOMAIN reductions[q] : reductions[r][j] = reductions[q][j]
<1>1. PICK F : IsCourse(F) /\ \A p \in world : OnCourse(p, F)
  BY DEF CourseInv
<1>2. ASSUME NEW p \in world PROVE \E n \in Nat : F[n].ops = reductions[p]
  <2>1. PICK n \in Nat : IF place[p] = "failed" THEN F[n].ops = reductions[p] ELSE F[n] = Place(p)
    BY <1>1 DEF OnCourse
  <2>2. Place(p).ops = reductions[p]
    BY DEF Place, Stage
  <2> QED
    BY <2>1, <2>2
<1>3. PICK n \in Nat, m \in Nat : F[n].ops = reductions[r] /\ F[m].ops = reductions[q]
  BY <1>2
<1>4. CASE n <= m
  <2>1. m - n \in Nat /\ n + (m - n) = m
    BY <1>4
  <2>2. Begins(F[n].ops, F[m].ops)
    BY <1>1, <2>1, CourseGrows
  <2> QED
    BY <1>3, <2>2 DEF Begins
<1>5. CASE m <= n
  <2>1. n - m \in Nat /\ m + (n - m) = n
    BY <1>5
  <2>2. Begins(F[m].ops, F[n].ops)
    BY <1>1, <2>1, CourseGrows
  <2> QED
    BY <1>3, <2>2 DEF Begins
<1> QED
  BY <1>4, <1>5

(* A step leaves a rank at its stage or takes it to the next one. *)
LEMMA StepFollows ==
  ASSUME SmoothingAssumption, SmoothLocal, NEW r \in world, SmoothStep(r)
  PROVE  /\ place[r] # "failed"
         /\ \/ place'[r] = "failed" /\ reductions'[r] = reductions[r]
            \/ place'[r] # "failed" /\ Place(r)' = Place(r)
            \/ place'[r] # "failed" /\ Place(r)' = Follow(r, Place(r))
<1>0. /\ r \in World /\ SmoothSetup /\ SmoothTypes /\ RankInv(r)
      /\ \A e : Due(r, e)' = Due(r, e)
  BY RanksTake, StepSetup DEF SmoothLocal
<1> DEFINE s == Place(r)
           c == Current(r)
           e == subgraph[r]
           ops == reductions[r]
<1>1. /\ s.epoch = e /\ s.todo = Left(r) /\ s.ops = ops
      /\ s.point = IF place[r] = "search" THEN point[r] + 1 ELSE 0
  BY DEF Place, Stage
<1>2. Place(r)' = Stage(subgraph'[r], Left(r)', IF place'[r] = "search" THEN point'[r] + 1 ELSE 0,
                        reductions'[r])
  BY DEF Place
<1>3. place[r] # "failed"
  BY DEF SmoothStep, Calibrate, FinishEpoch, CalibrationEnd, ReduceScales, ApplyScales,
         SelectMappings, Reference, SearchPoint, NoFiniteLoss, ApplyBest, EndSmoothing
<1>4. ASSUME reductions'[r] = reductions[r], subgraph'[r] = subgraph[r], Left(r)' = Left(r),
             place[r] # "search", place'[r] # "search"
      PROVE  Place(r)' = Place(r)
  BY <1>2, <1>4 DEF Place
<1>5. CASE Calibrate(r)
  <2>1. /\ place[r] = "calibrate" /\ place'[r] \in {"select", "reduce"}
        /\ subgraph' = subgraph /\ reductions' = reductions
    BY <1>0, <1>5 DEF Calibrate, SmoothTypes
  <2>2. Left(r)' = Left(r)
    BY <1>0, <2>1 DEF Left
  <2>3. Place(r)' = Place(r)
    BY <1>4, <2>1, <2>2
  <2> QED
    BY <1>3, <2>1, <2>3
<1>6. CASE SelectMappings(r)
  <2>1. /\ place[r] = "select" /\ place'[r] = "reference" /\ todo'[r] = Due(r, e)
        /\ subgraph' = subgraph /\ reductions' = reductions
    BY <1>0, <1>6, SelectKeeps DEF SelectMappings, SmoothTypes
  <2>2. Left(r)' = Left(r)
    BY <2>1 DEF Left
  <2>3. Place(r)' = Place(r)
    BY <1>4, <2>1, <2>2
  <2> QED
    BY <1>3, <2>1, <2>3
<1>7. CASE ReduceScales(r)
  <2>1. /\ place[r] = "reduce" /\ place'[r] = "smooth" /\ subgraph' = subgraph
        /\ reductions'[r] = Issued(ops, Batch(r, e))
    BY <1>7, ReduceIssues
  <2>2. algorithm = "smoothquant"
    BY <1>0, <2>1 DEF RankInv, PhaseOK
  <2>3. Left(r) = Due(r, e) /\ Left(r)' = {}
    BY <2>1 DEF Left
  <2>4. CASE Due(r, e) = {}
    <3>1. Batch(r, e) = <<>>
      BY <1>0, <2>4, BatchFacts
    <3>2. ops \in Seq(Reductions)
      BY <1>0 DEF SmoothTypes
    <3>3. Issued(ops, <<>>) = ops
      <4> HIDE DEF ops
      <4> QED
        BY <3>2 DEF Issued
    <3>4. Place(r)' = Place(r)
      BY <1>4, <2>1, <2>3, <2>4, <3>1, <3>3
    <3> QED
      BY <1>3, <2>1, <3>4
  <2>5. CASE Due(r, e) # {}
    <3>1. Follow(r, s) = Stage(e, {}, 0, Issued(ops, Batch(r, e)))
      <4> HIDE DEF s, e, ops
      <4> QED
        BY <1>1, <2>2, <2>3, <2>5 DEF Follow, e
    <3>2. Place(r)' = Follow(r, s)
      BY <1>2, <2>1, <2>3, <3>1
    <3> QED
      BY <1>3, <2>1, <3>2
  <2> QED
    BY <2>4, <2>5
<1>8. CASE ApplyScales(r)
  <2>1. /\ place[r] = "smooth" /\ place'[r] = "propagate" /\ subgraph' = subgraph /\ reductions' = reductions
    BY <1>0, <1>8 DEF ApplyScales, SmoothTypes
  <2>2. Left(r)' = Left(r)
    BY <2>1 DEF Left
  <2>3. Place(r)' = Place(r)
    BY <1>4, <2>1, <2>2
  <2> QED
    BY <1>3, <2>1, <2>3
<1>9. CASE EndSmoothing(r) \/ CalibrationEnd(r)
  <2>1. CASE Fail(r, "unused")
    BY <1>0, <1>3, <2>1 DEF Fail, SmoothTypes
  <2>2. CASE ~ Fail(r, "unused")
    <3>1. /\ \/ place[r] = "reference" /\ todo[r] = {} /\ place'[r] = "propagate"
             \/ place[r] = "end" /\ place'[r] = "done"
          /\ subgraph' = subgraph /\ reductions' = reductions
      <4>1. CASE EndSmoothing(r)
        BY <1>0, <2>2, <4>1 DEF EndSmoothing, SmoothTypes
      <4>2. CASE CalibrationEnd(r)
        BY <1>0, <2>2, <4>2 DEF CalibrationEnd, SmoothTypes
      <4> QED
        BY <1>9, <4>1, <4>2
    <3>2. Left(r)' = Left(r)
      BY <3>1 DEF Left
    <3>3. Place(r)' = Place(r)
      BY <1>4, <3>1, <3>2
    <3> QED
      BY <1>3, <3>1, <3>3
  <2> QED
    BY <2>1, <2>2
<1>10. CASE NoFiniteLoss(r)
  BY <1>0, <1>3, <1>10 DEF NoFiniteLoss, Fail, SmoothTypes
<1>11. CASE FinishEpoch(r)
  <2>1. /\ place[r] = "propagate" /\ reductions' = reductions /\ place'[r] = AfterEpoch(r)
        /\ subgraph'[r] = Following(r)
    BY <1>0, <1>11 DEF FinishEpoch, SmoothTypes
  <2>2. Left(r) = {}
    BY <2>1 DEF Left
  <2>3. CASE AfterEpoch(r) = "end"
    <3>1. place'[r] = "end" /\ subgraph'[r] = subgraph[r]
      BY <2>1, <2>3 DEF Following
    <3>2. Left(r)' = {}
      BY <3>1 DEF Left
    <3>3. Place(r)' = Place(r)
      BY <1>4, <2>1, <2>2, <3>1, <3>2
    <3> QED
      BY <1>3, <3>1, <3>3
  <2>4. CASE AfterEpoch(r) # "end"
    <3>1. place'[r] = "calibrate" /\ subgraph'[r] = subgraph[r] + 1
      BY <2>1, <2>4 DEF Following, AfterEpoch
    <3>2. Left(r)' = Due(r, subgraph[r] + 1)
      BY <1>0, <3>1 DEF Left
    <3>3. Follow(r, s) = Stage(e + 1, Due(r, e + 1), 0, ops)
      <4> HIDE DEF s, e, ops
      <4> QED
        BY <1>1, <2>2 DEF Follow
    <3>4. Place(r)' = Follow(r, s)
      BY <1>2, <2>1, <3>1, <3>2, <3>3
    <3> QED
      BY <1>3, <3>1, <3>4
  <2> QED
    BY <2>3, <2>4
<1>12. ASSUME place[r] \in {"reference", "search"}, todo[r] # {}
       PROVE  /\ algorithm # "smoothquant" /\ s.todo = todo[r] /\ s.todo # {}
              /\ c = Min(s.todo)
  <2>1. algorithm = "awq"
    BY <1>0, <1>12 DEF RankInv, PhaseOK
  <2>2. Left(r) = todo[r]
    BY <1>12 DEF Left
  <2> QED
    BY <1>1, <1>12, <2>1, <2>2 DEF Current
<1>13. CASE Reference(r)
  <2>1. place[r] = "reference" /\ todo[r] # {}
    BY <1>13 DEF Reference
  <2>2. /\ algorithm # "smoothquant" /\ s.todo = todo[r] /\ s.todo # {}
        /\ c = Min(s.todo) /\ s.point = 0 /\ s.epoch = e /\ s.ops = ops
    BY <1>1, <1>12, <2>1
  <2>3. CASE /\ layout.calls[mappings[c].parent] = 0 \/ bad[r][c] = "outputs"
             /\ todo'[r] = todo[r] \ {c} /\ place' = place /\ subgraph' = subgraph
             /\ reductions' = reductions
    <3>1. Left(r)' = todo[r] \ {c}
      BY <2>1, <2>3 DEF Left
    <3>2. Follow(r, s) = Stage(e, todo[r] \ {c}, 0, ops)
      <4> HIDE DEF s, e, ops, c
      <4> QED
        BY <2>2, <2>3 DEF Follow
    <3>3. Place(r)' = Follow(r, s)
      BY <1>2, <2>1, <2>3, <3>1, <3>2
    <3> QED
      BY <1>3, <2>3, <3>3
  <2>4. CASE /\ layout.calls[mappings[c].parent] # 0
             /\ bad[r][c] # "outputs"
             /\ todo' = todo /\ place'[r] = "search" /\ subgraph' = subgraph
             /\ point'[r] = 0 /\ reductions'[r] = Issued(reductions[r], <<MeanOp(c)>>)
    <3>1. Left(r)' = todo[r]
      BY <2>4 DEF Left
    <3>2. Follow(r, s) = Stage(e, todo[r], 1, Issued(ops, <<MeanOp(c)>>))
      <4> HIDE DEF s, e, ops, c
      <4> QED
        BY <2>2, <2>4 DEF Follow
    <3>3. Place(r)' = Follow(r, s)
      BY <1>2, <2>4, <3>1, <3>2
    <3> QED
      BY <1>3, <2>4, <3>3
  <2> QED
    BY <1>13, <2>3, <2>4, ReferenceIssues
<1>14. CASE SearchPoint(r) \/ ApplyBest(r)
  <2>1. place[r] = "search" /\ todo[r] # {} /\ point[r] \in Nat /\ Grid \in Nat
    BY <1>0, <1>14 DEF SearchPoint, ApplyBest, SmoothTypes, SmoothingAssumption
  <2>2. /\ algorithm # "smoothquant" /\ s.todo = todo[r] /\ s.todo # {}
        /\ c = Min(s.todo) /\ s.point = point[r] + 1 /\ s.epoch = e /\ s.ops = ops
    BY <1>1, <1>12, <2>1
  <2>3. layout.calls[mappings[c].parent] # 0 /\ bad[r][c] # "outputs"
    BY <1>0, <2>1 DEF RankInv, SearchOK
  <2>4. CASE SearchPoint(r)
    <3>1. /\ point'[r] = point[r] + 1 /\ point[r] < Grid
          /\ todo' = todo /\ place' = place /\ subgraph' = subgraph
          /\ reductions'[r] = Issued(reductions[r], <<LossOp(r, c)>>)
      BY <2>4, SearchIssues
    <3>2. Left(r)' = todo[r]
      BY <2>1, <3>1 DEF Left
    <3>3. s.point # 0 /\ s.point <= Grid
      BY <2>1, <2>2, <3>1
    <3>4. Follow(r, s) = Stage(e, todo[r], s.point + 1, Issued(ops, <<LossOp(r, c)>>))
      <4> HIDE DEF s, e, ops, c
      <4> QED
        BY <2>2, <2>3, <3>3 DEF Follow
    <3>5. Place(r)' = Follow(r, s)
      BY <1>2, <2>1, <2>2, <3>1, <3>2, <3>4
    <3> QED
      BY <1>3, <2>1, <3>1, <3>5
  <2>5. CASE ApplyBest(r)
    <3>1. /\ todo'[r] = todo[r] \ {c} /\ place'[r] = "reference" /\ subgraph' = subgraph
          /\ reductions' = reductions /\ point[r] = Grid
      BY <1>0, <2>5 DEF ApplyBest, SmoothTypes
    <3>2. Left(r)' = todo[r] \ {c}
      BY <3>1 DEF Left
    <3>3. s.point # 0 /\ ~ (s.point <= Grid)
      BY <2>1, <2>2, <3>1
    <3>4. Follow(r, s) = Stage(e, todo[r] \ {c}, 0, ops)
      <4> HIDE DEF s, e, ops, c
      <4> QED
        BY <2>2, <2>3, <3>3 DEF Follow
    <3>5. Place(r)' = Follow(r, s)
      BY <1>2, <3>1, <3>2, <3>4
    <3> QED
      BY <1>3, <3>1, <3>5
  <2> QED
    BY <1>14, <2>4, <2>5
<1> QED
  BY <1>5, <1>6, <1>7, <1>8, <1>9, <1>10, <1>11, <1>13, <1>14 DEF SmoothStep

(* All ranks start at its first stage. *)
LEMMA CourseInit ==
  ASSUME SmoothingAssumption, MappingsSupported, SmoothingInit
  PROVE  CourseInv
<1>0. SmoothSetup
  BY SmoothLocalInit DEF SmoothLocal
<1> SUFFICES ASSUME SameReach
             PROVE  \E F : IsCourse(F) /\ \A r \in world : OnCourse(r, F)
  BY DEF CourseInv
<1>1. PICK F : IsCourse(F)
  BY <1>0, CourseExists
<1>2. ASSUME NEW r \in world PROVE OnCourse(r, F)
  <2>1. r \in World
    BY <1>0, RanksTake
  <2>2. place[r] = "calibrate" /\ subgraph[r] = 1 /\ reductions[r] = <<>>
    BY <2>1 DEF SmoothingInit
  <2>3. Place(r) = Stage(1, Due(r, 1), 0, <<>>)
    BY <2>2 DEF Place, Left
  <2>4. F[0] = Place(r) /\ 0 \in Nat
    BY <1>1, <2>3 DEF IsCourse
  <2> QED
    BY <2>2, <2>4 DEF OnCourse
<1> QED
  BY <1>1, <1>2

(* The course itself never changes. *)
LEMMA CourseStays ==
  ASSUME [SmoothingNext]_smoothVars
  PROVE  /\ SameReach' <=> SameReach
         /\ \A F : IsCourse(F)' <=> IsCourse(F)
<1>1. /\ algorithm' = algorithm /\ world' = world /\ mappings' = mappings
      /\ layout' = layout /\ reach' = reach /\ propagate' = propagate
      /\ bad' = bad
  BY SetupStays
<1>2. SameReach' <=> SameReach
  BY <1>1 DEF SameReach
<1>3. Indices' = Indices /\ (SeveralRanks' <=> SeveralRanks) /\ Stages' = Stages
  BY <1>1 DEF Indices, SeveralRanks, Stages
<1>4. \A q, e : Due(q, e)' = Due(q, e)
  BY <1>1, <1>3 DEF Due, Hooked, ReachedLayers
<1>5. \A q, e : SmoothedIn(q, e)' = SmoothedIn(q, e)
  BY <1>1, <1>4 DEF SmoothedIn
<1>6. \A q, e : Batch(q, e)' = Batch(q, e)
  BY <1>1, <1>5 DEF Batch, Reduction
<1>7. \A a, b : Issued(a, b)' = Issued(a, b)
  BY <1>3 DEF Issued
<1>8. \A q, i : MeanOp(i)' = MeanOp(i) /\ LossOp(q, i)' = LossOp(q, i)
  BY <1>1 DEF MeanOp, LossOp, Reduction
<1>9. \A q, s : Follow(q, s)' = Follow(q, s)
  BY <1>1, <1>4, <1>6, <1>7, <1>8 DEF Follow, Stage
<1>10. ASSUME NEW F PROVE IsCourse(F)' <=> IsCourse(F)
  BY <1>1, <1>3, <1>4, <1>9 DEF IsCourse, Stage
<1> QED
  BY <1>2, <1>10

(* Every step keeps every rank on course. *)
LEMMA CourseNext ==
  ASSUME SmoothingAssumption, SmoothLocal, CourseInv, [SmoothingNext]_smoothVars
  PROVE  CourseInv'
<1>0. /\ SmoothSetup /\ SmoothTypes /\ world' = world /\ \A q, e : Due(q, e)' = Due(q, e)
  BY SetupStays DEF SmoothLocal, Due, Hooked, ReachedLayers, Indices
<1> SUFFICES ASSUME SameReach'
             PROVE  \E F : IsCourse(F)' /\ \A r \in world' : OnCourse(r, F)'
  BY DEF CourseInv
<1>1. SameReach
  BY CourseStays
<1>2. PICK F : IsCourse(F) /\ \A r \in world : OnCourse(r, F)
  BY <1>1 DEF CourseInv
<1>3. ASSUME NEW q \in world, place'[q] = place[q], subgraph'[q] = subgraph[q],
             todo'[q] = todo[q], point'[q] = point[q], reductions'[q] = reductions[q]
      PROVE  OnCourse(q, F)'
  <2>1. OnCourse(q, F)
    BY <1>2
  <2>2. Left(q)' = Left(q)
    BY <1>0, <1>3 DEF Left
  <2>3. Place(q)' = Place(q)
    BY <1>3, <2>2 DEF Place, Stage
  <2> QED
    BY <1>3, <2>1, <2>3 DEF OnCourse
<1>4. ASSUME NEW r \in world, SmoothStep(r) PROVE OnCourse(r, F)'
  <2>1. /\ place[r] # "failed"
        /\ \/ place'[r] = "failed" /\ reductions'[r] = reductions[r]
           \/ place'[r] # "failed" /\ Place(r)' = Place(r)
           \/ place'[r] # "failed" /\ Place(r)' = Follow(r, Place(r))
    BY <1>4, StepFollows
  <2>2. PICK n \in Nat : F[n] = Place(r)
    BY <1>2, <2>1 DEF OnCourse
  <2>3. CASE place'[r] = "failed" /\ reductions'[r] = reductions[r]
    <3>1. Place(r).ops = reductions[r]
      BY DEF Place, Stage
    <3> QED
      BY <2>2, <2>3, <3>1 DEF OnCourse
  <2>4. CASE place'[r] # "failed" /\ Place(r)' = Place(r)
    BY <2>2, <2>4 DEF OnCourse
  <2>5. CASE place'[r] # "failed" /\ Place(r)' = Follow(r, Place(r))
    <3>1. n + 1 \in Nat /\ F[n + 1] = Follow(r, F[n])
      BY <1>2 DEF IsCourse
    <3>2. F[n + 1] = Place(r)'
      BY <2>2, <2>5, <3>1
    <3> QED
      BY <2>5, <3>1, <3>2 DEF OnCourse
  <2> QED
    BY <2>1, <2>3, <2>4, <2>5
<1>5. \A r \in world : OnCourse(r, F)'
  <2>1. CASE UNCHANGED smoothVars
    BY <1>3, <2>1 DEF smoothVars
  <2>2. ASSUME NEW r \in world, SmoothStep(r), NEW q \in world PROVE OnCourse(q, F)'
    <3>1. CASE q = r
      BY <1>4, <2>2, <3>1
    <3>2. CASE q # r
      <4>1. /\ place'[q] = place[q] /\ subgraph'[q] = subgraph[q] /\ todo'[q] = todo[q]
            /\ point'[q] = point[q] /\ reductions'[q] = reductions[q]
        BY <1>0, <2>2, <3>2, OthersStay
      <4> QED
        BY <1>3, <4>1
    <3> QED
      BY <3>1, <3>2
  <2> QED
    BY <2>1, <2>2 DEF SmoothingNext
<1>6. IsCourse(F)'
  BY <1>2, CourseStays
<1> QED
  BY <1>0, <1>5, <1>6

-----------------------------------------------------------------------------
(* What factors are computed from *)

OnceOnly(f) ==
  /\ \A q \in world : f.data[q] = 1
  /\ f.losses = IF algorithm = "awq" THEN world ELSE {}

DataInv ==
  SameReach => \A r \in world, l \in Layers : \A f \in divided[r][l] : OnceOnly(f)

(* A reduction that is complete has summed up what every rank has sent. *)
LEMMA ReducedOnce ==
  ASSUME SmoothLocal, OpsInv, CourseInv, SameReach, NEW r \in world, AllReduced(r),
         NEW kind \in {"mean", "scales"}, NEW l, SeveralRanks => Has(reductions[r], kind, l),
         NEW q \in world
  PROVE  SummedUp(r, kind, l, 1)[q] = 1
<1>0. SmoothSetup /\ SmoothTypes /\ r \in World /\ q \in World
  BY RanksTake DEF SmoothLocal
<1>1. CASE ~ SeveralRanks
  BY <1>1 DEF SummedUp
<1>2. CASE SeveralRanks
  <2> DEFINE T == {j \in DOMAIN reductions[r] : reductions[r][j].kind = kind /\ reductions[r][j].layer = l}
             i == Max(T)
  <2>1. /\ reductions[r] \in Seq(Reductions) /\ reductions[q] \in Seq(Reductions)
    BY <1>0 DEF SmoothTypes
  <2>2. /\ Len(reductions[r]) \in Nat /\ Len(reductions[q]) \in Nat
        /\ DOMAIN reductions[r] = 1 .. Len(reductions[r]) /\ DOMAIN reductions[q] = 1 .. Len(reductions[q])
    BY <2>1
  <2>3. T \subseteq Nat /\ T # {} /\ \A x \in T : x <= Len(reductions[r])
    BY <1>2, <2>2 DEF Has
  <2>4. i \in T
    <3> HIDE DEF T
    <3> QED
      BY <2>2, <2>3, MaxOfBounded
  <2>5. i \in DOMAIN reductions[r] /\ reductions[r][i].kind = kind
    <3> HIDE DEF i
    <3> QED
      BY <2>4
  <2>6. Len(reductions[q]) >= Len(reductions[r])
    BY DEF AllReduced
  <2> HIDE DEF T
  <2>7. i \in DOMAIN reductions[q]
    <3> HIDE DEF i
    <3> QED
      BY <2>2, <2>5, <2>6
  <2>8. reductions[q][i] = reductions[r][i]
    BY <1>0, <2>5, <2>7, ReductionsAgree
  <2>9. reductions[r][i].data = 1
    BY <2>5 DEF OpsInv, OpsOK, CountsOnce
  <2>10. SummedUp(r, kind, l, 1) = [p \in world |-> reductions[p][i].data]
    BY <1>2 DEF SummedUp, T
  <2> HIDE DEF i
  <2> QED
    BY <2>8, <2>9, <2>10
<1> QED
  BY <1>1, <1>2

(* A new factor has the data of every rank once. *)
LEMMA AddsOnce ==
  ASSUME SmoothingAssumption, SmoothLocal, OpsInv, CourseInv, SameReach, NEW r \in world,
         SmoothStep(r)
  PROVE  divided' = divided \/ \E F : Smooth(r, F) /\ \A f \in F : OnceOnly(f)
<1>0. r \in World /\ SmoothSetup /\ SmoothTypes /\ MappingsApart /\ RankInv(r)
  BY RanksTake DEF SmoothLocal
<1>1. CASE ApplyScales(r)
  <2> DEFINE F == {Factor(i, ScalesOf(r, i), {}) : i \in {j \in Indices : HasScales(r, j)}}
  <2>1. Smooth(r, F) /\ place[r] = "smooth" /\ AllReduced(r)
    BY <1>1 DEF ApplyScales
  <2>2. algorithm # "awq"
    BY <1>0, <2>1 DEF RankInv, PhaseOK
  <2>3. ASSUME NEW i \in Indices, HasScales(r, i), NEW q \in world PROVE ScalesOf(r, i)[q] = 1
    <3>1. i \in Collected(r) /\ collected[r][mappings[i].smooth] = 1
      BY <2>1, <2>3, PendingHasStats DEF HasScales
    <3>2. i \in Due(r, subgraph[r])
      BY <2>1, <3>1 DEF Collected
    <3>3. SeveralRanks => Has(reductions[r], "scales", mappings[i].smooth)
      BY <2>1, <3>2 DEF OpsInv, OpsOK
    <3> DEFINE l == mappings[i].smooth
    <3> HIDE DEF l
    <3>4. SummedUp(r, "scales", l, 1)[q] = 1
      BY <2>1, <3>3, ReducedOnce DEF l
    <3> QED
      BY <3>1, <3>4 DEF ScalesOf, l
  <2>4. \A f \in F : OnceOnly(f)
    BY <2>2, <2>3 DEF Factor, OnceOnly
  <2> HIDE DEF F
  <2> QED
    BY <2>1, <2>4
<1>2. CASE ApplyBest(r)
  <2> DEFINE c == Current(r)
             l == mappings[c].smooth
             f0 == Factor(c, MeanOf(r, l), LossOf(r))
  <2>1. Smooth(r, {f0}) /\ place[r] = "search" /\ AllReduced(r) /\ LossOf(r) = world
    BY <1>2 DEF ApplyBest
  <2>2. algorithm = "awq"
    BY <1>0, <2>1 DEF RankInv, PhaseOK
  <2>3. c \in todo[r]
    BY <1>0, <2>1, CurrentIsLeft DEF SmoothTypes
  <2>4. c \in Collected(r) /\ collected[r][l] = 1
    BY <2>1, <2>3, PendingHasStats DEF Collected
  <2>5. SeveralRanks => Has(reductions[r], "mean", l)
    BY <2>1 DEF OpsInv, OpsOK
  <2>6. ASSUME NEW q \in world PROVE MeanOf(r, l)[q] = 1
    <3> HIDE DEF l
    <3>1. SummedUp(r, "mean", l, 1)[q] = 1
      BY <2>1, <2>5, ReducedOnce
    <3> QED
      BY <2>4, <3>1 DEF MeanOf
  <2> HIDE DEF l, c
  <2>7. \A f \in {f0} : OnceOnly(f)
    BY <2>1, <2>2, <2>6 DEF Factor, OnceOnly
  <2> HIDE DEF f0
  <2> QED
    BY <2>1, <2>7
<1>3. CASE ~ ApplyScales(r) /\ ~ ApplyBest(r)
  BY <1>3 DEF SmoothStep, Calibrate, FinishEpoch, CalibrationEnd, ReduceScales, SelectMappings,
              Reference, SkipMapping, SearchPoint, NoFiniteLoss, EndSmoothing, Fail, weights
<1> QED
  BY <1>1, <1>2, <1>3

(* There are no factors at first. *)
LEMMA DataInit ==
  ASSUME SmoothingAssumption, MappingsSupported, SmoothingInit
  PROVE  DataInv
<1>0. SmoothSetup
  BY SmoothLocalInit DEF SmoothLocal
<1>1. \A r \in world : r \in World
  BY <1>0, RanksTake
<1> QED
  BY <1>1 DEF DataInv, SmoothingInit

(* So all of them have it. *)
LEMMA DataNext ==
  ASSUME SmoothingAssumption, SmoothLocal, OpsInv, CourseInv, DataInv,
         [SmoothingNext]_smoothVars
  PROVE  DataInv'
<1>0. /\ SmoothSetup /\ SmoothTypes /\ world' = world /\ algorithm' = algorithm
  BY SetupStays DEF SmoothLocal
<1>1. \A f : OnceOnly(f)' <=> OnceOnly(f)
  BY <1>0 DEF OnceOnly
<1>2. SameReach' <=> SameReach
  BY CourseStays
<1> SUFFICES ASSUME SameReach, NEW q \in world, NEW l \in Layers, NEW f \in divided'[q][l]
             PROVE  OnceOnly(f)
  BY <1>0, <1>1, <1>2 DEF DataInv
<1>3. \A g \in divided[q][l] : OnceOnly(g)
  BY DEF DataInv
<1>4. CASE UNCHANGED smoothVars
  BY <1>3, <1>4 DEF smoothVars, weights
<1>5. ASSUME NEW r \in world, SmoothStep(r) PROVE OnceOnly(f)
  <2>0. r \in World
    BY <1>0, RanksTake
  <2>1. CASE divided' = divided
    BY <1>3, <2>1
  <2>2. CASE q # r
    <3>1. divided'[q] = divided[q]
      BY <1>0, <1>5, <2>2, OthersStay
    <3> QED
      BY <1>3, <3>1
  <2>3. ASSUME q = r, NEW F, Smooth(r, F), \A g \in F : OnceOnly(g) PROVE OnceOnly(f)
    <3>1. divided'[r][l] = divided[r][l] \cup {g \in F : l = mappings[g.mapping].smooth}
      BY <1>0, <2>0, <2>3 DEF Smooth, SmoothTypes
    <3> QED
      BY <1>3, <2>3, <3>1
  <2> QED
    BY <1>5, <2>1, <2>2, <2>3, AddsOnce
<1> QED
  BY <1>4, <1>5 DEF SmoothingNext

(* Balance layers are multiplied by what smooth layers are divided by. *)
LEMMA CountedOnce ==
  ASSUME SmoothingAssumption, SmoothLocal, CourseInv, DataInv
  PROVE  EverythingCountsOnce
<1>0. SmoothSetup /\ BalanceInv
  BY DEF SmoothLocal
<1>1. ReductionsMatch
  BY <1>0, ReductionsAgree DEF ReductionsMatch
<1>2. EveryRankCountsOnce
  <2> SUFFICES ASSUME SameReach, NEW r \in world, NEW l \in Layers, NEW f \in multiplied[r][l]
               PROVE  OnceOnly(f)
    BY DEF EveryRankCountsOnce, OnceOnly
  <2>1. PICK j \in Indices : l \in mappings[j].balance /\ f \in divided[r][mappings[j].smooth]
    BY <1>0 DEF BalanceInv
  <2>2. mappings[j].smooth \in Layers
    BY <1>0, MappingTypes
  <2> QED
    BY <2>1, <2>2 DEF DataInv
<1> QED
  BY <1>1, <1>2, MappingsOnce DEF EverythingCountsOnce

-----------------------------------------------------------------------------
(* The invariant of smoothing: what holds of each rank, and of all together. *)
SmoothInv == SmoothLocal /\ VisibleInv /\ OpsInv /\ CourseInv /\ DataInv

(* The invariant is inductive. *)
LEMMA SmoothInductive ==
  ASSUME SmoothingAssumption, MappingsSupported
  PROVE  SmoothingSpec => []SmoothInv
<1>1. SmoothingInit => SmoothInv
  BY SmoothLocalInit, VisibleInit, OpsInit, CourseInit, DataInit DEF SmoothInv
<1>2. SmoothInv /\ [SmoothingNext]_smoothVars => SmoothInv'
  BY SmoothLocalNext, VisibleNext, OpsNext, CourseNext, DataNext DEF SmoothInv
<1> QED
  BY <1>1, <1>2, PTL DEF SmoothingSpec

(* AWQ and SmoothQuant divide the output of a layer and multiply the weights of the
   layers that read it by the same factors, in each pass of a calibration, and leave
   no weight quantized by a search (_smooth, _apply_smoothing). *)
THEOREM SmoothingStaysInvisible ==
  ASSUME SmoothingAssumption, MappingsSupported
  PROVE  SmoothingSpec => []SmoothingIsInvisible
<1>1. SmoothInv => SmoothingIsInvisible
  BY NothingIsVisible DEF SmoothInv
<1> QED
  BY <1>1, SmoothInductive, PTL

(* The ranks issue the same reductions in the same order, a factor has the data of
   every rank once, and a calibration that ends has applied every mapping that data
   reached once and used all it has cached. *)
THEOREM EverythingIsCountedOnce ==
  ASSUME SmoothingAssumption, MappingsSupported
  PROVE  SmoothingSpec => []EverythingCountsOnce
<1>1. SmoothingAssumption /\ SmoothInv => EverythingCountsOnce
  BY CountedOnce DEF SmoothInv
<1> QED
  BY <1>1, SmoothInductive, PTL
=============================================================================
