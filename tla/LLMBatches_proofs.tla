--------------------------- MODULE LLMBatches_proofs ---------------------------
(***************************************************************************)
(* Theorems of LLMBatches, for any candidates, batch sizes, number of      *)
(* workers and answers of the model: packing loses nothing, the pool is    *)
(* joined unless the caller is interrupted twice, usage is accounted for   *)
(* but for overlapping additions (UsageOK), and the selection does not     *)
(* depend on the order of the batches (SelectionOK).                       *)
(***************************************************************************)
EXTENDS LLMBatches, DataInduction, TLAPS

-----------------------------------------------------------------------------
(* Packing, for every sequence of candidates.                               *)

Listings(Ids) == [id : Ids, chars : Nat]

LEMMA EstimateIsNatural == \A chars \in Nat : Estimate(chars) \in Nat
<1> SUFFICES ASSUME NEW chars \in Nat PROVE Estimate(chars) \in Nat
  OBVIOUS
<1>1. CharsPerToken \in Nat /\ CharsPerToken > 0
  BY BatchesAssumption
<1>2. (chars + CharsPerToken - 1) \div CharsPerToken \in Int
  BY <1>1
<1> QED
  BY <1>2 DEF Estimate

\* The running cost of a batch.
Costs(path, batch) ==
  /\ path[0] = Estimate(PrefChars)
  /\ \A k \in 1..Len(batch) : path[k] = path[k - 1] + Estimate(batch[k].chars)

LEMMA CostIsPath ==
  ASSUME NEW Ids, NEW batch \in Seq(Listings(Ids))
  PROVE  \E path \in [0..Len(batch) -> Nat] : Costs(path, batch) /\ CostOf(batch) = path[Len(batch)]
<1> DEFINE n == Len(batch)
           step == [ks \in (1..n) \X Nat |-> ks[2] + Estimate(batch[ks[1]].chars)]
           pick == [T \in SUBSET (1..n) |-> Max(T)]
           rec == CHOOSE it : it = [T \in SUBSET (1..n) |->
                    IF T = {} THEN Estimate(PrefChars)
                    ELSE it[T \ {Max(T)}] + Estimate(batch[Max(T)].chars)]
<1>1. n \in Nat /\ DOMAIN batch = 1..n /\ Estimate(PrefChars) \in Nat
  <2>1. PrefChars \in Nat
    BY BatchesAssumption
  <2> QED
    BY <2>1, EstimateIsNatural
<1>2. \A k \in 1..n : Estimate(batch[k].chars) \in Nat
  <2>1. \A k \in 1..n : batch[k] \in Listings(Ids)
    OBVIOUS
  <2>2. \A k \in 1..n : batch[k].chars \in Nat
    BY <2>1 DEF Listings
  <2> QED
    BY <2>2, EstimateIsNatural
<1>3. step \in [(1..n) \X Nat -> Nat]
  BY <1>2
<1>4. \A k \in 1..n, x \in Nat : step[<<k, x>>] = x + Estimate(batch[k].chars)
  OBVIOUS
<1>5. Picks(pick, 1..n) /\ IsFiniteSet(1..n)
  BY <1>1, MaxPicks
<1>6. CostOf(batch) = rec[1..n]
  BY <1>1 DEF CostOf, FoldLeft, MapThenFoldSet
<1> HIDE DEF n, step, pick
<1>7. PICK it \in [SUBSET (1..n) -> Nat] : Folds(it, 1..n, Estimate(PrefChars), step, pick)
  BY <1>1, <1>3, <1>5, FoldExists
<1>8. ASSUME NEW T \in SUBSET (1..n)
      PROVE  it[T] = IF T = {} THEN Estimate(PrefChars)
                     ELSE it[T \ {Max(T)}] + Estimate(batch[Max(T)].chars)
  <2>1. CASE T = {}
    BY <1>7, <2>1 DEF Folds
  <2>2. CASE T # {}
    <3>1. pick[T] = Max(T) /\ Max(T) \in 1..n
      BY <1>5, <2>2 DEF Picks, pick
    <3>2. it[T] = step[<<Max(T), it[T \ {Max(T)}]>>] /\ it[T \ {Max(T)}] \in Nat
      BY <1>7, <2>2, <3>1 DEF Folds
    <3> QED
      BY <1>4, <2>2, <3>1, <3>2
  <2> QED
    BY <2>1, <2>2
<1>9. it = [T \in SUBSET (1..n) |-> IF T = {} THEN Estimate(PrefChars)
                                    ELSE it[T \ {Max(T)}] + Estimate(batch[Max(T)].chars)]
  BY <1>8
<1>10. rec = [T \in SUBSET (1..n) |-> IF T = {} THEN Estimate(PrefChars)
                                      ELSE rec[T \ {Max(T)}] + Estimate(batch[Max(T)].chars)]
  BY <1>9
<1> HIDE DEF rec
<1>11. \A T \in SUBSET (1..n) : rec[T] = IF T = {} THEN Estimate(PrefChars)
                                      ELSE rec[T \ {Max(T)}] + Estimate(batch[Max(T)].chars)
  BY <1>10
<1>12. ASSUME NEW T \in SUBSET (1..n), T # {}, rec[T \ {Max(T)}] \in Nat
       PROVE  rec[T] = step[<<Max(T), rec[T \ {Max(T)}]>>]
  <2>1. Max(T) \in 1..n
    BY <1>5, <1>12 DEF Picks, pick
  <2> QED
    BY <1>4, <1>11, <1>12, <2>1
<1>13. FoldsLeft(rec, n, Nat, Estimate(PrefChars), step)
  BY <1>1, <1>3, <1>11, <1>12 DEF FoldsLeft
<1> DEFINE path == FoldedSoFar(rec, n)
<1>14. Path(path, n, Nat, Estimate(PrefChars), step)
  BY <1>13, FoldIsPath
<1>15. path[n] = CostOf(batch)
  BY <1>1, <1>6 DEF FoldedSoFar
<1> HIDE DEF path
<1>16. \A k \in 1..n : path[k] = path[k - 1] + Estimate(batch[k].chars)
  <2> SUFFICES ASSUME NEW k \in 1..n PROVE path[k] = path[k - 1] + Estimate(batch[k].chars)
    OBVIOUS
  <2>1. k - 1 \in 0..n
    BY <1>1
  <2>2. path[k - 1] \in Nat /\ path[k] = step[<<k, path[k - 1]>>]
    BY <1>14, <2>1 DEF Path
  <2> QED
    BY <1>4, <2>2
<1> QED
  BY <1>14, <1>15, <1>16 DEF Path, Costs, n

LEMMA CostAppend ==
  ASSUME NEW Ids, NEW batch \in Seq(Listings(Ids)), NEW l \in Listings(Ids)
  PROVE  CostOf(batch) \in Nat /\ CostOf(Append(batch, l)) = CostOf(batch) + Estimate(l.chars)
<1> DEFINE n == Len(batch)
           more == Append(batch, l)
<1>1. /\ n \in Nat /\ more \in Seq(Listings(Ids)) /\ Len(more) = n + 1
      /\ more[n + 1] = l /\ \A k \in 1..n : more[k] = batch[k]
  OBVIOUS
<1>2. PICK p \in [0..n -> Nat] : Costs(p, batch) /\ CostOf(batch) = p[n]
  BY CostIsPath
<1> HIDE DEF more
<1>3. PICK q \in [0..Len(more) -> Nat] : Costs(q, more) /\ CostOf(more) = q[Len(more)]
  BY <1>1, CostIsPath
<1> HIDE DEF n
<1>4. SameSteps(p, q, n)
  <2>1. p[0] = q[0]
    BY <1>2, <1>3 DEF Costs
  <2>2. ASSUME NEW k \in 1..n, p[k - 1] = q[k - 1] PROVE p[k] = q[k]
    <3>1. k \in 1..Len(more) /\ more[k] = batch[k]
      BY <1>1
    <3> QED
      BY <1>2, <1>3, <2>2, <3>1 DEF Costs, n
  <2> QED
    BY <1>1, <2>1, <2>2 DEF SameSteps
<1>5. p[n] = q[n] /\ p[n] \in Nat
  <2>1. n \in 0..n
    BY <1>1
  <2> QED
    BY <1>4, <2>1, SamePath
<1>6. q[n + 1] = q[n] + Estimate(l.chars)
  <2>1. n + 1 \in 1..Len(more) /\ (n + 1) - 1 = n
    BY <1>1
  <2> QED
    BY <1>1, <1>3, <2>1 DEF Costs
<1> QED
  BY <1>1, <1>2, <1>3, <1>5, <1>6 DEF more

\* A batch that may be sent.
Sendable(batch) == batch # <<>> /\ (CostOf(batch) <= MaxBatchTokens \/ Len(batch) = 1)

Packs(L) == [full : Seq(Seq(L)), current : Seq(L)]

\* What has been packed of the first listings.
PackedSoFar(pack, L, listings) ==
  /\ pack \in Packs(L)
  /\ FlattenSeq(pack.full) \o pack.current = listings
  /\ \A b \in DOMAIN pack.full : Sendable(pack.full[b])
  /\ pack.current = <<>> \/ Sendable(pack.current)

LEMMA FullOneMore ==
  ASSUME NEW L, NEW bs \in Seq(Seq(L)), NEW b \in Seq(L), Sendable(b),
         \A i \in DOMAIN bs : Sendable(bs[i])
  PROVE  /\ Append(bs, b) \in Seq(Seq(L))
         /\ \A i \in DOMAIN Append(bs, b) : Sendable(Append(bs, b)[i])
<1>1. Append(bs, b) \in Seq(Seq(L))
  OBVIOUS
<1>2. ASSUME NEW i \in DOMAIN Append(bs, b)
      PROVE  Append(bs, b)[i] = b \/ (i \in DOMAIN bs /\ Append(bs, b)[i] = bs[i])
  OBVIOUS
<1> QED
  BY <1>1, <1>2

LEMMA PackOneMore ==
  ASSUME NEW Ids, NEW pack, NEW listings \in Seq(Listings(Ids)),
         PackedSoFar(pack, Listings(Ids), listings),
         NEW l \in Listings(Ids)
  PROVE  PackedSoFar(AddToPack(pack, l), Listings(Ids), Append(listings, l))
<1> DEFINE L == Listings(Ids)
           full == pack.full
           current == pack.current
<1>1. full \in Seq(Seq(L)) /\ current \in Seq(L) /\ l \in L /\ listings \in Seq(L)
  BY DEF PackedSoFar, Packs
<1>2. FlattenSeq(full) \in Seq(L) /\ FlattenSeq(full) \o current = listings
  BY <1>1, FlattenAppend DEF PackedSoFar
<1>3. /\ \A b \in DOMAIN full : Sendable(full[b])
      /\ current = <<>> \/ Sendable(current)
  BY DEF PackedSoFar
<1>4. CostOf(current) \in Nat /\ CostOf(Append(current, l)) = CostOf(current) + Estimate(l.chars)
  BY <1>1, CostAppend
<1>5. Estimate(l.chars) \in Nat /\ MaxBatchTokens \in Nat
  BY EstimateIsNatural, BatchesAssumption DEF Listings
<1>6. pack = [full |-> full, current |-> current]
  BY DEF PackedSoFar, Packs
<1> DEFINE new == AddToPack(pack, l)
<1>7. CASE current # <<>> /\ CostOf(current) + Estimate(l.chars) > MaxBatchTokens
  <2>1. new.full = Append(full, current) /\ new.current = <<l>> /\ new \in Packs(L)
    BY <1>1, <1>7 DEF AddToPack, Packs
  <2>2. Sendable(<<l>>)
    BY DEF Sendable
  <2>3. Sendable(current)
    BY <1>3, <1>7
  <2> HIDE DEF full, current, L
  <2>4. \A b \in DOMAIN Append(full, current) : Sendable(Append(full, current)[b])
    BY <1>1, <1>3, <2>3, FullOneMore
  <2>5. FlattenSeq(Append(full, current)) = FlattenSeq(full) \o current
    BY <1>1, FlattenAppend
  <2>6. FlattenSeq(Append(full, current)) \o <<l>> = Append(listings, l)
    BY <1>1, <1>2, <2>5
  <2> HIDE DEF new
  <2> QED
    BY <2>1, <2>2, <2>4, <2>6 DEF PackedSoFar, L, new
<1>8. CASE ~(current # <<>> /\ CostOf(current) + Estimate(l.chars) > MaxBatchTokens)
  <2>1. new.full = full /\ new.current = Append(current, l) /\ new \in Packs(L)
    <3>1. new = [pack EXCEPT !.current = Append(@, l)]
      BY <1>8 DEF AddToPack
    <3>2. pack \in Packs(L)
      BY DEF PackedSoFar
    <3>3. Append(current, l) \in Seq(L)
      BY <1>1
    <3> HIDE DEF new, L
    <3> QED
      BY <3>1, <3>2, <3>3 DEF Packs
  <2>2. Sendable(Append(current, l))
    <3>1. Append(current, l) # <<>>
      BY <1>1, OneMore
    <3>2. CASE current = <<>>
      <4>1. Len(Append(current, l)) = 1
        BY <1>1, <3>2
      <4> QED
        BY <3>1, <4>1 DEF Sendable
    <3>3. CASE current # <<>>
      BY <1>4, <1>5, <1>8, <3>1, <3>3 DEF Sendable
    <3> QED
      BY <3>2, <3>3
  <2> HIDE DEF full, current, L
  <2>3. FlattenSeq(full) \o Append(current, l) = Append(listings, l)
    BY <1>1, <1>2, OneMore
  <2> HIDE DEF new
  <2> QED
    BY <1>3, <2>1, <2>2, <2>3 DEF PackedSoFar, full, L, new, current
<1> QED
  BY <1>7, <1>8

LEMMA AddToPackType ==
  ASSUME NEW L, NEW pack \in Packs(L), NEW l \in L
  PROVE  AddToPack(pack, l) \in Packs(L)
<1>1. pack.full \in Seq(Seq(L)) /\ pack.current \in Seq(L)
  BY DEF Packs
<1>2. Append(pack.full, pack.current) \in Seq(Seq(L)) /\ Append(pack.current, l) \in Seq(L)
  BY <1>1, OneMore
<1>3. [full |-> Append(pack.full, pack.current), current |-> <<l>>] \in Packs(L)
  BY <1>2 DEF Packs
<1>4. [pack EXCEPT !.current = Append(@, l)] \in Packs(L)
  BY <1>2 DEF Packs
<1> QED
  BY <1>3, <1>4 DEF AddToPack

NoPack == [full |-> <<>>, current |-> <<>>]

LEMMA PackedAll ==
  ASSUME NEW Ids, NEW listings \in Seq(Listings(Ids))
  PROVE  PackedSoFar(FoldLeft(AddToPack, NoPack, listings), Listings(Ids), listings)
<1> DEFINE n == Len(listings)
           L == Listings(Ids)
           step == [kp \in (1..n) \X Packs(L) |-> AddToPack(kp[2], listings[kp[1]])]
           pick == [T \in SUBSET (1..n) |-> Max(T)]
           rec == CHOOSE it : it = [T \in SUBSET (1..n) |->
                    IF T = {} THEN NoPack ELSE AddToPack(it[T \ {Max(T)}], listings[Max(T)])]
<1> HIDE DEF L
<1>1. n \in Nat /\ DOMAIN listings = 1..n /\ (\A k \in 1..n : listings[k] \in L)
  BY DEF L
<1>2. NoPack \in Packs(L)
  BY DEF NoPack, Packs
<1>3. step \in [(1..n) \X Packs(L) -> Packs(L)]
  BY <1>1, AddToPackType
<1>4. \A k \in 1..n, p \in Packs(L) : step[<<k, p>>] = AddToPack(p, listings[k])
  OBVIOUS
<1>5. Picks(pick, 1..n) /\ IsFiniteSet(1..n)
  BY <1>1, MaxPicks
<1>6. FoldLeft(AddToPack, NoPack, listings) = rec[1..n]
  BY <1>1 DEF FoldLeft, MapThenFoldSet
<1> HIDE DEF n, step, pick
<1>7. PICK it \in [SUBSET (1..n) -> Packs(L)] : Folds(it, 1..n, NoPack, step, pick)
  BY <1>1, <1>2, <1>3, <1>5, FoldExists
<1>8. ASSUME NEW T \in SUBSET (1..n)
      PROVE  it[T] = IF T = {} THEN NoPack ELSE AddToPack(it[T \ {Max(T)}], listings[Max(T)])
  <2>1. CASE T = {}
    BY <1>7, <2>1 DEF Folds
  <2>2. CASE T # {}
    <3>1. pick[T] = Max(T) /\ Max(T) \in 1..n
      BY <1>5, <2>2 DEF Picks, pick
    <3>2. it[T] = step[<<Max(T), it[T \ {Max(T)}]>>] /\ it[T \ {Max(T)}] \in Packs(L)
      BY <1>7, <2>2, <3>1 DEF Folds
    <3> QED
      BY <1>4, <2>2, <3>1, <3>2
  <2> QED
    BY <2>1, <2>2
<1>9. it = [T \in SUBSET (1..n) |->
             IF T = {} THEN NoPack ELSE AddToPack(it[T \ {Max(T)}], listings[Max(T)])]
  BY <1>8
<1>10. rec = [T \in SUBSET (1..n) |->
              IF T = {} THEN NoPack ELSE AddToPack(rec[T \ {Max(T)}], listings[Max(T)])]
  BY <1>9
<1> HIDE DEF rec
<1>11. \A T \in SUBSET (1..n) :
         rec[T] = IF T = {} THEN NoPack ELSE AddToPack(rec[T \ {Max(T)}], listings[Max(T)])
  BY <1>10
<1>12. ASSUME NEW T \in SUBSET (1..n), T # {}, rec[T \ {Max(T)}] \in Packs(L)
       PROVE  rec[T] = step[<<Max(T), rec[T \ {Max(T)}]>>]
  <2>1. Max(T) \in 1..n
    BY <1>5, <1>12 DEF Picks, pick
  <2> QED
    BY <1>4, <1>11, <1>12, <2>1
<1>13. FoldsLeft(rec, n, Packs(L), NoPack, step)
  BY <1>1, <1>2, <1>3, <1>11, <1>12 DEF FoldsLeft
<1> DEFINE path == FoldedSoFar(rec, n)
<1>14. Path(path, n, Packs(L), NoPack, step)
  BY <1>13, FoldIsPath
<1>15. path[n] = FoldLeft(AddToPack, NoPack, listings)
  BY <1>1, <1>6 DEF FoldedSoFar
<1> HIDE DEF path
<1> DEFINE E == {k \in 0..n : PackedSoFar(path[k], L, SubSeq(listings, 1, k))}
<1>16. 0 \in E
  <2>1. path[0] = NoPack /\ 0 \in 0..n
    BY <1>1, <1>14 DEF Path
  <2>2. SubSeq(listings, 1, 0) = <<>>
    BY SubSeqEmpty
  <2>3. FlattenSeq(<<>>) = <<>>
    BY DEF FlattenSeq
  <2>4. NoPack.full = <<>> /\ NoPack.current = <<>>
    BY DEF NoPack
  <2>5. PackedSoFar(NoPack, L, <<>>)
    BY <1>2, <2>3, <2>4 DEF PackedSoFar
  <2> QED
    BY <2>1, <2>2, <2>5
<1>17. ASSUME NEW k \in 1..n, k - 1 \in E PROVE k \in E
  <2> DEFINE before == SubSeq(listings, 1, k - 1)
  <2>1. PackedSoFar(path[k - 1], L, before) /\ k - 1 \in 0..n /\ k \in 0..n
    BY <1>1, <1>17
  <2>2. listings[k] \in L /\ before \in Seq(L) /\ SubSeq(listings, 1, k) = Append(before, listings[k])
    <3>1. listings \in Seq(L) /\ 1 \in 1..(Len(listings) + 1) /\ k - 1 \in 0..Len(listings)
          /\ k \in 1..Len(listings)
      BY <1>1 DEF L, n
    <3>2. before \in Seq(L)
      BY <3>1, SubSeqProperties
    <3>3. SubSeq(listings, 1, k) = Append(before, listings[k])
      BY <3>1, SubSeqRecursiveSecond
    <3> QED
      BY <1>1, <3>2, <3>3
  <2>3. path[k - 1] \in Packs(L) /\ path[k] = step[<<k, path[k - 1]>>]
    BY <1>14, <2>1 DEF Path
  <2>4. path[k] = AddToPack(path[k - 1], listings[k])
    BY <1>4, <2>3
  <2> HIDE DEF before
  <2>5. PackedSoFar(path[k], L, Append(before, listings[k]))
    BY <2>1, <2>2, <2>4, PackOneMore DEF L
  <2> QED
    BY <2>1, <2>2, <2>5
<1>18. \A k \in 0..n : k \in E
  <2>1. \A k \in 1..n : k - 1 \in E => k \in E
    BY <1>17
  <2> HIDE DEF E
  <2> QED
    BY <1>1, <1>16, <2>1, PrefixInduction
<1>19. PackedSoFar(path[n], L, SubSeq(listings, 1, n))
  BY <1>1, <1>18
<1>20. SubSeq(listings, 1, n) = listings
  BY SubSeqFull DEF n
<1> QED
  BY <1>15, <1>19, <1>20 DEF L

\* _batch_listings and what has to hold of it: whatever the listings and the sizes,
\* the batches hold every listing once and in order, none is empty, and one that is
\* over the token limit holds a single listing.
THEOREM PackingLosesNothing ==
  ASSUME NEW Ids, NEW listings \in Seq(Listings(Ids))
  PROVE  Packed(listings, PackBatches(listings)) /\ PackBatches(listings) \in Seq(Seq(Listings(Ids)))
<1> DEFINE pack == FoldLeft(AddToPack, NoPack, listings)
           L == Listings(Ids)
           batches == PackBatches(listings)
<1> HIDE DEF L
<1>1. PackedSoFar(pack, L, listings)
  BY PackedAll DEF L
<1>2. batches = IF pack.current = <<>> THEN pack.full ELSE Append(pack.full, pack.current)
  BY DEF PackBatches, NoPack
<1> HIDE DEF pack, batches
<1>3. /\ pack.full \in Seq(Seq(L)) /\ pack.current \in Seq(L)
      /\ FlattenSeq(pack.full) \o pack.current = listings
      /\ \A b \in DOMAIN pack.full : Sendable(pack.full[b])
  BY <1>1 DEF PackedSoFar, Packs
<1>4. FlattenSeq(pack.full) \in Seq(L)
  BY <1>3, FlattenAppend
<1>5. /\ batches \in Seq(Seq(L)) /\ FlattenSeq(batches) = listings
      /\ \A b \in DOMAIN batches : Sendable(batches[b])
  <2>1. CASE pack.current = <<>>
    <3>1. FlattenSeq(pack.full) \o <<>> = FlattenSeq(pack.full)
      BY <1>4
    <3> QED
      BY <1>2, <1>3, <2>1, <3>1
  <2>2. CASE pack.current # <<>>
    <3>1. Sendable(pack.current)
      BY <1>1, <2>2 DEF PackedSoFar
    <3>2. FlattenSeq(Append(pack.full, pack.current)) = FlattenSeq(pack.full) \o pack.current
      BY <1>3, FlattenAppend
    <3>3. /\ Append(pack.full, pack.current) \in Seq(Seq(L))
          /\ \A b \in DOMAIN Append(pack.full, pack.current) :
               Sendable(Append(pack.full, pack.current)[b])
      BY <1>3, <3>1, FullOneMore
    <3> QED
      BY <1>2, <1>3, <2>2, <3>2, <3>3
  <2> QED
    BY <2>1, <2>2
<1> QED
  BY <1>5 DEF Packed, Sendable, batches, L

-----------------------------------------------------------------------------
(* Types, and the pool is joined.                                           *)

Phases == {"queued"} \union Active \union Settled
Call == [pc : Phases, attempt : 1..MaxTransportAttempts, repairs : 0..MaxRepairs,
         valid : BOOLEAN, usage : Tokens \union {0}, seen : Nat, entries : Verdicts \union {{}}]

CallsOK == \A b \in Batches : call[b] \in Call
CountsOK == total \in Nat /\ billed \in Nat /\ unrecorded \in Nat /\ overlapped \in BOOLEAN
CallerOK ==
  /\ main \in {"new", "idle", "collect", "exiting", "returned", "raised", "abandoned",
              "rejected"}
  /\ candidates \in Pools /\ settings \in Settings
  /\ merged \subseteq Batches /\ \A e \in best : e.id \in Known

\* No thread exists before the batches are submitted; what the caller has
\* merged has ended, and a thread that has ended does nothing more.
ThreadsJoined ==
  /\ main \in {"new", "idle", "rejected"} => Batches = {}
  /\ \A b \in merged : call[b].pc \in Settled
  /\ main \in {"returned", "raised"} => \A b \in Batches : call[b].pc \in Settled

BatchInv == CallsOK /\ CountsOK /\ CallerOK /\ ThreadsJoined

-----------------------------------------------------------------------------
LEMMA QueuedCall == Queued \in Call
<1>1. FALSE \in BOOLEAN /\ {} \in Verdicts \union {{}}
  OBVIOUS
<1> QED
  BY <1>1 DEF Queued, Call, Phases, MaxTransportAttempts, MaxRepairs

\* A call stays one when fields of it are replaced by others of their types.
LEMMA Replaced ==
  ASSUME NEW c \in Call, NEW x \in Phases, NEW n \in 1..MaxTransportAttempts,
         NEW u \in Tokens \union {0}, NEW t \in Nat, NEW v \in BOOLEAN,
         NEW es \in Verdicts \union {{}}
  PROVE  /\ [c EXCEPT !.pc = x] \in Call
         /\ [c EXCEPT !.attempt = n] \in Call
         /\ [c EXCEPT !.pc = x, !.attempt = n] \in Call
         /\ [c EXCEPT !.pc = x, !.seen = t] \in Call
         /\ [c EXCEPT !.pc = x, !.usage = u, !.valid = v] \in Call
         /\ [c EXCEPT !.pc = x, !.usage = u, !.valid = v, !.entries = es] \in Call
<1> DEFINE V == Verdicts \union {{}}
           T == Tokens \union {0}
<1>1. es \in V /\ u \in T
  OBVIOUS
<1> HIDE DEF V, T
<1>2. Call = [pc : Phases, attempt : 1..MaxTransportAttempts, repairs : 0..MaxRepairs,
              valid : BOOLEAN, usage : T, seen : Nat, entries : V]
  BY DEF Call, V, T
<1>3. [c EXCEPT !.pc = x] \in Call
  BY <1>2
<1>4. [c EXCEPT !.attempt = n] \in Call
  BY <1>2
<1>5. [c EXCEPT !.pc = x, !.attempt = n] \in Call
  BY <1>2
<1>6. [c EXCEPT !.pc = x, !.seen = t] \in Call
  BY <1>2
<1>7. [c EXCEPT !.pc = x, !.usage = u, !.valid = v] \in Call
  BY <1>1, <1>2
<1>8. [c EXCEPT !.pc = x, !.usage = u, !.valid = v, !.entries = es] \in Call
  BY <1>1, <1>2
<1> QED
  BY <1>3, <1>4, <1>5, <1>6, <1>7, <1>8

LEMMA AfterParseCall ==
  ASSUME NEW c \in Call
  PROVE  AfterParse(c) \in Call /\ AfterParse(c).pc \in {"answered", "post", "failed"}
<1> DEFINE parsed == [c EXCEPT !.attempt = 1, !.usage = 0, !.seen = 0]
<1>1. /\ 0 \in Tokens \union {0} /\ 0 \in Nat /\ 1 \in 1..MaxTransportAttempts
      /\ {"answered", "post", "failed"} \subseteq Phases
  BY DEF MaxTransportAttempts, Phases, Active, Settled
<1>2. parsed \in Call /\ parsed.repairs = c.repairs
  <2>1. \A n \in 1..MaxTransportAttempts, u \in Tokens \union {0}, t \in Nat :
          /\ [c EXCEPT !.attempt = n, !.usage = u, !.seen = t] \in Call
          /\ [c EXCEPT !.attempt = n, !.usage = u, !.seen = t].repairs = c.repairs
    BY DEF Call
  <2> QED
    BY <1>1, <2>1, Zenon
<1> HIDE DEF parsed
<1>3. \A x \in Phases : [parsed EXCEPT !.pc = x] \in Call /\ [parsed EXCEPT !.pc = x].pc = x
  BY <1>2 DEF Call
<1>4. c.repairs < MaxRepairs =>
        /\ [parsed EXCEPT !.pc = "post", !.repairs = @ + 1] \in Call
        /\ [parsed EXCEPT !.pc = "post", !.repairs = @ + 1].pc = "post"
  <2>1. c.repairs < MaxRepairs => c.repairs + 1 \in 0..MaxRepairs
    BY DEF Call, MaxRepairs
  <2> QED
    BY <1>1, <1>2, <2>1 DEF Call
<1>5. AfterParse(c) = IF c.valid THEN [parsed EXCEPT !.pc = "answered"]
                      ELSE IF c.repairs < MaxRepairs
                        THEN [parsed EXCEPT !.pc = "post", !.repairs = @ + 1]
                      ELSE [parsed EXCEPT !.pc = "failed"]
  BY DEF AfterParse, parsed
<1> QED
  BY <1>1, <1>3, <1>4, <1>5

\* A step of one thread replaces its own call, unless it has ended, by another.
MovesTo(b, c) == call[b].pc \notin Settled /\ c \in Call /\ call' = [call EXCEPT ![b] = c]

\* What it does to anything else: the counts stay counts, the caller's data stay.
LEMMA ThreadStep ==
  ASSUME BatchInv, NEW b \in Batches, Thread(b)
  PROVE  UNCHANGED Local /\ CountsOK' /\ \E c \in Call : MovesTo(b, c)
<1>1. /\ call[b] \in Call /\ total \in Nat /\ billed \in Nat /\ unrecorded \in Nat
      /\ overlapped \in BOOLEAN /\ Tokens \subseteq Nat
  BY BatchesAssumption DEF BatchInv, CallsOK, CountsOK
<1>2. /\ call[b].seen \in Nat /\ call[b].usage \in Nat /\ call[b].attempt \in Nat
      /\ call[b].attempt \in 1..MaxTransportAttempts
  <2>1. /\ call[b].seen \in Nat /\ call[b].usage \in Tokens \union {0}
        /\ call[b].attempt \in 1..MaxTransportAttempts
    BY <1>1 DEF Call
  <2>2. call[b].usage \in Nat
    <3>1. Tokens \subseteq Nat
      BY BatchesAssumption
    <3>2. \A t \in Tokens \union {0} : t \in Nat
      BY <3>1
    <3> QED
      BY <2>1, <3>2
  <2>3. call[b].attempt \in Nat
    BY <2>1 DEF MaxTransportAttempts
  <2> QED
    BY <2>1, <2>2, <2>3
<1>3. /\ {"post", "read", "add", "failed"} \subseteq Phases
      /\ {"queued", "post", "read", "add"} \intersect Settled = {}
      /\ 1 \in 1..MaxTransportAttempts
  BY DEF Phases, Active, Settled, MaxTransportAttempts
<1>4. CASE Start(b)
  <2> DEFINE c == [call[b] EXCEPT !.pc = "post"]
  <2>1. c \in Call
    BY <1>1, <1>3 DEF Call
  <2> HIDE DEF c
  <2>2. call[b].pc = "queued" /\ call' = [call EXCEPT ![b] = c]
        /\ UNCHANGED <<Local, total, billed, unrecorded, overlapped>>
    BY <1>4 DEF Start, Set, c
  <2> QED
    BY <1>1, <1>3, <2>1, <2>2 DEF MovesTo, CountsOK
<1>5. CASE PostUnavailable(b)
  <2> DEFINE c == IF call[b].attempt < MaxTransportAttempts
                    THEN [call[b] EXCEPT !.attempt = @ + 1]
                    ELSE [call[b] EXCEPT !.pc = "failed", !.attempt = 1]
  <2>1. call[b].attempt < MaxTransportAttempts => call[b].attempt + 1 \in 1..MaxTransportAttempts
    BY <1>2 DEF MaxTransportAttempts
  <2>2. call[b].attempt < MaxTransportAttempts => [call[b] EXCEPT !.attempt = @ + 1] \in Call
    BY <1>1, <2>1 DEF Call
  <2>3. [call[b] EXCEPT !.pc = "failed", !.attempt = 1] \in Call
    BY <1>1, <1>3 DEF Call
  <2>4. c \in Call
    BY <2>2, <2>3
  <2>5. call[b].pc = "post" /\ Set(b, c) /\ UNCHANGED <<Local, total, billed, unrecorded, overlapped>>
    BY <1>5 DEF PostUnavailable
  <2> HIDE DEF c
  <2> QED
    BY <1>1, <1>3, <2>4, <2>5 DEF Set, MovesTo, CountsOK
<1>6. CASE PostRefused(b)
  <2> DEFINE c == [call[b] EXCEPT !.pc = "failed", !.attempt = 1]
  <2>1. c \in Call
    BY <1>1, <1>3 DEF Call
  <2> HIDE DEF c
  <2>2. call[b].pc = "post" /\ call' = [call EXCEPT ![b] = c]
        /\ UNCHANGED <<Local, total, billed, unrecorded, overlapped>>
    BY <1>6 DEF PostRefused, Set, c
  <2> QED
    BY <1>1, <1>3, <2>1, <2>2 DEF MovesTo, CountsOK
<1>7. CASE PostEmpty(b)
  <2> DEFINE c == [call[b] EXCEPT !.pc = "failed", !.attempt = 1]
  <2>1. c \in Call
    BY <1>1, <1>3 DEF Call
  <2>2. PICK usage \in Tokens : billed' = billed + usage /\ unrecorded' = unrecorded + usage
    BY <1>7 DEF PostEmpty
  <2>3. billed' \in Nat /\ unrecorded' \in Nat
    BY <1>1, <2>2
  <2> HIDE DEF c
  <2>4. call[b].pc = "post" /\ call' = [call EXCEPT ![b] = c]
        /\ UNCHANGED <<Local, total, overlapped>>
    BY <1>7 DEF PostEmpty, Set, c
  <2> QED
    BY <1>1, <1>3, <2>1, <2>3, <2>4 DEF MovesTo, CountsOK
<1>8. CASE PostAnswered(b)
  <2>1. PICK usage \in Tokens :
          /\ billed' = billed + usage
          /\ \/ \E entries \in Verdicts :
                  Set(b, [call[b] EXCEPT !.pc = "read", !.usage = usage, !.valid = TRUE,
                                         !.entries = entries])
             \/ Set(b, [call[b] EXCEPT !.pc = "read", !.usage = usage, !.valid = FALSE])
    BY <1>8 DEF PostAnswered
  <2>2. call[b].pc = "post" /\ UNCHANGED <<Local, total, unrecorded, overlapped>>
    BY <1>8 DEF PostAnswered
  <2>3. usage \in Tokens \union {0} /\ billed + usage \in Nat
    BY <1>1
  <2>4. \A v \in BOOLEAN, es \in Verdicts \union {{}} :
          /\ [call[b] EXCEPT !.pc = "read", !.usage = usage, !.valid = v, !.entries = es] \in Call
          /\ [call[b] EXCEPT !.pc = "read", !.usage = usage, !.valid = v] \in Call
    BY <1>1, <1>3, <2>3, Replaced
  <2>5. PICK c \in Call : Set(b, c)
    BY <2>1, <2>4, Zenon
  <2> QED
    BY <1>1, <1>3, <2>1, <2>2, <2>3, <2>5 DEF Set, MovesTo, CountsOK
<1>9. CASE ReadTotal(b)
  <2> DEFINE c == [call[b] EXCEPT !.pc = "add", !.seen = total]
  <2>1. c \in Call
    BY <1>1, <1>3 DEF Call
  <2> HIDE DEF c
  <2>2. call[b].pc = "read" /\ call' = [call EXCEPT ![b] = c] /\ UNCHANGED <<Local, total, billed, unrecorded>>
    BY <1>9 DEF ReadTotal, Set, c
  <2>3. overlapped' \in BOOLEAN
    BY <1>9 DEF ReadTotal
  <2> QED
    BY <1>1, <1>3, <2>1, <2>2, <2>3 DEF MovesTo, CountsOK
<1>10. CASE AddTotal(b)
  <2>1. AfterParse(call[b]) \in Call
    BY <1>1, AfterParseCall
  <2>2. /\ call[b].pc = "add" /\ call' = [call EXCEPT ![b] = AfterParse(call[b])]
        /\ total' = call[b].seen + call[b].usage /\ UNCHANGED <<Local, billed, unrecorded, overlapped>>
    BY <1>10 DEF AddTotal, Set
  <2>3. CountsOK' /\ call[b].pc \notin Settled /\ UNCHANGED Local
    BY <1>1, <1>2, <1>3, <2>2 DEF CountsOK
  <2>4. \E c \in Call : MovesTo(b, c)
    BY <2>1, <2>2, <2>3, Zenon DEF MovesTo
  <2> QED
    BY <2>3, <2>4
<1> QED
  BY <1>4, <1>5, <1>6, <1>7, <1>8, <1>9, <1>10 DEF Thread

LEMMA ThreadKeeps ==
  ASSUME BatchInv, NEW b \in Batches, Thread(b)
  PROVE  BatchInv'
<1>1. UNCHANGED Local /\ CountsOK' /\ \E c \in Call : MovesTo(b, c)
  BY ThreadStep
<1>2. PICK c \in Call : call' = [call EXCEPT ![b] = c] /\ call[b].pc \notin Settled
  BY <1>1 DEF MovesTo
<1>3. Batches' = Batches /\ \A a \in Batches : call'[a] = IF a = b THEN c ELSE call[a]
  BY <1>2 DEF Batches
<1>4. CallsOK'
  BY <1>2, <1>3 DEF BatchInv, CallsOK
<1>5. CallerOK'
  BY <1>1, <1>3 DEF BatchInv, CallerOK, Local, Known
<1>6. ThreadsJoined'
  BY <1>1, <1>2, <1>3 DEF BatchInv, CallerOK, ThreadsJoined, Local
<1> QED
  BY <1>1, <1>4, <1>5, <1>6 DEF BatchInv

-----------------------------------------------------------------------------
LEMMA ConfigureKeeps == BatchInv /\ Configure => BatchInv'
BY DEF BatchInv, Configure, CallsOK, CountsOK, CallerOK, ThreadsJoined, Batches, Known

LEMMA SubmitKeeps == BatchInv /\ (Submit \/ InterruptSubmission) => BatchInv'
<1> SUFFICES ASSUME BatchInv, Submit \/ InterruptSubmission PROVE BatchInv'
  OBVIOUS
<1>1. /\ Batches = {} /\ merged = {} /\ main = "idle" /\ main' \in {"returned", "collect", "exiting"}
      /\ UNCHANGED <<settings, candidates, total, billed, unrecorded, overlapped, merged, best>>
  BY DEF BatchInv, CallerOK, ThreadsJoined, Submit, InterruptSubmission
<1>2. CASE main' = "returned" /\ UNCHANGED call
  BY <1>1, <1>2 DEF BatchInv, CallsOK, CountsOK, CallerOK, ThreadsJoined, Batches, Known
<1>3. ASSUME main' \in {"collect", "exiting"}, NEW n, call' = Submitted(n) PROVE BatchInv'
  <2>1. \A b \in Batches' : call'[b] \in Call
    BY <1>3, QueuedCall DEF Batches, Submitted
  <2> QED
    BY <1>1, <1>3, <2>1 DEF BatchInv, CallsOK, CountsOK, CallerOK, ThreadsJoined, Known
<1> QED
  BY <1>2, <1>3 DEF Submit, InterruptSubmission

LEMMA MergeKeeps ==
  ASSUME BatchInv, NEW b \in Batches, Merge(b)
  PROVE  BatchInv'
<1>1. /\ main = "collect" /\ call[b].pc \in Settled /\ merged' = merged \union {b}
      /\ UNCHANGED <<main, settings, candidates, call, total, billed, unrecorded, overlapped>>
      /\ best' = best \/ best' = BestOf(best \union call[b].entries)
  BY DEF Merge
<1>2. \A e \in best' : e.id \in Known
  BY <1>1 DEF BatchInv, CallerOK, BestOf
<1> QED
  BY <1>1, <1>2 DEF BatchInv, CallsOK, CountsOK, CallerOK, ThreadsJoined, Batches, Known

\* Return, the interrupts and ExitPool; the caller returns when every batch has
\* been merged, and raises when every one has ended or when it is interrupted again.
LEMMA EndKeeps ==
  ASSUME BatchInv, Return \/ Interrupt \/ InterruptAgain \/ ExitPool
  PROVE  BatchInv'
<1>1. /\ UNCHANGED <<settings, candidates, call, total, billed, unrecorded, overlapped, merged, best>>
      /\ main \in {"collect", "exiting"} /\ main' \in {"returned", "raised", "abandoned", "exiting"}
      /\ main' \in {"returned", "raised"} => \A b \in Batches : call[b].pc \in Settled
  BY DEF Return, Interrupt, InterruptAgain, ExitPool, BatchInv, ThreadsJoined
<1> QED
  BY <1>1 DEF BatchInv, CallsOK, CountsOK, CallerOK, ThreadsJoined, Batches, Known

LEMMA BatchInvInitially == Init => BatchInv
<1> SUFFICES ASSUME Init PROVE BatchInv
  OBVIOUS
<1>1. Batches = {} /\ merged = {} /\ best = {} /\ main = "new"
  BY DEF Init, Batches
<1>2. CountsOK
  BY DEF Init, CountsOK
<1>3. candidates \in Pools /\ settings \in Settings
  BY DEF Init
<1> QED
  BY <1>1, <1>2, <1>3 DEF BatchInv, CallsOK, CallerOK, ThreadsJoined

LEMMA BatchInvKept == BatchInv /\ [Next]_vars => BatchInv'
<1> SUFFICES ASSUME BatchInv, [Next]_vars PROVE BatchInv'
  OBVIOUS
<1>1. CASE UNCHANGED vars
  BY <1>1 DEF vars, BatchInv, CallsOK, CountsOK, CallerOK, ThreadsJoined, Batches, Known
<1>2. CASE Next
  BY <1>2, ConfigureKeeps, SubmitKeeps, MergeKeeps, EndKeeps, ThreadKeeps
     DEF Next, Caller, Interrupted
<1> QED
  BY <1>1, <1>2

LEMMA BatchInvariant == Spec => []BatchInv
BY BatchInvInitially, BatchInvKept, PTL DEF Spec

\* TypeOK: at most _MAX_TRANSPORT_ATTEMPTS requests and one repair per batch, and
\* no verdict on a listing that is not a candidate.
THEOREM BatchTypes == Spec => []TypeOK
<1>1. BatchInv => TypeOK
  <2> SUFFICES ASSUME BatchInv PROVE TypeOK
    OBVIOUS
  <2>1. \A b \in Batches :
          /\ call[b].pc \in {"queued"} \union Active \union Settled
          /\ call[b].attempt \in 1..MaxTransportAttempts /\ call[b].repairs \in 0..MaxRepairs
          /\ call[b].entries = {} \/ call[b].entries \in Verdicts
          /\ call[b].usage \in Tokens \union {0}
    BY DEF BatchInv, CallsOK, Call, Phases
  <2> QED
    BY <2>1 DEF BatchInv, CountsOK, CallerOK, TypeOK
<1> QED
  BY <1>1, BatchInvariant, PTL

\* NoThreadOutlives: the with block of Shortlister.shortlist is left, by return
\* or by a first Ctrl-C, only when every batch that was submitted has ended; a
\* second one, while the pool is waited for, is the only way to leave before.
THEOREM PoolIsJoined == Spec => []NoThreadOutlives
<1>1. BatchInv => NoThreadOutlives
  BY DEF BatchInv, ThreadsJoined, NoThreadOutlives, Done
<1> QED
  BY <1>1, BatchInvariant, PTL

-----------------------------------------------------------------------------
(* Usage.                                                                   *)

\* What a call has been billed and has not yet added to the total.
Owed(c) == IF c.pc \in {"read", "add"} THEN c.usage ELSE 0
OwedBy == [b \in Batches |-> Owed(call[b])]
Pending == SumOf(OwedBy)

\* A thread between the read and the write holds a total that, with all that is
\* pending or came without content, is no more than what was billed; as long as no two were there at
\* once, it holds the total itself, and nothing is missing.
UsageOK ==
  /\ IsFiniteSet(Batches)
  /\ total + Pending + unrecorded <= billed
  /\ \A b \in Adding : call[b].seen + Pending + unrecorded <= billed
  /\ ~overlapped =>
       /\ total + Pending + unrecorded = billed
       /\ \A b \in Adding : call[b].seen = total /\ Adding = {b}

LEMMA OwedIsNatural == \A c \in Call : Owed(c) \in Nat
<1> SUFFICES ASSUME NEW c \in Call PROVE Owed(c) \in Nat
  OBVIOUS
<1>1. c.usage \in Tokens \union {0}
  BY DEF Call
<1>2. \A t \in Tokens : t \in Nat
  BY BatchesAssumption
<1>3. c.usage \in Nat
  BY <1>1, <1>2
<1> QED
  BY <1>3 DEF Owed

LEMMA SumOfOwed ==
  ASSUME NEW S, IsFiniteSet(S), NEW calls, \A b \in S : calls[b] \in Call
  PROVE  /\ [b \in S |-> Owed(calls[b])] \in [S -> Nat]
         /\ SumOf([b \in S |-> Owed(calls[b])]) \in Nat
<1>1. [b \in S |-> Owed(calls[b])] \in [S -> Nat]
  BY OwedIsNatural
<1> QED
  BY <1>1, SumType

\* How each kind of step of a thread changes the counts and its own debt.
Quiet(b, c) ==
  /\ Owed(call[b]) = 0 /\ Owed(c) = 0 /\ call[b].pc # "add" /\ c.pc # "add"
  /\ UNCHANGED <<total, billed, unrecorded, overlapped>>
Bills(b, c) ==
  /\ Owed(call[b]) = 0 /\ call[b].pc # "add" /\ c.pc # "add"
  /\ billed' = billed + Owed(c) /\ UNCHANGED <<total, unrecorded, overlapped>>
Drops(b, c) ==
  /\ Owed(call[b]) = 0 /\ Owed(c) = 0 /\ call[b].pc # "add" /\ c.pc # "add"
  /\ \E usage \in Nat : billed' = billed + usage /\ unrecorded' = unrecorded + usage
  /\ UNCHANGED <<total, overlapped>>
Reads(b, c) ==
  /\ Owed(c) = Owed(call[b]) /\ call[b].pc # "add" /\ c.pc = "add" /\ c.seen = total
  /\ overlapped' = (overlapped \/ Adding # {}) /\ UNCHANGED <<total, billed, unrecorded>>
Adds(b, c) ==
  /\ Owed(c) = 0 /\ call[b].pc = "add" /\ c.pc # "add"
  /\ total' = call[b].seen + Owed(call[b]) /\ UNCHANGED <<billed, unrecorded, overlapped>>

LEMMA ThreadUsage ==
  ASSUME BatchInv, NEW b \in Batches, Thread(b)
  PROVE  \E c : /\ call' = [call EXCEPT ![b] = c]
                /\ Quiet(b, c) \/ Bills(b, c) \/ Drops(b, c) \/ Reads(b, c) \/ Adds(b, c)
<1>1. call[b] \in Call
  BY DEF BatchInv, CallsOK
<1>2. CASE Start(b)
  <2> DEFINE c == [call[b] EXCEPT !.pc = "post"]
  <2>1. c.pc = "post" /\ call[b].pc = "queued" /\ call' = [call EXCEPT ![b] = c]
        /\ UNCHANGED <<total, billed, unrecorded, overlapped>>
    BY <1>1, <1>2 DEF Start, Set, Call
  <2>2. Quiet(b, c)
    BY <2>1 DEF Quiet, Owed
  <2> QED
    BY <2>1, <2>2
<1>3. CASE PostUnavailable(b)
  <2> DEFINE c == IF call[b].attempt < MaxTransportAttempts
                    THEN [call[b] EXCEPT !.attempt = @ + 1]
                    ELSE [call[b] EXCEPT !.pc = "failed", !.attempt = 1]
  <2>1. call[b].pc = "post" /\ call' = [call EXCEPT ![b] = c]
        /\ UNCHANGED <<total, billed, unrecorded, overlapped>>
    BY <1>3 DEF PostUnavailable, Set
  <2>2. c.pc \in {"post", "failed"}
    BY <1>1, <2>1 DEF Call
  <2> HIDE DEF c
  <2>3. Quiet(b, c)
    BY <2>1, <2>2 DEF Quiet, Owed
  <2> QED
    BY <2>1, <2>3
<1>4. CASE PostRefused(b)
  <2> DEFINE c == [call[b] EXCEPT !.pc = "failed", !.attempt = 1]
  <2>1. c.pc = "failed" /\ call[b].pc = "post" /\ call' = [call EXCEPT ![b] = c]
        /\ UNCHANGED <<total, billed, unrecorded, overlapped>>
    BY <1>1, <1>4 DEF PostRefused, Set, Call
  <2>2. Quiet(b, c)
    BY <2>1 DEF Quiet, Owed
  <2> QED
    BY <2>1, <2>2
<1>5. CASE PostEmpty(b)
  <2> DEFINE c == [call[b] EXCEPT !.pc = "failed", !.attempt = 1]
  <2>1. c.pc = "failed" /\ call[b].pc = "post" /\ call' = [call EXCEPT ![b] = c]
        /\ UNCHANGED <<total, overlapped>>
    BY <1>1, <1>5 DEF PostEmpty, Set, Call
  <2>2. \E usage \in Nat : billed' = billed + usage /\ unrecorded' = unrecorded + usage
    BY <1>5, BatchesAssumption DEF PostEmpty
  <2>3. Drops(b, c)
    BY <2>1, <2>2 DEF Drops, Owed
  <2> QED
    BY <2>1, <2>3
<1>6. CASE PostAnswered(b)
  <2>1. call[b].pc = "post" /\ UNCHANGED <<total, unrecorded, overlapped>>
    BY <1>6 DEF PostAnswered
  <2>2. PICK usage \in Tokens :
          /\ billed' = billed + usage
          /\ \/ \E entries \in Verdicts :
                  Set(b, [call[b] EXCEPT !.pc = "read", !.usage = usage, !.valid = TRUE,
                                         !.entries = entries])
             \/ Set(b, [call[b] EXCEPT !.pc = "read", !.usage = usage, !.valid = FALSE])
    BY <1>6 DEF PostAnswered
  <2> DEFINE valid(es) == [call[b] EXCEPT !.pc = "read", !.usage = usage, !.valid = TRUE,
                                         !.entries = es]
             invalid == [call[b] EXCEPT !.pc = "read", !.usage = usage, !.valid = FALSE]
  <2>3. \E c : call' = [call EXCEPT ![b] = c] /\ c.pc = "read" /\ c.usage = usage
    <3>1. \A es : valid(es).pc = "read" /\ valid(es).usage = usage
      BY <1>1 DEF Call
    <3>2. invalid.pc = "read" /\ invalid.usage = usage
      BY <1>1 DEF Call
    <3>3. \/ \E es \in Verdicts : call' = [call EXCEPT ![b] = valid(es)]
          \/ call' = [call EXCEPT ![b] = invalid]
      BY <2>2 DEF Set
    <3> HIDE DEF valid, invalid
    <3>4. ASSUME NEW es \in Verdicts, call' = [call EXCEPT ![b] = valid(es)]
          PROVE  \E c : call' = [call EXCEPT ![b] = c] /\ c.pc = "read" /\ c.usage = usage
      BY <3>1, <3>4
    <3>5. ASSUME call' = [call EXCEPT ![b] = invalid]
          PROVE  \E c : call' = [call EXCEPT ![b] = c] /\ c.pc = "read" /\ c.usage = usage
      BY <3>2, <3>5
    <3> QED
      BY <3>3, <3>4, <3>5
  <2>4. PICK c : call' = [call EXCEPT ![b] = c] /\ c.pc = "read" /\ c.usage = usage
    BY <2>3
  <2>5. Bills(b, c)
    BY <2>1, <2>2, <2>4 DEF Bills, Owed
  <2> QED
    BY <2>4, <2>5
<1>7. CASE ReadTotal(b)
  <2> DEFINE c == [call[b] EXCEPT !.pc = "add", !.seen = total]
  <2>1. c.pc = "add" /\ c.seen = total /\ c.usage = call[b].usage /\ call[b].pc = "read"
    BY <1>1, <1>7 DEF ReadTotal, Call
  <2>2. /\ call' = [call EXCEPT ![b] = c] /\ UNCHANGED <<total, billed, unrecorded>>
        /\ overlapped' = (overlapped \/ Adding # {})
    BY <1>7 DEF ReadTotal, Set
  <2> HIDE DEF c
  <2>3. Reads(b, c)
    BY <2>1, <2>2 DEF Reads, Owed
  <2> QED
    BY <2>2, <2>3
<1>8. CASE AddTotal(b)
  <2> DEFINE c == AfterParse(call[b])
  <2>1. /\ call[b].pc = "add" /\ call' = [call EXCEPT ![b] = c]
        /\ total' = call[b].seen + call[b].usage /\ UNCHANGED <<billed, unrecorded, overlapped>>
    BY <1>8 DEF AddTotal, Set
  <2>2. c.pc \in {"answered", "post", "failed"}
    BY <1>1, AfterParseCall
  <2> HIDE DEF c
  <2>3. Adds(b, c)
    BY <2>1, <2>2 DEF Adds, Owed
  <2> QED
    BY <2>1, <2>3
<1> QED
  BY <1>2, <1>3, <1>4, <1>5, <1>6, <1>7, <1>8 DEF Thread

\* The pending usage changes by the debt of the thread that moved.
LEMMA PendingMoves ==
  ASSUME BatchInv, BatchInv', IsFiniteSet(Batches), NEW b \in Batches, NEW c,
         call' = [call EXCEPT ![b] = c]
  PROVE  Pending' + Owed(call[b]) = Pending + Owed(c)
<1>1. Batches' = Batches /\ \A a \in Batches : call'[a] = IF a = b THEN c ELSE call[a]
  BY DEF Batches
<1> DEFINE f == [a \in Batches |-> Owed(call[a])]
           g == [a \in Batches |-> Owed(call'[a])]
<1>2. \A a \in Batches : call[a] \in Call /\ call'[a] \in Call
  BY <1>1 DEF BatchInv, CallsOK
<1>3. f \in [Batches -> Nat] /\ g \in [Batches -> Nat]
  BY <1>2, OwedIsNatural
<1>4. f[b] = Owed(call[b]) /\ g[b] = Owed(c) /\ \A a \in Batches \ {b} : f[a] = g[a]
  BY <1>1
<1>5. Pending = SumOf(f) /\ Pending' = SumOf(g)
  BY <1>1 DEF Pending, OwedBy, Owed
<1> HIDE DEF f, g
<1>6. SumOf(g) + f[b] = SumOf(f) + g[b]
  BY <1>3, <1>4, SumExcept
<1> QED
  BY <1>4, <1>5, <1>6

LEMMA UsageByThread ==
  ASSUME BatchInv, BatchInv', UsageOK, NEW b \in Batches, Thread(b)
  PROVE  UsageOK'
<1>1. PICK c : /\ call' = [call EXCEPT ![b] = c]
               /\ Quiet(b, c) \/ Bills(b, c) \/ Drops(b, c) \/ Reads(b, c) \/ Adds(b, c)
  BY ThreadUsage
<1>2. Batches' = Batches /\ \A a \in Batches : call'[a] = IF a = b THEN c ELSE call[a]
  BY <1>1 DEF Batches
<1>3. IsFiniteSet(Batches)'
  BY <1>2 DEF UsageOK
<1>4. Pending' + Owed(call[b]) = Pending + Owed(c)
  BY <1>1, PendingMoves DEF UsageOK
<1>5. Pending \in Nat /\ Pending' \in Nat /\ total \in Nat /\ total' \in Nat
      /\ billed \in Nat /\ billed' \in Nat /\ unrecorded \in Nat /\ unrecorded' \in Nat
  <2>1. IsFiniteSet(Batches) /\ \A a \in Batches : call[a] \in Call /\ call'[a] \in Call
    BY <1>2 DEF BatchInv, CallsOK, UsageOK
  <2>2. /\ SumOf([a \in Batches |-> Owed(call[a])]) \in Nat
        /\ SumOf([a \in Batches |-> Owed(call'[a])]) \in Nat
    BY <2>1, SumOfOwed
  <2>3. /\ Pending = SumOf([a \in Batches |-> Owed(call[a])])
        /\ Pending' = SumOf([a \in Batches |-> Owed(call'[a])])
    BY <1>2 DEF Pending, OwedBy, Owed
  <2> QED
    BY <2>2, <2>3 DEF BatchInv, CountsOK
<1>6. Owed(call[b]) \in Nat /\ Owed(c) \in Nat /\ \A a \in Batches : call[a].seen \in Nat
  <2>1. \A a \in Batches : call[a] \in Call
    BY DEF BatchInv, CallsOK
  <2>2. c \in Call
    BY <1>2 DEF BatchInv, CallsOK
  <2>3. \A d \in Call : Owed(d) \in Nat /\ d.seen \in Nat
    BY OwedIsNatural DEF Call
  <2> QED
    BY <2>1, <2>2, <2>3
<1>7. CASE Quiet(b, c)
  <2>1. Adding' = Adding /\ b \notin Adding
    BY <1>2, <1>7 DEF Quiet, Adding
  <2>2. Pending' = Pending /\ UNCHANGED <<total, billed, unrecorded, overlapped>>
    <3>1. Owed(call[b]) = 0 /\ Owed(c) = 0
      BY <1>7 DEF Quiet
    <3>2. Pending' + 0 = Pending + 0
      BY <1>4, <3>1
    <3>3. \A x, y \in Nat : x + 0 = y + 0 => x = y
      OBVIOUS
    <3>4. Pending' = Pending
      BY <1>5, <3>2, <3>3, Zenon
    <3> QED
      BY <1>7, <3>4 DEF Quiet
  <2>3. \A a \in Adding : a \in Batches /\ call'[a] = call[a]
    BY <1>2, <2>1 DEF Adding
  <2> QED
    BY <1>3, <2>1, <2>2, <2>3 DEF UsageOK
<1>8. CASE Bills(b, c)
  <2>1. Adding' = Adding /\ b \notin Adding
    BY <1>2, <1>8 DEF Bills, Adding
  <2>2. Pending' = Pending + Owed(c) /\ billed' = billed + Owed(c) /\ UNCHANGED <<total, unrecorded, overlapped>>
    BY <1>4, <1>5, <1>6, <1>8 DEF Bills
  <2>3. \A a \in Adding : a \in Batches /\ call'[a] = call[a]
    BY <1>2, <2>1 DEF Adding
  <2>4. total' + Pending' + unrecorded' <= billed' /\ (total + Pending + unrecorded = billed => total' + Pending' + unrecorded' = billed')
    BY <1>5, <1>6, <2>2 DEF UsageOK
  <2>5. \A a \in Adding : call'[a].seen + Pending' + unrecorded' <= billed'
    <3> SUFFICES ASSUME NEW a \in Adding PROVE call[a].seen + Pending' + unrecorded' <= billed'
      BY <2>3
    <3>1. call[a].seen \in Nat /\ call[a].seen + Pending + unrecorded <= billed
      BY <1>6, <2>3 DEF UsageOK
    <3> QED
      BY <1>5, <1>6, <2>2, <3>1
  <2> QED
    BY <1>3, <2>1, <2>2, <2>3, <2>4, <2>5 DEF UsageOK
<1>9. CASE Drops(b, c)
  <2>1. Adding' = Adding /\ b \notin Adding
    BY <1>2, <1>9 DEF Drops, Adding
  <2>2. PICK usage \in Nat : billed' = billed + usage /\ unrecorded' = unrecorded + usage
    BY <1>9 DEF Drops
  <2>3. Pending' = Pending /\ UNCHANGED <<total, overlapped>>
    <3>1. Owed(call[b]) = 0 /\ Owed(c) = 0
      BY <1>9 DEF Drops
    <3>2. Pending' + 0 = Pending + 0
      BY <1>4, <3>1
    <3>3. \A x, y \in Nat : x + 0 = y + 0 => x = y
      OBVIOUS
    <3>4. Pending' = Pending
      BY <1>5, <3>2, <3>3, Zenon
    <3> QED
      BY <1>9, <3>4 DEF Drops
  <2>4. \A a \in Adding : a \in Batches /\ call'[a] = call[a]
    BY <1>2, <2>1 DEF Adding
  <2>5. /\ total' + Pending' + unrecorded' <= billed'
        /\ total + Pending + unrecorded = billed => total' + Pending' + unrecorded' = billed'
    BY <1>5, <2>2, <2>3 DEF UsageOK
  <2>6. \A a \in Adding : call'[a].seen + Pending' + unrecorded' <= billed'
    <3> SUFFICES ASSUME NEW a \in Adding
                 PROVE  call[a].seen + Pending' + unrecorded' <= billed'
      BY <2>4
    <3>1. call[a].seen \in Nat /\ call[a].seen + Pending + unrecorded <= billed
      BY <1>6, <2>4 DEF UsageOK
    <3> QED
      BY <1>5, <2>2, <2>3, <3>1
  <2> QED
    BY <1>3, <2>1, <2>3, <2>4, <2>5, <2>6 DEF UsageOK
<1>10. CASE Reads(b, c)
  <2>1. Adding' = Adding \union {b} /\ b \notin Adding
    BY <1>2, <1>10 DEF Reads, Adding
  <2>2. Pending' = Pending /\ UNCHANGED <<total, billed, unrecorded>> /\ call'[b].seen = total
    BY <1>2, <1>4, <1>5, <1>6, <1>10 DEF Reads
  <2>3. \A a \in Adding : a \in Batches /\ call'[a] = call[a]
    BY <1>2, <2>1 DEF Adding
  <2>4. ~overlapped' => ~overlapped /\ Adding = {}
    BY <1>10 DEF Reads
  <2>5. ~overlapped' => total' + Pending' + unrecorded' = billed' /\ \A a \in Adding' : call'[a].seen = total' /\ Adding' = {a}
    BY <2>1, <2>2, <2>4 DEF UsageOK
  <2>6. total' + Pending' + unrecorded' <= billed' /\ \A a \in Adding' : call'[a].seen + Pending' + unrecorded' <= billed'
    BY <2>1, <2>2, <2>3 DEF UsageOK
  <2> QED
    BY <1>3, <2>5, <2>6 DEF UsageOK
<1>11. CASE Adds(b, c)
  <2>1. Adding' = Adding \ {b} /\ b \in Adding
    BY <1>2, <1>11 DEF Adds, Adding
  <2>2. Pending' + Owed(call[b]) = Pending /\ total' = call[b].seen + Owed(call[b])
        /\ UNCHANGED <<billed, unrecorded, overlapped>>
    BY <1>4, <1>5, <1>11 DEF Adds
  <2>3. call[b].seen \in Nat
    BY <1>6
  <2>4. total' + Pending' = call[b].seen + Pending
    BY <1>5, <1>6, <2>2, <2>3
  <2>5. total' + Pending' + unrecorded' <= billed'
    BY <2>1, <2>2, <2>4 DEF UsageOK
  <2>6. \A a \in Adding' : call'[a].seen + Pending' + unrecorded' <= billed'
    <3> SUFFICES ASSUME NEW a \in Adding' PROVE call'[a].seen + Pending' + unrecorded' <= billed'
      OBVIOUS
    <3>1. a \in Adding /\ a \in Batches /\ call'[a] = call[a]
      BY <1>2, <2>1 DEF Adding
    <3>2. call[a].seen + Pending + unrecorded <= billed /\ call[a].seen \in Nat
      BY <1>6, <3>1 DEF UsageOK
    <3> QED
      BY <1>5, <1>6, <2>2, <3>1, <3>2
  <2>7. ~overlapped' => total' + Pending' + unrecorded' = billed' /\ Adding' = {}
    BY <2>1, <2>2, <2>4 DEF UsageOK
  <2> QED
    BY <1>3, <2>5, <2>6, <2>7 DEF UsageOK
<1> QED
  BY <1>1, <1>7, <1>8, <1>9, <1>10, <1>11

\* A step of the caller leaves the counts and, but for Submit, the calls alone.
LEMMA UsageByCaller ==
  ASSUME BatchInv, BatchInv', UsageOK, UNCHANGED <<total, billed, unrecorded, overlapped>>,
         UNCHANGED call \/ Submit \/ InterruptSubmission
  PROVE  UsageOK'
<1>1. CASE UNCHANGED call
  <2>1. Batches' = Batches /\ Adding' = Adding /\ Pending' = Pending
    BY <1>1 DEF Batches, Adding, Pending, OwedBy, Owed
  <2> QED
    BY <1>1, <2>1 DEF UsageOK
<1>2. CASE (Submit \/ InterruptSubmission) /\ call' # call
  <2>1. Batches = {} /\ candidates \in Pools
    BY <1>2 DEF BatchInv, CallerOK, ThreadsJoined, Submit, InterruptSubmission
  <2>2. Len(PackBatches(candidates)) \in Nat
    <3>1. candidates \in Seq(Listings(Nat))
      BY <2>1, BatchesAssumption DEF Listings
    <3>2. PackBatches(candidates) \in Seq(Seq(Listings(Nat)))
      BY <3>1, PackingLosesNothing
    <3> QED
      BY <3>2, LenProperties
  <2>3. PICK n \in Nat : call' = Submitted(n)
    BY <1>2, <2>2 DEF Submit, InterruptSubmission
  <2>4. IsFiniteSet(Batches') /\ \A b \in Batches' : Owed(call'[b]) = 0 /\ call'[b].pc # "add"
    <3>1. Batches' = 1..n /\ \A b \in 1..n : call'[b] = Queued
      BY <2>3 DEF Batches, Submitted
    <3>2. IsFiniteSet(1..n)
      BY FS_Interval
    <3> QED
      BY <3>1, <3>2 DEF Owed, Queued
  <2>5. Pending = 0
    <3>1. OwedBy \in [Batches -> Nat] /\ \A b \in Batches : OwedBy[b] = 0
      BY <2>1 DEF OwedBy
    <3>2. IsFiniteSet(Batches)
      BY DEF UsageOK
    <3>3. SumOf(OwedBy) = 0
      BY <3>1, <3>2, SumType
    <3> QED
      BY <3>3 DEF Pending
  <2>6. Pending' = 0
    <3> DEFINE g == [b \in Batches' |-> 0]
    <3>1. OwedBy' = g
      BY <2>4 DEF OwedBy
    <3>2. g \in [Batches' -> Nat] /\ \A b \in Batches' : g[b] = 0
      OBVIOUS
    <3> HIDE DEF g
    <3>3. SumOf(g) = 0
      BY <2>4, <3>2, SumType
    <3> QED
      BY <3>1, <3>3 DEF Pending
  <2>7. Adding' = {} /\ Adding = {}
    BY <2>1, <2>4 DEF Adding
  <2> QED
    BY <2>4, <2>5, <2>6, <2>7 DEF UsageOK
<1> QED
  BY <1>1, <1>2

LEMMA UsageKept == BatchInv /\ BatchInv' /\ UsageOK /\ [Next]_vars => UsageOK'
<1> SUFFICES ASSUME BatchInv, BatchInv', UsageOK, [Next]_vars PROVE UsageOK'
  OBVIOUS
<1>1. ASSUME NEW b \in Batches, Thread(b) PROVE UsageOK'
  BY <1>1, UsageByThread
<1>2. CASE Submit \/ InterruptSubmission
  BY <1>2, UsageByCaller DEF Submit, InterruptSubmission
<1>3. CASE \/ UNCHANGED vars \/ Configure \/ Return \/ ExitPool
           \/ Interrupt \/ InterruptAgain \/ \E b \in Batches : Merge(b)
  <2>1. UNCHANGED <<total, billed, unrecorded, overlapped, call>>
    BY <1>3 DEF vars, Configure, Return, ExitPool, Interrupt, InterruptAgain, Merge
  <2> QED
    BY <2>1, UsageByCaller
<1> QED
  BY <1>1, <1>2, <1>3 DEF Next, Caller, Interrupted

LEMMA UsageInitially == Init => UsageOK
<1> SUFFICES ASSUME Init PROVE UsageOK
  OBVIOUS
<1>1. Batches = {} /\ Adding = {} /\ total = 0 /\ billed = 0 /\ unrecorded = 0
  BY DEF Init, Batches, Adding
<1>2. IsFiniteSet(Batches)
  BY <1>1, FS_EmptySet
<1>3. OwedBy \in [Batches -> Nat] /\ \A b \in Batches : OwedBy[b] = 0
  BY <1>1 DEF OwedBy
<1>4. SumOf(OwedBy) = 0
  BY <1>2, <1>3, SumType
<1> QED
  BY <1>1, <1>2, <1>4 DEF Pending, UsageOK

\* UsageAccountedFor: whatever the transport has read of what answers cost is in
\* the provider's total, still with the thread that is to add it, or was read from
\* an answer without content.  _record_usage, a read and a write without a lock,
\* never counts a token that was not billed, and loses some only after two threads
\* were between the two at once.
THEOREM UsageIsAccountedFor == Spec => []UsageAccountedFor
<1>1. UsageOK => UsageAccountedFor
  <2>1. Pending = FoldFunction(+, 0, [b \in Batches |->
                    IF call[b].pc \in {"read", "add"} THEN call[b].usage ELSE 0])
    BY DEF Pending, SumOf, OwedBy, Owed
  <2> QED
    BY <2>1 DEF UsageOK, UsageAccountedFor
<1> QED
  BY <1>1, UsageInitially, UsageKept, BatchInvariant, PTL DEF Spec

-----------------------------------------------------------------------------
(* The selection.                                                           *)

\* The verdicts of the batches in bs that were answered.
VerdictsOf(bs) == UNION {call[b].entries : b \in {b \in bs : call[b].pc = "answered"}}

\* Of the verdicts on a candidate, one of the best is kept.
Dominated(entries) ==
  \A f \in entries : f.id \in Known =>
    \E e \in BestOf(entries) : e.id = f.id /\ f.score <= e.score

\* What the caller holds is the best of what it has merged, in whatever order;
\* when it returns, it has merged every batch, and ranks what it holds.
SelectionOK ==
  /\ VerdictsOf(merged) \subseteq [id : Nat, score : Nat]
  /\ best = BestOf(VerdictsOf(merged))
  /\ Dominated(VerdictsOf(merged))
  /\ main \in {"new", "idle"} => merged = {} /\ selection = <<>>
  /\ main = "returned" => merged = Batches /\ selection = Top(best)

LEMMA FiniteIsDominated ==
  ASSUME NEW entries, IsFiniteSet(entries), entries \subseteq [id : Nat, score : Nat]
  PROVE  Dominated(entries)
<1> SUFFICES ASSUME NEW f \in entries, f.id \in Known
             PROVE  \E e \in BestOf(entries) : e.id = f.id /\ f.score <= e.score
  BY DEF Dominated
<1> DEFINE Same(T) == {e \in T : e.id = f.id}
           Has(T) == f \in T =>
             \E e \in Same(T) : \A g \in Same(T) : g.score <= e.score
           F == {T \in SUBSET entries :
                   Same(T) # {} => \E e \in Same(T) : \A g \in Same(T) : g.score <= e.score}
<1>1. \A e \in entries : e.score \in Nat
  OBVIOUS
<1>2. {} \in F
  OBVIOUS
<1>3. ASSUME NEW T \in F, NEW x \in entries \ T PROVE T \union {x} \in F
  <2>1. CASE x.id # f.id
    <3>1. Same(T \union {x}) = Same(T)
      BY <2>1
    <3> QED
      BY <3>1
  <2>2. CASE x.id = f.id /\ Same(T) = {}
    <3>1. Same(T \union {x}) = {x}
      BY <2>2
    <3>2. x.score <= x.score
      BY <1>1
    <3> QED
      BY <3>1, <3>2
  <2>3. CASE x.id = f.id /\ Same(T) # {}
    <3>1. PICK e \in Same(T) : \A g \in Same(T) : g.score <= e.score
      BY <2>3
    <3>2. Same(T \union {x}) = Same(T) \union {x}
      BY <2>3
    <3>3. e.score \in Nat /\ x.score \in Nat /\ \A g \in Same(T) : g.score \in Nat
      BY <1>1
    <3> HIDE DEF Same
    <3>4. CASE x.score <= e.score
      BY <3>1, <3>2, <3>4
    <3>5. CASE ~(x.score <= e.score)
      <4>1. \A g \in Same(T) : g.score <= x.score
        BY <3>1, <3>3, <3>5
      <4>2. x.score <= x.score
        BY <3>3
      <4> QED
        BY <3>2, <4>1, <4>2
    <3> QED
      BY <3>4, <3>5
  <2> QED
    BY <2>1, <2>2, <2>3
<1>4. \A T \in SUBSET entries : T \in F
  <2>1. F \in SUBSET SUBSET entries /\ \A T \in F : \A x \in entries \ T : T \union {x} \in F
    BY <1>3
  <2> HIDE DEF F
  <2> QED
    BY <1>2, <2>1, FiniteSubsetInduction
<1>5. entries \in F /\ f \in Same(entries)
  BY <1>4
<1>6. PICK e \in Same(entries) : \A g \in Same(entries) : g.score <= e.score
  BY <1>5
<1>7. e \in BestOf(entries) /\ e.id = f.id /\ f.score <= e.score
  BY <1>5, <1>6 DEF BestOf
<1> QED
  BY <1>7

\* Merging what is already the best of some verdicts with more of them gives the
\* best of all, and one of the best of all is kept.
LEMMA BestOfBest ==
  ASSUME NEW old, NEW new, old \union new \subseteq [id : Nat, score : Nat],
         Dominated(old), Dominated(new)
  PROVE  BestOf(BestOf(old) \union new) = BestOf(old \union new) /\ Dominated(old \union new)
<1>1. \A e \in old \union new : e.score \in Nat
  OBVIOUS
<1>2. BestOf(old) \subseteq old /\ BestOf(new) \subseteq new
  BY DEF BestOf
<1>3. ASSUME NEW e \in BestOf(old \union new) PROVE e \in BestOf(BestOf(old) \union new)
  BY <1>2, <1>3 DEF BestOf
<1>4. ASSUME NEW e \in BestOf(BestOf(old) \union new) PROVE e \in BestOf(old \union new)
  <2>1. e \in old \union new /\ e.id \in Known
    BY <1>2, <1>4 DEF BestOf
  <2>2. ASSUME NEW f \in old \union new, f.id = e.id PROVE f.score <= e.score
    <3>1. CASE f \in new
      BY <1>4, <2>2, <3>1 DEF BestOf
    <3>2. CASE f \in old
      <4>1. PICK g \in BestOf(old) : g.id = f.id /\ f.score <= g.score
        BY <2>1, <2>2, <3>2 DEF Dominated
      <4>2. g.score <= e.score
        BY <1>4, <2>2, <4>1 DEF BestOf
      <4>3. f.score \in Nat /\ g.score \in Nat /\ e.score \in Nat
        BY <1>1, <1>2, <2>1, <4>1
      <4> QED
        BY <4>1, <4>2, <4>3
    <3> QED
      BY <3>1, <3>2
  <2> QED
    BY <2>1, <2>2 DEF BestOf
<1>5. ASSUME NEW f \in old \union new, f.id \in Known
      PROVE  \E e \in BestOf(old \union new) : e.id = f.id /\ f.score <= e.score
  <2> DEFINE Tops(E) == {e \in BestOf(E) : e.id = f.id}
  <2>1. ASSUME NEW E, E = old \/ E = new, NEW a \in E, a.id = f.id
        PROVE  \E e \in Tops(E) : \A g \in E : g.id = f.id => g.score <= e.score
    <3>1. PICK e \in BestOf(E) : e.id = a.id
      BY <1>5, <2>1 DEF Dominated
    <3> QED
      BY <2>1, <3>1 DEF BestOf
  <2>2. CASE ~ \E a \in old : a.id = f.id
    <3>1. f \in new
      BY <2>2
    <3>2. PICK e \in Tops(new) : \A g \in new : g.id = f.id => g.score <= e.score
      BY <2>1, <3>1
    <3>3. e \in BestOf(old \union new)
      BY <2>2, <3>2 DEF BestOf
    <3> QED
      BY <3>1, <3>2, <3>3
  <2>3. CASE ~ \E a \in new : a.id = f.id
    <3>1. f \in old
      BY <2>3
    <3>2. PICK e \in Tops(old) : \A g \in old : g.id = f.id => g.score <= e.score
      BY <2>1, <3>1
    <3>3. e \in BestOf(old \union new)
      BY <2>3, <3>2 DEF BestOf
    <3> QED
      BY <3>1, <3>2, <3>3
  <2>4. CASE (\E a \in old : a.id = f.id) /\ (\E a \in new : a.id = f.id)
    <3>1. PICK e \in Tops(old) : \A g \in old : g.id = f.id => g.score <= e.score
      BY <2>1, <2>4
    <3>2. PICK d \in Tops(new) : \A g \in new : g.id = f.id => g.score <= d.score
      BY <2>1, <2>4
    <3>3. /\ e \in old /\ d \in new /\ e.id = f.id /\ d.id = f.id
          /\ e.score \in Nat /\ d.score \in Nat
      BY <1>1, <1>2
    <3>4. CASE d.score <= e.score
      <4>1. \A g \in old \union new : g.id = f.id => g.score <= e.score
        BY <1>1, <3>1, <3>2, <3>3, <3>4
      <4>2. e \in BestOf(old \union new)
        BY <1>5, <3>3, <4>1 DEF BestOf
      <4> QED
        BY <3>3, <4>1, <4>2
    <3>5. CASE ~(d.score <= e.score)
      <4>1. \A g \in old \union new : g.id = f.id => g.score <= d.score
        BY <1>1, <3>1, <3>2, <3>3, <3>5
      <4>2. d \in BestOf(old \union new)
        BY <1>5, <3>3, <4>1 DEF BestOf
      <4> QED
        BY <3>3, <4>1, <4>2
    <3> QED
      BY <3>4, <3>5
  <2> QED
    BY <2>2, <2>3, <2>4
<1> QED
  BY <1>3, <1>4, <1>5 DEF Dominated

LEMMA NothingIsBest == BestOf({}) = {} /\ Dominated({})
BY DEF BestOf, Dominated

LEMMA TopOfNothing == Top({}) = <<>>
<1>1. Cardinality({}) = 0
  BY FS_EmptySet
<1>2. \A f \in [1..0 -> {}] : f = <<>>
  <2> SUFFICES ASSUME NEW f \in [1..0 -> {}] PROVE f = <<>>
    OBVIOUS
  <2>1. f \in Seq({}) /\ Len(f) = 0
    BY LenProperties
  <2> QED
    BY <2>1, EmptySeq
<1>3. <<>> \in [1..0 -> {}] /\ Len(<<>>) = 0
  <2>1. <<>> \in Seq({}) /\ Len(<<>>) = 0
    BY EmptySeq
  <2>2. <<>> \in [1..Len(<<>>) -> {}]
    BY <2>1, LenProperties
  <2> QED
    BY <2>1, <2>2
<1>4. SetToSeqs({}) = {<<>>}
  <2>1. ASSUME NEW f \in [1..0 -> {}] PROVE \A i, j \in 1..0 : i # j => f[i] # f[j]
    OBVIOUS
  <2>2. SetToSeqs({}) = [1..0 -> {}]
    BY <1>1, <2>1 DEF SetToSeqs
  <2> QED
    BY <1>2, <1>3, <2>2
<1> DEFINE ranked == CHOOSE s \in SetToSeqs({}) :
                       \A i, j \in DOMAIN s : i < j => Before(s[i], s[j])
<1>5. ranked = <<>>
  <2>1. \A i, j \in DOMAIN <<>> : i < j => Before(<<>>[i], <<>>[j])
    OBVIOUS
  <2> QED
    BY <1>4, <2>1
<1>6. Top({}) = SubSeq(ranked, 1, IF Len(ranked) < TopX THEN Len(ranked) ELSE TopX)
  BY DEF Top
<1> HIDE DEF ranked
<1>7. TopX \in Nat /\ TopX > 0
  BY BatchesAssumption
<1>8. SubSeq(<<>>, 1, 0) = <<>>
  BY SubSeqEmpty
<1> QED
  BY <1>3, <1>5, <1>6, <1>7, <1>8

LEMMA SelectionInitially == Init => SelectionOK
<1> SUFFICES ASSUME Init PROVE SelectionOK
  OBVIOUS
<1>1. merged = {} /\ best = {} /\ main = "new"
  BY DEF Init
<1>2. VerdictsOf(merged) = {}
  BY <1>1 DEF VerdictsOf
<1> QED
  BY <1>1, <1>2, NothingIsBest DEF SelectionOK, Init

\* What was merged does not change.
LEMMA MergedStay ==
  ASSUME BatchInv, SelectionOK, UNCHANGED <<candidates, merged, best>>,
         \A b \in merged : call'[b] = call[b]
  PROVE  /\ VerdictsOf(merged)' = VerdictsOf(merged)
         /\ best' = BestOf(VerdictsOf(merged))'
         /\ Dominated(VerdictsOf(merged))'
         /\ VerdictsOf(merged)' \subseteq [id : Nat, score : Nat]
<1>1. VerdictsOf(merged)' = VerdictsOf(merged)
  BY DEF VerdictsOf
<1>2. Known' = Known
  BY DEF Known
<1>3. BestOf(VerdictsOf(merged))' = BestOf(VerdictsOf(merged))
  BY <1>1, <1>2 DEF BestOf
<1>4. Dominated(VerdictsOf(merged))'
  BY <1>1, <1>2, <1>3 DEF Dominated, SelectionOK
<1> QED
  BY <1>1, <1>3, <1>4 DEF SelectionOK

LEMMA VerdictsAreFinite ==
  ASSUME NEW es \in Verdicts \union {{}}
  PROVE  IsFiniteSet(es) /\ es \subseteq [id : Nat, score : Nat]
<1>1. CASE es = {}
  BY <1>1, FS_EmptySet
<1>2. CASE es \in Verdicts
  BY <1>2, BatchesAssumption
<1> QED
  BY <1>1, <1>2

LEMMA SelectionByMerge ==
  ASSUME BatchInv, SelectionOK, NEW b \in Batches, Merge(b)
  PROVE  SelectionOK'
<1> DEFINE old == VerdictsOf(merged)
           new == call[b].entries
<1>1. /\ main = "collect" /\ UNCHANGED <<main, candidates, call>> /\ merged' = merged \union {b}
      /\ best' = IF call[b].pc = "failed" THEN best ELSE BestOf(best \union call[b].entries)
      /\ call[b].pc \in {"answered", "failed"}
  BY DEF Merge, Settled
<1>2. Known' = Known
  BY <1>1 DEF Known
<1>3. CASE call[b].pc = "failed"
  <2>1. VerdictsOf(merged)' = old /\ best' = best
    BY <1>1, <1>3 DEF VerdictsOf
  <2>2. BestOf(VerdictsOf(merged))' = BestOf(old)
    BY <1>2, <2>1 DEF BestOf
  <2>3. Dominated(VerdictsOf(merged))'
    BY <1>2, <2>1, <2>2 DEF Dominated, SelectionOK
  <2> QED
    BY <1>1, <2>1, <2>2, <2>3 DEF SelectionOK
<1>4. CASE call[b].pc = "answered"
  <2>1. VerdictsOf(merged)' = old \union new
    BY <1>1, <1>4 DEF VerdictsOf
  <2>2. call[b] \in Call
    BY DEF BatchInv, CallsOK
  <2>3. new \in Verdicts \union {{}}
    BY <2>2 DEF Call
  <2>4. IsFiniteSet(new) /\ new \subseteq [id : Nat, score : Nat]
    BY <2>3, VerdictsAreFinite
  <2>5. Dominated(new)
    BY <2>4, FiniteIsDominated
  <2>6. /\ old \union new \subseteq [id : Nat, score : Nat]
        /\ Dominated(old) /\ best = BestOf(old)
    BY <2>4 DEF SelectionOK
  <2> HIDE DEF old, new
  <2>7. BestOf(BestOf(old) \union new) = BestOf(old \union new) /\ Dominated(old \union new)
    BY <2>5, <2>6, BestOfBest
  <2>8. best' = BestOf(old \union new)
    BY <1>1, <1>4, <2>6, <2>7 DEF new
  <2>9. BestOf(VerdictsOf(merged))' = BestOf(old \union new)
    BY <1>2, <2>1 DEF BestOf
  <2>10. Dominated(VerdictsOf(merged))'
    BY <1>2, <2>1, <2>7, <2>9 DEF Dominated
  <2> QED
    BY <1>1, <2>1, <2>6, <2>8, <2>9, <2>10 DEF SelectionOK
<1> QED
  BY <1>1, <1>3, <1>4

LEMMA SelectionByThread ==
  ASSUME BatchInv, SelectionOK, NEW b \in Batches, Thread(b)
  PROVE  SelectionOK'
<1>1. UNCHANGED Local /\ \E c \in Call : MovesTo(b, c)
  BY ThreadStep
<1>2. PICK c \in Call : call' = [call EXCEPT ![b] = c] /\ call[b].pc \notin Settled
  BY <1>1 DEF MovesTo
<1>3. b \notin merged /\ main \notin {"new", "idle", "returned"}
  BY <1>2 DEF BatchInv, ThreadsJoined
<1>4. \A a \in merged : call'[a] = call[a]
  BY <1>2, <1>3 DEF BatchInv, CallerOK, Batches
<1>5. UNCHANGED <<main, candidates, merged, best>>
  BY <1>1 DEF Local
<1>6. /\ best' = BestOf(VerdictsOf(merged))' /\ Dominated(VerdictsOf(merged))'
      /\ VerdictsOf(merged)' \subseteq [id : Nat, score : Nat]
  BY <1>4, <1>5, MergedStay
<1> QED
  BY <1>3, <1>5, <1>6 DEF SelectionOK

LEMMA SelectionByCaller ==
  ASSUME BatchInv, SelectionOK,
         \/ UNCHANGED vars \/ Configure \/ Submit \/ Return \/ ExitPool
         \/ InterruptSubmission \/ Interrupt \/ InterruptAgain
  PROVE  SelectionOK'
<1>1. UNCHANGED <<candidates, merged, best>>
  BY DEF vars, Configure, Submit, Return, ExitPool, InterruptSubmission, Interrupt,
         InterruptAgain
<1>2. CASE Submit \/ InterruptSubmission
  <2>1. /\ merged = {} /\ Batches = {} /\ main = "idle" /\ main' \in {"returned", "collect", "exiting"}
        /\ main' = "returned" => UNCHANGED call
        /\ selection' = selection /\ selection = <<>>
    BY <1>2 DEF Submit, InterruptSubmission, BatchInv, CallerOK, ThreadsJoined, SelectionOK
  <2>2. /\ best' = BestOf(VerdictsOf(merged))' /\ Dominated(VerdictsOf(merged))'
        /\ VerdictsOf(merged)' \subseteq [id : Nat, score : Nat]
    BY <1>1, <2>1, MergedStay
  <2>3. VerdictsOf(merged) = {}
    BY <2>1 DEF VerdictsOf
  <2>4. best = {}
    BY <2>3, NothingIsBest DEF SelectionOK
  <2>5. main' = "returned" => merged' = Batches' /\ selection' = Top(best')
    BY <1>1, <2>1, <2>4, TopOfNothing DEF Batches
  <2> QED
    BY <2>1, <2>2, <2>5 DEF SelectionOK, Top
<1>3. CASE Return
  <2>1. main' = "returned" /\ merged = Batches /\ selection' = Top(best) /\ UNCHANGED call
    BY <1>3 DEF Return
  <2>2. /\ best' = BestOf(VerdictsOf(merged))' /\ Dominated(VerdictsOf(merged))'
        /\ VerdictsOf(merged)' \subseteq [id : Nat, score : Nat]
    BY <1>1, <2>1, MergedStay
  <2>3. Batches' = Batches /\ Top(best)' = Top(best)
    BY <1>1, <2>1 DEF Batches, Top, Before
  <2> QED
    BY <1>1, <2>1, <2>2, <2>3 DEF SelectionOK
<1>4. CASE UNCHANGED vars \/ Configure \/ ExitPool \/ Interrupt \/ InterruptAgain
  <2>1. UNCHANGED <<call, selection>> /\ (main' = "returned" => main = "returned")
        /\ (main' \in {"new", "idle"} => main \in {"new", "idle"})
    BY <1>4 DEF vars, Configure, ExitPool, Interrupt, InterruptAgain
  <2>2. /\ best' = BestOf(VerdictsOf(merged))' /\ Dominated(VerdictsOf(merged))'
        /\ VerdictsOf(merged)' \subseteq [id : Nat, score : Nat]
    BY <1>1, <2>1, MergedStay
  <2>3. Batches' = Batches /\ Top(best)' = Top(best)
    BY <1>1, <2>1 DEF Batches, Top, Before
  <2> QED
    BY <1>1, <2>1, <2>2, <2>3 DEF SelectionOK
<1> QED
  BY <1>2, <1>3, <1>4

LEMMA SelectionKept == BatchInv /\ SelectionOK /\ [Next]_vars => SelectionOK'
<1> SUFFICES ASSUME BatchInv, SelectionOK, [Next]_vars PROVE SelectionOK'
  OBVIOUS
<1>1. ASSUME NEW b \in Batches, Thread(b) PROVE SelectionOK'
  BY <1>1, SelectionByThread
<1>2. ASSUME NEW b \in Batches, Merge(b) PROVE SelectionOK'
  BY <1>2, SelectionByMerge
<1>3. CASE \/ UNCHANGED vars \/ Configure \/ Submit \/ Return \/ ExitPool
           \/ InterruptSubmission \/ Interrupt \/ InterruptAgain
  BY <1>3, SelectionByCaller
<1> QED
  BY <1>1, <1>2, <1>3 DEF Next, Caller, Interrupted

\* OrderDoesNotMatter: Shortlister.shortlist merges the batches as they complete,
\* and what it returns depends only on the verdicts of those that were answered.
THEOREM MergeOrderDoesNotMatter == Spec => []OrderDoesNotMatter
<1>1. SelectionOK => OrderDoesNotMatter
  BY DEF SelectionOK, OrderDoesNotMatter, VerdictsOf
<1> QED
  BY <1>1, SelectionInitially, SelectionKept, BatchInvariant, PTL DEF Spec
===============================================================================
