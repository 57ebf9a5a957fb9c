---------------------------- MODULE CodegenProofs ----------------------------
(***************************************************************************)
(* For programs of any size: the code generator's blocks, frames and loop  *)
(* stack keep their shape, the loop stack is the enclosing loops, and the  *)
(* verifier's verdict is what the faults of the source say.                *)
(***************************************************************************)
EXTENDS Codegen, FiniteSetTheorems, SequenceTheorems, WellFoundedInduction, TLAPS

BlockType == [fn : Nat, term : BOOLEAN, torn : BOOLEAN, succ : SUBSET Nat]
FrameType == [kind : Kinds, body : Nat, els : Nat, end : Nat, last : Lasts]
LoopType  == [body : Nat, end : Nat]

\* The blocks of f functions branch among themselves.
BlocksOK(bs, f) ==
    /\ bs \in Seq(BlockType)
    /\ \A b \in 1 .. Len(bs) : bs[b].fn \in 1 .. f /\ bs[b].succ \subseteq 1 .. Len(bs)

\* A frame knows the blocks it will branch to, among n; a function's is the
\* outermost and only that.
FrameIn(fr, n, i) ==
    /\ fr.kind = "fn" <=> i = 1
    /\ fr.kind # "fn" => fr.end \in 1 .. n
    /\ fr.kind \in {"thenElse", "thenElseIf"} => fr.els \in 1 .. n
    /\ fr.kind = "loop" => fr.body \in 1 .. n

FramesOK(fs, n) ==
    fs \in Seq(FrameType) /\ \A i \in 1 .. Len(fs) : FrameIn(fs[i], n, i)

LoopsOK(ls, n) ==
    /\ ls \in Seq(LoopType)
    /\ \A k \in 1 .. Len(ls) : ls[k].body \in 1 .. n /\ ls[k].end \in 1 .. n

Loops(fs, i) == {j \in 1 .. i : fs[j].kind = "loop"}

Matches(fs, ls) ==
    /\ Len(ls) = Cardinality(Loops(fs, Len(fs)))
    /\ \A i \in 1 .. Len(fs) : fs[i].kind = "loop" =>
           ls[Cardinality(Loops(fs, i))] = [body |-> fs[i].body, end |-> fs[i].end]

Stacks(fs, ls, n) == FramesOK(fs, n) /\ LoopsOK(ls, n) /\ Matches(fs, ls)

(***************************************************************************)
(* Blocks.                                                                 *)
(***************************************************************************)
LEMMA Inserted ==
    ASSUME NEW bs, NEW f \in Nat, BlocksOK(bs, f), NEW b \in 1 .. Len(bs),
           NEW isTerm \in BOOLEAN, NEW targets \in SUBSET (1 .. Len(bs))
    PROVE  /\ BlocksOK(Insert(bs, b, isTerm, targets), f)
           /\ Len(Insert(bs, b, isTerm, targets)) = Len(bs)
<1> DEFINE old == bs[b]
           new == [fn |-> old.fn, term |-> isTerm, torn |-> old.torn \/ old.term,
                   succ |-> old.succ \cup targets]
           cs  == [bs EXCEPT ![b] = new]
<1>1. old \in BlockType /\ Len(bs) \in Nat
  BY DEF BlocksOK
<1>2. (old.torn \/ old.term) \in BOOLEAN
  BY Zenon
<1>3. old.fn \in Nat /\ old.succ \cup targets \in SUBSET Nat
  <2>1. old.fn \in Nat /\ old.succ \in SUBSET Nat
    BY <1>1 DEF BlockType
  <2>2. targets \in SUBSET Nat
    OBVIOUS
  <2>3. QED
    BY <2>1, <2>2
<1>4. new \in BlockType /\ new.fn = old.fn /\ new.succ = old.succ \cup targets
  BY <1>2, <1>3 DEF BlockType
<1> HIDE DEF new
<1>5. cs \in Seq(BlockType) /\ Len(cs) = Len(bs)
  BY <1>4, <1>1 DEF BlocksOK
<1>6. cs[b] = new /\ \A c \in 1 .. Len(bs) : c # b => cs[c] = bs[c]
  BY DEF BlocksOK
<1>7. BlocksOK(cs, f)
  BY <1>4, <1>5, <1>6 DEF BlocksOK
<1>8. Insert(bs, b, isTerm, targets) = cs
  BY DEF Insert, new
<1>9. QED
  BY <1>5, <1>7, <1>8

LEMMA Extended ==
    ASSUME NEW bs, NEW f \in Nat, BlocksOK(bs, f), NEW g \in 1 .. f, NEW size \in Nat
    PROVE  LET cs == bs \o [i \in 1 .. size |-> NewBlock(g)]
           IN  /\ BlocksOK(cs, f)
               /\ Len(cs) = Len(bs) + size
               /\ \A c \in 1 .. Len(bs) : cs[c] = bs[c]
<1> DEFINE more == [i \in 1 .. size |-> NewBlock(g)]
           cs   == bs \o more
<1>1. NewBlock(g) \in BlockType /\ NewBlock(g).fn = g /\ NewBlock(g).succ = {}
  BY DEF NewBlock, BlockType
<1>2. more \in Seq(BlockType) /\ Len(more) = size
  BY <1>1
<1>3. /\ cs \in Seq(BlockType) /\ Len(cs) = Len(bs) + size
      /\ \A c \in 1 .. Len(cs) : cs[c] = IF c <= Len(bs) THEN bs[c] ELSE more[c - Len(bs)]
  BY <1>2, ConcatProperties DEF BlocksOK
<1>4. \A c \in 1 .. Len(cs) : cs[c] = IF c <= Len(bs) THEN bs[c] ELSE NewBlock(g)
  BY <1>2, <1>3
<1> HIDE DEF cs
<1>5. \A c \in 1 .. Len(cs) : cs[c].fn \in 1 .. f /\ cs[c].succ \subseteq 1 .. Len(cs)
  BY <1>1, <1>3, <1>4 DEF BlocksOK
<1>6. BlocksOK(cs, f) /\ Len(cs) = Len(bs) + size
  BY <1>3, <1>5 DEF BlocksOK
<1>7. \A c \in 1 .. Len(bs) : cs[c] = bs[c]
  BY <1>3, <1>4 DEF BlocksOK
<1>8. QED
  BY <1>6, <1>7 DEF cs

LEMMA FunctionBlock ==
    ASSUME NEW bs, NEW f \in Nat, BlocksOK(bs, f)
    PROVE  /\ BlocksOK(Append(bs, NewBlock(f + 1)), f + 1)
           /\ Len(Append(bs, NewBlock(f + 1))) = Len(bs) + 1
<1>1. NewBlock(f + 1) \in BlockType
  BY DEF NewBlock, BlockType
<1>2. QED
  BY <1>1 DEF BlocksOK, NewBlock

(***************************************************************************)
(* Counting the loops among frames.                                        *)
(***************************************************************************)
LEMMA LoopsCounted ==
    ASSUME NEW fs, NEW i \in Nat
    PROVE  /\ IsFiniteSet(Loops(fs, i)) /\ Cardinality(Loops(fs, i)) \in Nat
           /\ \A j \in 0 .. i : Cardinality(Loops(fs, j)) <= Cardinality(Loops(fs, i))
<1>1. IsFiniteSet(Loops(fs, i))
  <2>1. IsFiniteSet(1 .. i) /\ Loops(fs, i) \subseteq 1 .. i
    BY FS_Interval DEF Loops
  <2>2. QED
    BY <2>1, FS_Subset
<1>2. \A j \in 0 .. i : Loops(fs, j) \subseteq Loops(fs, i)
  BY DEF Loops
<1>3. QED
  BY <1>1, <1>2, FS_Subset, FS_CardinalityType

LEMMA LoopsStep ==
    ASSUME NEW fs, NEW n \in Nat
    PROVE  Cardinality(Loops(fs, n + 1)) =
               Cardinality(Loops(fs, n)) + (IF fs[n + 1].kind = "loop" THEN 1 ELSE 0)
<1>1. CASE fs[n + 1].kind = "loop"
  <2>1. Loops(fs, n + 1) = Loops(fs, n) \cup {n + 1} /\ n + 1 \notin Loops(fs, n)
    BY <1>1 DEF Loops
  <2>2. QED
    BY <1>1, <2>1, LoopsCounted, FS_AddElement
<1>2. CASE fs[n + 1].kind # "loop"
  <2>1. Loops(fs, n + 1) = Loops(fs, n)
    BY <1>2 DEF Loops
  <2>2. QED
    BY <1>2, <2>1, LoopsCounted
<1>3. QED
  BY <1>1, <1>2

\* Frames with the same kinds and blocks have the same loops.
LEMMA LoopsAlike ==
    ASSUME NEW fs, NEW gs, NEW n \in Nat,
           \A i \in 1 .. n : gs[i].kind = fs[i].kind
    PROVE  \A i \in 0 .. n : Loops(gs, i) = Loops(fs, i)
BY DEF Loops

(***************************************************************************)
(* The ways frames and loop stack change together.                         *)
(***************************************************************************)
LEMMA StacksMarked ==
    ASSUME NEW fs, NEW ls, NEW n \in Nat, Stacks(fs, ls, n), fs # << >>,
           NEW last \in Lasts
    PROVE  LET gs == [fs EXCEPT ![Len(fs)].last = last]
           IN  Stacks(gs, ls, n) /\ Len(gs) = Len(fs)
<1> DEFINE m   == Len(fs)
           fr  == [fs[m] EXCEPT !.last = last]
           gs  == [fs EXCEPT ![m] = fr]
<1>1. fs \in Seq(FrameType) /\ m \in Nat \ {0}
  BY DEF Stacks, FramesOK
<1>2. /\ fr \in FrameType /\ fr.kind = fs[m].kind /\ fr.body = fs[m].body
      /\ fr.els = fs[m].els /\ fr.end = fs[m].end
  <2>1. fs[m] \in FrameType
    BY <1>1
  <2>2. QED
    BY <2>1 DEF FrameType
<1> HIDE DEF fr
<1>3. /\ gs \in Seq(FrameType) /\ Len(gs) = m
      /\ \A i \in 1 .. m : gs[i] = IF i = m THEN fr ELSE fs[i]
  BY <1>1, <1>2
<1> HIDE DEF gs
<1>4. \A i \in 1 .. m : /\ gs[i].kind = fs[i].kind /\ gs[i].body = fs[i].body
                        /\ gs[i].els = fs[i].els /\ gs[i].end = fs[i].end
  BY <1>2, <1>3
<1>5. FramesOK(gs, n)
  BY <1>3, <1>4 DEF Stacks, FramesOK, FrameIn
<1>6. \A i \in 0 .. m : Loops(gs, i) = Loops(fs, i)
  BY <1>1, <1>4, LoopsAlike
<1>7. Matches(gs, ls)
  BY <1>1, <1>3, <1>4, <1>6 DEF Stacks, Matches
<1>8. [fs EXCEPT ![Len(fs)].last = last] = gs
  BY DEF gs, fr
<1>9. QED
  BY <1>3, <1>5, <1>7, <1>8 DEF Stacks

LEMMA StacksMore ==
    ASSUME NEW fs, NEW ls, NEW n \in Nat, NEW m \in Nat, n <= m, Stacks(fs, ls, n)
    PROVE  Stacks(fs, ls, m)
<1>1. FramesOK(fs, m)
  BY DEF Stacks, FramesOK, FrameIn
<1>2. LoopsOK(ls, m)
  BY DEF Stacks, LoopsOK
<1>3. QED
  BY <1>1, <1>2 DEF Stacks

\* A frame is pushed: the loops below are counted as before.
LEMMA FramePushed ==
    ASSUME NEW fs, NEW n \in Nat, FramesOK(fs, n), NEW fr \in FrameType,
           FrameIn(fr, n, Len(fs) + 1)
    PROVE  LET gs == Append(fs, fr)
           IN  /\ FramesOK(gs, n)
               /\ Len(gs) = Len(fs) + 1
               /\ gs[Len(fs) + 1] = fr
               /\ \A i \in 1 .. Len(fs) : gs[i] = fs[i]
               /\ \A i \in 0 .. Len(fs) : Loops(gs, i) = Loops(fs, i)
               /\ Cardinality(Loops(gs, Len(fs) + 1)) =
                      Cardinality(Loops(fs, Len(fs))) + (IF fr.kind = "loop" THEN 1 ELSE 0)
<1> DEFINE gs == Append(fs, fr)
<1>1. fs \in Seq(FrameType) /\ Len(fs) \in Nat
  BY DEF FramesOK
<1>2. /\ gs \in Seq(FrameType) /\ Len(gs) = Len(fs) + 1 /\ gs[Len(fs) + 1] = fr
      /\ \A i \in 1 .. Len(fs) : gs[i] = fs[i]
  BY <1>1
<1> HIDE DEF gs
<1>3. FramesOK(gs, n)
  BY <1>1, <1>2 DEF FramesOK
<1>4. \A i \in 0 .. Len(fs) : Loops(gs, i) = Loops(fs, i)
  BY <1>1, <1>2, LoopsAlike
<1>5. Cardinality(Loops(gs, Len(fs) + 1)) =
          Cardinality(Loops(gs, Len(fs))) + (IF fr.kind = "loop" THEN 1 ELSE 0)
  BY <1>1, <1>2, LoopsStep
<1>6. Loops(gs, Len(fs)) = Loops(fs, Len(fs))
  BY <1>1, <1>4
<1>7. QED
  BY <1>2, <1>3, <1>4, <1>5, <1>6 DEF gs

LEMMA StacksPushed ==
    ASSUME NEW fs, NEW ls, NEW n \in Nat, Stacks(fs, ls, n), NEW fr \in FrameType,
           FrameIn(fr, n, Len(fs) + 1), fr.kind # "loop"
    PROVE  Stacks(Append(fs, fr), ls, n)
<1> DEFINE gs == Append(fs, fr)
<1>1. fs \in Seq(FrameType) /\ Len(fs) \in Nat
  BY DEF Stacks, FramesOK
<1>2. /\ FramesOK(gs, n)
      /\ Len(gs) = Len(fs) + 1
      /\ gs[Len(fs) + 1] = fr
      /\ \A i \in 1 .. Len(fs) : gs[i] = fs[i]
      /\ \A i \in 0 .. Len(fs) : Loops(gs, i) = Loops(fs, i)
      /\ Cardinality(Loops(gs, Len(fs) + 1)) = Cardinality(Loops(fs, Len(fs))) + 0
  BY FramePushed DEF Stacks
<1> HIDE DEF gs
<1>3. Len(ls) = Cardinality(Loops(gs, Len(gs)))
  BY <1>1, <1>2, LoopsCounted DEF Stacks, Matches
<1>4. ASSUME NEW i \in 1 .. Len(gs), gs[i].kind = "loop"
      PROVE  ls[Cardinality(Loops(gs, i))] = [body |-> gs[i].body, end |-> gs[i].end]
  <2>1. i \in 1 .. Len(fs)
    BY <1>1, <1>2, <1>4
  <2>2. QED
    BY <1>1, <1>2, <1>4, <2>1 DEF Stacks, Matches
<1>5. QED
  BY <1>2, <1>3, <1>4 DEF Stacks, Matches, gs

LEMMA StacksLoopPushed ==
    ASSUME NEW fs, NEW ls, NEW n \in Nat, Stacks(fs, ls, n), NEW fr \in FrameType,
           FrameIn(fr, n, Len(fs) + 1), fr.kind = "loop"
    PROVE  Stacks(Append(fs, fr), Append(ls, [body |-> fr.body, end |-> fr.end]), n)
<1> DEFINE gs == Append(fs, fr)
           lp == [body |-> fr.body, end |-> fr.end]
           ms == Append(ls, lp)
           c  == Cardinality(Loops(fs, Len(fs)))
<1>1. /\ fs \in Seq(FrameType) /\ Len(fs) \in Nat
      /\ ls \in Seq(LoopType) /\ Len(ls) = c /\ c \in Nat
  BY DEF Stacks, FramesOK, LoopsOK, Matches
<1>2. /\ FramesOK(gs, n)
      /\ Len(gs) = Len(fs) + 1
      /\ gs[Len(fs) + 1] = fr
      /\ \A i \in 1 .. Len(fs) : gs[i] = fs[i]
      /\ \A i \in 0 .. Len(fs) : Loops(gs, i) = Loops(fs, i)
      /\ Cardinality(Loops(gs, Len(fs) + 1)) = c + 1
  BY FramePushed DEF Stacks
<1>3. lp \in LoopType /\ lp.body \in 1 .. n /\ lp.end \in 1 .. n
  BY DEF FrameType, FrameIn, LoopType
<1> HIDE DEF gs, lp
<1>4. /\ ms \in Seq(LoopType) /\ Len(ms) = c + 1 /\ ms[c + 1] = lp
      /\ \A k \in 1 .. c : ms[k] = ls[k]
  BY <1>1, <1>3
<1> HIDE DEF ms
<1>5. LoopsOK(ms, n)
  BY <1>1, <1>3, <1>4 DEF Stacks, LoopsOK
<1>6. ASSUME NEW i \in 1 .. Len(gs), gs[i].kind = "loop"
      PROVE  ms[Cardinality(Loops(gs, i))] = [body |-> gs[i].body, end |-> gs[i].end]
  <2>1. CASE i = Len(fs) + 1
    BY <1>2, <1>4, <2>1 DEF lp
  <2>2. CASE i \in 1 .. Len(fs)
    <3>1. Cardinality(Loops(fs, i)) \in 1 .. c
      <4>1. Loops(fs, i) # {} /\ IsFiniteSet(Loops(fs, i))
        BY <1>2, <1>6, <2>2, LoopsCounted DEF Loops
      <4>2. Cardinality(Loops(fs, i)) # 0
        BY <4>1, FS_EmptySet
      <4>3. Cardinality(Loops(fs, i)) \in Nat /\ Cardinality(Loops(fs, i)) <= c
        BY <1>1, <2>2, LoopsCounted
      <4>4. QED
        BY <1>1, <4>2, <4>3
    <3>2. ls[Cardinality(Loops(fs, i))] = [body |-> fs[i].body, end |-> fs[i].end]
      BY <1>2, <1>6, <2>2 DEF Stacks, Matches
    <3>3. QED
      BY <1>2, <1>4, <2>2, <3>1, <3>2
  <2>3. QED
    BY <1>1, <1>2, <2>1, <2>2
<1>7. QED
  BY <1>1, <1>2, <1>4, <1>5, <1>6 DEF Stacks, Matches, gs, ms, lp

\* The last frame is popped: the loops that stay are counted as before.
LEMMA FramePopped ==
    ASSUME NEW fs, NEW n \in Nat, FramesOK(fs, n), fs # << >>
    PROVE  LET gs == SubSeq(fs, 1, Len(fs) - 1)
           IN  /\ FramesOK(gs, n)
               /\ Len(gs) = Len(fs) - 1
               /\ \A i \in 1 .. Len(gs) : gs[i] = fs[i]
               /\ \A i \in 0 .. Len(gs) : Loops(gs, i) = Loops(fs, i)
               /\ Cardinality(Loops(fs, Len(fs))) =
                      Cardinality(Loops(gs, Len(gs)))
                          + (IF fs[Len(fs)].kind = "loop" THEN 1 ELSE 0)
<1> DEFINE gs == SubSeq(fs, 1, Len(fs) - 1)
           m  == Len(fs) - 1
<1>1. fs \in Seq(FrameType) /\ Len(fs) = m + 1 /\ m \in Nat
  BY DEF FramesOK
<1>2. /\ gs \in Seq(FrameType) /\ Len(gs) = m
      /\ \A i \in 1 .. m : gs[i] = fs[i]
  BY <1>1
<1> HIDE DEF gs, m
<1>3. FramesOK(gs, n)
  BY <1>1, <1>2 DEF FramesOK
<1>4. \A i \in 0 .. m : Loops(gs, i) = Loops(fs, i)
  BY <1>1, <1>2, LoopsAlike
<1>5. Cardinality(Loops(fs, m + 1)) =
          Cardinality(Loops(fs, m)) + (IF fs[m + 1].kind = "loop" THEN 1 ELSE 0)
  BY <1>1, LoopsStep
<1>6. Loops(gs, m) = Loops(fs, m)
  BY <1>1, <1>4
<1>7. QED
  BY <1>1, <1>2, <1>3, <1>4, <1>5, <1>6 DEF gs

LEMMA StacksPopped ==
    ASSUME NEW fs, NEW ls, NEW n \in Nat, Stacks(fs, ls, n), fs # << >>,
           fs[Len(fs)].kind # "loop"
    PROVE  Stacks(SubSeq(fs, 1, Len(fs) - 1), ls, n)
<1> DEFINE gs == SubSeq(fs, 1, Len(fs) - 1)
<1>1. fs \in Seq(FrameType) /\ Len(fs) \in Nat
  BY DEF Stacks, FramesOK
<1>2. /\ FramesOK(gs, n)
      /\ Len(gs) = Len(fs) - 1
      /\ \A i \in 1 .. Len(gs) : gs[i] = fs[i]
      /\ \A i \in 0 .. Len(gs) : Loops(gs, i) = Loops(fs, i)
      /\ Cardinality(Loops(fs, Len(fs))) = Cardinality(Loops(gs, Len(gs))) + 0
  BY FramePopped DEF Stacks
<1> HIDE DEF gs
<1>3. Len(gs) \in Nat
  BY <1>2 DEF FramesOK
<1>4. Len(ls) = Cardinality(Loops(gs, Len(gs)))
  BY <1>2, <1>3, LoopsCounted DEF Stacks, Matches
<1>5. ASSUME NEW i \in 1 .. Len(gs), gs[i].kind = "loop"
      PROVE  ls[Cardinality(Loops(gs, i))] = [body |-> gs[i].body, end |-> gs[i].end]
  BY <1>1, <1>2, <1>3, <1>5 DEF Stacks, Matches
<1>6. QED
  BY <1>2, <1>4, <1>5 DEF Stacks, Matches, gs

LEMMA StacksLoopPopped ==
    ASSUME NEW fs, NEW ls, NEW n \in Nat, Stacks(fs, ls, n), fs # << >>,
           fs[Len(fs)].kind = "loop"
    PROVE  Stacks(SubSeq(fs, 1, Len(fs) - 1), SubSeq(ls, 1, Len(ls) - 1), n)
<1> DEFINE gs == SubSeq(fs, 1, Len(fs) - 1)
           ms == SubSeq(ls, 1, Len(ls) - 1)
           c  == Cardinality(Loops(gs, Len(gs)))
<1>1. fs \in Seq(FrameType) /\ Len(fs) \in Nat /\ ls \in Seq(LoopType)
  BY DEF Stacks, FramesOK, LoopsOK
<1>2. /\ FramesOK(gs, n)
      /\ Len(gs) = Len(fs) - 1
      /\ \A i \in 1 .. Len(gs) : gs[i] = fs[i]
      /\ \A i \in 0 .. Len(gs) : Loops(gs, i) = Loops(fs, i)
      /\ Cardinality(Loops(fs, Len(fs))) = c + 1
  BY FramePopped DEF Stacks
<1> HIDE DEF gs
<1>3. Len(gs) \in Nat
  BY <1>2 DEF FramesOK
<1>4. c \in Nat /\ Len(ls) = c + 1
  BY <1>2, <1>3, LoopsCounted DEF Stacks, Matches
<1>5. /\ ms \in Seq(LoopType) /\ Len(ms) = c
      /\ \A k \in 1 .. c : ms[k] = ls[k]
  BY <1>1, <1>4
<1> HIDE DEF ms
<1>6. LoopsOK(ms, n)
  BY <1>4, <1>5 DEF Stacks, LoopsOK
<1>7. ASSUME NEW i \in 1 .. Len(gs), gs[i].kind = "loop"
      PROVE  ms[Cardinality(Loops(gs, i))] = [body |-> gs[i].body, end |-> gs[i].end]
  <2>1. Cardinality(Loops(gs, i)) \in 1 .. c
    <3>1. Loops(gs, i) # {} /\ IsFiniteSet(Loops(gs, i))
      BY <1>3, <1>7, LoopsCounted DEF Loops
    <3>2. Cardinality(Loops(gs, i)) # 0
      BY <3>1, FS_EmptySet
    <3>3. Cardinality(Loops(gs, i)) \in Nat /\ Cardinality(Loops(gs, i)) <= c
      BY <1>3, LoopsCounted
    <3>4. QED
      BY <1>4, <3>2, <3>3
  <2>2. i \in 1 .. Len(fs) /\ gs[i] = fs[i] /\ Loops(gs, i) = Loops(fs, i)
    BY <1>1, <1>2, <1>3
  <2>3. ls[Cardinality(Loops(fs, i))] = [body |-> fs[i].body, end |-> fs[i].end]
    BY <1>7, <2>2 DEF Stacks, Matches
  <2>4. QED
    BY <1>5, <2>1, <2>2, <2>3
<1>8. QED
  BY <1>2, <1>5, <1>6, <1>7 DEF Stacks, Matches, gs, ms

-----------------------------------------------------------------------------
(***************************************************************************)
(* The invariant.                                                          *)
(***************************************************************************)
Built ==
    /\ built \in Nat
    /\ BlocksOK(blocks, built)
    /\ cur \in 0 .. Len(blocks)
    /\ frames # << >> => cur # 0
    /\ Stacks(frames, loop_stack, Len(blocks))

Recorded ==
    /\ named_values \in [Names -> 0 .. Len(blocks)]
    /\ DOMAIN symbols \subseteq FnNames \cup {Printf}
    /\ \A f \in DOMAIN symbols : symbols[f] \in 0 .. built
    /\ calls \subseteq ((1 .. built) \X (0 .. built))
    /\ uses \subseteq ((1 .. Len(blocks)) \X (1 .. Len(blocks)))
    /\ faults \subseteq Faults
    /\ status \in {"running", "built", "verified", "invalid", "threw"}

CInv == Built /\ Recorded

LEMMA InvTypeOK == CInv => TypeOK
<1> SUFFICES ASSUME CInv PROVE TypeOK
  OBVIOUS
<1>1. DOMAIN blocks = 1 .. Len(blocks) /\ DOMAIN frames = 1 .. Len(frames)
  BY DEF CInv, Built, BlocksOK, Stacks, FramesOK
<1>2. \A i \in DOMAIN frames : frames[i].kind \in Kinds /\ frames[i].last \in Lasts
  <2> SUFFICES ASSUME NEW i \in DOMAIN frames
               PROVE  frames[i].kind \in Kinds /\ frames[i].last \in Lasts
    OBVIOUS
  <2>1. frames[i] \in FrameType
    BY <1>1 DEF CInv, Built, Stacks, FramesOK
  <2>2. QED
    BY <2>1 DEF FrameType
<1>3. QED
  BY <1>1, <1>2 DEF CInv, Built, Recorded, BlocksOK, TypeOK

LEMMA InvLoops == CInv => LoopStackExact
<1> SUFFICES ASSUME CInv PROVE LoopStackExact
  OBVIOUS
<1>1. DOMAIN frames = 1 .. Len(frames)
  BY DEF CInv, Built, Stacks, FramesOK
<1>2. \A i : LoopsTo(i) = Cardinality(Loops(frames, i))
  BY DEF LoopsTo, Loops
<1>3. QED
  BY <1>1, <1>2 DEF CInv, Built, Stacks, Matches, LoopStackExact

(***************************************************************************)
(* The parts of an action.                                                 *)
(***************************************************************************)
LEMMA InitInv == CInit => CInv
<1> SUFFICES ASSUME CInit PROVE CInv
  OBVIOUS
<1>1. Loops(<< >>, 0) = {}
  BY DEF Loops
<1>2. Stacks(<< >>, << >>, 0)
  BY <1>1, FS_EmptySet DEF Stacks, FramesOK, LoopsOK, Matches
<1>3. BlocksOK(<< >>, 0)
  BY DEF BlocksOK
<1>4. QED
  BY <1>2, <1>3 DEF CInit, CInv, Built, Recorded

\* What is known where a statement is visited.
LEMMA Inside ==
    ASSUME CInv, frames # << >>
    PROVE  /\ built \in Nat \ {0}
           /\ Len(blocks) \in Nat
           /\ cur \in 1 .. Len(blocks)
           /\ blocks[cur].fn \in 1 .. built
           /\ Len(frames) \in Nat \ {0}
           /\ Top \in FrameType
           /\ FrameIn(Top, Len(blocks), Len(frames))
<1>1. /\ built \in Nat /\ Len(blocks) \in Nat /\ cur \in 1 .. Len(blocks)
      /\ blocks[cur].fn \in 1 .. built
  BY DEF CInv, Built, BlocksOK
<1>2. frames \in Seq(FrameType) /\ Len(frames) \in Nat \ {0}
  BY DEF CInv, Built, Stacks, FramesOK
<1>3. Top \in FrameType /\ FrameIn(Top, Len(blocks), Len(frames))
  BY <1>2 DEF Top, CInv, Built, Stacks, FramesOK
<1>4. QED
  BY <1>1, <1>2, <1>3

\* Each name loaded has an alloca, in a block of the module.
LEMMA EvaluateRecorded ==
    ASSUME CInv, frames # << >>, NEW e \in Exprs, Emits(e),
           NEW b \in 1 .. Len(blocks), NEW stores, Evaluate(e, b, stores),
           stores \subseteq ((1 .. Len(blocks)) \X (1 .. Len(blocks)))
    PROVE  /\ uses' \subseteq ((1 .. Len(blocks)) \X (1 .. Len(blocks)))
           /\ calls' \subseteq ((1 .. built) \X (0 .. built))
<1>1. built \in Nat \ {0} /\ Len(blocks) \in Nat
  BY Inside
<1>2. Loads(e, b) \subseteq ((1 .. Len(blocks)) \X (1 .. Len(blocks)))
  <2>1. \A n \in VarsOf(e) : named_values[n] \in 1 .. Len(blocks)
    BY <1>1, ExprsAssumption DEF Emits, CInv, Recorded
  <2>2. QED
    BY <2>1 DEF Loads
<1>3. \A f \in CallsOf(e) : symbols[f] \in 0 .. built
  BY DEF Emits, CInv, Recorded
<1>4. uses' \subseteq ((1 .. Len(blocks)) \X (1 .. Len(blocks)))
  BY <1>2 DEF Evaluate, CInv, Recorded
<1>5. calls' \subseteq ((1 .. built) \X (0 .. built))
  BY <1>1, <1>3 DEF Evaluate, CInv, Recorded
<1>6. QED
  BY <1>4, <1>5

LEMMA FaultNames ==
    ASSUME NEW e
    PROVE  AfterJump \subseteq Faults /\ CallFaults(e) \subseteq Faults
BY DEF AfterJump, CallFaults, Faults

LEMMA MarkedStacks ==
    ASSUME CInv, frames # << >>, NEW last \in Lasts
    PROVE  Stacks(Marked(last), loop_stack, Len(blocks)) /\ Len(Marked(last)) = Len(frames)
<1>1. Stacks(frames, loop_stack, Len(blocks)) /\ Len(blocks) \in Nat
  BY Inside DEF CInv, Built
<1>2. LET gs == [frames EXCEPT ![Len(frames)].last = last]
      IN  Stacks(gs, loop_stack, Len(blocks)) /\ Len(gs) = Len(frames)
  BY <1>1, StacksMarked
<1>3. QED
  BY <1>2, Zenon DEF Marked

\* An instruction is inserted in the current block and its statement noted.
LEMMA Stated ==
    ASSUME CInv, frames # << >>, NEW isTerm \in BOOLEAN,
           NEW targets \in SUBSET (1 .. Len(blocks)), NEW last \in Lasts,
           blocks' = Insert(blocks, cur, isTerm, targets),
           frames' = Marked(last),
           UNCHANGED <<cur, loop_stack, built>>
    PROVE  Built' /\ Len(blocks') = Len(blocks)
<1>1. BlocksOK(blocks', built) /\ Len(blocks') = Len(blocks)
  BY Inside, Inserted DEF CInv, Built
<1>2. Stacks(frames', loop_stack, Len(blocks))
  BY MarkedStacks
<1>3. QED
  BY <1>1, <1>2, Inside DEF CInv, Built

LEMMA ThrowInv ==
    ASSUME CInv, Throw
    PROVE  CInv'
BY DEF Throw, CInv, Built, Recorded

LEMMA UnwoundStacks ==
    ASSUME CInv, frames # << >>, Top.kind # "loop"
    PROVE  /\ Stacks(Unwound, loop_stack, Len(blocks))
           /\ Len(Unwound) = Len(frames) - 1
<1>1. Stacks(frames, loop_stack, Len(blocks)) /\ Len(blocks) \in Nat
  BY Inside DEF CInv, Built
<1>2. Stacks(SubSeq(frames, 1, Len(frames) - 1), loop_stack, Len(blocks))
  BY <1>1, StacksPopped DEF Top
<1>3. Len(SubSeq(frames, 1, Len(frames) - 1)) = Len(frames) - 1
  BY <1>1, FramePopped DEF Stacks
<1>4. QED
  BY <1>2, <1>3, Zenon DEF Unwound

\* The frame of a branch, of an else or of an elseif is pushed.
LEMMA PushedStacks ==
    ASSUME NEW fs, NEW n \in Nat, Stacks(fs, loop_stack, n), fs # << >>,
           NEW kind \in Kinds \ {"fn", "loop"}, NEW els \in Nat, NEW end \in 1 .. n,
           kind \in {"thenElse", "thenElseIf"} => els \in 1 .. n
    PROVE  Stacks(Append(fs, Frame(kind, 0, els, end)), loop_stack, n)
<1> DEFINE fr == Frame(kind, 0, els, end)
<1>1. fr \in FrameType /\ fr.kind = kind /\ fr.els = els /\ fr.end = end
  BY DEF Frame, FrameType, Lasts
<1>2. Len(fs) \in Nat \ {0}
  BY DEF Stacks, FramesOK
<1>3. FrameIn(fr, n, Len(fs) + 1)
  BY <1>1, <1>2 DEF FrameIn
<1>4. QED
  BY <1>1, <1>3, StacksPushed

(***************************************************************************)
(* The actions.                                                            *)
(***************************************************************************)
LEMMA SimpleInv ==
    ASSUME CInv, BuildStatement
    PROVE  CInv'
<1>1. ASSUME NEW n \in Names, NEW e \in Exprs, BuildDeclare(n, e)
      PROVE  CInv'
  <2>1. CASE named_values[n] # 0 \/ ~Emits(e)
    BY <1>1, <2>1, ThrowInv DEF BuildDeclare
  <2>2. CASE named_values[n] = 0 /\ Emits(e)
    <3>1. /\ frames # << >> /\ blocks' = Insert(blocks, cur, FALSE, {})
          /\ frames' = Marked("other") /\ Evaluate(e, cur, {})
          /\ UNCHANGED <<cur, loop_stack, symbols, built, status>>
          /\ named_values' = [named_values EXCEPT ![n] = cur]
          /\ faults' = faults \cup AfterJump \cup CallFaults(e)
      BY <1>1, <2>2 DEF BuildDeclare, InBlock, Instruction
    <3>2. Built' /\ Len(blocks') = Len(blocks)
      BY <3>1, Stated DEF Lasts
    <3>3. /\ uses' \subseteq ((1 .. Len(blocks)) \X (1 .. Len(blocks)))
          /\ calls' \subseteq ((1 .. built) \X (0 .. built))
      BY <2>2, <3>1, Inside, EvaluateRecorded
    <3>4. named_values' \in [Names -> 0 .. Len(blocks)]
      BY <3>1, Inside DEF CInv, Recorded
    <3>5. QED
      BY <3>1, <3>2, <3>3, <3>4, FaultNames DEF CInv, Recorded
  <2>3. QED
    BY <2>1, <2>2
<1>2. ASSUME NEW n \in Names, NEW e \in Exprs, BuildAssign(n, e)
      PROVE  CInv'
  <2>1. CASE named_values[n] = 0 \/ ~Emits(e)
    BY <1>2, <2>1, ThrowInv DEF BuildAssign
  <2>2. CASE named_values[n] # 0 /\ Emits(e)
    <3> DEFINE stores == {<<named_values[n], cur>>}
    <3>1. /\ frames # << >> /\ blocks' = Insert(blocks, cur, FALSE, {})
          /\ frames' = Marked("other") /\ Evaluate(e, cur, stores)
          /\ UNCHANGED <<cur, named_values, loop_stack, symbols, built, status>>
          /\ faults' = faults \cup AfterJump \cup CallFaults(e)
      BY <1>2, <2>2 DEF BuildAssign, InBlock, Instruction
    <3>2. Built' /\ Len(blocks') = Len(blocks)
      BY <3>1, Stated DEF Lasts
    <3>3. stores \subseteq ((1 .. Len(blocks)) \X (1 .. Len(blocks)))
      BY <2>2, <3>1, Inside DEF CInv, Recorded
    <3>4. QED
      BY <2>2, <3>1, <3>2, <3>3, Inside, EvaluateRecorded, FaultNames DEF CInv, Recorded
  <2>3. QED
    BY <2>1, <2>2
<1>3. ASSUME NEW e \in Exprs, BuildShow(e)
      PROVE  CInv'
  <2>1. CASE ~Emits(e)
    BY <1>3, <2>1, ThrowInv DEF BuildShow
  <2>2. CASE Emits(e)
    <3>1. /\ frames # << >> /\ blocks' = Insert(blocks, cur, FALSE, {})
          /\ frames' = Marked("other") /\ Evaluate(e, cur, {})
          /\ UNCHANGED <<cur, named_values, loop_stack, symbols, built, status>>
          /\ faults' = faults \cup AfterJump \cup CallFaults(e)
      BY <1>3, <2>2 DEF BuildShow, InBlock, Instruction
    <3>2. Built' /\ Len(blocks') = Len(blocks)
      BY <3>1, Stated DEF Lasts
    <3>3. QED
      BY <2>2, <3>1, <3>2, Inside, EvaluateRecorded, FaultNames DEF CInv, Recorded
  <2>3. QED
    BY <2>1, <2>2
<1>4. ASSUME NEW e \in Exprs, BuildReturn(e)
      PROVE  CInv'
  <2>1. CASE ~Emits(e)
    BY <1>4, <2>1, ThrowInv DEF BuildReturn
  <2>2. CASE Emits(e)
    <3>1. /\ frames # << >> /\ blocks' = Insert(blocks, cur, TRUE, {})
          /\ frames' = Marked("return") /\ Evaluate(e, cur, {})
          /\ UNCHANGED <<cur, named_values, loop_stack, symbols, built, status>>
          /\ faults' = faults \cup AfterJump \cup CallFaults(e)
      BY <1>4, <2>2 DEF BuildReturn, InBlock, CreateRet
    <3>2. Built' /\ Len(blocks') = Len(blocks)
      BY <3>1, Stated DEF Lasts, Jumps
    <3>3. QED
      BY <2>2, <3>1, <3>2, Inside, EvaluateRecorded, FaultNames DEF CInv, Recorded
  <2>3. QED
    BY <2>1, <2>2
<1>5. ASSUME NEW target \in 1 .. Len(blocks), frames # << >>, JumpTo(target)
      PROVE  CInv'
  <2>1. /\ blocks' = Insert(blocks, cur, TRUE, {target})
        /\ frames' = Marked("jump")
        /\ UNCHANGED <<cur, named_values, loop_stack, symbols, built, uses, calls, status>>
        /\ faults' = faults \cup AfterJump
    BY <1>5 DEF JumpTo, CreateBr
  <2>2. Built' /\ Len(blocks') = Len(blocks)
    BY <1>5, <2>1, Stated DEF Lasts, Jumps
  <2>3. QED
    BY <2>1, <2>2, FaultNames DEF CInv, Recorded
<1>6. ASSUME loop_stack # << >>
      PROVE  /\ loop_stack[Len(loop_stack)].body \in 1 .. Len(blocks)
             /\ loop_stack[Len(loop_stack)].end \in 1 .. Len(blocks)
  BY <1>6 DEF CInv, Built, Stacks, LoopsOK
<1>7. CASE BuildBreak
  BY <1>5, <1>6, <1>7, ThrowInv DEF BuildBreak, InBlock
<1>8. CASE BuildCycle
  BY <1>5, <1>6, <1>8, ThrowInv DEF BuildCycle, InBlock
<1>9. QED
  BY <1>1, <1>2, <1>3, <1>4, <1>7, <1>8 DEF BuildStatement

\* The branch at the end of a block, created or not.
LEMMA Branched ==
    ASSUME NEW bs, NEW f \in Nat, BlocksOK(bs, f), NEW b \in 1 .. Len(bs),
           NEW dest \in 1 .. Len(bs)
    PROVE  /\ BlocksOK(BrUnlessTerminated(bs, b, dest), f)
           /\ Len(BrUnlessTerminated(bs, b, dest)) = Len(bs)
BY Inserted DEF BrUnlessTerminated, CreateBr

\* EndBranch moves to a block of the module, whatever the frames become.
LEMMA EndBranchInv ==
    ASSUME CInv, frames # << >>, Top.kind # "fn", NEW next \in 1 .. Len(blocks),
           NEW fs, Stacks(fs, loop_stack, Len(blocks)), EndBranch(next, fs)
    PROVE  CInv'
<1>1. Top.end \in 1 .. Len(blocks) /\ cur \in 1 .. Len(blocks) /\ built \in Nat
  BY Inside DEF FrameIn
<1>2. BlocksOK(blocks', built) /\ Len(blocks') = Len(blocks)
  BY <1>1, Branched DEF EndBranch, CInv, Built
<1>3. Built'
  BY <1>1, <1>2 DEF EndBranch, CInv, Built
<1>4. QED
  BY <1>2, <1>3 DEF EndBranch, CInv, Recorded

\* The blocks of an if are created behind those of bs, and the branch on its
\* condition in block at.
LEMMA OpenIfInv ==
    ASSUME CInv, frames # << >>, NEW e \in Exprs, NEW kind \in ThenBlocks,
           NEW bs, BlocksOK(bs, built), Len(bs) = Len(blocks),
           NEW at \in 1 .. Len(blocks),
           NEW fs, Stacks(fs, loop_stack, Len(blocks)), fs # << >>,
           Emits(e), OpenIf(e, kind, bs, at, fs), faults' \subseteq Faults
    PROVE  CInv'
<1> DEFINE n    == Len(bs)
           els  == IF kind = "then" THEN 0 ELSE n + 2
           size == Size(kind)
           more == bs \o [i \in 1 .. size |-> NewBlock(bs[at].fn)]
<1>1. size \in {2, 3} /\ (kind # "then" => size = 3)
  BY DEF Size
<1>2. n \in Nat /\ built \in Nat /\ bs[at].fn \in 1 .. built
  BY Inside DEF BlocksOK
<1>3. BlocksOK(more, built) /\ Len(more) = n + size
  BY <1>1, <1>2, Extended
<1>4. /\ blocks' = Insert(more, at, TRUE, {n + 1, n + 2})
      /\ cur' = n + 1
      /\ frames' = Append(fs, Frame(kind, 0, els, n + size))
      /\ Evaluate(e, at, {})
      /\ UNCHANGED <<named_values, loop_stack, symbols, built, status>>
  BY DEF OpenIf
<1> HIDE DEF more, size
<1>5. BlocksOK(blocks', built) /\ Len(blocks') = n + size
  <2>1. at \in 1 .. Len(more) /\ {n + 1, n + 2} \in SUBSET (1 .. Len(more))
    BY <1>1, <1>2, <1>3
  <2>2. QED
    BY <1>2, <1>3, <1>4, <2>1, Inserted
<1>6. Stacks(frames', loop_stack, n + size)
  <2>1. Stacks(fs, loop_stack, n + size) /\ n + size \in Nat
    BY <1>1, <1>2, StacksMore
  <2>2. els \in Nat /\ n + size \in 1 .. n + size
    BY <1>1, <1>2
  <2>3. kind \in {"thenElse", "thenElseIf"} => els \in 1 .. n + size
    BY <1>1, <1>2
  <2>4. kind \in Kinds \ {"fn", "loop"}
    BY DEF Kinds, ThenBlocks
  <2>5. QED
    BY <1>4, <2>1, <2>2, <2>3, <2>4, PushedStacks
<1>7. Built'
  <2>1. n + 1 \in 0 .. n + size /\ n + 1 # 0
    BY <1>1, <1>2
  <2>2. cur' \in 0 .. Len(blocks') /\ cur' # 0
    BY <1>4, <1>5, <2>1, Zenon
  <2>3. Stacks(frames', loop_stack', Len(blocks')) /\ built' = built
    BY <1>4, <1>5, <1>6, Zenon
  <2>4. QED
    BY <1>2, <1>5, <2>2, <2>3 DEF Built
<1>8. /\ uses' \subseteq ((1 .. Len(blocks)) \X (1 .. Len(blocks)))
      /\ calls' \subseteq ((1 .. built) \X (0 .. built))
  BY <1>4, EvaluateRecorded
<1>9. 1 .. Len(blocks) \subseteq 1 .. Len(blocks') /\ 0 .. Len(blocks) \subseteq 0 .. Len(blocks')
  BY <1>1, <1>2, <1>5
<1>10. Recorded'
  BY <1>4, <1>8, <1>9 DEF CInv, Recorded
<1>11. QED
  BY <1>7, <1>10 DEF CInv

LEMMA BranchInv ==
    ASSUME CInv, BuildBranch
    PROVE  CInv'
<1>1. ASSUME NEW e \in Exprs, NEW kind \in ThenBlocks, BuildIf(e, kind)
      PROVE  CInv'
  <2>1. frames # << >> /\ OpenIf(e, kind, blocks, cur, Marked("other"))
    BY <1>1 DEF BuildIf, InBlock
  <2>2. CASE ~Emits(e)
    BY <2>1, <2>2, ThrowInv DEF OpenIf
  <2>3. CASE Emits(e)
    <3>1. faults' \subseteq Faults
      BY <1>1, <2>3, FaultNames DEF BuildIf, CInv, Recorded
    <3>2. "other" \in Lasts
      BY DEF Lasts
    <3>3. Stacks(Marked("other"), loop_stack, Len(blocks)) /\ Len(Marked("other")) # 0
      BY <2>1, <3>2, MarkedStacks, Inside
    <3>4. Marked("other") # << >>
      BY <3>3
    <3>5. BlocksOK(blocks, built) /\ cur \in 1 .. Len(blocks)
      BY <2>1, Inside DEF CInv, Built
    <3>6. QED
      BY <2>1, <2>3, <3>1, <3>3, <3>4, <3>5, OpenIfInv
  <2>4. QED
    BY <2>2, <2>3
<1>2. ASSUME NEW kind \in {"else", "elseif"}, frames # << >>, Top.kind \in ThenBlocks
      PROVE  LET fs == Append(Unwound, Frame(kind, 0, 0, Top.end))
             IN  Stacks(fs, loop_stack, Len(blocks)) /\ fs # << >>
  <2>1. Top.kind \notin {"loop", "fn"}
    BY <1>2 DEF ThenBlocks
  <2>2. /\ Stacks(Unwound, loop_stack, Len(blocks)) /\ Len(Unwound) = Len(frames) - 1
        /\ Len(frames) # 1
    BY <1>2, <2>1, UnwoundStacks, Inside DEF FrameIn
  <2>3. Unwound # << >> /\ Unwound \in Seq(FrameType)
    BY <1>2, <2>2, Inside DEF Stacks, FramesOK
  <2>4. kind \in Kinds \ {"fn", "loop"} /\ kind \notin {"thenElse", "thenElseIf"}
    BY DEF Kinds
  <2>5. Top.end \in 1 .. Len(blocks) /\ Len(blocks) \in Nat
    BY <1>2, <2>1, Inside DEF FrameIn
  <2>6. Stacks(Append(Unwound, Frame(kind, 0, 0, Top.end)), loop_stack, Len(blocks))
    BY <2>2, <2>3, <2>4, <2>5, PushedStacks
  <2>7. QED
    BY <2>3, <2>6
<1>3. ASSUME NEW e \in Exprs, NEW kind \in ThenBlocks, BuildElseIf(e, kind)
      PROVE  CInv'
  <2> DEFINE fs == Append(Unwound, Frame("elseif", 0, 0, Top.end))
             bs == BrUnlessTerminated(blocks, cur, Top.end)
  <2>1. frames # << >> /\ Top.kind = "thenElseIf" /\ OpenIf(e, kind, bs, Top.els, fs)
    BY <1>3 DEF BuildElseIf, At
  <2>2. CASE ~Emits(e)
    BY <2>1, <2>2, ThrowInv DEF OpenIf
  <2>3. CASE Emits(e)
    <3>1. faults' \subseteq Faults
      BY <1>3, <2>3, FaultNames DEF BuildElseIf, CInv, Recorded
    <3>2. Stacks(fs, loop_stack, Len(blocks)) /\ fs # << >>
      BY <1>2, <2>1 DEF ThenBlocks
    <3>3. /\ Top.end \in 1 .. Len(blocks) /\ Top.els \in 1 .. Len(blocks)
          /\ cur \in 1 .. Len(blocks) /\ built \in Nat
      BY <2>1, Inside DEF FrameIn
    <3>4. BlocksOK(bs, built) /\ Len(bs) = Len(blocks)
      BY <3>3, Branched DEF CInv, Built
    <3> HIDE DEF fs, bs
    <3>5. QED
      BY <2>1, <2>3, <3>1, <3>2, <3>3, <3>4, OpenIfInv
  <2>4. QED
    BY <2>2, <2>3
<1>4. CASE BuildElse
  <2> DEFINE fs == Append(Unwound, Frame("else", 0, 0, Top.end))
  <2>1. frames # << >> /\ Top.kind = "thenElse" /\ EndBranch(Top.els, fs)
    BY <1>4 DEF BuildElse, At
  <2>2. Stacks(fs, loop_stack, Len(blocks)) /\ Top.els \in 1 .. Len(blocks)
    BY <1>2, <2>1, Inside DEF ThenBlocks, FrameIn
  <2> HIDE DEF fs
  <2>3. QED
    BY <2>1, <2>2, EndBranchInv
<1>5. CASE EndIf
  <2>1. frames # << >> /\ Top.kind \in {"then", "else", "elseif"} /\ EndBranch(Top.end, Unwound)
    BY <1>5 DEF EndIf, At
  <2>2. Stacks(Unwound, loop_stack, Len(blocks)) /\ Top.end \in 1 .. Len(blocks)
    BY <2>1, UnwoundStacks, Inside DEF FrameIn
  <2>3. QED
    BY <2>1, <2>2, EndBranchInv
<1>6. QED
  BY <1>1, <1>3, <1>4, <1>5 DEF BuildBranch

LEMMA LoopInv ==
    ASSUME CInv, BuildLoop
    PROVE  CInv'
<1> DEFINE n    == Len(blocks)
           body == n + 1
           end  == n + 2
           more == blocks \o [i \in 1 .. 2 |-> NewBlock(blocks[cur].fn)]
           lp   == [body |-> body, end |-> end]
           fr   == Frame("loop", body, 0, end)
           fs   == Marked("other")
<1>1. /\ frames # << >>
      /\ loop_stack' = Append(loop_stack, lp)
      /\ blocks' = Insert(more, cur, TRUE, {body})
      /\ cur' = body
      /\ frames' = Append(fs, fr)
      /\ faults' = faults \cup AfterJump
      /\ UNCHANGED <<named_values, symbols, built, uses, calls, status>>
  BY DEF BuildLoop, InBlock, CreateBr
<1>2. n \in Nat /\ built \in Nat /\ cur \in 1 .. n /\ blocks[cur].fn \in 1 .. built
  BY <1>1, Inside
<1>3. BlocksOK(more, built) /\ Len(more) = n + 2
  <2>1. ASSUME NEW size \in Nat
        PROVE  LET cs == blocks \o [i \in 1 .. size |-> NewBlock(blocks[cur].fn)]
               IN  BlocksOK(cs, built) /\ Len(cs) = n + size
    BY <1>2, Extended DEF CInv, Built
  <2>2. QED
    BY <2>1
<1> HIDE DEF more
<1>4. BlocksOK(blocks', built) /\ Len(blocks') = n + 2
  <2>1. cur \in 1 .. Len(more) /\ {body} \in SUBSET (1 .. Len(more))
    BY <1>2, <1>3
  <2>2. QED
    BY <1>1, <1>2, <1>3, <2>1, Inserted
<1>5. Stacks(fs, loop_stack, n + 2) /\ Len(fs) \in Nat \ {0}
  <2>1. "other" \in Lasts
    BY DEF Lasts
  <2>2. Stacks(fs, loop_stack, n) /\ Len(fs) = Len(frames)
    BY <1>1, <2>1, MarkedStacks
  <2>3. QED
    BY <1>1, <1>2, <2>2, Inside, StacksMore
<1>6. Stacks(frames', loop_stack', n + 2)
  <2>1. /\ fr \in FrameType /\ fr.kind = "loop" /\ fr.body = body /\ fr.end = end
        /\ body \in 1 .. n + 2 /\ end \in 1 .. n + 2
    BY <1>2 DEF Frame, FrameType, Kinds, Lasts
  <2>2. FrameIn(fr, n + 2, Len(fs) + 1)
    BY <1>5, <2>1 DEF FrameIn
  <2> HIDE DEF fr, fs
  <2>3. Stacks(Append(fs, fr), Append(loop_stack, [body |-> fr.body, end |-> fr.end]), n + 2)
    BY <1>2, <1>5, <2>1, <2>2, StacksLoopPushed
  <2>4. QED
    BY <1>1, <2>1, <2>3
<1> HIDE DEF fr, fs, lp
<1>7. Built'
  <2> HIDE DEF n
  <2>0. n + 1 \in 0 .. n + 2 /\ n + 1 # 0
    BY <1>2
  <2>1. cur' \in 0 .. Len(blocks') /\ cur' # 0
    BY <1>1, <1>4, <2>0, Zenon
  <2>2. Stacks(frames', loop_stack', Len(blocks')) /\ built' = built
    BY <1>1, <1>4, <1>6, Zenon
  <2>3. QED
    BY <1>2, <1>4, <2>1, <2>2 DEF Built
<1>8. 1 .. n \subseteq 1 .. Len(blocks') /\ 0 .. n \subseteq 0 .. Len(blocks')
  BY <1>2, <1>4
<1>9. Recorded'
  BY <1>1, <1>8, FaultNames DEF CInv, Recorded
<1>10. QED
  BY <1>7, <1>9 DEF CInv

LEMMA EndLoopInv ==
    ASSUME CInv, EndLoop
    PROVE  CInv'
<1>1. /\ frames # << >> /\ Top.kind = "loop"
      /\ blocks' = Insert(blocks, cur, TRUE, {Top.body})
      /\ cur' = Top.end
      /\ loop_stack' = SubSeq(loop_stack, 1, Len(loop_stack) - 1)
      /\ frames' = Unwound
      /\ faults' \subseteq faults \cup {"loopEndsInJump"}
      /\ UNCHANGED <<named_values, symbols, built, uses, calls, status>>
  BY DEF EndLoop, At, CreateBr
<1>2. /\ Top.body \in 1 .. Len(blocks) /\ Top.end \in 1 .. Len(blocks)
      /\ cur \in 1 .. Len(blocks) /\ built \in Nat /\ Len(blocks) \in Nat
  BY <1>1, Inside DEF FrameIn
<1>3. BlocksOK(blocks', built) /\ Len(blocks') = Len(blocks)
  BY <1>1, <1>2, Inserted DEF CInv, Built
<1>4. Stacks(frames', loop_stack', Len(blocks))
  <2>1. Stacks(frames, loop_stack, Len(blocks)) /\ frames[Len(frames)].kind = "loop"
    BY <1>1 DEF CInv, Built, Top
  <2>2. QED
    BY <1>1, <1>2, <2>1, StacksLoopPopped DEF Unwound
<1>5. Built'
  <2>1. cur' \in 1 .. Len(blocks')
    BY <1>1, <1>2, <1>3, Zenon
  <2>2. Stacks(frames', loop_stack', Len(blocks')) /\ BlocksOK(blocks', built')
    BY <1>1, <1>3, <1>4, Zenon
  <2>3. cur' \in 0 .. Len(blocks') /\ cur' # 0
    BY <1>2, <1>3, <2>1
  <2>4. built' \in Nat
    BY <1>1, <1>2
  <2>5. QED
    BY <2>2, <2>3, <2>4 DEF Built
<1>6. Recorded'
  BY <1>1, <1>3 DEF CInv, Recorded, Faults
<1>7. QED
  BY <1>5, <1>6 DEF CInv

LEMMA FunctionInv ==
    ASSUME CInv, NEW f \in FnNames, BuildFunction(f)
    PROVE  CInv'
<1> DEFINE n  == Len(blocks)
           fr == Frame("fn", 0, 0, 0)
<1>1. /\ frames = << >>
      /\ built' = built + 1
      /\ named_values' = [m \in Names |-> 0]
      /\ symbols' = [g \in DOMAIN symbols \cup {f} |->
                        IF g \in DOMAIN symbols THEN symbols[g] ELSE built + 1]
      /\ blocks' = Append(blocks, NewBlock(built + 1))
      /\ cur' = n + 1
      /\ frames' = <<fr>>
      /\ UNCHANGED <<loop_stack, uses, calls, faults, status>>
  BY DEF BuildFunction
<1>2. n \in Nat /\ built \in Nat /\ BlocksOK(blocks, built)
  BY DEF CInv, Built, BlocksOK
<1>3. BlocksOK(blocks', built + 1) /\ Len(blocks') = n + 1
  BY <1>1, <1>2, FunctionBlock
<1>4. Stacks(<<fr>>, loop_stack, n + 1)
  <2>1. Stacks(frames, loop_stack, n + 1)
    BY <1>2, StacksMore DEF CInv, Built
  <2>2. fr \in FrameType /\ fr.kind = "fn"
    BY DEF Frame, FrameType, Kinds, Lasts
  <2>3. FrameIn(fr, n + 1, Len(frames) + 1)
    BY <1>1, <2>2 DEF FrameIn
  <2> HIDE DEF fr
  <2>4. Stacks(Append(frames, fr), loop_stack, n + 1)
    BY <1>2, <2>1, <2>2, <2>3, StacksPushed
  <2>5. Append(frames, fr) = <<fr>>
    BY <1>1
  <2>6. QED
    BY <2>4, <2>5
<1> HIDE DEF fr
<1>5. Built'
  <2>1. cur' \in 0 .. Len(blocks') /\ cur' # 0
    BY <1>1, <1>2, <1>3
  <2>2. Stacks(frames', loop_stack', Len(blocks'))
    BY <1>1, <1>3, <1>4, Zenon
  <2>3. QED
    BY <1>1, <1>2, <1>3, <2>1, <2>2 DEF Built
<1>6. Recorded'
  <2>1. /\ 1 .. n \subseteq 1 .. Len(blocks')
        /\ 1 .. built \subseteq 1 .. built' /\ 0 .. built \subseteq 0 .. built'
        /\ 0 \in 0 .. Len(blocks') /\ built + 1 \in 0 .. built'
    BY <1>1, <1>2, <1>3
  <2>2. /\ DOMAIN symbols' \subseteq FnNames \cup {Printf}
        /\ \A g \in DOMAIN symbols' : symbols'[g] \in 0 .. built'
    BY <1>1, <2>1 DEF CInv, Recorded
  <2>3. /\ calls' \subseteq ((1 .. built') \X (0 .. built'))
        /\ uses' \subseteq ((1 .. Len(blocks')) \X (1 .. Len(blocks')))
    BY <1>1, <2>1 DEF CInv, Recorded
  <2>4. named_values' \in [Names -> 0 .. Len(blocks')]
    BY <1>1, <2>1
  <2>5. QED
    BY <1>1, <2>2, <2>3, <2>4 DEF CInv, Recorded
<1>7. QED
  BY <1>5, <1>6 DEF CInv

\* A function's frame is the outermost: no loop is open when it ends.
LEMMA EndFunctionInv ==
    ASSUME CInv, EndFunction
    PROVE  CInv'
<1>1. /\ frames # << >> /\ Top.kind = "fn" /\ frames' = << >>
      /\ faults' \subseteq faults \cup {"noReturn"}
      /\ UNCHANGED <<blocks, cur, named_values, loop_stack, symbols, built, uses, calls,
                     status>>
  BY DEF EndFunction, At
<1>2. Len(frames) = 1
  BY <1>1, Inside DEF FrameIn
<1>3. Stacks(Unwound, loop_stack, Len(blocks)) /\ Len(Unwound) = 0
  BY <1>1, <1>2, UnwoundStacks
<1>4. Unwound = << >>
  BY <1>3 DEF Stacks, FramesOK
<1>5. Built'
  BY <1>1, <1>3, <1>4 DEF CInv, Built
<1>6. Recorded'
  BY <1>1 DEF CInv, Recorded, Faults
<1>7. QED
  BY <1>5, <1>6 DEF CInv

LEMMA NextInv == CInv /\ [CNext]_cvars => CInv'
<1> SUFFICES ASSUME CInv, [CNext]_cvars PROVE CInv'
  OBVIOUS
<1>1. CASE EndProgram \/ Verify
  BY <1>1 DEF EndProgram, Verify, CInv, Built, Recorded
<1>2. CASE Stopped \/ UNCHANGED cvars
  BY <1>2 DEF Stopped, cvars, CInv, Built, Recorded
<1>3. QED
  BY <1>1, <1>2, FunctionInv, EndFunctionInv, SimpleInv, BranchInv, LoopInv,
     EndLoopInv DEF CNext

LEMMA Invariant == CSpec => []CInv
BY InitInv, NextInv, PTL DEF CSpec

-----------------------------------------------------------------------------
(***************************************************************************)
(* The verdict.  A block is open while the builder is in it or some frame  *)
(* will still go on in it; every other block is closed for good.  What the *)
(* verifier finds in the closed blocks is what `faults' says of the        *)
(* source.                                                                 *)
(***************************************************************************)
Branching == {"thenElse", "thenElseIf"}

\* The blocks the builder goes on in after the frame's branch, and after it.
Own(fr) == (IF fr.kind = "fn" THEN {} ELSE {fr.end})
               \cup (IF fr.kind \in Branching THEN {fr.els} ELSE {})

Pending(fs) == UNION {Own(fs[i]) : i \in 1 .. Len(fs)}

OpenSet(fs, c) == Pending(fs) \cup (IF fs = << >> THEN {} ELSE {c})

\* No block is waited for twice.
Distinct(fs) ==
    /\ \A i \in 1 .. Len(fs) : fs[i].kind \in Branching => fs[i].els # fs[i].end
    /\ \A i, j \in 1 .. Len(fs) : i # j => Own(fs[i]) \cap Own(fs[j]) = {}

Awaited(bs, fs) == Distinct(fs) /\ \A b \in Pending(fs) : ~bs[b].term

\* The block the builder is in has a terminator just when the last statement
\* of the innermost frame is a jump; further out it never is.
Current(bs, c, fs) ==
    /\ fs # << >> => c \notin Pending(fs) /\ (bs[c].term <=> fs[Len(fs)].last \in Jumps)
    /\ \A i \in 1 .. Len(fs) - 1 : fs[i].last \notin Jumps
    /\ Len(fs) = 1 => fs[1].last # "jump"

Tears == {"statementAfterJump", "loopEndsInJump"}

Torn(bs) == \E b \in 1 .. Len(bs) : bs[b].torn

Ledger(bs, open, flt) ==
    /\ \A b \in (1 .. Len(bs)) \ open : bs[b].term \/ "noReturn" \in flt
    /\ "noReturn" \in flt => \E b \in (1 .. Len(bs)) \ open : ~bs[b].term
    /\ Torn(bs) <=> Tears \cap flt # {}

Books(bs, c, fs, flt) ==
    Awaited(bs, fs) /\ Current(bs, c, fs) /\ Ledger(bs, OpenSet(fs, c), flt)

\* The external printf is the one function that cannot be called like this.
CallsInv ==
    /\ Printf \in DOMAIN symbols
    /\ \A f \in DOMAIN symbols : symbols[f] = 0 <=> f = Printf
    /\ (\E c \in calls : c[2] = 0) <=> "callOfPrintf" \in faults

VInv ==
    /\ CInv
    /\ Books(blocks, cur, frames, faults)
    /\ CallsInv
    /\ status \in {"built", "verified", "invalid"} => frames = << >>
    /\ VerdictExact

(***************************************************************************)
(* What inserting and creating blocks does to terminators.                 *)
(***************************************************************************)
LEMMA InsertedTerm ==
    ASSUME NEW bs, NEW f \in Nat, BlocksOK(bs, f), NEW b \in 1 .. Len(bs),
           NEW isTerm \in BOOLEAN, NEW targets
    PROVE  LET cs == Insert(bs, b, isTerm, targets)
           IN  /\ Len(cs) = Len(bs)
               /\ cs[b].term = isTerm
               /\ \A c \in 1 .. Len(bs) : c # b => cs[c].term = bs[c].term
               /\ Torn(cs) <=> Torn(bs) \/ bs[b].term
<1> DEFINE old == bs[b]
           new == [fn |-> old.fn, term |-> isTerm, torn |-> old.torn \/ old.term,
                   succ |-> old.succ \cup targets]
           cs  == [bs EXCEPT ![b] = new]
<1>1. bs \in Seq(BlockType) /\ Len(bs) \in Nat
  BY DEF BlocksOK
<1>2. new.term = isTerm /\ (new.torn <=> old.torn \/ old.term)
  OBVIOUS
<1> HIDE DEF new
<1>3. Len(cs) = Len(bs) /\ \A c \in 1 .. Len(bs) : cs[c] = IF c = b THEN new ELSE bs[c]
  BY <1>1
<1> HIDE DEF cs
<1>4. cs[b].term = isTerm /\ \A c \in 1 .. Len(bs) : c # b => cs[c].term = bs[c].term
  BY <1>2, <1>3
<1>5. Torn(cs) <=> Torn(bs) \/ bs[b].term
  <2>1. ASSUME NEW c \in 1 .. Len(bs), cs[c].torn PROVE Torn(bs) \/ bs[b].term
    BY <1>2, <1>3, <2>1 DEF Torn
  <2>2. ASSUME NEW c \in 1 .. Len(bs), bs[c].torn PROVE Torn(cs)
    BY <1>2, <1>3, <2>2 DEF Torn
  <2>3. ASSUME bs[b].term PROVE Torn(cs)
    BY <1>2, <1>3, <2>3 DEF Torn
  <2>4. QED
    BY <1>3, <2>1, <2>2, <2>3 DEF Torn
<1>6. Insert(bs, b, isTerm, targets) = cs
  BY DEF Insert, new, cs
<1>7. QED
  BY <1>3, <1>4, <1>5, <1>6

LEMMA ExtendedTerm ==
    ASSUME NEW bs, NEW f \in Nat, BlocksOK(bs, f), NEW g \in 1 .. f, NEW size \in Nat
    PROVE  LET cs == bs \o [i \in 1 .. size |-> NewBlock(g)]
           IN  /\ \A b \in 1 .. Len(bs) : cs[b] = bs[b]
               /\ \A b \in Len(bs) + 1 .. Len(bs) + size : cs[b] = NewBlock(g)
               /\ Torn(cs) <=> Torn(bs)
<1> DEFINE more == [i \in 1 .. size |-> NewBlock(g)]
           cs   == bs \o more
<1>1. NewBlock(g) \in BlockType /\ ~NewBlock(g).torn
  BY DEF NewBlock, BlockType
<1>2. more \in Seq(BlockType) /\ Len(more) = size
  BY <1>1
<1>3. /\ Len(cs) = Len(bs) + size
      /\ \A c \in 1 .. Len(cs) : cs[c] = IF c <= Len(bs) THEN bs[c] ELSE more[c - Len(bs)]
  BY <1>2, ConcatProperties DEF BlocksOK
<1>4. Len(bs) \in Nat
  BY DEF BlocksOK
<1>5. \A c \in 1 .. Len(cs) : cs[c] = IF c <= Len(bs) THEN bs[c] ELSE NewBlock(g)
  BY <1>2, <1>3, <1>4
<1> HIDE DEF cs
<1>6. Torn(cs) <=> Torn(bs)
  BY <1>1, <1>3, <1>4, <1>5 DEF Torn
<1>7. QED
  BY <1>3, <1>4, <1>5, <1>6 DEF cs

LEMMA BranchedTerm ==
    ASSUME NEW bs, NEW f \in Nat, BlocksOK(bs, f), NEW b \in 1 .. Len(bs), NEW dest
    PROVE  LET cs == BrUnlessTerminated(bs, b, dest)
           IN  /\ Len(cs) = Len(bs)
               /\ cs[b].term
               /\ \A c \in 1 .. Len(bs) : c # b => cs[c].term = bs[c].term
               /\ Torn(cs) <=> Torn(bs)
<1>1. CASE bs[b].term
  BY <1>1 DEF BrUnlessTerminated
<1>2. CASE ~bs[b].term
  <2> DEFINE cs == Insert(bs, b, TRUE, {dest})
  <2>1. /\ Len(cs) = Len(bs)
        /\ cs[b].term = TRUE
        /\ \A c \in 1 .. Len(bs) : c # b => cs[c].term = bs[c].term
        /\ Torn(cs) <=> Torn(bs) \/ bs[b].term
    BY InsertedTerm
  <2>2. BrUnlessTerminated(bs, b, dest) = cs
    BY <1>2 DEF BrUnlessTerminated, CreateBr
  <2>3. QED
    BY <1>2, <2>1, <2>2
<1>3. QED
  BY <1>1, <1>2

(***************************************************************************)
(* The blocks that are waited for, as frames come and go.                  *)
(***************************************************************************)
LEMMA PendingIn ==
    ASSUME NEW fs, NEW n \in Nat, FramesOK(fs, n)
    PROVE  Pending(fs) \subseteq 1 .. n
BY DEF Pending, Own, FramesOK, FrameIn, Branching

LEMMA PendingMarked ==
    ASSUME NEW fs \in Seq(FrameType), fs # << >>, NEW last \in Lasts
    PROVE  LET gs == [fs EXCEPT ![Len(fs)].last = last]
           IN  /\ Pending(gs) = Pending(fs) /\ gs # << >> /\ Len(gs) = Len(fs)
               /\ Distinct(fs) => Distinct(gs)
               /\ gs[Len(fs)].last = last
               /\ \A i \in 1 .. Len(fs) - 1 : gs[i] = fs[i]
<1> DEFINE m   == Len(fs)
           fr  == [fs[m] EXCEPT !.last = last]
           gs  == [fs EXCEPT ![m] = fr]
<1>1. m \in Nat \ {0}
  OBVIOUS
<1>2. /\ fr \in FrameType /\ fr.kind = fs[m].kind /\ fr.els = fs[m].els
      /\ fr.end = fs[m].end /\ fr.last = last
  <2>1. fs[m] \in FrameType
    BY <1>1
  <2>2. QED
    BY <2>1 DEF FrameType
<1> HIDE DEF fr
<1>3. /\ gs \in Seq(FrameType) /\ Len(gs) = m
      /\ \A i \in 1 .. m : gs[i] = IF i = m THEN fr ELSE fs[i]
  BY <1>1, <1>2
<1> HIDE DEF gs
<1>4. \A i \in 1 .. m : /\ Own(gs[i]) = Own(fs[i]) /\ gs[i].kind = fs[i].kind
                        /\ gs[i].els = fs[i].els /\ gs[i].end = fs[i].end
  BY <1>2, <1>3 DEF Own
<1>5. Pending(gs) = Pending(fs) /\ (Distinct(fs) => Distinct(gs))
  BY <1>3, <1>4 DEF Pending, Distinct
<1>6. gs # << >> /\ gs[m].last = last /\ \A i \in 1 .. m - 1 : gs[i] = fs[i]
  BY <1>1, <1>2, <1>3
<1>7. [fs EXCEPT ![Len(fs)].last = last] = gs
  BY DEF gs, fr
<1>8. QED
  BY <1>3, <1>5, <1>6, <1>7

LEMMA PendingPushed ==
    ASSUME NEW fs \in Seq(FrameType), NEW fr \in FrameType, Distinct(fs),
           fr.kind \in Branching => fr.els # fr.end, Own(fr) \cap Pending(fs) = {}
    PROVE  LET gs == Append(fs, fr)
           IN  /\ Pending(gs) = Pending(fs) \cup Own(fr)
               /\ Distinct(gs) /\ gs # << >>
<1> DEFINE gs == Append(fs, fr)
<1>1. /\ gs \in Seq(FrameType) /\ Len(gs) = Len(fs) + 1 /\ Len(fs) \in Nat
      /\ \A i \in 1 .. Len(fs) : gs[i] = fs[i]
      /\ gs[Len(fs) + 1] = fr
  OBVIOUS
<1> HIDE DEF gs
<1>2. Pending(gs) = Pending(fs) \cup Own(fr)
  BY <1>1 DEF Pending
<1>3. Distinct(gs)
  <2>1. ASSUME NEW i \in 1 .. Len(gs)
        PROVE  gs[i].kind \in Branching => gs[i].els # gs[i].end
    BY <1>1 DEF Distinct
  <2>2. \A i \in 1 .. Len(fs) : Own(fs[i]) \cap Own(fr) = {}
    BY DEF Pending
  <2>3. ASSUME NEW i \in 1 .. Len(gs), NEW j \in 1 .. Len(gs), i # j
        PROVE  Own(gs[i]) \cap Own(gs[j]) = {}
    <3>1. CASE i = Len(fs) + 1
      BY <1>1, <2>2, <2>3, <3>1
    <3>2. CASE j = Len(fs) + 1
      BY <1>1, <2>2, <2>3, <3>2
    <3>3. CASE i \in 1 .. Len(fs) /\ j \in 1 .. Len(fs)
      BY <1>1, <2>3, <3>3 DEF Distinct
    <3>4. QED
      BY <1>1, <3>1, <3>2, <3>3
  <2>4. QED
    BY <2>1, <2>3 DEF Distinct
<1>4. gs # << >>
  BY <1>1
<1>5. QED
  BY <1>2, <1>3, <1>4 DEF gs

LEMMA PendingPopped ==
    ASSUME NEW fs \in Seq(FrameType), fs # << >>, Distinct(fs)
    PROVE  LET gs == SubSeq(fs, 1, Len(fs) - 1)
           IN  /\ Pending(fs) = Pending(gs) \cup Own(fs[Len(fs)])
               /\ Own(fs[Len(fs)]) \cap Pending(gs) = {}
               /\ Distinct(gs) /\ gs \in Seq(FrameType) /\ Len(gs) = Len(fs) - 1
               /\ \A i \in 1 .. Len(gs) : gs[i] = fs[i]
<1> DEFINE gs == SubSeq(fs, 1, Len(fs) - 1)
           m  == Len(fs) - 1
<1>1. Len(fs) = m + 1 /\ m \in Nat
  OBVIOUS
<1>2. gs \in Seq(FrameType) /\ Len(gs) = m /\ \A i \in 1 .. m : gs[i] = fs[i]
  BY <1>1
<1> HIDE DEF gs, m
<1>3. 1 .. Len(fs) = (1 .. m) \cup {m + 1}
  BY <1>1
<1>4. Pending(fs) = Pending(gs) \cup Own(fs[m + 1])
  BY <1>2, <1>3 DEF Pending
<1>5. Own(fs[m + 1]) \cap Pending(gs) = {}
  <2>1. \A i \in 1 .. m : Own(fs[m + 1]) \cap Own(fs[i]) = {}
    BY <1>1, <1>3 DEF Distinct
  <2>2. QED
    BY <1>2, <2>1 DEF Pending
<1>6. Distinct(gs)
  BY <1>1, <1>2, <1>3 DEF Distinct
<1>7. QED
  BY <1>1, <1>2, <1>4, <1>5, <1>6 DEF gs

(***************************************************************************)
(* How the ledger is kept.                                                 *)
(***************************************************************************)
LEMMA LedgerKept ==
    ASSUME NEW bs, NEW cs, NEW open, NEW open2, NEW flt, NEW flt2, NEW tears \in BOOLEAN,
           Ledger(bs, open, flt), Len(bs) \in Nat, Len(cs) \in Nat, Len(bs) <= Len(cs),
           \A b \in (1 .. Len(bs)) \ open : b \notin open2 /\ cs[b].term = bs[b].term,
           \A b \in (1 .. Len(cs)) \ open2 : b \in (1 .. Len(bs)) \ open \/ cs[b].term,
           "noReturn" \in flt2 <=> "noReturn" \in flt,
           Torn(cs) <=> Torn(bs) \/ tears,
           Tears \cap flt2 # {} <=> Tears \cap flt # {} \/ tears
    PROVE  Ledger(cs, open2, flt2)
<1>1. \A b \in (1 .. Len(cs)) \ open2 : cs[b].term \/ "noReturn" \in flt2
  BY DEF Ledger
<1>2. "noReturn" \in flt2 => \E b \in (1 .. Len(cs)) \ open2 : ~cs[b].term
  BY DEF Ledger
<1>3. Torn(cs) <=> Tears \cap flt2 # {}
  BY DEF Ledger
<1>4. QED
  BY <1>1, <1>2, <1>3 DEF Ledger

\* An instruction is inserted in the current block and its statement noted.
LEMMA StatementBooks ==
    ASSUME VInv, frames # << >>, NEW isTerm \in BOOLEAN, NEW targets,
           NEW last \in Lasts, isTerm <=> last \in Jumps,
           last = "jump" => Len(frames) # 1,
           NEW extra \in SUBSET {"callOfPrintf"},
           blocks' = Insert(blocks, cur, isTerm, targets), frames' = Marked(last),
           cur' = cur, faults' = faults \cup AfterJump \cup extra
    PROVE  Books(blocks, cur, frames, faults)'
<1>1. /\ Awaited(blocks, frames) /\ Current(blocks, cur, frames)
      /\ Ledger(blocks, Pending(frames) \cup {cur}, faults)
  BY DEF VInv, Books, OpenSet
<1>2. /\ cur \in 1 .. Len(blocks) /\ Len(blocks) \in Nat /\ Len(frames) \in Nat \ {0}
      /\ built \in Nat /\ BlocksOK(blocks, built) /\ frames \in Seq(FrameType)
  BY Inside DEF VInv, CInv, Built, Stacks, FramesOK
<1>3. /\ Pending(frames') = Pending(frames) /\ frames' # << >> /\ Len(frames') = Len(frames)
      /\ Distinct(frames') /\ frames'[Len(frames)].last = last
      /\ \A i \in 1 .. Len(frames) - 1 : frames'[i] = frames[i]
  <2>1. LET gs == [frames EXCEPT ![Len(frames)].last = last]
        IN  /\ Pending(gs) = Pending(frames) /\ gs # << >> /\ Len(gs) = Len(frames)
            /\ Distinct(frames) => Distinct(gs)
            /\ gs[Len(frames)].last = last
            /\ \A i \in 1 .. Len(frames) - 1 : gs[i] = frames[i]
    BY <1>2, PendingMarked
  <2>2. frames' = [frames EXCEPT ![Len(frames)].last = last]
    BY Zenon DEF Marked
  <2>3. Distinct(frames)
    BY <1>1 DEF Awaited
  <2>4. QED
    BY <2>1, <2>2, <2>3, Zenon
<1>4. /\ Len(blocks') = Len(blocks)
      /\ blocks'[cur].term = isTerm
      /\ \A c \in 1 .. Len(blocks) : c # cur => blocks'[c].term = blocks[c].term
      /\ Torn(blocks') <=> Torn(blocks) \/ blocks[cur].term
  BY <1>2, InsertedTerm
<1>5. Pending(frames) \subseteq 1 .. Len(blocks) /\ cur \notin Pending(frames)
  BY <1>1, <1>2, PendingIn DEF VInv, CInv, Built, Stacks, Current
<1>6. Awaited(blocks', frames')
  BY <1>1, <1>3, <1>4, <1>5 DEF Awaited
<1>7. Current(blocks', cur, frames')
  BY <1>1, <1>2, <1>3, <1>4, <1>5 DEF Current
<1>8. Ledger(blocks', Pending(frames) \cup {cur}, faults')
  <2> DEFINE tears == blocks[cur].term
  <2>0. blocks[cur] \in BlockType
    BY <1>2 DEF BlocksOK
  <2>1. tears \in BOOLEAN /\ (tears <=> Top.last \in Jumps)
    BY <1>1, <2>0 DEF BlockType, Current, Top
  <2>2. /\ Tears \cap faults' # {} <=> Tears \cap faults # {} \/ tears
        /\ "noReturn" \in faults' <=> "noReturn" \in faults
    BY <2>1 DEF Tears, AfterJump
  <2>3. Torn(blocks') <=> Torn(blocks) \/ tears
    BY <1>4
  <2> HIDE DEF tears
  <2>4. \A b \in (1 .. Len(blocks)) \ (Pending(frames) \cup {cur}) :
            /\ b \notin Pending(frames) \cup {cur}
            /\ blocks'[b].term = blocks[b].term
    BY <1>4
  <2>5. Len(blocks) <= Len(blocks') /\ Len(blocks') = Len(blocks)
    BY <1>2, <1>4
  <2>6. \A b \in (1 .. Len(blocks')) \ (Pending(frames) \cup {cur}) :
            b \in (1 .. Len(blocks)) \ (Pending(frames) \cup {cur}) \/ blocks'[b].term
    BY <2>5
  <2>7. QED
    BY <1>1, <1>2, <2>1, <2>2, <2>3, <2>4, <2>5, <2>6, LedgerKept
<1>9. QED
  BY <1>3, <1>6, <1>7, <1>8 DEF Books, OpenSet

\* The builder goes on in a block that was waited for; the one it leaves ends.
LEMMA WentOn ==
    ASSUME NEW bs, NEW cs, NEW fs, NEW gs, NEW c, NEW next, NEW flt, NEW flt2,
           NEW tears \in BOOLEAN, Books(bs, c, fs, flt), fs # << >>,
           Len(bs) \in Nat, FramesOK(fs, Len(bs)), c \in 1 .. Len(bs), Len(cs) = Len(bs),
           cs[c].term, \A b \in 1 .. Len(bs) : b # c => cs[b].term = bs[b].term,
           Torn(cs) <=> Torn(bs) \/ tears,
           Tears \cap flt2 # {} <=> Tears \cap flt # {} \/ tears,
           "noReturn" \in flt2 <=> "noReturn" \in flt,
           gs \in Seq(FrameType), gs # << >>, Distinct(gs), next \notin Pending(gs),
           Pending(fs) = Pending(gs) \cup {next},
           \A i \in 1 .. Len(gs) : gs[i].last \notin Jumps
    PROVE  Books(cs, next, gs, flt2)
<1>1. /\ Awaited(bs, fs) /\ c \notin Pending(fs)
      /\ Ledger(bs, Pending(fs) \cup {c}, flt)
  BY DEF Books, OpenSet, Current
<1>2. Pending(fs) \subseteq 1 .. Len(bs)
  BY PendingIn
<1>3. \A b \in Pending(fs) : ~cs[b].term
  BY <1>1, <1>2 DEF Awaited
<1>4. Awaited(cs, gs)
  BY <1>3 DEF Awaited
<1>5. Current(cs, next, gs)
  BY <1>3 DEF Current, Jumps
<1>6. Ledger(cs, Pending(fs), flt2)
  <2>1. \A b \in (1 .. Len(bs)) \ (Pending(fs) \cup {c}) :
            b \notin Pending(fs) /\ cs[b].term = bs[b].term
    OBVIOUS
  <2>2. \A b \in (1 .. Len(cs)) \ Pending(fs) :
            b \in (1 .. Len(bs)) \ (Pending(fs) \cup {c}) \/ cs[b].term
    OBVIOUS
  <2>3. Len(bs) <= Len(cs) /\ Len(cs) \in Nat
    OBVIOUS
  <2>4. QED
    BY <1>1, <2>1, <2>2, <2>3, LedgerKept
<1>7. QED
  BY <1>4, <1>5, <1>6 DEF Books, OpenSet

\* What is left of the frames when the innermost statement ends.
LEMMA UnwoundFrames ==
    ASSUME VInv, frames # << >>, Top.kind \in {"then", "else", "elseif", "loop"}
    PROVE  /\ Unwound \in Seq(FrameType) /\ Unwound # << >> /\ Distinct(Unwound)
           /\ Top.end \notin Pending(Unwound)
           /\ Pending(frames) = Pending(Unwound) \cup {Top.end}
           /\ \A i \in 1 .. Len(Unwound) : Unwound[i].last \notin Jumps
<1>1. /\ frames \in Seq(FrameType) /\ Len(frames) \in Nat \ {0, 1}
      /\ Distinct(frames) /\ Current(blocks, cur, frames)
  BY Inside DEF VInv, CInv, Built, Stacks, FramesOK, FrameIn, Books, Awaited
<1>2. LET gs == SubSeq(frames, 1, Len(frames) - 1)
      IN  /\ Pending(frames) = Pending(gs) \cup Own(frames[Len(frames)])
          /\ Own(frames[Len(frames)]) \cap Pending(gs) = {}
          /\ Distinct(gs) /\ gs \in Seq(FrameType) /\ Len(gs) = Len(frames) - 1
          /\ \A i \in 1 .. Len(gs) : gs[i] = frames[i]
  BY <1>1, PendingPopped
<1>3. /\ Pending(frames) = Pending(Unwound) \cup Own(Top)
      /\ Own(Top) \cap Pending(Unwound) = {}
      /\ Distinct(Unwound) /\ Unwound \in Seq(FrameType) /\ Len(Unwound) = Len(frames) - 1
      /\ \A i \in 1 .. Len(Unwound) : Unwound[i] = frames[i]
  BY <1>2, Zenon DEF Unwound, Top
<1>4. Own(Top) = {Top.end}
  BY DEF Own, Branching
<1>5. Unwound # << >>
  BY <1>1, <1>3
<1>6. QED
  BY <1>1, <1>3, <1>4, <1>5 DEF Current

\* What becomes of the frames when a then-branch ends and there is an else.
LEMMA ElseFrames ==
    ASSUME VInv, frames # << >>, Top.kind \in Branching, NEW kind \in {"else", "elseif"}
    PROVE  LET gs == Append(Unwound, Frame(kind, 0, 0, Top.end))
           IN  /\ gs \in Seq(FrameType) /\ gs # << >> /\ Distinct(gs)
               /\ Top.els \notin Pending(gs)
               /\ Pending(frames) = Pending(gs) \cup {Top.els}
               /\ \A i \in 1 .. Len(gs) : gs[i].last \notin Jumps
<1> DEFINE fr == Frame(kind, 0, 0, Top.end)
           gs == Append(Unwound, fr)
<1>1. /\ frames \in Seq(FrameType) /\ Len(frames) \in Nat \ {0, 1}
      /\ Distinct(frames) /\ Current(blocks, cur, frames) /\ Top \in FrameType
  BY Inside DEF VInv, CInv, Built, Stacks, FramesOK, FrameIn, Books, Awaited, Branching
<1>2. LET us == SubSeq(frames, 1, Len(frames) - 1)
      IN  /\ Pending(frames) = Pending(us) \cup Own(frames[Len(frames)])
          /\ Own(frames[Len(frames)]) \cap Pending(us) = {}
          /\ Distinct(us) /\ us \in Seq(FrameType) /\ Len(us) = Len(frames) - 1
          /\ \A i \in 1 .. Len(us) : us[i] = frames[i]
  BY <1>1, PendingPopped
<1>3. /\ Pending(frames) = Pending(Unwound) \cup Own(Top)
      /\ Own(Top) \cap Pending(Unwound) = {}
      /\ Distinct(Unwound) /\ Unwound \in Seq(FrameType) /\ Len(Unwound) = Len(frames) - 1
      /\ \A i \in 1 .. Len(Unwound) : Unwound[i] = frames[i]
  BY <1>2, Zenon DEF Unwound, Top
<1>4. Own(Top) = {Top.end, Top.els} /\ Top.els # Top.end
  BY <1>1 DEF Own, Branching, Distinct, Top
<1>5. fr \in FrameType /\ Own(fr) = {Top.end} /\ fr.kind \notin Branching /\ fr.last = "none"
  BY <1>1 DEF Frame, FrameType, Kinds, Lasts, Own, Branching
<1> HIDE DEF fr
<1>6. Pending(gs) = Pending(Unwound) \cup Own(fr) /\ Distinct(gs) /\ gs # << >>
  BY <1>3, <1>4, <1>5, PendingPushed
<1>7. gs \in Seq(FrameType) /\ \A i \in 1 .. Len(gs) : gs[i].last \notin Jumps
  <2>1. /\ gs \in Seq(FrameType) /\ Len(gs) = Len(Unwound) + 1 /\ gs[Len(Unwound) + 1] = fr
        /\ \A i \in 1 .. Len(Unwound) : gs[i] = Unwound[i]
    BY <1>3, <1>5
  <2> HIDE DEF gs
  <2>2. QED
    BY <1>1, <1>3, <1>5, <2>1 DEF Current, Jumps
<1>8. QED
  BY <1>3, <1>4, <1>5, <1>6, <1>7 DEF fr

\* The builder is in block at, and a statement that has a frame begins there.
Ready(bs, at, fs, flt) ==
    /\ FramesOK(fs, Len(bs)) /\ fs # << >>
    /\ Awaited(bs, fs) /\ at \notin Pending(fs)
    /\ \A i \in 1 .. Len(fs) : fs[i].last \notin Jumps
    /\ Ledger(bs, Pending(fs) \cup {at}, flt)

\* The faults noted since: a tear, if tears.
Noted(flt, flt2, tears) ==
    /\ "noReturn" \in flt2 <=> "noReturn" \in flt
    /\ Tears \cap flt2 # {} <=> Tears \cap flt # {} \/ tears

\* The blocks with those created behind them.
More(bs, g, size) == bs \o [i \in 1 .. size |-> NewBlock(g)]

Grown(bs, more, f, g, size) ==
    /\ BlocksOK(more, f) /\ Len(more) = Len(bs) + size
    /\ Torn(more) <=> Torn(bs)
    /\ \A b \in 1 .. Len(bs) : more[b] = bs[b]
    /\ \A b \in (Len(bs) + 1) .. (Len(bs) + size) : more[b] = NewBlock(g)

\* The frame will go on in all new blocks but the first.
Waits(fr, n, size) ==
    /\ fr \in FrameType /\ fr.last = "none"
    /\ Own(fr) = (n + 2) .. (n + size)
    /\ fr.kind \in Branching => fr.els # fr.end

LEMMA MoreGrown ==
    ASSUME NEW bs, NEW f \in Nat, BlocksOK(bs, f), NEW g \in 1 .. f, NEW size \in Nat
    PROVE  Grown(bs, More(bs, g, size), f, g, size)
<1> DEFINE more == bs \o [i \in 1 .. size |-> NewBlock(g)]
<1>1. /\ BlocksOK(more, f) /\ Len(more) = Len(bs) + size
      /\ \A b \in 1 .. Len(bs) : more[b] = bs[b]
      /\ \A b \in (Len(bs) + 1) .. (Len(bs) + size) : more[b] = NewBlock(g)
      /\ Torn(more) <=> Torn(bs)
  BY Extended, ExtendedTerm
<1> HIDE DEF more
<1>2. More(bs, g, size) = more
  BY DEF More, more
<1>3. QED
  BY <1>1, <1>2 DEF Grown

\* Blocks are created for a statement that has a frame: the builder goes on in
\* the first of them, the others are waited for.
LEMMA PushedBooks ==
    ASSUME NEW bs, NEW f \in Nat, BlocksOK(bs, f), NEW n \in Nat, n = Len(bs),
           NEW at \in 1 .. n, NEW fs, NEW flt, Ready(bs, at, fs, flt),
           NEW flt2, Noted(flt, flt2, bs[at].term), NEW size \in Nat, size >= 2,
           NEW g, NEW more, Grown(bs, more, f, g, size), NEW fr, Waits(fr, n, size),
           NEW targets
    PROVE  Books(Insert(more, at, TRUE, targets), n + 1, Append(fs, fr), flt2)
<1>a. /\ FramesOK(fs, n) /\ fs # << >>
      /\ Awaited(bs, fs) /\ at \notin Pending(fs)
      /\ \A i \in 1 .. Len(fs) : fs[i].last \notin Jumps
      /\ Ledger(bs, Pending(fs) \cup {at}, flt)
  BY DEF Ready
<1>b. /\ "noReturn" \in flt2 <=> "noReturn" \in flt
      /\ Tears \cap flt2 # {} <=> Tears \cap flt # {} \/ bs[at].term
  BY DEF Noted
<1>c. /\ BlocksOK(more, f) /\ Len(more) = n + size
      /\ Torn(more) <=> Torn(bs)
      /\ \A b \in 1 .. n : more[b] = bs[b]
      /\ \A b \in (n + 1) .. (n + size) : more[b] = NewBlock(g)
  BY DEF Grown
<1>d. /\ fr \in FrameType /\ fr.last = "none"
      /\ Own(fr) = (n + 2) .. (n + size)
      /\ fr.kind \in Branching => fr.els # fr.end
  BY DEF Waits
<1> DEFINE cs == Insert(more, at, TRUE, targets)
           gs == Append(fs, fr)
<1>0. bs[at] \in BlockType
  BY DEF BlocksOK
<1>1. /\ fs \in Seq(FrameType) /\ Pending(fs) \subseteq 1 .. n
      /\ bs[at].term \in BOOLEAN
  BY <1>0, <1>a, PendingIn DEF FramesOK, BlockType
<1>2. /\ Len(cs) = n + size
      /\ cs[at].term
      /\ \A c \in 1 .. n + size : c # at => cs[c].term = more[c].term
      /\ Torn(cs) <=> Torn(more) \/ more[at].term
  <2>1. at \in 1 .. Len(more)
    BY <1>c
  <2>2. /\ Len(cs) = Len(more)
        /\ cs[at].term = TRUE
        /\ \A c \in 1 .. Len(more) : c # at => cs[c].term = more[c].term
        /\ Torn(cs) <=> Torn(more) \/ more[at].term
    BY <1>c, <2>1, InsertedTerm
  <2> HIDE DEF cs
  <2>3. QED
    BY <1>c, <2>2
<1> HIDE DEF cs
<1>3. /\ cs[at].term
      /\ \A b \in 1 .. n : b # at => cs[b].term = bs[b].term
      /\ \A b \in (n + 1) .. (n + size) : ~cs[b].term
      /\ Torn(cs) <=> Torn(bs) \/ bs[at].term
  <2>1. ASSUME NEW b \in 1 .. n, b # at PROVE cs[b].term = bs[b].term
    BY <1>2, <1>c, <2>1
  <2>2. ASSUME NEW b \in (n + 1) .. (n + size) PROVE ~cs[b].term
    <3>1. b \in 1 .. n + size /\ b # at
      OBVIOUS
    <3>2. more[b].term = FALSE
      BY <1>c DEF NewBlock
    <3>3. QED
      BY <1>2, <3>1, <3>2
  <2>3. QED
    BY <1>2, <1>c, <2>1, <2>2
<1>4. /\ Pending(gs) = Pending(fs) \cup ((n + 2) .. (n + size))
      /\ Distinct(gs) /\ gs # << >>
  <2>1. Own(fr) \cap Pending(fs) = {}
    BY <1>1, <1>d
  <2>2. QED
    BY <1>1, <1>a, <1>d, <2>1, PendingPushed DEF Awaited
<1>5. /\ Len(gs) = Len(fs) + 1 /\ gs[Len(fs) + 1] = fr
      /\ \A i \in 1 .. Len(fs) : gs[i] = fs[i]
      /\ Len(fs) \in Nat \ {0}
  BY <1>1, <1>a, <1>d
<1> HIDE DEF gs
<1>6. Awaited(cs, gs)
  <2>1. ASSUME NEW b \in Pending(fs) PROVE ~cs[b].term
    BY <1>1, <1>3, <1>a DEF Awaited
  <2>2. ASSUME NEW b \in (n + 2) .. (n + size) PROVE ~cs[b].term
    BY <1>3
  <2>3. QED
    BY <1>4, <2>1, <2>2 DEF Awaited
<1>7. Current(cs, n + 1, gs)
  <2>1. n + 1 \notin Pending(gs) /\ ~cs[n + 1].term
    BY <1>1, <1>3, <1>4
  <2>2. gs[Len(gs)].last \notin Jumps /\ \A i \in 1 .. Len(gs) - 1 : gs[i].last \notin Jumps
    BY <1>5, <1>a, <1>d DEF Jumps
  <2>3. Len(gs) # 1
    BY <1>5
  <2>4. QED
    BY <2>1, <2>2, <2>3 DEF Current
<1>8. Ledger(cs, Pending(gs) \cup {n + 1}, flt2)
  <2>1. \A b : b \in Pending(gs) \cup {n + 1} <=>
                  b \in Pending(fs) \/ b \in (n + 1) .. (n + size)
    <3>1. \A b : b \in (n + 1) .. (n + size) <=> b = n + 1 \/ b \in (n + 2) .. (n + size)
      OBVIOUS
    <3>2. QED
      BY <1>4, <3>1
  <2>2. ASSUME NEW b \in (1 .. n) \ (Pending(fs) \cup {at})
        PROVE  b \notin Pending(gs) \cup {n + 1} /\ cs[b].term = bs[b].term
    BY <1>3, <2>1
  <2>3. ASSUME NEW b \in (1 .. Len(cs)) \ (Pending(gs) \cup {n + 1})
        PROVE  b \in (1 .. n) \ (Pending(fs) \cup {at}) \/ cs[b].term
    <3>1. b \in 1 .. n /\ b \notin Pending(fs)
      BY <1>2, <2>1
    <3>2. QED
      BY <1>3, <3>1
  <2>4. n <= Len(cs) /\ Len(cs) \in Nat
    BY <1>1, <1>2
  <2>5. QED
    BY <1>1, <1>3, <1>a, <1>b, <2>2, <2>3, <2>4, LedgerKept
<1>9. QED
  BY <1>4, <1>6, <1>7, <1>8 DEF Books, OpenSet, cs, gs

LEMMA BooksSame ==
    ASSUME VInv, UNCHANGED <<blocks, cur, frames, faults>>
    PROVE  Books(blocks, cur, frames, faults)'
BY DEF VInv

\* Where a loop is open the function's frame is not the innermost.
LEMMA JumpInLoop ==
    ASSUME VInv, frames # << >>, loop_stack # << >>
    PROVE  Len(frames) # 1
<1> SUFFICES ASSUME Len(frames) = 1 PROVE FALSE
  OBVIOUS
<1>1. /\ frames \in Seq(FrameType) /\ loop_stack \in Seq(LoopType)
      /\ FrameIn(frames[1], Len(blocks), 1)
      /\ Len(loop_stack) = Cardinality(Loops(frames, 1))
  BY DEF VInv, CInv, Built, Stacks, FramesOK, LoopsOK, Matches
<1>2. frames[1].kind = "fn"
  BY <1>1 DEF FrameIn
<1>3. Loops(frames, 1) = {}
  BY <1>2 DEF Loops
<1>4. Len(loop_stack) = 0
  BY <1>1, <1>3, FS_EmptySet
<1>5. QED
  BY <1>1, <1>4

LEMMA SimpleBooks ==
    ASSUME VInv, BuildStatement
    PROVE  Books(blocks, cur, frames, faults)'
<1>0. \A e : CallFaults(e) \in SUBSET {"callOfPrintf"}
  BY DEF CallFaults
<1>1. ASSUME NEW n \in Names, NEW e \in Exprs, BuildDeclare(n, e)
      PROVE  Books(blocks, cur, frames, faults)'
  <2>1. CASE named_values[n] # 0 \/ ~Emits(e)
    BY <1>1, <2>1, BooksSame DEF BuildDeclare, Throw
  <2>2. CASE named_values[n] = 0 /\ Emits(e)
    <3>1. /\ frames # << >> /\ blocks' = Insert(blocks, cur, FALSE, {})
          /\ frames' = Marked("other") /\ cur' = cur
          /\ faults' = faults \cup AfterJump \cup CallFaults(e)
      BY <1>1, <2>2 DEF BuildDeclare, InBlock, Instruction
    <3>2. QED
      BY <1>0, <3>1, StatementBooks DEF Lasts, Jumps
  <2>3. QED
    BY <2>1, <2>2
<1>2. ASSUME NEW n \in Names, NEW e \in Exprs, BuildAssign(n, e)
      PROVE  Books(blocks, cur, frames, faults)'
  <2>1. CASE named_values[n] = 0 \/ ~Emits(e)
    BY <1>2, <2>1, BooksSame DEF BuildAssign, Throw
  <2>2. CASE named_values[n] # 0 /\ Emits(e)
    <3>1. /\ frames # << >> /\ blocks' = Insert(blocks, cur, FALSE, {})
          /\ frames' = Marked("other") /\ cur' = cur
          /\ faults' = faults \cup AfterJump \cup CallFaults(e)
      BY <1>2, <2>2 DEF BuildAssign, InBlock, Instruction
    <3>2. QED
      BY <1>0, <3>1, StatementBooks DEF Lasts, Jumps
  <2>3. QED
    BY <2>1, <2>2
<1>3. ASSUME NEW e \in Exprs, BuildShow(e)
      PROVE  Books(blocks, cur, frames, faults)'
  <2>1. CASE ~Emits(e)
    BY <1>3, <2>1, BooksSame DEF BuildShow, Throw
  <2>2. CASE Emits(e)
    <3>1. /\ frames # << >> /\ blocks' = Insert(blocks, cur, FALSE, {})
          /\ frames' = Marked("other") /\ cur' = cur
          /\ faults' = faults \cup AfterJump \cup CallFaults(e)
      BY <1>3, <2>2 DEF BuildShow, InBlock, Instruction
    <3>2. QED
      BY <1>0, <3>1, StatementBooks DEF Lasts, Jumps
  <2>3. QED
    BY <2>1, <2>2
<1>4. ASSUME NEW e \in Exprs, BuildReturn(e)
      PROVE  Books(blocks, cur, frames, faults)'
  <2>1. CASE ~Emits(e)
    BY <1>4, <2>1, BooksSame DEF BuildReturn, Throw
  <2>2. CASE Emits(e)
    <3>1. /\ frames # << >> /\ blocks' = Insert(blocks, cur, TRUE, {})
          /\ frames' = Marked("return") /\ cur' = cur
          /\ faults' = faults \cup AfterJump \cup CallFaults(e)
      BY <1>4, <2>2 DEF BuildReturn, InBlock, CreateRet
    <3>2. QED
      BY <1>0, <3>1, StatementBooks DEF Lasts, Jumps
  <2>3. QED
    BY <2>1, <2>2
<1>5. ASSUME NEW target, frames # << >>, loop_stack # << >>, JumpTo(target)
      PROVE  Books(blocks, cur, frames, faults)'
  <2>1. /\ blocks' = Insert(blocks, cur, TRUE, {target})
        /\ frames' = Marked("jump") /\ cur' = cur
        /\ faults' = faults \cup AfterJump
    BY <1>5 DEF JumpTo, CreateBr
  <2>2. Len(frames) # 1
    BY <1>5, JumpInLoop
  <2>3. ASSUME NEW none \in SUBSET {"callOfPrintf"}, none = {},
               NEW last \in Lasts, last = "jump",
               NEW isTerm \in BOOLEAN, isTerm = TRUE
        PROVE  Books(blocks, cur, frames, faults)'
    <3>1. /\ faults' = faults \cup AfterJump \cup none /\ frames' = Marked(last)
          /\ blocks' = Insert(blocks, cur, isTerm, {target}) /\ cur' = cur /\ frames # << >>
      BY <1>5, <2>1, <2>3
    <3>2. (isTerm <=> last \in Jumps) /\ (last = "jump" => Len(frames) # 1)
      BY <2>2, <2>3 DEF Jumps
    <3>3. QED
      BY <3>1, <3>2, StatementBooks
  <2>4. {} \in SUBSET {"callOfPrintf"} /\ "jump" \in Lasts /\ TRUE \in BOOLEAN
    BY DEF Lasts, Jumps
  <2>5. QED
    BY <2>3, <2>4, Zenon
<1>6. CASE BuildBreak
  BY <1>5, <1>6, BooksSame DEF BuildBreak, InBlock, Throw
<1>7. CASE BuildCycle
  BY <1>5, <1>7, BooksSame DEF BuildCycle, InBlock, Throw
<1>8. QED
  BY <1>1, <1>2, <1>3, <1>4, <1>6, <1>7 DEF BuildStatement

\* A branch ends: no instruction is inserted behind a terminator.
LEMMA BranchEnds ==
    ASSUME VInv, frames # << >>, Top.kind # "fn", NEW next, NEW fs,
           fs \in Seq(FrameType), fs # << >>, Distinct(fs), next \notin Pending(fs),
           Pending(frames) = Pending(fs) \cup {next},
           \A i \in 1 .. Len(fs) : fs[i].last \notin Jumps
    PROVE  Books(BrUnlessTerminated(blocks, cur, Top.end), next, fs, faults)
<1> DEFINE cs == BrUnlessTerminated(blocks, cur, Top.end)
<1>1. /\ cur \in 1 .. Len(blocks) /\ built \in Nat /\ Len(blocks) \in Nat
      /\ BlocksOK(blocks, built) /\ FramesOK(frames, Len(blocks))
      /\ Books(blocks, cur, frames, faults)
  BY Inside DEF VInv, CInv, Built, Stacks
<1>2. /\ Len(cs) = Len(blocks)
      /\ cs[cur].term
      /\ \A c \in 1 .. Len(blocks) : c # cur => cs[c].term = blocks[c].term
      /\ Torn(cs) <=> Torn(blocks)
  BY <1>1, BranchedTerm
<1> HIDE DEF cs
<1>3. ASSUME NEW tears \in BOOLEAN, ~tears
      PROVE  Books(cs, next, fs, faults)
  BY <1>1, <1>2, <1>3, WentOn
<1>4. QED
  BY <1>3 DEF cs

LEMMA EndLoopBooks ==
    ASSUME VInv, EndLoop
    PROVE  Books(blocks, cur, frames, faults)'
<1>1. /\ frames # << >> /\ Top.kind = "loop"
      /\ blocks' = Insert(blocks, cur, TRUE, {Top.body})
      /\ cur' = Top.end
      /\ frames' = Unwound
      /\ faults' = IF Top.last \in Jumps THEN faults \cup {"loopEndsInJump"} ELSE faults
  BY DEF EndLoop, At, CreateBr
<1>2. /\ cur \in 1 .. Len(blocks) /\ built \in Nat /\ Len(blocks) \in Nat
      /\ BlocksOK(blocks, built) /\ FramesOK(frames, Len(blocks))
      /\ Books(blocks, cur, frames, faults)
  BY <1>1, Inside DEF VInv, CInv, Built, Stacks
<1>3. /\ Len(blocks') = Len(blocks)
      /\ blocks'[cur].term
      /\ \A c \in 1 .. Len(blocks) : c # cur => blocks'[c].term = blocks[c].term
      /\ Torn(blocks') <=> Torn(blocks) \/ blocks[cur].term
  <2>1. ASSUME NEW isTerm \in BOOLEAN, NEW targets
        PROVE  LET cs == Insert(blocks, cur, isTerm, targets)
               IN  /\ Len(cs) = Len(blocks)
                   /\ cs[cur].term = isTerm
                   /\ \A c \in 1 .. Len(blocks) : c # cur => cs[c].term = blocks[c].term
                   /\ Torn(cs) <=> Torn(blocks) \/ blocks[cur].term
    BY <1>2, InsertedTerm
  <2>2. QED
    BY <1>1, <2>1, Zenon
<1> DEFINE tears == blocks[cur].term
<1>4. blocks[cur] \in BlockType
  BY <1>2 DEF BlocksOK
<1>5. tears \in BOOLEAN /\ (tears <=> Top.last \in Jumps)
  BY <1>1, <1>2, <1>4 DEF BlockType, Books, Current, Top
<1>6. /\ Tears \cap faults' # {} <=> Tears \cap faults # {} \/ tears
      /\ "noReturn" \in faults' <=> "noReturn" \in faults
  BY <1>1, <1>5 DEF Tears
<1>7. Torn(blocks') <=> Torn(blocks) \/ tears
  BY <1>3
<1> HIDE DEF tears
<1>8. /\ Unwound \in Seq(FrameType) /\ Unwound # << >> /\ Distinct(Unwound)
      /\ Top.end \notin Pending(Unwound)
      /\ Pending(frames) = Pending(Unwound) \cup {Top.end}
      /\ \A i \in 1 .. Len(Unwound) : Unwound[i].last \notin Jumps
  BY <1>1, UnwoundFrames
<1>9. Books(blocks', Top.end, Unwound, faults')
  <2> HIDE DEF Unwound
  <2>1. QED
    BY <1>1, <1>2, <1>3, <1>5, <1>6, <1>7, <1>8, WentOn
<1>10. QED
  BY <1>1, <1>9

\* The blocks of an if are created behind those of bs.
LEMMA OpenIfBooks ==
    ASSUME NEW e, NEW kind \in ThenBlocks, NEW bs, built \in Nat, BlocksOK(bs, built),
           NEW at \in 1 .. Len(bs), NEW fs, NEW flt, Ready(bs, at, fs, flt),
           Emits(e), OpenIf(e, kind, bs, at, fs), Noted(flt, faults', bs[at].term)
    PROVE  Books(blocks, cur, frames, faults)'
<1> DEFINE n    == Len(bs)
           els  == IF kind = "then" THEN 0 ELSE n + 2
           size == Size(kind)
           fr   == Frame(kind, 0, els, n + size)
           g    == bs[at].fn
           targets == {n + 1, n + 2}
           more == More(bs, g, size)
           cs   == Insert(more, at, TRUE, targets)
<1>1. blocks' = cs /\ cur' = n + 1 /\ frames' = Append(fs, fr)
  BY DEF OpenIf, More
<1>0. n \in Nat /\ n = Len(bs)
  BY DEF BlocksOK
<1>2. size \in Nat /\ size >= 2 /\ (kind = "then" => size = 2) /\ (kind # "then" => size = 3)
  BY DEF Size
<1>3. g \in 1 .. built
  BY DEF BlocksOK
<1>4. /\ fr \in FrameType /\ fr.last = "none" /\ fr.kind = kind
      /\ fr.els = els /\ fr.end = n + size
  BY <1>2 DEF Frame, FrameType, Kinds, Lasts
<1>5. Own(fr) = (n + 2) .. (n + size)
  <2>1. kind # "fn" /\ (kind \in Branching <=> kind # "then")
    BY DEF ThenBlocks, Branching
  <2>2. CASE kind = "then"
    <3>1. Own(fr) = {n + 2} /\ size = 2
      BY <1>2, <1>4, <2>1, <2>2 DEF Own
    <3>2. QED
      BY <3>1
  <2>3. CASE kind # "then"
    <3>1. Own(fr) = {n + 2, n + 3} /\ size = 3
      BY <1>2, <1>4, <2>1, <2>3 DEF Own
    <3>2. (n + 2) .. (n + 3) = {n + 2, n + 3}
      <4>1. ASSUME NEW b \in (n + 2) .. (n + 3) PROVE b \in {n + 2, n + 3}
        OBVIOUS
      <4>2. {n + 2, n + 3} \subseteq (n + 2) .. (n + 3)
        OBVIOUS
      <4>3. QED
        BY <4>1, <4>2
    <3>3. QED
      BY <3>1, <3>2
  <2>4. QED
    BY <2>2, <2>3
<1>6. fr.kind \in Branching => fr.els # fr.end
  BY <1>2, <1>4 DEF Branching
<1> HIDE DEF fr, size, g, targets
<1>7. Waits(fr, n, size)
  BY <1>4, <1>5, <1>6 DEF Waits
<1>8. Grown(bs, more, built, g, size)
  BY <1>2, <1>3, MoreGrown
<1> HIDE DEF more
<1>9. Books(cs, n + 1, Append(fs, fr), faults')
  BY <1>0, <1>2, <1>7, <1>8, PushedBooks
<1> HIDE DEF cs
<1>10. QED
  BY <1>1, <1>9

\* The statement a new frame belongs to is noted in the frame below.
LEMMA NotedFrames ==
    ASSUME VInv, frames # << >>
    PROVE  /\ Ready(blocks, cur, Marked("other"), faults)
           /\ \A extra : /\ extra \cap Tears = {} /\ "noReturn" \notin extra
                       => Noted(faults, faults \cup AfterJump \cup extra, blocks[cur].term)
<1> DEFINE fs == Marked("other")
<1>1. /\ Awaited(blocks, frames) /\ Current(blocks, cur, frames)
      /\ Ledger(blocks, Pending(frames) \cup {cur}, faults)
  BY DEF VInv, Books, OpenSet
<1>2. /\ cur \in 1 .. Len(blocks) /\ Len(blocks) \in Nat /\ Len(frames) \in Nat \ {0}
      /\ built \in Nat /\ BlocksOK(blocks, built) /\ frames \in Seq(FrameType)
      /\ CInv
  BY Inside DEF VInv, CInv, Built, Stacks, FramesOK
<1>3. "other" \in Lasts
  BY DEF Lasts
<1>4. LET gs == [frames EXCEPT ![Len(frames)].last = "other"]
      IN  /\ Pending(gs) = Pending(frames) /\ gs # << >> /\ Len(gs) = Len(frames)
          /\ Distinct(frames) => Distinct(gs)
          /\ gs[Len(frames)].last = "other"
          /\ \A i \in 1 .. Len(frames) - 1 : gs[i] = frames[i]
  BY <1>2, <1>3, PendingMarked
<1>5. /\ Pending(fs) = Pending(frames) /\ fs # << >> /\ Len(fs) = Len(frames)
      /\ Distinct(frames) => Distinct(fs)
      /\ fs[Len(frames)].last = "other"
      /\ \A i \in 1 .. Len(frames) - 1 : fs[i] = frames[i]
  BY <1>4, Zenon DEF Marked
<1>6. FramesOK(fs, Len(blocks))
  BY <1>2, <1>3, MarkedStacks DEF Stacks
<1> HIDE DEF fs
<1>7. Awaited(blocks, fs) /\ cur \notin Pending(fs)
  BY <1>1, <1>5 DEF Awaited, Current
<1>8. \A i \in 1 .. Len(fs) : fs[i].last \notin Jumps
  BY <1>1, <1>2, <1>5 DEF Current, Jumps
<1>9. (Tears \cap AfterJump # {} <=> blocks[cur].term) /\ "noReturn" \notin AfterJump
  BY <1>1 DEF Tears, AfterJump, Current, Top
<1>10. Ready(blocks, cur, fs, faults)
  BY <1>1, <1>5, <1>6, <1>7, <1>8 DEF Ready
<1>11. ASSUME NEW extra, extra \cap Tears = {}, "noReturn" \notin extra
       PROVE  Noted(faults, faults \cup AfterJump \cup extra, blocks[cur].term)
  BY <1>9, <1>11 DEF Noted
<1>12. QED
  BY <1>10, <1>11 DEF fs

LEMMA BranchBooks ==
    ASSUME VInv, BuildBranch
    PROVE  Books(blocks, cur, frames, faults)'
<1>0. CInv /\ \A e : CallFaults(e) \cap Tears = {} /\ "noReturn" \notin CallFaults(e)
  BY DEF VInv, CallFaults, Tears
<1>1. ASSUME NEW e \in Exprs, NEW kind \in ThenBlocks, BuildIf(e, kind)
      PROVE  Books(blocks, cur, frames, faults)'
  <2>1. frames # << >> /\ OpenIf(e, kind, blocks, cur, Marked("other"))
    BY <1>1 DEF BuildIf, InBlock
  <2>2. CASE ~Emits(e)
    BY <2>1, <2>2, BooksSame DEF OpenIf, Throw
  <2>3. CASE Emits(e)
    <3>1. faults' = faults \cup AfterJump \cup CallFaults(e)
      BY <1>1, <2>3 DEF BuildIf
    <3>2. Ready(blocks, cur, Marked("other"), faults) /\ Noted(faults, faults', blocks[cur].term)
      BY <1>0, <2>1, <3>1, NotedFrames
    <3>3. BlocksOK(blocks, built) /\ built \in Nat /\ cur \in 1 .. Len(blocks)
      BY <1>0, <2>1, Inside DEF CInv, Built
    <3>4. QED
      BY <2>1, <2>3, <3>2, <3>3, OpenIfBooks
  <2>4. QED
    BY <2>2, <2>3
<1>2. ASSUME NEW e \in Exprs, NEW kind \in ThenBlocks, BuildElseIf(e, kind)
      PROVE  Books(blocks, cur, frames, faults)'
  <2> DEFINE fs == Append(Unwound, Frame("elseif", 0, 0, Top.end))
             bs == BrUnlessTerminated(blocks, cur, Top.end)
             at == Top.els
  <2>1. frames # << >> /\ Top.kind = "thenElseIf" /\ OpenIf(e, kind, bs, at, fs)
    BY <1>2 DEF BuildElseIf, At
  <2>2. CASE ~Emits(e)
    BY <2>1, <2>2, BooksSame DEF OpenIf, Throw
  <2>3. CASE Emits(e)
    <3>1. faults' = faults \cup CallFaults(e)
      BY <1>2, <2>3 DEF BuildElseIf
    <3>2. /\ fs \in Seq(FrameType) /\ fs # << >> /\ Distinct(fs)
          /\ at \notin Pending(fs)
          /\ Pending(frames) = Pending(fs) \cup {at}
          /\ \A i \in 1 .. Len(fs) : fs[i].last \notin Jumps
      BY <2>1, ElseFrames DEF Branching
    <3>3. Books(bs, at, fs, faults)
      <4> HIDE DEF fs
      <4>1. QED
        BY <2>1, <3>2, BranchEnds
    <3>4. /\ Awaited(bs, fs) /\ Ledger(bs, Pending(fs) \cup {at}, faults)
          /\ ~bs[at].term
      <4> HIDE DEF fs, bs, at
      <4>1. QED
        BY <3>2, <3>3 DEF Books, OpenSet, Current
    <3>5. /\ Top.end \in 1 .. Len(blocks) /\ at \in 1 .. Len(blocks)
          /\ cur \in 1 .. Len(blocks) /\ built \in Nat /\ Len(blocks) \in Nat
      BY <1>0, <2>1, Inside DEF FrameIn
    <3>6. BlocksOK(bs, built) /\ Len(bs) = Len(blocks)
      BY <1>0, <3>5, Branched DEF CInv, Built
    <3>7. FramesOK(fs, Len(blocks))
      <4>1. /\ Stacks(Unwound, loop_stack, Len(blocks)) /\ Len(Unwound) = Len(frames) - 1
            /\ Len(frames) # 1
        BY <1>0, <2>1, UnwoundStacks, Inside DEF FrameIn
      <4>2. Unwound # << >>
        BY <1>0, <2>1, <4>1, Inside DEF Stacks, FramesOK
      <4>3. "elseif" \in Kinds \ {"fn", "loop"}
        BY DEF Kinds
      <4>4. Stacks(fs, loop_stack, Len(blocks))
        BY <3>5, <4>1, <4>2, <4>3, PushedStacks
      <4>5. QED
        BY <4>4 DEF Stacks
    <3> HIDE DEF fs, bs, at
    <3>8. Noted(faults, faults', bs[at].term)
      BY <1>0, <3>1, <3>4 DEF Noted
    <3>9. Ready(bs, at, fs, faults)
      BY <3>2, <3>4, <3>6, <3>7 DEF Ready
    <3>10. at \in 1 .. Len(bs)
      BY <3>5, <3>6
    <3>11. QED
      BY <2>1, <2>3, <3>5, <3>6, <3>8, <3>9, <3>10, OpenIfBooks
  <2>4. QED
    BY <2>2, <2>3
<1>3. CASE BuildElse
  <2> DEFINE fs == Append(Unwound, Frame("else", 0, 0, Top.end))
  <2>1. frames # << >> /\ Top.kind = "thenElse" /\ EndBranch(Top.els, fs)
    BY <1>3 DEF BuildElse, At
  <2>2. /\ fs \in Seq(FrameType) /\ fs # << >> /\ Distinct(fs)
        /\ Top.els \notin Pending(fs)
        /\ Pending(frames) = Pending(fs) \cup {Top.els}
        /\ \A i \in 1 .. Len(fs) : fs[i].last \notin Jumps
    BY <2>1, ElseFrames DEF Branching
  <2> HIDE DEF fs
  <2>3. Books(BrUnlessTerminated(blocks, cur, Top.end), Top.els, fs, faults)
    BY <2>1, <2>2, BranchEnds
  <2>4. QED
    BY <2>1, <2>3 DEF EndBranch
<1>4. CASE EndIf
  <2>1. frames # << >> /\ Top.kind \in {"then", "else", "elseif"} /\ EndBranch(Top.end, Unwound)
    BY <1>4 DEF EndIf, At
  <2>2. /\ Unwound \in Seq(FrameType) /\ Unwound # << >> /\ Distinct(Unwound)
        /\ Top.end \notin Pending(Unwound)
        /\ Pending(frames) = Pending(Unwound) \cup {Top.end}
        /\ \A i \in 1 .. Len(Unwound) : Unwound[i].last \notin Jumps
    BY <2>1, UnwoundFrames
  <2>3. Books(BrUnlessTerminated(blocks, cur, Top.end), Top.end, Unwound, faults)
    BY <2>1, <2>2, BranchEnds
  <2>4. QED
    BY <2>1, <2>3 DEF EndBranch
<1>5. QED
  BY <1>1, <1>2, <1>3, <1>4 DEF BuildBranch

LEMMA LoopBooks ==
    ASSUME VInv, BuildLoop
    PROVE  Books(blocks, cur, frames, faults)'
<1> DEFINE n  == Len(blocks)
           fr == Frame("loop", n + 1, 0, n + 2)
           fs == Marked("other")
           g  == blocks[cur].fn
<1>1. /\ frames # << >>
      /\ blocks' = Insert(More(blocks, g, 2), cur, TRUE, {n + 1})
      /\ cur' = n + 1
      /\ frames' = Append(fs, fr)
      /\ faults' = faults \cup AfterJump
  BY DEF BuildLoop, InBlock, CreateBr, More
<1>2. /\ n \in Nat /\ built \in Nat /\ cur \in 1 .. n /\ g \in 1 .. built
      /\ BlocksOK(blocks, built)
  BY <1>1, Inside DEF VInv, CInv, Built
<1>3. Ready(blocks, cur, fs, faults) /\ Noted(faults, faults', blocks[cur].term)
  <2>1. faults' = faults \cup AfterJump \cup {}
    BY <1>1
  <2>2. QED
    BY <1>1, <2>1, NotedFrames
<1>4. Waits(fr, n, 2)
  <2>1. /\ fr \in FrameType /\ fr.last = "none" /\ fr.kind = "loop" /\ fr.end = n + 2
    BY <1>2 DEF Frame, FrameType, Kinds, Lasts
  <2> HIDE DEF fr
  <2>2. Own(fr) = {n + 2} /\ fr.kind \notin Branching
    BY <2>1 DEF Own, Branching
  <2>3. (n + 2) .. (n + 2) = {n + 2}
    BY <1>2
  <2>4. QED
    BY <2>1, <2>2, <2>3 DEF Waits
<1> HIDE DEF fs, g, fr
<1>5. ASSUME NEW size \in Nat, size = 2, NEW targets
      PROVE  Books(Insert(More(blocks, g, size), cur, TRUE, targets), n + 1, Append(fs, fr),
                   faults')
  <2>1. Grown(blocks, More(blocks, g, size), built, g, size)
    BY <1>2, MoreGrown
  <2>2. Waits(fr, n, size) /\ size >= 2
    BY <1>4, <1>5
  <2>3. QED
    BY <1>2, <1>3, <2>1, <2>2, PushedBooks
<1>6. Books(Insert(More(blocks, g, 2), cur, TRUE, {n + 1}), n + 1, Append(fs, fr), faults')
  BY <1>5
<1>7. QED
  BY <1>1, <1>6

LEMMA FunctionBooks ==
    ASSUME VInv, NEW f \in FnNames, BuildFunction(f)
    PROVE  Books(blocks, cur, frames, faults)'
<1> DEFINE n  == Len(blocks)
           fr == Frame("fn", 0, 0, 0)
           nb == NewBlock(built + 1)
           gs == <<fr>>
           cs == Append(blocks, nb)
<1>1. /\ frames = << >> /\ blocks' = cs /\ cur' = n + 1 /\ frames' = gs /\ faults' = faults
  BY DEF BuildFunction
<1>2. built \in Nat /\ BlocksOK(blocks, built)
  BY DEF VInv, CInv, Built
<1>3. blocks \in Seq(BlockType) /\ n \in Nat
  BY <1>2 DEF BlocksOK
<1>4. nb \in BlockType /\ ~nb.term /\ ~nb.torn
  BY <1>2 DEF NewBlock, BlockType
<1> HIDE DEF nb
<1>5. Len(cs) = n + 1 /\ cs[n + 1] = nb /\ \A b \in 1 .. n : cs[b] = blocks[b]
  BY <1>3, <1>4
<1> HIDE DEF cs
<1>6. Torn(cs) <=> Torn(blocks)
  <2>1. 1 .. n + 1 = (1 .. n) \cup {n + 1}
    BY <1>3
  <2>2. QED
    BY <1>4, <1>5, <2>1 DEF Torn
<1>7. fr.kind = "fn" /\ fr.last = "none"
  BY DEF Frame
<1> HIDE DEF fr
<1>8. Len(gs) = 1 /\ gs[1] = fr /\ gs # << >>
  OBVIOUS
<1> HIDE DEF gs
<1>9. Own(fr) = {} /\ fr.kind \notin Branching
  BY <1>7 DEF Own, Branching
<1>10. Pending(gs) = {} /\ Distinct(gs)
  BY <1>8, <1>9 DEF Pending, Distinct
<1>11. Awaited(cs, gs)
  BY <1>10 DEF Awaited
<1>12. Current(cs, n + 1, gs)
  BY <1>4, <1>5, <1>7, <1>8, <1>10 DEF Current, Jumps
<1>13. Ledger(blocks, {}, faults)
  <2>1. Pending(<< >>) = {}
    BY DEF Pending
  <2>2. QED
    BY <1>1, <2>1 DEF VInv, Books, OpenSet
<1>14. ASSUME NEW tears \in BOOLEAN, ~tears
       PROVE  Ledger(cs, {n + 1}, faults)
  <2>1. \A b \in (1 .. n) \ {} : b \notin {n + 1} /\ cs[b].term = blocks[b].term
    BY <1>3, <1>5
  <2>2. \A b \in (1 .. Len(cs)) \ {n + 1} : b \in (1 .. n) \ {} \/ cs[b].term
    BY <1>3, <1>5
  <2>3. n <= Len(cs) /\ Len(cs) \in Nat
    BY <1>3, <1>5
  <2>4. QED
    BY <1>3, <1>6, <1>13, <1>14, <2>1, <2>2, <2>3, LedgerKept
<1>15. OpenSet(gs, n + 1) = {n + 1}
  BY <1>8, <1>10 DEF OpenSet
<1>16. Books(cs, n + 1, gs, faults)
  BY <1>11, <1>12, <1>14, <1>15 DEF Books
<1>17. QED
  BY <1>1, <1>16

\* A function whose body does not end in a return leaves its last block open
\* for good.
LEMMA EndFunctionBooks ==
    ASSUME VInv, EndFunction
    PROVE  Books(blocks, cur, frames, faults)'
<1>1. /\ frames # << >> /\ Top.kind = "fn" /\ frames' = << >> /\ blocks' = blocks
      /\ faults' = IF Top.last = "return" THEN faults ELSE faults \cup {"noReturn"}
  BY DEF EndFunction, At
<1>2. /\ Len(frames) = 1 /\ cur \in 1 .. Len(blocks) /\ frames \in Seq(FrameType)
      /\ Top = frames[1] /\ Top \in FrameType
  BY <1>1, Inside DEF VInv, CInv, Built, Stacks, FramesOK, FrameIn, Top
<1>3. Own(Top) = {}
  BY <1>1 DEF Own, Branching
<1>4. Pending(frames) = {}
  BY <1>2, <1>3 DEF Pending
<1>5. /\ Current(blocks, cur, frames) /\ Ledger(blocks, {cur}, faults)
  BY <1>1, <1>4 DEF VInv, Books, OpenSet
<1>6. blocks[cur].term <=> Top.last = "return"
  BY <1>1, <1>2, <1>5 DEF Current, Jumps
<1>7. Ledger(blocks, {}, faults')
  <2>1. CASE Top.last = "return"
    <3>1. faults' = faults /\ blocks[cur].term
      BY <1>1, <1>6, <2>1
    <3>2. QED
      BY <1>5, <3>1 DEF Ledger
  <2>2. CASE Top.last # "return"
    <3>1. faults' = faults \cup {"noReturn"} /\ ~blocks[cur].term
      BY <1>1, <1>6, <2>2
    <3>2. Tears \cap faults' = Tears \cap faults
      BY <3>1 DEF Tears
    <3>3. QED
      BY <1>2, <1>5, <3>1, <3>2 DEF Ledger
  <2>3. QED
    BY <2>1, <2>2
<1>8. Awaited(blocks, << >>) /\ Current(blocks, cur', << >>) /\ OpenSet(<< >>, cur') = {}
  BY DEF Awaited, Distinct, Current, Pending, OpenSet
<1>9. QED
  BY <1>1, <1>7, <1>8 DEF Books

(***************************************************************************)
(* Calls of the external printf.                                           *)
(***************************************************************************)
LEMMA CallsSame ==
    ASSUME VInv, UNCHANGED <<symbols, calls>>,
           "callOfPrintf" \in faults' <=> "callOfPrintf" \in faults
    PROVE  CallsInv'
BY DEF VInv, CallsInv

LEMMA EvaluateCalls ==
    ASSUME VInv, NEW e \in Exprs, Emits(e), NEW b, NEW stores, Evaluate(e, b, stores),
           symbols' = symbols, NEW more, "callOfPrintf" \notin more,
           faults' = faults \cup more \cup CallFaults(e)
    PROVE  CallsInv'
<1>1. /\ Printf \in DOMAIN symbols
      /\ \A f \in DOMAIN symbols : symbols[f] = 0 <=> f = Printf
      /\ (\E c \in calls : c[2] = 0) <=> "callOfPrintf" \in faults
  BY DEF VInv, CallsInv
<1>2. calls' = calls \cup {<<built, symbols[f]>> : f \in CallsOf(e)}
  BY DEF Evaluate
<1>3. CallsOf(e) \subseteq DOMAIN symbols
  BY DEF Emits
<1>4. (\E c \in calls' : c[2] = 0) <=> (\E c \in calls : c[2] = 0) \/ Printf \in CallsOf(e)
  <2>1. ASSUME NEW c \in calls', c[2] = 0, c \notin calls
        PROVE  Printf \in CallsOf(e)
    <3>1. PICK f \in CallsOf(e) : c = <<built, symbols[f]>>
      BY <1>2, <2>1
    <3>2. symbols[f] = 0
      BY <2>1, <3>1
    <3>3. QED
      BY <1>1, <1>3, <3>2
  <2>2. ASSUME Printf \in CallsOf(e)
        PROVE  \E c \in calls' : c[2] = 0
    <3>1. <<built, symbols[Printf]>> \in calls' /\ symbols[Printf] = 0
      BY <1>1, <1>2, <2>2
    <3>2. QED
      BY <3>1
  <2>3. calls \subseteq calls'
    BY <1>2
  <2>4. QED
    BY <2>1, <2>2, <2>3
<1>5. "callOfPrintf" \in faults' <=> "callOfPrintf" \in faults \/ Printf \in CallsOf(e)
  BY DEF CallFaults
<1>6. QED
  BY <1>1, <1>4, <1>5 DEF CallsInv

LEMMA StepCalls ==
    ASSUME VInv, CNext
    PROVE  CallsInv'
<1>0. "callOfPrintf" \notin AfterJump /\ Throw \in BOOLEAN
  BY DEF AfterJump, Throw
<1>1. ASSUME Throw PROVE CallsInv'
  BY <1>1, CallsSame DEF Throw
<1>2. ASSUME NEW e \in Exprs, Emits(e), NEW b, NEW stores, Evaluate(e, b, stores),
             symbols' = symbols, faults' = faults \cup AfterJump \cup CallFaults(e)
      PROVE  CallsInv'
  BY <1>0, <1>2, EvaluateCalls
<1>3. ASSUME NEW n \in Names, NEW e \in Exprs, BuildDeclare(n, e) PROVE CallsInv'
  BY <1>1, <1>2, <1>3 DEF BuildDeclare
<1>4. ASSUME NEW n \in Names, NEW e \in Exprs, BuildAssign(n, e) PROVE CallsInv'
  BY <1>1, <1>2, <1>4 DEF BuildAssign
<1>5. ASSUME NEW e \in Exprs, BuildShow(e) PROVE CallsInv'
  BY <1>1, <1>2, <1>5 DEF BuildShow
<1>6. ASSUME NEW e \in Exprs, BuildReturn(e) PROVE CallsInv'
  BY <1>1, <1>2, <1>6 DEF BuildReturn
<1>7. ASSUME NEW target, JumpTo(target) PROVE CallsInv'
  BY <1>0, <1>7, CallsSame DEF JumpTo
<1>8. CASE BuildBreak \/ BuildCycle
  BY <1>1, <1>7, <1>8 DEF BuildBreak, BuildCycle
<1>9. ASSUME NEW e \in Exprs, NEW kind \in ThenBlocks, BuildIf(e, kind) PROVE CallsInv'
  <2>1. CASE ~Emits(e)
    BY <1>1, <1>9, <2>1 DEF BuildIf, OpenIf
  <2>2. CASE Emits(e)
    <3>1. /\ faults' = faults \cup AfterJump \cup CallFaults(e)
          /\ Evaluate(e, cur, {}) /\ symbols' = symbols
      BY <1>9, <2>2 DEF BuildIf, OpenIf
    <3>2. QED
      BY <1>2, <2>2, <3>1
  <2>3. QED
    BY <2>1, <2>2
<1>10. ASSUME NEW e \in Exprs, NEW kind \in ThenBlocks, BuildElseIf(e, kind) PROVE CallsInv'
  <2>1. CASE ~Emits(e)
    BY <1>1, <1>10, <2>1 DEF BuildElseIf, OpenIf
  <2>2. CASE Emits(e)
    <3>1. /\ faults' = faults \cup {} \cup CallFaults(e)
          /\ Evaluate(e, Top.els, {}) /\ symbols' = symbols
      BY <1>10, <2>2 DEF BuildElseIf, OpenIf
    <3>2. "callOfPrintf" \notin {}
      OBVIOUS
    <3>3. QED
      BY <2>2, <3>1, <3>2, EvaluateCalls
  <2>3. QED
    BY <2>1, <2>2
<1>11. CASE BuildElse \/ EndIf
  BY <1>11, CallsSame DEF BuildElse, EndIf, EndBranch
<1>12. CASE BuildLoop
  BY <1>0, <1>12, CallsSame DEF BuildLoop
<1>13. CASE EndLoop
  BY <1>13, CallsSame DEF EndLoop
<1>14. ASSUME NEW f \in FnNames, BuildFunction(f) PROVE CallsInv'
  <2>1. /\ symbols' = [g \in DOMAIN symbols \cup {f} |->
                          IF g \in DOMAIN symbols THEN symbols[g] ELSE built + 1]
        /\ calls' = calls /\ faults' = faults
    BY <1>14 DEF BuildFunction
  <2>2. built + 1 # 0
    BY DEF VInv, CInv, Built
  <2>3. /\ Printf \in DOMAIN symbols
        /\ \A g \in DOMAIN symbols : symbols[g] = 0 <=> g = Printf
        /\ (\E c \in calls : c[2] = 0) <=> "callOfPrintf" \in faults
    BY DEF VInv, CallsInv
  <2>4. /\ Printf \in DOMAIN symbols'
        /\ \A g \in DOMAIN symbols' : symbols'[g] = 0 <=> g = Printf
    BY <2>1, <2>2, <2>3
  <2>5. QED
    BY <2>1, <2>3, <2>4 DEF CallsInv
<1>15. CASE EndFunction
  BY <1>15, CallsSame DEF EndFunction
<1>16. CASE EndProgram \/ Verify \/ Stopped
  BY <1>16, CallsSame DEF EndProgram, Verify, Stopped, cvars
<1>17. QED
  BY <1>3, <1>4, <1>5, <1>6, <1>8, <1>9, <1>10, <1>11, <1>12, <1>13, <1>14, <1>15, <1>16
     DEF CNext, BuildStatement, BuildBranch

(***************************************************************************)
(* The verdict.                                                            *)
(***************************************************************************)
LEMMA DominatedSame ==
    ASSUME UNCHANGED <<blocks, uses>>
    PROVE  UsesDominated' = UsesDominated
BY DEF UsesDominated, Dominates, Entry, Reached, Step

LEMMA VerifyVerdict ==
    ASSUME VInv, Verify
    PROVE  VerdictExact'
<1>1. /\ status = "built" /\ UNCHANGED <<blocks, uses, faults>>
      /\ status' = IF WellFormed /\ UsesDominated /\ CallsComplete THEN "verified" ELSE "invalid"
  BY DEF Verify
<1>2. frames = << >> /\ faults \subseteq Faults /\ blocks \in Seq(BlockType)
  BY <1>1 DEF VInv, CInv, Built, Recorded, BlocksOK
<1>3. Ledger(blocks, {}, faults)
  <2>1. Pending(<< >>) = {}
    BY DEF Pending
  <2>2. QED
    BY <1>2, <2>1 DEF VInv, Books, OpenSet
<1>4. DOMAIN blocks = 1 .. Len(blocks)
  BY <1>2
<1>5. WellFormed <=> "noReturn" \notin faults /\ Tears \cap faults = {}
  BY <1>3, <1>4 DEF WellFormed, Ledger, Torn
<1>6. CallsComplete <=> "callOfPrintf" \notin faults
  BY DEF VInv, CallsInv, CallsComplete
<1>7. WellFormed /\ CallsComplete <=> faults = {}
  BY <1>2, <1>5, <1>6 DEF Faults, Tears
<1>8. UsesDominated' = UsesDominated
  BY <1>1, DominatedSame
<1>9. QED
  BY <1>1, <1>7, <1>8 DEF VerdictExact

(***************************************************************************)
(* Induction.  What the library says of operators is said here of sets.    *)
(***************************************************************************)
LEMMA LeastNatural ==
    ASSUME NEW T, T \subseteq Nat, T # {}
    PROVE  \E x \in T : \A y \in T : x <= y
<1> DEFINE R == OpToRel(<, Nat)
<1>1. IsWellFoundedOn(R, Nat)
  BY NatLessThanWellFounded
<1>2. \A a, b \in Nat : a < b => <<a, b>> \in R
  BY DEF OpToRel
<1> HIDE DEF R
<1>3. PICK x \in T : \A y \in T : ~ (<<y, x>> \in R)
  BY <1>1, WFMin
<1>4. ASSUME NEW y \in T
      PROVE  x <= y
  <2>1. ~(y < x)
    BY <1>2, <1>3
  <2>2. QED
    BY <2>1
<1>5. QED
  BY <1>4

\* The last entry of the loop stack is a frame's.
LEMMA JumpTarget ==
    ASSUME NEW fs, Len(fs) \in Nat, NEW ls, Len(ls) \in Nat \ {0}, Matches(fs, ls)
    PROVE  \E i \in 1 .. Len(fs) : /\ fs[i].kind = "loop"
                                   /\ ls[Len(ls)].body = fs[i].body
                                   /\ ls[Len(ls)].end = fs[i].end
<1>1. PICK T : T = {k \in 0 .. Len(fs) : Cardinality(Loops(fs, k)) = Len(ls)}
  OBVIOUS
<1>2. T \subseteq Nat /\ T # {}
  <2>1. Len(fs) \in T
    BY <1>1 DEF Matches
  <2>2. QED
    BY <1>1, <2>1
<1>3. PICK k \in T : \A y \in T : k <= y
  BY <1>2, LeastNatural
<1>4. k \in 0 .. Len(fs) /\ Cardinality(Loops(fs, k)) = Len(ls)
  BY <1>1
<1>5. k # 0
  <2>1. Loops(fs, 0) = {}
    BY DEF Loops
  <2>2. Cardinality(Loops(fs, 0)) = 0
    BY <2>1, FS_EmptySet
  <2>3. QED
    BY <1>4, <2>2
<1>6. PICK j \in Nat : j + 1 = k
  BY <1>4, <1>5
<1>7. fs[k].kind = "loop"
  <2>1. j \notin T
    BY <1>3, <1>6
  <2>2. Cardinality(Loops(fs, j)) # Len(ls)
    BY <1>1, <1>4, <1>6, <2>1
  <2>3. Cardinality(Loops(fs, k)) =
            Cardinality(Loops(fs, j)) + (IF fs[k].kind = "loop" THEN 1 ELSE 0)
    BY <1>6, LoopsStep
  <2>4. Cardinality(Loops(fs, j)) \in Nat
    BY LoopsCounted
  <2>5. QED
    BY <1>4, <2>2, <2>3, <2>4
<1>8. k \in 1 .. Len(fs)
  BY <1>4, <1>5
<1>9. ls[Len(ls)] = [body |-> fs[k].body, end |-> fs[k].end]
  BY <1>4, <1>7, <1>8 DEF Matches
<1>10. QED
  BY <1>7, <1>8, <1>9

\* A frame of a loop has its entry.
LEMMA LoopHasEntry ==
    ASSUME NEW fs, Len(fs) \in Nat, NEW ls, Matches(fs, ls),
           NEW i \in 1 .. Len(fs), fs[i].kind = "loop"
    PROVE  Len(ls) # 0
<1>1. IsFiniteSet(Loops(fs, Len(fs))) /\ Len(ls) = Cardinality(Loops(fs, Len(fs)))
  BY LoopsCounted DEF Matches
<1>2. i \in Loops(fs, Len(fs))
  BY DEF Loops
<1>3. QED
  BY <1>1, <1>2, FS_EmptySet

\* What avoiding d leads to stays in a set that is closed under such steps.
LEMMA ReachedWithin ==
    ASSUME Len(blocks) \in Nat, NEW S, NEW d, NEW C, S \subseteq C,
           \A b \in DOMAIN blocks \ {d}, s \in C : b \in blocks[s].succ => b \in C
    PROVE  Reached(S, d) \subseteq C
<1> DEFINE Is(m, f) == f = [n \in 0 .. m |-> IF n = 0 THEN S ELSE Step(f[n - 1], d)]
<1>1. ASSUME NEW m \in Nat
      PROVE  \E f : Is(m, f)
  <2>1. SUFFICES ASSUME ~ \E f : Is(m, f) PROVE FALSE
    OBVIOUS
  <2>2. PICK T : T = {k \in Nat : ~ \E f : Is(k, f)}
    OBVIOUS
  <2>3. T \subseteq Nat /\ T # {}
    BY <2>1, <2>2
  <2>4. PICK k \in T : \A y \in T : k <= y
    BY <2>3, LeastNatural
  <2>5. k \in Nat /\ ~ \E f : Is(k, f)
    BY <2>2
  <2>6. k # 0
    <3>1. PICK f : f = [n \in 0 .. 0 |-> S]
      OBVIOUS
    <3>2. [n \in 0 .. 0 |-> IF n = 0 THEN S ELSE Step(f[n - 1], d)] = [n \in 0 .. 0 |-> S]
      OBVIOUS
    <3>3. Is(0, f)
      BY <3>1, <3>2
    <3>4. QED
      BY <2>5, <3>3
  <2>7. PICK j \in Nat : j + 1 = k
    <3>1. k \in Nat
      BY <2>2
    <3>2. k - 1 \in Nat /\ (k - 1) + 1 = k
      BY <2>6, <3>1
    <3>3. QED
      BY <3>2
  <2>8. j \notin T
    BY <2>4, <2>7
  <2>9. PICK f : Is(j, f)
    BY <2>2, <2>8
  <2>10. PICK g : g = [n \in 0 .. k |-> IF n = k THEN Step(f[j], d) ELSE f[n]]
    OBVIOUS
  <2>11. \A n \in 0 .. j : f[n] = IF n = 0 THEN S ELSE Step(f[n - 1], d)
    BY <2>9
  <2>12. \A n \in 0 .. k : g[n] = IF n = 0 THEN S ELSE Step(g[n - 1], d)
    <3>1. TAKE n \in 0 .. k
    <3>2. CASE n = k
      <4>1. g[n] = Step(f[j], d)
        BY <2>10, <3>2
      <4>2. n - 1 = j /\ j \in 0 .. k /\ j # k /\ n # 0
        BY <2>7, <3>2
      <4>3. g[n - 1] = f[j]
        BY <2>10, <4>2
      <4>4. QED
        BY <4>1, <4>2, <4>3
    <3>3. CASE n # k
      <4>1. n \in 0 .. j /\ g[n] = f[n]
        BY <2>7, <2>10, <3>3
      <4>2. CASE n = 0
        BY <2>11, <4>1, <4>2
      <4>3. CASE n # 0
        <5>1. n - 1 \in 0 .. k /\ n - 1 # k
          BY <2>7, <4>1, <4>3
        <5>2. g[n - 1] = f[n - 1]
          BY <2>10, <5>1
        <5>3. QED
          BY <2>11, <4>1, <4>3, <5>2
      <4>4. QED
        BY <4>2, <4>3
    <3>4. QED
      BY <3>2, <3>3
  <2>13. g = [n \in 0 .. k |-> g[n]]
    BY <2>10
  <2>14. Is(k, g)
    BY <2>12, <2>13
  <2>15. QED
    BY <2>5, <2>14
<1>2. PICK m : m = Len(blocks)
  OBVIOUS
<1>3. PICK R : /\ R = CHOOSE f : Is(m, f)
               /\ Reached(S, d) = R[m]
  BY <1>2 DEF Reached
<1>4. Is(m, R)
  BY <1>1, <1>2, <1>3
<1>5. \A n \in 0 .. m : R[n] = IF n = 0 THEN S ELSE Step(R[n - 1], d)
  BY <1>4
<1>6. \A n \in 0 .. m : R[n] \subseteq C
  <2>1. SUFFICES ASSUME NEW n \in 0 .. m, ~(R[n] \subseteq C) PROVE FALSE
    OBVIOUS
  <2>2. PICK T : T = {k \in 0 .. m : ~(R[k] \subseteq C)}
    OBVIOUS
  <2>3. T \subseteq Nat /\ T # {}
    BY <1>2, <2>1, <2>2
  <2>4. PICK k \in T : \A y \in T : k <= y
    BY <2>3, LeastNatural
  <2>5. k \in 0 .. m /\ ~(R[k] \subseteq C)
    BY <2>2
  <2>6. k # 0
    BY <1>5, <2>5
  <2>7. k - 1 \in 0 .. m /\ k - 1 \notin T
    BY <1>2, <2>4, <2>5, <2>6
  <2>8. R[k - 1] \subseteq C
    BY <2>2, <2>7
  <2>9. R[k] = Step(R[k - 1], d)
    BY <1>5, <2>5, <2>6
  <2>10. QED
    BY <2>5, <2>8, <2>9 DEF Step
<1>7. m \in 0 .. m
  BY <1>2
<1>8. QED
  BY <1>3, <1>6, <1>7

LEMMA InitVInv == CInit => VInv
<1> SUFFICES ASSUME CInit PROVE VInv
  OBVIOUS
<1>1. CInv
  BY InitInv
<1>2. blocks = << >> /\ frames = << >> /\ faults = {}
  BY DEF CInit
<1>3. Pending(<< >>) = {}
  BY DEF Pending
<1>4. Books(<< >>, cur, << >>, {})
  BY <1>3 DEF Books, Awaited, Distinct, Current, Ledger, OpenSet, Torn
<1>5. CallsInv
  BY DEF CInit, CallsInv
<1>6. VerdictExact /\ status = "running"
  BY DEF CInit, VerdictExact
<1>7. QED
  BY <1>1, <1>2, <1>4, <1>5, <1>6 DEF VInv

LEMMA NextVInv == VInv /\ [CNext]_cvars => VInv'
<1> SUFFICES ASSUME VInv, [CNext]_cvars PROVE VInv'
  OBVIOUS
<1>1. CInv'
  BY NextInv DEF VInv
<1>2. CASE UNCHANGED cvars
  <2>1. /\ UNCHANGED <<blocks, cur, frames, faults, symbols, calls, status, uses>>
    BY <1>2 DEF cvars
  <2>2. Books(blocks, cur, frames, faults)' /\ CallsInv'
    BY <2>1, BooksSame, CallsSame
  <2>3. UsesDominated' = UsesDominated
    BY <2>1, DominatedSame
  <2>4. QED
    BY <1>1, <2>1, <2>2, <2>3 DEF VInv, VerdictExact
<1>3. CASE CNext
  <2>1. CallsInv'
    BY <1>3, StepCalls
  <2>2. Books(blocks, cur, frames, faults)'
    <3>1. CASE EndProgram \/ Verify \/ Stopped
      BY <3>1, BooksSame DEF EndProgram, Verify, Stopped, cvars
    <3>2. QED
      BY <1>3, <3>1, FunctionBooks, EndFunctionBooks, SimpleBooks, BranchBooks, LoopBooks,
         EndLoopBooks DEF CNext
  <2>3. status' \in {"built", "verified", "invalid"} => frames' = << >> /\ frames' = frames
    <3>1. CASE EndProgram \/ Verify \/ Stopped
      BY <3>1 DEF EndProgram, Verify, Stopped, cvars, VInv
    <3>2. CASE ~(EndProgram \/ Verify \/ Stopped)
      BY <1>3, <3>2 DEF CNext, BuildStatement, BuildBranch, BuildFunction, EndFunction,
         BuildDeclare, BuildAssign, BuildShow, BuildReturn, BuildBreak, BuildCycle, JumpTo,
         BuildIf, BuildElseIf, BuildElse, EndIf, BuildLoop, EndLoop, OpenIf, EndBranch, Throw,
         InBlock, At
    <3>3. QED
      BY <3>1, <3>2
  <2>4. VerdictExact'
    <3>1. CASE Verify
      BY <3>1, VerifyVerdict
    <3>2. CASE Stopped
      <4>1. UNCHANGED <<blocks, uses, faults, status>>
        BY <3>2 DEF Stopped, cvars
      <4>2. UsesDominated' = UsesDominated
        BY <4>1, DominatedSame
      <4>3. QED
        BY <4>1, <4>2 DEF VInv, VerdictExact
    <3>3. CASE ~(Verify \/ Stopped)
      <4>1. status' \notin {"verified", "invalid"}
        BY <1>3, <3>3 DEF CNext, BuildStatement, BuildBranch, BuildFunction, EndFunction,
           BuildDeclare, BuildAssign, BuildShow, BuildReturn, BuildBreak, BuildCycle, JumpTo,
           BuildIf, BuildElseIf, BuildElse, EndIf, BuildLoop, EndLoop, OpenIf, EndBranch,
           Throw, EndProgram, InBlock, At
      <4>2. QED
        BY <4>1 DEF VerdictExact
    <3>4. QED
      BY <3>1, <3>2, <3>3
  <2>5. QED
    BY <1>1, <2>1, <2>2, <2>3, <2>4 DEF VInv
<1>4. QED
  BY <1>2, <1>3

-----------------------------------------------------------------------------
\* Every branch the generator creates leads to a block of the module, and every
\* load, store and call it records is between blocks and functions there are.
THEOREM TypeCorrect == CSpec => []TypeOK
BY Invariant, InvTypeOK, PTL

\* break and cycle leave the innermost loop of the same function that encloses
\* them, whatever ifs, elseif chains, loops and functions the program has.
THEOREM LoopStackIsExact == CSpec => []LoopStackExact
BY Invariant, InvLoops, PTL

\* The programs that get through the verifier are those without one of the four
\* faults of source, whatever functions, branches and loops they are made of.
THEOREM VerdictIsExact == CSpec => []VerdictExact
<1>1. VInv => VerdictExact
  BY DEF VInv
<1>2. QED
  BY <1>1, InitVInv, NextVInv, PTL DEF CSpec
==============================================================================
