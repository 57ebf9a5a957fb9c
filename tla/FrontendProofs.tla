--------------------------- MODULE FrontendProofs ----------------------------
(***************************************************************************)
(* Proofs about the two passes over one tree: what the type checker        *)
(* accepts, the code generator lowers as LookupsSucceed, CallsGoBack,      *)
(* AllocaDominatesUse and VerdictByShape say.                              *)
(*                                                                         *)
(* The argument.  The generator, which has only the tree, follows the      *)
(* trace of the checker's views: its frames are the open blocks of the     *)
(* view, its map of names holds what the view may read, its symbols are    *)
(* the functions the view knows.  So every look-up succeeds; every call    *)
(* reaches an earlier function; and every use is built in the region of    *)
(* its alloca, whose block therefore dominates it.                         *)
(***************************************************************************)
EXTENDS FrontendTraceProofs

(***************************************************************************)
(* The generator stands where the checker's view p is.                     *)
(***************************************************************************)
\* Where the builder is and will be belongs to the function being built.
Home(fr, c, bs, bt) ==
    fr # << >> => \A b \in Ahead(fr, c, 0) : b # 0 => b \in 1 .. Len(bs) /\ bs[b].fn = bt

AllocasHome(nv, bs, bt) ==
    \A x \in Names : nv[x] # 0 => nv[x] \in 1 .. Len(bs) /\ bs[nv[x]].fn = bt

\* The functions that are complete to the checker are complete, and the one
\* that is being checked is being built.
Known(p, sy, fr, bt) ==
    /\ bt = p.fns + (IF fr = << >> THEN 0 ELSE 1)
    /\ \A f \in p.known : f \in DOMAIN sy /\ sy[f] <= p.fns
    /\ fr # << >> => p.caller \in DOMAIN sy

Sim(p, D, h, bs, c, nv, sy, fr, bt) ==
    /\ Chain(fr, c, D, Len(bs))
    /\ Aligned(fr, p.walk, h)
    /\ Live(fr, c, D, Len(bs), nv, p.decl, h)
    /\ Home(fr, c, bs, bt)
    /\ AllocasHome(nv, bs, bt)
    /\ Known(p, sy, fr, bt)

Placed(p, D, bs, c, nv, sy, fr, bt) == \E h : Sim(p, D, h, bs, c, nv, sy, fr, bt)

LEMMA AlikeLive ==
    ASSUME NEW fr, NEW gr, Alike(fr, gr), Len(fr) \in Nat, NEW c, NEW D, NEW n, NEW nv,
           NEW decl, NEW h, \A d \in decl : h[d[1]] \in Nat,
           Live(fr, c, D, n, nv, decl, h)
    PROVE  Live(gr, c, D, n, nv, decl, h)
<1>1. ASSUME NEW l \in Nat, NEW x \in Names, <<l, x>> \in decl
      PROVE  nv[x] \in 1 .. n /\ Ahead(gr, c, h[l]) \subseteq D[nv[x]] \cup {0}
  <2>1. nv[x] \in 1 .. n /\ Ahead(fr, c, h[l]) \subseteq D[nv[x]] \cup {0}
    BY <1>1 DEF Live
  <2>2. h[l] \in Nat
    <3>1. h[<<l, x>>[1]] \in Nat
      BY <1>1
    <3>2. QED
      BY <3>1
  <2>3. Ahead(gr, c, h[l]) = Ahead(fr, c, h[l])
    BY <2>2, AlikeAhead
  <2>4. QED
    BY <2>1, <2>3
<1>2. QED
  BY <1>1 DEF Live

\* Where the names of a view stand among the frames.
LEMMA Places ==
    ASSUME NEW p, InWalk(p), NEW fr \in Seq(CGP!FrameType), NEW h, Aligned(fr, p.walk, h)
    PROVE  /\ \A d \in p.decl : d[1] \in 1 .. Len(p.walk) /\ h[d[1]] \in 1 .. Len(fr)
           /\ p.walk \in Seq(TC!Blocks) /\ Len(p.walk) \in Nat /\ Len(fr) \in Nat
<1>1. p.walk \in Seq(TC!Blocks) /\ \A d \in p.decl : d[1] \in 1 .. Len(p.walk)
  BY DEF InWalk, Views
<1>2. \A i \in 1 .. Len(p.walk) : h[i] \in 1 .. Len(fr)
  BY <1>1, AlignedFacts
<1>3. QED
  BY <1>1, <1>2

\* The same with other notes of what the last statement was.
LEMMA SimAlike ==
    ASSUME NEW p, InWalk(p), NEW D, NEW h, NEW bs, NEW c, NEW nv, NEW sy,
           NEW fr \in Seq(CGP!FrameType), NEW bt, Sim(p, D, h, bs, c, nv, sy, fr, bt),
           NEW gr \in Seq(CGP!FrameType), Alike(fr, gr)
    PROVE  Sim(p, D, h, bs, c, nv, sy, gr, bt)
<1>1. /\ Chain(fr, c, D, Len(bs)) /\ Aligned(fr, p.walk, h)
      /\ Live(fr, c, D, Len(bs), nv, p.decl, h) /\ Home(fr, c, bs, bt)
      /\ AllocasHome(nv, bs, bt) /\ Known(p, sy, fr, bt)
  BY DEF Sim
<1>2. \A d \in p.decl : h[d[1]] \in Nat
  BY <1>1, Places
<1>3. Len(fr) \in Nat /\ Len(gr) = Len(fr) /\ (gr = << >> <=> fr = << >>)
  BY DEF Alike
<1>4. Ahead(gr, c, 0) = Ahead(fr, c, 0)
  BY <1>3, AlikeAhead
<1>5. Chain(gr, c, D, Len(bs))
  BY <1>1, <1>3, ChainAlike
<1>6. Aligned(gr, p.walk, h)
  BY <1>1, AlignedAlike
<1>7. Live(gr, c, D, Len(bs), nv, p.decl, h)
  BY <1>1, <1>2, <1>3, AlikeLive
<1>8. Home(gr, c, bs, bt) /\ Known(p, sy, gr, bt)
  BY <1>1, <1>3, <1>4 DEF Home, Known
<1>9. QED
  BY <1>1, <1>5, <1>6, <1>7, <1>8 DEF Sim

\* The same with more instructions in the blocks.
LEMMA SimInstructions ==
    ASSUME NEW p, NEW D, NEW h, NEW bs, NEW cs, NEW c, NEW nv, NEW sy, NEW fr, NEW bt,
           Sim(p, D, h, bs, c, nv, sy, fr, bt), Len(cs) = Len(bs),
           \A b \in 1 .. Len(bs) : cs[b].fn = bs[b].fn
    PROVE  Sim(p, D, h, cs, c, nv, sy, fr, bt)
<1>1. Home(fr, c, cs, bt) /\ AllocasHome(nv, cs, bt)
  BY DEF Sim, Home, AllocasHome
<1>2. QED
  BY <1>1 DEF Sim

\* Blocks are created for a statement of kind k, which begins in block c.
LEMMA SimPush ==
    ASSUME NEW p, InWalk(p), NEW D, NEW h, NEW bs, NEW c, NEW nv, NEW sy,
           NEW fr \in Seq(CGP!FrameType), fr # << >>, NEW bt, Sim(p, D, h, bs, c, nv, sy, fr, bt),
           RegionsOf(bs, D), c \in 1 .. Len(bs),
           NEW cs, NEW E, Changed(bs, cs, c, E), NEW G, GrownFrom(D, Len(bs), Len(cs), c, G),
           NEW f \in CGP!FrameType, NEW k \in TC!Blocks, f.kind = k,
           Fresh(f, Len(bs), Len(cs)),
           NEW c2 \in (Len(bs) + 1) .. Len(cs), NEW gr, gr = Append(fr, f)
    PROVE  Placed(Open(p, k), G, cs, c2, nv, sy, gr, bt)
<1> PICK n, m, w : n = Len(bs) /\ m = Len(cs) /\ w = p.walk
  OBVIOUS
<1>1. /\ Chain(fr, c, D, n) /\ Aligned(fr, w, h)
      /\ Live(fr, c, D, n, nv, p.decl, h) /\ Home(fr, c, bs, bt)
      /\ AllocasHome(nv, bs, bt) /\ Known(p, sy, fr, bt)
  BY DEF Sim
<1>2. /\ n \in Nat /\ m \in Nat /\ n <= m /\ D \in [1 .. n -> SUBSET (1 .. n)]
      /\ c \in 1 .. n
  BY DEF Changed, RegionsOf
<1>3. /\ w \in Seq(TC!Blocks) /\ Len(w) \in Nat /\ Len(fr) \in Nat
      /\ \A d \in p.decl : d[1] \in 1 .. Len(w) /\ h[d[1]] \in 1 .. Len(fr)
  BY <1>1, Places
<1>4. /\ Chain(gr, c2, G, m)
      /\ \A i \in 0 .. Len(fr) : /\ c \in Ahead(fr, c, i)
                                 /\ Ahead(gr, c2, i) \subseteq Ahead(fr, c, i) \cup {0} \cup ((n + 1) .. m)
  <2>1. /\ GrownFrom(D, n, m, c, G) /\ Fresh(f, n, m)
        /\ c2 \in (n + 1) .. m /\ gr = Append(fr, f)
    OBVIOUS
  <2>2. Chain(gr, c2, G, m) /\ Onward(fr, c, gr, c2, Len(fr), n, m)
    BY <1>1, <1>2, <2>1, ChainPush
  <2>3. \A i \in 0 .. Len(fr) : c \in Ahead(fr, c, i)
    BY InAhead
  <2>4. QED
    BY <2>2, <2>3 DEF Onward
<1>5. PICK v : v = Append(w, k)
  OBVIOUS
<1>6. PICK g : /\ Aligned(gr, v, g)
               /\ \A l \in 1 .. Len(w) : g[l] = h[l]
  <2>1. Aligns(gr, v, h, Len(w))
    BY <1>1, <1>3, <1>5, AlignedPush
  <2>2. QED
    BY <2>1 DEF Aligns
<1>7. Live(gr, c2, G, m, nv, p.decl, g)
  <2>1. ASSUME NEW l \in Nat, NEW x \in Names, <<l, x>> \in p.decl
        PROVE  /\ <<l, x>> \in p.decl /\ c \in Ahead(fr, c, h[l])
               /\ Ahead(gr, c2, g[l]) \subseteq Ahead(fr, c, h[l]) \cup {0} \cup ((n + 1) .. m)
    <3>1. <<l, x>>[1] = l
      OBVIOUS
    <3>2. l \in 1 .. Len(w) /\ h[l] \in 0 .. Len(fr) /\ g[l] = h[l]
      BY <1>3, <1>6, <2>1, <3>1
    <3>3. QED
      BY <1>4, <2>1, <3>2
  <2>2. GrownFrom(D, n, m, c, G)
    OBVIOUS
  <2>3. QED
    BY ONLY <1>1, <1>2, <2>1, <2>2, LiveMoves
<1>8. Home(gr, c2, cs, bt)
  <2>1. ASSUME NEW b \in Ahead(gr, c2, 0), b # 0
        PROVE  b \in 1 .. m /\ cs[b].fn = bt
    <3>1. b \in Ahead(fr, c, 0) \/ b \in (n + 1) .. m
      BY <1>3, <1>4, <2>1
    <3>2. CASE b \in Ahead(fr, c, 0)
      <4>1. b \in 1 .. n /\ bs[b].fn = bt
        BY <1>1, <2>1, <3>2 DEF Home
      <4>2. cs[b].fn = bs[b].fn
        BY <4>1 DEF Changed
      <4>3. QED
        BY <1>2, <4>1, <4>2
    <3>3. CASE b \in (n + 1) .. m
      <4>1. c # 0 /\ c \in Ahead(fr, c, 0)
        BY <1>2, <1>3, <1>4
      <4>2. bs[c].fn = bt
        BY <1>1, <4>1 DEF Home
      <4>3. cs[b].fn = bs[c].fn
        BY <3>3, <4>1 DEF Changed
      <4>4. b \in 1 .. m
        BY <1>2, <3>3
      <4>5. QED
        BY <4>2, <4>3, <4>4
    <3>4. QED
      BY <3>1, <3>2, <3>3
  <2>2. QED
    BY <2>1 DEF Home
<1>9. AllocasHome(nv, cs, bt)
  <2>1. ASSUME NEW x \in Names, nv[x] # 0
        PROVE  nv[x] \in 1 .. m /\ cs[nv[x]].fn = bt
    <3>1. nv[x] \in 1 .. n /\ bs[nv[x]].fn = bt
      BY <1>1, <2>1 DEF AllocasHome
    <3>2. cs[nv[x]].fn = bs[nv[x]].fn
      BY <3>1 DEF Changed
    <3>3. QED
      BY <1>2, <3>1, <3>2
  <2>2. QED
    BY <2>1 DEF AllocasHome
<1>10. PICK q : q = Open(p, k)
  OBVIOUS
<1>11. /\ q.walk = v /\ q.decl = p.decl /\ q.known = p.known /\ q.caller = p.caller
       /\ q.fns = p.fns
  BY <1>5, <1>10 DEF Open, View
<1>12. gr # << >>
  OBVIOUS
<1>13. Known(q, sy, gr, bt)
  BY <1>1, <1>11, <1>12 DEF Known
<1>14. Sim(q, G, g, cs, c2, nv, sy, gr, bt)
  BY <1>4, <1>6, <1>7, <1>8, <1>9, <1>11, <1>13 DEF Sim
<1>15. QED
  BY <1>10, <1>14 DEF Placed

LEMMA LiveWithin ==
    ASSUME NEW fr, NEW c, NEW D, NEW n, NEW nv, NEW decl, NEW h, Live(fr, c, D, n, nv, decl, h),
           NEW gr, NEW c2, NEW decl2, NEW g,
           \A l \in Nat, x \in Names : <<l, x>> \in decl2 =>
               <<l, x>> \in decl /\ Ahead(gr, c2, g[l]) \subseteq Ahead(fr, c, h[l]) \cup {0}
    PROVE  Live(gr, c2, D, n, nv, decl2, g)
<1>1. ASSUME NEW l \in Nat, NEW x \in Names, <<l, x>> \in decl2
      PROVE  nv[x] \in 1 .. n /\ Ahead(gr, c2, g[l]) \subseteq D[nv[x]] \cup {0}
  <2>1. nv[x] \in 1 .. n /\ Ahead(fr, c, h[l]) \subseteq D[nv[x]] \cup {0}
    BY <1>1 DEF Live
  <2>2. QED
    BY <1>1, <2>1
<1>2. QED
  BY <1>1 DEF Live

\* Where the names of the outer blocks stand.
LEMMA OuterPlaces ==
    ASSUME NEW p, InWalk(p), NEW fr \in Seq(CGP!FrameType), NEW h, Aligned(fr, p.walk, h),
           NEW l \in Nat, NEW x, <<l, x>> \in Outer(p)
    PROVE  <<l, x>> \in p.decl /\ l \in 1 .. Len(p.walk) - 1 /\ h[l] \in 0 .. Len(fr) - 1
<1>1. p.walk \in Seq(TC!Blocks) /\ Len(p.walk) \in Nat /\ Len(fr) \in Nat
  BY Places
<1>2. <<l, x>> \in p.decl /\ <<l, x>>[1] = l /\ <<l, x>>[1] < Len(p.walk)
  BY DEF Outer
<1>3. l \in 1 .. Len(p.walk) /\ l < Len(p.walk)
  BY <1>2, Places
<1>4. l \in 1 .. Len(p.walk) - 1
  BY <1>1, <1>3
<1>5. h[l] \in 1 .. Len(fr) - 1
  BY <1>1, <1>4, AlignedFacts
<1>6. QED
  BY <1>1, <1>2, <1>4, <1>5

\* A block closes: the builder goes on at the end of its frame.
LEMMA SimPop ==
    ASSUME NEW p, InWalk(p), NEW D, NEW h, NEW bs, Len(bs) \in Nat, NEW c, NEW nv, NEW sy,
           NEW fr \in Seq(CGP!FrameType), fr # << >>, fr[Len(fr)].kind # "elseif",
           NEW bt, Sim(p, D, h, bs, c, nv, sy, fr, bt),
           NEW c2, c2 = fr[Len(fr)].end, NEW gr, gr = Popped(fr), gr # << >>
    PROVE  Placed(Close(p), D, bs, c2, nv, sy, gr, bt)
<1> PICK n, w, v : n = Len(bs) /\ w = p.walk /\ v = Popped(w)
  OBVIOUS
<1>1. /\ Chain(fr, c, D, n) /\ Aligned(fr, w, h)
      /\ Live(fr, c, D, n, nv, p.decl, h) /\ Home(fr, c, bs, bt)
      /\ AllocasHome(nv, bs, bt) /\ Known(p, sy, fr, bt)
  BY DEF Sim
<1>2. w \in Seq(TC!Blocks) /\ Len(w) \in Nat /\ Len(fr) \in Nat \ {0} /\ n \in Nat
  <2>1. Len(fr) \in Nat \ {0}
    BY LastFacts
  <2>2. w \in Seq(TC!Blocks) /\ Len(w) \in Nat
    BY <1>1, Places
  <2>3. QED
    BY <2>1, <2>2
<1>3. \A i \in 0 .. Len(fr) - 1 : Ahead(gr, c2, i) \subseteq Ahead(fr, c, i)
  BY AheadPopped
<1>4. Chain(gr, c2, D, n)
  BY <1>1, <1>2, ChainPop
<1>5. PICK g : Aligned(gr, v, g) /\ \A l \in 1 .. Len(w) - 1 : g[l] = h[l]
  <2>1. Aligns(gr, v, h, Len(w) - 1)
    BY <1>1, <1>2, AlignedPop
  <2>2. QED
    BY <2>1 DEF Aligns
<1>6. Live(gr, c2, D, n, nv, Outer(p), g)
  <2>1. ASSUME NEW l \in Nat, NEW x \in Names, <<l, x>> \in Outer(p)
        PROVE  <<l, x>> \in p.decl /\ Ahead(gr, c2, g[l]) \subseteq Ahead(fr, c, h[l]) \cup {0}
    <3>1. <<l, x>> \in p.decl /\ l \in 1 .. Len(w) - 1 /\ h[l] \in 0 .. Len(fr) - 1
      BY <1>1, <2>1, OuterPlaces
    <3>2. QED
      BY <1>3, <1>5, <3>1
  <2>2. QED
    BY <1>1, <2>1, LiveWithin
<1>7. Home(gr, c2, bs, bt)
  <2>1. 0 \in 0 .. Len(fr) - 1
    BY <1>2
  <2>2. QED
    BY <1>1, <1>3, <2>1 DEF Home
<1>8. PICK q : q = Close(p)
  OBVIOUS
<1>9. /\ q.walk = v /\ q.decl = Outer(p) /\ q.known = p.known /\ q.caller = p.caller
      /\ q.fns = p.fns
  BY <1>8 DEF Close, View
<1>10. Known(q, sy, gr, bt)
  BY <1>1, <1>9 DEF Known
<1>11. Sim(q, D, g, bs, c2, nv, sy, gr, bt)
  BY <1>1, <1>4, <1>5, <1>6, <1>7, <1>9, <1>10 DEF Sim
<1>12. QED
  BY <1>8, <1>11 DEF Placed

\* An if that was the if_else of another is complete: the other is, too.
LEMMA SimUnskip ==
    ASSUME NEW p, InWalk(p), NEW D, NEW h, NEW bs, Len(bs) \in Nat, NEW c, NEW nv, NEW sy,
           NEW fr \in Seq(CGP!FrameType), fr # << >>, fr[Len(fr)].kind = "elseif",
           NEW bt, Sim(p, D, h, bs, c, nv, sy, fr, bt),
           NEW c2, c2 = fr[Len(fr)].end, NEW gr, gr = Popped(fr), gr # << >>
    PROVE  Sim(p, D, h, bs, c2, nv, sy, gr, bt)
<1> PICK n, w : n = Len(bs) /\ w = p.walk
  OBVIOUS
<1>1. /\ Chain(fr, c, D, n) /\ Aligned(fr, w, h)
      /\ Live(fr, c, D, n, nv, p.decl, h) /\ Home(fr, c, bs, bt)
      /\ AllocasHome(nv, bs, bt) /\ Known(p, sy, fr, bt)
  BY DEF Sim
<1>2. w \in Seq(TC!Blocks) /\ Len(w) \in Nat /\ Len(fr) \in Nat \ {0} /\ n \in Nat
  <2>1. Len(fr) \in Nat \ {0}
    BY LastFacts
  <2>2. w \in Seq(TC!Blocks) /\ Len(w) \in Nat
    BY <1>1, Places
  <2>3. QED
    BY <2>1, <2>2
<1>3. \A i \in 0 .. Len(fr) - 1 : Ahead(gr, c2, i) \subseteq Ahead(fr, c, i)
  BY AheadPopped
<1>4. Chain(gr, c2, D, n)
  BY <1>1, <1>2, ChainPop
<1>5. Aligned(gr, w, h) /\ \A i \in 1 .. Len(w) : h[i] \in 1 .. Len(fr) - 1
  BY <1>1, <1>2, AlignedUnskip
<1>6. Live(gr, c2, D, n, nv, p.decl, h)
  <2>1. ASSUME NEW l \in Nat, NEW x \in Names, <<l, x>> \in p.decl
        PROVE  <<l, x>> \in p.decl /\ Ahead(gr, c2, h[l]) \subseteq Ahead(fr, c, h[l]) \cup {0}
    <3>1. <<l, x>>[1] \in 1 .. Len(w) /\ <<l, x>>[1] = l
      BY <1>1, <2>1, Places
    <3>2. h[l] \in 0 .. Len(fr) - 1
      BY <1>2, <1>5, <3>1
    <3>3. QED
      BY <1>3, <2>1, <3>2
  <2>2. QED
    BY <1>1, <2>1, LiveWithin
<1>7. Home(gr, c2, bs, bt)
  <2>1. 0 \in 0 .. Len(fr) - 1
    BY <1>2
  <2>2. QED
    BY <1>1, <1>3, <2>1 DEF Home
<1>8. Known(p, sy, gr, bt)
  BY <1>1 DEF Known
<1>9. QED
  BY <1>1, <1>4, <1>5, <1>6, <1>7, <1>8 DEF Sim

\* The builder turns to the else block: the frame gives way to that of the
\* else, or of the if that is the if_else.
LEMMA SimTurn ==
    ASSUME NEW p, InWalk(p), NEW D, NEW h, NEW bs, RegionsOf(bs, D), Len(bs) \in Nat,
           NEW c, NEW nv, NEW sy,
           NEW fr \in Seq(CGP!FrameType), fr # << >>, fr[Len(fr)].kind # "elseif",
           NEW bt, Sim(p, D, h, bs, c, nv, sy, fr, bt),
           NEW f \in CGP!FrameType, f.end = fr[Len(fr)].end, f.els = 0, f.body = 0,
           NEW c2, c2 = fr[Len(fr)].els, NEW gr, gr = Append(Popped(fr), f)
    PROVE  /\ f.kind = "else" => Placed(Reopen(p, "else"), D, bs, c2, nv, sy, gr, bt)
           /\ f.kind = "elseif" => Placed(Close(p), D, bs, c2, nv, sy, gr, bt)
<1> PICK n, w, v, us : n = Len(bs) /\ w = p.walk /\ v = Popped(w) /\ us = Popped(fr)
  OBVIOUS
<1>1. /\ Chain(fr, c, D, n) /\ Aligned(fr, w, h)
      /\ Live(fr, c, D, n, nv, p.decl, h) /\ Home(fr, c, bs, bt)
      /\ AllocasHome(nv, bs, bt) /\ Known(p, sy, fr, bt)
  BY DEF Sim
<1>2. w \in Seq(TC!Blocks) /\ Len(w) \in Nat /\ Len(fr) \in Nat \ {0} /\ n \in Nat
  <2>1. Len(fr) \in Nat \ {0}
    BY LastFacts
  <2>2. w \in Seq(TC!Blocks) /\ Len(w) \in Nat
    BY <1>1, Places
  <2>3. QED
    BY <2>1, <2>2
<1>3. us \in Seq(CGP!FrameType) /\ gr = Append(us, f) /\ gr # << >>
  <2>1. us \in Seq(CGP!FrameType)
    BY LastFacts
  <2>2. QED
    BY <2>1
<1>4. w # << >> /\ v \in Seq(TC!Blocks) /\ Len(v) = Len(w) - 1
  <2>1. w # << >> /\ h[Len(w)] = Len(fr)
    BY <1>1, <1>2, AlignedFacts
  <2>2. Popped(w) \in Seq(TC!Blocks) /\ Len(Popped(w)) = Len(w) - 1
    BY <1>2, <2>1, LastFacts
  <2>3. QED
    BY <2>1, <2>2
<1>5. Chain(gr, c2, D, n) /\ \A i \in 0 .. Len(fr) - 1 : Ahead(gr, c2, i) \subseteq Ahead(fr, c, i) \cup {0}
  <2>1. ZeroFree(D, n)
    BY DEF RegionsOf, ZeroFree
  <2>2. /\ n \in Nat /\ us = Popped(fr) /\ Chain(fr, c, D, n) /\ gr = Append(us, f)
        /\ c2 = fr[Len(fr)].els /\ f.end = fr[Len(fr)].end /\ f.els = 0 /\ f.body = 0
    BY <1>1, <1>2, <1>3
  <2>3. Chain(gr, c2, D, n) /\ Onward(fr, c, gr, c2, Len(fr) - 1, n, n)
    BY <2>1, <2>2, ChainTurn
  <2>4. (n + 1) .. n = {}
    BY <1>2
  <2>5. ASSUME NEW i \in 0 .. Len(fr) - 1
        PROVE  Ahead(gr, c2, i) \subseteq Ahead(fr, c, i) \cup {0}
    <3>1. Ahead(gr, c2, i) \subseteq Ahead(fr, c, i) \cup {0} \cup ((n + 1) .. n)
      BY <2>3 DEF Onward
    <3>2. QED
      BY <2>4, <3>1
  <2>6. QED
    BY <2>3, <2>5
<1>6. PICK g : Aligned(us, v, g) /\ \A l \in 1 .. Len(w) - 1 : g[l] = h[l]
  <2>1. Aligns(us, v, h, Len(w) - 1)
    BY <1>1, <1>2, AlignedPop
  <2>2. QED
    BY <2>1 DEF Aligns
<1>7. ASSUME NEW k, \A l \in 1 .. Len(w) - 1 : k[l] = g[l]
      PROVE  Live(gr, c2, D, n, nv, Outer(p), k)
  <2>1. ASSUME NEW l \in Nat, NEW x \in Names, <<l, x>> \in Outer(p)
        PROVE  <<l, x>> \in p.decl /\ Ahead(gr, c2, k[l]) \subseteq Ahead(fr, c, h[l]) \cup {0}
    <3>1. <<l, x>> \in p.decl /\ l \in 1 .. Len(w) - 1 /\ h[l] \in 0 .. Len(fr) - 1
      BY <1>1, <2>1, OuterPlaces
    <3>2. k[l] = h[l]
      BY <1>6, <1>7, <3>1
    <3>3. QED
      BY <1>5, <3>1, <3>2
  <2>2. QED
    BY <1>1, <2>1, LiveWithin
<1>8. Home(gr, c2, bs, bt)
  <2>1. 0 \in 0 .. Len(fr) - 1
    BY <1>2
  <2>2. QED
    BY <1>1, <1>5, <2>1 DEF Home
<1>9. ASSUME f.kind = "else"
      PROVE  Placed(Reopen(p, "else"), D, bs, c2, nv, sy, gr, bt)
  <2>1. PICK u, e : e = "else" /\ u = Append(v, e)
    OBVIOUS
  <2>2. f.kind \in TC!Blocks /\ e = f.kind
    BY <1>9, <2>1 DEF TC!Blocks
  <2>3. Aligns(gr, u, g, Len(v))
    BY <1>3, <1>4, <1>6, <2>1, <2>2, AlignedPush
  <2>4. PICK k : Aligned(gr, u, k) /\ \A l \in 1 .. Len(v) : k[l] = g[l]
    BY <2>3 DEF Aligns
  <2>5. Live(gr, c2, D, n, nv, Outer(p), k)
    BY <1>4, <1>7, <2>4
  <2>6. PICK q : q = Reopen(p, "else")
    OBVIOUS
  <2>7. /\ q.walk = u /\ q.decl = Outer(p) /\ q.known = p.known /\ q.caller = p.caller
        /\ q.fns = p.fns
    BY <2>1, <2>6 DEF Reopen, View
  <2>8. Known(q, sy, gr, bt)
    BY <1>1, <1>3, <2>7 DEF Known
  <2>9. Sim(q, D, k, bs, c2, nv, sy, gr, bt)
    BY <1>1, <1>5, <1>8, <2>4, <2>5, <2>7, <2>8 DEF Sim
  <2>10. QED
    BY <2>6, <2>9 DEF Placed
<1>10. ASSUME f.kind = "elseif"
       PROVE  Placed(Close(p), D, bs, c2, nv, sy, gr, bt)
  <2>1. Aligned(gr, v, g)
    BY <1>3, <1>4, <1>6, <1>10, AlignedSkip
  <2>2. Live(gr, c2, D, n, nv, Outer(p), g)
    BY <1>7
  <2>3. PICK q : q = Close(p)
    OBVIOUS
  <2>4. /\ q.walk = v /\ q.decl = Outer(p) /\ q.known = p.known /\ q.caller = p.caller
        /\ q.fns = p.fns
    BY <2>3 DEF Close, View
  <2>5. Known(q, sy, gr, bt)
    BY <1>1, <1>3, <2>4 DEF Known
  <2>6. Sim(q, D, g, bs, c2, nv, sy, gr, bt)
    BY <1>1, <1>5, <1>8, <2>1, <2>2, <2>4, <2>5 DEF Sim
  <2>7. QED
    BY <2>3, <2>6 DEF Placed
<1>11. QED
  BY <1>9, <1>10

\* A variable declared in the innermost block; its alloca is where the builder is.
LEMMA SimDeclare ==
    ASSUME NEW p, InWalk(p), NEW D, NEW h, NEW bs, RegionsOf(bs, D), Len(bs) \in Nat,
           NEW c \in 1 .. Len(bs), NEW nv, NEW sy,
           NEW fr \in Seq(CGP!FrameType), fr # << >>, fr[Len(fr)].kind # "elseif",
           NEW bt, Sim(p, D, h, bs, c, nv, sy, fr, bt), NEW x \in Names, nv[x] = 0,
           DOMAIN nv = Names, NEW nw, nw = [nv EXCEPT ![x] = c]
    PROVE  Sim(Declared(p, x), D, h, bs, c, nw, sy, fr, bt)
<1> PICK n, w : n = Len(bs) /\ w = p.walk
  OBVIOUS
<1>1. /\ Chain(fr, c, D, n) /\ Aligned(fr, w, h)
      /\ Live(fr, c, D, n, nv, p.decl, h) /\ Home(fr, c, bs, bt)
      /\ AllocasHome(nv, bs, bt) /\ Known(p, sy, fr, bt)
  BY DEF Sim
<1>2. w \in Seq(TC!Blocks) /\ Len(w) \in Nat /\ Len(fr) \in Nat \ {0} /\ h[Len(w)] = Len(fr)
  BY <1>1, Places, AlignedFacts
<1>3. nw[x] = c /\ \A y \in Names : y # x => nw[y] = nv[y]
  OBVIOUS
<1>4. Ahead(fr, c, Len(fr)) \subseteq {c}
  BY <1>2 DEF Ahead
<1>5. c \in D[c]
  BY DEF RegionsOf
<1>6. ASSUME NEW l \in Nat, NEW y \in Names, <<l, y>> \in p.decl \cup {<<Len(w), x>>}
      PROVE  nw[y] \in 1 .. n /\ Ahead(fr, c, h[l]) \subseteq D[nw[y]] \cup {0}
  <2>1. CASE <<l, y>> \in p.decl
    <3>1. nv[y] \in 1 .. n /\ Ahead(fr, c, h[l]) \subseteq D[nv[y]] \cup {0}
      BY <1>1, <2>1 DEF Live
    <3>2. y # x
      BY <3>1
    <3>3. QED
      BY <1>3, <3>1, <3>2
  <2>2. CASE <<l, y>> = <<Len(w), x>>
    <3>1. l = Len(w) /\ y = x
      BY <2>2
    <3>2. QED
      BY <1>2, <1>3, <1>4, <1>5, <3>1
  <2>3. QED
    BY <1>6, <2>1, <2>2
<1>7. Live(fr, c, D, n, nw, p.decl \cup {<<Len(w), x>>}, h)
  BY <1>6 DEF Live
<1>8. AllocasHome(nw, bs, bt)
  <2>1. c \in Ahead(fr, c, 0) /\ c # 0
    BY InAhead
  <2>2. bs[c].fn = bt
    BY <1>1, <2>1 DEF Home
  <2>3. ASSUME NEW y \in Names, nw[y] # 0
        PROVE  nw[y] \in 1 .. Len(bs) /\ bs[nw[y]].fn = bt
    BY <1>1, <1>3, <2>2, <2>3 DEF AllocasHome
  <2>4. QED
    BY <2>3 DEF AllocasHome
<1>9. PICK q : q = Declared(p, x)
  OBVIOUS
<1>10. /\ q.walk = w /\ q.decl = p.decl \cup {<<Len(w), x>>} /\ q.known = p.known
       /\ q.caller = p.caller /\ q.fns = p.fns
  BY <1>9 DEF Declared, View
<1>11. Known(q, sy, fr, bt)
  BY <1>1, <1>10 DEF Known
<1>12. Sim(q, D, h, bs, c, nw, sy, fr, bt)
  BY <1>1, <1>7, <1>8, <1>10, <1>11 DEF Sim
<1>13. QED
  BY <1>9, <1>12

(***************************************************************************)
(* The generator follows the checker: its state is that of a place p.      *)
(***************************************************************************)
Follows(p, bs, us, c, nv, sy, fr, bt) ==
    \E D, h : RegionsOf(bs, D) /\ UsesIn(us, D, Len(bs)) /\ Sim(p, D, h, bs, c, nv, sy, fr, bt)

\* Block at may load what e reads, and what e calls is complete.
Ready(e, at, D, n, nv, sy, bt) ==
    /\ \A x \in VarsOf(e) : nv[x] \in 1 .. n /\ at \in D[nv[x]]
    /\ \A f \in CallsOf(e) : f \in DOMAIN sy /\ sy[f] < bt

\* at is ahead of the blocks that declare the names of decl.
Within(decl, at, fr, c, h) ==
    \A l \in Nat, x \in Names : <<l, x>> \in decl => at \in Ahead(fr, c, h[l])

\* What the checker found readable is ready.
LEMMA ReadsReady ==
    ASSUME NEW p, InWalk(p), NEW decl, decl \subseteq p.decl, NEW e \in Exprs, Readable(decl, p, e),
           NEW D, NEW h, NEW bs, RegionsOf(bs, D), Len(bs) \in Nat,
           NEW c, NEW nv, NEW sy, \A f \in DOMAIN sy : sy[f] \in Nat,
           NEW fr, fr # << >>, NEW bt,
           Sim(p, D, h, bs, c, nv, sy, fr, bt),
           NEW at \in 1 .. Len(bs), Within(decl, at, fr, c, h)
    PROVE  Ready(e, at, D, Len(bs), nv, sy, bt)
<1>1. Live(fr, c, D, Len(bs), nv, p.decl, h) /\ Known(p, sy, fr, bt) /\ p.fns \in Nat
  BY DEF Sim, InWalk, Views
<1>2. ASSUME NEW x \in VarsOf(e)
      PROVE  nv[x] \in 1 .. Len(bs) /\ at \in D[nv[x]]
  <2>1. x \in Names
    BY ExprsAssumption
  <2>2. PICK l \in Nat : <<l, x>> \in decl
    BY DEF Readable
  <2>3. nv[x] \in 1 .. Len(bs) /\ Ahead(fr, c, h[l]) \subseteq D[nv[x]] \cup {0}
    BY <1>1, <2>1, <2>2 DEF Live
  <2>4. at \in Ahead(fr, c, h[l]) /\ at # 0
    BY <2>1, <2>2 DEF Within
  <2>5. QED
    BY <2>3, <2>4
<1>3. ASSUME NEW f \in CallsOf(e)
      PROVE  f \in DOMAIN sy /\ sy[f] < bt
  <2>1. f \in p.known
    BY DEF Readable
  <2>2. f \in DOMAIN sy /\ sy[f] <= p.fns /\ bt = p.fns + 1
    BY <1>1, <2>1 DEF Known
  <2>3. sy[f] \in Nat
    BY <2>2
  <2>4. QED
    BY <1>1, <2>2, <2>3
<1>4. QED
  BY <1>2, <1>3 DEF Ready

LEMMA HereWithin ==
    ASSUME NEW decl, NEW fr, NEW c, NEW h
    PROVE  Within(decl, c, fr, c, h)
BY DEF Within, Ahead

\* The else block of the innermost frame is ahead of the blocks around it.
LEMMA ElseWithin ==
    ASSUME NEW p, InWalk(p), NEW fr \in Seq(CGP!FrameType), fr # << >>, NEW c,
           NEW h, Aligned(fr, p.walk, h), NEW at, at = fr[Len(fr)].els
    PROVE  Within(Outer(p), at, fr, c, h)
<1>1. ASSUME NEW l \in Nat, NEW x \in Names, <<l, x>> \in Outer(p)
      PROVE  at \in Ahead(fr, c, h[l])
  <2>1. h[l] \in 0 .. Len(fr) - 1
    BY <1>1, OuterPlaces
  <2>2. Len(fr) \in Nat \ {0}
    BY LastFacts
  <2>3. Len(fr) \in (h[l] + 1) .. Len(fr)
    BY <2>1, <2>2
  <2>4. QED
    BY <2>3, EndsAhead
<1>2. QED
  BY <1>1 DEF Within

\* The expression that is ready: the generator does not throw, and what it
\* records keeps to the regions.
LEMMA Evaluated ==
    ASSUME NEW e \in Exprs, NEW at, NEW D, NEW n,
           Ready(e, at, D, n, named_values, symbols, built),
           UsesIn(uses, D, n), NEW stores, UsesIn(stores, D, n), CallsGoBack
    PROVE  /\ CGP!Emits(e)
           /\ CGP!Evaluate(e, at, stores) => UsesIn(uses', D, n) /\ CallsGoBack'
<1>1. CGP!Emits(e)
  BY DEF Ready, CGP!Emits
<1>2. ASSUME CGP!Evaluate(e, at, stores)
      PROVE  UsesIn(uses', D, n)
  <2>1. ASSUME NEW u \in uses'
        PROVE  u[1] \in 1 .. n /\ u[2] \in D[u[1]]
    <3>1. CASE u \in uses \cup stores
      BY <3>1 DEF UsesIn
    <3>2. CASE u \in CGP!Loads(e, at)
      BY <3>2 DEF CGP!Loads, Ready
    <3>3. QED
      BY <1>2, <2>1, <3>1, <3>2 DEF CGP!Evaluate
  <2>2. QED
    BY <2>1 DEF UsesIn
<1>3. ASSUME CGP!Evaluate(e, at, stores)
      PROVE  CallsGoBack'
  BY <1>3 DEF CallsGoBack, CGP!Evaluate, Ready
<1>4. QED
  BY <1>1, <1>2, <1>3

LEMMA NoStores == \A D, n : UsesIn({}, D, n)
BY DEF UsesIn

(***************************************************************************)
(* What the generator's own invariant says while it runs.                  *)
(***************************************************************************)
LEMMA GeneratorFacts ==
    ASSUME CGP!VInv
    PROVE  /\ built \in Nat /\ CGP!BlocksOK(blocks, built) /\ Len(blocks) \in Nat
           /\ frames # << >> => cur \in 1 .. Len(blocks)
           /\ cur \in 0 .. Len(blocks)
           /\ frames \in Seq(CGP!FrameType) /\ Len(frames) \in Nat
           /\ CGP!Matches(frames, loop_stack) /\ Len(loop_stack) \in Nat
           /\ \A b \in 1 .. Len(blocks) : blocks[b].succ \subseteq 1 .. Len(blocks)
           /\ named_values \in [Names -> 0 .. Len(blocks)]
           /\ \A f \in DOMAIN symbols : symbols[f] \in Nat
<1>1. CGP!Built /\ CGP!Recorded
  BY DEF CGP!VInv, CGP!CInv
<1>2. built \in Nat /\ \A f \in DOMAIN symbols : symbols[f] \in Nat
  BY <1>1 DEF CGP!Built, CGP!Recorded
<1>3. QED
  BY <1>1, <1>2 DEF CGP!Built, CGP!Recorded, CGP!Stacks, CGP!FramesOK, CGP!LoopsOK, CGP!BlocksOK

(***************************************************************************)
(* Simple statements: the builder stays in its block.                      *)
(***************************************************************************)
\* The edges of E lead where what they leave is already.
Inward(E, D, n) ==
    \A s, t : <<s, t>> \in E => s \in 1 .. n /\ t \in 1 .. n /\ Enters(D, n, s, t)

LEMMA Stays ==
    ASSUME NEW p, InWalk(p), NEW D, NEW h, NEW bs, RegionsOf(bs, D),
           \A b \in 1 .. Len(bs) : bs[b].succ \subseteq 1 .. Len(bs),
           NEW us, UsesIn(us, D, Len(bs)), NEW c, NEW nv, NEW sy,
           NEW fr \in Seq(CGP!FrameType), NEW bt, Sim(p, D, h, bs, c, nv, sy, fr, bt),
           NEW cs, NEW at \in 0 .. Len(bs), NEW E, Changed(bs, cs, at, E), Len(cs) = Len(bs),
           Inward(E, D, Len(bs)),
           NEW gr \in Seq(CGP!FrameType), Alike(fr, gr)
    PROVE  /\ RegionsOf(cs, D) /\ UsesIn(us, D, Len(cs))
           /\ Sim(p, D, h, cs, c, nv, sy, gr, bt)
<1>1. Len(bs) \in Nat /\ \A b \in 1 .. Len(bs) : cs[b].fn = bs[b].fn
  BY DEF Changed
<1>2. \A s, t : <<s, t>> \in E =>
          \/ s = at /\ t \in (Len(bs) + 1) .. Len(cs)
          \/ s \in 1 .. Len(bs) /\ t \in 1 .. Len(bs) /\ Enters(D, Len(bs), s, t)
  BY DEF Inward
<1>3. PICK G : /\ RegionsOf(cs, G)
               /\ GrownFrom(D, Len(bs), Len(cs), at, G)
               /\ UsesIn(us, G, Len(cs))
  BY <1>2, Grows
<1>4. G = D
  <2>1. PICK n \in Nat : n = Len(bs)
    BY <1>1
  <2>2. D \in [1 .. n -> SUBSET (1 .. n)] /\ GrownFrom(D, n, n, at, G)
    BY <1>3, <2>1 DEF RegionsOf
  <2>3. QED
    BY <2>2, GrownNone
<1>5. Sim(p, D, h, bs, c, nv, sy, gr, bt)
  BY SimAlike
<1>6. Sim(p, D, h, cs, c, nv, sy, gr, bt)
  BY <1>1, <1>5, SimInstructions
<1>7. QED
  BY <1>3, <1>4, <1>6

LEMMA NoEdges == \A D, n : Inward({}, D, n)
BY DEF Inward

LEMMA OneEdge ==
    ASSUME NEW D, NEW n, NEW s \in 1 .. n, NEW t \in 1 .. n, Enters(D, n, s, t)
    PROVE  Inward({<<s, t>>}, D, n)
BY DEF Inward

\* To the end or the body of a statement one may go from within.
LEMMA EntersEnd ==
    ASSUME NEW fr, NEW D, NEW n, NEW c \in 1 .. n, Chain(fr, c, D, n),
           NEW i \in 1 .. Len(fr), NEW t, t = fr[i].end \/ t = fr[i].body
    PROVE  Enters(D, n, c, t)
<1>1. c \in Ahead(fr, c, i) /\ c # 0
  BY DEF Ahead
<1>2. ASSUME NEW d \in 1 .. n, t \in D[d] \ {d}
      PROVE  c \in D[d]
  <2>1. Ahead(fr, c, i) \subseteq D[d] \cup {0}
    BY <1>2 DEF Chain
  <2>2. QED
    BY <1>1, <2>1
<1>3. QED
  BY <1>2 DEF Enters

LEMMA MarkedAlike ==
    ASSUME NEW fr \in Seq(CGP!FrameType), fr # << >>, NEW last \in CGP!Lasts,
           NEW gr, gr = [fr EXCEPT ![Len(fr)].last = last]
    PROVE  gr \in Seq(CGP!FrameType) /\ Alike(fr, gr) /\ gr # << >>
<1>1. Len(fr) \in 1 .. Len(fr) /\ fr[Len(fr)] \in CGP!FrameType
  BY LastFacts
<1>2. [fr[Len(fr)] EXCEPT !.last = last] \in CGP!FrameType
  BY <1>1 DEF CGP!FrameType
<1>3. gr = [fr EXCEPT ![Len(fr)] = [fr[Len(fr)] EXCEPT !.last = last]]
  OBVIOUS
<1>4. gr \in Seq(CGP!FrameType) /\ Len(gr) = Len(fr) /\ gr # << >>
  BY <1>1, <1>2, <1>3
<1>5. \A i \in 1 .. Len(fr) : i # Len(fr) => gr[i] = fr[i]
  BY <1>3
<1>6. /\ gr[Len(fr)].kind = fr[Len(fr)].kind /\ gr[Len(fr)].body = fr[Len(fr)].body
      /\ gr[Len(fr)].els = fr[Len(fr)].els /\ gr[Len(fr)].end = fr[Len(fr)].end
  BY <1>1, <1>3 DEF CGP!FrameType
<1>7. QED
  BY <1>4, <1>5, <1>6 DEF Alike

\* An instruction that needs what e reads.
LEMMA Instructs ==
    ASSUME CGP!VInv, CallsGoBack, NEW p, InWalk(p),
           NEW D, NEW h, RegionsOf(blocks, D), UsesIn(uses, D, Len(blocks)),
           Sim(p, D, h, blocks, cur, named_values, symbols, frames, built), frames # << >>,
           NEW e \in Exprs, Readable(p.decl, p, e)
    PROVE  /\ Ready(e, cur, D, Len(blocks), named_values, symbols, built)
           /\ CGP!Emits(e)
<1>1. Within(p.decl, cur, frames, cur, h)
  BY HereWithin
<1>2. Ready(e, cur, D, Len(blocks), named_values, symbols, built)
  <2>1. p.decl \subseteq p.decl /\ cur \in 1 .. Len(blocks) /\ Len(blocks) \in Nat
        /\ \A f \in DOMAIN symbols : symbols[f] \in Nat
    BY GeneratorFacts
  <2>2. QED
    BY <1>1, <2>1, ReadsReady
<1>3. QED
  BY <1>2 DEF Ready, CGP!Emits

FollowsNow(p) == Follows(p, blocks, uses, cur, named_values, symbols, frames, built)

\* The generator is at D and h where the checker was at p.
AtPlace(p, D, h) ==
    /\ RegionsOf(blocks, D) /\ UsesIn(uses, D, Len(blocks))
    /\ Sim(p, D, h, blocks, cur, named_values, symbols, frames, built)

LEMMA FollowsAt ==
    ASSUME NEW p, FollowsNow(p)
    PROVE  \E D, h : AtPlace(p, D, h)
BY DEF FollowsNow, Follows, AtPlace

\* One more instruction in the current block, and no edge that leads elsewhere.
LEMMA Inserts ==
    ASSUME CGP!VInv, CallsGoBack, NEW p, InWalk(p), NEW D, NEW h, AtPlace(p, D, h), frames # << >>,
           NEW t \in BOOLEAN, NEW targets, NEW E, \A d \in targets : <<cur, d>> \in E,
           Inward(E, D, Len(blocks)), NEW cs, cs = CGP!Insert(blocks, cur, t, targets),
           NEW last \in CGP!Lasts, NEW gr, gr = CGP!Marked(last)
    PROVE  /\ RegionsOf(cs, D) /\ UsesIn(uses, D, Len(cs)) /\ Len(cs) = Len(blocks)
           /\ Sim(p, D, h, cs, cur, named_values, symbols, gr, built)
           /\ \A b \in 1 .. Len(blocks) : cs[b].fn = blocks[b].fn
<1>1. /\ built \in Nat /\ CGP!BlocksOK(blocks, built) /\ cur \in 1 .. Len(blocks)
      /\ cur \in 0 .. Len(blocks)
      /\ frames \in Seq(CGP!FrameType)
      /\ \A b \in 1 .. Len(blocks) : blocks[b].succ \subseteq 1 .. Len(blocks)
  BY GeneratorFacts
<1>2. Changed(blocks, cs, cur, E) /\ Len(cs) = Len(blocks)
  BY <1>1, InsertEdges
<1>3. gr \in Seq(CGP!FrameType) /\ Alike(frames, gr)
  <2>1. gr = [frames EXCEPT ![Len(frames)].last = last]
    BY DEF CGP!Marked
  <2>2. QED
    BY <1>1, <2>1, MarkedAlike
<1>4. PICK bs, us, c, nv, sy, fr, bt :
          /\ bs = blocks /\ us = uses /\ c = cur /\ nv = named_values /\ sy = symbols
          /\ fr = frames /\ bt = built
  OBVIOUS
<1>5. /\ RegionsOf(bs, D) /\ UsesIn(us, D, Len(bs)) /\ Sim(p, D, h, bs, c, nv, sy, fr, bt)
  BY <1>4 DEF AtPlace
<1>6. /\ \A b \in 1 .. Len(bs) : bs[b].succ \subseteq 1 .. Len(bs)
      /\ fr \in Seq(CGP!FrameType) /\ c \in 0 .. Len(bs)
      /\ Changed(bs, cs, c, E) /\ Len(cs) = Len(bs) /\ Inward(E, D, Len(bs)) /\ Alike(fr, gr)
  BY <1>1, <1>2, <1>3, <1>4
<1>7. RegionsOf(cs, D) /\ UsesIn(us, D, Len(cs)) /\ Sim(p, D, h, cs, c, nv, sy, gr, bt)
  BY ONLY InWalk(p), <1>3, <1>5, <1>6, Stays
<1>8. QED
  BY <1>2, <1>4, <1>7 DEF Changed

LEMMA AtNext ==
    ASSUME NEW p, NEW D, NEW h, RegionsOf(blocks', D), UsesIn(uses', D, Len(blocks')),
           Sim(p, D, h, blocks', cur', named_values', symbols', frames', built')
    PROVE  FollowsNow(p)'
BY DEF FollowsNow, Follows

\* A statement that evaluates e at the builder's position.
LEMMA Evaluates ==
    ASSUME CGP!VInv, CallsGoBack, NEW p, InWalk(p), NEW D, NEW h, AtPlace(p, D, h), frames # << >>,
           NEW e \in Exprs, Readable(p.decl, p, e),
           NEW stores, UsesIn(stores, D, Len(blocks)), CGP!Evaluate(e, cur, stores),
           NEW t \in BOOLEAN, NEW cs, cs = CGP!Insert(blocks, cur, t, {}),
           NEW last \in CGP!Lasts, NEW gr, gr = CGP!Marked(last)
    PROVE  /\ RegionsOf(cs, D) /\ UsesIn(uses', D, Len(cs)) /\ Len(cs) = Len(blocks)
           /\ Sim(p, D, h, cs, cur, named_values, symbols, gr, built)
           /\ CallsGoBack'
<1>2. PICK n : n = Len(blocks)
  OBVIOUS
<1>3. Ready(e, cur, D, n, named_values, symbols, built)
  BY <1>2, Instructs DEF AtPlace
<1>4. UsesIn(uses', D, n) /\ CallsGoBack'
  BY <1>2, <1>3, Evaluated DEF AtPlace
<1>5. /\ RegionsOf(cs, D) /\ Len(cs) = n
      /\ Sim(p, D, h, cs, cur, named_values, symbols, gr, built)
  <2>1. PICK ts, E : ts = {} /\ E = {}
    OBVIOUS
  <2>2. Inward(E, D, Len(blocks)) /\ (\A d \in ts : <<cur, d>> \in E)
        /\ cs = CGP!Insert(blocks, cur, t, ts)
    BY <2>1, NoEdges
  <2>3. QED
    BY <1>2, <2>2, Inserts
<1>7. QED
  BY <1>2, <1>4, <1>5

LEMMA FollowsValue ==
    ASSUME CGP!VInv, CallsGoBack, NEW p, InWalk(p), NEW D, NEW h, AtPlace(p, D, h), frames # << >>,
           NEW e \in Exprs, Readable(p.decl, p, e),
           NEW stores, UsesIn(stores, D, Len(blocks)), CGP!Evaluate(e, cur, stores),
           NEW t \in BOOLEAN, blocks' = CGP!Insert(blocks, cur, t, {}),
           NEW last \in CGP!Lasts, frames' = CGP!Marked(last),
           UNCHANGED <<cur, named_values, symbols, built>>
    PROVE  FollowsNow(p)' /\ CallsGoBack'
<1>1. PICK cs, gr : cs = CGP!Insert(blocks, cur, t, {}) /\ gr = CGP!Marked(last)
  OBVIOUS
<1>2. /\ RegionsOf(cs, D) /\ UsesIn(uses', D, Len(cs))
      /\ Sim(p, D, h, cs, cur, named_values, symbols, gr, built)
      /\ CallsGoBack'
  BY <1>1, Evaluates
<1>3. blocks' = cs /\ frames' = gr
  BY <1>1
<1>4. QED
  BY <1>2, <1>3, AtNext

LEMMA FollowsShow ==
    ASSUME CGP!VInv, CallsGoBack, NEW p, InWalk(p), FollowsNow(p),
           NEW e \in Exprs, Readable(p.decl, p, e), CGP!BuildShow(e) \/ CGP!BuildReturn(e)
    PROVE  FollowsNow(p)' /\ CallsGoBack' /\ cg' = cg
<1>1. PICK D, h : AtPlace(p, D, h)
  BY FollowsAt
<1>2. frames # << >> /\ CGP!Emits(e)
  <2>1. frames # << >>
    BY DEF CGP!BuildShow, CGP!BuildReturn, CGP!InBlock
  <2>2. QED
    BY <1>1, <2>1, Instructs DEF AtPlace
<1>3. PICK t \in BOOLEAN, last \in CGP!Lasts :
          blocks' = CGP!Insert(blocks, cur, t, {}) /\ frames' = CGP!Marked(last)
  BY <1>2 DEF CGP!BuildShow, CGP!BuildReturn, CGP!Instruction, CGP!CreateRet, CGP!Lasts, CGP!Jumps
<1>4. CGP!Evaluate(e, cur, {}) /\ UNCHANGED <<cur, named_values, symbols, built, cg>>
  BY <1>2 DEF CGP!BuildShow, CGP!BuildReturn
<1>5. QED
  BY <1>1, <1>2, <1>3, <1>4, NoStores, FollowsValue

LEMMA VisibleAlloca ==
    ASSUME NEW p, NEW D, NEW h, AtPlace(p, D, h), cur # 0,
           NEW n \in Names, NEW l \in Nat, <<l, n>> \in p.decl
    PROVE  /\ named_values[n] \in 1 .. Len(blocks)
           /\ UsesIn({<<named_values[n], cur>>}, D, Len(blocks))
<1>1. Live(frames, cur, D, Len(blocks), named_values, p.decl, h)
  BY DEF AtPlace, Sim
<1>2. /\ named_values[n] \in 1 .. Len(blocks)
      /\ Ahead(frames, cur, h[l]) \subseteq D[named_values[n]] \cup {0}
  BY <1>1 DEF Live
<1>3. cur \in D[named_values[n]]
  BY <1>2 DEF Ahead
<1>4. QED
  BY <1>2, <1>3 DEF UsesIn

LEMMA FollowsAssign ==
    ASSUME CGP!VInv, CallsGoBack, NEW p, InWalk(p), FollowsNow(p),
           NEW n \in Names, NEW l \in Nat, <<l, n>> \in p.decl,
           NEW e \in Exprs, Readable(p.decl, p, e), CGP!BuildAssign(n, e)
    PROVE  FollowsNow(p)' /\ CallsGoBack' /\ cg' = cg
<1>1. PICK D, h : AtPlace(p, D, h)
  BY FollowsAt
<1>2. frames # << >> /\ cur # 0
  <2>1. frames # << >>
    BY DEF CGP!BuildAssign, CGP!InBlock
  <2>2. QED
    BY <2>1, GeneratorFacts
<1>3. CGP!Emits(e)
  BY <1>1, <1>2, Instructs DEF AtPlace
<1>4. PICK stores : stores = {<<named_values[n], cur>>}
  OBVIOUS
<1>5. named_values[n] # 0 /\ UsesIn(stores, D, Len(blocks))
  BY <1>1, <1>2, <1>4, VisibleAlloca
<1>6. PICK t \in BOOLEAN : t = FALSE
  BY Zenon
<1>7. "other" \in CGP!Lasts
  BY DEF CGP!Lasts
<1>8. /\ blocks' = CGP!Insert(blocks, cur, t, {})
      /\ CGP!Evaluate(e, cur, stores) /\ frames' = CGP!Marked("other")
      /\ UNCHANGED <<cur, named_values, symbols, built, cg>>
  BY <1>3, <1>4, <1>5, <1>6, Zenon DEF CGP!BuildAssign, CGP!Instruction
<1>9. QED
  BY <1>1, <1>2, <1>5, <1>7, <1>8, FollowsValue

\* The one reason to throw: a block that is closed declared the name.
DeclaredAgain(n) == named_values[n] # 0 /\ blocks[named_values[n]].fn = built

LEMMA FollowsDeclare ==
    ASSUME CGP!VInv, CallsGoBack, NEW p, InWalk(p), FollowsNow(p), NEW n \in Names,
           NEW e \in Exprs, Readable(p.decl, p, e), CGP!BuildDeclare(n, e)
    PROVE  \/ cg' = "threw" /\ DeclaredAgain(n)' /\ UNCHANGED <<blocks, uses, calls>>
           \/ cg' = cg /\ FollowsNow(Declared(p, n))' /\ CallsGoBack'
<1>1. PICK D, h : AtPlace(p, D, h)
  BY FollowsAt
<1>2. /\ frames # << >> /\ cur \in 1 .. Len(blocks) /\ frames[Len(frames)].kind # "elseif"
      /\ named_values \in [Names -> 0 .. Len(blocks)] /\ frames \in Seq(CGP!FrameType)
      /\ Len(blocks) \in Nat
  <2>1. frames # << >> /\ frames[Len(frames)].kind # "elseif"
    BY DEF CGP!BuildDeclare, CGP!InBlock, CGP!Top
  <2>2. QED
    BY <2>1, GeneratorFacts
<1>3. CGP!Emits(e)
  BY <1>1, <1>2, Instructs DEF AtPlace
<1>4. CASE named_values[n] # 0
  <2>1. cg' = "threw" /\ UNCHANGED <<blocks, named_values, built, uses, calls>>
    BY <1>4 DEF CGP!BuildDeclare, CGP!Throw
  <2>2. AllocasHome(named_values, blocks, built)
    BY <1>1 DEF AtPlace, Sim
  <2>3. DeclaredAgain(n)'
    BY <1>4, <2>1, <2>2 DEF DeclaredAgain, AllocasHome
  <2>4. QED
    BY <2>1, <2>3
<1>5. CASE named_values[n] = 0
  <2>1. PICK t \in BOOLEAN : t = FALSE
    BY Zenon
  <2>2. PICK cs, gr, nw, last : /\ cs = CGP!Insert(blocks, cur, t, {}) /\ last = "other"
                                /\ gr = CGP!Marked(last) /\ nw = [named_values EXCEPT ![n] = cur]
    OBVIOUS
  <2>3. /\ blocks' = cs /\ frames' = gr /\ named_values' = nw
        /\ CGP!Evaluate(e, cur, {}) /\ UNCHANGED <<cur, symbols, built, cg>>
    BY <1>3, <1>5, <2>1, <2>2, Zenon DEF CGP!BuildDeclare, CGP!Instruction
  <2>4. last \in CGP!Lasts
    BY <2>2 DEF CGP!Lasts
  <2>5. PICK stores : stores = {}
    OBVIOUS
  <2>6. UsesIn(stores, D, Len(blocks)) /\ CGP!Evaluate(e, cur, stores)
    BY <2>3, <2>5, NoStores
  <2>7. /\ RegionsOf(cs, D) /\ UsesIn(uses', D, Len(cs)) /\ Len(cs) = Len(blocks)
        /\ Sim(p, D, h, cs, cur, named_values, symbols, gr, built)
        /\ CallsGoBack'
    BY <1>1, <1>2, <2>2, <2>4, <2>6, Evaluates
  <2>8. gr \in Seq(CGP!FrameType) /\ gr # << >> /\ gr[Len(gr)].kind # "elseif"
    <3>1. gr = [frames EXCEPT ![Len(frames)].last = last]
      BY <2>2 DEF CGP!Marked
    <3>2. gr \in Seq(CGP!FrameType) /\ Alike(frames, gr) /\ gr # << >>
      BY <1>2, <2>4, <3>1, MarkedAlike
    <3>3. Len(frames) \in 1 .. Len(frames)
      BY <1>2
    <3>4. QED
      BY <1>2, <3>2, <3>3 DEF Alike
  <2>9. cur \in 1 .. Len(cs) /\ Len(cs) \in Nat /\ DOMAIN named_values = Names
    BY <1>2, <2>7
  <2>10. Sim(Declared(p, n), D, h, cs, cur, nw, symbols, gr, built)
    BY <1>5, <2>2, <2>7, <2>8, <2>9, SimDeclare
  <2>11. PICK q : q = Declared(p, n)
    OBVIOUS
  <2>12. FollowsNow(q)'
    BY <2>3, <2>7, <2>10, <2>11, AtNext
  <2>13. QED
    BY <2>3, <2>7, <2>11, <2>12
<1>6. QED
  BY <1>4, <1>5

\* break and cycle find the loop the checker counted.
LEMMA LoopOpen ==
    ASSUME CGP!VInv, NEW p, InWalk(p), NEW D, NEW h, AtPlace(p, D, h),
           NEW i \in 1 .. Len(p.walk), p.walk[i] = "loop"
    PROVE  Len(loop_stack) # 0
<1>1. /\ frames \in Seq(CGP!FrameType) /\ Len(frames) \in Nat
      /\ CGP!Matches(frames, loop_stack)
  BY GeneratorFacts
<1>2. Aligned(frames, p.walk, h)
  BY DEF AtPlace, Sim
<1>3. PICK k : k = h[i]
  OBVIOUS
<1>4. k \in 1 .. Len(frames) /\ frames[k].kind = "loop"
  BY <1>2, <1>3 DEF Aligned
<1>5. QED
  BY <1>1, <1>4, GeneratorAssumption, CGP!LoopHasEntry

\* The entry on the loop stack is that of a frame.
LEMMA LoopFrame ==
    ASSUME CGP!VInv, Len(loop_stack) # 0
    PROVE  \E i \in 1 .. Len(frames) : /\ loop_stack[Len(loop_stack)].body = frames[i].body
                                       /\ loop_stack[Len(loop_stack)].end = frames[i].end
                                       /\ frames[i].kind = "loop"
<1>1. /\ Len(frames) \in Nat /\ Len(loop_stack) \in Nat \ {0}
      /\ CGP!Matches(frames, loop_stack)
  BY GeneratorFacts
<1>2. QED
  BY <1>1, GeneratorAssumption, CGP!JumpTarget

\* An edge from the builder's block to the end or the body of an open statement.
LEMMA EdgeInward ==
    ASSUME NEW D, NEW n, NEW c \in 1 .. n, NEW fr, Chain(fr, c, D, n),
           NEW i \in 1 .. Len(fr), NEW t \in 1 .. n, t = fr[i].end \/ t = fr[i].body
    PROVE  Inward({<<c, t>>}, D, n)
BY EntersEnd, OneEdge

LEMMA FollowsJump ==
    ASSUME CGP!VInv, CallsGoBack, NEW p, InWalk(p), FollowsNow(p),
           start = 0 => \E i \in 1 .. Len(p.walk) : p.walk[i] = "loop",
           CGP!BuildBreak \/ CGP!BuildCycle
    PROVE  \/ cg' = "threw" /\ start # 0 /\ UNCHANGED <<blocks, uses, calls>>
           \/ cg' = cg /\ FollowsNow(p)' /\ CallsGoBack'
<1>1. PICK D, h : AtPlace(p, D, h)
  BY FollowsAt
<1>2. /\ frames # << >> /\ cur \in 1 .. Len(blocks) /\ Len(blocks) \in Nat
      /\ frames \in Seq(CGP!FrameType) /\ CGP!Stacks(frames, loop_stack, Len(blocks))
      /\ loop_stack # << >> <=> Len(loop_stack) # 0
  <2>1. frames # << >>
    BY DEF CGP!BuildBreak, CGP!BuildCycle, CGP!InBlock
  <2>2. CGP!Stacks(frames, loop_stack, Len(blocks))
    BY DEF CGP!VInv, CGP!CInv, CGP!Built
  <2>3. loop_stack # << >> <=> Len(loop_stack) # 0
    BY <2>2 DEF CGP!Stacks, CGP!LoopsOK
  <2>4. QED
    BY <2>1, <2>2, <2>3, GeneratorFacts
<1>3. CASE loop_stack = << >>
  <2>1. cg' = "threw" /\ UNCHANGED <<blocks, uses, calls>>
    BY <1>3 DEF CGP!BuildBreak, CGP!BuildCycle, CGP!Throw
  <2>2. start # 0
    BY <1>1, <1>2, <1>3, LoopOpen
  <2>3. QED
    BY <2>1, <2>2
<1>4. CASE loop_stack # << >>
  <2>1. PICK i \in 1 .. Len(frames) :
            /\ loop_stack[Len(loop_stack)].body = frames[i].body
            /\ loop_stack[Len(loop_stack)].end = frames[i].end
            /\ frames[i].kind = "loop"
    BY <1>2, <1>4, LoopFrame
  <2>2. frames[i].body \in 1 .. Len(blocks) /\ frames[i].end \in 1 .. Len(blocks)
    BY <1>2, <2>1 DEF CGP!Stacks, CGP!FramesOK, CGP!FrameIn
  <2>3. PICK d \in {frames[i].body, frames[i].end} : CGP!JumpTo(d) /\ cg' = cg
    BY <1>4, <2>1 DEF CGP!BuildBreak, CGP!BuildCycle, CGP!JumpTo
  <2>4. PICK t \in BOOLEAN : t = TRUE
    BY Zenon
  <2>5. PICK cs, gr, last, ts, E : /\ cs = CGP!Insert(blocks, cur, t, ts) /\ last = "jump"
                                   /\ gr = CGP!Marked(last) /\ ts = {d} /\ E = {<<cur, d>>}
    OBVIOUS
  <2>6. /\ blocks' = cs /\ frames' = gr
        /\ UNCHANGED <<cur, named_values, symbols, built, uses, calls>>
    BY <2>3, <2>4, <2>5, Zenon DEF CGP!JumpTo, CGP!CreateBr
  <2>7. Inward(E, D, Len(blocks))
    <3>1. Chain(frames, cur, D, Len(blocks))
      BY <1>1 DEF AtPlace, Sim
    <3>2. QED
      BY <1>2, <2>2, <2>5, <3>1, EdgeInward
  <2>8. last \in CGP!Lasts /\ \A x \in ts : <<cur, x>> \in E
    BY <2>5 DEF CGP!Lasts, CGP!Jumps
  <2>9. /\ RegionsOf(cs, D) /\ UsesIn(uses, D, Len(cs))
        /\ Sim(p, D, h, cs, cur, named_values, symbols, gr, built)
    BY <1>1, <1>2, <2>5, <2>7, <2>8, Inserts
  <2>10. FollowsNow(p)'
    BY <2>6, <2>9, AtNext
  <2>11. CallsGoBack'
    BY <2>6 DEF CallsGoBack
  <2>12. QED
    BY <2>3, <2>10, <2>11
<1>5. QED
  BY <1>3, <1>4

(***************************************************************************)
(* Statements with blocks of their own.                                    *)
(***************************************************************************)
LEMMA Opens ==
    ASSUME NEW p, InWalk(p), NEW D, NEW h, NEW bs, NEW f \in Nat, CGP!BlocksOK(bs, f),
           RegionsOf(bs, D), NEW us, UsesIn(us, D, Len(bs)), NEW c \in 1 .. Len(bs), NEW nv, NEW sy,
           NEW fr \in Seq(CGP!FrameType), NEW bt, Sim(p, D, h, bs, c, nv, sy, fr, bt),
           NEW size \in Nat, NEW ms, ms = CGP!More(bs, bs[c].fn, size),
           NEW targets, targets \subseteq (Len(bs) + 1) .. (Len(bs) + size),
           NEW t \in BOOLEAN, NEW cs, cs = CGP!Insert(ms, c, t, targets),
           NEW gr \in Seq(CGP!FrameType), gr # << >>, Alike(fr, gr),
           NEW b \in CGP!FrameType, NEW k \in TC!Blocks, b.kind = k,
           NEW n, n = Len(bs) + size, Fresh(b, Len(bs), n),
           NEW c2 \in (Len(bs) + 1) .. n, NEW hr, hr = Append(gr, b)
    PROVE  Follows(Open(p, k), cs, us, c2, nv, sy, hr, bt)
<1>1. PICK E : E = {c} \X targets
  OBVIOUS
<1>2. Changed(bs, cs, c, E) /\ Len(cs) = n
  <2>1. EdgesFrom(E, c, targets)
    BY <1>1 DEF EdgesFrom
  <2>2. QED
    BY <2>1, OpenEdges
<1>3. /\ \A b1 \in 1 .. Len(bs) : bs[b1].succ \subseteq 1 .. Len(bs)
      /\ c \in 0 .. Len(bs) /\ Len(bs) \in Nat
  BY DEF CGP!BlocksOK
<1>4. \A s, d : <<s, d>> \in E =>
          \/ s = c /\ d \in (Len(bs) + 1) .. Len(cs)
          \/ s \in 1 .. Len(bs) /\ d \in 1 .. Len(bs) /\ Enters(D, Len(bs), s, d)
  BY <1>1, <1>2
<1>5. PICK G : /\ RegionsOf(cs, G)
               /\ GrownFrom(D, Len(bs), Len(cs), c, G)
               /\ UsesIn(us, G, Len(cs))
  BY <1>2, <1>3, <1>4, Grows
<1>6. Sim(p, D, h, bs, c, nv, sy, gr, bt)
  BY SimAlike
<1>7. Fresh(b, Len(bs), Len(cs)) /\ c2 \in (Len(bs) + 1) .. Len(cs)
  BY <1>2
<1>8. Placed(Open(p, k), G, cs, c2, nv, sy, hr, bt)
  BY <1>2, <1>5, <1>6, <1>7, SimPush
<1>9. QED
  BY <1>5, <1>8 DEF Follows, Placed

LEMMA SameBlocks == TC!Blocks = CGP!Kinds \ {"elseif"} /\ TC!ThenBlocks = CGP!ThenBlocks
BY DEF TC!Blocks, TC!ThenBlocks, CGP!Kinds, CGP!ThenBlocks

LEMMA FrameTypes ==
    ASSUME NEW k \in CGP!Kinds, NEW body \in Nat, NEW els \in Nat, NEW end \in Nat
    PROVE  /\ CGP!Frame(k, body, els, end) \in CGP!FrameType
           /\ CGP!Frame(k, body, els, end).kind = k /\ CGP!Frame(k, body, els, end).body = body
           /\ CGP!Frame(k, body, els, end).els = els /\ CGP!Frame(k, body, els, end).end = end
BY DEF CGP!Frame, CGP!FrameType, CGP!Lasts

LEMMA IfFrame ==
    ASSUME NEW k \in CGP!ThenBlocks, NEW n \in Nat
    PROVE  LET size == CGP!Size(k)
               els  == IF k = "then" THEN 0 ELSE n + 2
               b    == CGP!Frame(k, 0, els, n + size)
           IN  /\ size \in {2, 3} /\ b \in CGP!FrameType /\ b.kind = k
               /\ Fresh(b, n, n + size)
               /\ n + 1 \in (n + 1) .. (n + size)
               /\ {n + 1, n + 2} \subseteq (n + 1) .. (n + size)
<1> DEFINE size == CGP!Size(k)
           els  == IF k = "then" THEN 0 ELSE n + 2
           b    == CGP!Frame(k, 0, els, n + size)
<1>1. size \in {2, 3}
  BY DEF CGP!Size
<1>2. els \in Nat /\ n + size \in Nat /\ k \in CGP!Kinds /\ 0 \in Nat
  BY <1>1 DEF CGP!Kinds
<1> HIDE DEF size
<1>3. els \in {0} \cup ((n + 1) .. (n + size))
  BY <1>1
<1> HIDE DEF els
<1>4. b \in CGP!FrameType /\ b.kind = k /\ b.body = 0 /\ b.els = els /\ b.end = n + size
  BY <1>2, FrameTypes
<1> HIDE DEF b
<1>5. Fresh(b, n, n + size)
  BY <1>1, <1>3, <1>4 DEF Fresh
<1>6. n + 1 \in (n + 1) .. (n + size) /\ {n + 1, n + 2} \subseteq (n + 1) .. (n + size)
  BY <1>1
<1>7. QED
  BY <1>1, <1>4, <1>5, <1>6 DEF size, els, b

LEMMA Reads ==
    ASSUME CGP!VInv, CallsGoBack, NEW p, InWalk(p), NEW D, NEW h, AtPlace(p, D, h), frames # << >>,
           NEW e \in Exprs, Readable(p.decl, p, e)
    PROVE  /\ CGP!Emits(e)
           /\ CGP!Evaluate(e, cur, {}) => UsesIn(uses', D, Len(blocks)) /\ CallsGoBack'
<1>1. PICK n, stores : n = Len(blocks) /\ stores = {}
  OBVIOUS
<1>2. Ready(e, cur, D, n, named_values, symbols, built)
  BY <1>1, Instructs DEF AtPlace
<1>3. UsesIn(uses, D, n) /\ UsesIn(stores, D, n)
  BY <1>1, NoStores DEF AtPlace
<1>4. CGP!Emits(e) /\ (CGP!Evaluate(e, cur, stores) => UsesIn(uses', D, n) /\ CallsGoBack')
  BY <1>2, <1>3, Evaluated
<1>5. QED
  BY <1>1, <1>4

LEMMA FollowsIf ==
    ASSUME CGP!VInv, CallsGoBack, NEW p, InWalk(p), FollowsNow(p),
           NEW e \in Exprs, Readable(p.decl, p, e), NEW k \in TC!ThenBlocks, CGP!BuildIf(e, k)
    PROVE  FollowsNow(Open(p, k))' /\ CallsGoBack' /\ cg' = cg
<1>1. PICK D, h : AtPlace(p, D, h)
  BY FollowsAt
<1>2. /\ frames # << >> /\ cur \in 1 .. Len(blocks)
      /\ frames \in Seq(CGP!FrameType) /\ built \in Nat /\ CGP!BlocksOK(blocks, built)
      /\ Len(blocks) \in Nat
  <2>1. frames # << >>
    BY DEF CGP!BuildIf, CGP!InBlock
  <2>2. QED
    BY <2>1, GeneratorFacts
<1>3. CGP!Emits(e)
  BY <1>1, <1>2, Reads
<1>4. PICK t \in BOOLEAN : t = TRUE
  BY Zenon
<1>5. PICK n \in Nat : n = Len(blocks)
  BY <1>2
<1>6. PICK size, last : size = CGP!Size(k) /\ last = "other"
  OBVIOUS
<1>7. PICK ms, targets, gr, els :
          /\ ms = CGP!More(blocks, blocks[cur].fn, size) /\ targets = {n + 1, n + 2}
          /\ gr = CGP!Marked(last) /\ els = IF k = "then" THEN 0 ELSE n + 2
  OBVIOUS
<1>8. PICK cs, b, c2 : /\ cs = CGP!Insert(ms, cur, t, targets) /\ c2 = n + 1
                       /\ b = CGP!Frame(k, 0, els, n + size)
  OBVIOUS
<1>9. PICK hr : hr = Append(gr, b)
  OBVIOUS
<1>10. /\ blocks' = cs /\ cur' = c2 /\ frames' = hr /\ CGP!Evaluate(e, cur, {})
       /\ UNCHANGED <<named_values, symbols, built, cg>>
  <2>1. CGP!OpenIf(e, k, blocks, cur, CGP!Marked("other"))
    BY DEF CGP!BuildIf
  <2>2. ms = blocks \o [i \in 1 .. CGP!Size(k) |-> CGP!NewBlock(blocks[cur].fn)]
    BY <1>6, <1>7 DEF CGP!More
  <2>3. QED
    BY <1>3, <1>4, <1>5, <1>6, <1>7, <1>8, <1>9, <2>1, <2>2, Zenon DEF CGP!OpenIf
<1>11. UsesIn(uses', D, n) /\ CallsGoBack'
  BY <1>1, <1>2, <1>5, <1>10, Reads
<1>12. /\ size \in Nat /\ b \in CGP!FrameType /\ b.kind = k /\ Fresh(b, n, n + size)
       /\ c2 \in (n + 1) .. (n + size) /\ targets \subseteq (n + 1) .. (n + size)
       /\ k \in TC!Blocks
  <2>1. k \in CGP!ThenBlocks /\ k \in TC!Blocks
    BY SameBlocks DEF TC!Blocks
  <2>2. QED
    BY <1>6, <1>7, <1>8, <2>1, IfFrame
<1>13. gr \in Seq(CGP!FrameType) /\ Alike(frames, gr) /\ gr # << >>
  <2>1. gr = [frames EXCEPT ![Len(frames)].last = last] /\ last \in CGP!Lasts
    BY <1>6, <1>7 DEF CGP!Marked, CGP!Lasts
  <2>2. QED
    BY <1>2, <2>1, MarkedAlike
<1>14. PICK bs, us, c, nv, sy, fr, bt :
           /\ bs = blocks /\ us = uses' /\ c = cur /\ nv = named_values /\ sy = symbols
           /\ fr = frames /\ bt = built
  OBVIOUS
<1>15. /\ CGP!BlocksOK(bs, bt) /\ bt \in Nat /\ RegionsOf(bs, D) /\ UsesIn(us, D, Len(bs))
       /\ c \in 1 .. Len(bs) /\ fr \in Seq(CGP!FrameType) /\ Sim(p, D, h, bs, c, nv, sy, fr, bt)
       /\ ms = CGP!More(bs, bs[c].fn, size)
       /\ targets \subseteq (Len(bs) + 1) .. (Len(bs) + size)
       /\ cs = CGP!Insert(ms, c, t, targets) /\ Alike(fr, gr)
       /\ Fresh(b, Len(bs), Len(bs) + size) /\ c2 \in (Len(bs) + 1) .. (Len(bs) + size)
  BY <1>1, <1>2, <1>5, <1>7, <1>8, <1>11, <1>12, <1>13, <1>14 DEF AtPlace
<1>16. PICK m : m = Len(bs) + size
  OBVIOUS
<1>17. Follows(Open(p, k), cs, us, c2, nv, sy, hr, bt)
  <2>1. Fresh(b, Len(bs), m) /\ c2 \in (Len(bs) + 1) .. m
    BY <1>15, <1>16
  <2>2. QED
    BY ONLY InWalk(p), t \in BOOLEAN, <1>9, <1>12, <1>13, <1>15, <1>16, <2>1, Opens
<1>18. FollowsNow(Open(p, k))'
  BY <1>10, <1>14, <1>17 DEF FollowsNow
<1>19. QED
  BY <1>10, <1>11, <1>18

LEMMA LoopFrameFresh ==
    ASSUME NEW n \in Nat
    PROVE  LET b == CGP!Frame("loop", n + 1, 0, n + 2)
           IN  /\ b \in CGP!FrameType /\ b.kind = "loop" /\ Fresh(b, n, n + 2)
               /\ n + 1 \in (n + 1) .. (n + 2)
<1>1. PICK k, body, els, end : k = "loop" /\ body = n + 1 /\ els = 0 /\ end = n + 2
  OBVIOUS
<1>2. k \in CGP!Kinds /\ body \in Nat /\ els \in Nat /\ end \in Nat
  BY <1>1 DEF CGP!Kinds
<1>3. PICK b : b = CGP!Frame(k, body, els, end)
  OBVIOUS
<1>4. b \in CGP!FrameType /\ b.kind = k /\ b.body = body /\ b.els = els /\ b.end = end
  BY <1>2, <1>3, FrameTypes
<1>5. Fresh(b, n, n + 2) /\ n + 1 \in (n + 1) .. (n + 2)
  BY <1>1, <1>4 DEF Fresh
<1>6. QED
  BY <1>1, <1>3, <1>4, <1>5

LEMMA FollowsLoop ==
    ASSUME CGP!VInv, CallsGoBack, NEW p, InWalk(p), FollowsNow(p), CGP!BuildLoop
    PROVE  FollowsNow(Open(p, "loop"))' /\ CallsGoBack' /\ cg' = cg
<1>1. PICK D, h : AtPlace(p, D, h)
  BY FollowsAt
<1>2. /\ frames # << >> /\ cur \in 1 .. Len(blocks)
      /\ frames \in Seq(CGP!FrameType) /\ built \in Nat /\ CGP!BlocksOK(blocks, built)
      /\ Len(blocks) \in Nat
  <2>1. frames # << >>
    BY DEF CGP!BuildLoop, CGP!InBlock
  <2>2. QED
    BY <2>1, GeneratorFacts
<1>3. PICK t \in BOOLEAN : t = TRUE
  BY Zenon
<1>4. PICK n \in Nat : n = Len(blocks)
  BY <1>2
<1>5. PICK size, last, k : size = 2 /\ last = "other" /\ k = "loop"
  OBVIOUS
<1>6. PICK ms, targets, gr : /\ ms = CGP!More(blocks, blocks[cur].fn, size)
                             /\ targets = {n + 1} /\ gr = CGP!Marked(last)
  OBVIOUS
<1>7. PICK cs, b, c2 : /\ cs = CGP!Insert(ms, cur, t, targets) /\ c2 = n + 1
                       /\ b = CGP!Frame("loop", n + 1, 0, n + 2)
  OBVIOUS
<1>8. PICK hr : hr = Append(gr, b)
  OBVIOUS
<1>9. /\ blocks' = cs /\ cur' = c2 /\ frames' = hr
      /\ UNCHANGED <<named_values, symbols, built, uses, calls, cg>>
  <2>1. ms = blocks \o [i \in 1 .. 2 |-> CGP!NewBlock(blocks[cur].fn)]
    BY <1>5, <1>6 DEF CGP!More
  <2>2. QED
    BY <1>3, <1>4, <1>5, <1>6, <1>7, <1>8, <2>1, Zenon DEF CGP!BuildLoop, CGP!CreateBr
<1>10. CallsGoBack'
  BY <1>9 DEF CallsGoBack
<1>11. /\ size \in Nat /\ b \in CGP!FrameType /\ b.kind = k /\ Fresh(b, n, n + size)
       /\ c2 \in (n + 1) .. (n + size) /\ targets \subseteq (n + 1) .. (n + size)
       /\ k \in TC!Blocks
  <2>1. /\ b \in CGP!FrameType /\ b.kind = "loop" /\ Fresh(b, n, n + 2)
        /\ n + 1 \in (n + 1) .. (n + 2)
    BY <1>7, LoopFrameFresh
  <2>2. QED
    BY <1>5, <1>6, <1>7, <2>1 DEF TC!Blocks
<1>12. gr \in Seq(CGP!FrameType) /\ Alike(frames, gr) /\ gr # << >>
  <2>1. gr = [frames EXCEPT ![Len(frames)].last = last] /\ last \in CGP!Lasts
    BY <1>5, <1>6 DEF CGP!Marked, CGP!Lasts
  <2>2. QED
    BY <1>2, <2>1, MarkedAlike
<1>13. PICK bs, us, c, nv, sy, fr, bt :
           /\ bs = blocks /\ us = uses /\ c = cur /\ nv = named_values /\ sy = symbols
           /\ fr = frames /\ bt = built
  OBVIOUS
<1>14. /\ CGP!BlocksOK(bs, bt) /\ bt \in Nat /\ RegionsOf(bs, D) /\ UsesIn(us, D, Len(bs))
       /\ c \in 1 .. Len(bs) /\ fr \in Seq(CGP!FrameType) /\ Sim(p, D, h, bs, c, nv, sy, fr, bt)
       /\ ms = CGP!More(bs, bs[c].fn, size)
       /\ targets \subseteq (Len(bs) + 1) .. (Len(bs) + size)
       /\ cs = CGP!Insert(ms, c, t, targets) /\ Alike(fr, gr)
  BY <1>1, <1>2, <1>4, <1>6, <1>7, <1>11, <1>12, <1>13 DEF AtPlace
<1>15. PICK m : m = Len(bs) + size
  OBVIOUS
<1>16. Fresh(b, Len(bs), m) /\ c2 \in (Len(bs) + 1) .. m
  BY <1>4, <1>11, <1>13, <1>15
<1>17. Follows(Open(p, k), cs, us, c2, nv, sy, hr, bt)
  BY ONLY InWalk(p), t \in BOOLEAN, <1>8, <1>11, <1>12, <1>14, <1>15, <1>16, Opens
<1>18. FollowsNow(Open(p, k))'
  BY <1>9, <1>13, <1>17 DEF FollowsNow
<1>19. QED
  BY <1>5, <1>9, <1>10, <1>18

(***************************************************************************)
(* Ends of blocks.                                                         *)
(***************************************************************************)
LEMMA AlikeItself == \A fr : Alike(fr, fr)
BY DEF Alike

\* The innermost statement, when it is not the function.
LEMMA InnerFrame ==
    ASSUME CGP!VInv, frames # << >>, frames[Len(frames)].kind # "fn"
    PROVE  /\ Len(frames) \in 1 .. Len(frames) /\ Len(frames) # 1
           /\ Popped(frames) # << >> /\ CGP!Unwound = Popped(frames)
           /\ frames[Len(frames)].end \in 1 .. Len(blocks)
           /\ frames[Len(frames)].kind \in {"thenElse", "thenElseIf"} =>
                  frames[Len(frames)].els \in 1 .. Len(blocks)
           /\ frames[Len(frames)].kind = "loop" => frames[Len(frames)].body \in 1 .. Len(blocks)
<1>1. CGP!FramesOK(frames, Len(blocks))
  BY DEF CGP!VInv, CGP!CInv, CGP!Built, CGP!Stacks
<1>2. frames \in Seq(CGP!FrameType) /\ Len(frames) \in Nat \ {0}
  BY GeneratorFacts
<1>3. Len(frames) \in 1 .. Len(frames) /\ CGP!FrameIn(frames[Len(frames)], Len(blocks), Len(frames))
  BY <1>1, <1>2 DEF CGP!FramesOK
<1>4. Len(frames) # 1
  BY <1>3 DEF CGP!FrameIn
<1>5. Popped(frames) # << >>
  <2>1. Len(Popped(frames)) = Len(frames) - 1
    BY <1>2, LastFacts
  <2>2. QED
    BY <1>2, <1>4, <2>1
<1>6. QED
  BY <1>3, <1>4, <1>5 DEF CGP!FrameIn, CGP!Unwound, Popped

\* The branch that ends a block leads where the module's regions allow it.
LEMMA Branches ==
    ASSUME CGP!VInv, NEW p, InWalk(p), NEW D, NEW h, AtPlace(p, D, h),
           frames # << >>, frames[Len(frames)].kind # "fn",
           NEW dest, NEW cs,
           \/ /\ dest = frames[Len(frames)].end
              /\ cs = CGP!BrUnlessTerminated(blocks, cur, dest)
           \/ /\ dest = frames[Len(frames)].body /\ frames[Len(frames)].kind = "loop"
              /\ cs = CGP!CreateBr(blocks, cur, dest)
    PROVE  /\ RegionsOf(cs, D) /\ UsesIn(uses, D, Len(cs)) /\ Len(cs) = Len(blocks)
           /\ Sim(p, D, h, cs, cur, named_values, symbols, frames, built)
<1>1. /\ built \in Nat /\ CGP!BlocksOK(blocks, built) /\ cur \in 1 .. Len(blocks)
      /\ cur \in 0 .. Len(blocks)
      /\ frames \in Seq(CGP!FrameType)
      /\ \A b \in 1 .. Len(blocks) : blocks[b].succ \subseteq 1 .. Len(blocks)
  BY GeneratorFacts
<1>2. PICK i : i = Len(frames)
  OBVIOUS
<1>3. /\ i \in 1 .. Len(frames) /\ dest \in 1 .. Len(blocks)
      /\ dest = frames[i].end \/ dest = frames[i].body
  BY <1>2, InnerFrame
<1>4. PICK E : E = {<<cur, dest>>}
  OBVIOUS
<1>5. Inward(E, D, Len(blocks))
  <2>1. Chain(frames, cur, D, Len(blocks))
    BY DEF AtPlace, Sim
  <2>2. QED
    BY <1>1, <1>3, <1>4, <2>1, EdgeInward
<1>6. Changed(blocks, cs, cur, E) /\ Len(cs) = Len(blocks)
  <2>1. CASE cs = CGP!BrUnlessTerminated(blocks, cur, dest)
    BY <1>1, <1>4, <2>1, BranchEdges
  <2>2. CASE cs = CGP!CreateBr(blocks, cur, dest)
    <3>1. PICK t \in BOOLEAN : t = TRUE
      BY Zenon
    <3>2. PICK targets : targets = {dest}
      OBVIOUS
    <3>3. cs = CGP!Insert(blocks, cur, t, targets)
      BY <2>2, <3>1, <3>2, Zenon DEF CGP!CreateBr
    <3>4. \A d \in targets : <<cur, d>> \in E
      BY <1>4, <3>2
    <3>5. QED
      BY <1>1, <3>3, <3>4, InsertEdges
  <2>3. QED
    BY <2>1, <2>2
<1>7. PICK bs, us, c, nv, sy, fr, bt :
          /\ bs = blocks /\ us = uses /\ c = cur /\ nv = named_values /\ sy = symbols
          /\ fr = frames /\ bt = built
  OBVIOUS
<1>8. /\ RegionsOf(bs, D) /\ UsesIn(us, D, Len(bs)) /\ Sim(p, D, h, bs, c, nv, sy, fr, bt)
      /\ \A b \in 1 .. Len(bs) : bs[b].succ \subseteq 1 .. Len(bs)
      /\ fr \in Seq(CGP!FrameType) /\ c \in 0 .. Len(bs)
      /\ Changed(bs, cs, c, E) /\ Len(cs) = Len(bs) /\ Inward(E, D, Len(bs)) /\ Alike(fr, fr)
  BY <1>1, <1>5, <1>6, <1>7, AlikeItself DEF AtPlace
<1>9. RegionsOf(cs, D) /\ UsesIn(us, D, Len(cs)) /\ Sim(p, D, h, cs, c, nv, sy, fr, bt)
  BY ONLY InWalk(p), <1>8, Stays
<1>10. QED
  BY <1>6, <1>7, <1>9

LEMMA PlacedNext ==
    ASSUME NEW q, NEW D, RegionsOf(blocks', D), UsesIn(uses', D, Len(blocks')),
           Placed(q, D, blocks', cur', named_values', symbols', frames', built')
    PROVE  FollowsNow(q)'
BY DEF FollowsNow, Follows, Placed

\* The end of an if's last branch, or of a loop.
LEMMA FollowsEnd ==
    ASSUME CGP!VInv, CallsGoBack, NEW p, InWalk(p), FollowsNow(p), ~InnerIfDone,
           CGP!EndIf \/ CGP!EndLoop
    PROVE  FollowsNow(Close(p))' /\ CallsGoBack' /\ cg' = cg
<1>1. PICK D, h : AtPlace(p, D, h)
  BY FollowsAt
<1>2. /\ frames # << >> /\ frames[Len(frames)].kind # "elseif"
      /\ frames[Len(frames)].kind # "fn" /\ frames \in Seq(CGP!FrameType)
      /\ Len(blocks) \in Nat
  BY GeneratorFacts DEF CGP!EndIf, CGP!EndLoop, CGP!At, CGP!Top, InnerIfDone
<1>3. PICK cs, c2, gr : /\ cs = blocks' /\ c2 = frames[Len(frames)].end /\ gr = Popped(frames)
  OBVIOUS
<1>4. /\ cur' = c2 /\ frames' = gr /\ gr # << >>
      /\ UNCHANGED <<named_values, symbols, built, uses, calls, cg>>
  BY <1>2, <1>3, InnerFrame DEF CGP!EndIf, CGP!EndLoop, CGP!EndBranch, CGP!Top
<1>5. \/ cs = CGP!BrUnlessTerminated(blocks, cur, frames[Len(frames)].end)
      \/ /\ frames[Len(frames)].kind = "loop"
         /\ cs = CGP!CreateBr(blocks, cur, frames[Len(frames)].body)
  BY <1>3 DEF CGP!EndIf, CGP!EndLoop, CGP!EndBranch, CGP!Top, CGP!At
<1>6. /\ RegionsOf(cs, D) /\ UsesIn(uses, D, Len(cs)) /\ Len(cs) = Len(blocks)
      /\ Sim(p, D, h, cs, cur, named_values, symbols, frames, built)
  BY <1>1, <1>2, <1>5, Branches
<1>7. Placed(Close(p), D, cs, c2, named_values, symbols, gr, built)
  BY <1>2, <1>3, <1>4, <1>6, SimPop
<1>8. PICK q : q = Close(p)
  OBVIOUS
<1>9. FollowsNow(q)'
  BY <1>3, <1>4, <1>6, <1>7, <1>8, PlacedNext
<1>10. CallsGoBack'
  BY <1>4 DEF CallsGoBack
<1>11. QED
  BY <1>4, <1>8, <1>9, <1>10

\* The end of an if that was another's if_else.
LEMMA FollowsInnerIf ==
    ASSUME CGP!VInv, CallsGoBack, NEW p, InWalk(p), FollowsNow(p), InnerIfDone, CGP!EndIf
    PROVE  FollowsNow(p)' /\ CallsGoBack' /\ cg' = cg
<1>1. PICK D, h : AtPlace(p, D, h)
  BY FollowsAt
<1>2. /\ frames # << >> /\ frames[Len(frames)].kind = "elseif"
      /\ frames[Len(frames)].kind # "fn" /\ frames \in Seq(CGP!FrameType)
      /\ Len(blocks) \in Nat
  BY GeneratorFacts DEF InnerIfDone
<1>3. PICK cs, c2, gr : /\ cs = blocks' /\ c2 = frames[Len(frames)].end /\ gr = Popped(frames)
  OBVIOUS
<1>4. /\ cur' = c2 /\ frames' = gr /\ gr # << >>
      /\ UNCHANGED <<named_values, symbols, built, uses, calls, cg>>
  BY <1>2, <1>3, InnerFrame DEF CGP!EndIf, CGP!EndBranch, CGP!Top
<1>5. cs = CGP!BrUnlessTerminated(blocks, cur, frames[Len(frames)].end)
  BY <1>3 DEF CGP!EndIf, CGP!EndBranch, CGP!Top
<1>6. /\ RegionsOf(cs, D) /\ UsesIn(uses, D, Len(cs)) /\ Len(cs) = Len(blocks)
      /\ Sim(p, D, h, cs, cur, named_values, symbols, frames, built)
  BY <1>1, <1>2, <1>5, Branches
<1>7. Sim(p, D, h, cs, c2, named_values, symbols, gr, built)
  BY <1>2, <1>3, <1>4, <1>6, SimUnskip
<1>8. FollowsNow(p)'
  BY <1>3, <1>4, <1>6, <1>7, AtNext
<1>9. CallsGoBack'
  BY <1>4 DEF CallsGoBack
<1>10. QED
  BY <1>4, <1>8, <1>9

LEMMA CloseInWalk ==
    ASSUME NEW p, InWalk(p), p.walk # << >>
    PROVE  InWalk(Close(p))
<1>1. /\ p.walk \in Seq(TC!Blocks) /\ p.decl \in SUBSET (Nat \X Names)
      /\ p.known \in SUBSET FnNames /\ p.caller \in FnNames \cup {TC!NoFunction} /\ p.fns \in Nat
      /\ \A d \in p.decl : d[1] \in 1 .. Len(p.walk)
  BY DEF InWalk, Views
<1>2. PICK w : w = Popped(p.walk)
  OBVIOUS
<1>3. w \in Seq(TC!Blocks) /\ Len(w) = Len(p.walk) - 1 /\ Len(p.walk) \in Nat \ {0}
  BY <1>1, <1>2, LastFacts
<1>4. Outer(p) \in SUBSET (Nat \X Names) /\ \A d \in Outer(p) : d[1] \in 1 .. Len(w)
  BY <1>1, <1>3 DEF Outer
<1>5. Close(p) = View(w, Outer(p), p.known, p.caller, p.fns)
  BY <1>2 DEF Close
<1>6. QED
  BY <1>1, <1>3, <1>4, <1>5 DEF InWalk, Views, View

\* The then-branch ends; the builder goes on in the else block.
LEMMA Turns ==
    ASSUME CGP!VInv, NEW p, InWalk(p), NEW D, NEW h, AtPlace(p, D, h),
           frames # << >>, frames[Len(frames)].kind \in {"thenElse", "thenElseIf"},
           NEW cs, cs = CGP!BrUnlessTerminated(blocks, cur, frames[Len(frames)].end),
           NEW k \in {"else", "elseif"}, NEW f, f = CGP!Frame(k, 0, 0, frames[Len(frames)].end),
           NEW c2, c2 = frames[Len(frames)].els, NEW gr, gr = Append(Popped(frames), f)
    PROVE  /\ RegionsOf(cs, D) /\ UsesIn(uses, D, Len(cs)) /\ Len(cs) = Len(blocks)
           /\ k = "else" => Placed(Reopen(p, "else"), D, cs, c2, named_values, symbols, gr, built)
           /\ k = "elseif" => Placed(Close(p), D, cs, c2, named_values, symbols, gr, built)
           /\ gr \in Seq(CGP!FrameType) /\ gr # << >> /\ c2 \in 1 .. Len(blocks)
           /\ CGP!BlocksOK(cs, built)
<1>1. /\ frames[Len(frames)].kind # "fn" /\ frames[Len(frames)].kind # "elseif"
      /\ frames \in Seq(CGP!FrameType) /\ Len(blocks) \in Nat
      /\ built \in Nat /\ CGP!BlocksOK(blocks, built) /\ cur \in 1 .. Len(blocks)
  BY GeneratorFacts
<1>2. /\ RegionsOf(cs, D) /\ UsesIn(uses, D, Len(cs)) /\ Len(cs) = Len(blocks)
      /\ Sim(p, D, h, cs, cur, named_values, symbols, frames, built)
  BY <1>1, Branches
<1>3. /\ frames[Len(frames)].end \in 1 .. Len(blocks) /\ c2 \in 1 .. Len(blocks)
  BY <1>1, InnerFrame
<1>4. f \in CGP!FrameType /\ f.kind = k /\ f.body = 0 /\ f.els = 0 /\ f.end = frames[Len(frames)].end
  <2>1. k \in CGP!Kinds /\ 0 \in Nat /\ frames[Len(frames)].end \in Nat
    BY <1>1, <1>3 DEF CGP!Kinds
  <2>2. QED
    BY <2>1, FrameTypes
<1>5. gr \in Seq(CGP!FrameType) /\ gr # << >>
  <2>1. Popped(frames) \in Seq(CGP!FrameType)
    BY <1>1, LastFacts
  <2>2. QED
    BY <1>4, <2>1
<1>6. CGP!BlocksOK(cs, built)
  BY <1>1, <1>3, GeneratorAssumption, CGP!Branched
<1>7. Len(cs) \in Nat
  BY <1>1, <1>2
<1>8. /\ f.kind = "else" => Placed(Reopen(p, "else"), D, cs, c2, named_values, symbols, gr, built)
      /\ f.kind = "elseif" => Placed(Close(p), D, cs, c2, named_values, symbols, gr, built)
  BY <1>1, <1>2, <1>4, <1>7, SimTurn
<1>9. QED
  BY <1>2, <1>3, <1>4, <1>5, <1>6, <1>8

LEMMA FollowsElse ==
    ASSUME CGP!VInv, CallsGoBack, NEW p, InWalk(p), FollowsNow(p), CGP!BuildElse
    PROVE  FollowsNow(Reopen(p, "else"))' /\ CallsGoBack' /\ cg' = cg
<1>1. PICK D, h : AtPlace(p, D, h)
  BY FollowsAt
<1>2. /\ frames # << >> /\ frames[Len(frames)].kind \in {"thenElse", "thenElseIf"}
      /\ frames[Len(frames)].kind # "fn"
  BY DEF CGP!BuildElse, CGP!At, CGP!Top
<1>3. PICK k, f, c2, cs, gr :
          /\ k = "else" /\ f = CGP!Frame(k, 0, 0, frames[Len(frames)].end)
          /\ c2 = frames[Len(frames)].els /\ gr = Append(Popped(frames), f)
          /\ cs = CGP!BrUnlessTerminated(blocks, cur, frames[Len(frames)].end)
  OBVIOUS
<1>4. CGP!Unwound = Popped(frames)
  BY <1>2, InnerFrame
<1>5. /\ blocks' = cs /\ cur' = c2 /\ frames' = gr
      /\ UNCHANGED <<named_values, symbols, built, uses, calls, cg>>
  BY <1>3, <1>4 DEF CGP!BuildElse, CGP!EndBranch, CGP!Top
<1>6. /\ RegionsOf(cs, D) /\ UsesIn(uses, D, Len(cs))
      /\ Placed(Reopen(p, "else"), D, cs, c2, named_values, symbols, gr, built)
  <2>1. k \in {"else", "elseif"} /\ k = "else"
    BY <1>3
  <2>2. QED
    BY <1>1, <1>2, <1>3, <2>1, Turns
<1>7. PICK q : q = Reopen(p, "else")
  OBVIOUS
<1>8. FollowsNow(q)'
  BY <1>5, <1>6, <1>7, PlacedNext
<1>9. CallsGoBack'
  BY <1>5 DEF CallsGoBack
<1>10. QED
  BY <1>5, <1>7, <1>8, <1>9

\* What the if_else of an if reads is known in the else block.
LEMMA ReadsElse ==
    ASSUME CGP!VInv, CallsGoBack, NEW p, InWalk(p), NEW D, NEW h, AtPlace(p, D, h),
           frames # << >>, NEW e \in Exprs, Readable(Outer(p), p, e),
           NEW at, at = frames[Len(frames)].els, at \in 1 .. Len(blocks)
    PROVE  /\ CGP!Emits(e)
           /\ CGP!Evaluate(e, at, {}) => UsesIn(uses', D, Len(blocks)) /\ CallsGoBack'
<1>1. PICK n, stores, decl : n = Len(blocks) /\ stores = {} /\ decl = Outer(p)
  OBVIOUS
<1>2. /\ frames \in Seq(CGP!FrameType) /\ Len(blocks) \in Nat
      /\ \A f \in DOMAIN symbols : symbols[f] \in Nat
  BY GeneratorFacts
<1>3. Aligned(frames, p.walk, h)
  BY DEF AtPlace, Sim
<1>4. Within(decl, at, frames, cur, h)
  BY <1>1, <1>2, <1>3, ElseWithin
<1>5. Ready(e, at, D, n, named_values, symbols, built)
  <2>1. decl \subseteq p.decl /\ Readable(decl, p, e)
    BY <1>1 DEF Outer
  <2>2. /\ RegionsOf(blocks, D)
        /\ Sim(p, D, h, blocks, cur, named_values, symbols, frames, built)
    BY DEF AtPlace
  <2>3. QED
    BY <1>1, <1>2, <1>4, <2>1, <2>2, ReadsReady
<1>6. UsesIn(uses, D, n) /\ UsesIn(stores, D, n)
  BY <1>1, NoStores DEF AtPlace
<1>7. CGP!Emits(e) /\ (CGP!Evaluate(e, at, stores) => UsesIn(uses', D, n) /\ CallsGoBack')
  BY <1>5, <1>6, Evaluated
<1>8. QED
  BY <1>1, <1>7

LEMMA FollowsElseIf ==
    ASSUME CGP!VInv, CallsGoBack, NEW p, InWalk(p), p.walk # << >>, FollowsNow(p),
           NEW e \in Exprs, Readable(Outer(p), p, e), NEW k \in TC!ThenBlocks, CGP!BuildElseIf(e, k)
    PROVE  FollowsNow(Reopen(p, k))' /\ CallsGoBack' /\ cg' = cg
<1>1. PICK D, h : AtPlace(p, D, h)
  BY FollowsAt
<1>2. /\ frames # << >> /\ frames[Len(frames)].kind \in {"thenElse", "thenElseIf"}
      /\ frames[Len(frames)].kind # "fn"
  BY DEF CGP!BuildElseIf, CGP!At, CGP!Top
<1>3. PICK el, f, c, rs, gr :
          /\ el = "elseif" /\ f = CGP!Frame(el, 0, 0, frames[Len(frames)].end)
          /\ c = frames[Len(frames)].els /\ gr = Append(Popped(frames), f)
          /\ rs = CGP!BrUnlessTerminated(blocks, cur, frames[Len(frames)].end)
  OBVIOUS
<1>4. PICK us, nv, sy, bt, q :
          us = uses' /\ nv = named_values /\ sy = symbols /\ bt = built /\ q = Close(p)
  OBVIOUS
<1>5. /\ RegionsOf(rs, D) /\ Len(rs) = Len(blocks)
      /\ Placed(q, D, rs, c, nv, sy, gr, bt)
      /\ gr \in Seq(CGP!FrameType) /\ gr # << >> /\ c \in 1 .. Len(blocks)
      /\ CGP!BlocksOK(rs, bt) /\ bt \in Nat
  <2>1. el \in {"else", "elseif"} /\ el = "elseif"
    BY <1>3
  <2>2. built \in Nat
    BY GeneratorFacts
  <2>3. QED
    BY <1>1, <1>2, <1>3, <1>4, <2>1, <2>2, Turns
<1>6. PICK n \in Nat : n = Len(rs) /\ n = Len(blocks)
  BY <1>5, GeneratorFacts
<1>7. CGP!Emits(e)
  BY <1>1, <1>2, <1>3, <1>5, ReadsElse
<1>8. PICK t \in BOOLEAN : t = TRUE
  BY Zenon
<1>9. PICK size, els, targets : /\ size = CGP!Size(k) /\ els = IF k = "then" THEN 0 ELSE n + 2
                                /\ targets = {n + 1, n + 2}
  OBVIOUS
<1>10. PICK ms, b, c2 : /\ ms = CGP!More(rs, rs[c].fn, size) /\ c2 = n + 1
                        /\ b = CGP!Frame(k, 0, els, n + size)
  OBVIOUS
<1>11. PICK cs, hr : cs = CGP!Insert(ms, c, t, targets) /\ hr = Append(gr, b)
  OBVIOUS
<1>12. /\ blocks' = cs /\ cur' = c2 /\ frames' = hr /\ CGP!Evaluate(e, c, {})
       /\ UNCHANGED <<named_values, symbols, built, cg>>
  <2>1. CGP!Unwound = Popped(frames)
    BY <1>2, InnerFrame
  <2>2. CGP!OpenIf(e, k, rs, c, gr)
    BY <1>3, <2>1 DEF CGP!BuildElseIf, CGP!Top
  <2>3. ms = rs \o [i \in 1 .. CGP!Size(k) |-> CGP!NewBlock(rs[c].fn)]
    BY <1>9, <1>10 DEF CGP!More
  <2>4. n = Len(rs)
    BY <1>6
  <2>5. /\ blocks' = CGP!Insert(rs \o [i \in 1 .. CGP!Size(k) |-> CGP!NewBlock(rs[c].fn)], c, TRUE,
                                {Len(rs) + 1, Len(rs) + 2})
        /\ cur' = Len(rs) + 1
        /\ frames' = Append(gr, CGP!Frame(k, 0, IF k = "then" THEN 0 ELSE Len(rs) + 2,
                                          Len(rs) + CGP!Size(k)))
        /\ CGP!Evaluate(e, c, {}) /\ UNCHANGED <<named_values, symbols, built, cg>>
    BY <1>7, <2>2, Zenon DEF CGP!OpenIf
  <2>6. blocks' = cs
    BY <1>8, <1>9, <1>11, <2>3, <2>4, <2>5, Zenon
  <2>7. cur' = c2 /\ frames' = hr
    BY <1>9, <1>10, <1>11, <2>4, <2>5, Zenon
  <2>8. QED
    BY <2>5, <2>6, <2>7
<1>13. UsesIn(us, D, n) /\ CallsGoBack'
  BY <1>1, <1>2, <1>3, <1>4, <1>5, <1>6, <1>12, ReadsElse
<1>14. /\ size \in Nat /\ b \in CGP!FrameType /\ b.kind = k /\ Fresh(b, n, n + size)
       /\ c2 \in (n + 1) .. (n + size) /\ targets \subseteq (n + 1) .. (n + size)
       /\ k \in TC!Blocks
  <2>1. k \in CGP!ThenBlocks /\ k \in TC!Blocks
    BY SameBlocks DEF TC!Blocks
  <2>2. /\ size = CGP!Size(k) /\ els = IF k = "then" THEN 0 ELSE n + 2
        /\ b = CGP!Frame(k, 0, els, n + size) /\ c2 = n + 1 /\ targets = {n + 1, n + 2}
    BY <1>9, <1>10
  <2>3. QED
    BY ONLY n \in Nat, <2>1, <2>2, IfFrame
<1>15. PICK h2 : Sim(q, D, h2, rs, c, nv, sy, gr, bt)
  BY <1>5 DEF Placed
<1>16. InWalk(q)
  BY <1>4, CloseInWalk
<1>17. PICK m : m = Len(rs) + size
  OBVIOUS
<1>18. /\ UsesIn(us, D, Len(rs)) /\ c \in 1 .. Len(rs) /\ Alike(gr, gr)
       /\ targets \subseteq (Len(rs) + 1) .. (Len(rs) + size)
       /\ Fresh(b, Len(rs), m) /\ c2 \in (Len(rs) + 1) .. m
  BY <1>5, <1>6, <1>13, <1>14, <1>17, AlikeItself
<1>19. Follows(Open(q, k), cs, us, c2, nv, sy, hr, bt)
  <2>1. CGP!BlocksOK(rs, bt) /\ RegionsOf(rs, D) /\ bt \in Nat
    BY ONLY <1>5
  <2>2. ms = CGP!More(rs, rs[c].fn, size) /\ cs = CGP!Insert(ms, c, t, targets) /\ hr = Append(gr, b)
    BY ONLY <1>10, <1>11
  <2>3. gr \in Seq(CGP!FrameType) /\ gr # << >>
    BY ONLY <1>5
  <2>4. size \in Nat /\ b \in CGP!FrameType /\ b.kind = k /\ k \in TC!Blocks
    BY ONLY <1>14
  <2>5. QED
    BY ONLY t \in BOOLEAN, <2>1, <2>2, <2>3, <2>4, <1>15, <1>16, <1>17, <1>18, Opens
<1>20. Open(q, k) = Reopen(p, k)
  BY <1>4 DEF Open, Close, Reopen, View
<1>21. FollowsNow(Reopen(p, k))'
  <2>1. PICK r : r = Reopen(p, k)
    OBVIOUS
  <2>2. Follows(r, cs, us, c2, nv, sy, hr, bt)
    BY <1>19, <1>20, <2>1
  <2>3. FollowsNow(r)'
    BY <1>4, <1>12, <2>2 DEF FollowsNow
  <2>4. QED
    BY <2>1, <2>3
<1>22. QED
  BY <1>12, <1>13, <1>21

(***************************************************************************)
(* Functions.                                                              *)
(***************************************************************************)
\* Between functions nothing is open: no frame, no block of the walk.
LEMMA BetweenFunctions ==
    ASSUME NEW p, p.walk = << >>, p.decl = {}, NEW D, NEW bs, NEW c, NEW nv, NEW sy, NEW bt,
           AllocasHome(nv, bs, bt), Known(p, sy, << >>, bt)
    PROVE  Placed(p, D, bs, c, nv, sy, << >>, bt)
<1>1. PICK w, fr, h : w = << >> /\ fr = << >> /\ h = [i \in 1 .. 0 |-> 0]
  OBVIOUS
<1>2. Len(w) = 0 /\ Len(fr) = 0 /\ 1 .. 0 = {}
  BY <1>1
<1>3. Chain(fr, c, D, Len(bs))
  BY <1>2 DEF Chain
<1>4. Aligned(fr, w, h)
  BY <1>1, <1>2 DEF Aligned
<1>5. Live(fr, c, D, Len(bs), nv, p.decl, h)
  BY DEF Live
<1>6. Home(fr, c, bs, bt)
  BY <1>1 DEF Home
<1>7. Sim(p, D, h, bs, c, nv, sy, fr, bt)
  BY <1>1, <1>3, <1>4, <1>5, <1>6 DEF Sim
<1>8. QED
  BY <1>1, <1>7 DEF Placed

\* A function begins in a block of its own.
LEMMA FunctionOpens ==
    ASSUME NEW p, p.walk = <<"fn">>, p.decl = {}, NEW D, NEW bs, RegionsOf(bs, D), Len(bs) \in Nat,
           NEW c \in 1 .. Len(bs), NEW nv, \A x \in Names : nv[x] = 0, NEW sy, NEW bt, bs[c].fn = bt,
           NEW f \in CGP!FrameType, f.kind = "fn", f.body = 0, f.els = 0, f.end = 0,
           NEW fr, fr = <<f>>, Known(p, sy, fr, bt)
    PROVE  Placed(p, D, bs, c, nv, sy, fr, bt)
<1>1. PICK w, h, n : w = <<"fn">> /\ h = [i \in 1 .. 1 |-> 1] /\ n = Len(bs)
  OBVIOUS
<1>2. Len(w) = 1 /\ Len(fr) = 1 /\ fr[1] = f /\ w[1] = "fn" /\ h[1] = 1
  BY <1>1
<1>3. \A i \in 1 .. 1 : i = 1
  OBVIOUS
<1>4. \A b \in Ahead(fr, c, 0) : b = c \/ b = 0
  <2>1. \A j \in (0 + 1) .. Len(fr) : fr[j].end = 0 /\ fr[j].els = 0
    BY <1>2, <1>3
  <2>2. QED
    BY <2>1 DEF Ahead
<1>5. Chain(fr, c, D, n)
  <2>1. \A d \in 1 .. n : 0 \notin D[d]
    BY <1>1 DEF RegionsOf
  <2>2. 0 \in 0 .. n
    BY <1>1
  <2>3. \A i \in 1 .. Len(fr) : fr[i].end = 0 /\ fr[i].els = 0 /\ fr[i].body = 0
    BY <1>2, <1>3
  <2>4. QED
    BY <2>1, <2>2, <2>3 DEF Chain
<1>6. Aligned(fr, w, h)
  BY <1>1, <1>2, <1>3 DEF Aligned
<1>7. Live(fr, c, D, n, nv, p.decl, h)
  BY DEF Live
<1>8. Home(fr, c, bs, bt) /\ AllocasHome(nv, bs, bt)
  BY <1>4 DEF Home, AllocasHome
<1>9. Sim(p, D, h, bs, c, nv, sy, fr, bt)
  BY <1>1, <1>5, <1>6, <1>7, <1>8 DEF Sim
<1>10. QED
  BY <1>9 DEF Placed

LEMMA FollowsFunction ==
    ASSUME CGP!VInv, CallsGoBack, NEW p, InWalk(p), p.walk = << >>, FollowsNow(p),
           NEW f \in FnNames, CGP!BuildFunction(f)
    PROVE  FollowsNow(BeginFn(p, f))' /\ CallsGoBack' /\ cg' = cg
<1>1. PICK D, h : AtPlace(p, D, h)
  BY FollowsAt
<1>2. /\ built \in Nat /\ CGP!BlocksOK(blocks, built) /\ Len(blocks) \in Nat
      /\ blocks \in Seq(CGP!BlockType)
      /\ \A b \in 1 .. Len(blocks) : blocks[b].succ \subseteq 1 .. Len(blocks)
  BY GeneratorFacts DEF CGP!BlocksOK
<1>3. PICK at, E, b, cs, c2, k, fr :
          /\ at = 0 /\ E = {} /\ b = CGP!NewBlock(built + 1) /\ cs = Append(blocks, b)
          /\ c2 = Len(blocks) + 1 /\ k = "fn" /\ fr = CGP!Frame("fn", 0, 0, 0)
  OBVIOUS
<1>4. /\ frames = << >> /\ blocks' = cs /\ cur' = c2 /\ frames' = <<fr>> /\ built' = built + 1
      /\ named_values' = [n \in Names |-> 0] /\ UNCHANGED <<uses, calls, cg>>
      /\ symbols' = [g \in DOMAIN symbols \cup {f} |->
                        IF g \in DOMAIN symbols THEN symbols[g] ELSE built + 1]
  BY <1>3 DEF CGP!BuildFunction
<1>5. /\ Len(cs) = Len(blocks) + 1 /\ cs[c2] = b /\ b.fn = built + 1 /\ b.succ = {}
      /\ \A i \in 1 .. Len(blocks) : cs[i] = blocks[i]
  BY <1>2, <1>3 DEF CGP!NewBlock
<1>6. Changed(blocks, cs, at, E)
  <2>1. \A i \in (Len(blocks) + 1) .. Len(cs) : i = c2
    BY <1>2, <1>3, <1>5
  <2>2. QED
    BY <1>2, <1>3, <1>5, <2>1 DEF Changed
<1>7. PICK G : /\ RegionsOf(cs, G) /\ UsesIn(uses, G, Len(cs))
  <2>1. \A s, t : <<s, t>> \in E =>
            \/ s = at /\ t \in (Len(blocks) + 1) .. Len(cs)
            \/ s \in 1 .. Len(blocks) /\ t \in 1 .. Len(blocks) /\ Enters(D, Len(blocks), s, t)
    BY <1>3
  <2>2. RegionsOf(blocks, D) /\ UsesIn(uses, D, Len(blocks))
    BY <1>1 DEF AtPlace
  <2>3. QED
    BY <1>2, <1>6, <2>1, <2>2, Grows
<1>8. PICK q, nv, sy, bt, fs : /\ q = BeginFn(p, f) /\ nv = named_values' /\ sy = symbols'
                               /\ bt = built + 1 /\ fs = <<fr>>
  OBVIOUS
<1>9. /\ q.walk = <<"fn">> /\ q.decl = {} /\ q.known = p.known /\ q.caller = f /\ q.fns = p.fns
  BY <1>8 DEF BeginFn, View
<1>10. Known(q, sy, fs, bt)
  <2>1. Known(p, symbols, frames, built)
    BY <1>1 DEF AtPlace, Sim
  <2>2. built = p.fns /\ \A g \in p.known : g \in DOMAIN symbols /\ symbols[g] <= p.fns
    BY <1>2, <1>4, <2>1 DEF Known, InWalk, Views
  <2>3. /\ DOMAIN sy = DOMAIN symbols \cup {f}
        /\ \A g \in DOMAIN symbols : sy[g] = symbols[g]
    BY <1>4, <1>8
  <2>4. fs # << >>
    BY <1>8
  <2>5. QED
    BY <1>8, <1>9, <2>2, <2>3, <2>4 DEF Known
<1>11. fr \in CGP!FrameType /\ fr.kind = "fn" /\ fr.body = 0 /\ fr.els = 0 /\ fr.end = 0
  <2>1. k \in CGP!Kinds /\ 0 \in Nat /\ fr = CGP!Frame(k, 0, 0, 0)
    BY <1>3 DEF CGP!Kinds
  <2>2. QED
    BY <1>3, <2>1, FrameTypes
<1>12. /\ Len(cs) \in Nat /\ c2 \in 1 .. Len(cs) /\ cs[c2].fn = bt
       /\ \A x \in Names : nv[x] = 0
  BY <1>2, <1>3, <1>4, <1>5, <1>8
<1>13. Placed(q, G, cs, c2, nv, sy, fs, bt)
  BY <1>7, <1>8, <1>9, <1>10, <1>11, <1>12, FunctionOpens
<1>14. FollowsNow(q)'
  BY <1>4, <1>7, <1>8, <1>13, PlacedNext
<1>15. CallsGoBack'
  BY <1>4 DEF CallsGoBack
<1>16. QED
  BY <1>4, <1>8, <1>14, <1>15

LEMMA FollowsEndFunction ==
    ASSUME CGP!VInv, CallsGoBack, NEW p, InWalk(p), FollowsNow(p), CGP!EndFunction
    PROVE  FollowsNow(EndFn(p))' /\ CallsGoBack' /\ cg' = cg
<1>1. PICK D, h : AtPlace(p, D, h)
  BY FollowsAt
<1>2. /\ frames # << >> /\ frames' = << >>
      /\ UNCHANGED <<blocks, cur, named_values, symbols, built, uses, calls, cg>>
  BY DEF CGP!EndFunction, CGP!At
<1>3. PICK q : q = EndFn(p)
  OBVIOUS
<1>4. /\ q.walk = << >> /\ q.decl = {} /\ q.known = p.known \cup {p.caller} /\ q.fns = p.fns + 1
  BY <1>3 DEF EndFn, View
<1>5. /\ Known(p, symbols, frames, built) /\ AllocasHome(named_values, blocks, built)
      /\ RegionsOf(blocks, D) /\ UsesIn(uses, D, Len(blocks))
  BY <1>1 DEF AtPlace, Sim
<1>6. Known(q, symbols, << >>, built)
  <2>1. /\ built = p.fns + 1 /\ p.fns \in Nat /\ p.caller \in DOMAIN symbols
        /\ \A f \in p.known : f \in DOMAIN symbols /\ symbols[f] <= p.fns
    BY <1>2, <1>5 DEF Known, InWalk, Views
  <2>2. \A f \in DOMAIN symbols : symbols[f] \in 0 .. built
    BY DEF CGP!VInv, CGP!CInv, CGP!Recorded
  <2>3. built = q.fns + 0
    BY <1>4, <2>1
  <2>4. \A f \in q.known : f \in DOMAIN symbols /\ symbols[f] <= q.fns
    BY <1>4, <2>1, <2>2
  <2>5. QED
    BY <2>3, <2>4 DEF Known
<1>7. Placed(q, D, blocks, cur, named_values, symbols, << >>, built)
  BY <1>4, <1>5, <1>6, BetweenFunctions
<1>8. FollowsNow(q)'
  BY <1>2, <1>5, <1>7, PlacedNext
<1>9. CallsGoBack'
  BY <1>2 DEF CallsGoBack
<1>10. QED
  BY <1>2, <1>3, <1>8, <1>9

LEMMA FollowsBegin == CG!CInit => FollowsNow(Begin) /\ CallsGoBack
<1> SUFFICES ASSUME CG!CInit PROVE FollowsNow(Begin) /\ CallsGoBack
  OBVIOUS
<1>1. /\ blocks = << >> /\ frames = << >> /\ built = 0 /\ uses = {} /\ calls = {}
      /\ \A x \in Names : named_values[x] = 0
  BY DEF CG!CInit
<1>2. PICK q, bs, D : q = Begin /\ bs = << >> /\ D = [d \in 1 .. 0 |-> {}]
  OBVIOUS
<1>3. Len(bs) = 0 /\ 1 .. 0 = {} /\ q.walk = << >> /\ q.decl = {} /\ q.known = {} /\ q.fns = 0
  BY <1>2 DEF Begin, View
<1>4. RegionsOf(bs, D) /\ UsesIn(uses, D, Len(bs))
  BY <1>1, <1>2, <1>3 DEF RegionsOf, UsesIn
<1>5. Known(q, symbols, << >>, built) /\ AllocasHome(named_values, bs, built)
  BY <1>1, <1>3 DEF Known, AllocasHome
<1>6. Placed(q, D, bs, cur, named_values, symbols, << >>, built)
  BY <1>3, <1>5, BetweenFunctions
<1>7. FollowsNow(q)
  BY <1>1, <1>2, <1>4, <1>6 DEF FollowsNow, Follows, Placed
<1>8. QED
  BY <1>1, <1>2, <1>7 DEF CallsGoBack

(***************************************************************************)
(* The generator at a node the checker accepted.                           *)
(***************************************************************************)
\* What comes of the visit of n: an exception, or the checker's next place.
Outcome(n, q) ==
    \/ /\ cg' = "threw" /\ UNCHANGED <<blocks, uses, calls>>
       /\ start = 0 => n.op = "declare" /\ DeclaredAgain(n.n)'
    \/ cg' = cg /\ FollowsNow(q)' /\ CallsGoBack'

LEMMA FollowsNode ==
    ASSUME CGP!VInv, CallsGoBack, NEW p, InWalk(p), FollowsNow(p), ~InnerIfDone,
           NEW n \in Nodes, NEW q, Visited(start, p, n, q), Build(n)
    PROVE  Outcome(n, q)
<1>1. CASE n.op = "fn"
  <2>1. p.walk = << >> /\ q = BeginFn(p, n.f)
    BY <1>1 DEF Visited
  <2>2. n.f \in FnNames /\ CGP!BuildFunction(n.f)
    BY <1>1, NodeFields, Built, SameGenerator
  <2>3. FollowsNow(BeginFn(p, n.f))' /\ CallsGoBack' /\ cg' = cg
    BY <2>1, <2>2, FollowsFunction
  <2>4. QED
    BY <2>1, <2>3 DEF Outcome
<1>2. CASE n.op = "endfn"
  <2>1. q = EndFn(p) /\ CGP!EndFunction
    BY <1>2, Built, SameGenerator DEF Visited
  <2>2. FollowsNow(EndFn(p))' /\ CallsGoBack' /\ cg' = cg
    BY <2>1, FollowsEndFunction
  <2>3. QED
    BY <2>1, <2>2 DEF Outcome
<1>3. CASE n.op = "declare"
  <2>1. q = Declared(p, n.n) /\ Readable(p.decl, p, n.e)
    BY <1>3 DEF Visited
  <2>2. n.n \in Names /\ n.e \in Exprs /\ CGP!BuildDeclare(n.n, n.e)
    BY <1>3, NodeFields, Built, SameGenerator
  <2>3. \/ cg' = "threw" /\ DeclaredAgain(n.n)' /\ UNCHANGED <<blocks, uses, calls>>
        \/ cg' = cg /\ FollowsNow(Declared(p, n.n))' /\ CallsGoBack'
    BY <2>1, <2>2, FollowsDeclare
  <2>4. QED
    BY <1>3, <2>1, <2>3 DEF Outcome
<1>4. CASE n.op = "assign"
  <2>1. q = p /\ Readable(p.decl, p, n.e) /\ \E l \in Nat : <<l, n.n>> \in p.decl
    BY <1>4 DEF Visited
  <2>2. n.n \in Names /\ n.e \in Exprs /\ CGP!BuildAssign(n.n, n.e)
    BY <1>4, NodeFields, Built, SameGenerator
  <2>3. FollowsNow(p)' /\ CallsGoBack' /\ cg' = cg
    BY <2>1, <2>2, FollowsAssign
  <2>4. QED
    BY <2>1, <2>3 DEF Outcome
<1>5. CASE n.op \in {"show", "return"}
  <2>1. q = p /\ Readable(p.decl, p, n.e)
    BY <1>5 DEF Visited
  <2>2. n.e \in Exprs /\ (CGP!BuildShow(n.e) \/ CGP!BuildReturn(n.e))
    BY <1>5, NodeFields, Built, SameGenerator
  <2>3. FollowsNow(p)' /\ CallsGoBack' /\ cg' = cg
    BY <2>1, <2>2, FollowsShow
  <2>4. QED
    BY <2>1, <2>3 DEF Outcome
<1>6. CASE n.op \in {"break", "cycle"}
  <2>1. q = p /\ (start = 0 => \E i \in 1 .. Len(p.walk) : p.walk[i] = "loop")
    BY <1>6 DEF Visited
  <2>2. CGP!BuildBreak \/ CGP!BuildCycle
    BY <1>6, Built, SameGenerator
  <2>3. \/ cg' = "threw" /\ start # 0 /\ UNCHANGED <<blocks, uses, calls>>
        \/ cg' = cg /\ FollowsNow(p)' /\ CallsGoBack'
    BY <2>1, <2>2, FollowsJump
  <2>4. QED
    BY <2>1, <2>3 DEF Outcome
<1>7. CASE n.op = "if"
  <2>1. q = Open(p, n.kind) /\ Readable(p.decl, p, n.e)
    BY <1>7 DEF Visited
  <2>2. n.e \in Exprs /\ n.kind \in TC!ThenBlocks /\ CGP!BuildIf(n.e, n.kind)
    BY <1>7, NodeFields, Built, SameGenerator
  <2>3. FollowsNow(Open(p, n.kind))' /\ CallsGoBack' /\ cg' = cg
    BY <2>1, <2>2, FollowsIf
  <2>4. QED
    BY <2>1, <2>3 DEF Outcome
<1>8. CASE n.op = "elseif"
  <2>1. q = Reopen(p, n.kind) /\ p.walk # << >> /\ Readable(Outer(p), p, n.e)
    BY <1>8 DEF Visited
  <2>2. n.e \in Exprs /\ n.kind \in TC!ThenBlocks /\ CGP!BuildElseIf(n.e, n.kind)
    BY <1>8, NodeFields, Built, SameGenerator
  <2>3. FollowsNow(Reopen(p, n.kind))' /\ CallsGoBack' /\ cg' = cg
    BY <2>1, <2>2, FollowsElseIf
  <2>4. QED
    BY <2>1, <2>3 DEF Outcome
<1>9. CASE n.op = "else"
  <2>1. q = Reopen(p, "else") /\ CGP!BuildElse
    BY <1>9, Built, SameGenerator DEF Visited
  <2>2. FollowsNow(Reopen(p, "else"))' /\ CallsGoBack' /\ cg' = cg
    BY <2>1, FollowsElse
  <2>3. QED
    BY <2>1, <2>2 DEF Outcome
<1>10. CASE n.op = "loop"
  <2>1. q = Open(p, "loop") /\ CGP!BuildLoop
    BY <1>10, Built, SameGenerator DEF Visited
  <2>2. FollowsNow(Open(p, "loop"))' /\ CallsGoBack' /\ cg' = cg
    BY <2>1, FollowsLoop
  <2>3. QED
    BY <2>1, <2>2 DEF Outcome
<1>11. CASE n.op \in {"endif", "endloop"}
  <2>1. q = Close(p) /\ (CGP!EndIf \/ CGP!EndLoop)
    BY <1>11, Built, SameGenerator DEF Visited
  <2>2. FollowsNow(Close(p))' /\ CallsGoBack' /\ cg' = cg
    BY <2>1, FollowsEnd
  <2>3. QED
    BY <2>1, <2>2 DEF Outcome
<1>12. QED
  BY <1>1, <1>2, <1>3, <1>4, <1>5, <1>6, <1>7, <1>8, <1>9, <1>10, <1>11, NodeFields

(***************************************************************************)
(* The invariant of the two passes together.                               *)
(***************************************************************************)
Regional == \E D : RegionsOf(blocks, D) /\ UsesIn(uses, D, Len(blocks))

\* S says where the generator is.
OnTrace(S) == IsTrace(S, tree, start) /\ FollowsNow(S[pos])

GenInv ==
    /\ CallsGoBack
    /\ pos \in 1 .. Len(tree) + 1
    /\ tc # "accepted" => CG!CInit /\ pos = 1
    /\ Regional
    /\ tc = "accepted" /\ cg = "running" => \E S : OnTrace(S)
    /\ cg = "threw" /\ start = 0 => Node.op = "declare" /\ DeclaredAgain(Node.n)

FInv == TCP!RInv /\ CGP!VInv /\ TraceInv /\ GenInv

LEMMA FollowsRegional ==
    ASSUME NEW p, FollowsNow(p)
    PROVE  Regional
BY DEF FollowsNow, Follows, Regional

LEMMA FInvStart == Init => FInv
<1> SUFFICES ASSUME Init PROVE FInv
  OBVIOUS
<1>1. TC!Init /\ CG!CInit /\ tree = << >> /\ pos = 1
  BY DEF Init
<1>2. TCP!RInv /\ CGP!VInv /\ TraceInv
  BY <1>1, CheckerStart, GeneratorStart, TraceStart
<1>3. FollowsNow(Begin) /\ CallsGoBack
  BY <1>1, FollowsBegin
<1>4. Regional
  BY <1>3, FollowsRegional
<1>5. tc = "running" /\ cg = "running" /\ pos \in 1 .. Len(tree) + 1
  BY <1>1 DEF TC!Init, CG!CInit
<1>6. QED
  BY <1>1, <1>2, <1>3, <1>4, <1>5 DEF FInv, GenInv

\* The checker's steps leave the generator alone.
LEMMA CheckerRuns ==
    ASSUME CheckStatement \/ CheckBranch \/ CheckLoop \/ CheckFunction \/ CheckEnds
    PROVE  tc = "running" /\ UNCHANGED <<pos, cgVars>>
<1>1. UNCHANGED <<pos, cgVars>>
  BY DEF CheckStatement, CheckBranch, CheckLoop, CheckFunction, CheckEnds, Visit
<1>2. CASE CheckStatement
  <2>1. \A n, a, e : TC!Declare(n, a, e) => tc = "running"
    BY DEF TC!Declare, TC!InBlock
  <2>2. \A n, e : TC!Assign(n, e) => tc = "running"
    BY DEF TC!Assign, TC!InBlock
  <2>3. \A e : TC!Show(e) \/ TC!Return(e) => tc = "running"
    BY DEF TC!Show, TC!Return, TC!InBlock
  <2>4. TC!Jump => tc = "running"
    BY DEF TC!Jump, TC!InBlock
  <2>5. QED
    BY <1>1, <1>2, <2>1, <2>2, <2>3, <2>4 DEF CheckStatement
<1>3. CASE CheckBranch
  <2>1. \A e, k : TC!EnterIf(e, k) => tc = "running"
    BY DEF TC!EnterIf, TC!InBlock
  <2>2. \A e, k : TC!ElseIf(e, k) => tc = "running"
    BY DEF TC!ElseIf, TC!At
  <2>3. TC!EnterElse \/ TC!LeaveIf => tc = "running"
    BY DEF TC!EnterElse, TC!LeaveIf, TC!At
  <2>4. QED
    BY <1>1, <1>3, <2>1, <2>2, <2>3 DEF CheckBranch
<1>4. CASE CheckLoop \/ CheckFunction \/ CheckEnds
  <2>1. TC!EnterLoop \/ TC!LeaveLoop => tc = "running"
    BY DEF TC!EnterLoop, TC!LeaveLoop, TC!InBlock, TC!At
  <2>2. \A f : TC!EnterFunction(f) => tc = "running"
    BY DEF TC!EnterFunction
  <2>3. TC!LeaveFunction \/ TC!Finish \/ TC!MemoryFault => tc = "running"
    BY DEF TC!LeaveFunction, TC!At, TC!Finish, TC!MemoryFault
  <2>4. QED
    BY <1>1, <1>4, <2>1, <2>2, <2>3 DEF CheckLoop, CheckFunction, CheckEnds
<1>5. QED
  BY <1>1, <1>2, <1>3, <1>4

LEMMA CheckerKeeps ==
    ASSUME FInv, TraceInv',
           CheckStatement \/ CheckBranch \/ CheckLoop \/ CheckFunction \/ CheckEnds
    PROVE  GenInv'
<1>1. tc = "running" /\ UNCHANGED <<pos, cgVars>>
  BY CheckerRuns
<1>2. CG!CInit /\ pos = 1 /\ CallsGoBack /\ Regional
  BY <1>1 DEF FInv, GenInv
<1>3. FollowsNow(Begin)
  BY <1>2, FollowsBegin
<1>4. CG!CInit' /\ CallsGoBack' /\ Regional' /\ pos' = 1
  BY <1>1, <1>2 DEF CG!CInit, CallsGoBack, Regional, cgVars
<1>5. FollowsNow(Begin)'
  <2>1. PICK b : b = Begin
    OBVIOUS
  <2>2. FollowsNow(b)'
    BY <1>1, <1>3, <2>1 DEF FollowsNow, cgVars
  <2>3. QED
    BY <2>1, <2>2
<1>6. \E S : OnTrace(S)'
  <2>1. PICK S : IsTrace(S, tree', start')
    BY DEF TraceInv
  <2>2. S[1] = Begin
    BY <2>1 DEF IsTrace
  <2>3. FollowsNow(S[1])'
    BY <1>5, <2>2
  <2>4. OnTrace(S)'
    BY <1>4, <2>1, <2>3 DEF OnTrace
  <2>5. QED
    BY <2>4
<1>7. pos' \in 1 .. Len(tree') + 1
  BY <1>4 DEF TraceInv
<1>8. cg' # "threw"
  BY <1>4 DEF CG!CInit
<1>9. QED
  BY <1>4, <1>6, <1>7, <1>8 DEF GenInv

LEMMA GenerateKeeps ==
    ASSUME FInv, Generate
    PROVE  GenInv'
<1>1. /\ tc = "accepted" /\ cg = "running" /\ UNCHANGED <<tree, start, tc>>
      /\ CGP!VInv /\ CallsGoBack /\ pos \in 1 .. Len(tree) + 1
      /\ tree \in Seq(Nodes) /\ Regional
  BY DEF Generate, Generating, Next1, tcVars, FInv, GenInv, TraceInv
<1>2. PICK S : OnTrace(S)
  BY <1>1 DEF FInv, GenInv
<1>3. /\ IsTrace(S, tree, start) /\ FollowsNow(S[pos]) /\ Len(S) = Len(tree) + 1
      /\ InWalk(S[pos])
  BY <1>1, <1>2 DEF OnTrace, IsTrace
<1>4. CASE InnerIfDone /\ CG!EndIf /\ UNCHANGED <<tree, pos, tcVars>>
  <2>1. PICK p : p = S[pos]
    OBVIOUS
  <2>2. InWalk(p) /\ FollowsNow(p) /\ CGP!EndIf
    BY <1>3, <1>4, <2>1, SameGenerator
  <2>3. FollowsNow(p)' /\ CallsGoBack' /\ cg' = cg
    BY <1>1, <1>4, <2>2, FollowsInnerIf
  <2>4. Regional'
    BY <2>3 DEF FollowsNow, Follows, Regional
  <2>5. OnTrace(S)'
    BY <1>1, <1>3, <1>4, <2>1, <2>3 DEF OnTrace
  <2>6. QED
    BY <1>1, <1>4, <2>3, <2>4, <2>5 DEF GenInv
<1>5. CASE ~InnerIfDone /\ pos <= Len(tree) /\ Build(Node) /\ Next1
  <2>1. PICK p, n, q : p = S[pos] /\ n = Node /\ q = S[pos + 1]
    OBVIOUS
  <2>2. /\ pos \in 1 .. Len(tree) /\ pos + 1 \in 1 .. Len(tree) + 1
    BY <1>1, <1>5
  <2>3. n \in Nodes /\ Visited(start, p, n, q) /\ Build(n)
    BY <1>1, <1>3, <1>5, <2>1, <2>2 DEF IsTrace, Node
  <2>4. Outcome(n, q)
    BY <1>1, <1>3, <1>5, <2>1, <2>3, FollowsNode
  <2>5. CASE cg' = "threw"
    <3>1. /\ UNCHANGED <<blocks, uses, calls>>
          /\ start = 0 => n.op = "declare" /\ DeclaredAgain(n.n)'
      BY <1>1, <2>4, <2>5 DEF Outcome
    <3>2. pos' = pos /\ Node' = n
      BY <1>1, <1>5, <2>1, <2>5 DEF Next1, Node
    <3>3. CallsGoBack' /\ Regional'
      BY <1>1, <3>1 DEF CallsGoBack, Regional
    <3>4. start' = 0 => Node'.op = "declare" /\ DeclaredAgain(Node.n)'
      BY <1>1, <3>1, <3>2 DEF DeclaredAgain
    <3>5. QED
      BY <1>1, <2>5, <3>2, <3>3, <3>4 DEF GenInv
  <2>6. CASE cg' # "threw"
    <3>1. cg' = cg /\ FollowsNow(q)' /\ CallsGoBack'
      BY <2>4, <2>6 DEF Outcome
    <3>2. pos' = pos + 1
      BY <1>5, <2>6 DEF Next1
    <3>3. Regional'
      BY <3>1 DEF FollowsNow, Follows, Regional
    <3>4. OnTrace(S)'
      BY <1>1, <1>3, <2>1, <3>1, <3>2 DEF OnTrace
    <3>5. QED
      BY <1>1, <2>2, <2>6, <3>1, <3>2, <3>3, <3>4 DEF GenInv
  <2>7. QED
    BY <2>5, <2>6
<1>6. QED
  BY <1>4, <1>5 DEF Generate

LEMMA CompileKeeps ==
    ASSUME FInv, Compile
    PROVE  GenInv'
<1>1. /\ tc = "accepted" /\ UNCHANGED <<tree, pos, start, tc>>
      /\ CallsGoBack /\ pos \in 1 .. Len(tree) + 1 /\ Regional
  BY DEF Compile, Generating, tcVars, FInv, GenInv
<1>2. cg' \in {"built", "verified", "invalid"} /\ UNCHANGED <<blocks, uses, calls>>
  BY DEF Compile, CG!EndProgram, CG!Verify
<1>3. CallsGoBack' /\ Regional'
  BY <1>1, <1>2 DEF CallsGoBack, Regional
<1>4. QED
  BY <1>1, <1>2, <1>3 DEF GenInv

LEMMA FInvStep == FInv /\ [Next]_fvars => FInv'
<1> SUFFICES ASSUME FInv, [Next]_fvars PROVE FInv'
  OBVIOUS
<1>1. TCP!RInv /\ CGP!VInv /\ TraceInv /\ GenInv
  BY DEF FInv
<1>2. TCP!RInv'
  BY <1>1, CheckerStep
<1>3. TreeOK
  BY <1>1 DEF TreeOK, TraceInv, GenInv
<1>4. CGP!VInv'
  BY <1>1, <1>3, GeneratorStep
<1>5. TraceInv'
  BY <1>1, <1>2, TraceStep
<1>6. GenInv'
  <2>1. CASE CheckStatement \/ CheckBranch \/ CheckLoop \/ CheckFunction \/ CheckEnds
    BY <1>5, <2>1, CheckerKeeps
  <2>2. CASE Generate
    BY <2>2, GenerateKeeps
  <2>3. CASE Compile
    BY <2>3, CompileKeeps
  <2>4. CASE Stopped \/ UNCHANGED fvars
    <3>1. UNCHANGED fvars
      BY <2>4 DEF Stopped
    <3>2. QED
      BY <1>1, <3>1 DEF GenInv, fvars, tcVars, cgVars, CallsGoBack, Regional, OnTrace, FollowsNow,
                        CG!CInit, Node, DeclaredAgain
  <2>5. QED
    BY <2>1, <2>2, <2>3, <2>4 DEF Next
<1>7. QED
  BY <1>2, <1>4, <1>5, <1>6 DEF FInv

(***************************************************************************)
(* What the invariant says of the program that was built.                  *)
(***************************************************************************)
LEMMA SameDominance == CG!UsesDominated = CGP!UsesDominated
BY DEF CG!Step, CGP!Step, CG!Reached, CGP!Reached, CG!Entry, CGP!Entry, CG!Dominates,
       CGP!Dominates, CG!UsesDominated, CGP!UsesDominated

\* The region of a block is entered at that block only and does not hold the
\* entry of its function: what it holds the block dominates.
LEMMA RegionDominates ==
    ASSUME Len(blocks) \in Nat, DOMAIN blocks = 1 .. Len(blocks),
           NEW D, RegionsOf(blocks, D), NEW d \in 1 .. Len(blocks), NEW u \in D[d]
    PROVE  blocks[d].fn = blocks[u].fn /\ CGP!Dominates(d, u)
<1>1. u \in 1 .. Len(blocks) /\ blocks[u].fn = blocks[d].fn
  BY DEF RegionsOf
<1>2. PICK f : f = blocks[u].fn
  OBVIOUS
<1>3. PICK r : r = CGP!Entry(f)
  OBVIOUS
<1>4. /\ r \in 1 .. Len(blocks) /\ blocks[r].fn = f
      /\ \A c \in 1 .. Len(blocks) : blocks[c].fn = f => r <= c
  <2>1. PICK T : T = {b \in 1 .. Len(blocks) : blocks[b].fn = f}
    OBVIOUS
  <2>2. T \subseteq Nat /\ T # {}
    BY <1>1, <1>2, <2>1
  <2>3. PICK b \in T : \A c \in T : b <= c
    BY <2>2, GeneratorAssumption, CGP!LeastNatural
  <2>4. /\ b \in DOMAIN blocks /\ blocks[b].fn = f
        /\ \A c \in DOMAIN blocks : blocks[c].fn = f => b <= c
    BY <2>1, <2>3
  <2>5. /\ r \in DOMAIN blocks /\ blocks[r].fn = f
        /\ \A c \in DOMAIN blocks : blocks[c].fn = f => r <= c
    BY <1>3, <2>4 DEF CGP!Entry
  <2>6. QED
    BY <2>5
<1>5. CASE d = r
  BY <1>1, <1>2, <1>3, <1>5 DEF CGP!Dominates
<1>6. CASE d # r
  <2>1. r \notin D[d]
    <3>1. SUFFICES ASSUME r \in D[d] PROVE FALSE
      OBVIOUS
    <3>2. PICK c \in 1 .. r - 1 : blocks[c].fn = blocks[r].fn
      BY <1>6, <3>1 DEF RegionsOf
    <3>3. c \in 1 .. Len(blocks) /\ c < r
      BY <1>4, <3>2
    <3>4. QED
      BY <1>4, <3>2, <3>3
  <2>2. PICK C : C = (1 .. Len(blocks)) \ D[d]
    OBVIOUS
  <2>3. \A b \in DOMAIN blocks \ {d}, s \in C : b \in blocks[s].succ => b \in C
    <3>1. SUFFICES ASSUME NEW b \in DOMAIN blocks \ {d}, NEW s \in C, b \in blocks[s].succ,
                          b \notin C
                   PROVE  FALSE
      OBVIOUS
    <3>2. b \in 1 .. Len(blocks) /\ b \in D[d] \ {d} /\ s \in 1 .. Len(blocks) /\ s \notin D[d]
      BY <2>2, <3>1
    <3>3. QED
      BY <3>1, <3>2 DEF RegionsOf
  <2>4. PICK S : S = {r}
    OBVIOUS
  <2>5. S \subseteq C
    BY <1>4, <2>1, <2>2, <2>4
  <2>6. CGP!Reached(S, d) \subseteq C
    BY <2>3, <2>5, GeneratorAssumption, CGP!ReachedWithin
  <2>7. u \notin CGP!Reached({CGP!Entry(blocks[u].fn)}, d)
    BY <1>2, <1>3, <2>2, <2>4, <2>6
  <2>8. QED
    BY <1>1, <2>7 DEF CGP!Dominates
<1>7. QED
  BY <1>5, <1>6

LEMMA FInvDominated == FInv => CGP!UsesDominated
<1> SUFFICES ASSUME FInv PROVE CGP!UsesDominated
  OBVIOUS
<1>1. PICK D : RegionsOf(blocks, D) /\ UsesIn(uses, D, Len(blocks))
  BY DEF FInv, GenInv, Regional
<1>2. Len(blocks) \in Nat /\ DOMAIN blocks = 1 .. Len(blocks)
  BY DEF FInv, CGP!VInv, CGP!CInv, CGP!Built, CGP!BlocksOK
<1>3. ASSUME NEW u \in uses
      PROVE  blocks[u[1]].fn = blocks[u[2]].fn /\ CGP!Dominates(u[1], u[2])
  <2>1. PICK d, t : d = u[1] /\ t = u[2]
    OBVIOUS
  <2>2. d \in 1 .. Len(blocks) /\ t \in D[d]
    BY <1>1, <2>1 DEF UsesIn
  <2>3. blocks[d].fn = blocks[t].fn /\ CGP!Dominates(d, t)
    BY <1>1, <1>2, <2>2, RegionDominates
  <2>4. QED
    BY <2>1, <2>3
<1>4. QED
  BY <1>3 DEF CGP!UsesDominated

-----------------------------------------------------------------------------
\* Generator and checker go through one tree together.
LEMMA Together == Spec => []FInv
<1>1. QED
  BY FInvStart, FInvStep, PTL DEF Spec

\* What code_generation_visitor.cxx looks up for a tree type_check_visitor.cxx
\* accepted is there: its visit throws at no node but a declaration of a name
\* that the function under construction has already.  The hypothesis is the
\* initialisation of loop_depth the checker lacks (type_check_visitor.h:125).
THEOREM LookupsOfAccepted == InitialLoopDepths = {0} => (Spec => []LookupsSucceed)
<1>1. ASSUME InitialLoopDepths = {0}, FInv
      PROVE  LookupsSucceed
  <2>1. start = 0
    BY <1>1 DEF FInv, TCP!RInv, TCP!IInv, TCP!TypeOK
  <2>2. QED
    BY <1>1, <2>1 DEF FInv, GenInv, LookupsSucceed, DeclaredAgain
<1>2. ASSUME InitialLoopDepths = {0}
      PROVE  Spec => []LookupsSucceed
  <2>1. FInv => LookupsSucceed
    BY <1>1, <1>2
  <2>2. QED
    BY <2>1, Together, PTL
<1>3. QED
  BY <1>2

\* Every call the generator builds from an accepted tree reaches a function
\* completed before the caller began: a compiled program is not recursive.
THEOREM CallsReachBack == Spec => []CallsGoBack
<1>1. FInv => CallsGoBack
  BY DEF FInv, GenInv
<1>2. QED
  BY <1>1, Together, PTL

\* In the module built from an accepted tree the block of a variable's alloca
\* dominates each load and store of it, wherever breaks and cycles lead: the
\* scopes of the checker are enough for the one map of names per function.
THEOREM AllocasDominateUses == Spec => []AllocaDominatesUse
<1>1. FInv => AllocaDominatesUse
  BY FInvDominated, SameDominance DEF AllocaDominatesUse
<1>2. QED
  BY <1>1, Together, PTL

\* verifyModule finds an accepted tree's module broken exactly when a jump or a
\* return left a block with a second terminator or none, or printf was called.
THEOREM VerdictFollowsShape == Spec => []VerdictByShape
<1>1. FInv => VerdictByShape
  <2>1. SUFFICES ASSUME FInv PROVE VerdictByShape
    OBVIOUS
  <2>2. CGP!VerdictExact /\ CGP!UsesDominated
    BY <2>1, FInvDominated DEF FInv, CGP!VInv
  <2>3. QED
    BY <2>2 DEF CGP!VerdictExact, VerdictByShape
<1>2. QED
  BY <1>1, Together, PTL
==============================================================================
