-------------------------- MODULE WOFACacheProofs --------------------------
(***************************************************************************)
(* Theorems about WOFACache for any number of blocks and addresses.  The   *)
(* inductive invariant joins the three structures: the hash and the valid  *)
(* blocks agree, the list threads all blocks with the free ones last, and  *)
(* the valid blocks are the dirty ones.  With it the cache implements the  *)
(* buffer of LRUBuffer.                                                    *)
(*                                                                         *)
(* That a list is well formed is a fact about a whole chain of pointers;   *)
(* it is proved with a numbering of the blocks, which says where each of   *)
(* them is, so that what moving one does to the chain is what it does to   *)
(* the numbers.                                                            *)
(***************************************************************************)
EXTENDS WOFACache, FiniteSetTheorems, WellFoundedInduction, TLAPS

\* The numbering after blk has moved to the front, or to the back.
Front(pos, blk) ==
  [b \in Blks |-> IF b = blk THEN 1 ELSE IF pos[b] < pos[blk] THEN pos[b] + 1 ELSE pos[b]]

Back(pos, blk) ==
  [b \in Blks |-> IF b = blk THEN num_blocks
                  ELSE IF pos[b] > pos[blk] THEN pos[b] - 1 ELSE pos[b]]

\* tagsInit links the blocks in the order of the array.
LEMMA InitThreaded ==
  /\ InitList \in Lists
  /\ [b \in Blks |-> b + 1] \in Numberings
  /\ Numbers([b \in Blks |-> b + 1], InitList)
<1> DEFINE q == [b \in Blks |-> b + 1]
<1> USE FALRUAssumption DEF Blks, Pointers, nullptr
<1>1. InitList \in Lists
  BY DEF InitList, Lists
<1>2. q \in Numberings
  BY DEF Numberings
<1>3. \A b \in Blks : /\ InitList.prev[b] = IF b = 0 THEN nullptr ELSE b - 1
                      /\ InitList.next[b] = IF b = num_blocks - 1 THEN nullptr ELSE b + 1
                      /\ q[b] = b + 1
  BY DEF InitList
<1>4. InitList.head = 0 /\ InitList.tail = num_blocks - 1
  BY DEF InitList
<1> HIDE DEF q
<1>5. Numbers(q, InitList)
  BY <1>3, <1>4 DEF Numbers
<1> QED BY <1>1, <1>2, <1>5 DEF q

LEMMA FrontNumbering ==
  ASSUME NEW pos \in Numberings, NEW blk \in Blks,
         \A b, c \in Blks : pos[b] = pos[c] => b = c
  PROVE  /\ Front(pos, blk) \in Numberings
         /\ \A b, c \in Blks : Front(pos, blk)[b] = Front(pos, blk)[c] => b = c
<1>1. num_blocks \in Nat /\ num_blocks >= 2 /\ \A b \in Blks : pos[b] \in 1 .. num_blocks
  BY FALRUAssumption DEF Numberings
<1> DEFINE q == Front(pos, blk)
<1>2. /\ q = [b \in Blks |-> q[b]]
      /\ \A b \in Blks : q[b] = IF b = blk THEN 1
                                ELSE IF pos[b] < pos[blk] THEN pos[b] + 1 ELSE pos[b]
  BY DEF Front
<1> HIDE DEF q
<1>3. ASSUME NEW b \in Blks
      PROVE  q[b] \in 1 .. num_blocks /\ (b # blk => q[b] # 1)
  BY <1>1, <1>2
<1>4. q \in Numberings
  BY <1>2, <1>3 DEF Numberings
<1>5. ASSUME NEW b \in Blks, NEW c \in Blks, q[b] = q[c]
      PROVE  b = c
  <2>1. CASE b = blk \/ c = blk
    BY <1>2, <1>3, <1>5, <2>1
  <2>2. CASE b # blk /\ c # blk
    <3>1. pos[b] # pos[blk] /\ pos[c] # pos[blk]
      BY <2>2
    <3>2. pos[b] = pos[c]
      BY <1>1, <1>2, <1>5, <2>2, <3>1
    <3> QED BY <3>2
  <2> QED BY <2>1, <2>2
<1> QED BY <1>4, <1>5 DEF q

LEMMA BackNumbering ==
  ASSUME NEW pos \in Numberings, NEW blk \in Blks,
         \A b, c \in Blks : pos[b] = pos[c] => b = c
  PROVE  /\ Back(pos, blk) \in Numberings
         /\ \A b, c \in Blks : Back(pos, blk)[b] = Back(pos, blk)[c] => b = c
<1>1. num_blocks \in Nat /\ num_blocks >= 2 /\ \A b \in Blks : pos[b] \in 1 .. num_blocks
  BY FALRUAssumption DEF Numberings
<1> DEFINE q == Back(pos, blk)
<1>2. /\ q = [b \in Blks |-> q[b]]
      /\ \A b \in Blks : q[b] = IF b = blk THEN num_blocks
                                ELSE IF pos[b] > pos[blk] THEN pos[b] - 1 ELSE pos[b]
  BY DEF Back
<1> HIDE DEF q
<1>3. ASSUME NEW b \in Blks
      PROVE  q[b] \in 1 .. num_blocks /\ (b # blk => q[b] # num_blocks)
  BY <1>1, <1>2
<1>4. q \in Numberings
  BY <1>2, <1>3 DEF Numberings
<1>5. ASSUME NEW b \in Blks, NEW c \in Blks, q[b] = q[c]
      PROVE  b = c
  <2>1. CASE b = blk \/ c = blk
    BY <1>2, <1>3, <1>5, <2>1
  <2>2. CASE b # blk /\ c # blk
    <3>1. pos[b] # pos[blk] /\ pos[c] # pos[blk]
      BY <2>2
    <3>2. pos[b] = pos[c]
      BY <1>1, <1>2, <1>5, <2>2, <3>1
    <3> QED BY <3>2
  <2> QED BY <2>1, <2>2
<1> QED BY <1>4, <1>5 DEF q

LEMMA Redirect ==
  ASSUME NEW f \in [Blks -> Pointers], NEW b \in Blks, NEW v \in Pointers
  PROVE  /\ [f EXCEPT ![b] = v] \in [Blks -> Pointers]
         /\ \A c \in Blks : [f EXCEPT ![b] = v][c] = IF c = b THEN v ELSE f[c]
  OBVIOUS

\* What a numbering says of a list, a pointer at a time.
LEMMA NumberFacts ==
  ASSUME NEW l \in Lists, NEW pos \in Numberings, Numbers(pos, l)
  PROVE  /\ \A b \in Blks : pos[b] \in 1 .. num_blocks
         /\ \A b, c \in Blks : pos[b] = pos[c] => b = c
         /\ \A b \in Blks : (pos[b] = 1) <=> (b = l.head)
         /\ \A b \in Blks : (pos[b] = num_blocks) <=> (b = l.tail)
         /\ l.prev[l.head] = nullptr /\ l.next[l.tail] = nullptr
         /\ \A b \in Blks : b # l.head => l.prev[b] \in Blks /\ pos[l.prev[b]] = pos[b] - 1
         /\ \A b \in Blks : b # l.tail => l.next[b] \in Blks /\ pos[l.next[b]] = pos[b] + 1
<1>1. l.head \in Blks /\ l.tail \in Blks
  BY DEF Lists
<1>2. \A b \in Blks : pos[b] \in 1 .. num_blocks
  BY DEF Numberings
<1> QED BY <1>1, <1>2 DEF Numbers

\* upgrade moves the block to the front of the list and leaves the order of the others,
\* wherever the block was.
LEMMA UpgradeNumbers ==
  ASSUME NEW l \in Lists, NEW pos \in Numberings, Numbers(pos, l), NEW blk \in Blks
  PROVE  upgrade(l, blk) \in Lists /\ Numbers(Front(pos, blk), upgrade(l, blk))
<1> DEFINE g == upgrade(l, blk)
           q == Front(pos, blk)
           h == l.head
           p == l.prev[blk]
           n == l.next[blk]
<1>1. /\ l.prev \in [Blks -> Pointers] /\ l.next \in [Blks -> Pointers]
      /\ h \in Blks /\ l.tail \in Blks /\ nullptr \in Pointers
      /\ \A b \in Blks : b \in Pointers
  BY DEF Lists, Pointers
<1>2. /\ \A b \in Blks : pos[b] \in 1 .. num_blocks
      /\ \A b, c \in Blks : pos[b] = pos[c] => b = c
      /\ \A b \in Blks : (pos[b] = 1) <=> (b = h)
      /\ \A b \in Blks : (pos[b] = num_blocks) <=> (b = l.tail)
      /\ l.prev[h] = nullptr /\ l.next[l.tail] = nullptr
      /\ \A b \in Blks : b # h => l.prev[b] \in Blks /\ pos[l.prev[b]] = pos[b] - 1
      /\ \A b \in Blks : b # l.tail => l.next[b] \in Blks /\ pos[l.next[b]] = pos[b] + 1
  BY NumberFacts
<1>3. \A b \in Blks :
        q[b] = IF b = blk THEN 1 ELSE IF pos[b] < pos[blk] THEN pos[b] + 1 ELSE pos[b]
  BY DEF Front
<1>4. \A b, c \in Blks : q[b] = q[c] => b = c
  BY <1>2, FrontNumbering
<1>5. CASE blk = h
  <2>1. g = l
    BY <1>5 DEF upgrade
  <2>2. q = pos
    BY <1>2, <1>5 DEF Front, Numberings
  <2> QED BY <2>1, <2>2
<1>6. CASE blk # h /\ blk = l.tail
  <2>1. p \in Blks /\ pos[blk] = num_blocks /\ pos[p] = num_blocks - 1
    BY <1>1, <1>2, <1>6
  <2> DEFINE P == [l.prev EXCEPT ![blk] = nullptr]
             N == [l.next EXCEPT ![p] = nullptr]
  <2>2. g = [prev |-> [P EXCEPT ![h] = blk], next |-> [N EXCEPT ![blk] = h],
             head |-> blk, tail |-> p]
    BY <1>6, <1>1 DEF upgrade, unlinkTail, pushFront, Lists
  <2>3. /\ P \in [Blks -> Pointers]
        /\ \A b \in Blks : P[b] = IF b = blk THEN nullptr ELSE l.prev[b]
    BY <1>1, Redirect
  <2>4. /\ N \in [Blks -> Pointers]
        /\ \A b \in Blks : N[b] = IF b = p THEN nullptr ELSE l.next[b]
    BY <1>1, <2>1, Redirect
  <2> HIDE DEF P, N
  <2>5. /\ g.prev \in [Blks -> Pointers]
        /\ \A b \in Blks : g.prev[b] = IF b = h THEN blk ELSE P[b]
    BY <1>1, <2>2, <2>3, Redirect
  <2>6. /\ g.next \in [Blks -> Pointers]
        /\ \A b \in Blks : g.next[b] = IF b = blk THEN h ELSE N[b]
    BY <1>1, <2>2, <2>4, Redirect
  <2>7. g.head = blk /\ g.tail = p
    BY <2>2
  <2>8. g \in Lists
    BY <2>1, <2>2, <2>5, <2>6 DEF Lists
  <2> HIDE DEF g, q, h, p
  <2>9. Numbers(q, g)
    <3>1. q[g.head] = 1 /\ q[g.tail] = num_blocks
      BY FALRUAssumption, <1>2, <1>3, <1>6, <2>1, <2>7
    <3>2. ASSUME NEW b \in Blks
          PROVE  IF q[b] = 1 THEN g.prev[b] = nullptr
                 ELSE g.prev[b] \in Blks /\ q[g.prev[b]] = q[b] - 1
      <4>1. CASE b = blk
        BY <1>1, <1>3, <1>6, <2>3, <2>5, <4>1
      <4>2. CASE b = h
        BY FALRUAssumption, <1>1, <1>2, <1>3, <1>6, <2>1, <2>5, <4>2
      <4>3. CASE b # blk /\ b # h
        <5>1. /\ g.prev[b] = l.prev[b] /\ l.prev[b] \in Blks
              /\ pos[l.prev[b]] = pos[b] - 1 /\ pos[b] < pos[blk] /\ l.prev[b] # blk
          BY FALRUAssumption, <1>1, <1>2, <1>6, <2>1, <2>3, <2>5, <4>3
        <5> QED BY <1>1, <1>2, <1>3, <1>6, <2>1, <4>3, <5>1
      <4> QED BY <4>1, <4>2, <4>3
    <3>3. ASSUME NEW b \in Blks
          PROVE  IF q[b] = num_blocks THEN g.next[b] = nullptr
                 ELSE g.next[b] \in Blks /\ q[g.next[b]] = q[b] + 1
      <4>1. CASE b = blk
        BY FALRUAssumption, <1>1, <1>2, <1>3, <1>6, <2>6, <4>1
      <4>2. CASE b = p
        BY <1>1, <1>2, <1>3, <1>6, <2>1, <2>4, <2>6, <4>2
      <4>3. CASE b # blk /\ b # p
        <5>1. /\ g.next[b] = l.next[b] /\ l.next[b] \in Blks
              /\ pos[l.next[b]] = pos[b] + 1 /\ l.next[b] # blk
          BY <1>1, <1>2, <1>6, <2>1, <2>4, <2>6, <4>3
        <5> QED BY <1>1, <1>2, <1>3, <1>6, <2>1, <4>3, <5>1
      <4> QED BY <4>1, <4>2, <4>3
    <3> QED BY <1>4, <3>1, <3>2, <3>3 DEF Numbers
  <2> QED BY <2>8, <2>9 DEF g, q
<1>7. CASE blk # h /\ blk # l.tail
  <2>1. /\ p \in Blks /\ n \in Blks
        /\ pos[p] = pos[blk] - 1 /\ pos[n] = pos[blk] + 1
    BY <1>1, <1>2, <1>7
  <2> DEFINE P == [l.prev EXCEPT ![n] = p]
             P2 == [P EXCEPT ![blk] = nullptr]
             N == [l.next EXCEPT ![p] = n]
  <2>2. g = [prev |-> [P2 EXCEPT ![h] = blk], next |-> [N EXCEPT ![blk] = h],
             head |-> blk, tail |-> l.tail]
    BY <1>7, <1>1 DEF upgrade, unlinkMiddle, pushFront, Lists
  <2>3. /\ P \in [Blks -> Pointers]
        /\ \A b \in Blks : P[b] = IF b = n THEN p ELSE l.prev[b]
    BY <1>1, <2>1, Redirect
  <2>4. /\ N \in [Blks -> Pointers]
        /\ \A b \in Blks : N[b] = IF b = p THEN n ELSE l.next[b]
    BY <1>1, <2>1, Redirect
  <2> HIDE DEF P, N
  <2>5. /\ P2 \in [Blks -> Pointers]
        /\ \A b \in Blks : P2[b] = IF b = blk THEN nullptr ELSE P[b]
    BY <1>1, <2>3, Redirect
  <2> HIDE DEF P2
  <2>6. /\ g.prev \in [Blks -> Pointers]
        /\ \A b \in Blks : g.prev[b] = IF b = h THEN blk ELSE P2[b]
    BY <1>1, <2>2, <2>5, Redirect
  <2>7. /\ g.next \in [Blks -> Pointers]
        /\ \A b \in Blks : g.next[b] = IF b = blk THEN h ELSE N[b]
    BY <1>1, <2>2, <2>4, Redirect
  <2>8. g.head = blk /\ g.tail = l.tail
    BY <2>2
  <2>9. g \in Lists
    BY <1>1, <2>2, <2>6, <2>7 DEF Lists
  <2> HIDE DEF g, q, h, p, n
  <2>10. Numbers(q, g)
    <3>1. q[g.head] = 1 /\ q[g.tail] = num_blocks
      BY FALRUAssumption, <1>1, <1>2, <1>3, <1>7, <2>1, <2>8
    <3>2. ASSUME NEW b \in Blks
          PROVE  IF q[b] = 1 THEN g.prev[b] = nullptr
                 ELSE g.prev[b] \in Blks /\ q[g.prev[b]] = q[b] - 1
      <4>1. CASE b = blk
        BY <1>1, <1>3, <1>7, <2>5, <2>6, <4>1
      <4>2. CASE b = h
        BY <1>1, <1>2, <1>3, <1>7, <2>6, <4>2
      <4>3. CASE b = n /\ b # h
        BY <1>1, <1>2, <1>3, <1>7, <2>1, <2>3, <2>5, <2>6, <4>3
      <4>4. CASE b # blk /\ b # h /\ b # n
        <5>1. /\ g.prev[b] = l.prev[b] /\ l.prev[b] \in Blks
              /\ pos[l.prev[b]] = pos[b] - 1 /\ l.prev[b] # blk
          BY <1>1, <1>2, <2>1, <2>3, <2>5, <2>6, <4>4
        <5> QED BY <1>1, <1>2, <1>3, <2>1, <4>4, <5>1
      <4> QED BY <4>1, <4>2, <4>3, <4>4
    <3>3. ASSUME NEW b \in Blks
          PROVE  IF q[b] = num_blocks THEN g.next[b] = nullptr
                 ELSE g.next[b] \in Blks /\ q[g.next[b]] = q[b] + 1
      <4>1. CASE b = blk
        BY FALRUAssumption, <1>1, <1>2, <1>3, <1>7, <2>7, <4>1
      <4>2. CASE b = p
        BY <1>1, <1>2, <1>3, <1>7, <2>1, <2>4, <2>7, <4>2
      <4>3. CASE b # blk /\ b # p
        <5>1. g.next[b] = l.next[b]
          BY <2>4, <2>7, <4>3
        <5>2. CASE b = l.tail
          BY FALRUAssumption, <1>1, <1>2, <1>3, <1>7, <2>1, <5>1, <5>2
        <5>3. CASE b # l.tail
          <6>1. l.next[b] \in Blks /\ pos[l.next[b]] = pos[b] + 1 /\ l.next[b] # blk
            BY <1>1, <1>2, <2>1, <4>3, <5>3
          <6> QED BY <1>1, <1>2, <1>3, <2>1, <4>3, <5>1, <5>3, <6>1
        <5> QED BY <5>2, <5>3
      <4> QED BY <4>1, <4>2, <4>3
    <3> QED BY <1>4, <3>1, <3>2, <3>3 DEF Numbers
  <2> QED BY <2>9, <2>10 DEF g, q
<1> QED BY <1>5, <1>6, <1>7

\* downgrade moves the block to the back of the list and leaves the order of the others.
LEMMA DowngradeNumbers ==
  ASSUME NEW l \in Lists, NEW pos \in Numberings, Numbers(pos, l), NEW blk \in Blks
  PROVE  downgrade(l, blk) \in Lists /\ Numbers(Back(pos, blk), downgrade(l, blk))
<1> DEFINE g == downgrade(l, blk)
           q == Back(pos, blk)
           t == l.tail
           p == l.prev[blk]
           n == l.next[blk]
<1>1. /\ l.prev \in [Blks -> Pointers] /\ l.next \in [Blks -> Pointers]
      /\ t \in Blks /\ l.head \in Blks /\ nullptr \in Pointers
      /\ \A b \in Blks : b \in Pointers
  BY DEF Lists, Pointers
<1>2. /\ \A b \in Blks : pos[b] \in 1 .. num_blocks
      /\ \A b, c \in Blks : pos[b] = pos[c] => b = c
      /\ \A b \in Blks : (pos[b] = 1) <=> (b = l.head)
      /\ \A b \in Blks : (pos[b] = num_blocks) <=> (b = t)
      /\ l.prev[l.head] = nullptr /\ l.next[t] = nullptr
      /\ \A b \in Blks : b # l.head => l.prev[b] \in Blks /\ pos[l.prev[b]] = pos[b] - 1
      /\ \A b \in Blks : b # t => l.next[b] \in Blks /\ pos[l.next[b]] = pos[b] + 1
  BY NumberFacts
<1>3. \A b \in Blks :
        q[b] = IF b = blk THEN num_blocks
               ELSE IF pos[b] > pos[blk] THEN pos[b] - 1 ELSE pos[b]
  BY DEF Back
<1>4. \A b, c \in Blks : q[b] = q[c] => b = c
  BY <1>2, BackNumbering
<1>5. CASE blk = t
  <2>1. g = l
    BY <1>5 DEF downgrade
  <2>2. q = pos
    BY <1>2, <1>5 DEF Back, Numberings
  <2> QED BY <2>1, <2>2
<1>6. CASE blk # t /\ blk = l.head
  <2>1. n \in Blks /\ pos[blk] = 1 /\ pos[n] = 2
    BY <1>1, <1>2, <1>6
  <2> DEFINE P == [l.prev EXCEPT ![n] = nullptr]
             N == [l.next EXCEPT ![blk] = nullptr]
  <2>2. g = [prev |-> [P EXCEPT ![blk] = t], next |-> [N EXCEPT ![t] = blk],
             head |-> n, tail |-> blk]
    BY <1>6, <1>1 DEF downgrade, unlinkHead, pushBack, Lists
  <2>3. /\ P \in [Blks -> Pointers]
        /\ \A b \in Blks : P[b] = IF b = n THEN nullptr ELSE l.prev[b]
    BY <1>1, <2>1, Redirect
  <2>4. /\ N \in [Blks -> Pointers]
        /\ \A b \in Blks : N[b] = IF b = blk THEN nullptr ELSE l.next[b]
    BY <1>1, Redirect
  <2> HIDE DEF P, N
  <2>5. /\ g.prev \in [Blks -> Pointers]
        /\ \A b \in Blks : g.prev[b] = IF b = blk THEN t ELSE P[b]
    BY <1>1, <2>2, <2>3, Redirect
  <2>6. /\ g.next \in [Blks -> Pointers]
        /\ \A b \in Blks : g.next[b] = IF b = t THEN blk ELSE N[b]
    BY <1>1, <2>2, <2>4, Redirect
  <2>7. g.head = n /\ g.tail = blk
    BY <2>2
  <2>8. g \in Lists
    BY <2>1, <2>2, <2>5, <2>6 DEF Lists
  <2> HIDE DEF g, q, t, n
  <2>9. Numbers(q, g)
    <3>1. q[g.head] = 1 /\ q[g.tail] = num_blocks
      BY FALRUAssumption, <1>2, <1>3, <1>6, <2>1, <2>7
    <3>2. ASSUME NEW b \in Blks
          PROVE  IF q[b] = 1 THEN g.prev[b] = nullptr
                 ELSE g.prev[b] \in Blks /\ q[g.prev[b]] = q[b] - 1
      <4>1. CASE b = blk
        BY FALRUAssumption, <1>1, <1>2, <1>3, <1>6, <2>5, <4>1
      <4>2. CASE b = n
        BY <1>1, <1>2, <1>3, <1>6, <2>1, <2>3, <2>5, <4>2
      <4>3. CASE b # blk /\ b # n
        <5>1. /\ g.prev[b] = l.prev[b] /\ l.prev[b] \in Blks
              /\ pos[l.prev[b]] = pos[b] - 1 /\ l.prev[b] # blk
          BY <1>1, <1>2, <1>6, <2>1, <2>3, <2>5, <4>3
        <5> QED BY <1>1, <1>2, <1>3, <1>6, <2>1, <4>3, <5>1
      <4> QED BY <4>1, <4>2, <4>3
    <3>3. ASSUME NEW b \in Blks
          PROVE  IF q[b] = num_blocks THEN g.next[b] = nullptr
                 ELSE g.next[b] \in Blks /\ q[g.next[b]] = q[b] + 1
      <4>1. CASE b = blk
        BY <1>1, <1>3, <1>6, <2>4, <2>6, <4>1
      <4>2. CASE b = t
        BY FALRUAssumption, <1>1, <1>2, <1>3, <1>6, <2>1, <2>6, <4>2
      <4>3. CASE b # blk /\ b # t
        <5>1. /\ g.next[b] = l.next[b] /\ l.next[b] \in Blks
              /\ pos[l.next[b]] = pos[b] + 1 /\ pos[b] > pos[blk] /\ l.next[b] # blk
          BY FALRUAssumption, <1>1, <1>2, <1>6, <2>1, <2>4, <2>6, <4>3
        <5> QED BY <1>1, <1>2, <1>3, <1>6, <2>1, <4>3, <5>1
      <4> QED BY <4>1, <4>2, <4>3
    <3> QED BY <1>4, <3>1, <3>2, <3>3 DEF Numbers
  <2> QED BY <2>8, <2>9 DEF g, q
<1>7. CASE blk # t /\ blk # l.head
  <2>1. /\ p \in Blks /\ n \in Blks
        /\ pos[p] = pos[blk] - 1 /\ pos[n] = pos[blk] + 1
    BY <1>1, <1>2, <1>7
  <2> DEFINE P == [l.prev EXCEPT ![n] = p]
             N == [l.next EXCEPT ![p] = n]
             N2 == [N EXCEPT ![blk] = nullptr]
  <2>2. g = [prev |-> [P EXCEPT ![blk] = t], next |-> [N2 EXCEPT ![t] = blk],
             head |-> l.head, tail |-> blk]
    BY <1>7, <1>1 DEF downgrade, unlinkMiddle, pushBack, Lists
  <2>3. /\ P \in [Blks -> Pointers]
        /\ \A b \in Blks : P[b] = IF b = n THEN p ELSE l.prev[b]
    BY <1>1, <2>1, Redirect
  <2>4. /\ N \in [Blks -> Pointers]
        /\ \A b \in Blks : N[b] = IF b = p THEN n ELSE l.next[b]
    BY <1>1, <2>1, Redirect
  <2> HIDE DEF P, N
  <2>5. /\ N2 \in [Blks -> Pointers]
        /\ \A b \in Blks : N2[b] = IF b = blk THEN nullptr ELSE N[b]
    BY <1>1, <2>4, Redirect
  <2> HIDE DEF N2
  <2>6. /\ g.prev \in [Blks -> Pointers]
        /\ \A b \in Blks : g.prev[b] = IF b = blk THEN t ELSE P[b]
    BY <1>1, <2>2, <2>3, Redirect
  <2>7. /\ g.next \in [Blks -> Pointers]
        /\ \A b \in Blks : g.next[b] = IF b = t THEN blk ELSE N2[b]
    BY <1>1, <2>2, <2>5, Redirect
  <2>8. g.head = l.head /\ g.tail = blk
    BY <2>2
  <2>9. g \in Lists
    BY <1>1, <2>2, <2>6, <2>7 DEF Lists
  <2> HIDE DEF g, q, t, p, n
  <2>10. Numbers(q, g)
    <3>1. q[g.head] = 1 /\ q[g.tail] = num_blocks
      BY FALRUAssumption, <1>1, <1>2, <1>3, <1>7, <2>1, <2>8
    <3>2. ASSUME NEW b \in Blks
          PROVE  IF q[b] = 1 THEN g.prev[b] = nullptr
                 ELSE g.prev[b] \in Blks /\ q[g.prev[b]] = q[b] - 1
      <4>1. CASE b = blk
        BY FALRUAssumption, <1>1, <1>2, <1>3, <1>7, <2>6, <4>1
      <4>2. CASE b = n
        BY <1>1, <1>2, <1>3, <1>7, <2>1, <2>3, <2>6, <4>2
      <4>3. CASE b # blk /\ b # n
        <5>1. g.prev[b] = l.prev[b]
          BY <2>3, <2>6, <4>3
        <5>2. CASE b = l.head
          BY FALRUAssumption, <1>1, <1>2, <1>3, <1>7, <2>1, <5>1, <5>2
        <5>3. CASE b # l.head
          <6>1. l.prev[b] \in Blks /\ pos[l.prev[b]] = pos[b] - 1 /\ l.prev[b] # blk
            BY <1>1, <1>2, <2>1, <4>3, <5>3
          <6> QED BY <1>1, <1>2, <1>3, <2>1, <4>3, <5>1, <5>3, <6>1
        <5> QED BY <5>2, <5>3
      <4> QED BY <4>1, <4>2, <4>3
    <3>3. ASSUME NEW b \in Blks
          PROVE  IF q[b] = num_blocks THEN g.next[b] = nullptr
                 ELSE g.next[b] \in Blks /\ q[g.next[b]] = q[b] + 1
      <4>1. CASE b = blk
        BY <1>1, <1>3, <1>7, <2>5, <2>7, <4>1
      <4>2. CASE b = t
        BY <1>1, <1>2, <1>3, <1>7, <2>7, <4>2
      <4>3. CASE b = p /\ b # t
        BY <1>1, <1>2, <1>3, <1>7, <2>1, <2>4, <2>5, <2>7, <4>3
      <4>4. CASE b # blk /\ b # t /\ b # p
        <5>1. /\ g.next[b] = l.next[b] /\ l.next[b] \in Blks
              /\ pos[l.next[b]] = pos[b] + 1 /\ l.next[b] # blk
          BY <1>1, <1>2, <2>1, <2>4, <2>5, <2>7, <4>4
        <5> QED BY <1>1, <1>2, <1>3, <2>1, <4>4, <5>1
      <4> QED BY <4>1, <4>2, <4>3, <4>4
    <3> QED BY <1>4, <3>1, <3>2, <3>3 DEF Numbers
  <2> QED BY <2>9, <2>10 DEF g, q
<1> QED BY <1>5, <1>6, <1>7
-----------------------------------------------------------------------------
Inv == TypeOK /\ HashAgrees /\ FreeBlocksLast /\ ResidentIsDirty

\* The pointers l thread every block, those of V before the rest.
FreeLast(l, V) ==
  \E pos \in Numberings :
    /\ Numbers(pos, l)
    /\ \A b, c \in Blks : c \in V /\ pos[b] < pos[c] => b \in V

LEMMA FreeBlocksLastIs == FreeBlocksLast <=> FreeLast(list, Resident)
  BY DEF FreeBlocksLast, FreeLast, Resident

\* A used block may join the valid ones without hiding a free block.
LEMMA FrontFreeLast ==
  ASSUME NEW pos \in Numberings, NEW V, NEW blk \in Blks,
         \A b, c \in Blks : c \in V /\ pos[b] < pos[c] => b \in V
  PROVE  \A b, c \in Blks :
           c \in V \cup {blk} /\ Front(pos, blk)[b] < Front(pos, blk)[c] => b \in V \cup {blk}
<1> DEFINE q == Front(pos, blk)
<1>1. /\ \A b \in Blks : pos[b] \in 1 .. num_blocks
      /\ \A b \in Blks :
           q[b] = IF b = blk THEN 1 ELSE IF pos[b] < pos[blk] THEN pos[b] + 1 ELSE pos[b]
  BY DEF Front, Numberings
<1> HIDE DEF q
<1>2. ASSUME NEW b \in Blks, NEW c \in Blks, c \in V \cup {blk}, q[b] < q[c]
      PROVE  b \in V \cup {blk}
  <2>1. CASE b = blk
    BY <2>1
  <2>2. CASE b # blk
    <3>1. c # blk
      BY FALRUAssumption, <1>1, <1>2, <2>2
    <3>2. pos[b] < pos[c]
      BY FALRUAssumption, <1>1, <1>2, <2>2, <3>1
    <3> QED BY <1>2, <3>1, <3>2
  <2> QED BY <2>1, <2>2
<1> QED BY <1>2 DEF q

LEMMA UpgradeFreeLast ==
  ASSUME NEW l \in Lists, NEW V, FreeLast(l, V), NEW blk \in Blks
  PROVE  upgrade(l, blk) \in Lists /\ FreeLast(upgrade(l, blk), V \cup {blk})
<1>1. PICK pos \in Numberings :
        /\ Numbers(pos, l)
        /\ \A b, c \in Blks : c \in V /\ pos[b] < pos[c] => b \in V
  BY DEF FreeLast
<1> DEFINE q == Front(pos, blk)
<1>2. upgrade(l, blk) \in Lists /\ Numbers(q, upgrade(l, blk))
  BY <1>1, UpgradeNumbers
<1>3. q \in Numberings
  BY <1>1, FrontNumbering DEF Numbers
<1>4. \A b, c \in Blks : c \in V \cup {blk} /\ q[b] < q[c] => b \in V \cup {blk}
  BY <1>1, FrontFreeLast
<1> HIDE DEF q
<1> QED BY <1>2, <1>3, <1>4 DEF FreeLast

LEMMA InitInv == Init => Inv
<1> SUFFICES ASSUME Init PROVE Inv
  OBVIOUS
<1>1. TypeOK
  BY InitThreaded DEF Init, TypeOK, FABlk, Pointers, Counters, Zero
<1>2. HashAgrees
  BY DEF Init, HashAgrees, Resident
<1>3. FreeBlocksLast
  BY InitThreaded DEF Init, FreeBlocksLast
<1>4. ResidentIsDirty
  BY DEF Init, ResidentIsDirty
<1> QED BY <1>1, <1>2, <1>3, <1>4 DEF Inv

LEMMA BumpType ==
  ASSUME stats \in [Counters -> Nat], NEW moved
  PROVE  Bump(moved) \in [Counters -> Nat]
  BY DEF Bump

LEMMA HitInv ==
  ASSUME Inv, NEW type \in Request_Type, NEW addr \in Addr, Hit(type, addr)
  PROVE  Inv'
<1> DEFINE blk == findBlock(addr)
<1> USE DEF Inv
<1>1. blk \in Blks /\ blks[blk].valid /\ blks[blk].tag = addr
  BY DEF Hit, findBlock, TypeOK, Pointers, HashAgrees
<1>2. blks[blk] \in FABlk /\ blks[blk].dirty
  BY <1>1 DEF TypeOK, ResidentIsDirty
<1> DEFINE new == accessedBlk(blks[blk], type # "READ")
<1>3. new \in FABlk /\ new.valid /\ new.dirty /\ new.tag = addr
  <2>1. CASE type = "READ"
    BY <1>1, <1>2, <2>1 DEF accessedBlk
  <2>2. CASE type # "READ"
    <3>1. new = [blks[blk] EXCEPT !.dirty = TRUE]
      BY <2>2 DEF accessedBlk
    <3> QED BY <1>1, <1>2, <3>1 DEF FABlk
  <2> QED BY <2>1, <2>2
<1> HIDE DEF new
<1>4. /\ blks' \in [Blks -> FABlk]
      /\ \A b \in Blks : /\ blks'[b].valid <=> blks[b].valid
                         /\ blks'[b].dirty <=> blks[b].dirty
                         /\ blks'[b].tag = blks[b].tag
  <2>1. blks' = [blks EXCEPT ![blk] = new]
    BY DEF Hit, new
  <2>2. /\ blks' \in [Blks -> FABlk]
        /\ \A b \in Blks : blks'[b] = IF b = blk THEN new ELSE blks[b]
    BY <1>1, <1>3, <2>1 DEF TypeOK
  <2> QED BY <1>1, <1>2, <1>3, <2>2
<1>5. list' \in Lists /\ FreeLast(list', Resident \cup {blk})
  BY <1>1, FreeBlocksLastIs, UpgradeFreeLast DEF Hit, TypeOK
<1>6. Resident \cup {blk} = Resident
  BY <1>1 DEF Resident
<1>7. TypeOK'
  <2>1. stats' \in [Counters -> Nat] /\ sent' = <<>> /\ kept' = kept
    BY BumpType DEF Hit, TypeOK
  <2>2. <<>> \in Seq([type : Request_Type, addr : Addr])
    OBVIOUS
  <2> QED BY <1>4, <1>5, <2>1, <2>2 DEF Hit, TypeOK
<1>8. HashAgrees' /\ ResidentIsDirty'
  BY <1>4 DEF Hit, TypeOK, Pointers, HashAgrees, ResidentIsDirty, Resident
<1>9. FreeBlocksLast'
  BY <1>4, <1>5, <1>6 DEF FreeBlocksLast, FreeLast, Resident
<1> QED BY <1>7, <1>8, <1>9

LEMMA ReadMissInv ==
  ASSUME Inv, NEW addr \in Addr, ReadMiss(addr)
  PROVE  Inv'
<1> USE DEF Inv
<1>1. TypeOK'
  BY BumpType DEF ReadMiss, TypeOK
<1>2. HashAgrees' /\ ResidentIsDirty'
  BY DEF ReadMiss, HashAgrees, ResidentIsDirty, Resident
<1>3. FreeBlocksLast'
  BY DEF ReadMiss, FreeBlocksLast
<1> QED BY <1>1, <1>2, <1>3

\* invalidate never moves the victim: it is at the tail already.
LEMMA InvalidatedList ==
  invalidatedList = list
  BY DEF invalidatedList, victim, downgrade

LEMMA WriteMissInv ==
  ASSUME Inv, NEW type \in Request_Type, NEW addr \in Addr, WriteMiss(type, addr)
  PROVE  Inv'
<1> USE DEF Inv
<1>1. victim \in Blks /\ blks[victim] \in FABlk
  BY DEF TypeOK, Lists, victim
<1>2. /\ blks' = [blks EXCEPT ![victim] = insertedBlk(addr)]
      /\ list' = upgrade(list, victim)
      /\ tagHash' = [invalidatedHash EXCEPT ![addr] = victim]
      /\ tagHash[addr] = nullptr
  BY InvalidatedList DEF WriteMiss, insertBlock, findBlock
<1>3. insertedBlk(addr) \in FABlk
  BY DEF insertedBlk, FABlk
<1>4. /\ \A b \in Blks : blks'[b] = IF b = victim THEN insertedBlk(addr) ELSE blks[b]
      /\ blks' \in [Blks -> FABlk]
  BY <1>1, <1>2, <1>3 DEF TypeOK
<1>5. Resident' = Resident \cup {victim}
  BY <1>1, <1>4 DEF Resident, insertedBlk
<1>6. list' \in Lists /\ FreeLast(list', Resident')
  BY <1>1, <1>2, <1>5, FreeBlocksLastIs, UpgradeFreeLast DEF TypeOK
<1>7. blks[victim].valid => blks[victim].tag \in Addr /\ tagHash[blks[victim].tag] = victim
  BY <1>1 DEF HashAgrees, Resident
<1>8. /\ invalidatedHash \in [Addr -> Pointers]
      /\ \A a \in Addr :
           invalidatedHash[a] = IF blks[victim].valid /\ a = blks[victim].tag THEN nullptr
                                ELSE tagHash[a]
  BY <1>7 DEF TypeOK, invalidatedHash, Pointers
<1>9. /\ tagHash' \in [Addr -> Pointers]
      /\ \A a \in Addr : tagHash'[a] = IF a = addr THEN victim ELSE invalidatedHash[a]
  BY <1>1, <1>2, <1>8 DEF Pointers
<1>10. TypeOK'
  <2>1. wb_required => blks[victim].tag \in Addr
    BY <1>7 DEF wb_required
  <2>2. sent' \in Seq([type : Request_Type, addr : Addr])
    <3> DEFINE R == [type : Request_Type, addr : Addr]
               loads == IF type = "WRITE" THEN <<[type |-> "READ", addr |-> addr]>> ELSE <<>>
               backs == IF wb_required
                        THEN <<[type |-> "WRITE_BACK", addr |-> blks[victim].tag]>> ELSE <<>>
    <3>1. [type |-> "READ", addr |-> addr] \in R
      BY DEF Request_Type
    <3>2. wb_required => [type |-> "WRITE_BACK", addr |-> blks[victim].tag] \in R
      BY <2>1 DEF Request_Type
    <3>3. sent' = loads \o backs
      BY DEF WriteMiss
    <3> HIDE DEF R
    <3>4. loads \in Seq(R) /\ backs \in Seq(R)
      BY <3>1, <3>2
    <3> HIDE DEF loads, backs
    <3>5. sent' \in Seq(R)
      BY <3>3, <3>4
    <3> QED BY <3>5 DEF R
  <2>3. stats' \in [Counters -> Nat] /\ kept' \in Nat
    BY BumpType DEF WriteMiss, TypeOK
  <2> QED BY <1>4, <1>6, <1>9, <2>2, <2>3 DEF TypeOK
<1>11. HashAgrees'
  <2>1. ASSUME NEW a \in Addr, tagHash'[a] # nullptr
        PROVE  blks'[tagHash'[a]].valid /\ blks'[tagHash'[a]].tag = a
    <3>1. CASE a = addr
      BY <1>1, <1>4, <1>9, <3>1 DEF insertedBlk
    <3>2. CASE a # addr
      <4>1. tagHash'[a] = tagHash[a] /\ tagHash[a] \in Blks
        BY <1>8, <1>9, <2>1, <3>2 DEF TypeOK, Pointers
      <4>2. blks[tagHash[a]].valid /\ blks[tagHash[a]].tag = a
        BY <2>1, <4>1 DEF HashAgrees
      <4>3. tagHash[a] # victim
        BY <1>8, <1>9, <2>1, <3>2, <4>1, <4>2
      <4> QED BY <1>4, <4>1, <4>2, <4>3
    <3> QED BY <3>1, <3>2
  <2>2. ASSUME NEW b \in Resident'
        PROVE  blks'[b].tag \in Addr /\ tagHash'[blks'[b].tag] = b
    <3>1. CASE b = victim
      BY <1>1, <1>4, <1>9, <3>1 DEF insertedBlk
    <3>2. CASE b # victim
      <4>1. b \in Resident /\ b \in Blks
        BY <1>5, <3>2 DEF Resident
      <4>2. blks[b].tag \in Addr /\ tagHash[blks[b].tag] = b
        BY <4>1 DEF HashAgrees
      <4>3. blks[b].tag # addr
        BY <1>2, <4>1, <4>2 DEF Blks, nullptr
      <4>4. blks[victim].valid => blks[b].tag # blks[victim].tag
        BY <1>7, <3>2, <4>2
      <4> QED BY <1>4, <1>8, <1>9, <3>2, <4>1, <4>2, <4>3, <4>4
    <3> QED BY <3>1, <3>2
  <2> QED BY <2>1, <2>2 DEF HashAgrees
<1>12. FreeBlocksLast'
  BY <1>6 DEF FreeBlocksLast, FreeLast, Resident
<1>13. ResidentIsDirty'
  BY <1>1, <1>4 DEF ResidentIsDirty, insertedBlk
<1> QED BY <1>10, <1>11, <1>12, <1>13

LEMMA ResidentFinite == IsFiniteSet(Resident) /\ Cardinality(Resident) \in Nat
<1>1. IsFiniteSet(Blks)
  BY FALRUAssumption, FS_Interval DEF Blks
<1>2. Resident \subseteq Blks
  BY DEF Resident
<1> QED BY <1>1, <1>2, FS_Subset, FS_CardinalityType

LEMMA ReInitializeInv ==
  ASSUME Inv, reInitialize
  PROVE  Inv'
<1> USE DEF Inv
<1>1. TypeOK'
  BY ResidentFinite DEF reInitialize, TypeOK, Zero
<1>2. HashAgrees' /\ ResidentIsDirty'
  BY DEF reInitialize, HashAgrees, ResidentIsDirty, Resident
<1>3. FreeBlocksLast'
  BY DEF reInitialize, FreeBlocksLast
<1> QED BY <1>1, <1>2, <1>3

LEMMA NextInv ==
  ASSUME Inv, [Next]_vars
  PROVE  Inv'
<1>1. CASE reInitialize
  BY <1>1, ReInitializeInv
<1>2. ASSUME NEW type \in Request_Type, NEW addr \in Addr, send(type, addr)
      PROVE  Inv'
  <2>1. CASE Hit(type, addr)
    BY <2>1, HitInv
  <2>2. CASE ReadMiss(addr)
    BY <2>2, ReadMissInv
  <2>3. CASE WriteMiss(type, addr)
    BY <2>3, WriteMissInv
  <2> QED BY <1>2, <2>1, <2>2, <2>3 DEF send
<1>3. CASE UNCHANGED vars
  BY <1>3 DEF vars, Inv, TypeOK, HashAgrees, FreeBlocksLast, ResidentIsDirty, Resident
<1> QED BY <1>1, <1>2, <1>3 DEF Next

THEOREM InvHolds == Spec => []Inv
  BY InitInv, NextInv, PTL DEF Spec

\* The cache is type correct for any number of blocks.
THEOREM WOFACacheType == Spec => []TypeOK
  BY InvHolds, PTL DEF Inv

\* The LRU list threads every block exactly once, in both directions, for any number of
\* blocks and after any sequence of requests.
THEOREM WOFAListThreaded == Spec => []ListThreaded
<1>1. Inv => ListThreaded
  BY DEF Inv, FreeBlocksLast, ListThreaded, Threaded
<1> QED BY <1>1, InvHolds, PTL

\* The hash and the valid blocks agree for any number of blocks and addresses.
THEOREM WOFAHashAgrees == Spec => []HashAgrees
  BY InvHolds, PTL DEF Inv

\* No block is evicted while another one is free, for any number of blocks.
THEOREM WOFAFreeBlocksLast == Spec => []FreeBlocksLast
  BY InvHolds, PTL DEF Inv

\* A block the cache holds is dirty, whatever sequence of requests it has had.
THEOREM WOFAResidentIsDirty == Spec => []ResidentIsDirty
  BY InvHolds, PTL DEF Inv
-----------------------------------------------------------------------------
\* The counters that a request moves, by one each.
LEMMA BumpFacts ==
  ASSUME NEW moved, stats \in [Counters -> Nat], stats' = Bump(moved)
  PROVE  /\ stats'.accesses = stats.accesses + 1
         /\ stats'.num_hits = stats.num_hits + IF "num_hits" \in moved THEN 1 ELSE 0
         /\ stats'.num_misses = stats.num_misses + IF "num_misses" \in moved THEN 1 ELSE 0
         /\ stats'.num_loads = stats.num_loads + IF "num_loads" \in moved THEN 1 ELSE 0
         /\ stats'.num_evicts = stats.num_evicts + IF "num_evicts" \in moved THEN 1 ELSE 0
         /\ stats.accesses \in Nat /\ stats.num_hits \in Nat /\ stats.num_misses \in Nat
         /\ stats.num_loads \in Nat /\ stats.num_evicts \in Nat
  BY DEF Bump, Counters

LEMMA InitBalanced == Init => TrafficBalanced
<1> SUFFICES ASSUME Init PROVE TrafficBalanced
  OBVIOUS
<1>1. Resident = {}
  BY DEF Init, Resident
<1>2. Cardinality(Resident) = 0
  BY <1>1, FS_EmptySet
<1> QED BY <1>2 DEF Init, Zero, Counters, TrafficBalanced

LEMMA HitBalanced ==
  ASSUME Inv, TrafficBalanced, NEW type \in Request_Type, NEW addr \in Addr, Hit(type, addr)
  PROVE  TrafficBalanced'
<1>1. Resident' = Resident
  BY DEF Hit, Inv, TypeOK, Resident, FABlk, accessedBlk
<1>2. /\ stats' = Bump({"num_hits"}) /\ stats \in [Counters -> Nat]
      /\ kept' = kept /\ kept \in Nat
  BY DEF Hit, Inv, TypeOK
<1> DEFINE moved == {"num_hits"}
<1>3. /\ "num_hits" \in moved /\ "num_misses" \notin moved
      /\ "num_loads" \notin moved /\ "num_evicts" \notin moved
  OBVIOUS
<1>4. stats' = Bump(moved)
  BY <1>2
<1> HIDE DEF moved
<1>5. /\ stats'.accesses = stats.accesses + 1
      /\ stats'.num_hits = stats.num_hits + 1
      /\ stats'.num_misses = stats.num_misses + 0
      /\ stats'.num_loads = stats.num_loads
      /\ stats'.num_evicts = stats.num_evicts
      /\ stats.accesses \in Nat /\ stats.num_hits \in Nat /\ stats.num_misses \in Nat
      /\ stats.num_loads \in Nat /\ stats.num_evicts \in Nat
  BY <1>2, <1>3, <1>4, BumpFacts
<1>6. Cardinality(Resident)' = Cardinality(Resident) /\ Cardinality(Resident) \in Nat
  BY <1>1, ResidentFinite
<1> QED BY <1>2, <1>5, <1>6 DEF TrafficBalanced

LEMMA ReadMissBalanced ==
  ASSUME Inv, TrafficBalanced, NEW addr \in Addr, ReadMiss(addr)
  PROVE  TrafficBalanced'
<1>1. Resident' = Resident
  BY DEF ReadMiss, Resident
<1>2. /\ stats' = Bump({"num_misses"}) /\ stats \in [Counters -> Nat]
      /\ kept' = kept /\ kept \in Nat
  BY DEF ReadMiss, Inv, TypeOK
<1> DEFINE moved == {"num_misses"}
<1>3. /\ "num_hits" \notin moved /\ "num_misses" \in moved
      /\ "num_loads" \notin moved /\ "num_evicts" \notin moved
  OBVIOUS
<1>4. stats' = Bump(moved)
  BY <1>2
<1> HIDE DEF moved
<1>5. /\ stats'.accesses = stats.accesses + 1
      /\ stats'.num_hits = stats.num_hits + 0
      /\ stats'.num_misses = stats.num_misses + 1
      /\ stats'.num_loads = stats.num_loads
      /\ stats'.num_evicts = stats.num_evicts
      /\ stats.accesses \in Nat /\ stats.num_hits \in Nat /\ stats.num_misses \in Nat
      /\ stats.num_loads \in Nat /\ stats.num_evicts \in Nat
  BY <1>2, <1>3, <1>4, BumpFacts
<1>6. Cardinality(Resident)' = Cardinality(Resident) /\ Cardinality(Resident) \in Nat
  BY <1>1, ResidentFinite
<1> QED BY <1>2, <1>5, <1>6 DEF TrafficBalanced

\* The victim is resident after a miss that inserts, and it was before exactly if it
\* goes to the next level.
LEMMA WriteMissGrows ==
  ASSUME Inv, NEW type \in Request_Type, NEW addr \in Addr, WriteMiss(type, addr)
  PROVE  /\ Resident' = Resident \cup {victim}
         /\ wb_required <=> victim \in Resident
         /\ Cardinality(Resident') = Cardinality(Resident) + IF wb_required THEN 0 ELSE 1
<1>1. /\ victim \in Blks
      /\ blks' = [blks EXCEPT ![victim] = insertedBlk(addr)]
      /\ blks \in [Blks -> FABlk]
  BY DEF WriteMiss, insertBlock, Inv, TypeOK, Lists, victim
<1>2. Resident' = Resident \cup {victim}
  BY <1>1 DEF Resident, insertedBlk
<1>3. wb_required <=> victim \in Resident
  BY <1>1 DEF wb_required, Resident, Inv, ResidentIsDirty
<1>4. Cardinality(Resident') = Cardinality(Resident) + IF wb_required THEN 0 ELSE 1
  <2>1. CASE wb_required
    <3>1. Resident' = Resident
      BY <1>2, <1>3, <2>1
    <3> QED BY <2>1, <3>1, ResidentFinite
  <2>2. CASE ~ wb_required
    <3>1. Cardinality(Resident \cup {victim}) = Cardinality(Resident) + 1
      BY <1>3, <2>2, ResidentFinite, FS_AddElement
    <3> QED BY <1>2, <2>2, <3>1
  <2> QED BY <2>1, <2>2
<1> QED BY <1>2, <1>3, <1>4

LEMMA WriteMissBalanced ==
  ASSUME Inv, TrafficBalanced, NEW type \in Request_Type, NEW addr \in Addr,
         WriteMiss(type, addr)
  PROVE  TrafficBalanced'
<1> DEFINE moved == (IF type = "WRITE" THEN {"num_misses", "num_loads"} ELSE {})
                      \cup (IF wb_required THEN {"num_evicts"} ELSE {})
<1>1. stats' = Bump(moved) /\ kept' = kept /\ kept \in Nat /\ stats \in [Counters -> Nat]
  BY DEF WriteMiss, Inv, TypeOK
<1>2. /\ "num_hits" \notin moved
      /\ "num_misses" \in moved <=> type = "WRITE"
      /\ "num_loads" \in moved <=> type = "WRITE"
      /\ "num_evicts" \in moved <=> wb_required
  OBVIOUS
<1> HIDE DEF moved
<1>3. /\ stats'.accesses = stats.accesses + 1
      /\ stats'.num_hits = stats.num_hits
      /\ stats'.num_misses = stats.num_misses + IF type = "WRITE" THEN 1 ELSE 0
      /\ stats'.num_loads = stats.num_loads + IF type = "WRITE" THEN 1 ELSE 0
      /\ stats'.num_evicts = stats.num_evicts + IF wb_required THEN 1 ELSE 0
      /\ stats.accesses \in Nat /\ stats.num_hits \in Nat /\ stats.num_misses \in Nat
      /\ stats.num_loads \in Nat /\ stats.num_evicts \in Nat
  BY <1>1, <1>2, BumpFacts
<1>4. PICK w \in {0, 1} : w = IF type = "WRITE" THEN 1 ELSE 0
  OBVIOUS
<1>5. PICK e \in {0, 1} : e = IF wb_required THEN 1 ELSE 0
  OBVIOUS
<1>6. /\ stats'.num_misses = stats.num_misses + w /\ stats'.num_loads = stats.num_loads + w
       /\ stats'.num_evicts = stats.num_evicts + e
  BY <1>3, <1>4, <1>5
<1>7. Cardinality(Resident') = Cardinality(Resident) + 1 - e /\ Cardinality(Resident) \in Nat
  BY WriteMissGrows, <1>5, ResidentFinite
<1> QED BY <1>1, <1>3, <1>4, <1>5, <1>6, <1>7 DEF TrafficBalanced

LEMMA NextBalanced ==
  ASSUME Inv, TrafficBalanced, [Next]_vars
  PROVE  TrafficBalanced'
<1>1. CASE reInitialize
  <2>1. Resident' = Resident
    BY <1>1 DEF reInitialize, Resident
  <2>2. /\ stats'.accesses = 0 /\ stats'.num_hits = 0 /\ stats'.num_misses = 0
        /\ stats'.num_loads = 0 /\ stats'.num_evicts = 0
        /\ kept' = Cardinality(Resident)
    BY <1>1 DEF reInitialize, Zero, Counters
  <2> QED BY <2>1, <2>2, ResidentFinite DEF TrafficBalanced
<1>2. ASSUME NEW type \in Request_Type, NEW addr \in Addr, send(type, addr)
      PROVE  TrafficBalanced'
  BY <1>2, HitBalanced, ReadMissBalanced, WriteMissBalanced DEF send
<1>3. CASE UNCHANGED vars
  BY <1>3 DEF vars, TrafficBalanced, Resident
<1> QED BY <1>1, <1>2, <1>3 DEF Next

\* The statistics account for every block that came in or went out, for any number of
\* blocks and requests.
THEOREM WOFATrafficBalanced == Spec => []TrafficBalanced
  BY InvHolds, InitBalanced, NextBalanced, PTL DEF Spec
-----------------------------------------------------------------------------
\* Every non-empty set of numbers has a least element: what is true of the blocks one
\* after the other from the head is shown of all of them by the first exception.
LEMMA Least ==
  ASSUME NEW T, T \subseteq Nat, T # {}
  PROVE  \E m \in T : \A n \in T : m <= n
<1>1. PICK R : IsWellFoundedOn(R, Nat) /\ \A m, n \in Nat : <<n, m>> \in R <=> n < m
  <2> DEFINE R == OpToRel(<, Nat)
  <2>1. IsWellFoundedOn(R, Nat)
    BY NatLessThanWellFounded
  <2>2. \A m, n \in Nat : <<n, m>> \in R <=> n < m
    BY DEF OpToRel
  <2> HIDE DEF R
  <2> QED BY <2>1, <2>2
<1>2. \E m \in T : \A n \in T : ~ (<<n, m>> \in R)
  BY <1>1, WFMin
<1>3. PICK m \in T : \A n \in T : ~ (<<n, m>> \in R)
  BY <1>2
<1>4. \A n \in T : ~ (n < m)
  BY <1>1, <1>3
<1>5. \A n \in T : m \in Nat /\ n \in Nat
  BY <1>3
<1> QED BY <1>3, <1>4, <1>5

\* Some block has each number.
LEMMA EveryPlaceTaken ==
  ASSUME NEW l \in Lists, NEW pos \in Numberings, Numbers(pos, l)
  PROVE  \A i \in 1 .. num_blocks : \E b \in Blks : pos[b] = i
<1> DEFINE T == {i \in 1 .. num_blocks : \A b \in Blks : pos[b] # i}
<1>1. SUFFICES ASSUME T # {} PROVE FALSE
  OBVIOUS
<1>2. num_blocks \in Nat /\ num_blocks >= 2 /\ T \subseteq Nat
  BY FALRUAssumption
<1>3. PICK m \in T : \A n \in T : m <= n
  BY <1>1, <1>2, Least
<1>4. m \in 2 .. num_blocks /\ m - 1 \in 1 .. num_blocks
  <2>1. l.head \in Blks /\ pos[l.head] = 1
    BY DEF Lists, Numbers
  <2> QED BY <1>2, <1>3, <2>1
<1>5. m - 1 \notin T
  BY <1>2, <1>3, <1>4
<1>6. PICK b \in Blks : pos[b] = m - 1
  BY <1>4, <1>5
<1>7. pos[b] # num_blocks
  BY <1>2, <1>4, <1>6
<1>8. l.next[b] \in Blks /\ pos[l.next[b]] = pos[b] + 1
  BY <1>7 DEF Numbers
<1>9. pos[l.next[b]] = m
  BY <1>4, <1>6, <1>8
<1> QED BY <1>3, <1>8, <1>9

\* Walk satisfies the equation that defines it, since some function does.
LEMMA WalkUnfolds ==
  ASSUME NEW l, NEW f \in [1 .. num_blocks -> Blks],
         \A i \in 1 .. num_blocks :
           f[i] = IF i = 1 THEN l.head
                  ELSE IF f[i - 1] = nullptr THEN nullptr ELSE l.next[f[i - 1]]
  PROVE  \A i \in 1 .. num_blocks :
           Walk(l)[i] = IF i = 1 THEN l.head
                        ELSE IF Walk(l)[i - 1] = nullptr THEN nullptr
                        ELSE l.next[Walk(l)[i - 1]]
<1> DEFINE P(g) == g = [i \in 1 .. num_blocks |->
                          IF i = 1 THEN l.head
                          ELSE IF g[i - 1] = nullptr THEN nullptr ELSE l.next[g[i - 1]]]
<1>1. P(f)
  OBVIOUS
<1>2. Walk(l) = CHOOSE g : P(g)
  BY DEF Walk
<1> HIDE DEF P
<1>3. P(Walk(l))
  BY <1>1, <1>2
<1>4. PICK w : w = Walk(l) /\ P(w)
  BY <1>3
<1>5. \A i \in 1 .. num_blocks :
        w[i] = IF i = 1 THEN l.head
               ELSE IF w[i - 1] = nullptr THEN nullptr ELSE l.next[w[i - 1]]
  BY <1>4 DEF P
<1> QED BY <1>4, <1>5

\* Following next from the head visits the blocks in the order of their numbers.
LEMMA WalkNumbered ==
  ASSUME NEW l \in Lists, NEW pos \in Numberings, Numbers(pos, l)
  PROVE  \A i \in 1 .. num_blocks : Walk(l)[i] \in Blks /\ pos[Walk(l)[i]] = i
<1> DEFINE f == [i \in 1 .. num_blocks |-> CHOOSE b \in Blks : pos[b] = i]
           w == Walk(l)
<1>1. /\ num_blocks \in Nat /\ num_blocks >= 2 /\ nullptr \notin Blks
      /\ l.head \in Blks /\ pos[l.head] = 1
      /\ \A b, c \in Blks : pos[b] = pos[c] => b = c
      /\ \A b \in Blks : pos[b] # num_blocks =>
           l.next[b] \in Blks /\ pos[l.next[b]] = pos[b] + 1
  BY FALRUAssumption DEF Numbers, Lists, Blks, nullptr
<1>2. \A i \in 1 .. num_blocks : f[i] \in Blks /\ pos[f[i]] = i
  BY EveryPlaceTaken
<1>3. f \in [1 .. num_blocks -> Blks]
  BY <1>2
<1> HIDE DEF f
<1>4. ASSUME NEW i \in 1 .. num_blocks
      PROVE  f[i] = IF i = 1 THEN l.head
                    ELSE IF f[i - 1] = nullptr THEN nullptr ELSE l.next[f[i - 1]]
  <2>1. CASE i = 1
    BY <1>1, <1>2, <2>1
  <2>2. CASE i # 1
    <3>1. i - 1 \in 1 .. num_blocks /\ i - 1 # num_blocks
      BY <1>1, <2>2
    <3>2. f[i - 1] \in Blks /\ pos[f[i - 1]] = i - 1
      BY <1>2, <3>1
    <3>3. l.next[f[i - 1]] \in Blks /\ pos[l.next[f[i - 1]]] = (i - 1) + 1
      BY <1>1, <3>1, <3>2
    <3>4. f[i] = l.next[f[i - 1]]
      BY <1>1, <1>2, <3>3
    <3> QED BY <1>1, <2>2, <3>2, <3>4
  <2> QED BY <2>1, <2>2
<1>5. \A i \in 1 .. num_blocks :
        w[i] = IF i = 1 THEN l.head
               ELSE IF w[i - 1] = nullptr THEN nullptr ELSE l.next[w[i - 1]]
  BY <1>3, <1>4, WalkUnfolds
<1> HIDE DEF w
<1> DEFINE T == {i \in 1 .. num_blocks : ~ (w[i] \in Blks /\ pos[w[i]] = i)}
<1>6. ASSUME T # {} PROVE FALSE
  <2>1. T \subseteq Nat
    BY <1>1
  <2>2. PICK m \in T : \A n \in T : m <= n
    BY <1>6, <2>1, Least
  <2>3. m \in 1 .. num_blocks /\ m # 1
    BY <1>1, <1>5, <2>2
  <2>4. m - 1 \in 1 .. num_blocks /\ m - 1 # num_blocks /\ m - 1 \notin T
    BY <1>1, <2>2, <2>3
  <2>5. w[m - 1] \in Blks /\ pos[w[m - 1]] = m - 1
    BY <2>4
  <2>6. w[m] = l.next[w[m - 1]]
    BY <1>1, <1>5, <2>3, <2>5
  <2>7. w[m] \in Blks /\ pos[w[m]] = (m - 1) + 1
    BY <1>1, <2>4, <2>5, <2>6
  <2> QED BY <2>2, <2>3, <2>7
<1> QED BY <1>6 DEF w

\* Blocks that come before all others have the first numbers.
LEMMA FirstPlaces ==
  ASSUME NEW l \in Lists, NEW pos \in Numberings, Numbers(pos, l), NEW V \in SUBSET Blks,
         \A b, c \in Blks : c \in V /\ pos[b] < pos[c] => b \in V
  PROVE  /\ Cardinality(V) \in 0 .. num_blocks
         /\ \A b \in Blks : b \in V <=> pos[b] <= Cardinality(V)
<1> DEFINE T == {i \in 1 .. (num_blocks + 1) : \A b \in V : pos[b] # i}
<1>1. /\ num_blocks \in Nat /\ \A b \in Blks : pos[b] \in 1 .. num_blocks
      /\ \A b, c \in Blks : pos[b] = pos[c] => b = c
  BY FALRUAssumption DEF Numberings, Numbers
<1>2. num_blocks + 1 \in T /\ T \subseteq Nat
  BY <1>1
<1>3. PICK m \in T : \A n \in T : m <= n
  BY <1>2, Least
<1>4. PICK k \in 0 .. num_blocks : m = k + 1
  <2>1. m - 1 \in 0 .. num_blocks /\ m = (m - 1) + 1
    BY <1>1
  <2> QED BY <2>1
<1>5. ASSUME NEW b \in Blks
      PROVE  b \in V <=> pos[b] <= k
  <2>1. ASSUME b \in V, pos[b] > k PROVE FALSE
    <3>1. pos[b] > m /\ m \in 1 .. num_blocks
      BY <1>1, <1>3, <1>4, <2>1
    <3>2. PICK c \in Blks : pos[c] = m
      BY <3>1, EveryPlaceTaken
    <3> QED BY <1>3, <2>1, <3>1, <3>2
  <2>2. ASSUME pos[b] <= k PROVE b \in V
    <3>1. pos[b] \in 1 .. (num_blocks + 1) /\ pos[b] \notin T
      BY <1>1, <1>3, <1>4, <2>2
    <3>2. PICK c \in V : pos[c] = pos[b]
      BY <3>1
    <3> QED BY <1>1, <3>2
  <2> QED BY <1>1, <2>1, <2>2
<1>6. Cardinality(V) = k
  <2> DEFINE f == [b \in V |-> pos[b]]
  <2>1. IsFiniteSet(V)
    <3>1. IsFiniteSet(Blks)
      BY FALRUAssumption, FS_Interval DEF Blks
    <3> QED BY <3>1, FS_Subset
  <2>2. f \in Bijection(V, 1 .. k)
    <3>1. \A b \in V : pos[b] \in 1 .. k
      BY <1>1, <1>5
    <3>2. \A i \in 1 .. k : \E b \in V : pos[b] = i
      <4> SUFFICES ASSUME NEW i \in 1 .. k PROVE \E b \in V : pos[b] = i
        OBVIOUS
      <4>1. i \in 1 .. num_blocks /\ i <= k
        BY <1>1
      <4>2. PICK b \in Blks : pos[b] = i
        BY <4>1, EveryPlaceTaken
      <4> QED BY <1>5, <4>1, <4>2
    <3>3. f \in [V -> 1 .. k] /\ \A b \in V : f[b] = pos[b]
      BY <3>1
    <3> HIDE DEF f
    <3>4. f \in Injection(V, 1 .. k)
      <4>1. ASSUME NEW a \in V, NEW b \in V, f[a] = f[b] PROVE a = b
        <5>1. a \in Blks /\ b \in Blks /\ pos[a] = pos[b]
          BY <3>3, <4>1
        <5> QED BY <1>1, <5>1
      <4>2. \A a, b \in V : f[a] = f[b] => a = b
        BY <4>1
      <4>3. f \in [V -> 1 .. k]
        BY <3>3
      <4> QED BY <4>2, <4>3 DEF Injection, IsInjective
    <3>5. f \in Surjection(V, 1 .. k)
      BY <3>2, <3>3 DEF Surjection
    <3> QED BY <3>4, <3>5 DEF Bijection
  <2> HIDE DEF f
  <2>3. Cardinality(1 .. k) = Cardinality(V)
    BY <2>1, <2>2, FS_Bijection DEF ExistsBijection
  <2>4. Cardinality(1 .. k) = k
    BY <1>1, FS_Interval
  <2> QED BY <2>3, <2>4
<1> QED BY <1>5, <1>6

LEMMA Tabulated ==
  ASSUME NEW S, NEW n \in Nat, NEW f \in [1 .. n -> S]
  PROVE  f \in Seq(S) /\ Len(f) = n
<1>1. PICK g : g = [i \in 1 .. n |-> f[i]]
  OBVIOUS
<1>2. g \in Seq(S) /\ Len(g) = n
  BY <1>1
<1>3. g = f
  BY <1>1
<1> QED BY <1>2, <1>3

\* The order of the addresses: the block with number i holds the address at place i.
LEMMA OrderIs ==
  ASSUME NEW l \in Lists, NEW pos \in Numberings, Numbers(pos, l), NEW V \in SUBSET Blks,
         \A b, c \in Blks : c \in V /\ pos[b] < pos[c] => b \in V,
         NEW bl, \A b \in V : bl[b].tag \in Addr,
         NEW ord, ord = [i \in 1 .. Cardinality(V) |-> bl[Walk(l)[i]].tag]
  PROVE  /\ Cardinality(V) \in 0 .. num_blocks
         /\ ord \in Seq(Addr) /\ Len(ord) = Cardinality(V)
         /\ \A b \in Blks : b \in V <=> pos[b] <= Cardinality(V)
         /\ \A b \in V : pos[b] \in 1 .. Cardinality(V) /\ ord[pos[b]] = bl[b].tag
         /\ \A i \in 1 .. Cardinality(V) : \E b \in V : pos[b] = i
<1>1. /\ Cardinality(V) \in 0 .. num_blocks /\ num_blocks \in Nat
      /\ \A b \in Blks : b \in V <=> pos[b] <= Cardinality(V)
      /\ \A b \in Blks : pos[b] \in 1 .. num_blocks
      /\ \A b, c \in Blks : pos[b] = pos[c] => b = c
  BY FirstPlaces, FALRUAssumption DEF Numberings, Numbers
<1>2. PICK k \in Nat : k = Cardinality(V) /\ k <= num_blocks
  BY <1>1
<1>3. ASSUME NEW i \in 1 .. k
      PROVE  Walk(l)[i] \in V /\ pos[Walk(l)[i]] = i /\ ord[i] = bl[Walk(l)[i]].tag
  <2>1. i \in 1 .. num_blocks
    BY <1>1, <1>2
  <2>2. Walk(l)[i] \in Blks /\ pos[Walk(l)[i]] = i
    BY <2>1, WalkNumbered
  <2>3. i <= Cardinality(V)
    BY <1>2
  <2>4. ord[i] = bl[Walk(l)[i]].tag
    BY <1>2
  <2> QED BY <1>1, <2>2, <2>3, <2>4
<1>4. ord \in [1 .. k -> Addr]
  BY <1>2, <1>3
<1>5. ord \in Seq(Addr) /\ Len(ord) = k
  BY <1>4, Tabulated
<1>6. ASSUME NEW b \in V
      PROVE  pos[b] \in 1 .. k /\ ord[pos[b]] = bl[b].tag
  <2>1. b \in Blks /\ pos[b] \in 1 .. k
    BY <1>1, <1>2
  <2>2. Walk(l)[pos[b]] = b
    BY <1>1, <1>3, <2>1
  <2> QED BY <1>3, <2>1, <2>2
<1> QED BY <1>1, <1>2, <1>3, <1>5, <1>6

\* What moving an element to the front does to the places, and what a new one does.
LEMMA MovedToFront ==
  ASSUME NEW S, NEW s \in Seq(S), NEW i \in 1 .. Len(s), NEW a \in S, NEW t \in Seq(S),
         Len(t) = Len(s), t[1] = a,
         \A j \in 2 .. Len(s) : t[j] = IF j <= i THEN s[j - 1] ELSE s[j]
  PROVE  t = <<a>> \o SubSeq(s, 1, i - 1) \o SubSeq(s, i + 1, Len(s))
<1> DEFINE f == SubSeq(s, 1, i - 1)
           r == SubSeq(s, i + 1, Len(s))
<1>1. Len(s) \in Nat /\ i <= Len(s)
  OBVIOUS
<1>2. f \in Seq(S) /\ Len(f) = i - 1 /\ \A j \in 1 .. (i - 1) : f[j] = s[j]
  BY <1>1
<1>3. r \in Seq(S) /\ Len(r) = Len(s) - i /\ \A j \in 1 .. (Len(s) - i) : r[j] = s[i + j]
  BY <1>1
<1> HIDE DEF f, r
<1>4. PICK g : g = <<a>> \o f \o r
  OBVIOUS
<1>5. /\ g \in Seq(S) /\ Len(g) = Len(s) /\ g[1] = a
      /\ \A j \in 2 .. i : g[j] = f[j - 1]
      /\ \A j \in (i + 1) .. Len(s) : g[j] = r[j - i]
  BY <1>1, <1>2, <1>3, <1>4
<1>6. \A j \in 1 .. Len(s) : g[j] = t[j]
  <2> SUFFICES ASSUME NEW j \in 1 .. Len(s) PROVE g[j] = t[j]
    OBVIOUS
  <2>1. CASE j = 1
    BY <1>5, <2>1
  <2>2. CASE j # 1 /\ j <= i
    BY <1>1, <1>2, <1>5, <2>2
  <2>3. CASE j > i
    <3>1. j - i \in 1 .. (Len(s) - i) /\ j \in (i + 1) .. Len(s) /\ i + (j - i) = j
      BY <1>1, <2>3
    <3>2. g[j] = s[j]
      BY <1>3, <1>5, <3>1
    <3>3. t[j] = s[j]
      BY <1>1, <2>3, <3>1
    <3> QED BY <3>2, <3>3
  <2> QED BY <1>1, <2>1, <2>2, <2>3
<1>7. g = t
  <2>1. g \in Seq(S) /\ Len(g) = Len(t) /\ \A j \in 1 .. Len(t) : g[j] = t[j]
    BY <1>5, <1>6
  <2> QED BY <2>1
<1> QED BY <1>4, <1>7 DEF f, r

LEMMA PutInFront ==
  ASSUME NEW S, NEW s \in Seq(S), NEW k \in 0 .. Len(s), NEW a \in S, NEW t \in Seq(S),
         Len(t) = k + 1, t[1] = a, \A j \in 1 .. k : t[j + 1] = s[j]
  PROVE  t = <<a>> \o SubSeq(s, 1, k)
<1> DEFINE f == SubSeq(s, 1, k)
<1>1. f \in Seq(S) /\ Len(f) = k /\ \A j \in 1 .. k : f[j] = s[j]
  OBVIOUS
<1> HIDE DEF f
<1>2. PICK g : g = <<a>> \o f
  OBVIOUS
<1>3. g \in Seq(S) /\ Len(g) = k + 1 /\ g[1] = a /\ \A j \in 2 .. (k + 1) : g[j] = f[j - 1]
  BY <1>1, <1>2
<1>4. \A j \in 1 .. (k + 1) : g[j] = t[j]
  <2> SUFFICES ASSUME NEW j \in 1 .. (k + 1) PROVE g[j] = t[j]
    OBVIOUS
  <2>1. CASE j = 1
    BY <1>3, <2>1
  <2>2. CASE j # 1
    <3>1. j - 1 \in 1 .. k /\ j \in 2 .. (k + 1) /\ (j - 1) + 1 = j
      BY <2>2
    <3> QED BY <1>1, <1>3, <3>1
  <2> QED BY <2>1, <2>2
<1>5. g = t
  BY <1>3, <1>4
<1> QED BY <1>2, <1>5 DEF f

\* An address is held exactly if the hash knows it.
LEMMA HeldIs ==
  ASSUME Inv, NEW pos \in Numberings, Numbers(pos, list),
         \A b, c \in Blks : c \in Resident /\ pos[b] < pos[c] => b \in Resident
  PROVE  /\ Cardinality(Resident) \in 0 .. num_blocks
         /\ lruOrder \in Seq(Addr) /\ Len(lruOrder) = Cardinality(Resident)
         /\ \A b \in Blks : b \in Resident <=> pos[b] <= Cardinality(Resident)
         /\ \A b \in Resident : /\ pos[b] \in 1 .. Cardinality(Resident)
                                /\ lruOrder[pos[b]] = blks[b].tag
         /\ \A i \in 1 .. Cardinality(Resident) : \E b \in Resident : pos[b] = i
         /\ \A addr \in Addr : addr \in Buffer!Held <=> findBlock(addr) # nullptr
<1> USE DEF Inv
<1>1. list \in Lists /\ Resident \in SUBSET Blks /\ \A b \in Resident : blks[b].tag \in Addr
  BY DEF TypeOK, Resident, HashAgrees
<1>2. lruOrder = [i \in 1 .. Cardinality(Resident) |-> blks[Walk(list)[i]].tag]
  BY DEF lruOrder
<1>3. /\ Cardinality(Resident) \in 0 .. num_blocks
      /\ lruOrder \in Seq(Addr) /\ Len(lruOrder) = Cardinality(Resident)
      /\ \A b \in Blks : b \in Resident <=> pos[b] <= Cardinality(Resident)
      /\ \A b \in Resident : /\ pos[b] \in 1 .. Cardinality(Resident)
                             /\ lruOrder[pos[b]] = blks[b].tag
      /\ \A i \in 1 .. Cardinality(Resident) : \E b \in Resident : pos[b] = i
  BY <1>1, <1>2, OrderIs
<1>4. DOMAIN lruOrder = 1 .. Cardinality(Resident)
  BY <1>2
<1>5. ASSUME NEW addr \in Addr
      PROVE  addr \in Buffer!Held <=> findBlock(addr) # nullptr
  <2>1. addr \in Buffer!Held <=> \E b \in Resident : blks[b].tag = addr
    BY <1>3, <1>4 DEF Buffer!Held
  <2>2. (\E b \in Resident : blks[b].tag = addr) <=> findBlock(addr) # nullptr
    <3>1. ASSUME NEW b \in Resident, blks[b].tag = addr PROVE findBlock(addr) # nullptr
      BY <1>1, <3>1 DEF findBlock, HashAgrees, Blks, nullptr
    <3>2. ASSUME findBlock(addr) # nullptr
          PROVE  findBlock(addr) \in Resident /\ blks[findBlock(addr)].tag = addr
      BY <3>2 DEF findBlock, HashAgrees, TypeOK, Pointers, Resident
    <3> QED BY <3>1, <3>2
  <2> QED BY <2>1, <2>2
<1> QED BY <1>3, <1>5

LEMMA HitRefines ==
  ASSUME Inv, Inv', NEW type \in Request_Type, NEW addr \in Addr, Hit(type, addr)
  PROVE  Buffer!Hit(addr)
<1> DEFINE blk == findBlock(addr)
<1>1. PICK pos \in Numberings :
        /\ Numbers(pos, list)
        /\ \A b, c \in Blks : c \in Resident /\ pos[b] < pos[c] => b \in Resident
  BY DEF Inv, FreeBlocksLast, Resident
<1>2. /\ list \in Lists /\ blk \in Resident /\ blk \in Blks /\ blks[blk].tag = addr
      /\ list' = upgrade(list, blk) /\ blks \in [Blks -> FABlk]
      /\ blks' = [blks EXCEPT ![blk] = accessedBlk(blks[blk], type # "READ")]
  BY DEF Hit, findBlock, Inv, TypeOK, HashAgrees, Pointers, Resident
<1> HIDE DEF blk
<1>3. Resident' = Resident /\ \A b \in Blks : blks'[b].tag = blks[b].tag
  BY <1>2 DEF Resident, accessedBlk, FABlk
<1>4. /\ Cardinality(Resident) \in 0 .. num_blocks
      /\ lruOrder \in Seq(Addr) /\ Len(lruOrder) = Cardinality(Resident)
      /\ \A b \in Blks : b \in Resident <=> pos[b] <= Cardinality(Resident)
      /\ \A b \in Resident : /\ pos[b] \in 1 .. Cardinality(Resident)
                             /\ lruOrder[pos[b]] = blks[b].tag
      /\ \A i \in 1 .. Cardinality(Resident) : \E b \in Resident : pos[b] = i
  BY <1>1, HeldIs
<1> DEFINE q == Front(pos, blk)
<1>5. /\ q \in Numberings /\ Numbers(q, list')
      /\ \A b, c \in Blks : c \in Resident /\ q[b] < q[c] => b \in Resident
  <2>1. Resident \cup {blk} = Resident
    BY <1>2
  <2>2. Numbers(q, list')
    BY <1>1, <1>2, UpgradeNumbers
  <2>3. q \in Numberings
    BY <1>1, <1>2, FrontNumbering DEF Numbers
  <2>4. \A b, c \in Blks :
          c \in Resident \cup {blk} /\ q[b] < q[c] => b \in Resident \cup {blk}
    BY <1>1, <1>2, FrontFreeLast
  <2> HIDE DEF q
  <2> QED BY <2>1, <2>2, <2>3, <2>4
<1>6. \A b \in Blks :
        q[b] = IF b = blk THEN 1 ELSE IF pos[b] < pos[blk] THEN pos[b] + 1 ELSE pos[b]
  BY DEF Front
<1> HIDE DEF q
<1>7. PICK k \in Nat : k = Cardinality(Resident) /\ k <= num_blocks
  BY <1>4, FALRUAssumption
<1>8. PICK t : t = lruOrder'
  OBVIOUS
<1>9. /\ t \in Seq(Addr) /\ Len(t) = k
      /\ \A b \in Resident : q[b] \in 1 .. k /\ t[q[b]] = blks[b].tag
  <2>1. /\ list' \in Lists /\ Resident \in SUBSET Blks
        /\ \A b \in Resident : blks'[b].tag \in Addr
    BY <1>3 DEF Inv, TypeOK, Resident, HashAgrees
  <2>2. t = [i \in 1 .. Cardinality(Resident) |-> blks'[Walk(list')[i]].tag]
    BY <1>3, <1>8 DEF lruOrder
  <2>3. /\ t \in Seq(Addr) /\ Len(t) = Cardinality(Resident)
        /\ \A b \in Resident : q[b] \in 1 .. Cardinality(Resident) /\ t[q[b]] = blks'[b].tag
    BY <1>5, <2>1, <2>2, OrderIs
  <2> QED BY <1>3, <1>7, <2>1, <2>3
<1>10. PICK i \in 1 .. k : i = pos[blk]
  BY <1>2, <1>4, <1>7
<1>11. lruOrder[i] = addr
  BY <1>2, <1>4, <1>10
<1>12. t[1] = addr
  BY <1>2, <1>6, <1>9
<1>13. ASSUME NEW j \in 2 .. k
       PROVE  t[j] = IF j <= i THEN lruOrder[j - 1] ELSE lruOrder[j]
  <2>1. CASE j <= i
    <3>1. j - 1 \in 1 .. k
      BY <2>1
    <3>2. PICK b \in Resident : pos[b] = j - 1
      BY <1>4, <1>7, <3>1
    <3>3. b \in Blks /\ b # blk /\ q[b] = j
      BY <1>6, <1>10, <2>1, <3>2 DEF Resident
    <3> QED BY <1>4, <1>9, <2>1, <3>2, <3>3
  <2>2. CASE j > i
    <3>1. j \in 1 .. k
      OBVIOUS
    <3>2. PICK b \in Resident : pos[b] = j
      BY <1>4, <1>7, <3>1
    <3>3. b \in Blks /\ b # blk /\ q[b] = j
      BY <1>6, <1>10, <2>2, <3>2 DEF Resident
    <3> QED BY <1>4, <1>9, <2>2, <3>2, <3>3
  <2> QED BY <2>1, <2>2
<1>14. t = <<addr>> \o SubSeq(lruOrder, 1, i - 1) \o SubSeq(lruOrder, i + 1, Len(lruOrder))
  <2>1. Len(lruOrder) = k
    BY <1>4, <1>7
  <2> QED BY <1>4, <1>9, <1>12, <1>13, <2>1, MovedToFront
<1>15. i \in DOMAIN lruOrder
  BY <1>4, <1>7
<1>16. sent' = <<>>
  BY DEF Hit
<1> QED BY <1>8, <1>11, <1>14, <1>15, <1>16 DEF Buffer!Hit

LEMMA ReadMissRefines ==
  ASSUME Inv, NEW addr \in Addr, ReadMiss(addr)
  PROVE  Buffer!ReadMiss(addr)
<1>1. PICK pos \in Numberings :
        /\ Numbers(pos, list)
        /\ \A b, c \in Blks : c \in Resident /\ pos[b] < pos[c] => b \in Resident
  BY DEF Inv, FreeBlocksLast, Resident
<1>2. addr \notin Buffer!Held
  BY <1>1, HeldIs DEF ReadMiss
<1>3. lruOrder' = lruOrder /\ sent' = <<>>
  BY DEF ReadMiss, lruOrder, Resident
<1> QED BY <1>2, <1>3 DEF Buffer!ReadMiss

LEMMA WriteMissRefines ==
  ASSUME Inv, Inv', NEW type \in Request_Type, NEW addr \in Addr, WriteMiss(type, addr)
  PROVE  \/ Buffer!WriteMiss(addr, <<[type |-> "READ", addr |-> addr]>>)
         \/ Buffer!WriteMiss(addr, <<>>)
<1>1. PICK pos \in Numberings :
        /\ Numbers(pos, list)
        /\ \A b, c \in Blks : c \in Resident /\ pos[b] < pos[c] => b \in Resident
  BY DEF Inv, FreeBlocksLast, Resident
<1>2. /\ list \in Lists /\ victim \in Blks /\ victim = list.tail
      /\ list' = upgrade(list, victim) /\ blks \in [Blks -> FABlk]
      /\ blks' = [blks EXCEPT ![victim] = insertedBlk(addr)]
  BY InvalidatedList DEF WriteMiss, insertBlock, Inv, TypeOK, Lists, victim
<1>3. /\ Resident' = Resident \cup {victim} /\ (wb_required <=> victim \in Resident)
      /\ Cardinality(Resident') = Cardinality(Resident) + IF wb_required THEN 0 ELSE 1
  BY WriteMissGrows
<1>4. \A b \in Blks : blks'[b].tag = IF b = victim THEN addr ELSE blks[b].tag
  BY <1>2 DEF insertedBlk
<1>5. /\ Cardinality(Resident) \in 0 .. num_blocks
      /\ lruOrder \in Seq(Addr) /\ Len(lruOrder) = Cardinality(Resident)
      /\ \A b \in Blks : b \in Resident <=> pos[b] <= Cardinality(Resident)
      /\ \A b \in Resident : /\ pos[b] \in 1 .. Cardinality(Resident)
                             /\ lruOrder[pos[b]] = blks[b].tag
      /\ \A i \in 1 .. Cardinality(Resident) : \E b \in Resident : pos[b] = i
      /\ addr \notin Buffer!Held
  BY <1>1, HeldIs DEF WriteMiss
<1> DEFINE q == Front(pos, victim)
<1>6. /\ q \in Numberings /\ Numbers(q, list')
      /\ \A b, c \in Blks : c \in Resident' /\ q[b] < q[c] => b \in Resident'
  <2>1. Numbers(q, list')
    BY <1>1, <1>2, UpgradeNumbers
  <2>2. q \in Numberings
    BY <1>1, <1>2, FrontNumbering DEF Numbers
  <2>3. \A b, c \in Blks :
          c \in Resident \cup {victim} /\ q[b] < q[c] => b \in Resident \cup {victim}
    BY <1>1, <1>2, FrontFreeLast
  <2> HIDE DEF q
  <2> QED BY <1>3, <2>1, <2>2, <2>3
<1>7. \A b \in Blks :
        q[b] = IF b = victim THEN 1 ELSE IF pos[b] < pos[victim] THEN pos[b] + 1 ELSE pos[b]
  BY DEF Front
<1> HIDE DEF q
<1>8. /\ num_blocks \in Nat /\ num_blocks >= 2 /\ pos[victim] = num_blocks
      /\ \A b \in Blks : pos[b] \in 1 .. num_blocks
  BY <1>1, <1>2, FALRUAssumption DEF Numbers, Numberings
<1>9. PICK k \in 0 .. num_blocks : k = Cardinality(Resident)
  BY <1>5
\* The blocks that keep a place: all but the victim.
<1>10. PICK m \in 0 .. k : m = IF k = num_blocks THEN num_blocks - 1 ELSE k
  BY <1>8
<1>11. wb_required <=> k = num_blocks
  BY <1>2, <1>3, <1>5, <1>8, <1>9
<1>12. Cardinality(Resident') = m + 1
  BY <1>3, <1>8, <1>9, <1>10, <1>11
<1>13. PICK t : t = lruOrder'
  OBVIOUS
<1>14. /\ t \in Seq(Addr) /\ Len(t) = m + 1
       /\ \A b \in Resident' : t[q[b]] = blks'[b].tag
  <2>1. /\ list' \in Lists /\ Resident' \in SUBSET Blks
        /\ \A b \in Resident' : blks'[b].tag \in Addr
    BY DEF Inv, TypeOK, Resident, HashAgrees
  <2>2. t = [i \in 1 .. Cardinality(Resident') |-> blks'[Walk(list')[i]].tag]
    BY <1>13 DEF lruOrder
  <2>3. /\ t \in Seq(Addr) /\ Len(t) = Cardinality(Resident')
        /\ \A b \in Resident' : t[q[b]] = blks'[b].tag
    BY <1>6, <2>1, <2>2, OrderIs
  <2> QED BY <1>12, <2>3
<1>15. t[1] = addr
  BY <1>2, <1>3, <1>4, <1>7, <1>14
<1>16. ASSUME NEW j \in 1 .. m
       PROVE  t[j + 1] = lruOrder[j]
  <2>1. j \in 1 .. k /\ j < num_blocks
    BY <1>8, <1>10
  <2>2. PICK b \in Resident : pos[b] = j
    BY <1>5, <1>9, <2>1
  <2>3. b \in Blks /\ b # victim /\ b \in Resident'
    BY <1>3, <1>8, <2>1, <2>2 DEF Resident
  <2>4. q[b] = j + 1
    BY <1>7, <1>8, <2>1, <2>2, <2>3
  <2> QED BY <1>4, <1>5, <1>14, <2>2, <2>3, <2>4
<1>17. t = <<addr>> \o SubSeq(lruOrder, 1, m)
  <2>1. lruOrder \in Seq(Addr) /\ Len(lruOrder) = k
    BY <1>5, <1>9
  <2> QED BY <1>14, <1>15, <1>16, <2>1, PutInFront
<1>18. /\ Len(lruOrder) = k
       /\ m = IF Len(lruOrder) = num_blocks THEN num_blocks - 1 ELSE Len(lruOrder)
  BY <1>5, <1>9, <1>10
<1>19. wb_required => lruOrder[num_blocks] = blks[victim].tag
  BY <1>2, <1>3, <1>5, <1>8
<1>20. sent' = (IF type = "WRITE" THEN <<[type |-> "READ", addr |-> addr]>> ELSE <<>>)
               \o (IF Len(lruOrder) = num_blocks
                   THEN <<[type |-> "WRITE_BACK", addr |-> lruOrder[num_blocks]]>> ELSE <<>>)
  BY <1>11, <1>18, <1>19 DEF WriteMiss
<1>21. CASE type = "WRITE"
  <2>1. Buffer!WriteMiss(addr, <<[type |-> "READ", addr |-> addr]>>)
    BY <1>5, <1>13, <1>17, <1>18, <1>20, <1>21 DEF Buffer!WriteMiss
  <2> QED BY <2>1
<1>22. CASE type # "WRITE"
  <2>1. Buffer!WriteMiss(addr, <<>>)
    BY <1>5, <1>13, <1>17, <1>18, <1>20, <1>22 DEF Buffer!WriteMiss
  <2> QED BY <2>1
<1> QED BY <1>21, <1>22

LEMMA InitRefines == Init => Buffer!Init
<1> SUFFICES ASSUME Init PROVE Buffer!Init
  OBVIOUS
<1>1. Resident = {}
  BY DEF Init, Resident
<1>2. Cardinality(Resident) = 0
  BY <1>1, FS_EmptySet
<1>3. lruOrder = <<>>
  BY <1>2 DEF lruOrder
<1> QED BY <1>3 DEF Init, Buffer!Init

LEMMA NextRefines ==
  ASSUME Inv, Inv', [Next]_vars
  PROVE  [Buffer!Next]_<<lruOrder, sent>>
<1>1. CASE reInitialize
  BY <1>1 DEF reInitialize, lruOrder, Resident
<1>2. ASSUME NEW type \in Request_Type, NEW addr \in Addr, send(type, addr)
      PROVE  Buffer!Next
  BY <1>2, HitRefines, ReadMissRefines, WriteMissRefines DEF send, Buffer!Next
<1>3. CASE UNCHANGED vars
  BY <1>3 DEF vars, lruOrder, Resident
<1> QED BY <1>1, <1>2, <1>3 DEF Next

\* The cache implements the buffer: whatever the requests, the next level receives what an
\* LRU buffer of num_blocks written blocks sends, in the same order.
THEOREM WOFAImplementsBuffer == Spec => LRUBufferSpec
  BY InvHolds, InitRefines, NextRefines, PTL DEF Spec, LRUBufferSpec, Buffer!Spec
=============================================================================
