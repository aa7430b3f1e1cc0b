-------------------------- MODULE WindowTabsProofs --------------------------
(***************************************************************************)
(* Proofs about the window, the parts that stand by themselves: the tabs and  *)
(* their panes; the tabs of a terminal, a shell, an SFTP, a VNC and an RDP     *)
(* session; the output of a terminal; the updates, the drawer of the           *)
(* transfers and the settings.  Each has an invariant, which its initial       *)
(* states have and its steps keep, and what it shows.  WindowProofs has the    *)
(* rest and puts them together.                                               *)
(***************************************************************************)
EXTENDS MCWindow, TLAPS, FiniteSetTheorems, SequenceTheorems, WellFoundedInduction

-----------------------------------------------------------------------------
(* Numbers and recursive functions *)

\* Of numbers, one is the first.
LEMMA OneIsFirst ==
  ASSUME NEW S \in SUBSET Nat, S # {}
  PROVE  \E k \in S : \A j \in S : k <= j
<1>1. IsWellFoundedOn(OpToRel(<, Nat), Nat)
  BY NatLessThanWellFounded
<1>2. PICK k \in S : \A j \in S : ~(<<j, k>> \in OpToRel(<, Nat))
  BY <1>1, WFMin
<1>3. ASSUME NEW j \in S, j < k PROVE FALSE
  <2>1. <<j, k>> \in OpToRel(<, Nat)
    BY <1>3 DEF OpToRel
  <2> QED BY <1>2, <2>1
<1> QED BY <1>3

\* A function that is said by its value at 0 and by how each value follows from the one before is there.
UpToBy(f, n, X, x, G) == f \in [0 .. n -> X] /\ f[0] = x /\ \A k \in 1 .. n : f[k] = G[<<k, f[k - 1]>>]
LEMMA RecursionIsThere ==
  ASSUME NEW N \in Nat, NEW X, NEW x \in X, NEW G \in [(1 .. N) \X X -> X]
  PROVE  \E f : UpToBy(f, N, X, x, G)
<1> USE DEF UpToBy
<1> DEFINE UpTo(f, n) == UpToBy(f, n, X, x, G)
           S == {n \in 0 .. N : ~\E f : UpTo(f, n)}
<1> SUFFICES ASSUME S # {} PROVE FALSE
  OBVIOUS
<1>0. S \in SUBSET Nat
  OBVIOUS
<1>1. PICK n \in S : \A m \in S : n <= m
  BY <1>0, OneIsFirst
<1>2. n # 0
  <2>1. UpTo([i \in 0 .. 0 |-> x], 0)
    OBVIOUS
  <2> QED BY <1>1, <2>1
<1>3. PICK f : UpTo(f, n - 1)
  <2>1. n - 1 \in 0 .. N /\ ~(n <= n - 1)
    BY <1>1, <1>2
  <2>2. n - 1 \notin S
    BY <1>1, <2>1
  <2> QED BY <2>1, <2>2
<1>4. n \in 1 .. N /\ n - 1 \in 0 .. N /\ f[n - 1] \in X
  BY <1>1, <1>2, <1>3
<1>5. G[<<n, f[n - 1]>>] \in X
  BY <1>4
<1> DEFINE g == [i \in 0 .. n |-> IF i < n THEN f[i] ELSE G[<<n, f[n - 1]>>]]
<1>6. g \in [0 .. n -> X] /\ g[0] = x
  BY <1>3, <1>4, <1>5
<1>7. ASSUME NEW k \in 1 .. n PROVE g[k] = G[<<k, g[k - 1]>>]
  <2>1. CASE k = n
    BY <1>4, <2>1
  <2>2. CASE k # n
    <3>1. k \in 1 .. (n - 1) /\ k - 1 \in 0 .. n /\ k - 1 < n /\ k < n /\ k \in 0 .. n
      BY <1>4, <2>2
    <3>2. f[k] = G[<<k, f[k - 1]>>]
      BY <1>3, <3>1
    <3> QED BY <3>1, <3>2
  <2> QED BY <2>1, <2>2
<1> QED BY <1>1, <1>6, <1>7

-----------------------------------------------------------------------------
(* Sequences that are filtered *)

Elems(s) == {s[n] : n \in DOMAIN s}
Once(s)  == \A n, m \in DOMAIN s : s[n] = s[m] => n = m

\* f[n] are those of S among the first n of s.
Filters(f, s, S) ==
  f = [n \in 0 .. Len(s) |-> IF n = 0 THEN <<>> ELSE IF s[n] \in S THEN Append(f[n - 1], s[n]) ELSE f[n - 1]]

LEMMA FilterIsThere == ASSUME NEW T, NEW s \in Seq(T), NEW S PROVE \E f : Filters(f, s, S)
<1> DEFINE N == Len(s)
           G == [p \in (1 .. N) \X Seq(T) |-> IF s[p[1]] \in S THEN Append(p[2], s[p[1]]) ELSE p[2]]
<1>1. N \in Nat /\ \A n \in 1 .. N : s[n] \in T
  OBVIOUS
<1>2. G \in [(1 .. N) \X Seq(T) -> Seq(T)]
  BY <1>1
<1>3. \A k \in 1 .. N, r \in Seq(T) : G[<<k, r>>] = IF s[k] \in S THEN Append(r, s[k]) ELSE r
  OBVIOUS
<1>4. <<>> \in Seq(T)
  OBVIOUS
<1> HIDE DEF G
<1>5. PICK f \in [0 .. N -> Seq(T)] : f[0] = <<>> /\ \A k \in 1 .. N : f[k] = G[<<k, f[k - 1]>>]
  <2> DEFINE X == Seq(T)
             x == <<>>
  <2>1. N \in Nat /\ x \in X /\ G \in [(1 .. N) \X X -> X]
    BY <1>1, <1>2, <1>4
  <2> HIDE DEF N, X, x
  <2>2. \E f : UpToBy(f, N, X, x, G)
    BY <2>1, RecursionIsThere
  <2> QED BY <2>2 DEF UpToBy, X, x
<1>6. \A k \in 1 .. N : k - 1 \in 0 .. N
  BY <1>1
<1>7. \A k \in 1 .. N : f[k - 1] \in Seq(T) /\ f[k] = IF s[k] \in S THEN Append(f[k - 1], s[k]) ELSE f[k - 1]
  BY <1>3, <1>5, <1>6
<1>8. \A n \in 0 .. N : f[n] = IF n = 0 THEN <<>> ELSE IF s[n] \in S THEN Append(f[n - 1], s[n]) ELSE f[n - 1]
  <2> SUFFICES ASSUME NEW n \in 0 .. N
               PROVE  f[n] = IF n = 0 THEN <<>> ELSE IF s[n] \in S THEN Append(f[n - 1], s[n]) ELSE f[n - 1]
    OBVIOUS
  <2>1. CASE n = 0
    BY <1>5, <2>1
  <2>2. CASE n # 0
    <3>1. n \in 1 .. N
      BY <1>1, <2>2
    <3> QED BY <1>7, <2>2, <3>1
  <2> QED BY <2>1, <2>2
<1>9. Filters(f, s, S)
  BY <1>5, <1>8 DEF Filters
<1> QED BY <1>9

\* What is left is what was there and is in S, and nothing comes twice that did not before.
LEMMA FilterIs ==
  ASSUME NEW T, NEW s \in Seq(T), NEW S, NEW f, Filters(f, s, S)
  PROVE  /\ f[Len(s)] \in Seq(T) /\ Elems(f[Len(s)]) = Elems(s) \cap S
         /\ Once(s) => Once(f[Len(s)])
<1> DEFINE N == Len(s)
           First(n) == {s[i] : i \in 1 .. n}
           P(n) == f[n] \in Seq(T) /\ Elems(f[n]) = First(n) \cap S /\ (Once(s) => Once(f[n]))
           Wrong == {n \in 0 .. N : ~P(n)}
<1>1. N \in Nat /\ DOMAIN s = 1 .. N /\ \A n \in 1 .. N : s[n] \in T
  OBVIOUS
<1>2. f[0] = <<>> /\ \A k \in 1 .. N : f[k] = IF s[k] \in S THEN Append(f[k - 1], s[k]) ELSE f[k - 1]
  <2>1. \A n \in 0 .. N : f[n] = IF n = 0 THEN <<>> ELSE IF s[n] \in S THEN Append(f[n - 1], s[n]) ELSE f[n - 1]
    BY DEF Filters
  <2> QED BY <1>1, <2>1
<1>3. Wrong = {}
  <2> SUFFICES ASSUME Wrong # {} PROVE FALSE
    OBVIOUS
  <2>1. PICK n \in Wrong : \A m \in Wrong : n <= m
    <3>1. Wrong \in SUBSET Nat
      BY <1>1
    <3> HIDE DEF Wrong
    <3> QED BY <3>1, OneIsFirst
  <2>2. n # 0
    <3>1. P(0)
      <4>1. First(0) = {} /\ Elems(<<>>) = {} /\ Once(<<>>) /\ <<>> \in Seq(T)
        BY DEF Elems, Once
      <4> QED BY <1>2, <4>1
    <3> QED BY <2>1, <3>1
  <2>3. n \in 1 .. N /\ n - 1 \in 0 .. N /\ n - 1 \notin Wrong
    <3>1. n \in 0 .. N
      BY <2>1
    <3>2. n - 1 \in 0 .. N /\ ~(n <= n - 1)
      BY <1>1, <2>2, <3>1
    <3>3. n \in 1 .. N
      BY <1>1, <2>2, <3>1
    <3>4. n - 1 \notin Wrong
      <4> HIDE DEF Wrong
      <4> QED BY <2>1, <3>2
    <3> QED BY <3>2, <3>3, <3>4
  <2>4. P(n - 1)
    BY <2>3
  <2> DEFINE r == f[n - 1]
  <2>5. r \in Seq(T) /\ Elems(r) = First(n - 1) \cap S /\ (Once(s) => Once(r))
    BY <2>4
  <2>6. f[n] = IF s[n] \in S THEN Append(r, s[n]) ELSE r
    BY <1>2, <2>3
  <2> HIDE DEF r
  <2>7. First(n) = First(n - 1) \cup {s[n]}
    <3>1. 1 .. n = (1 .. (n - 1)) \cup {n}
      BY <1>1, <2>3
    <3> QED BY <3>1
  <2> HIDE DEF First
  <2>8. CASE s[n] \in S
    <3>1. f[n] = Append(r, s[n]) /\ s[n] \in T
      BY <1>1, <2>3, <2>6, <2>8
    <3>2. f[n] \in Seq(T) /\ Len(f[n]) = Len(r) + 1 /\ Len(r) \in Nat
      BY <2>5, <3>1
    <3>3. \A i \in 1 .. Len(r) + 1 : f[n][i] = IF i = Len(r) + 1 THEN s[n] ELSE r[i]
      BY <2>5, <3>1
    <3>4. DOMAIN f[n] = 1 .. Len(r) + 1 /\ DOMAIN r = 1 .. Len(r)
      BY <2>5, <3>2
    <3>5. 1 .. Len(r) + 1 = (1 .. Len(r)) \cup {Len(r) + 1} /\ Len(r) + 1 \notin 1 .. Len(r)
      BY <3>2
    <3>6. Elems(f[n]) = Elems(r) \cup {s[n]}
      BY <3>3, <3>4, <3>5 DEF Elems
    <3>7. Elems(f[n]) = First(n) \cap S
      BY <2>5, <2>7, <2>8, <3>6
    <3>8. ASSUME Once(s) PROVE Once(f[n])
      <4>1. \A i \in 1 .. (n - 1) : i \in DOMAIN s /\ i # n
        BY <1>1, <2>3
      <4>2. s[n] \notin First(n - 1)
        BY <1>1, <2>3, <3>8, <4>1 DEF Once, First
      <4>3. s[n] \notin Elems(r)
        BY <2>5, <4>2
      <4> QED BY <2>5, <3>3, <3>4, <3>5, <3>8, <4>3 DEF Once, Elems
    <3> QED BY <2>1, <3>2, <3>7, <3>8
  <2>9. CASE s[n] \notin S
    <3>1. f[n] = r /\ First(n) \cap S = First(n - 1) \cap S
      BY <2>6, <2>7, <2>9
    <3> QED BY <2>1, <2>5, <3>1
  <2> QED BY <2>8, <2>9
<1>4. P(N)
  <2> HIDE DEF P
  <2> QED BY <1>1, <1>3
<1>5. Elems(s) = First(N)
  BY <1>1 DEF Elems
<1> QED BY <1>4, <1>5

-----------------------------------------------------------------------------
(* Messages in order *)

LEMMA TailIs ==
  ASSUME NEW T, NEW s \in Seq(T), s # <<>>
  PROVE  /\ Tail(s) \in Seq(T) /\ Head(s) \in T /\ Head(s) = s[1] /\ 1 \in DOMAIN s
         /\ \A i \in DOMAIN Tail(s) : i \in Nat /\ i + 1 \in DOMAIN s /\ Tail(s)[i] = s[i + 1]
         /\ \A i \in DOMAIN s : i \in Nat /\ (i # 1 => i > 1 /\ i - 1 \in DOMAIN Tail(s) /\ Tail(s)[i - 1] = s[i])
<1>1. Tail(s) \in Seq(T) /\ Len(s) \in Nat \ {0} /\ Len(Tail(s)) = Len(s) - 1 /\ DOMAIN s = 1 .. Len(s)
  OBVIOUS
<1>2. \A i \in 1 .. Len(s) - 1 : Tail(s)[i] = s[i + 1]
  OBVIOUS
<1>3. DOMAIN Tail(s) = 1 .. Len(s) - 1
  BY <1>1
<1>4. \A i \in DOMAIN Tail(s) : i \in Nat /\ i + 1 \in DOMAIN s /\ Tail(s)[i] = s[i + 1]
  BY <1>1, <1>2, <1>3
<1>5. ASSUME NEW i \in DOMAIN s, i # 1 PROVE i > 1 /\ i - 1 \in DOMAIN Tail(s) /\ Tail(s)[i - 1] = s[i]
  <2>1. i > 1 /\ i - 1 \in 1 .. Len(s) - 1 /\ (i - 1) + 1 = i
    BY <1>1, <1>5
  <2> QED BY <1>2, <1>3, <2>1
<1> QED BY <1>1, <1>4, <1>5

LEMMA AppendIs ==
  ASSUME NEW T, NEW s \in Seq(T), NEW e \in T
  PROVE  /\ s \o <<e>> = Append(s, e) /\ Append(s, e) \in Seq(T) /\ s \o <<>> = s
         /\ Len(s) \in Nat /\ DOMAIN Append(s, e) = DOMAIN s \cup {Len(s) + 1} /\ Append(s, e)[Len(s) + 1] = e
         /\ \A i \in DOMAIN s : i \in Nat /\ i < Len(s) + 1 /\ Append(s, e)[i] = s[i]
<1>1. Append(s, e) \in Seq(T) /\ Len(s) \in Nat /\ DOMAIN s = 1 .. Len(s) /\ DOMAIN Append(s, e) = 1 .. Len(s) + 1
  OBVIOUS
<1>2. 1 .. Len(s) + 1 = (1 .. Len(s)) \cup {Len(s) + 1} /\ \A i \in 1 .. Len(s) : i \in Nat /\ i < Len(s) + 1
  BY <1>1
<1>3. s \o <<e>> = Append(s, e) /\ s \o <<>> = s /\ Append(s, e)[Len(s) + 1] = e /\ \A i \in 1 .. Len(s) : Append(s, e)[i] = s[i]
  OBVIOUS
<1> QED BY <1>1, <1>2, <1>3

-----------------------------------------------------------------------------
(* What the last message of a kind says *)

\* The last message of q that is in S is in W; when there is none, x.
LastSays(q, S, W, x) ==
  /\ \A i \in DOMAIN q : q[i] \in S /\ (\A k \in DOMAIN q : k > i => q[k] \notin S) => q[i] \in W
  /\ (\A i \in DOMAIN q : q[i] \notin S) => x

LEMMA LastSaid == ASSUME NEW S, NEW W, NEW x, LastSays(<<>>, S, W, x) PROVE x
BY DEF LastSays

LEMMA NothingSaid == ASSUME NEW S, NEW W, NEW x, x PROVE LastSays(<<>>, S, W, x)
BY DEF LastSays

\* One more is said: it counts, or what was there still does.
LEMMA LastTold ==
  ASSUME NEW T, NEW q \in Seq(T), NEW m \in T, NEW S, NEW W, NEW x,
         m \in S => m \in W, m \notin S => LastSays(q, S, W, x)
  PROVE  LastSays(Append(q, m), S, W, x)
<1> DEFINE p == Append(q, m)
           l == Len(q) + 1
<1>1. DOMAIN p = DOMAIN q \cup {l} /\ p[l] = m /\ l \in Nat /\ \A i \in DOMAIN q : i \in Nat /\ i < l /\ p[i] = q[i]
  BY AppendIs
<1> HIDE DEF p, l
<1>2. ASSUME NEW i \in DOMAIN p, p[i] \in S, \A k \in DOMAIN p : k > i => p[k] \notin S PROVE p[i] \in W
  <2>1. CASE i = l
    BY <1>1, <1>2, <2>1
  <2>2. CASE i # l
    <3>1. i \in DOMAIN q /\ l > i /\ l \in DOMAIN p
      BY <1>1, <2>2
    <3>2. m \notin S
      BY <1>1, <1>2, <3>1
    <3>3. \A k \in DOMAIN q : k > i => q[k] \notin S
      BY <1>1, <1>2
    <3> QED BY <1>1, <1>2, <3>1, <3>2, <3>3 DEF LastSays
  <2> QED BY <2>1, <2>2
<1>3. ASSUME \A i \in DOMAIN p : p[i] \notin S PROVE x
  <2>1. m \notin S /\ \A i \in DOMAIN q : q[i] \notin S
    BY <1>1, <1>3
  <2> QED BY <2>1 DEF LastSays
<1>4. LastSays(p, S, W, x)
  BY <1>2, <1>3 DEF LastSays
<1> QED BY <1>4 DEF p

\* The first is heard, and followed.
LEMMA LastHeard ==
  ASSUME NEW T, NEW q \in Seq(T), q # <<>>, NEW S, NEW W, NEW x, NEW y, LastSays(q, S, W, x),
         Head(q) \in S /\ Head(q) \in W => y, Head(q) \notin S /\ x => y
  PROVE  LastSays(Tail(q), S, W, y)
<1> DEFINE p == Tail(q)
<1>1. /\ Head(q) = q[1] /\ 1 \in DOMAIN q
      /\ \A i \in DOMAIN p : i \in Nat /\ i + 1 \in DOMAIN q /\ p[i] = q[i + 1]
      /\ \A i \in DOMAIN q : i \in Nat /\ (i # 1 => i > 1 /\ i - 1 \in DOMAIN p /\ p[i - 1] = q[i])
  BY TailIs
<1> HIDE DEF p
<1>2. ASSUME NEW i \in DOMAIN p, p[i] \in S, \A k \in DOMAIN p : k > i => p[k] \notin S PROVE p[i] \in W
  <2>1. ASSUME NEW k \in DOMAIN q, k > i + 1 PROVE q[k] \notin S
    <3>1. k - 1 \in DOMAIN p /\ p[k - 1] = q[k] /\ k - 1 > i
      BY <1>1, <2>1
    <3> QED BY <1>2, <3>1
  <2> QED BY <1>1, <1>2, <2>1 DEF LastSays
<1>3. ASSUME \A i \in DOMAIN p : p[i] \notin S PROVE y
  <2>1. \A k \in DOMAIN q : k # 1 => q[k] \notin S
    BY <1>1, <1>3
  <2>2. CASE Head(q) \in S
    <3>1. \A k \in DOMAIN q : k > 1 => q[k] \notin S
      BY <1>1, <2>1
    <3>2. q[1] \in S /\ 1 \in DOMAIN q
      BY <1>1, <2>2
    <3>3. q[1] \in W
      BY <3>1, <3>2 DEF LastSays
    <3> QED BY <1>1, <2>2, <3>3
  <2>3. CASE Head(q) \notin S
    <3>1. \A k \in DOMAIN q : q[k] \notin S
      BY <1>1, <2>1, <2>3
    <3>2. x
      BY <3>1 DEF LastSays
    <3> QED BY <2>3, <3>2
  <2> QED BY <2>2, <2>3
<1>4. LastSays(p, S, W, y)
  BY <1>2, <1>3 DEF LastSays
<1> QED BY <1>4 DEF p

\* What is said means less, or as much.
LEMMA LastStays ==
  ASSUME NEW q, NEW S, NEW W, NEW V, NEW x, NEW y, LastSays(q, S, W, x), x => y,
         \A i \in DOMAIN q : q[i] \in S /\ q[i] \in W => q[i] \in V
  PROVE  LastSays(q, S, V, y)
BY DEF LastSays

LEMMA LastIsIn == ASSUME NEW T, NEW q \in Seq(T), NEW m, Append(q, m) \in Seq(T) PROVE m \in T
<1>1. Append(q, m)[Len(q) + 1] = m /\ Len(q) + 1 \in 1 .. Len(Append(q, m)) /\ Len(Append(q, m)) \in Nat
  OBVIOUS
<1> QED BY <1>1

LEMMA IndexIs == ASSUME NEW T, NEW q \in Seq(T) PROVE \A i \in DOMAIN q : i \in Nat /\ i > 0
OBVIOUS

-----------------------------------------------------------------------------
(* The tabs and their panes *)

\* Of the store and of the strip
LEMMA KeptIs ==
  ASSUME NEW T, tabs \in Seq(T), NEW S
  PROVE  /\ Store!Kept(S) \in Seq(T) /\ Elems(Store!Kept(S)) = Elems(tabs) \cap S
         /\ Once(tabs) => Once(Store!Kept(S))
         /\ Strip!Kept(S) = Store!Kept(S)
<1> DEFINE kept == CHOOSE f : Filters(f, tabs, S)
<1>1. Store!Kept(S) = kept[Len(tabs)] /\ Strip!Kept(S) = kept[Len(tabs)]
  BY DEF Store!Kept, Strip!Kept, Filters
<1>2. Filters(kept, tabs, S)
  BY FilterIsThere
<1> HIDE DEF kept
<1> QED BY <1>1, <1>2, FilterIs

\* The first tab of S is one of S.
LEMMA FirstIs ==
  ASSUME NEW T, tabs \in Seq(T), NEW S, S \cap Elems(tabs) # {}
  PROVE  Store!First(S) \in S \cap Elems(tabs) /\ Strip!First(S) = Store!First(S)
<1> DEFINE At == {n \in DOMAIN tabs : tabs[n] \in S}
<1>1. At # {} /\ At \in SUBSET Nat /\ DOMAIN tabs = 1 .. Len(tabs)
  BY DEF Elems
<1>2. PICK n \in At : \A m \in At : n <= m
  <2> HIDE DEF At
  <2> QED BY <1>1, OneIsFirst
<1>3. \A m \in 1 .. (n - 1) : tabs[m] \notin S
  <2> SUFFICES ASSUME NEW m \in 1 .. (n - 1), tabs[m] \in S PROVE FALSE
    OBVIOUS
  <2>1. m \in At /\ ~(n <= m)
    BY <1>1, <1>2
  <2> QED BY <1>2, <2>1
<1> DEFINE Is(k) == tabs[k] \in S /\ \A m \in 1 .. (k - 1) : tabs[m] \notin S
           first == CHOOSE k \in DOMAIN tabs : Is(k)
<1>4. n \in DOMAIN tabs /\ Is(n)
  BY <1>2, <1>3
<1>5. first \in DOMAIN tabs /\ tabs[first] \in S
  <2> HIDE DEF Is
  <2>1. first \in DOMAIN tabs /\ Is(first)
    BY <1>4
  <2> QED BY <2>1 DEF Is
<1>6. Store!First(S) = tabs[first] /\ Strip!First(S) = tabs[first]
  BY DEF Store!First, Strip!First
<1> HIDE DEF first
<1> QED BY <1>5, <1>6 DEF Elems

\* What the panes are of
PanesInv ==
  /\ tabs \in Seq(Tab \cup StripTab) /\ Once(tabs)
  /\ activeTabId \in Elems(tabs) \/ (activeTabId = None /\ tabs = <<>>)
  /\ secondaryTabId \in Elems(tabs) \cup {None}
  /\ (splitDirection = None <=> secondaryTabId = None)
  /\ focusedPane = "secondary" => secondaryTabId # None
TabsInv == PanesInv /\ (part = "strip" => Strip!PanesShowTwo)

LEMMA TabsAre == /\ Store!Open = Elems(tabs) /\ Strip!Open = Elems(tabs)
                 /\ Store!TabsDistinct <=> Once(tabs)
  BY DEF Store!Open, Strip!Open, Store!Range, Strip!Range, Elems, Store!TabsDistinct, Store!IsInjective, Once

LEMMA NoneIsNoTab == ASSUME tabs \in Seq(Tab \cup StripTab) PROVE None \notin Elems(tabs)
  BY NoneAssumption DEF Elems, NoneAssumption

\* Added at the end, tabs that are not there stay single.
LEMMA Added ==
  ASSUME NEW T, tabs \in Seq(T), Once(tabs), NEW more \in Seq(T), Once(more), Elems(more) \cap Elems(tabs) = {}
  PROVE  /\ tabs \o more \in Seq(T) /\ Once(tabs \o more) /\ Elems(tabs \o more) = Elems(tabs) \cup Elems(more)
<1>1. /\ tabs \o more \in Seq(T) /\ Len(tabs \o more) = Len(tabs) + Len(more) /\ Len(tabs) \in Nat /\ Len(more) \in Nat
      /\ \A i \in 1 .. Len(tabs) + Len(more) : (tabs \o more)[i] = IF i <= Len(tabs) THEN tabs[i] ELSE more[i - Len(tabs)]
  OBVIOUS
<1> DEFINE both == tabs \o more
<1>2. DOMAIN both = 1 .. Len(tabs) + Len(more) /\ DOMAIN tabs = 1 .. Len(tabs) /\ DOMAIN more = 1 .. Len(more)
  BY <1>1
<1> HIDE DEF both
<1>3. \A i \in DOMAIN tabs : i \in DOMAIN both /\ both[i] = tabs[i]
  BY <1>1, <1>2 DEF both
<1>4. \A i \in DOMAIN more : i + Len(tabs) \in DOMAIN both /\ both[i + Len(tabs)] = more[i]
  <2> SUFFICES ASSUME NEW i \in DOMAIN more PROVE i + Len(tabs) \in DOMAIN both /\ both[i + Len(tabs)] = more[i]
    OBVIOUS
  <2>1. i + Len(tabs) \in 1 .. Len(tabs) + Len(more) /\ ~(i + Len(tabs) <= Len(tabs)) /\ (i + Len(tabs)) - Len(tabs) = i
    BY <1>1, <1>2
  <2> QED BY <1>1, <1>2, <2>1 DEF both
<1>5. \A i \in DOMAIN both : i \in DOMAIN tabs \/ (i - Len(tabs) \in DOMAIN more /\ both[i] = more[i - Len(tabs)] /\ i \in Nat)
  <2> SUFFICES ASSUME NEW i \in DOMAIN both, i \notin DOMAIN tabs
               PROVE  i - Len(tabs) \in DOMAIN more /\ both[i] = more[i - Len(tabs)] /\ i \in Nat
    OBVIOUS
  <2>1. i \in 1 .. Len(tabs) + Len(more) /\ ~(i <= Len(tabs))
    BY <1>1, <1>2
  <2> QED BY <1>1, <1>2, <2>1 DEF both
<1>6. Elems(both) = Elems(tabs) \cup Elems(more)
  BY <1>3, <1>4, <1>5 DEF Elems
<1>7. Once(both)
  <2> SUFFICES ASSUME NEW i \in DOMAIN both, NEW j \in DOMAIN both, both[i] = both[j] PROVE i = j
    BY DEF Once
  <2>1. CASE i \in DOMAIN tabs /\ j \in DOMAIN tabs
    BY <1>3, <2>1 DEF Once
  <2>2. CASE i \in DOMAIN tabs <=> j \notin DOMAIN tabs
    BY <1>3, <1>5, <2>2 DEF Elems
  <2>3. CASE i \notin DOMAIN tabs /\ j \notin DOMAIN tabs
    <3>1. i - Len(tabs) = j - Len(tabs) /\ i \in Nat /\ j \in Nat
      BY <1>5, <2>3 DEF Once
    <3> QED BY <1>1, <3>1
  <2> QED BY <2>1, <2>2, <2>3
<1> QED BY <1>1, <1>6, <1>7 DEF both

\* openTab(), of the store and by whatever calls it
LEMMA Opens ==
  ASSUME PanesInv, NEW id \in Tab \cup StripTab, Store!openTab(id) \/ Strip!openTab(id)
  PROVE  /\ PanesInv'
         /\ id \notin Elems(tabs) \/ id \in Single => Strip!PanesShowTwo'
<1>1. /\ tabs' = IF id \in Elems(tabs) THEN tabs ELSE Append(tabs, id)
      /\ activeTabId' = id /\ focusedPane' = "primary"
      /\ UNCHANGED <<secondaryTabId, splitDirection>>
  BY TabsAre DEF Store!openTab, Strip!openTab, Store!split, Strip!split
<1>2. tabs' \in Seq(Tab \cup StripTab) /\ Once(tabs') /\ Elems(tabs') = Elems(tabs) \cup {id}
  <2>1. CASE id \in Elems(tabs)
    BY <1>1, <2>1 DEF PanesInv
  <2>2. CASE id \notin Elems(tabs)
    <3>1. <<id>> \in Seq(Tab \cup StripTab) /\ Once(<<id>>) /\ Elems(<<id>>) = {id}
      BY DEF Once, Elems
    <3>2. tabs' = tabs \o <<id>>
      BY <1>1, <2>2 DEF PanesInv
    <3>3. Elems(<<id>>) \cap Elems(tabs) = {}
      BY <2>2, <3>1
    <3>4. tabs \o <<id>> \in Seq(Tab \cup StripTab) /\ Once(tabs \o <<id>>) /\ Elems(tabs \o <<id>>) = Elems(tabs) \cup Elems(<<id>>)
      BY <3>1, <3>3, Added DEF PanesInv
    <3> QED BY <3>1, <3>2, <3>4
  <2> QED BY <2>1, <2>2
<1>3. PanesInv'
  BY <1>1, <1>2 DEF PanesInv
<1>4. None # id /\ id \notin Elems(tabs) => id # secondaryTabId
  BY DEF PanesInv
<1>5. None # id
  BY NoneAssumption DEF NoneAssumption
<1> QED BY <1>1, <1>3, <1>4, <1>5 DEF Strip!PanesShowTwo

LEMMA Closes ==
  ASSUME PanesInv, NEW id \in Tab \cup StripTab, Store!closeTab(id) \/ Strip!closeTab(id)
  PROVE  PanesInv' /\ (Strip!PanesShowTwo => Strip!PanesShowTwo')
<1> DEFINE rest == Store!Kept(Elems(tabs) \ {id})
           at == CHOOSE n \in DOMAIN tabs : tabs[n] = id
           n == IF at <= Len(rest) THEN at ELSE Len(rest)
<1>1. /\ id \in Elems(tabs) /\ tabs' = rest
      /\ IF id = secondaryTabId \/ (id = activeTabId /\ secondaryTabId # None)
         THEN secondaryTabId' = None /\ splitDirection' = None /\ focusedPane' = "primary"
         ELSE UNCHANGED <<secondaryTabId, splitDirection, focusedPane>>
      /\ activeTabId' = IF id # activeTabId THEN activeTabId
                        ELSE IF secondaryTabId \notin {None, id} THEN secondaryTabId
                        ELSE IF rest = <<>> THEN None ELSE rest[n]
  BY TabsAre, KeptIs DEF PanesInv, Store!closeTab, Strip!closeTab, Store!split, Strip!split, Store!Unsplit, Strip!Unsplit,
       Store!IndexOf, Strip!IndexOf
<1>2. at \in DOMAIN tabs /\ DOMAIN tabs = 1 .. Len(tabs)
  BY <1>1 DEF Elems, PanesInv
<1>3. rest \in Seq(Tab \cup StripTab) /\ Elems(rest) = Elems(tabs) \ {id} /\ Once(rest)
  BY KeptIs DEF PanesInv
<1> HIDE DEF rest, at
<1>4. rest # <<>> => n \in DOMAIN rest
  BY <1>2, <1>3
<1>5. rest # <<>> => rest[n] \in Elems(rest)
  BY <1>4 DEF Elems
<1>6. rest = <<>> => Elems(rest) = {}
  BY DEF Elems
<1>7. None \notin Elems(tabs)
  BY NoneIsNoTab DEF PanesInv
<1> HIDE DEF n
<1>8. PanesInv'
  <2>1. tabs' \in Seq(Tab \cup StripTab) /\ Once(tabs)'
    BY <1>1, <1>3
  <2>2. Elems(tabs)' = Elems(tabs) \ {id}
    BY <1>1, <1>3
  <2>3. (activeTabId \in Elems(tabs) \/ (activeTabId = None /\ tabs = <<>>))'
    <3>1. activeTabId \in Elems(tabs) /\ secondaryTabId \in Elems(tabs) \cup {None}
      BY <1>1, <1>6 DEF PanesInv, Elems
    <3>2. CASE id # activeTabId
      BY <1>1, <2>2, <3>1, <3>2
    <3>3. CASE id = activeTabId
      BY <1>1, <1>3, <1>5, <2>2, <3>1, <3>3
    <3> QED BY <3>2, <3>3
  <2>4. /\ secondaryTabId' \in (Elems(tabs) \ {id}) \cup {None} /\ (splitDirection' = None <=> secondaryTabId' = None)
        /\ focusedPane' = "secondary" => secondaryTabId' # None
    BY <1>1 DEF PanesInv
  <2> QED BY <2>1, <2>2, <2>3, <2>4 DEF PanesInv
<1>9. Strip!PanesShowTwo => Strip!PanesShowTwo'
  BY <1>1, <1>3, <1>5, <1>7, <1>8 DEF PanesInv, Strip!PanesShowTwo
<1> QED BY <1>8, <1>9

\* The operations that leave the tabs as they are
LEMMA Activates ==
  ASSUME PanesInv, NEW id, Store!setActiveTab(id) \/ Strip!setActiveTab(id)
  PROVE  PanesInv' /\ (Strip!PanesShowTwo => Strip!PanesShowTwo')
<1>1. /\ id \in Elems(tabs) /\ activeTabId' = id /\ focusedPane' = "primary"
      /\ secondaryTabId' = (IF id = secondaryTabId /\ activeTabId # None THEN activeTabId ELSE secondaryTabId)
      /\ UNCHANGED <<tabs, splitDirection>>
  BY TabsAre DEF Store!setActiveTab, Strip!setActiveTab
<1>2. None \notin Elems(tabs) /\ activeTabId # None
  BY <1>1, NoneIsNoTab DEF PanesInv, Elems
<1> QED BY <1>1, <1>2 DEF PanesInv, Strip!PanesShowTwo

LEMMA Splits ==
  ASSUME PanesInv, NEW id, NEW d \in {"horizontal", "vertical"} \cup ({splitDirection} \ {None}),
         Store!splitWithTab(id, d) \/ Strip!splitWithTab(id, d)
  PROVE  PanesInv' /\ (Strip!PanesShowTwo => Strip!PanesShowTwo')
<1>1. /\ id \in Elems(tabs) /\ id # activeTabId /\ splitDirection' = d /\ secondaryTabId' = id /\ focusedPane' = "primary"
      /\ UNCHANGED <<tabs, activeTabId>>
  BY TabsAre DEF Store!splitWithTab, Strip!splitWithTab
<1>2. None \notin Elems(tabs) /\ d # None
  BY NoneIsNoTab, NoneAssumption DEF PanesInv, NoneAssumption
<1> QED BY <1>1, <1>2 DEF PanesInv, Strip!PanesShowTwo

LEMMA Toggles ==
  ASSUME PanesInv, NEW d \in {"horizontal", "vertical"}, Store!toggleSplit(d) \/ Strip!toggleSplit(d)
  PROVE  PanesInv' /\ (Strip!PanesShowTwo => Strip!PanesShowTwo')
<1> DEFINE Others(P) == Elems(tabs) \ (P \cup {activeTabId})
<1>1. PICK P \in {Pinned, {}} :
        /\ UNCHANGED <<tabs, activeTabId>> /\ focusedPane' = "primary"
        /\ \/ secondaryTabId' = None /\ splitDirection' = None
           \/ Others(P) # {} /\ splitDirection' = d /\ secondaryTabId' = Store!First(Others(P))
  <2>1. CASE Store!toggleSplit(d)
    BY <2>1, TabsAre DEF Store!toggleSplit, Store!Unsplit
  <2>2. CASE Strip!toggleSplit(d)
    <3>1. Others({}) # {} => Strip!First(Others({})) = Store!First(Others({}))
      <4>1. Others({}) \cap Elems(tabs) = Others({})
        OBVIOUS
      <4> HIDE DEF Others
      <4> QED BY <4>1, FirstIs DEF PanesInv
    <3> QED BY <2>2, <3>1, TabsAre DEF Strip!toggleSplit, Strip!Unsplit
  <2> QED BY <2>1, <2>2
<1>2. Others(P) # {} => Store!First(Others(P)) \in Others(P)
  <2>1. Others(P) \cap Elems(tabs) = Others(P)
    OBVIOUS
  <2> HIDE DEF Others
  <2> QED BY <2>1, FirstIs DEF PanesInv
<1>3. None \notin Elems(tabs) /\ d # None
  BY NoneIsNoTab, NoneAssumption DEF PanesInv, NoneAssumption
<1>4. CASE secondaryTabId' = None /\ splitDirection' = None
  BY <1>1, <1>4 DEF PanesInv, Strip!PanesShowTwo
<1>5. CASE Others(P) # {} /\ splitDirection' = d /\ secondaryTabId' = Store!First(Others(P))
  BY <1>1, <1>2, <1>3, <1>5 DEF PanesInv, Strip!PanesShowTwo
<1> QED BY <1>1, <1>4, <1>5

LEMMA Unsplits ==
  ASSUME PanesInv, Store!closeSplit \/ Strip!closeSplit
  PROVE  PanesInv' /\ (Strip!PanesShowTwo => Strip!PanesShowTwo')
  BY DEF Store!closeSplit, Strip!closeSplit, Store!Unsplit, Strip!Unsplit, PanesInv, Strip!PanesShowTwo

LEMMA Focuses ==
  ASSUME PanesInv, NEW p, Store!setFocusedPane(p) \/ Strip!setFocusedPane(p)
  PROVE  PanesInv' /\ (Strip!PanesShowTwo => Strip!PanesShowTwo')
  BY DEF Store!setFocusedPane, Strip!setFocusedPane, Store!split, Strip!split, PanesInv, Strip!PanesShowTwo

\* One terminal for each directory
LEMMA OpensSideBySide ==
  ASSUME PanesInv, NEW ids \in Seq(StripTab \ Single), Once(ids), NEW dirs, Strip!openLocalTerminalsSideBySide(ids, dirs)
  PROVE  PanesInv' /\ (Strip!PanesShowTwo => Strip!PanesShowTwo')
<1>1. /\ ids # <<>> /\ Elems(ids) \cap Elems(tabs) = {} /\ tabs' = tabs \o ids /\ activeTabId' = ids[1] /\ focusedPane' = "primary"
      /\ IF Len(ids) = 1 THEN UNCHANGED <<secondaryTabId, splitDirection>>
         ELSE secondaryTabId' = ids[2] /\ splitDirection' = "horizontal"
  BY TabsAre DEF Strip!openLocalTerminalsSideBySide, Strip!Fresh, Strip!Range, Strip!split, Elems
<1>2. /\ DOMAIN ids = 1 .. Len(ids) /\ Len(ids) \in Nat \ {0} /\ \A n \in DOMAIN ids : ids[n] \in Elems(ids) /\ ids[n] \in StripTab
      /\ ids \in Seq(Tab \cup StripTab)
  BY <1>1 DEF Elems
<1>3. /\ tabs' \in Seq(Tab \cup StripTab) /\ Once(tabs') /\ Elems(tabs') = Elems(tabs) \cup Elems(ids)
  BY <1>1, <1>2, Added DEF PanesInv
<1>4. None \notin Elems(tabs) /\ None \notin StripTab /\ None # "horizontal"
  BY NoneIsNoTab, NoneAssumption DEF PanesInv, NoneAssumption
<1>5. CASE Len(ids) = 1
  BY <1>1, <1>2, <1>3, <1>4, <1>5 DEF PanesInv, Strip!PanesShowTwo
<1>6. CASE Len(ids) # 1
  <2>1. 1 \in DOMAIN ids /\ 2 \in DOMAIN ids /\ ids[1] # ids[2]
    BY <1>2, <1>6 DEF Once
  <2> QED BY <1>1, <1>2, <1>3, <1>4, <1>6, <2>1 DEF PanesInv, Strip!PanesShowTwo
<1> QED BY <1>5, <1>6

LEMMA InitTabs == Store!Init => TabsInv
  BY DEF Store!Init, TabsInv, PanesInv, Once, Elems, Strip!PanesShowTwo

LEMMA StoreNext == ASSUME PanesInv, Store!Next PROVE PanesInv'
<1>1. ASSUME NEW id \in Tab, Store!openTab(id) \/ Store!closeTab(id) \/ Store!setActiveTab(id) PROVE PanesInv'
  BY <1>1, Opens, Closes, Activates
<1>2. ASSUME NEW id \in Tab, NEW d \in Store!Direction, Store!splitWithTab(id, d) PROVE PanesInv'
  BY <1>2, Splits DEF Store!Direction
<1>3. ASSUME NEW d \in Store!Direction, Store!toggleSplit(d) PROVE PanesInv'
  BY <1>3, Toggles DEF Store!Direction
<1>4. ASSUME NEW p, Store!setFocusedPane(p) PROVE PanesInv'
  BY <1>4, Focuses
<1> QED BY <1>1, <1>2, <1>3, <1>4, Unsplits DEF Store!Next

LEMMA StripNextKeeps ==
  ASSUME PanesInv, Strip!PanesShowTwo, Strip!StripNext
  PROVE  PanesInv' /\ Strip!PanesShowTwo'
<1> DEFINE Good == PanesInv' /\ Strip!PanesShowTwo'
<1>1. ASSUME NEW id \in StripTab, NEW k, NEW of, Strip!New(id, k, of) PROVE Good
  <2>1. Strip!openTab(id) /\ id \notin Elems(tabs)
    BY <1>1, TabsAre DEF Strip!New, Strip!Fresh
  <2> QED BY <2>1, Opens
<1> USE DEF Good
<1>2. ASSUME NEW h \in StripHost, NEW id \in StripTab, Strip!openFromList(h, id) \/ Strip!openFromPalette(h, id) PROVE Good
  BY <1>1, <1>2 DEF Strip!openFromList, Strip!openFromPalette
<1>3. ASSUME NEW id \in StripTab, Strip!openSingle(id) \/ Strip!duplicateLocalTerminal(id) \/ Strip!Close(id) \/ Strip!paneFocused(id)
      PROVE  Good
  <2>1. CASE Strip!openSingle(id)
    BY <2>1, Opens DEF Strip!openSingle
  <2>2. CASE Strip!duplicateLocalTerminal(id)
    BY <1>1, <2>2 DEF Strip!duplicateLocalTerminal, Strip!openLocalTerminalTab
  <2>3. CASE Strip!Close(id)
    BY <2>3, Closes DEF Strip!Close
  <2>4. CASE Strip!paneFocused(id)
    BY <2>4, Focuses DEF Strip!paneFocused
  <2> QED BY <1>3, <2>1, <2>2, <2>3, <2>4
<1>4. ASSUME NEW d, NEW id \in StripTab, Strip!openLocalTerminalTab(d, id) PROVE Good
  BY <1>1, <1>4 DEF Strip!openLocalTerminalTab
<1>5. ASSUME NEW d, NEW id \in StripTab, Strip!openOrFocusLocalTerminalTab(d, id) PROVE Good
  BY <1>4, <1>5, Activates DEF Strip!openOrFocusLocalTerminalTab
<1>6. ASSUME NEW n \in 0..MaxDirs, NEW ids \in [1..n -> StripTab \ Single], NEW dirs, Strip!IsInjective(ids),
             Strip!openLocalTerminalsSideBySide(ids, dirs)
      PROVE  Good
  <2>1. ids \in Seq(StripTab \ Single) /\ Once(ids)
    BY <1>6 DEF Strip!IsInjective, Once
  <2> QED BY <1>6, <2>1, OpensSideBySide
<1>7. ASSUME NEW id \in StripTab, NEW alt \in BOOLEAN, Strip!activateTab(id, alt) PROVE Good
  <2>1. CASE Strip!setActiveTab(id)
    BY <2>1, Activates
  <2>2. CASE Strip!splitWithTab(id, IF splitDirection = None THEN "horizontal" ELSE splitDirection)
    BY <2>2, Splits
  <2> QED BY <1>7, <2>1, <2>2 DEF Strip!activateTab
<1>8. ASSUME NEW d \in Strip!Direction, Strip!splitButton(d) PROVE Good
  BY <1>8, Toggles DEF Strip!splitButton, Strip!Direction
<1>9. ASSUME Strip!splitCommand \/ Strip!unsplitButton PROVE Good
  BY <1>9, Toggles, Unsplits DEF Strip!splitCommand, Strip!unsplitButton
<1>10. ASSUME Strip!closeShortcut PROVE Good
  BY <1>10, Closes, TabsAre DEF Strip!closeShortcut, Strip!Close, PanesInv, Elems
<1>11. ASSUME NEW n, Strip!selectTabByIndex(n) \/ Strip!cycleTab(n) PROVE Good
  BY <1>11, Activates DEF Strip!selectTabByIndex, Strip!cycleTab
<1>12. ASSUME NEW h, Strip!editHost(h) PROVE Good
  BY <1>12 DEF Strip!editHost, Strip!vars, Strip!split, PanesInv, Strip!PanesShowTwo
<1> QED BY <1>2, <1>3, <1>4, <1>5, <1>6, <1>7, <1>8, <1>9, <1>10, <1>11, <1>12 DEF Strip!StripNext

LEMMA TabsStay == ASSUME TabsInv, UNCHANGED <<part, store>> PROVE TabsInv'
  BY DEF TabsInv, PanesInv, store, Strip!PanesShowTwo

\* Whatever is opened, closed, split, swapped and cycled through, in the store alone or by what
\* calls it (tabs.ts, SessionTabs.tsx, CommandPalette.tsx, local-terminal.ts): no tab is twice in the
\* strip, both panes show open tabs, the split is whole and the panes show two tabs.
LEMMA NextTabs ==
  ASSUME TabsInv, UNCHANGED part,
         (part = "tabs" /\ Store!Next) \/ (part = "strip" /\ Strip!StripNext) \/ UNCHANGED store
  PROVE  TabsInv'
  BY StoreNext, StripNextKeeps, TabsStay DEF TabsInv

LEMMA PanesShow == TabsInv => PanesAreRight
  BY TabsAre DEF TabsInv, PanesInv, PanesAreRight, Store!PanesAreOpen, Store!SplitIsWhole

-----------------------------------------------------------------------------
(* The terminal tab *)

Answer == {"ok", "failed", "aborted"}
Event  == {"disconnected", "error"}
Answers(i)  == toTab[i].kind \in Answer
EventOf(i, a) == toTab[i].kind \in Event /\ toTab[i].id = a
EndTold(q, a) == \E i \in DOMAIN q : q[i].kind \in Event /\ q[i].id = a
Answered    == \E i \in DOMAIN toTab : Answers(i)
InProgress  == sess[calls] \in {"none", "connecting"} \/ Answered

\* One attempt is on its way at a time, and it is the last: asked of main, connecting in main, or answered.
OneAttempt ==
  /\ \A a \in Attempt : /\ a > calls => sess[a] = "none"
                        /\ a < calls => sess[a] \in {"live", "ended"}
  /\ \A i \in DOMAIN toMain : toMain[i].kind = "connect" => toMain[i].id = calls /\ sess[calls] = "none"
  /\ \A i, j \in DOMAIN toMain : toMain[i].kind = "connect" /\ toMain[j].kind = "connect" => i = j
  /\ sess[calls] = "none" => \E i \in DOMAIN toMain : toMain[i].kind = "connect"
  /\ \A i \in DOMAIN toTab : Answers(i) => toTab[i].id = calls /\ sess[calls] \in {"live", "ended"}
  /\ \A i, j \in DOMAIN toTab : Answers(i) /\ Answers(j) => i = j

\* The end of a session is told once, after its start.
OneEnd ==
  /\ \A i \in DOMAIN toTab : toTab[i].kind \in Event \cup {"failed", "aborted"} => sess[toTab[i].id] = "ended"
  /\ \A i, j \in DOMAIN toTab : toTab[i].kind \in Event /\ EventOf(j, toTab[i].id) => i = j
  /\ \A i \in DOMAIN toTab :
       toTab[i].kind = "ok" /\ sess[calls] # "live" => \E j \in DOMAIN toTab : j > i /\ EventOf(j, calls)

\* While the tab connects or waits to, or shows no connection, what it still refers to is over and told.
RefIsOver ==
  ref # NoSession /\ (connecting \/ timer \/ status # "connected") =>
    sess[ref] = "ended" /\ ~EndTold(toTab, ref)

TabAgrees ==
  /\ connecting => InProgress
  /\ InProgress => connecting \/ userDisc
  /\ userDisc => ref = NoSession
  /\ timer => auto /\ ~userDisc /\ ~connecting /\ ~InProgress
  /\ Alive /\ status = "connected" =>
       ref # NoSession /\ (sess[ref] = "live" \/ EndTold(toTab, ref))
  /\ Alive /\ status = "connecting" => connecting /\ ~userDisc
  /\ attempt \in {0, 1} /\ (status = "connected" => attempt = 0)

MainMsg == [kind : {"connect", "disconnect"}, id : Attempt] \cup {Msg("abort", NoSession)}
TabMsg  == [kind : Kinds, id : Attempt]
Travel  == toMain \in Seq(MainMsg) /\ toTab \in Seq(TabMsg) /\ calls \in Attempt
           /\ sess \in [Attempt -> {"none", "connecting", "live", "ended"}]
HookTypes ==
  /\ ref \in {NoSession} \cup Attempt /\ {connecting, userDisc, auto, timer} \subseteq BOOLEAN
  /\ mount \in {"alive", "leaving", "gone"}
  /\ status \in {"connecting", "connected", "disconnected", "error", "cleared"}

SshTabInv == Travel /\ HookTypes /\ OneAttempt /\ OneEnd /\ RefIsOver /\ TabAgrees /\ SessionsAreHeld

\* abortPendingConnect() answers each attempt it reaches, once.
LEMMA AbortedIs ==
  ASSUME NEW S \in SUBSET Attempt
  PROVE  /\ Aborted(S) \in Seq(TabMsg) /\ Elems(Aborted(S)) = {Msg("aborted", a) : a \in S} /\ Once(Aborted(S))
<1> DEFINE s == [n \in 1 .. MaxConnects |-> Msg("aborted", n)]
           M == {Msg("aborted", a) : a \in S}
           Told(f) == f = [n \in 0 .. MaxConnects |->
                             IF n = 0 THEN <<>> ELSE IF n \in S THEN Append(f[n - 1], Msg("aborted", n)) ELSE f[n - 1]]
           told == CHOOSE f : Told(f)
<1>0. MaxConnects \in Nat
  BY TabAssumption DEF TabAssumption
<1>1. s \in Seq(TabMsg) /\ Len(s) = MaxConnects /\ DOMAIN s = 1 .. MaxConnects /\ \A n \in 1 .. MaxConnects : s[n] = Msg("aborted", n)
  BY <1>0 DEF TabMsg, Msg, Kinds, Attempt
<1>2. Once(s) /\ Elems(s) \cap M = M
  BY <1>1 DEF Once, Elems, Msg, Attempt
<1>3. \A n \in 1 .. MaxConnects : s[n] \in M <=> n \in S
  BY <1>1 DEF Msg
<1>4. ASSUME NEW f PROVE Told(f) <=> Filters(f, s, M)
  <2> DEFINE one(n) == IF n = 0 THEN <<>> ELSE IF n \in S THEN Append(f[n - 1], Msg("aborted", n)) ELSE f[n - 1]
             other(n) == IF n = 0 THEN <<>> ELSE IF s[n] \in M THEN Append(f[n - 1], s[n]) ELSE f[n - 1]
  <2>1. \A n \in 0 .. MaxConnects : one(n) = other(n)
    <3> SUFFICES ASSUME NEW n \in 0 .. MaxConnects, n # 0 PROVE one(n) = other(n)
      OBVIOUS
    <3>1. n \in 1 .. MaxConnects
      BY <1>0
    <3>2. s[n] = Msg("aborted", n) /\ (s[n] \in M <=> n \in S)
      BY <1>1, <1>3, <3>1
    <3> HIDE DEF s, M
    <3> QED BY <3>2
  <2> HIDE DEF one, other
  <2>2. [n \in 0 .. MaxConnects |-> one(n)] = [n \in 0 .. MaxConnects |-> other(n)]
    BY <2>1
  <2>3. Told(f) <=> f = [n \in 0 .. MaxConnects |-> one(n)]
    BY DEF one
  <2>4. Filters(f, s, M) <=> f = [n \in 0 .. MaxConnects |-> other(n)]
    <3> HIDE DEF s, M
    <3> QED BY <1>1 DEF Filters, other
  <2> HIDE DEF Told
  <2> QED BY <2>2, <2>3, <2>4
<1> HIDE DEF s, M, Told
<1>5. \E f : Told(f)
  BY <1>1, <1>4, FilterIsThere
<1>6. Told(told)
  BY <1>5
<1>7. Aborted(S) = told[MaxConnects]
  BY DEF Aborted, Told
<1> HIDE DEF told
<1>8. Filters(told, s, M)
  BY <1>4, <1>6
<1>9. told[Len(s)] \in Seq(TabMsg) /\ Elems(told[Len(s)]) = Elems(s) \cap M /\ Once(told[Len(s)])
  BY <1>1, <1>2, <1>8, FilterIs
<1> QED BY <1>1, <1>2, <1>7, <1>9 DEF M

\* A sequence of one thing, once.
LEMMA OfOne ==
  ASSUME NEW T, NEW s \in Seq(T), Once(s), NEW m, Elems(s) = {m}
  PROVE  s = <<m>>
<1>1. DOMAIN s = 1 .. Len(s) /\ Len(s) \in Nat /\ \A i \in DOMAIN s : s[i] = m
  BY DEF Elems
<1>2. Len(s) # 0
  BY <1>1 DEF Elems
<1>3. ~(Len(s) > 1)
  <2>1. Len(s) > 1 => 1 \in DOMAIN s /\ 2 \in DOMAIN s
    BY <1>1
  <2> QED BY <1>1, <2>1 DEF Once
<1>4. Len(s) = 1
  BY <1>1, <1>2, <1>3
<1> QED BY <1>1, <1>4

LEMMA OfNone == ASSUME NEW T, NEW s \in Seq(T), Elems(s) = {} PROVE s = <<>>
<1>1. DOMAIN s = 1 .. Len(s) /\ Len(s) \in Nat /\ DOMAIN s = {}
  BY DEF Elems
<1>2. Len(s) = 0
  <2>1. ~(Len(s) >= 1)
    BY <1>1
  <2> QED BY <1>1, <2>1
<1> QED BY <1>2

\* The tab tells main something that is no connect.
Tells(ms) == ms = <<>> \/ \E m \in MainMsg : m.kind # "connect" /\ ms = <<m>>
LEMMA Telling ==
  ASSUME Travel, OneAttempt, NEW ms, Tells(ms), toMain' = toMain \o ms, UNCHANGED <<calls, sess>>
  PROVE  /\ toMain' \in Seq(MainMsg)
         /\ \A i \in DOMAIN toMain' : toMain'[i].kind = "connect" => toMain'[i].id = calls /\ sess[calls] = "none"
         /\ \A i, j \in DOMAIN toMain' : toMain'[i].kind = "connect" /\ toMain'[j].kind = "connect" => i = j
         /\ sess[calls] = "none" => \E i \in DOMAIN toMain' : toMain'[i].kind = "connect"
         /\ \A k, a : InFlight(toMain, k, a) => InFlight(toMain', k, a)
         /\ \A a : ms = <<Msg("disconnect", a)>> => InFlight(toMain', "disconnect", a)
<1>1. CASE ms = <<>>
  <2>1. toMain' = toMain
    BY <1>1 DEF Travel
  <2> QED BY <1>1, <2>1 DEF Travel, OneAttempt
<1>2. CASE \E m \in MainMsg : m.kind # "connect" /\ ms = <<m>>
  <2>1. PICK m \in MainMsg : m.kind # "connect" /\ ms = <<m>>
    BY <1>2
  <2>2. /\ toMain' = Append(toMain, m) /\ toMain' \in Seq(MainMsg)
        /\ DOMAIN toMain' = DOMAIN toMain \cup {Len(toMain) + 1} /\ toMain'[Len(toMain) + 1] = m
        /\ \A i \in DOMAIN toMain : toMain'[i] = toMain[i]
    BY <2>1, AppendIs DEF Travel
  <2>3. /\ \A k, a : InFlight(toMain, k, a) => InFlight(toMain', k, a)
        /\ \A a : ms = <<Msg("disconnect", a)>> => InFlight(toMain', "disconnect", a)
    BY <2>1, <2>2 DEF InFlight
  <2> QED BY <2>1, <2>2, <2>3 DEF OneAttempt
<1> QED BY <1>1, <1>2 DEF Tells

LEMMA HookTells ==
  ASSUME Travel, OneAttempt, OneEnd, NEW ms, Tells(ms), toMain' = toMain \o ms, UNCHANGED <<calls, sess, toTab>>
  PROVE  OneAttempt' /\ OneEnd' /\ (InProgress' <=> InProgress)
<1>1. OneAttempt'
  BY Telling DEF OneAttempt, Answers
<1> QED BY <1>1 DEF OneEnd, EventOf, EndTold, InProgress, Answered, Answers

\* connect(), when nothing is on its way
LEMMA Connects ==
  ASSUME Travel, OneAttempt, OneEnd, ~InProgress, calls < MaxConnects, calls' = calls + 1,
         toMain' = toMain \o <<Msg("connect", calls + 1)>>, UNCHANGED <<sess, toTab>>
  PROVE  /\ Travel' /\ OneAttempt' /\ OneEnd' /\ InProgress'
         /\ \A k, a : InFlight(toMain, k, a) => InFlight(toMain', k, a)
<1>0. MaxConnects \in Nat /\ calls \in 1 .. MaxConnects /\ calls + 1 \in Attempt
  BY TabAssumption DEF TabAssumption, Travel, Attempt
<1>1. Msg("connect", calls + 1) \in MainMsg
  BY <1>0 DEF MainMsg, Msg
<1>2. /\ toMain' \in Seq(MainMsg)
      /\ DOMAIN toMain' = DOMAIN toMain \cup {Len(toMain) + 1} /\ toMain'[Len(toMain) + 1] = Msg("connect", calls + 1)
      /\ \A i \in DOMAIN toMain : toMain'[i] = toMain[i]
  BY <1>1, AppendIs DEF Travel
<1>3. sess[calls] \in {"live", "ended"} /\ ~Answered /\ sess[calls + 1] = "none"
  <2>1. sess[calls] \in {"none", "connecting", "live", "ended"}
    BY DEF Travel
  <2> QED BY <1>0, <2>1 DEF InProgress, OneAttempt
<1>4. \A i \in DOMAIN toMain : toMain[i].kind # "connect"
  BY <1>3 DEF OneAttempt
<1>5. \A a \in Attempt : (a > calls + 1 => a > calls) /\ (a < calls + 1 => a < calls \/ a = calls)
  BY <1>0 DEF Attempt
<1>6. OneAttempt'
  <2>1. \A a \in Attempt : (a > calls' => sess'[a] = "none") /\ (a < calls' => sess'[a] \in {"live", "ended"})
    BY <1>3, <1>5 DEF OneAttempt
  <2>2. \A i \in DOMAIN toMain' : toMain'[i].kind = "connect" => i = Len(toMain) + 1
    BY <1>2, <1>4
  <2>3. toMain'[Len(toMain) + 1].kind = "connect" /\ toMain'[Len(toMain) + 1].id = calls'
    BY <1>2 DEF Msg
  <2>4. \A i \in DOMAIN toTab : ~Answers(i)
    BY <1>3 DEF Answered
  <2> QED BY <1>2, <1>3, <2>1, <2>2, <2>3, <2>4 DEF OneAttempt, Answers
<1>7. OneEnd'
  <2>1. \A i \in DOMAIN toTab : toTab[i].kind # "ok"
    BY <1>3 DEF Answered, Answers, Answer
  <2> QED BY <2>1 DEF OneEnd, EventOf, EndTold
<1>8. InProgress'
  BY <1>3 DEF InProgress
<1>9. \A k, a : InFlight(toMain, k, a) => InFlight(toMain', k, a)
  BY <1>2 DEF InFlight
<1> QED BY <1>0, <1>2, <1>6, <1>7, <1>8, <1>9 DEF Travel

\* The tab hears the first message.
LEMMA TabHeard ==
  ASSUME Travel, OneAttempt, OneEnd, toTab # <<>>, toTab' = Tail(toTab), NEW ms, Tells(ms), toMain' = toMain \o ms,
         UNCHANGED <<calls, sess>>
  PROVE  /\ Travel' /\ OneAttempt' /\ OneEnd' /\ Head(toTab) = toTab[1] /\ Head(toTab) \in TabMsg /\ 1 \in DOMAIN toTab
         /\ Answered' <=> Answered /\ ~Answers(1)
         /\ \A a : EndTold(toTab, a) /\ ~EventOf(1, a) => EndTold(toTab', a)
         /\ \A a : (\A i \in DOMAIN toTab : i # 1 => ~EventOf(i, a)) => ~EndTold(toTab', a)
         /\ \A k, a : InFlight(toTab, k, a) /\ Head(toTab) # Msg(k, a) => InFlight(toTab', k, a)
<1>1. /\ toTab' \in Seq(TabMsg) /\ Head(toTab) = toTab[1] /\ Head(toTab) \in TabMsg /\ 1 \in DOMAIN toTab
      /\ \A i \in DOMAIN toTab' : i \in Nat /\ i + 1 \in DOMAIN toTab /\ toTab'[i] = toTab[i + 1]
      /\ \A i \in DOMAIN toTab : i \in Nat /\ (i # 1 => i > 1 /\ i - 1 \in DOMAIN toTab' /\ toTab'[i - 1] = toTab[i])
  BY TailIs DEF Travel
<1>2. OneAttempt'
  <2>1. \A i, j \in DOMAIN toTab' : i + 1 = j + 1 => i = j
    BY <1>1
  <2>2. \A i \in DOMAIN toTab' : toTab'[i].kind \in Answer => toTab'[i].id = calls /\ sess[calls] \in {"live", "ended"}
    BY <1>1 DEF OneAttempt, Answers
  <2>3. \A i, j \in DOMAIN toTab' : toTab'[i].kind \in Answer /\ toTab'[j].kind \in Answer => i = j
    BY <1>1, <2>1 DEF OneAttempt, Answers
  <2>4. /\ \A i \in DOMAIN toMain' : toMain'[i].kind = "connect" => toMain'[i].id = calls /\ sess[calls] = "none"
        /\ \A i, j \in DOMAIN toMain' : toMain'[i].kind = "connect" /\ toMain'[j].kind = "connect" => i = j
        /\ sess[calls] = "none" => \E i \in DOMAIN toMain' : toMain'[i].kind = "connect"
    BY Telling
  <2> QED BY <2>2, <2>3, <2>4 DEF OneAttempt, Answers
<1>3. OneEnd'
  <2>1. \A i \in DOMAIN toTab' : toTab'[i].kind \in Event \cup {"failed", "aborted"} => sess[toTab'[i].id] = "ended"
    BY <1>1 DEF OneEnd
  <2>2. \A i, j \in DOMAIN toTab' :
          toTab'[i].kind \in Event /\ toTab'[j].kind \in Event /\ toTab'[j].id = toTab'[i].id => i = j
    <3>1. \A i, j \in DOMAIN toTab' : i + 1 = j + 1 => i = j
      BY <1>1
    <3> QED BY <1>1, <3>1 DEF OneEnd, EventOf, EndTold
  <2>3. ASSUME NEW i \in DOMAIN toTab', toTab'[i].kind = "ok", sess[calls] # "live"
        PROVE  \E j \in DOMAIN toTab' : j > i /\ toTab'[j].kind \in Event /\ toTab'[j].id = calls
    <3>1. PICK j \in DOMAIN toTab : j > i + 1 /\ EventOf(j, calls)
      BY <1>1, <2>3 DEF OneEnd
    <3>2. j # 1 /\ j - 1 > i
      BY <1>1, <3>1
    <3> QED BY <1>1, <3>1, <3>2 DEF EventOf, EndTold
  <2> QED BY <2>1, <2>2, <2>3 DEF OneEnd, EventOf, EndTold
<1>4. Answered' <=> Answered /\ ~Answers(1)
  <2>1. ASSUME Answered' PROVE Answered /\ ~Answers(1)
    <3>1. PICK i \in DOMAIN toTab' : toTab'[i].kind \in Answer
      BY <2>1 DEF Answered, Answers
    <3>2. Answers(i + 1) /\ i + 1 \in DOMAIN toTab /\ i \in Nat /\ i # 0
      BY <1>1, <3>1 DEF Answers
    <3>3. i + 1 # 1
      BY <3>2
    <3> QED BY <1>1, <3>2, <3>3 DEF OneAttempt, Answered
  <2>2. ASSUME Answered, ~Answers(1) PROVE Answered'
    BY <1>1, <2>2 DEF Answered, Answers
  <2> QED BY <2>1, <2>2
<1>5. ASSUME NEW a, EndTold(toTab, a), ~EventOf(1, a) PROVE EndTold(toTab', a)
  <2>1. PICK i \in DOMAIN toTab : EventOf(i, a)
    BY <1>5 DEF EventOf, EndTold
  <2>2. i - 1 \in DOMAIN toTab' /\ toTab'[i - 1] = toTab[i]
    BY <1>1, <1>5, <2>1
  <2> QED BY <2>1, <2>2 DEF EventOf, EndTold
<1>6. ASSUME NEW a, \A i \in DOMAIN toTab : i # 1 => ~EventOf(i, a) PROVE ~EndTold(toTab', a)
  <2>1. \A i \in DOMAIN toTab' : i + 1 # 1
    <3>1. toTab' \in Seq(TabMsg)
      BY <1>1
    <3>2. DOMAIN toTab' = 1 .. Len(toTab')
      BY <3>1
    <3> QED BY <1>1, <3>2
  <2> QED BY <1>1, <1>6, <2>1 DEF EventOf, EndTold
<1>7. \A k, a : InFlight(toTab, k, a) /\ Head(toTab) # Msg(k, a) => InFlight(toTab', k, a)
  <2> SUFFICES ASSUME NEW k, NEW a, InFlight(toTab, k, a), Head(toTab) # Msg(k, a) PROVE InFlight(toTab', k, a)
    OBVIOUS
  <2>1. PICK i \in DOMAIN toTab : toTab[i] = Msg(k, a)
    BY DEF InFlight
  <2>2. i - 1 \in DOMAIN toTab' /\ toTab'[i - 1] = toTab[i]
    BY <1>1, <2>1
  <2> QED BY <2>1, <2>2 DEF InFlight
<1>8. Travel'
  BY <1>1, Telling DEF Travel
<1> QED BY <1>1, <1>2, <1>3, <1>4, <1>5, <1>6, <1>7, <1>8

\* Main hears the first message.
LEMMA MainHeard ==
  ASSUME Travel, OneAttempt, toMain # <<>>, toMain' = Tail(toMain)
  PROVE  /\ toMain' \in Seq(MainMsg) /\ Head(toMain) \in MainMsg
         /\ Head(toMain).kind = "connect" => Head(toMain).id = calls /\ sess[calls] = "none"
         /\ \A i \in DOMAIN toMain' : toMain'[i].kind = "connect" =>
              toMain'[i].id = calls /\ sess[calls] = "none" /\ Head(toMain).kind # "connect"
         /\ \A i, j \in DOMAIN toMain' : toMain'[i].kind = "connect" /\ toMain'[j].kind = "connect" => i = j
         /\ sess[calls] = "none" /\ Head(toMain).kind # "connect" => \E i \in DOMAIN toMain' : toMain'[i].kind = "connect"
         /\ \A k, a : InFlight(toMain, k, a) /\ Head(toMain) # Msg(k, a) => InFlight(toMain', k, a)
<1>1. /\ toMain' \in Seq(MainMsg) /\ Head(toMain) = toMain[1] /\ Head(toMain) \in MainMsg /\ 1 \in DOMAIN toMain
      /\ \A i \in DOMAIN toMain' : i \in Nat /\ i + 1 \in DOMAIN toMain /\ toMain'[i] = toMain[i + 1]
      /\ \A i \in DOMAIN toMain : i \in Nat /\ (i # 1 => i > 1 /\ i - 1 \in DOMAIN toMain' /\ toMain'[i - 1] = toMain[i])
  BY TailIs DEF Travel
<1>2. \A i \in DOMAIN toMain' : i + 1 # 1
  <2>1. DOMAIN toMain' = 1 .. Len(toMain')
    BY <1>1
  <2> QED BY <1>1, <2>1
<1>3. \A i \in DOMAIN toMain' : toMain'[i].kind = "connect" =>
        toMain'[i].id = calls /\ sess[calls] = "none" /\ Head(toMain).kind # "connect"
  BY <1>1, <1>2 DEF OneAttempt
<1>4. \A i, j \in DOMAIN toMain' : toMain'[i].kind = "connect" /\ toMain'[j].kind = "connect" => i = j
  <2>1. \A i, j \in DOMAIN toMain' : i + 1 = j + 1 => i = j
    BY <1>1
  <2> QED BY <1>1, <2>1 DEF OneAttempt
<1>5. ASSUME sess[calls] = "none", Head(toMain).kind # "connect" PROVE \E i \in DOMAIN toMain' : toMain'[i].kind = "connect"
  <2>1. PICK i \in DOMAIN toMain : toMain[i].kind = "connect"
    BY <1>5 DEF OneAttempt
  <2>2. i - 1 \in DOMAIN toMain' /\ toMain'[i - 1] = toMain[i]
    BY <1>1, <1>5, <2>1
  <2> QED BY <2>1, <2>2
<1>6. ASSUME NEW k, NEW a, InFlight(toMain, k, a), Head(toMain) # Msg(k, a) PROVE InFlight(toMain', k, a)
  <2>1. PICK i \in DOMAIN toMain : toMain[i] = Msg(k, a)
    BY <1>6 DEF InFlight
  <2>2. i - 1 \in DOMAIN toMain' /\ toMain'[i - 1] = toMain[i]
    BY <1>1, <1>6, <2>1
  <2> QED BY <2>1, <2>2 DEF InFlight
<1> QED BY <1>1, <1>3, <1>4, <1>5, <1>6 DEF OneAttempt

\* Main replies.
LEMMA Replies ==
  ASSUME Travel, NEW m \in TabMsg, toTab' = toTab \o <<m>>
  PROVE  /\ toTab' \in Seq(TabMsg) /\ Len(toTab) \in Nat
         /\ DOMAIN toTab' = DOMAIN toTab \cup {Len(toTab) + 1} /\ toTab'[Len(toTab) + 1] = m
         /\ \A i \in DOMAIN toTab : i \in Nat /\ i < Len(toTab) + 1 /\ toTab'[i] = toTab[i]
         /\ \A k, a : InFlight(toTab, k, a) => InFlight(toTab', k, a)
         /\ InFlight(toTab', m.kind, m.id)
<1>1. /\ toTab' \in Seq(TabMsg) /\ Len(toTab) \in Nat
      /\ DOMAIN toTab' = DOMAIN toTab \cup {Len(toTab) + 1} /\ toTab'[Len(toTab) + 1] = m
      /\ \A i \in DOMAIN toTab : i \in Nat /\ i < Len(toTab) + 1 /\ toTab'[i] = toTab[i]
  BY AppendIs DEF Travel
<1>2. m = Msg(m.kind, m.id)
  BY DEF TabMsg, Msg
<1> QED BY <1>1, <1>2 DEF InFlight

\* An attempt settles: its answer is the one there is.
LEMMA Settles ==
  ASSUME SshTabInv, NEW a \in Attempt, sess[a] = "connecting", NEW k \in Answer,
         sess' = [sess EXCEPT ![a] = IF k = "ok" THEN "live" ELSE "ended"], toTab' = toTab \o <<Msg(k, a)>>,
         toMain' \in Seq(MainMsg), \A i \in DOMAIN toMain' : toMain'[i].kind # "connect",
         \A b \in Attempt : InFlight(toMain, "disconnect", b) => InFlight(toMain', "disconnect", b),
         UNCHANGED tab
  PROVE  SshTabInv'
<1>0. Travel /\ calls \in Attempt /\ UNCHANGED <<ref, connecting, userDisc, auto, attempt, timer, mount, status, calls>>
  BY DEF SshTabInv, Travel, tab
<1>1. a = calls /\ ~Answered /\ calls \in Nat
  <2>1. calls \in Nat /\ a \in Nat
    BY <1>0 DEF Attempt
  <2>2. ~(a > calls) /\ ~(a < calls)
    BY DEF SshTabInv, OneAttempt
  <2> QED BY <2>1, <2>2 DEF SshTabInv, OneAttempt, Answered
<1>2. Msg(k, a) \in TabMsg /\ Msg(k, a).kind = k /\ Msg(k, a).id = a
  BY DEF Msg, TabMsg, Kinds, Answer
<1>3. /\ toTab' \in Seq(TabMsg) /\ Len(toTab) \in Nat
      /\ DOMAIN toTab' = DOMAIN toTab \cup {Len(toTab) + 1} /\ toTab'[Len(toTab) + 1] = Msg(k, a)
      /\ \A i \in DOMAIN toTab : i \in Nat /\ i < Len(toTab) + 1 /\ toTab'[i] = toTab[i]
      /\ \A kk, b : InFlight(toTab, kk, b) => InFlight(toTab', kk, b)
      /\ InFlight(toTab', k, a)
  BY <1>0, <1>2, Replies
<1>4. /\ sess' \in [Attempt -> {"none", "connecting", "live", "ended"}] /\ sess'[calls] = IF k = "ok" THEN "live" ELSE "ended"
      /\ \A b \in Attempt : b # calls => sess'[b] = sess[b]
  BY <1>0, <1>1 DEF Travel
<1>5. Travel' /\ HookTypes'
  BY <1>0, <1>3, <1>4 DEF SshTabInv, Travel, HookTypes
<1>6. \A i \in DOMAIN toTab : toTab[i].kind \notin Answer /\ toTab[i].kind \in Event /\ toTab[i].id # calls
  <2> SUFFICES ASSUME NEW i \in DOMAIN toTab PROVE toTab[i].kind \notin Answer /\ toTab[i].kind \in Event /\ toTab[i].id # calls
    OBVIOUS
  <2>1. toTab[i] \in TabMsg
    BY <1>0 DEF Travel
  <2>2. toTab[i].kind \notin Answer
    BY <1>1 DEF Answered, Answers
  <2>3. toTab[i].kind \in Event
    BY <2>1, <2>2 DEF TabMsg, Kinds, Answer, Event
  <2>4. sess[toTab[i].id] = "ended"
    BY <2>3 DEF SshTabInv, OneEnd
  <2> QED BY <1>1, <2>2, <2>3, <2>4
<1>7. k \notin Event
  BY DEF Answer, Event
<1>8. OneAttempt'
  <2>1. \A b \in Attempt : (b > calls => b # calls) /\ (b < calls => b # calls)
    BY <1>0 DEF Attempt
  <2>2. \A b \in Attempt : (b > calls' => sess'[b] = "none") /\ (b < calls' => sess'[b] \in {"live", "ended"})
    BY <1>0, <1>4, <2>1 DEF SshTabInv, OneAttempt
  <2>3. \A i \in DOMAIN toTab' : toTab'[i].kind \in Answer => i = Len(toTab) + 1
    BY <1>3, <1>6
  <2>4. sess'[calls'] # "none" /\ sess'[calls'] \in {"live", "ended"}
    BY <1>0, <1>4
  <2> QED BY <1>0, <1>1, <1>2, <1>3, <2>2, <2>3, <2>4 DEF OneAttempt, Answers
<1>9. OneEnd'
  <2>1. \A i \in DOMAIN toTab' : toTab'[i].kind \in Event \cup {"failed", "aborted"} => sess'[toTab'[i].id] = "ended"
    <3>1. \A i \in DOMAIN toTab : toTab[i].id \in Attempt /\ sess[toTab[i].id] = "ended"
      <4>1. \A i \in DOMAIN toTab : toTab[i] \in TabMsg
        BY <1>0 DEF Travel
      <4> QED BY <1>6, <4>1 DEF SshTabInv, OneEnd, TabMsg
    <3>2. k # "ok" => sess'[calls] = "ended"
      BY <1>4
    <3> QED BY <1>1, <1>2, <1>3, <1>4, <1>6, <1>7, <3>1, <3>2
  <2>2. \A i, j \in DOMAIN toTab' :
          toTab'[i].kind \in Event /\ toTab'[j].kind \in Event /\ toTab'[j].id = toTab'[i].id => i = j
    BY <1>2, <1>3, <1>7 DEF SshTabInv, OneEnd, EventOf, EndTold
  <2>3. \A i \in DOMAIN toTab' : toTab'[i].kind = "ok" => sess'[calls'] = "live"
    BY <1>0, <1>2, <1>3, <1>4, <1>6 DEF Answer
  <2> QED BY <2>1, <2>2, <2>3 DEF OneEnd, EventOf, EndTold
<1>10. RefIsOver'
  <2>1. ref # NoSession /\ (connecting \/ timer \/ status # "connected") => ref # calls
    BY <1>1 DEF SshTabInv, RefIsOver
  <2>2. ref # NoSession => ref \in Attempt
    BY DEF SshTabInv, HookTypes
  <2>3. \A i \in DOMAIN toTab' : toTab'[i].kind \in Event => i \in DOMAIN toTab /\ toTab'[i] = toTab[i]
    BY <1>2, <1>3, <1>7
  <2> QED BY <1>0, <1>4, <2>1, <2>2, <2>3 DEF SshTabInv, RefIsOver, EventOf, EndTold
<1>11. InProgress /\ InProgress'
  <2>1. Answered'
    <3>1. toTab'[Len(toTab) + 1].kind \in Answer /\ Len(toTab) + 1 \in DOMAIN toTab'
      BY <1>2, <1>3
    <3> QED BY <3>1 DEF Answered, Answers
  <2> QED BY <1>1, <2>1 DEF InProgress
<1>12. TabAgrees'
  <2>1. Alive /\ status = "connected" => ref # NoSession /\ (sess'[ref] = "live" \/ EndTold(toTab', ref))
    <3> SUFFICES ASSUME Alive, status = "connected" PROVE ref # NoSession /\ (sess'[ref] = "live" \/ EndTold(toTab', ref))
      OBVIOUS
    <3>1. ref # NoSession /\ (sess[ref] = "live" \/ EndTold(toTab, ref)) /\ ref \in Attempt
      BY DEF SshTabInv, TabAgrees, HookTypes
    <3>2. CASE sess[ref] = "live"
      BY <1>1, <1>4, <3>1, <3>2
    <3>3. CASE EndTold(toTab, ref)
      BY <1>3, <3>1, <3>3 DEF EventOf, EndTold
    <3> QED BY <3>1, <3>2, <3>3
  <2> QED BY <1>0, <1>11, <2>1 DEF SshTabInv, TabAgrees, EventOf, EndTold, Alive
<1>13. SessionsAreHeld'
  <2> SUFFICES ASSUME NEW b \in Attempt, sess'[b] = "live"
               PROVE  (ref' = b /\ mount' # "gone") \/ InFlight(toTab', "ok", b) \/ InFlight(toMain', "disconnect", b)
    BY DEF SessionsAreHeld
  <2>1. CASE b = calls
    BY <1>1, <1>3, <1>4, <2>1
  <2>2. CASE b # calls
    BY <1>0, <1>3, <1>4, <2>2 DEF SshTabInv, SessionsAreHeld
  <2> QED BY <2>1, <2>2
<1> QED BY <1>5, <1>8, <1>9, <1>10, <1>12, <1>13 DEF SshTabInv

\* A session that is open ends, and the tab is told.
LEMMA Ends ==
  ASSUME SshTabInv, NEW a \in Attempt, sess[a] = "live", NEW k \in Event,
         sess' = [sess EXCEPT ![a] = "ended"], toTab' = toTab \o <<Msg(k, a)>>,
         toMain' \in Seq(MainMsg),
         \A i \in DOMAIN toMain' : toMain'[i].kind = "connect" => toMain'[i].id = calls /\ sess[calls] = "none",
         \A i, j \in DOMAIN toMain' : toMain'[i].kind = "connect" /\ toMain'[j].kind = "connect" => i = j,
         sess[calls] = "none" => \E i \in DOMAIN toMain' : toMain'[i].kind = "connect",
         \A b \in Attempt \ {a} : InFlight(toMain, "disconnect", b) => InFlight(toMain', "disconnect", b),
         UNCHANGED tab
  PROVE  SshTabInv'
<1>0. Travel /\ calls \in Attempt /\ UNCHANGED <<ref, connecting, userDisc, auto, attempt, timer, mount, status, calls>>
  BY DEF SshTabInv, Travel, tab
<1>2. Msg(k, a) \in TabMsg /\ Msg(k, a).kind = k /\ Msg(k, a).id = a
  BY DEF Msg, TabMsg, Kinds, Event
<1>3. /\ toTab' \in Seq(TabMsg) /\ Len(toTab) \in Nat
      /\ DOMAIN toTab' = DOMAIN toTab \cup {Len(toTab) + 1} /\ toTab'[Len(toTab) + 1] = Msg(k, a)
      /\ \A i \in DOMAIN toTab : i \in Nat /\ i < Len(toTab) + 1 /\ toTab'[i] = toTab[i]
      /\ \A kk, b : InFlight(toTab, kk, b) => InFlight(toTab', kk, b)
  BY <1>0, <1>2, Replies
<1>4. /\ sess' \in [Attempt -> {"none", "connecting", "live", "ended"}] /\ sess'[a] = "ended"
      /\ \A b \in Attempt : b # a => sess'[b] = sess[b]
  BY <1>0 DEF Travel
<1>5. Travel' /\ HookTypes'
  BY <1>0, <1>3, <1>4 DEF SshTabInv, Travel, HookTypes
<1>6. \A i \in DOMAIN toTab : toTab[i].kind \in Event \cup {"failed", "aborted"} => toTab[i].id # a /\ toTab[i].id \in Attempt
  <2>1. \A i \in DOMAIN toTab : toTab[i] \in TabMsg
    BY <1>0 DEF Travel
  <2> QED BY <2>1 DEF SshTabInv, OneEnd, TabMsg
<1>7. k \notin Answer /\ \A kk \in Answer : kk \notin Event
  BY DEF Answer, Event
<1>8. sess'[calls] = "none" <=> sess[calls] = "none"
  BY <1>0, <1>4
<1>9. \A i \in DOMAIN toTab' : toTab'[i].kind \in Answer => i \in DOMAIN toTab /\ toTab'[i] = toTab[i]
  BY <1>2, <1>3, <1>7
<1>10. OneAttempt'
  <2>1. \A b \in Attempt : (b > calls' => sess'[b] = "none") /\ (b < calls' => sess'[b] \in {"live", "ended"})
    <3>1. ~(a > calls)
      BY DEF SshTabInv, OneAttempt
    <3> QED BY <1>0, <1>4, <3>1 DEF SshTabInv, OneAttempt
  <2>2. sess[calls] \in {"live", "ended"} => sess'[calls] \in {"live", "ended"}
    BY <1>0, <1>4
  <2> QED BY <1>0, <1>8, <1>9, <2>1, <2>2 DEF SshTabInv, OneAttempt, Answers
<1>11. OneEnd'
  <2>1. \A i \in DOMAIN toTab' : toTab'[i].kind \in Event \cup {"failed", "aborted"} => sess'[toTab'[i].id] = "ended"
    BY <1>2, <1>3, <1>4, <1>6 DEF SshTabInv, OneEnd
  <2>2. \A i, j \in DOMAIN toTab' :
          toTab'[i].kind \in Event /\ toTab'[j].kind \in Event /\ toTab'[j].id = toTab'[i].id => i = j
    BY <1>2, <1>3, <1>6 DEF SshTabInv, OneEnd, EventOf, EndTold
  <2>3. ASSUME NEW i \in DOMAIN toTab', toTab'[i].kind = "ok", sess'[calls'] # "live"
        PROVE  \E j \in DOMAIN toTab' : j > i /\ toTab'[j].kind \in Event /\ toTab'[j].id = calls'
    <3>1. i \in DOMAIN toTab /\ toTab[i].kind = "ok" /\ i < Len(toTab) + 1 /\ i \in Nat
      BY <1>3, <1>9, <2>3 DEF Answer
    <3>2. CASE a = calls
      <4>1. Len(toTab) + 1 > i
        BY <1>3, <3>1
      <4>2. /\ Len(toTab) + 1 \in DOMAIN toTab' /\ toTab'[Len(toTab) + 1].kind \in Event
            /\ toTab'[Len(toTab) + 1].id = calls'
        BY <1>0, <1>2, <1>3, <3>2
      <4> QED BY <4>1, <4>2
    <3>3. CASE a # calls
      <4>1. PICK j \in DOMAIN toTab : j > i /\ EventOf(j, calls)
        BY <1>0, <1>4, <2>3, <3>1, <3>3 DEF SshTabInv, OneEnd
      <4> QED BY <1>0, <1>3, <4>1 DEF EventOf, EndTold
    <3> QED BY <3>2, <3>3
  <2> QED BY <2>1, <2>2, <2>3 DEF OneEnd, EventOf, EndTold
<1>12. RefIsOver'
  <2>1. ref # NoSession /\ (connecting \/ timer \/ status # "connected") => ref # a /\ ref \in Attempt
    BY DEF SshTabInv, RefIsOver, HookTypes
  <2>2. \A i \in DOMAIN toTab' : toTab'[i].id # a => i \in DOMAIN toTab /\ toTab'[i] = toTab[i]
    BY <1>2, <1>3
  <2> QED BY <1>0, <1>4, <2>1, <2>2 DEF SshTabInv, RefIsOver, EventOf, EndTold
<1>13. InProgress' <=> InProgress
  <2>1. Answered' <=> Answered
    BY <1>3, <1>9 DEF Answered, Answers
  <2>2. sess'[calls] \in {"none", "connecting"} <=> sess[calls] \in {"none", "connecting"}
    BY <1>0, <1>4
  <2> QED BY <1>0, <2>1, <2>2 DEF InProgress
<1>14. TabAgrees'
  <2>1. Alive /\ status = "connected" => ref # NoSession /\ (sess'[ref] = "live" \/ EndTold(toTab', ref))
    <3> SUFFICES ASSUME Alive, status = "connected" PROVE ref # NoSession /\ (sess'[ref] = "live" \/ EndTold(toTab', ref))
      OBVIOUS
    <3>1. ref # NoSession /\ (sess[ref] = "live" \/ EndTold(toTab, ref)) /\ ref \in Attempt
      BY DEF SshTabInv, TabAgrees, HookTypes
    <3>2. CASE ref = a
      <4>1. toTab'[Len(toTab) + 1].kind \in Event /\ toTab'[Len(toTab) + 1].id = ref /\ Len(toTab) + 1 \in DOMAIN toTab'
        BY <1>2, <1>3, <3>2
      <4> QED BY <3>1, <4>1 DEF EndTold
    <3>3. CASE ref # a /\ sess[ref] = "live"
      BY <1>4, <3>1, <3>3
    <3>4. CASE EndTold(toTab, ref)
      BY <1>3, <3>1, <3>4 DEF EventOf, EndTold
    <3> QED BY <3>1, <3>2, <3>3, <3>4
  <2> QED BY <1>0, <1>13, <2>1 DEF SshTabInv, TabAgrees, EventOf, EndTold, Alive
<1>15. SessionsAreHeld'
  BY <1>0, <1>3, <1>4 DEF SshTabInv, SessionsAreHeld
<1> QED BY <1>5, <1>10, <1>11, <1>12, <1>14, <1>15 DEF SshTabInv

\* The replies and events the tab hears
LEMMA TabHearing == ASSUME SshTabInv, TabHears PROVE SshTabInv'
<1> DEFINE m == Head(toTab)
<1>0. Travel /\ HookTypes /\ OneAttempt /\ OneEnd /\ RefIsOver /\ TabAgrees /\ SessionsAreHeld
  BY DEF SshTabInv
<1>1. toTab # <<>> /\ toTab' = Tail(toTab) /\ UNCHANGED sess
  BY DEF TabHears
<1>2. m = toTab[1] /\ 1 \in DOMAIN toTab /\ m \in TabMsg /\ m.id \in Attempt /\ m.kind \in Kinds
  <2>1. m = toTab[1] /\ 1 \in DOMAIN toTab /\ m \in TabMsg
    BY <1>0, <1>1, TailIs DEF Travel
  <2> QED BY <2>1 DEF TabMsg
<1> HIDE DEF m

\* An answer settles the attempt.
<1>3. ASSUME m.kind \in Answer, NEW ms, Tells(ms), toMain' = toMain \o ms, UNCHANGED calls
      PROVE  /\ Travel' /\ OneAttempt' /\ OneEnd' /\ m.id = calls /\ ~Answered' /\ ~InProgress' /\ InProgress
             /\ sess[calls] \in {"live", "ended"} /\ ~EventOf(1, calls) /\ ~EventOf(1, ref)
             /\ \A a : InFlight(toTab, "ok", a) => a = calls /\ m.kind = "ok"
  <2>1. m.id = calls /\ sess[calls] \in {"live", "ended"} /\ Answered /\ Answers(1)
    BY <1>0, <1>2, <1>3 DEF OneAttempt, Answers, Answered
  <2>2. Travel' /\ OneAttempt' /\ OneEnd' /\ ~Answered'
    BY <1>0, <1>1, <1>3, <2>1, TabHeard
  <2>3. m.kind \notin Event
    BY <1>3 DEF Answer, Event
  <2>4. \A a : InFlight(toTab, "ok", a) => a = calls /\ m.kind = "ok"
    <3> SUFFICES ASSUME NEW a, NEW i \in DOMAIN toTab, toTab[i] = Msg("ok", a) PROVE a = calls /\ m.kind = "ok"
      BY DEF InFlight
    <3>1. toTab[i].kind = "ok" /\ toTab[i].id = a
      BY DEF Msg
    <3>2. Answers(i)
      BY <3>1 DEF Answers, Answer
    <3>3. i = 1 /\ toTab[i].id = calls
      BY <1>0, <1>2, <2>1, <3>2 DEF OneAttempt
    <3> QED BY <1>2, <3>1, <3>3
  <2>5. ~InProgress' /\ InProgress
    BY <1>1, <1>3, <2>1, <2>2 DEF InProgress
  <2> QED BY <1>2, <2>1, <2>2, <2>3, <2>4, <2>5 DEF EventOf, EndTold
<1>4. CASE m.kind = "ok" /\ Resolved(m.id)
  <2>1. m.kind \in Answer /\ connecting' = FALSE /\ UNCHANGED <<userDisc, auto, timer, mount, calls>>
    BY <1>4 DEF Resolved, Answer
  <2>2. CASE ~Alive \/ userDisc
    <3>1. toMain' = toMain \o <<Msg("disconnect", m.id)>> /\ UNCHANGED <<ref, attempt, status>>
      BY <1>4, <2>2 DEF Resolved, Send
    <3>2. Tells(<<Msg("disconnect", m.id)>>)
      BY <1>2 DEF Tells, MainMsg, Msg
    <3> DEFINE ms == <<Msg("disconnect", m.id)>>
    <3>3. /\ Travel' /\ OneAttempt' /\ OneEnd' /\ m.id = calls /\ ~InProgress' /\ InProgress /\ ~EventOf(1, ref)
          /\ \A a : InFlight(toTab, "ok", a) => a = calls
      <4>1. Tells(ms) /\ toMain' = toMain \o ms
        BY <3>1, <3>2
      <4> HIDE DEF ms
      <4> QED BY <1>3, <2>1, <4>1
    <3>4. /\ \A k, a : InFlight(toMain, k, a) => InFlight(toMain', k, a)
          /\ InFlight(toMain', "disconnect", m.id)
      BY <1>0, <1>1, <2>1, <3>1, <3>2, Telling
    <3>5. \A a : EndTold(toTab, a) /\ ~EventOf(1, a) => EndTold(toTab', a)
      BY <1>0, <1>1, <2>1, <3>1, <3>2, TabHeard
    <3>6. \A a : (\A i \in DOMAIN toTab : i # 1 => ~EventOf(i, a)) => ~EndTold(toTab', a)
      BY <1>0, <1>1, <2>1, <3>1, <3>2, TabHeard
    <3>7. HookTypes'
      BY <1>0, <2>1, <3>1 DEF HookTypes
    <3>8. RefIsOver'
      <4>1. ref # NoSession /\ (timer \/ status # "connected") =>
              sess[ref] = "ended" /\ ~EndTold(toTab', ref)
        BY <1>0, <3>6 DEF RefIsOver, EventOf, EndTold
      <4> QED BY <1>1, <2>1, <3>1, <4>1 DEF RefIsOver, EventOf, EndTold
    <3>9. TabAgrees'
      <4>1. ~timer
        BY <1>0, <3>3 DEF TabAgrees
      <4>2. Alive /\ status = "connecting" => FALSE
        BY <1>0, <2>2 DEF TabAgrees
      <4>3. Alive /\ status = "connected" => FALSE
        BY <1>0, <2>2 DEF TabAgrees
      <4> QED BY <1>0, <1>1, <2>1, <3>1, <3>3, <4>1, <4>2, <4>3 DEF TabAgrees, Alive
    <3>10. SessionsAreHeld'
      BY <1>0, <1>1, <2>1, <3>1, <3>3, <3>4 DEF SessionsAreHeld
    <3> QED BY <3>3, <3>7, <3>8, <3>9, <3>10 DEF SshTabInv
  <2>3. CASE ~(~Alive \/ userDisc)
    <3>1. ref' = m.id /\ attempt' = 0 /\ status' = "connected" /\ toMain' = toMain \o <<>> /\ UNCHANGED toMain /\ Tells(<<>>)
      BY <1>0, <1>4, <2>3, AppendIs DEF Resolved, Tells, Travel
    <3>3. /\ Travel' /\ OneAttempt' /\ OneEnd' /\ m.id = calls /\ ~InProgress' /\ InProgress /\ ~EventOf(1, calls)
          /\ sess[calls] \in {"live", "ended"}
          /\ \A a : InFlight(toTab, "ok", a) => a = calls
      BY <1>3, <2>1, <3>1
    <3>5. \A a : EndTold(toTab, a) /\ ~EventOf(1, a) => EndTold(toTab', a)
      BY <1>0, <1>1, <2>1, <3>1, TabHeard
    <3>4. connecting /\ ~timer /\ (ref = NoSession \/ sess[ref] = "ended")
      BY <1>0, <2>3, <3>3 DEF TabAgrees, RefIsOver
    <3>7. HookTypes'
      BY <1>0, <1>2, <2>1, <3>1 DEF HookTypes
    <3>8. RefIsOver'
      BY <2>1, <3>1, <3>4 DEF RefIsOver
    <3>9. TabAgrees'
      <4>1. sess[calls] = "live" \/ EndTold(toTab', calls)
        <5>1. sess[calls] # "live" => EndTold(toTab, calls)
          BY <1>0, <1>2, <1>4 DEF OneEnd, EventOf, EndTold
        <5> QED BY <3>3, <3>5, <5>1
      <4>2. calls # NoSession
        BY <1>0 DEF Travel, Attempt, NoSession
      <4> QED BY <1>1, <2>1, <2>3, <3>1, <3>3, <3>4, <4>1, <4>2 DEF TabAgrees, Alive, EventOf, EndTold
    <3>10. SessionsAreHeld'
      <4> SUFFICES ASSUME NEW a \in Attempt, sess[a] = "live"
                   PROVE  (ref' = a /\ mount' # "gone") \/ InFlight(toTab', "ok", a) \/ InFlight(toMain', "disconnect", a)
        BY <1>1 DEF SessionsAreHeld
      <4>1. (ref = a /\ mount # "gone") \/ InFlight(toTab, "ok", a) \/ InFlight(toMain, "disconnect", a)
        BY <1>0 DEF SessionsAreHeld
      <4>2. CASE ref = a
        BY <3>4, <4>2 DEF Travel, NoSession, Attempt
      <4>3. CASE InFlight(toTab, "ok", a)
        BY <2>1, <2>3, <3>1, <3>3, <4>3 DEF Alive
      <4>4. CASE InFlight(toMain, "disconnect", a)
        BY <3>1, <4>4
      <4> QED BY <4>1, <4>2, <4>3, <4>4
    <3> QED BY <3>3, <3>7, <3>8, <3>9, <3>10 DEF SshTabInv
  <2> QED BY <2>2, <2>3
<1>5. CASE m.kind \in {"failed", "aborted"} /\ Rejected(m.kind)
  <2>1. m.kind \in Answer /\ connecting' = FALSE /\ UNCHANGED <<ref, userDisc, auto, attempt, timer, mount, calls, toMain>>
        /\ (IF ~Alive THEN status' = status ELSE status' \in {"disconnected", "error"})
    BY <1>5 DEF Rejected, Answer
  <2>2. toMain' = toMain \o <<>> /\ Tells(<<>>)
    BY <1>0, <2>1, AppendIs DEF Tells, Travel
  <2>3. /\ Travel' /\ OneAttempt' /\ OneEnd' /\ m.id = calls /\ ~InProgress' /\ InProgress /\ ~EventOf(1, ref)
        /\ \A a : ~InFlight(toTab, "ok", a)
    BY <1>3, <1>5, <2>1, <2>2
  <2>5. \A a : EndTold(toTab, a) /\ ~EventOf(1, a) => EndTold(toTab', a)
    BY <1>0, <1>1, <2>1, <2>2, TabHeard
  <2>6. \A a : (\A i \in DOMAIN toTab : i # 1 => ~EventOf(i, a)) => ~EndTold(toTab', a)
    BY <1>0, <1>1, <2>1, <2>2, TabHeard
  <2>7. HookTypes'
    BY <1>0, <2>1 DEF HookTypes
  <2>8. RefIsOver'
    <3>1. ref # NoSession => connecting
      BY <1>0, <2>3 DEF TabAgrees
    <3>2. ref # NoSession => sess[ref] = "ended" /\ ~EndTold(toTab', ref)
      BY <1>0, <2>6, <3>1 DEF RefIsOver, EventOf, EndTold
    <3> QED BY <1>1, <2>1, <3>2 DEF RefIsOver, EventOf, EndTold
  <2>9. TabAgrees'
    <3>1. ~timer
      BY <1>0, <2>3 DEF TabAgrees
    <3>2. (Alive /\ status = "connected")' => FALSE
      BY <2>1 DEF Alive
    <3>3. (Alive /\ status = "connecting")' => FALSE
      BY <2>1 DEF Alive
    <3>4. status' = "connected" => attempt = 0
      BY <1>0, <2>1 DEF TabAgrees
    <3> QED BY <1>0, <1>1, <2>1, <2>3, <3>1, <3>2, <3>3, <3>4 DEF TabAgrees, Alive
  <2>10. SessionsAreHeld'
    BY <1>0, <1>1, <2>1, <2>3 DEF SessionsAreHeld
  <2> QED BY <2>3, <2>7, <2>8, <2>9, <2>10 DEF SshTabInv
<1>6. CASE m.kind \in Event /\ SessionEvent(m)
  <2>1. UNCHANGED <<ref, connecting, userDisc, auto, mount, calls, toMain>>
    BY <1>6 DEF SessionEvent
  <2>2. toMain' = toMain \o <<>> /\ Tells(<<>>)
    BY <1>0, <2>1, AppendIs DEF Tells, Travel
  <2>3. /\ Travel' /\ OneAttempt' /\ OneEnd' /\ (Answered' <=> Answered)
        /\ \A a : InFlight(toTab, "ok", a) => InFlight(toTab', "ok", a)
    <3>1. ~Answers(1) /\ \A a : m # Msg("ok", a)
      BY <1>2, <1>6 DEF Answers, Answer, Event, Msg
    <3> QED BY <1>0, <1>1, <2>1, <2>2, <3>1, TabHeard DEF m
  <2>4. InProgress' <=> InProgress
    BY <1>1, <2>1, <2>3 DEF InProgress
  <2>5. \A a : EndTold(toTab, a) /\ ~EventOf(1, a) => EndTold(toTab', a)
    BY <1>0, <1>1, <2>1, <2>2, TabHeard
  <2>6. \A a : (\A i \in DOMAIN toTab : i # 1 => ~EventOf(i, a)) => ~EndTold(toTab', a)
    BY <1>0, <1>1, <2>1, <2>2, TabHeard
  <2>10. SessionsAreHeld'
    BY <1>0, <1>1, <2>1, <2>3 DEF SessionsAreHeld
  <2>11. CASE ~Alive \/ m.id # ref
    <3>1. UNCHANGED <<status, timer, attempt>>
      BY <1>6, <2>11 DEF SessionEvent
    <3>2. HookTypes'
      BY <1>0, <2>1, <3>1 DEF HookTypes
    <3>3. RefIsOver'
      <4>1. ref # NoSession /\ (connecting \/ timer \/ status # "connected") =>
              sess[ref] = "ended" /\ ~EndTold(toTab', ref)
        BY <1>0, <2>6 DEF RefIsOver, EventOf, EndTold
      <4> QED BY <1>1, <2>1, <3>1, <4>1 DEF RefIsOver, EventOf, EndTold
    <3>4. TabAgrees'
      <4>1. Alive /\ status = "connected" => ref # NoSession /\ (sess[ref] = "live" \/ EndTold(toTab', ref))
        BY <1>0, <1>2, <2>5, <2>11 DEF TabAgrees, EventOf, EndTold
      <4> QED BY <1>0, <1>1, <2>1, <2>4, <3>1, <4>1 DEF TabAgrees, Alive, EventOf, EndTold
    <3> QED BY <2>3, <2>10, <3>2, <3>3, <3>4 DEF SshTabInv
  <2>12. CASE Alive /\ m.id = ref
    <3>1. EventOf(1, ref) /\ ref # NoSession
      BY <1>2, <1>6, <2>12 DEF EventOf, EndTold, NoSession, Attempt
    <3>2. ~connecting /\ ~timer /\ status = "connected" /\ ~userDisc /\ ~InProgress /\ attempt = 0
      BY <1>0, <1>2, <3>1 DEF RefIsOver, TabAgrees, EventOf, EndTold
    <3>3. sess[ref] = "ended" /\ ~EndTold(toTab', ref)
      <4>1. \A i \in DOMAIN toTab : i # 1 => ~EventOf(i, ref)
        BY <1>0, <1>2, <3>1 DEF OneEnd, EventOf, EndTold
      <4> QED BY <1>0, <1>2, <1>6, <2>6, <2>12, <4>1 DEF OneEnd
    <3>4. /\ status' \in {"disconnected", "error"}
          /\ (timer' = TRUE /\ attempt' = 1 /\ auto) \/ UNCHANGED <<timer, attempt>>
      BY <1>6, <2>12, <3>2 DEF SessionEvent, scheduleReconnect
    <3>5. HookTypes'
      BY <1>0, <2>1, <3>4 DEF HookTypes
    <3>6. RefIsOver'
      BY <1>1, <2>1, <3>3 DEF RefIsOver, EventOf, EndTold
    <3>7. TabAgrees'
      BY <1>1, <2>1, <2>4, <3>2, <3>4 DEF TabAgrees, Alive
    <3> QED BY <2>3, <2>10, <3>5, <3>6, <3>7 DEF SshTabInv
  <2> QED BY <2>11, <2>12
<1> QED BY <1>4, <1>5, <1>6 DEF TabHears, m, Event

LEMMA MainHearing == ASSUME SshTabInv, MainHears PROVE SshTabInv'
<1> DEFINE m == Head(toMain)
<1>0. Travel /\ HookTypes /\ OneAttempt /\ OneEnd /\ RefIsOver /\ TabAgrees /\ SessionsAreHeld
  BY DEF SshTabInv
<1>1. toMain # <<>> /\ toMain' = Tail(toMain) /\ UNCHANGED tab
      /\ UNCHANGED <<ref, connecting, userDisc, auto, attempt, timer, mount, status, calls>>
  BY DEF MainHears, tab
<1>2. /\ toMain' \in Seq(MainMsg) /\ m \in MainMsg
      /\ m.kind = "connect" => m.id = calls /\ sess[calls] = "none"
      /\ \A i \in DOMAIN toMain' : toMain'[i].kind = "connect" => toMain'[i].id = calls /\ sess[calls] = "none" /\ m.kind # "connect"
      /\ \A i, j \in DOMAIN toMain' : toMain'[i].kind = "connect" /\ toMain'[j].kind = "connect" => i = j
      /\ sess[calls] = "none" /\ m.kind # "connect" => \E i \in DOMAIN toMain' : toMain'[i].kind = "connect"
      /\ \A k, a : InFlight(toMain, k, a) /\ m # Msg(k, a) => InFlight(toMain', k, a)
  BY <1>0, <1>1, MainHeard
<1> HIDE DEF m

\* Nothing but the queue changes.
<1>3. ASSUME m.kind # "connect", \A a \in Attempt : sess[a] = "live" => m # Msg("disconnect", a), UNCHANGED <<sess, toTab>>
      PROVE  SshTabInv'
  <2>1. Travel' /\ HookTypes'
    BY <1>0, <1>1, <1>2, <1>3 DEF Travel, HookTypes
  <2>2. OneAttempt'
    BY <1>0, <1>1, <1>2, <1>3 DEF OneAttempt, Answers
  <2>3. OneEnd' /\ RefIsOver'
    BY <1>0, <1>1, <1>3 DEF OneEnd, RefIsOver, EventOf, EndTold
  <2>4. InProgress' <=> InProgress
    BY <1>1, <1>3 DEF InProgress, Answered, Answers
  <2>5. TabAgrees'
    BY <1>0, <1>1, <1>3, <2>4 DEF TabAgrees, Alive, EventOf, EndTold
  <2>6. SessionsAreHeld'
    BY <1>0, <1>1, <1>2, <1>3 DEF SessionsAreHeld
  <2> QED BY <2>1, <2>2, <2>3, <2>5, <2>6 DEF SshTabInv
<1>4. CASE m.kind = "connect" /\ sess' = [sess EXCEPT ![m.id] = "connecting"] /\ UNCHANGED toTab
  <2>1. m.id = calls /\ sess[calls] = "none" /\ calls \in Attempt
    BY <1>0, <1>2, <1>4 DEF Travel
  <2>2. /\ sess' \in [Attempt -> {"none", "connecting", "live", "ended"}] /\ sess'[calls] = "connecting"
        /\ \A b \in Attempt : b # calls => sess'[b] = sess[b]
    BY <1>0, <1>4, <2>1 DEF Travel
  <2>3. Travel' /\ HookTypes'
    BY <1>0, <1>1, <1>2, <1>4, <2>2 DEF Travel, HookTypes
  <2>4. \A i \in DOMAIN toTab : ~Answers(i)
    BY <1>0, <2>1 DEF OneAttempt
  <2>5. OneAttempt'
    <3>1. \A b \in Attempt : (b > calls => b # calls) /\ (b < calls => b # calls)
      BY <2>1 DEF Attempt
    <3>2. \A b \in Attempt : (b > calls' => sess'[b] = "none") /\ (b < calls' => sess'[b] \in {"live", "ended"})
      BY <1>0, <1>1, <2>2, <3>1 DEF OneAttempt
    <3>3. \A i \in DOMAIN toMain' : toMain'[i].kind # "connect"
      BY <1>2, <1>4
    <3> QED BY <1>1, <1>4, <2>2, <2>4, <3>2, <3>3 DEF OneAttempt, Answers
  <2>6. OneEnd'
    <3>1. \A i \in DOMAIN toTab : toTab[i] \in TabMsg
      BY <1>0 DEF Travel
    <3>2. \A i \in DOMAIN toTab : sess[toTab[i].id] = "ended" => sess'[toTab[i].id] = "ended"
      BY <2>1, <2>2, <3>1 DEF TabMsg
    <3> QED BY <1>0, <1>1, <1>4, <2>4, <3>2 DEF OneEnd, EventOf, EndTold, Answers, Answer
  <2>7. RefIsOver'
    BY <1>0, <1>1, <1>4, <2>1, <2>2 DEF RefIsOver, HookTypes, EventOf, EndTold
  <2>8. InProgress' /\ InProgress
    BY <1>1, <2>1, <2>2 DEF InProgress
  <2>9. TabAgrees'
    <3>1. Alive /\ status = "connected" /\ sess[ref] = "live" => sess'[ref] = "live"
      BY <1>0, <2>1, <2>2 DEF TabAgrees, HookTypes
    <3> QED BY <1>0, <1>1, <1>4, <2>8, <3>1 DEF TabAgrees, Alive, EventOf, EndTold
  <2>10. SessionsAreHeld'
    <3>1. \A a : m # Msg("disconnect", a)
      BY <1>4 DEF Msg
    <3> QED BY <1>0, <1>1, <1>2, <1>4, <2>2, <3>1 DEF SessionsAreHeld
  <2> QED BY <2>3, <2>5, <2>6, <2>7, <2>9, <2>10 DEF SshTabInv
<1>5. CASE m.kind = "abort" /\ MainAborts
  <2>1. PICK S \in SUBSET {a \in Attempt : sess[a] = "connecting"} :
          sess' = [a \in Attempt |-> IF a \in S THEN "ended" ELSE sess[a]] /\ toTab' = toTab \o Aborted(S)
    BY <1>5 DEF MainAborts, Reply
  <2>2. Aborted(S) \in Seq(TabMsg) /\ Elems(Aborted(S)) = {Msg("aborted", a) : a \in S} /\ Once(Aborted(S))
    BY <2>1, AbortedIs
  <2>3. m.kind # "connect" /\ \A a : m # Msg("disconnect", a)
    BY <1>5 DEF Msg
  <2>4. CASE S = {}
    <3>1. Elems(Aborted(S)) = {}
      BY <2>2, <2>4
    <3>2. Aborted(S) = <<>>
      BY <2>2, <3>1, OfNone
    <3>3. toTab' = toTab /\ sess' = sess
      BY <1>0, <2>1, <2>4, <3>2 DEF Travel
    <3> QED BY <1>3, <2>3, <3>3
  <2>5. CASE S # {}
    <3>1. PICK a \in S : TRUE
      BY <2>5
    <3>2. \A b \in Attempt : sess[b] = "connecting" => b = calls
      BY <1>0 DEF OneAttempt, Travel, Attempt
    <3>3. S = {a} /\ a \in Attempt /\ sess[a] = "connecting" /\ a = calls
      BY <2>1, <3>1, <3>2
    <3>4. Aborted(S) = <<Msg("aborted", a)>>
      <4>1. Elems(Aborted(S)) = {Msg("aborted", a)}
        BY <2>2, <3>3
      <4> QED BY <2>2, <4>1, OfOne
    <3>5. sess' = [sess EXCEPT ![a] = "ended"]
      BY <1>0, <2>1, <3>3 DEF Travel
    <3>6. \A i \in DOMAIN toMain' : toMain'[i].kind # "connect"
      BY <1>2, <3>3
    <3>7. \A b \in Attempt : InFlight(toMain, "disconnect", b) => InFlight(toMain', "disconnect", b)
      BY <1>2, <2>3
    <3> DEFINE k == "aborted"
    <3>8. k \in Answer /\ toTab' = toTab \o <<Msg(k, a)>> /\ sess' = [sess EXCEPT ![a] = IF k = "ok" THEN "live" ELSE "ended"]
      BY <2>1, <3>4, <3>5 DEF Answer
    <3> HIDE DEF k
    <3> QED BY <1>1, <1>2, <3>3, <3>6, <3>7, <3>8, Settles
  <2> QED BY <2>4, <2>5
<1>6. CASE m.kind = "disconnect" /\ sess[m.id] = "live" /\ sess' = [sess EXCEPT ![m.id] = "ended"]
           /\ Reply(<<Msg("disconnected", m.id)>>)
  <2>1. m.id \in Attempt /\ m.kind # "connect" /\ m = Msg("disconnect", m.id)
    BY <1>2, <1>6 DEF MainMsg, Msg
  <2>2. \A b \in Attempt \ {m.id} : InFlight(toMain, "disconnect", b) => InFlight(toMain', "disconnect", b)
    <3>1. \A b : b # m.id => m # Msg("disconnect", b)
      BY <2>1 DEF Msg
    <3> QED BY <1>2, <3>1
  <2>3. "disconnected" \in Event /\ toTab' = toTab \o <<Msg("disconnected", m.id)>>
    BY <1>6 DEF Reply, Event
  <2> QED BY <1>1, <1>2, <1>6, <2>1, <2>2, <2>3, Ends
<1>7. CASE m.kind = "disconnect" /\ sess[m.id] # "live" /\ UNCHANGED <<sess, toTab>>
  <2>1. \A a \in Attempt : sess[a] = "live" => m # Msg("disconnect", a)
    BY <1>7 DEF Msg
  <2> QED BY <1>3, <1>7, <2>1
<1> QED BY <1>4, <1>5, <1>6, <1>7 DEF MainHears, m

\* An attempt on its way is one main has to settle, or its answer.
LEMMA ProgressIsPending == ASSUME SshTabInv PROVE InProgress <=> \E a \in Attempt : Pending(a)
<1>0. Travel /\ OneAttempt
  BY DEF SshTabInv
<1>1. calls \in Attempt
  BY <1>0 DEF Travel
<1>2. \A i \in DOMAIN toMain : toMain[i].kind = "connect" => toMain[i] = Msg("connect", calls)
  BY <1>0 DEF Travel, OneAttempt, MainMsg, Msg
<1>3. \A i \in DOMAIN toTab : toTab[i] \in TabMsg
  BY <1>0 DEF Travel
<1>4. \A i \in DOMAIN toTab : Answers(i) => toTab[i] = Msg(toTab[i].kind, calls)
  BY <1>0, <1>3 DEF OneAttempt, TabMsg, Msg
<1>5. ASSUME InProgress PROVE Pending(calls)
  <2>1. CASE sess[calls] = "none"
    <3>1. PICK i \in DOMAIN toMain : toMain[i].kind = "connect"
      BY <1>0, <2>1 DEF OneAttempt
    <3> QED BY <1>2, <3>1 DEF Pending, InFlight
  <2>2. CASE sess[calls] = "connecting"
    BY <2>2 DEF Pending
  <2>3. CASE Answered
    <3>1. PICK i \in DOMAIN toTab : Answers(i)
      BY <2>3 DEF Answered
    <3>2. toTab[i] = Msg(toTab[i].kind, calls) /\ toTab[i].kind \in {"ok", "failed", "aborted"}
      BY <1>4, <3>1 DEF Answers, Answer
    <3> QED BY <3>2 DEF Pending, InFlight
  <2> QED BY <1>5, <2>1, <2>2, <2>3 DEF InProgress
<1>6. ASSUME NEW a \in Attempt, Pending(a) PROVE InProgress
  <2>1. CASE InFlight(toMain, "connect", a)
    <3>1. PICK i \in DOMAIN toMain : toMain[i] = Msg("connect", a)
      BY <2>1 DEF InFlight
    <3> QED BY <1>0, <3>1 DEF OneAttempt, InProgress, Msg
  <2>2. CASE sess[a] = "connecting"
    <3>1. a = calls
      BY <1>0, <1>1, <2>2 DEF OneAttempt, Attempt
    <3> QED BY <2>2, <3>1 DEF InProgress
  <2>3. CASE \E k \in {"ok", "failed", "aborted"} : InFlight(toTab, k, a)
    <3>1. PICK i \in DOMAIN toTab : toTab[i].kind \in {"ok", "failed", "aborted"}
      BY <2>3 DEF InFlight, Msg
    <3> QED BY <3>1 DEF InProgress, Answered, Answers, Answer
  <2> QED BY <1>6, <2>1, <2>2, <2>3 DEF Pending
<1> QED BY <1>1, <1>5, <1>6

LEMMA InitSshTab == Init => SshTabInv
<1> SUFFICES ASSUME Init PROVE SshTabInv
  OBVIOUS
<1>0. MaxConnects \in Nat /\ 1 \in Attempt /\ \A a \in Attempt : a \in Nat /\ ~(a < 1)
  BY TabAssumption DEF TabAssumption, Attempt
<1>1. /\ toMain = <<Msg("connect", 1)>> /\ toTab = <<>> /\ calls = 1 /\ sess = [a \in Attempt |-> "none"]
      /\ Msg("connect", 1) \in MainMsg
  BY <1>0 DEF Init, MainMsg, Msg
<1>2. DOMAIN toMain = {1} /\ toMain[1].kind = "connect" /\ toMain[1].id = 1 /\ DOMAIN toTab = {}
  BY <1>1 DEF Msg
<1>3. Travel /\ HookTypes
  <2>1. toMain \in Seq(MainMsg) /\ toTab \in Seq(TabMsg)
    BY <1>1
  <2> QED BY <1>0, <1>1, <2>1 DEF Travel, HookTypes, Init, NoSession
<1>4. OneAttempt
  BY <1>0, <1>1, <1>2 DEF OneAttempt
<1>5. OneEnd /\ RefIsOver
  BY <1>1, <1>2 DEF OneEnd, RefIsOver, Init, NoSession
<1>6. TabAgrees
  BY <1>0, <1>1 DEF TabAgrees, InProgress, Init, NoSession, Alive
<1>7. SessionsAreHeld
  BY <1>1 DEF SessionsAreHeld
<1> QED BY <1>3, <1>4, <1>5, <1>6, <1>7 DEF SshTabInv

\* What the hook tells main that is no connect changes nothing on its way.
LEMMA HookKeeps ==
  ASSUME SshTabInv, NEW ms, Tells(ms), toMain' = toMain \o ms, UNCHANGED <<calls, sess, toTab>>, HookTypes'
  PROVE  /\ Travel' /\ OneAttempt' /\ OneEnd' /\ (InProgress' <=> InProgress)
         /\ \A k, a : InFlight(toMain, k, a) => InFlight(toMain', k, a)
         /\ \A a : ms = <<Msg("disconnect", a)>> => InFlight(toMain', "disconnect", a)
         /\ \A a : EndTold(toTab', a) <=> EndTold(toTab, a)
         /\ \A k, a : InFlight(toTab', k, a) <=> InFlight(toTab, k, a)
<1>1. Travel /\ OneAttempt /\ OneEnd
  BY DEF SshTabInv
<1>2. OneAttempt' /\ OneEnd' /\ (InProgress' <=> InProgress)
  BY <1>1, HookTells
<1>3. /\ toMain' \in Seq(MainMsg)
      /\ \A k, a : InFlight(toMain, k, a) => InFlight(toMain', k, a)
      /\ \A a : ms = <<Msg("disconnect", a)>> => InFlight(toMain', "disconnect", a)
  BY <1>1, Telling
<1> QED BY <1>1, <1>2, <1>3 DEF Travel, EndTold, InFlight

\* The retry timer, or Reconnect, calls connect().
LEMMA ConnectsAnew ==
  ASSUME SshTabInv, ~InProgress, connect(<<>>), timer' = FALSE, attempt' \in {0, attempt},
         status # "connected" \/ ref = NoSession \/ timer,
         UNCHANGED <<ref, auto, mount, sess, toTab>>
  PROVE  SshTabInv'
<1>0. Travel /\ HookTypes /\ OneAttempt /\ OneEnd /\ RefIsOver /\ TabAgrees /\ SessionsAreHeld
  BY DEF SshTabInv
<1>1. ~connecting
  BY <1>0 DEF TabAgrees
<1>2. CASE ~Alive
  <2>1. toMain' = toMain \o <<>> /\ UNCHANGED <<connecting, userDisc, status, calls>> /\ Tells(<<>>)
    BY <1>2 DEF connect, Send, Tells
  <2>2. HookTypes'
    BY <1>0, <2>1 DEF HookTypes
  <2>3. /\ Travel' /\ OneAttempt' /\ OneEnd' /\ (InProgress' <=> InProgress)
        /\ \A k, a : InFlight(toMain, k, a) => InFlight(toMain', k, a)
        /\ \A a : EndTold(toTab', a) <=> EndTold(toTab, a)
        /\ \A k, a : InFlight(toTab', k, a) <=> InFlight(toTab, k, a)
    BY <2>1, <2>2, HookKeeps
  <2>4. RefIsOver'
    BY <1>0, <2>1, <2>3 DEF RefIsOver
  <2>5. TabAgrees'
    BY <1>0, <1>2, <2>1, <2>3 DEF TabAgrees, Alive
  <2>6. SessionsAreHeld'
    BY <1>0, <2>1, <2>3 DEF SessionsAreHeld
  <2> QED BY <2>2, <2>3, <2>4, <2>5, <2>6 DEF SshTabInv
<1>3. CASE Alive
  <2>1. /\ calls < MaxConnects /\ calls' = calls + 1
        /\ connecting' = TRUE /\ userDisc' = FALSE /\ status' = "connecting"
        /\ toMain' = toMain \o (<<>> \o <<Msg("connect", calls + 1)>>)
    BY <1>1, <1>3 DEF connect, Send
  <2>2. toMain' = toMain \o <<Msg("connect", calls + 1)>>
    BY <2>1
  <2>3. /\ Travel' /\ OneAttempt' /\ OneEnd' /\ InProgress'
        /\ \A k, a : InFlight(toMain, k, a) => InFlight(toMain', k, a)
    BY <1>0, <2>1, <2>2, Connects
  <2>4. HookTypes'
    BY <1>0, <2>1 DEF HookTypes
  <2>5. RefIsOver'
    BY <1>0, <2>1 DEF RefIsOver, EndTold
  <2>6. TabAgrees'
    BY <1>0, <1>3, <2>1, <2>3 DEF TabAgrees, Alive
  <2>7. SessionsAreHeld'
    BY <1>0, <2>1, <2>3 DEF SessionsAreHeld, InFlight
  <2> QED BY <2>3, <2>4, <2>5, <2>6, <2>7 DEF SshTabInv
<1> QED BY <1>2, <1>3

LEMMA Reconnecting == ASSUME ~Hasty, SshTabInv, Reconnect PROVE SshTabInv'
<1>1. ~InProgress
  BY ProgressIsPending DEF Reconnect
<1>2. timer' = FALSE /\ attempt' = 0 /\ connect(<<>>) /\ status # "connected" /\ UNCHANGED <<ref, auto, mount, sess, toTab>>
  BY DEF Reconnect
<1> QED BY <1>1, <1>2, ConnectsAnew

LEMMA Retries == ASSUME SshTabInv, TimerFires PROVE SshTabInv'
<1>1. ~InProgress /\ timer
  BY DEF TimerFires, SshTabInv, TabAgrees
<1>2. timer' = FALSE /\ attempt' = attempt /\ connect(<<>>) /\ UNCHANGED <<ref, auto, mount, sess, toTab>>
  BY DEF TimerFires
<1> QED BY <1>1, <1>2, ConnectsAnew

LEMMA Aborting == ASSUME SshTabInv, AbortConnect PROVE SshTabInv'
<1> DEFINE ms == <<Msg("abort", NoSession)>>
<1>0. Travel /\ HookTypes /\ OneAttempt /\ OneEnd /\ RefIsOver /\ TabAgrees /\ SessionsAreHeld
  BY DEF SshTabInv
<1>1. /\ Alive /\ status = "connecting" /\ userDisc' = TRUE /\ timer' = FALSE /\ connecting' = FALSE
      /\ ref' = NoSession /\ status' = "disconnected" /\ UNCHANGED <<auto, attempt, mount, calls, sess, toTab>>
      /\ toMain' = toMain \o ms
  BY DEF AbortConnect, Send
<1>2. Tells(ms)
  BY DEF Tells, MainMsg, Msg
<1> HIDE DEF ms
<1>3. HookTypes'
  BY <1>0, <1>1 DEF HookTypes
<1>4. /\ Travel' /\ OneAttempt' /\ OneEnd' /\ (InProgress' <=> InProgress)
      /\ \A k, a : InFlight(toMain, k, a) => InFlight(toMain', k, a)
      /\ \A k, a : InFlight(toTab', k, a) <=> InFlight(toTab, k, a)
  BY <1>1, <1>2, <1>3, HookKeeps
<1>5. RefIsOver'
  BY <1>1 DEF RefIsOver
<1>6. TabAgrees'
  BY <1>0, <1>1, <1>4 DEF TabAgrees, Alive
<1>7. SessionsAreHeld'
  \* What it refers to while it connects is over.
  <2>1. ref # NoSession => sess[ref] = "ended"
    BY <1>0, <1>1 DEF RefIsOver, TabAgrees
  <2>2. \A a \in Attempt : sess[a] = "live" => ref # a
    BY <2>1 DEF Attempt, NoSession
  <2> QED BY <1>0, <1>1, <1>4, <2>2 DEF SessionsAreHeld
<1> QED BY <1>3, <1>4, <1>5, <1>6, <1>7 DEF SshTabInv

LEMMA Disconnecting == ASSUME SshTabInv, Disconnect PROVE SshTabInv'
<1>0. Travel /\ HookTypes /\ OneAttempt /\ OneEnd /\ RefIsOver /\ TabAgrees /\ SessionsAreHeld
  BY DEF SshTabInv
<1> DEFINE ms == <<Msg("disconnect", ref)>>
<1>1. /\ Alive /\ status = "connected" /\ userDisc' = TRUE /\ timer' = FALSE /\ ref' = NoSession
      /\ status' = "disconnected" /\ UNCHANGED <<auto, attempt, mount, calls, sess, toTab>>
  BY DEF Disconnect
<1>2. ref # NoSession /\ ref \in Attempt
  BY <1>0, <1>1 DEF TabAgrees, HookTypes
<1>3. toMain' = toMain \o ms /\ UNCHANGED connecting
  BY <1>2 DEF Disconnect, Send
<1>4. Tells(ms)
  BY <1>2 DEF Tells, MainMsg, Msg
<1>5. HookTypes'
  BY <1>0, <1>1, <1>3 DEF HookTypes
<1>6. /\ Travel' /\ OneAttempt' /\ OneEnd' /\ (InProgress' <=> InProgress)
      /\ \A k, a : InFlight(toMain, k, a) => InFlight(toMain', k, a)
      /\ InFlight(toMain', "disconnect", ref)
      /\ \A k, a : InFlight(toTab', k, a) <=> InFlight(toTab, k, a)
  <2> DEFINE gone(a) == ms = <<Msg("disconnect", a)>>
  <2>1. gone(ref)
    OBVIOUS
  <2> HIDE DEF ms
  <2>2. /\ Travel' /\ OneAttempt' /\ OneEnd' /\ (InProgress' <=> InProgress)
        /\ \A k, a : InFlight(toMain, k, a) => InFlight(toMain', k, a)
        /\ \A a : gone(a) => InFlight(toMain', "disconnect", a)
        /\ \A k, a : InFlight(toTab', k, a) <=> InFlight(toTab, k, a)
    BY <1>1, <1>3, <1>4, <1>5, HookKeeps
  <2> HIDE DEF gone
  <2> QED BY <2>1, <2>2
<1>7. RefIsOver'
  BY <1>1 DEF RefIsOver
<1>8. TabAgrees'
  BY <1>0, <1>1, <1>3, <1>6 DEF TabAgrees, Alive
<1>9. SessionsAreHeld'
  BY <1>0, <1>1, <1>6 DEF SessionsAreHeld
<1> QED BY <1>5, <1>6, <1>7, <1>8, <1>9 DEF SshTabInv

LEMMA Cleaning == ASSUME SshTabInv, Cleanup PROVE SshTabInv'
<1>0. Travel /\ HookTypes /\ OneAttempt /\ OneEnd /\ RefIsOver /\ TabAgrees /\ SessionsAreHeld
  BY DEF SshTabInv
<1> DEFINE ms == IF ref # NoSession THEN <<Msg("disconnect", ref)>> ELSE <<>>
<1>1. /\ mount' = "gone" /\ userDisc' = TRUE /\ timer' = FALSE /\ ref' = NoSession /\ status' = "cleared"
      /\ UNCHANGED <<connecting, auto, attempt, calls, sess, toTab>> /\ toMain' = toMain \o ms
  BY DEF Cleanup, Send
<1>2. ref # NoSession => ref \in Attempt
  BY <1>0 DEF HookTypes
<1>3. Tells(ms)
  BY <1>2 DEF Tells, MainMsg, Msg
<1>4. HookTypes'
  BY <1>0, <1>1 DEF HookTypes
<1>5. /\ Travel' /\ OneAttempt' /\ OneEnd' /\ (InProgress' <=> InProgress)
      /\ \A k, a : InFlight(toMain, k, a) => InFlight(toMain', k, a)
      /\ ref # NoSession => InFlight(toMain', "disconnect", ref)
      /\ \A k, a : InFlight(toTab', k, a) <=> InFlight(toTab, k, a)
  <2> DEFINE gone(a) == ms = <<Msg("disconnect", a)>>
  <2>1. ref # NoSession => gone(ref)
    OBVIOUS
  <2> HIDE DEF ms
  <2>2. /\ Travel' /\ OneAttempt' /\ OneEnd' /\ (InProgress' <=> InProgress)
        /\ \A k, a : InFlight(toMain, k, a) => InFlight(toMain', k, a)
        /\ \A a : gone(a) => InFlight(toMain', "disconnect", a)
        /\ \A k, a : InFlight(toTab', k, a) <=> InFlight(toTab, k, a)
    BY <1>1, <1>3, <1>4, HookKeeps
  <2> HIDE DEF gone
  <2> QED BY <2>1, <2>2
<1>7. RefIsOver'
  BY <1>1 DEF RefIsOver
<1>8. TabAgrees'
  BY <1>0, <1>1, <1>5 DEF TabAgrees, Alive
<1>9. SessionsAreHeld'
  <2>1. \A a \in Attempt : a # NoSession
    BY DEF Attempt, NoSession
  <2> QED BY <1>0, <1>1, <1>5, <2>1 DEF SessionsAreHeld
<1> QED BY <1>4, <1>5, <1>7, <1>8, <1>9 DEF SshTabInv

LEMMA Quietly ==
  ASSUME SshTabInv, Unmount \/ (\E on \in BOOLEAN : SetAutoReconnect(on)) \/ UNCHANGED vars
  PROVE  SshTabInv'
<1>0. Travel /\ HookTypes /\ OneAttempt /\ OneEnd /\ RefIsOver /\ TabAgrees /\ SessionsAreHeld
  BY DEF SshTabInv
<1>1. /\ UNCHANGED <<ref, connecting, userDisc, attempt, status, calls, sess, toMain, toTab>>
      /\ auto' \in BOOLEAN /\ timer' \in {FALSE, timer} /\ (timer' => auto') /\ mount' \in {mount, "leaving"}
      /\ (Alive' => Alive) /\ (mount' = "gone" => mount = "gone")
  <2>1. CASE Unmount
    BY <1>0, <2>1 DEF Unmount, Alive, HookTypes, TabAgrees
  <2>2. CASE \E on \in BOOLEAN : SetAutoReconnect(on)
    <3>1. PICK on \in BOOLEAN : SetAutoReconnect(on)
      BY <2>2
    <3>2. /\ UNCHANGED <<ref, connecting, userDisc, attempt, status, calls, sess, toMain, toTab, mount>>
          /\ auto' = on /\ timer' = (timer /\ on)
      BY <3>1 DEF SetAutoReconnect
    <3>3. on = TRUE \/ on = FALSE
      OBVIOUS
    <3>4. timer' \in {FALSE, timer}
      BY <1>0, <3>2, <3>3 DEF HookTypes
    <3>5. timer' => auto'
      BY <3>2
    <3> QED BY <3>2, <3>4, <3>5 DEF Alive
  <2>3. CASE UNCHANGED vars
    BY <1>0, <2>3 DEF vars, tab, Alive, HookTypes, TabAgrees
  <2> QED BY <2>1, <2>2, <2>3
<1>2. Travel' /\ HookTypes'
  BY <1>0, <1>1 DEF Travel, HookTypes
<1>3. OneAttempt' /\ OneEnd' /\ (InProgress' <=> InProgress)
  BY <1>0, <1>1 DEF OneAttempt, OneEnd, InProgress, Answered, Answers, EventOf, EndTold
<1>4. RefIsOver'
  BY <1>0, <1>1 DEF RefIsOver, EndTold
<1>5. TabAgrees'
  <2>1. timer' => timer
    BY <1>1
  <2>2. Alive' => Alive
    BY <1>1
  <2> QED BY <1>0, <1>1, <1>3, <2>1, <2>2 DEF TabAgrees, EndTold
<1>6. SessionsAreHeld'
  BY <1>0, <1>1 DEF SessionsAreHeld, InFlight
<1> QED BY <1>2, <1>3, <1>4, <1>5, <1>6 DEF SshTabInv

LEMMA MainActs == ASSUME SshTabInv, NEW a \in Attempt, MainSettles(a) \/ MainDrops(a) PROVE SshTabInv'
<1>0. Travel /\ OneAttempt
  BY DEF SshTabInv
<1>1. UNCHANGED <<tab, toMain>> /\ toMain' \in Seq(MainMsg)
  BY <1>0 DEF MainSettles, MainDrops, Travel
<1>2. CASE MainSettles(a)
  <2>1. sess[a] = "connecting" /\ a = calls
    <3>1. sess[a] = "connecting" /\ calls \in Attempt
      BY <1>0, <1>2 DEF MainSettles, Travel
    <3>2. ~(a > calls) /\ ~(a < calls)
      BY <1>0, <3>1 DEF OneAttempt
    <3> QED BY <3>1, <3>2 DEF Attempt
  <2>2. \A i \in DOMAIN toMain' : toMain'[i].kind # "connect"
    BY <1>0, <1>1, <2>1 DEF OneAttempt
  <2>3. PICK k \in Answer : /\ sess' = [sess EXCEPT ![a] = IF k = "ok" THEN "live" ELSE "ended"]
                            /\ toTab' = toTab \o <<Msg(k, a)>>
    BY <1>2 DEF MainSettles, Reply, Answer
  <2> QED BY <1>1, <2>1, <2>2, <2>3, Settles
<1>3. CASE MainDrops(a)
  <2>1. sess[a] = "live" /\ sess' = [sess EXCEPT ![a] = "ended"]
    BY <1>3 DEF MainDrops
  <2>2. PICK k \in Event : toTab' = toTab \o <<Msg(k, a)>>
    BY <1>3 DEF MainDrops, Reply, Event
  <2>3. UNCHANGED calls
    BY <1>1 DEF tab
  <2> QED BY <1>0, <1>1, <2>1, <2>2, <2>3, Ends DEF OneAttempt
<1> QED BY <1>2, <1>3

LEMMA NextSshTab == ASSUME ~Hasty, SshTabInv, [Next]_vars PROVE SshTabInv'
<1>1. CASE Reconnect \/ TimerFires \/ AbortConnect \/ Disconnect \/ Cleanup
  BY <1>1, Reconnecting, Retries, Aborting, Disconnecting, Cleaning
<1>2. CASE Unmount \/ (\E on \in BOOLEAN : SetAutoReconnect(on)) \/ UNCHANGED vars
  BY <1>2, Quietly
<1>3. CASE TabHears \/ MainHears
  BY <1>3, TabHearing, MainHearing
<1>4. CASE \E a \in Attempt : MainSettles(a) \/ MainDrops(a)
  BY <1>4, MainActs
<1> QED BY <1>1, <1>2, <1>3, <1>4 DEF Next

\* A connected tab shows a session that is open, or whose end is on its way; a connecting one, an attempt.
LEMMA SshTabShows == SshTabInv => TypeOK /\ SessionsAreHeld /\ ShownIsOpen /\ RetryIsWanted
<1> SUFFICES ASSUME SshTabInv PROVE TypeOK /\ SessionsAreHeld /\ ShownIsOpen /\ RetryIsWanted
  OBVIOUS
<1>0. Travel /\ HookTypes /\ TabAgrees /\ OneAttempt /\ RefIsOver /\ SessionsAreHeld
  BY DEF SshTabInv
<1>1. InProgress <=> \E a \in Attempt : Pending(a)
  BY ProgressIsPending
<1>2. TypeOK
  <2>1. MaxConnects \in Nat /\ MaxConnects >= 1
    BY TabAssumption DEF TabAssumption
  <2>2. attempt \in 0 .. MaxConnects
    BY <1>0, <2>1 DEF TabAgrees
  <2> QED BY <1>0, <2>2 DEF TypeOK, Travel, HookTypes, MainMsg, TabMsg
<1>3. ShownIsOpen
  <2>1. ASSUME Alive, status = "connected"
        PROVE  ref # NoSession /\ ~userDisc /\ (sess[ref] = "live" \/ \E k \in Kinds : InFlight(toTab, k, ref))
    <3>1. ref # NoSession /\ ~userDisc /\ (sess[ref] = "live" \/ EndTold(toTab, ref))
      BY <1>0, <2>1 DEF TabAgrees
    <3>2. ASSUME EndTold(toTab, ref) PROVE \E k \in Kinds : InFlight(toTab, k, ref)
      <4>1. PICK i \in DOMAIN toTab : toTab[i].kind \in Event /\ toTab[i].id = ref
        BY <3>2 DEF EndTold
      <4>2. toTab[i] \in TabMsg
        BY <1>0 DEF Travel
      <4> QED BY <4>1, <4>2 DEF InFlight, Msg, TabMsg
    <3> QED BY <3>1, <3>2
  <2>2. Alive /\ status = "connecting" => connecting /\ InProgress
    BY <1>0 DEF TabAgrees
  <2> QED BY <1>1, <2>1, <2>2 DEF ShownIsOpen
<1>4. RetryIsWanted
  BY <1>0, <1>1 DEF TabAgrees, RetryIsWanted
<1> QED BY <1>0, <1>2, <1>3, <1>4

-----------------------------------------------------------------------------
(* The tab of a local shell *)

Has(q, m) == \E n \in DOMAIN q : q[n] = m
LEMMA HasAfterAppend ==
  ASSUME NEW T, NEW q \in Seq(T), NEW e \in T, NEW r, r = Append(q, e)
  PROVE  Has(r, e) /\ \A m : Has(r, m) <=> Has(q, m) \/ m = e
  BY AppendIs DEF Has

LEMMA HasAfterTail ==
  ASSUME NEW T, NEW q \in Seq(T), q # <<>>, NEW r, r = Tail(q)
  PROVE  /\ \A m : Has(q, m) => Has(r, m) \/ m = Head(q)
         /\ \A m : Has(r, m) => Has(q, m)
<1>1. /\ Head(q) = q[1]
      /\ \A i \in DOMAIN r : i \in Nat /\ i + 1 \in DOMAIN q /\ r[i] = q[i + 1]
      /\ \A i \in DOMAIN q : i \in Nat /\ (i # 1 => i > 1 /\ i - 1 \in DOMAIN r /\ r[i - 1] = q[i])
  BY TailIs
<1>2. ASSUME NEW m, Has(q, m), m # Head(q) PROVE Has(r, m)
  <2>1. PICK i \in DOMAIN q : q[i] = m
    BY <1>2 DEF Has
  <2>2. i - 1 \in DOMAIN r /\ r[i - 1] = q[i]
    BY <1>1, <1>2, <2>1
  <2> QED BY <2>1, <2>2 DEF Has
<1>3. ASSUME NEW m, Has(r, m) PROVE Has(q, m)
  <2>1. PICK i \in DOMAIN r : r[i] = m
    BY <1>3 DEF Has
  <2> QED BY <1>1, <2>1 DEF Has
<1> QED BY <1>2, <1>3

Ask(s)   == Shells!Msg("open", s)
Close(s) == Shells!Msg("close", s)
Opened(s) == Shells!Msg("opened", s)
Failed(s) == Shells!Msg("failed", s)
Exit(s)  == Shells!Msg("exit", s)

CallMsg  == [kind : {"open", "close"}, id : Shells!Shell]
EventMsg == [kind : {"opened", "failed", "exit"}, id : Shells!Shell]
ShellTravel == shellCalls \in Seq(CallMsg) /\ shellEvents \in Seq(EventMsg) /\ opens \in Shells!Shell
ShellPlaces ==
  /\ pty \in [Shells!Shell -> {"none", "running", "killed", "exited"}] /\ sessions \in SUBSET Shells!Shell
  /\ \A s \in Shells!Shell : (pty[s] = "running" <=> s \in sessions) /\ (s > opens => pty[s] = "none")
  /\ shellMount = "mounted" => owner
  /\ ~owner => shellMount = "over" /\ shellCalls = <<>> /\ shellEvents = <<>> /\ sessions = {}

\* A shell is asked for once, and answered once.
OneOpening ==
  /\ \A i \in DOMAIN shellCalls : shellCalls[i].kind = "open" =>
       shellCalls[i].id = opens /\ opening /\ pty[opens] = "none"
  /\ \A i, j \in DOMAIN shellCalls : shellCalls[i].kind = "open" /\ shellCalls[j].kind = "open" => i = j
  /\ \A i \in DOMAIN shellEvents : shellEvents[i].kind \in {"opened", "failed"} =>
       shellEvents[i].id = opens /\ opening /\ ~Has(shellCalls, Ask(opens))
  /\ \A i, j \in DOMAIN shellEvents :
       shellEvents[i].kind \in {"opened", "failed"} /\ shellEvents[j].kind \in {"opened", "failed"} => i = j

\* The end of a shell is told after it, and closing comes after the tab is gone.
ShellEnds ==
  /\ \A s \in Shells!Shell : Has(shellEvents, Exit(s)) => pty[s] = "exited"
  /\ shellMount = "mounted" => \A i \in DOMAIN shellCalls : shellCalls[i].kind = "open"
  /\ shellMount = "mounted" => \A i \in DOMAIN shellEvents : shellEvents[i].kind = "opened" =>
       shellEvents[i].id \in sessions \/ \E j \in DOMAIN shellEvents : j > i /\ shellEvents[j] = Exit(shellEvents[i].id)

ShellHook ==
  /\ owner \in BOOLEAN /\ opening \in BOOLEAN /\ shell \in 0 .. MaxShells /\ shellShown \in 0 .. MaxShells
  /\ shellAlive \in BOOLEAN /\ shellMount \in {"mounted", "leaving", "over"}
  /\ (shellAlive <=> shellMount = "mounted")
  /\ shellStatus \in {"connecting", "connected", "disconnected", "error", "cleared"}
  /\ opening => shell = 0
  /\ shellMount = "mounted" => (shellStatus = "connected" <=> shell # 0)
  /\ Shells!ConnectedHasShell
Command ==
  /\ ran \in BOOLEAN /\ typing \in 0 .. MaxShells /\ typed \in Seq(Shells!Shell)
  /\ ~ran => typing = 0 /\ typed = <<>>
  /\ shellMount = "leaving" => typing = 0
  /\ Shells!CommandTypedOnce
ShellInv == ShellTravel /\ ShellPlaces /\ OneOpening /\ ShellEnds /\ ShellHook /\ Command /\ Shells!ShellsAreHeld

LEMMA SentIs == /\ \A q, k, s : Shells!Sent(q, k, s) <=> Has(q, Shells!Msg(k, s))
                /\ \A s, t : /\ Ask(s) # Close(t) /\ Opened(s) # Failed(t) /\ Opened(s) # Exit(t) /\ Failed(s) # Exit(t)
                /\ \A s, t : (Ask(s) = Ask(t) => s = t) /\ (Close(s) = Close(t) => s = t) /\ (Exit(s) = Exit(t) => s = t)
                             /\ (Opened(s) = Opened(t) => s = t)
  BY DEF Shells!Sent, Has, Shells!Msg, Ask, Close, Opened, Failed, Exit

LEMMA MsgsAre ==
  /\ \A s \in Shells!Shell : /\ Ask(s) \in CallMsg /\ Ask(s).kind = "open" /\ Ask(s).id = s
                             /\ Close(s) \in CallMsg /\ Close(s).kind = "close" /\ Close(s).id = s
                             /\ Opened(s) \in EventMsg /\ Opened(s).kind = "opened" /\ Opened(s).id = s
                             /\ Failed(s) \in EventMsg /\ Failed(s).kind = "failed" /\ Failed(s).id = s
                             /\ Exit(s) \in EventMsg /\ Exit(s).kind = "exit" /\ Exit(s).id = s
  /\ \A m \in CallMsg : m.id \in Shells!Shell /\ (m = Ask(m.id) \/ m = Close(m.id)) /\ m.kind \in {"open", "close"}
  /\ \A m \in EventMsg : m.id \in Shells!Shell /\ (m = Opened(m.id) \/ m = Failed(m.id) \/ m = Exit(m.id))
                         /\ m.kind \in {"opened", "failed", "exit"}
  BY DEF CallMsg, EventMsg, Shells!Msg, Ask, Close, Opened, Failed, Exit

LEMMA InitShell == Shells!Init => ShellInv
<1> SUFFICES ASSUME Shells!Init PROVE ShellInv
  OBVIOUS
<1>0. MaxShells \in Nat /\ 1 \in Shells!Shell /\ 0 \in 0 .. MaxShells /\ \A s \in Shells!Shell : s \in Nat /\ s # 0
  BY BoundsAssumption DEF BoundsAssumption, Shells!Shell
<1>1. /\ shellCalls = <<Ask(1)>> /\ shellEvents = <<>> /\ opens = 1 /\ opening /\ pty = [s \in Shells!Shell |-> "none"] /\ sessions = {}
      /\ Ask(1) \in CallMsg /\ Ask(1).kind = "open" /\ Ask(1).id = 1
  BY <1>0, MsgsAre DEF Shells!Init, Ask
<1>2. DOMAIN shellCalls = {1} /\ shellCalls[1] = Ask(1) /\ DOMAIN shellEvents = {} /\ shellCalls \in Seq(CallMsg) /\ shellEvents \in Seq(EventMsg)
  BY <1>1
<1>3. ShellTravel /\ ShellPlaces
  BY <1>0, <1>1, <1>2 DEF ShellTravel, ShellPlaces, Shells!Init
<1>4. OneOpening /\ ShellEnds
  BY <1>0, <1>1, <1>2 DEF OneOpening, ShellEnds, Has
<1>5. ShellHook /\ Command
  <2>1. /\ owner = TRUE /\ opening = TRUE /\ shell = 0 /\ shellAlive = TRUE /\ shellMount = "mounted"
        /\ shellStatus = "connecting" /\ shellShown = 0 /\ ran = FALSE /\ typing = 0 /\ typed = <<>> /\ Len(typed) = 0
    BY DEF Shells!Init
  <2>2. ShellHook
    BY <1>0, <2>1 DEF ShellHook, Shells!ConnectedHasShell
  <2>3. Command
    <3>1. typed \in Seq(Shells!Shell) /\ Len(typed) <= 1
      BY <2>1
    <3>2. ran \in BOOLEAN /\ typing \in 0 .. MaxShells
      BY <1>0, <2>1
    <3> HIDE DEF Shells!Init
    <3> QED BY <2>1, <3>1, <3>2 DEF Command, Shells!CommandTypedOnce
  <2> QED BY <2>2, <2>3
<1>6. Shells!ShellsAreHeld
  BY <1>1 DEF Shells!ShellsAreHeld
<1> QED BY <1>3, <1>4, <1>5, <1>6 DEF ShellInv

\* Main hears a call; what is left.
LEMMA CallHeard ==
  ASSUME ShellInv, shellCalls # <<>>, shellCalls' = Tail(shellCalls)
  PROVE  /\ shellCalls' \in Seq(CallMsg) /\ Head(shellCalls) \in CallMsg
         /\ \A m : Has(shellCalls, m) => Has(shellCalls', m) \/ m = Head(shellCalls)
         /\ \A m : Has(shellCalls', m) => Has(shellCalls, m)
         /\ \A i \in DOMAIN shellCalls' : shellCalls'[i].kind = "open" =>
              shellCalls'[i].id = opens /\ opening /\ pty[opens] = "none" /\ Head(shellCalls).kind # "open"
         /\ \A i, j \in DOMAIN shellCalls' : shellCalls'[i].kind = "open" /\ shellCalls'[j].kind = "open" => i = j
         /\ Head(shellCalls).kind = "open" => Head(shellCalls).id = opens /\ opening /\ pty[opens] = "none" /\ Has(shellCalls, Ask(opens))
         /\ shellMount = "mounted" => Head(shellCalls).kind = "open" /\ \A i \in DOMAIN shellCalls' : shellCalls'[i].kind = "open"
<1>0. ShellTravel /\ OneOpening /\ ShellEnds
  BY DEF ShellInv
<1>1. /\ shellCalls' \in Seq(CallMsg) /\ Head(shellCalls) = shellCalls[1] /\ Head(shellCalls) \in CallMsg /\ 1 \in DOMAIN shellCalls
      /\ \A i \in DOMAIN shellCalls' : i \in Nat /\ i + 1 \in DOMAIN shellCalls /\ shellCalls'[i] = shellCalls[i + 1]
  BY <1>0, TailIs DEF ShellTravel
<1>2. /\ \A m : Has(shellCalls, m) => Has(shellCalls', m) \/ m = Head(shellCalls)
      /\ \A m : Has(shellCalls', m) => Has(shellCalls, m)
  BY <1>0, HasAfterTail DEF ShellTravel
<1>3. \A i \in DOMAIN shellCalls' : i + 1 # 1
  <2>1. DOMAIN shellCalls' = 1 .. Len(shellCalls')
    BY <1>1
  <2> QED BY <1>1, <2>1
<1>4. \A i \in DOMAIN shellCalls' : shellCalls'[i].kind = "open" =>
        shellCalls'[i].id = opens /\ opening /\ pty[opens] = "none" /\ Head(shellCalls).kind # "open"
  BY <1>0, <1>1, <1>3 DEF OneOpening
<1>5. \A i, j \in DOMAIN shellCalls' : shellCalls'[i].kind = "open" /\ shellCalls'[j].kind = "open" => i = j
  <2>1. \A i, j \in DOMAIN shellCalls' : i + 1 = j + 1 => i = j
    BY <1>1
  <2> QED BY <1>0, <1>1, <2>1 DEF OneOpening
<1>6. Head(shellCalls).kind = "open" => Head(shellCalls).id = opens /\ opening /\ pty[opens] = "none" /\ Has(shellCalls, Ask(opens))
  <2>1. Head(shellCalls).kind = "open" => Head(shellCalls).id = opens /\ opening /\ pty[opens] = "none"
    BY <1>0, <1>1 DEF OneOpening
  <2>2. Head(shellCalls).kind = "open" => Head(shellCalls) = Ask(opens)
    BY <1>1, <2>1, MsgsAre
  <2> QED BY <1>1, <2>1, <2>2 DEF Has
<1>7. shellMount = "mounted" => Head(shellCalls).kind = "open" /\ \A i \in DOMAIN shellCalls' : shellCalls'[i].kind = "open"
  BY <1>0, <1>1 DEF ShellEnds
<1> QED BY <1>1, <1>2, <1>4, <1>5, <1>6, <1>7

\* Main tells the tab.
LEMMA EventTold ==
  ASSUME ShellTravel, NEW m \in EventMsg, shellEvents' = Append(shellEvents, m)
  PROVE  /\ shellEvents' \in Seq(EventMsg) /\ Len(shellEvents) \in Nat
         /\ DOMAIN shellEvents' = DOMAIN shellEvents \cup {Len(shellEvents) + 1} /\ shellEvents'[Len(shellEvents) + 1] = m
         /\ \A i \in DOMAIN shellEvents : i \in Nat /\ i < Len(shellEvents) + 1 /\ shellEvents'[i] = shellEvents[i]
         /\ Has(shellEvents', m) /\ \A n : Has(shellEvents', n) <=> Has(shellEvents, n) \/ n = m
<1>1. /\ shellEvents' \in Seq(EventMsg) /\ Len(shellEvents) \in Nat
      /\ DOMAIN shellEvents' = DOMAIN shellEvents \cup {Len(shellEvents) + 1} /\ shellEvents'[Len(shellEvents) + 1] = m
      /\ \A i \in DOMAIN shellEvents : i \in Nat /\ i < Len(shellEvents) + 1 /\ shellEvents'[i] = shellEvents[i]
  BY AppendIs DEF ShellTravel
<1>2. Has(shellEvents', m) /\ \A n : Has(shellEvents', n) <=> Has(shellEvents, n) \/ n = m
  BY HasAfterAppend DEF ShellTravel
<1> QED BY <1>1, <1>2

\* The tab hears what is first.
LEMMA EventHeard ==
  ASSUME ShellInv, shellEvents # <<>>, shellEvents' = Tail(shellEvents)
  PROVE  /\ shellEvents' \in Seq(EventMsg) /\ Head(shellEvents) \in EventMsg /\ Has(shellEvents, Head(shellEvents))
         /\ \A m : Has(shellEvents, m) => Has(shellEvents', m) \/ m = Head(shellEvents)
         /\ \A m : Has(shellEvents', m) => Has(shellEvents, m)
         /\ \A i \in DOMAIN shellEvents' : shellEvents'[i].kind \in {"opened", "failed"} =>
              /\ shellEvents'[i].id = opens /\ opening /\ ~Has(shellCalls, Ask(opens))
              /\ Head(shellEvents).kind \notin {"opened", "failed"}
         /\ \A i, j \in DOMAIN shellEvents' :
              shellEvents'[i].kind \in {"opened", "failed"} /\ shellEvents'[j].kind \in {"opened", "failed"} => i = j
         /\ Head(shellEvents).kind \in {"opened", "failed"} => Head(shellEvents).id = opens /\ opening /\ ~Has(shellCalls, Ask(opens))
         /\ shellMount = "mounted" => \A i \in DOMAIN shellEvents' : shellEvents'[i].kind = "opened" =>
              \/ shellEvents'[i].id \in sessions
              \/ \E j \in DOMAIN shellEvents' : j > i /\ shellEvents'[j] = Exit(shellEvents'[i].id)
         /\ shellMount = "mounted" /\ Head(shellEvents).kind = "opened" =>
              Head(shellEvents).id \in sessions \/ Has(shellEvents', Exit(Head(shellEvents).id))
<1>0. ShellTravel /\ OneOpening /\ ShellEnds
  BY DEF ShellInv
<1>1. /\ shellEvents' \in Seq(EventMsg) /\ Head(shellEvents) = shellEvents[1] /\ Head(shellEvents) \in EventMsg /\ 1 \in DOMAIN shellEvents
      /\ \A i \in DOMAIN shellEvents' : i \in Nat /\ i + 1 \in DOMAIN shellEvents /\ shellEvents'[i] = shellEvents[i + 1]
      /\ \A i \in DOMAIN shellEvents : i \in Nat /\ (i # 1 => i > 1 /\ i - 1 \in DOMAIN shellEvents' /\ shellEvents'[i - 1] = shellEvents[i])
  BY <1>0, TailIs DEF ShellTravel
<1>2. /\ \A m : Has(shellEvents, m) => Has(shellEvents', m) \/ m = Head(shellEvents)
      /\ \A m : Has(shellEvents', m) => Has(shellEvents, m)
  BY <1>0, HasAfterTail DEF ShellTravel
<1>3. \A i \in DOMAIN shellEvents' : i + 1 # 1
  <2>1. DOMAIN shellEvents' = 1 .. Len(shellEvents')
    BY <1>1
  <2> QED BY <1>1, <2>1
<1>4. \A i \in DOMAIN shellEvents' : shellEvents'[i].kind \in {"opened", "failed"} =>
        /\ shellEvents'[i].id = opens /\ opening /\ ~Has(shellCalls, Ask(opens))
        /\ Head(shellEvents).kind \notin {"opened", "failed"}
  BY <1>0, <1>1, <1>3 DEF OneOpening
<1>5. \A i, j \in DOMAIN shellEvents' :
        shellEvents'[i].kind \in {"opened", "failed"} /\ shellEvents'[j].kind \in {"opened", "failed"} => i = j
  <2>1. \A i, j \in DOMAIN shellEvents' : i + 1 = j + 1 => i = j
    BY <1>1
  <2> QED BY <1>0, <1>1, <2>1 DEF OneOpening
<1>6. Head(shellEvents).kind \in {"opened", "failed"} => Head(shellEvents).id = opens /\ opening /\ ~Has(shellCalls, Ask(opens))
  BY <1>0, <1>1 DEF OneOpening
<1>7. ASSUME shellMount = "mounted", NEW i \in DOMAIN shellEvents, shellEvents[i].kind = "opened", shellEvents[i].id \notin sessions
      PROVE  \E j \in DOMAIN shellEvents' : j > i - 1 /\ shellEvents'[j] = Exit(shellEvents[i].id)
  <2>1. PICK j \in DOMAIN shellEvents : j > i /\ shellEvents[j] = Exit(shellEvents[i].id)
    BY <1>0, <1>7 DEF ShellEnds
  <2>2. i \in 1 .. Len(shellEvents) /\ j \in 1 .. Len(shellEvents) /\ Len(shellEvents) \in Nat
    BY <1>0 DEF ShellTravel
  <2>3. j # 1 /\ j - 1 > i - 1
    BY <2>1, <2>2
  <2> QED BY <1>1, <2>1, <2>3
<1>8. shellMount = "mounted" => \A i \in DOMAIN shellEvents' : shellEvents'[i].kind = "opened" =>
        \/ shellEvents'[i].id \in sessions
        \/ \E j \in DOMAIN shellEvents' : j > i /\ shellEvents'[j] = Exit(shellEvents'[i].id)
  <2> SUFFICES ASSUME shellMount = "mounted", NEW i \in DOMAIN shellEvents', shellEvents'[i].kind = "opened", shellEvents'[i].id \notin sessions
               PROVE  \E j \in DOMAIN shellEvents' : j > i /\ shellEvents'[j] = Exit(shellEvents'[i].id)
    OBVIOUS
  <2>1. i \in Nat /\ i + 1 \in DOMAIN shellEvents /\ shellEvents'[i] = shellEvents[i + 1] /\ (i + 1) - 1 = i
    BY <1>1
  <2>2. \E j \in DOMAIN shellEvents' : j > (i + 1) - 1 /\ shellEvents'[j] = Exit(shellEvents[i + 1].id)
    BY <1>7, <2>1
  <2> QED BY <2>1, <2>2
<1>9. ASSUME shellMount = "mounted", Head(shellEvents).kind = "opened", Head(shellEvents).id \notin sessions
      PROVE  Has(shellEvents', Exit(Head(shellEvents).id))
  BY <1>1, <1>7, <1>9 DEF Has
<1>10. Has(shellEvents, Head(shellEvents))
  BY <1>1 DEF Has
<1> QED BY <1>1, <1>2, <1>4, <1>5, <1>6, <1>8, <1>9, <1>10

\* open(): the shell runs, or the call is rejected.
LEMMA ShellOpens ==
  ASSUME ShellInv, Shells!MainHears, Head(shellCalls).kind = "open"
  PROVE  ShellInv'
<1> DEFINE s == opens
<1>0. ShellTravel /\ ShellPlaces /\ OneOpening /\ ShellEnds /\ ShellHook /\ Command /\ Shells!ShellsAreHeld /\ s \in Shells!Shell
  BY DEF ShellInv, ShellTravel
<1>1. /\ owner /\ shellCalls # <<>> /\ shellCalls' = Tail(shellCalls) /\ Shells!open(Head(shellCalls).id)
      /\ UNCHANGED <<owner, opens, opening, shell, shellAlive, shellMount, shellStatus, shellShown, ran, typing, typed>>
  BY DEF Shells!MainHears, Shells!hook, Shells!command
<1>2. /\ shellCalls' \in Seq(CallMsg)
      /\ \A m : Has(shellCalls, m) => Has(shellCalls', m) \/ m = Head(shellCalls)
      /\ \A i \in DOMAIN shellCalls' : shellCalls'[i].kind # "open"
      /\ Head(shellCalls).id = s /\ opening /\ pty[s] = "none" /\ Has(shellCalls, Ask(s)) /\ Head(shellCalls) = Ask(s)
      /\ shellMount = "mounted" => \A i \in DOMAIN shellCalls' : shellCalls'[i].kind = "open"
  BY <1>1, CallHeard, MsgsAre
<1>3. \A i \in DOMAIN shellEvents : shellEvents[i].kind \notin {"opened", "failed"}
  BY <1>0, <1>2 DEF OneOpening
<1>4. ~Has(shellCalls', Ask(s))
  BY <1>0, <1>2, MsgsAre DEF Has
<1>5. PICK k \in {"opened", "failed"} :
        /\ shellEvents' = Append(shellEvents, Shells!Msg(k, s))
        /\ IF k = "opened" THEN pty' = [pty EXCEPT ![s] = "running"] /\ sessions' = sessions \cup {s}
           ELSE UNCHANGED <<pty, sessions>>
  BY <1>1, <1>2 DEF Shells!open
<1> DEFINE m == Shells!Msg(k, s)
<1>6. m \in EventMsg /\ m.kind = k /\ m.id = s
  BY <1>0, <1>5 DEF EventMsg, Shells!Msg
<1> HIDE DEF m, s
<1>7. /\ shellEvents' \in Seq(EventMsg) /\ Len(shellEvents) \in Nat
      /\ DOMAIN shellEvents' = DOMAIN shellEvents \cup {Len(shellEvents) + 1} /\ shellEvents'[Len(shellEvents) + 1] = m
      /\ \A i \in DOMAIN shellEvents : i \in Nat /\ i < Len(shellEvents) + 1 /\ shellEvents'[i] = shellEvents[i]
      /\ Has(shellEvents', m) /\ \A n : Has(shellEvents', n) <=> Has(shellEvents, n) \/ n = m
  BY <1>0, <1>5, <1>6, EventTold DEF m
<1>8. /\ pty' \in [Shells!Shell -> {"none", "running", "killed", "exited"}] /\ sessions' \in SUBSET Shells!Shell
      /\ \A t \in Shells!Shell \ {s} : pty'[t] = pty[t] /\ (t \in sessions' <=> t \in sessions)
      /\ k = "opened" => pty'[s] = "running" /\ s \in sessions'
      /\ k # "opened" => pty'[s] = pty[s] /\ sessions' = sessions
  BY <1>0, <1>5 DEF ShellPlaces
<1>9. ShellTravel'
  BY <1>0, <1>1, <1>2, <1>7 DEF ShellTravel
<1>10. ShellPlaces'
  <2>1. ~(s > opens)
    BY <1>0 DEF s, Shells!Shell
  <2> QED BY <1>0, <1>1, <1>8, <2>1 DEF ShellPlaces
<1>11. OneOpening'
  <2>1. \A i \in DOMAIN shellEvents' : shellEvents'[i].kind \in {"opened", "failed"} => i = Len(shellEvents) + 1 /\ shellEvents'[i] = m
    BY <1>3, <1>7
  <2>2. \A i \in DOMAIN shellEvents' : shellEvents'[i].kind \in {"opened", "failed"} =>
          shellEvents'[i].id = opens /\ opening /\ ~Has(shellCalls', Ask(opens))
    BY <1>2, <1>4, <1>6, <2>1 DEF s
  <2> QED BY <1>1, <1>2, <2>1, <2>2 DEF OneOpening
<1>12. (\A t : m # Exit(t)) /\ ~Has(shellEvents', Exit(s))
  <2>1. \A t : m # Exit(t)
    BY <1>5, SentIs DEF m, Opened, Failed
  <2>2. ~Has(shellEvents, Exit(s))
    BY <1>0, <1>2 DEF ShellEnds
  <2> QED BY <1>7, <2>1, <2>2
<1>13. ShellEnds'
  <2>1. \A t \in Shells!Shell : Has(shellEvents', Exit(t)) => pty'[t] = "exited"
    <3> SUFFICES ASSUME NEW t \in Shells!Shell, Has(shellEvents', Exit(t)) PROVE pty'[t] = "exited"
      OBVIOUS
    <3>1. t # s
      BY <1>12
    <3>2. Has(shellEvents, Exit(t))
      BY <1>7, <1>12
    <3> QED BY <1>0, <1>8, <3>1, <3>2 DEF ShellEnds
  <2>2. \A i \in DOMAIN shellEvents' : shellEvents'[i].kind = "opened" => shellEvents'[i].id \in sessions'
    BY <1>3, <1>6, <1>7, <1>8
  <2> QED BY <1>1, <1>2, <2>1, <2>2 DEF ShellEnds
<1>14. ShellHook'
  <2>1. shellMount = "mounted" /\ shellStatus = "connected" => shell = shellShown /\ (shell \in sessions' \/ Has(shellEvents', Exit(shell)))
    <3>1. shellMount = "mounted" /\ shellStatus = "connected" => shell = shellShown /\ (shell \in sessions \/ Has(shellEvents, Exit(shell)))
      BY <1>0, SentIs DEF ShellHook, Shells!ConnectedHasShell, Exit
    <3>2. \A t : t \in sessions => t \in sessions'
      BY <1>5
    <3> QED BY <1>7, <3>1, <3>2
  <2>2. Shells!ConnectedHasShell'
    BY <1>1, <2>1, SentIs DEF Shells!ConnectedHasShell, Exit
  <2> QED BY <1>0, <1>1, <2>2 DEF ShellHook
<1>15. Command'
  BY <1>0, <1>1 DEF Command, Shells!CommandTypedOnce
<1>16. Shells!ShellsAreHeld'
  <2> SUFFICES ASSUME NEW t \in Shells!Shell, pty'[t] = "running"
               PROVE  (t = shell' /\ shellMount' # "over") \/ Has(shellEvents', Opened(t)) \/ Has(shellCalls', Close(t))
    BY SentIs DEF Shells!ShellsAreHeld, Opened, Close
  <2>1. CASE t = s
    BY <1>2, <1>5, <1>7, <1>8, <2>1 DEF m, Opened
  <2>2. CASE t # s
    <3>1. (t = shell /\ shellMount # "over") \/ Has(shellEvents, Opened(t)) \/ Has(shellCalls, Close(t))
      BY <1>0, <1>8, <2>2, SentIs DEF Shells!ShellsAreHeld, Opened, Close
    <3> QED BY <1>1, <1>2, <1>7, <3>1, SentIs
  <2> QED BY <2>1, <2>2
<1> QED BY <1>9, <1>10, <1>11, <1>13, <1>14, <1>15, <1>16 DEF ShellInv

\* A shell in the map of main is taken out of it: closed, or it ends by itself and the tab is told.
LEMMA ShellStops ==
  ASSUME ShellInv, NEW s \in Shells!Shell, NEW p \in {"killed", "exited"},
         pty' = [pty EXCEPT ![s] = p], sessions' = sessions \ {s},
         pty[s] \in {"running", "killed"},
         shellCalls' \in Seq(CallMsg),
         \A i \in DOMAIN shellCalls' : shellCalls'[i].kind = "open" => shellCalls'[i].id = opens /\ opening /\ pty[opens] = "none",
         \A i, j \in DOMAIN shellCalls' : shellCalls'[i].kind = "open" /\ shellCalls'[j].kind = "open" => i = j,
         \A t : Has(shellCalls', Ask(t)) => Has(shellCalls, Ask(t)),
         \A t \in Shells!Shell \ {s} : Has(shellCalls, Close(t)) => Has(shellCalls', Close(t)),
         shellMount = "mounted" => \A i \in DOMAIN shellCalls' : shellCalls'[i].kind = "open",
         ~owner => shellCalls' = <<>>,
         IF p = "exited" /\ owner THEN shellEvents' = Append(shellEvents, Exit(s)) ELSE UNCHANGED shellEvents,
         p = "exited" \/ shellMount # "mounted",
         UNCHANGED <<owner, opens, opening, shell, shellAlive, shellMount, shellStatus, shellShown, ran, typing, typed>>
  PROVE  ShellInv'
<1>0. ShellTravel /\ ShellPlaces /\ OneOpening /\ ShellEnds /\ ShellHook /\ Command /\ Shells!ShellsAreHeld
  BY DEF ShellInv
<1>1. /\ pty' \in [Shells!Shell -> {"none", "running", "killed", "exited"}] /\ sessions' \in SUBSET Shells!Shell
      /\ pty'[s] = p /\ \A t \in Shells!Shell \ {s} : pty'[t] = pty[t] /\ (t \in sessions' <=> t \in sessions)
  BY <1>0 DEF ShellPlaces
<1>2. /\ shellEvents' \in Seq(EventMsg)
      /\ \A i \in DOMAIN shellEvents : i \in DOMAIN shellEvents' /\ shellEvents'[i] = shellEvents[i]
      /\ \A i \in DOMAIN shellEvents' : i \in DOMAIN shellEvents \/ (shellEvents'[i] = Exit(s) /\ p = "exited")
      /\ \A n : Has(shellEvents, n) => Has(shellEvents', n)
      /\ \A n : Has(shellEvents', n) => Has(shellEvents, n) \/ (n = Exit(s) /\ p = "exited")
      /\ p = "exited" /\ owner => Has(shellEvents', Exit(s)) /\ \E j \in DOMAIN shellEvents' :
           (\A i \in DOMAIN shellEvents : j > i) /\ shellEvents'[j] = Exit(s)
  <2>1. CASE p = "exited" /\ owner
    <3>1. Exit(s) \in EventMsg
      BY MsgsAre
    <3>2. /\ shellEvents' \in Seq(EventMsg) /\ Len(shellEvents) \in Nat
          /\ DOMAIN shellEvents' = DOMAIN shellEvents \cup {Len(shellEvents) + 1} /\ shellEvents'[Len(shellEvents) + 1] = Exit(s)
          /\ \A i \in DOMAIN shellEvents : i \in Nat /\ i < Len(shellEvents) + 1 /\ shellEvents'[i] = shellEvents[i]
          /\ Has(shellEvents', Exit(s)) /\ \A n : Has(shellEvents', n) <=> Has(shellEvents, n) \/ n = Exit(s)
      BY <1>0, <2>1, <3>1, EventTold
    <3>3. \A i \in DOMAIN shellEvents : Len(shellEvents) + 1 > i
      BY <3>2
    <3> QED BY <2>1, <3>2, <3>3
  <2>2. CASE ~(p = "exited" /\ owner)
    BY <1>0, <2>2 DEF ShellTravel
  <2> QED BY <2>1, <2>2
<1>3. ShellTravel'
  BY <1>2, <1>0 DEF ShellTravel
<1>4. ShellPlaces'
  <2>1. ~(s > opens)
    BY <1>0 DEF ShellPlaces
  <2>2. ~owner => shellEvents' = <<>> /\ sessions' = {}
    BY <1>0 DEF ShellPlaces
  <2> QED BY <1>0, <1>1, <2>1, <2>2 DEF ShellPlaces
<1>5. pty[opens] = "none" => pty'[opens] = "none"
  BY <1>0, <1>1 DEF ShellTravel
<1>6. OneOpening'
  <2>1. \A i \in DOMAIN shellEvents' : shellEvents'[i].kind \in {"opened", "failed"} => i \in DOMAIN shellEvents /\ shellEvents'[i] = shellEvents[i]
    BY <1>2, MsgsAre
  <2> QED BY <1>0, <1>5, <2>1 DEF OneOpening
<1>7. ShellEnds'
  <2>1. \A t \in Shells!Shell : Has(shellEvents', Exit(t)) => pty'[t] = "exited"
    <3> SUFFICES ASSUME NEW t \in Shells!Shell, Has(shellEvents', Exit(t)) PROVE pty'[t] = "exited"
      OBVIOUS
    <3>1. CASE t = s
      <4>1. ~Has(shellEvents, Exit(s))
        BY <1>0 DEF ShellEnds
      <4> QED BY <1>1, <1>2, <3>1, <4>1
    <3>2. CASE t # s
      BY <1>0, <1>1, <1>2, <3>2, SentIs DEF ShellEnds
    <3> QED BY <3>1, <3>2
  <2>2. ASSUME shellMount = "mounted", NEW i \in DOMAIN shellEvents', shellEvents'[i].kind = "opened"
        PROVE  shellEvents'[i].id \in sessions' \/ \E j \in DOMAIN shellEvents' : j > i /\ shellEvents'[j] = Exit(shellEvents'[i].id)
    <3>1. i \in DOMAIN shellEvents /\ shellEvents'[i] = shellEvents[i]
      BY <1>2, <2>2, MsgsAre
    <3>2. CASE shellEvents[i].id = s
      BY <1>0, <1>2, <2>2, <3>1, <3>2 DEF ShellPlaces
    <3>3. CASE shellEvents[i].id # s
      <4>1. \/ shellEvents[i].id \in sessions
            \/ \E j \in DOMAIN shellEvents : j > i /\ shellEvents[j] = Exit(shellEvents[i].id)
        BY <1>0, <2>2, <3>1 DEF ShellEnds
      <4> QED BY <1>2, <3>1, <3>3, <4>1
    <3> QED BY <3>2, <3>3
  <2> QED BY <2>1, <2>2 DEF ShellEnds
<1>8. ShellHook'
  <2>1. shellMount = "mounted" /\ shellStatus = "connected" => shell = shellShown /\ (shell \in sessions' \/ Has(shellEvents', Exit(shell)))
    <3>1. shellMount = "mounted" /\ shellStatus = "connected" => shell = shellShown /\ (shell \in sessions \/ Has(shellEvents, Exit(shell)))
      BY <1>0, SentIs DEF ShellHook, Shells!ConnectedHasShell, Exit
    <3>2. shellMount = "mounted" /\ shell = s => Has(shellEvents', Exit(s))
      BY <1>0, <1>2 DEF ShellPlaces
    <3> QED BY <1>2, <3>1, <3>2
  <2>2. Shells!ConnectedHasShell'
    BY <2>1, SentIs DEF Shells!ConnectedHasShell, Exit
  <2> QED BY <1>0, <2>2 DEF ShellHook
<1>9. Command'
  BY <1>0 DEF Command, Shells!CommandTypedOnce
<1>10. Shells!ShellsAreHeld'
  <2> SUFFICES ASSUME NEW t \in Shells!Shell, pty'[t] = "running"
               PROVE  (t = shell' /\ shellMount' # "over") \/ Has(shellEvents', Opened(t)) \/ Has(shellCalls', Close(t))
    BY SentIs DEF Shells!ShellsAreHeld, Opened, Close
  <2>1. t # s
    BY <1>1
  <2>2. (t = shell /\ shellMount # "over") \/ Has(shellEvents, Opened(t)) \/ Has(shellCalls, Close(t))
    BY <1>0, <1>1, <2>1, SentIs DEF Shells!ShellsAreHeld, Opened, Close
  <2> QED BY <1>2, <2>1, <2>2
<1> QED BY <1>3, <1>4, <1>6, <1>7, <1>8, <1>9, <1>10 DEF ShellInv

LEMMA ShellCloses ==
  ASSUME ShellInv, Shells!MainHears, Head(shellCalls).kind # "open"
  PROVE  ShellInv'
<1> DEFINE s == Head(shellCalls).id
<1>0. ShellTravel /\ ShellPlaces /\ OneOpening /\ ShellEnds /\ ShellHook /\ Command /\ Shells!ShellsAreHeld
  BY DEF ShellInv
<1>1. /\ owner /\ shellCalls # <<>> /\ shellCalls' = Tail(shellCalls)
      /\ pty' = [t \in Shells!Shell |-> IF t \in {s} \cap sessions /\ pty[t] = "running" THEN "killed" ELSE pty[t]]
      /\ sessions' = sessions \ {s} /\ UNCHANGED shellEvents
      /\ UNCHANGED <<owner, opens, opening, shell, shellAlive, shellMount, shellStatus, shellShown, ran, typing, typed>>
  BY DEF Shells!MainHears, Shells!hook, Shells!command, Shells!close, Shells!Kill
<1>2. /\ shellCalls' \in Seq(CallMsg) /\ Head(shellCalls) \in CallMsg
      /\ \A m : Has(shellCalls, m) => Has(shellCalls', m) \/ m = Head(shellCalls)
      /\ \A m : Has(shellCalls', m) => Has(shellCalls, m)
      /\ \A i \in DOMAIN shellCalls' : shellCalls'[i].kind = "open" => shellCalls'[i].id = opens /\ opening /\ pty[opens] = "none"
      /\ \A i, j \in DOMAIN shellCalls' : shellCalls'[i].kind = "open" /\ shellCalls'[j].kind = "open" => i = j
      /\ shellMount # "mounted"
  BY <1>1, CallHeard
<1>3. s \in Shells!Shell /\ Head(shellCalls) = Close(s)
  BY <1>2, MsgsAre
<1> HIDE DEF s
<1>4. \A t \in Shells!Shell \ {s} : Has(shellCalls, Close(t)) => Has(shellCalls', Close(t))
  BY <1>2, <1>3, SentIs
<1>5. CASE s \in sessions
  <2>1. pty[s] = "running" /\ pty' = [pty EXCEPT ![s] = "killed"]
    BY <1>0, <1>1, <1>3, <1>5 DEF ShellPlaces
  <2> DEFINE p == "killed"
  <2>2. /\ p \in {"killed", "exited"} /\ pty' = [pty EXCEPT ![s] = p]
        /\ (IF p = "exited" /\ owner THEN shellEvents' = Append(shellEvents, Exit(s)) ELSE UNCHANGED shellEvents)
    BY <1>1, <2>1
  <2> HIDE DEF p
  <2> QED BY <1>1, <1>2, <1>3, <1>4, <2>1, <2>2, ShellStops
<1>6. CASE s \notin sessions
  <2>1. pty' = pty /\ sessions' = sessions /\ pty[s] # "running"
    BY <1>0, <1>1, <1>3, <1>6 DEF ShellPlaces
  <2>2. ShellTravel' /\ ShellPlaces'
    BY <1>0, <1>1, <1>2, <2>1 DEF ShellTravel, ShellPlaces
  <2>3. OneOpening'
    BY <1>0, <1>1, <1>2, <2>1 DEF OneOpening
  <2>4. ShellEnds'
    BY <1>0, <1>1, <1>2, <2>1 DEF ShellEnds
  <2>5. ShellHook' /\ Command'
    BY <1>0, <1>1, <1>2, <2>1 DEF ShellHook, Command, Shells!ConnectedHasShell, Shells!CommandTypedOnce
  <2>6. Shells!ShellsAreHeld'
    <3> SUFFICES ASSUME NEW t \in Shells!Shell, pty'[t] = "running"
                 PROVE  (t = shell' /\ shellMount' # "over") \/ Has(shellEvents', Opened(t)) \/ Has(shellCalls', Close(t))
      BY SentIs DEF Shells!ShellsAreHeld, Opened, Close
    <3>1. (t = shell /\ shellMount # "over") \/ Has(shellEvents, Opened(t)) \/ Has(shellCalls, Close(t))
      BY <1>0, <2>1, SentIs DEF Shells!ShellsAreHeld, Opened, Close
    <3> QED BY <1>1, <1>4, <2>1, <3>1
  <2> QED BY <2>2, <2>3, <2>4, <2>5, <2>6 DEF ShellInv
<1> QED BY <1>5, <1>6

LEMMA ShellExits == ASSUME ShellInv, NEW s \in Shells!Shell, Shells!onExit(s) PROVE ShellInv'
<1>0. ShellTravel /\ ShellPlaces /\ OneOpening /\ ShellEnds
  BY DEF ShellInv
<1> DEFINE p == "exited"
<1>1. /\ pty[s] \in {"running", "killed"} /\ p \in {"killed", "exited"} /\ pty' = [pty EXCEPT ![s] = p] /\ sessions' = sessions \ {s}
      /\ (IF p = "exited" /\ owner THEN shellEvents' = Append(shellEvents, Exit(s)) ELSE UNCHANGED shellEvents)
      /\ (p = "exited" \/ shellMount # "mounted")
      /\ UNCHANGED <<owner, opens, opening, shell, shellAlive, shellMount, shellStatus, shellShown, ran, typing, typed, shellCalls>>
  BY DEF Shells!onExit, Shells!hook, Shells!command, Exit
<1> HIDE DEF p
<1>2. /\ shellCalls' \in Seq(CallMsg)
      /\ \A i \in DOMAIN shellCalls' : shellCalls'[i].kind = "open" => shellCalls'[i].id = opens /\ opening /\ pty[opens] = "none"
      /\ \A i, j \in DOMAIN shellCalls' : shellCalls'[i].kind = "open" /\ shellCalls'[j].kind = "open" => i = j
      /\ shellMount = "mounted" => \A i \in DOMAIN shellCalls' : shellCalls'[i].kind = "open"
      /\ ~owner => shellCalls' = <<>>
  BY <1>0, <1>1 DEF ShellTravel, OneOpening, ShellEnds, ShellPlaces
<1> QED BY <1>1, <1>2, ShellStops

LEMMA ShellsDestroyed == ASSUME ShellInv, Shells!destroyAll PROVE ShellInv'
<1>0. ShellTravel /\ ShellPlaces /\ ShellHook /\ Command
  BY DEF ShellInv
<1>1. /\ owner' = FALSE /\ pty' = [t \in Shells!Shell |-> IF t \in sessions /\ pty[t] = "running" THEN "killed" ELSE pty[t]]
      /\ sessions' = {} /\ shellAlive' = FALSE /\ shellMount' = "over" /\ shellCalls' = <<>> /\ shellEvents' = <<>>
      /\ UNCHANGED <<opens, opening, shell, shellStatus, shellShown, ran, typing, typed>>
  BY DEF Shells!destroyAll, Shells!command, Shells!Kill
<1>2. /\ pty' \in [Shells!Shell -> {"none", "running", "killed", "exited"}]
      /\ \A t \in Shells!Shell : pty'[t] # "running" /\ (pty[t] = "none" => pty'[t] = "none")
  BY <1>0, <1>1 DEF ShellPlaces
<1>3. ShellTravel' /\ ShellPlaces'
  BY <1>0, <1>1, <1>2 DEF ShellTravel, ShellPlaces
<1>4. OneOpening' /\ ShellEnds'
  BY <1>1 DEF OneOpening, ShellEnds, Has
<1>5. ShellHook' /\ Command'
  BY <1>0, <1>1 DEF ShellHook, Command, Shells!ConnectedHasShell, Shells!CommandTypedOnce
<1>6. Shells!ShellsAreHeld'
  BY <1>2 DEF Shells!ShellsAreHeld
<1> QED BY <1>3, <1>4, <1>5, <1>6 DEF ShellInv

\* What the tab tells main changes nothing of what is on its way.
LEMMA CallAdded ==
  ASSUME ShellInv, NEW m \in CallMsg, shellCalls' = Append(shellCalls, m)
  PROVE  /\ shellCalls' \in Seq(CallMsg) /\ \A n : Has(shellCalls', n) <=> Has(shellCalls, n) \/ n = m
         /\ m.kind # "open" =>
              /\ \A i \in DOMAIN shellCalls' : shellCalls'[i].kind = "open" => shellCalls'[i].id = opens /\ opening /\ pty[opens] = "none"
              /\ \A i, j \in DOMAIN shellCalls' : shellCalls'[i].kind = "open" /\ shellCalls'[j].kind = "open" => i = j
<1>0. ShellTravel /\ OneOpening
  BY DEF ShellInv
<1>1. /\ shellCalls' \in Seq(CallMsg) /\ DOMAIN shellCalls' = DOMAIN shellCalls \cup {Len(shellCalls) + 1}
      /\ shellCalls'[Len(shellCalls) + 1] = m /\ \A i \in DOMAIN shellCalls : shellCalls'[i] = shellCalls[i]
  BY <1>0, AppendIs DEF ShellTravel
<1>2. \A n : Has(shellCalls', n) <=> Has(shellCalls, n) \/ n = m
  BY <1>0, HasAfterAppend DEF ShellTravel
<1> QED BY <1>0, <1>1, <1>2 DEF OneOpening

LEMMA ShellRestarts == ASSUME ShellInv, Shells!restart PROVE ShellInv'
<1>0. ShellTravel /\ ShellPlaces /\ OneOpening /\ ShellEnds /\ ShellHook /\ Command /\ Shells!ShellsAreHeld
  BY DEF ShellInv
<1>1. /\ shellAlive /\ shellStatus = "disconnected" /\ opens < MaxShells /\ shell' = 0
      /\ UNCHANGED <<pty, sessions, owner, shellAlive, shellMount, shellShown, ran, typing, typed, shellEvents>>
  BY DEF Shells!restart, Shells!shells, Shells!command
<1>2. shell = 0 /\ shellMount = "mounted"
  BY <1>0, <1>1 DEF ShellHook
<1>3. CASE opening
  <2>1. UNCHANGED <<opens, opening, shell, shellStatus, shellCalls>>
    BY <1>1, <1>2, <1>3 DEF Shells!restart
  <2> QED BY <1>0, <1>1, <2>1 DEF ShellInv, ShellTravel, ShellPlaces, OneOpening, ShellEnds, ShellHook, Command, Shells!ShellsAreHeld,
                                  Shells!ConnectedHasShell, Shells!CommandTypedOnce, Shells!Sent, Has
<1>4. CASE ~opening
  <2>1. /\ opening' = TRUE /\ shellStatus' = "connecting" /\ opens' = opens + 1 /\ shellCalls' = Append(shellCalls, Ask(opens + 1))
    BY <1>4 DEF Shells!restart, Ask
  <2>2. opens + 1 \in Shells!Shell /\ opens \in Nat /\ \A t \in Shells!Shell : (t > opens + 1 => t > opens)
    BY <1>0, <1>1, BoundsAssumption DEF ShellTravel, Shells!Shell, BoundsAssumption
  <2>3. Ask(opens + 1) \in CallMsg /\ Ask(opens + 1).kind = "open" /\ Ask(opens + 1).id = opens + 1
    BY <2>2, MsgsAre
  <2>4. pty[opens + 1] = "none"
    BY <1>0, <2>2 DEF ShellPlaces
  <2>5. /\ shellCalls' \in Seq(CallMsg) /\ DOMAIN shellCalls' = DOMAIN shellCalls \cup {Len(shellCalls) + 1}
        /\ shellCalls'[Len(shellCalls) + 1] = Ask(opens + 1) /\ \A i \in DOMAIN shellCalls : shellCalls'[i] = shellCalls[i]
    BY <1>0, <2>1, <2>3, AppendIs DEF ShellTravel
  <2>6. \A n : Has(shellCalls, n) => Has(shellCalls', n)
    <3> DEFINE m == Ask(opens + 1)
    <3>1. m \in CallMsg /\ shellCalls' = Append(shellCalls, m)
      BY <2>1, <2>3
    <3> HIDE DEF m
    <3> QED BY <3>1, CallAdded
  <2>7. ShellTravel' /\ ShellPlaces'
    BY <1>0, <1>1, <1>2, <2>1, <2>2, <2>5 DEF ShellTravel, ShellPlaces
  <2>8. OneOpening'
    <3>1. (\A i \in DOMAIN shellCalls : shellCalls[i].kind # "open") /\ \A i \in DOMAIN shellEvents : shellEvents[i].kind \notin {"opened", "failed"}
      BY <1>0, <1>4 DEF OneOpening
    <3>2. \A i \in DOMAIN shellCalls' : shellCalls'[i].kind = "open" => i = Len(shellCalls) + 1 /\ shellCalls'[i].id = opens'
      BY <2>1, <2>3, <2>5, <3>1
    <3> QED BY <1>1, <2>1, <2>4, <3>1, <3>2 DEF OneOpening
  <2>9. ShellEnds'
    BY <1>0, <1>1, <2>3, <2>5 DEF ShellEnds
  <2>10. ShellHook'
    BY <1>0, <1>1, <1>2, <2>1 DEF ShellHook, Shells!ConnectedHasShell
  <2>11. Command'
    BY <1>0, <1>1 DEF Command, Shells!CommandTypedOnce
  <2>12. Shells!ShellsAreHeld'
    BY <1>0, <1>1, <1>2, <2>6, SentIs DEF Shells!ShellsAreHeld, Close, Opened
  <2> QED BY <2>7, <2>8, <2>9, <2>10, <2>11, <2>12 DEF ShellInv
<1> QED BY <1>3, <1>4

LEMMA ShellHears == ASSUME ShellInv, Shells!TabHears PROVE ShellInv'
<1> DEFINE m == Head(shellEvents)
           s == m.id
<1>0. ShellTravel /\ ShellPlaces /\ OneOpening /\ ShellEnds /\ ShellHook /\ Command /\ Shells!ShellsAreHeld
  BY DEF ShellInv
<1>1. /\ shellEvents # <<>> /\ shellEvents' = Tail(shellEvents)
      /\ UNCHANGED <<pty, sessions, owner, opens, shellAlive, shellMount>>
  BY DEF Shells!TabHears, Shells!shells
<1>2. /\ shellEvents' \in Seq(EventMsg) /\ m \in EventMsg /\ Has(shellEvents, m)
      /\ \A n : Has(shellEvents, n) => Has(shellEvents', n) \/ n = m
      /\ \A n : Has(shellEvents', n) => Has(shellEvents, n)
      /\ \A i \in DOMAIN shellEvents' : shellEvents'[i].kind \in {"opened", "failed"} =>
           /\ shellEvents'[i].id = opens /\ opening /\ ~Has(shellCalls, Ask(opens)) /\ m.kind \notin {"opened", "failed"}
      /\ \A i, j \in DOMAIN shellEvents' :
           shellEvents'[i].kind \in {"opened", "failed"} /\ shellEvents'[j].kind \in {"opened", "failed"} => i = j
      /\ m.kind \in {"opened", "failed"} => s = opens /\ opening /\ ~Has(shellCalls, Ask(opens))
      /\ shellMount = "mounted" => \A i \in DOMAIN shellEvents' : shellEvents'[i].kind = "opened" =>
              \/ shellEvents'[i].id \in sessions
              \/ \E j \in DOMAIN shellEvents' : j > i /\ shellEvents'[j] = Exit(shellEvents'[i].id)
      /\ shellMount = "mounted" /\ m.kind = "opened" => s \in sessions \/ Has(shellEvents', Exit(s))
  BY <1>1, EventHeard
<1>3. s \in Shells!Shell /\ (m = Opened(s) \/ m = Failed(s) \/ m = Exit(s)) /\ m.kind \in {"opened", "failed", "exit"}
      /\ (m.kind = "opened" => m = Opened(s)) /\ (m.kind = "failed" => m = Failed(s)) /\ (m.kind = "exit" => m = Exit(s))
  BY <1>2, MsgsAre
<1>4. MaxShells \in Nat /\ 0 \in 0 .. MaxShells /\ s \in 0 .. MaxShells /\ s # 0
  BY <1>3, BoundsAssumption DEF BoundsAssumption, Shells!Shell
<1>5. \A t : Has(shellEvents, Exit(t)) /\ m.kind # "exit" => Has(shellEvents', Exit(t))
  BY <1>2, <1>3, SentIs
<1>6. CASE m.kind = "opened"
  <2>1. Shells!Opened(s) /\ opening' = FALSE
    BY <1>6 DEF Shells!TabHears
  <2>2. \A i \in DOMAIN shellEvents' : shellEvents'[i].kind \notin {"opened", "failed"}
    BY <1>2, <1>6
  <2>3. \A i \in DOMAIN shellCalls : shellCalls[i].kind # "open"
    <3>1. \A i \in DOMAIN shellCalls : shellCalls[i] \in CallMsg
      BY <1>0 DEF ShellTravel
    <3>2. \A i \in DOMAIN shellCalls : shellCalls[i].kind = "open" => shellCalls[i] = Ask(opens)
      BY <1>0, <3>1, MsgsAre DEF OneOpening
    <3> QED BY <1>2, <1>6, <3>2 DEF Has
  <2>4. CASE shellAlive
    <3>1. /\ shell' = s /\ shellShown' = s /\ shellStatus' = "connected" /\ UNCHANGED <<typed, shellCalls>>
          /\ IF ~ran THEN ran' = TRUE /\ typing' = s ELSE ran' = ran /\ typing' = 0
      BY <1>4, <2>1, <2>4 DEF Shells!Opened, Shells!Planned
    <3>2. shellMount = "mounted" /\ owner /\ shell = 0 /\ s = opens
      BY <1>0, <1>2, <1>6, <2>4 DEF ShellHook, ShellPlaces
    <3>3. ShellTravel' /\ ShellPlaces'
      BY <1>0, <1>1, <1>2, <3>1, <3>2 DEF ShellTravel, ShellPlaces
    <3>4. OneOpening'
      BY <2>2, <2>3, <3>1 DEF OneOpening
    <3>5. ShellEnds'
      BY <1>0, <1>1, <1>2, <3>1 DEF ShellEnds
    <3>6. ShellHook'
      <4>1. Shells!ConnectedHasShell'
        BY <1>1, <1>2, <1>6, <3>1, <3>2, SentIs DEF Shells!ConnectedHasShell, Exit
      <4> QED BY <1>0, <1>1, <1>4, <2>1, <3>1, <4>1 DEF ShellHook
    <3>7. Command'
      <4>1. CASE ~ran
        <5>1. ran' = TRUE /\ typing' = s /\ typed = <<>> /\ Len(typed) = 0
          BY <1>0, <3>1, <4>1 DEF Command
        <5> QED BY <1>0, <1>1, <1>4, <3>1, <3>2, <5>1 DEF Command, Shells!CommandTypedOnce
      <4>2. CASE ran
        <5>1. ran' = ran /\ typing' = 0
          BY <3>1, <4>2
        <5> QED BY <1>0, <1>1, <1>4, <3>1, <3>2, <4>2, <5>1 DEF Command, Shells!CommandTypedOnce
      <4> QED BY <4>1, <4>2
    <3>8. Shells!ShellsAreHeld'
      <4> SUFFICES ASSUME NEW t \in Shells!Shell, pty'[t] = "running"
                   PROVE  (t = shell' /\ shellMount' # "over") \/ Has(shellEvents', Opened(t)) \/ Has(shellCalls', Close(t))
        BY SentIs DEF Shells!ShellsAreHeld, Opened, Close
      <4>1. (t = shell /\ shellMount # "over") \/ Has(shellEvents, Opened(t)) \/ Has(shellCalls, Close(t))
        BY <1>0, <1>1, SentIs DEF Shells!ShellsAreHeld, Opened, Close
      <4>2. t # 0
        BY DEF Shells!Shell
      <4>3. Has(shellEvents, Opened(t)) => Has(shellEvents', Opened(t)) \/ t = s
        BY <1>2, <1>3, <1>6, SentIs
      <4> QED BY <1>1, <3>1, <3>2, <4>1, <4>2, <4>3
    <3> QED BY <3>3, <3>4, <3>5, <3>6, <3>7, <3>8 DEF ShellInv
  <2>5. CASE ~shellAlive
    <3>1. shellCalls' = Append(shellCalls, Close(s)) /\ UNCHANGED <<shell, shellShown, shellStatus, ran, typing, typed>>
      BY <2>1, <2>5 DEF Shells!Opened, Shells!command, Close
    <3>2. Close(s) \in CallMsg /\ Close(s).kind # "open"
      BY <1>3, MsgsAre
    <3>3. /\ shellCalls' \in Seq(CallMsg) /\ \A n : Has(shellCalls', n) <=> Has(shellCalls, n) \/ n = Close(s)
          /\ \A i, j \in DOMAIN shellCalls' : shellCalls'[i].kind = "open" /\ shellCalls'[j].kind = "open" => i = j
      <4> DEFINE c == Close(s)
      <4>1. c \in CallMsg /\ c.kind # "open" /\ shellCalls' = Append(shellCalls, c)
        BY <3>1, <3>2
      <4> HIDE DEF c
      <4>2. /\ shellCalls' \in Seq(CallMsg) /\ \A n : Has(shellCalls', n) <=> Has(shellCalls, n) \/ n = c
            /\ \A i, j \in DOMAIN shellCalls' : shellCalls'[i].kind = "open" /\ shellCalls'[j].kind = "open" => i = j
        BY <4>1, CallAdded
      <4> QED BY <4>2 DEF c
    <3>4. \A i \in DOMAIN shellCalls' : shellCalls'[i].kind # "open"
      <4>1. \A i \in DOMAIN shellCalls' : shellCalls'[i].kind = "open" => shellCalls'[i] = Ask(shellCalls'[i].id)
        BY <3>3, MsgsAre
      <4>2. ASSUME NEW i \in DOMAIN shellCalls', shellCalls'[i].kind = "open" PROVE FALSE
        <5>1. Has(shellCalls', shellCalls'[i]) /\ shellCalls'[i] # Close(s)
          BY <3>2, <4>2 DEF Has
        <5>2. PICK j \in DOMAIN shellCalls : shellCalls[j] = shellCalls'[i]
          BY <3>3, <5>1 DEF Has
        <5> QED BY <2>3, <4>2, <5>2
      <4> QED BY <4>2
    <3>5. shellMount # "mounted"
      BY <1>0, <2>5 DEF ShellHook
    <3>6. owner
      BY <1>0, <1>1 DEF ShellPlaces
    <3>7. ShellTravel' /\ ShellPlaces'
      BY <1>0, <1>1, <1>2, <3>3, <3>6 DEF ShellTravel, ShellPlaces
    <3>8. OneOpening'
      BY <2>2, <3>4 DEF OneOpening
    <3>9. ShellEnds'
      BY <1>0, <1>1, <1>2, <3>5 DEF ShellEnds
    <3>10. ShellHook' /\ Command'
      BY <1>0, <1>1, <2>1, <3>1, <3>5 DEF ShellHook, Command, Shells!ConnectedHasShell, Shells!CommandTypedOnce
    <3>11. Shells!ShellsAreHeld'
      <4> SUFFICES ASSUME NEW t \in Shells!Shell, pty'[t] = "running"
                   PROVE  (t = shell' /\ shellMount' # "over") \/ Has(shellEvents', Opened(t)) \/ Has(shellCalls', Close(t))
        BY SentIs DEF Shells!ShellsAreHeld, Opened, Close
      <4>1. (t = shell /\ shellMount # "over") \/ Has(shellEvents, Opened(t)) \/ Has(shellCalls, Close(t))
        BY <1>0, <1>1, SentIs DEF Shells!ShellsAreHeld, Opened, Close
      <4>3. Has(shellEvents, Opened(t)) => Has(shellEvents', Opened(t)) \/ t = s
        BY <1>2, <1>3, <1>6, SentIs
      <4> QED BY <1>1, <3>1, <3>3, <4>1, <4>3
    <3> QED BY <3>7, <3>8, <3>9, <3>10, <3>11 DEF ShellInv
  <2> QED BY <2>4, <2>5
<1>7. CASE m.kind = "failed"
  <2>1. /\ opening' = FALSE /\ shellStatus' = (IF shellAlive THEN "error" ELSE shellStatus)
        /\ UNCHANGED <<shell, shellShown, ran, typing, typed, shellCalls>>
    BY <1>7 DEF Shells!TabHears, Shells!command
  <2>2. \A i \in DOMAIN shellEvents' : shellEvents'[i].kind \notin {"opened", "failed"}
    BY <1>2, <1>7
  <2>3. \A i \in DOMAIN shellCalls : shellCalls[i].kind # "open"
    <3>1. \A i \in DOMAIN shellCalls : shellCalls[i] \in CallMsg
      BY <1>0 DEF ShellTravel
    <3>2. \A i \in DOMAIN shellCalls : shellCalls[i].kind = "open" => shellCalls[i] = Ask(opens)
      BY <1>0, <3>1, MsgsAre DEF OneOpening
    <3> QED BY <1>2, <1>7, <3>2 DEF Has
  <2>4. owner /\ shell = 0
    BY <1>0, <1>1, <1>2, <1>7 DEF ShellPlaces, ShellHook
  <2>5. ShellTravel' /\ ShellPlaces'
    BY <1>0, <1>1, <1>2, <2>1, <2>4 DEF ShellTravel, ShellPlaces
  <2>6. OneOpening'
    BY <2>1, <2>2, <2>3 DEF OneOpening
  <2>7. ShellEnds'
    BY <1>0, <1>1, <1>2, <2>1 DEF ShellEnds
  <2>8. ShellHook' /\ Command'
    BY <1>0, <1>1, <2>1, <2>4 DEF ShellHook, Command, Shells!ConnectedHasShell, Shells!CommandTypedOnce
  <2>9. Shells!ShellsAreHeld'
    <3>1. \A t : Has(shellEvents, Opened(t)) => Has(shellEvents', Opened(t))
      BY <1>2, <1>3, <1>7, SentIs
    <3> QED BY <1>0, <1>1, <2>1, <3>1, SentIs DEF Shells!ShellsAreHeld, Opened
  <2> QED BY <2>5, <2>6, <2>7, <2>8, <2>9 DEF ShellInv
<1>8. CASE m.kind = "exit"
  <2>1. Shells!Exited(s) /\ UNCHANGED opening
    BY <1>8 DEF Shells!TabHears
  <2>2. UNCHANGED <<typed, shellCalls>>
    BY <2>1 DEF Shells!Exited, Shells!command
  <2>3. pty[s] = "exited" /\ owner
    BY <1>0, <1>1, <1>2, <1>3, <1>8 DEF ShellEnds, ShellPlaces
  <2>4. ShellTravel' /\ ShellPlaces'
    BY <1>0, <1>1, <1>2, <2>2, <2>3 DEF ShellTravel, ShellPlaces
  <2>5. OneOpening'
    BY <1>0, <1>1, <1>2, <2>1, <2>2 DEF OneOpening
  <2>6. ShellEnds'
    BY <1>0, <1>1, <1>2, <2>2 DEF ShellEnds
  <2>7. \A t : Has(shellEvents, Opened(t)) => Has(shellEvents', Opened(t))
    BY <1>2, <1>3, <1>8, SentIs
  <2>8. \A t : t # s /\ Has(shellEvents, Exit(t)) => Has(shellEvents', Exit(t))
    BY <1>2, <1>3, <1>8, SentIs
  <2>9. CASE s = shell /\ shellMount = "mounted"
    <3>1. shell' = 0 /\ shellShown' = 0 /\ shellStatus' = "disconnected" /\ ran' = ran /\ typing' = 0
      BY <2>1, <2>9 DEF Shells!Exited, Shells!Planned
    <3>2. ShellHook' /\ Command'
      BY <1>0, <1>1, <1>4, <2>1, <2>2, <3>1 DEF ShellHook, Command, Shells!ConnectedHasShell, Shells!CommandTypedOnce
    <3>3. Shells!ShellsAreHeld'
      BY <1>0, <1>1, <2>2, <2>3, <2>7, <2>9, SentIs DEF Shells!ShellsAreHeld, Opened
    <3> QED BY <2>4, <2>5, <2>6, <3>2, <3>3 DEF ShellInv
  <2>10. CASE ~(s = shell /\ shellMount = "mounted")
    <3>1. UNCHANGED <<shell, shellShown, shellStatus, ran, typing>>
      BY <2>1, <2>10 DEF Shells!Exited, Shells!command
    <3>2. Shells!ConnectedHasShell'
      <4>1. shellMount = "mounted" /\ shellStatus = "connected" => shell = shellShown /\ (shell \in sessions \/ Has(shellEvents, Exit(shell)))
        BY <1>0, SentIs DEF ShellHook, Shells!ConnectedHasShell, Exit
      <4> QED BY <1>1, <2>8, <2>10, <3>1, <4>1, SentIs DEF Shells!ConnectedHasShell, Exit
    <3>3. ShellHook' /\ Command'
      BY <1>0, <1>1, <2>1, <2>2, <3>1, <3>2 DEF ShellHook, Command, Shells!CommandTypedOnce
    <3>4. Shells!ShellsAreHeld'
      BY <1>0, <1>1, <2>2, <2>7, <3>1, SentIs DEF Shells!ShellsAreHeld, Opened
    <3> QED BY <2>4, <2>5, <2>6, <3>3, <3>4 DEF ShellInv
  <2> QED BY <2>9, <2>10
<1> QED BY <1>3, <1>6, <1>7, <1>8

LEMMA ShellCleans == ASSUME ShellInv, Shells!Cleanup PROVE ShellInv'
<1>0. ShellTravel /\ ShellPlaces /\ OneOpening /\ ShellEnds /\ ShellHook /\ Command /\ Shells!ShellsAreHeld
  BY DEF ShellInv
<1>1. /\ shellMount = "leaving" /\ shellMount' = "over" /\ shell' = 0 /\ shellStatus' = "cleared" /\ shellShown' = 0
      /\ shellCalls' = (IF shell # 0 THEN Append(shellCalls, Close(shell)) ELSE shellCalls)
      /\ UNCHANGED <<pty, sessions, owner, opens, opening, shellAlive, ran, typing, typed, shellEvents>>
  BY DEF Shells!Cleanup, Shells!shells, Shells!command, Close
<1>2. MaxShells \in Nat /\ 0 \in 0 .. MaxShells /\ \A t \in Shells!Shell : t # 0
  BY BoundsAssumption DEF BoundsAssumption, Shells!Shell
<1>3. /\ shellCalls' \in Seq(CallMsg)
      /\ \A n : Has(shellCalls, n) => Has(shellCalls', n)
      /\ \A t : Has(shellCalls', Ask(t)) => Has(shellCalls, Ask(t))
      /\ shell # 0 => Has(shellCalls', Close(shell))
      /\ \A i \in DOMAIN shellCalls' : shellCalls'[i].kind = "open" => shellCalls'[i].id = opens /\ opening /\ pty[opens] = "none"
      /\ \A i, j \in DOMAIN shellCalls' : shellCalls'[i].kind = "open" /\ shellCalls'[j].kind = "open" => i = j
  <2>1. CASE shell = 0
    BY <1>0, <1>1, <2>1 DEF ShellTravel, OneOpening
  <2>2. CASE shell # 0
    <3> DEFINE c == Close(shell)
    <3>1. shell \in Shells!Shell
      BY <1>0, <1>2, <2>2 DEF ShellHook, Shells!Shell
    <3>2. c \in CallMsg /\ c.kind # "open" /\ shellCalls' = Append(shellCalls, c) /\ \A t : c # Ask(t)
      BY <1>1, <2>2, <3>1, MsgsAre, SentIs
    <3> HIDE DEF c
    <3>3. /\ shellCalls' \in Seq(CallMsg) /\ \A n : Has(shellCalls', n) <=> Has(shellCalls, n) \/ n = c
          /\ \A i \in DOMAIN shellCalls' : shellCalls'[i].kind = "open" => shellCalls'[i].id = opens /\ opening /\ pty[opens] = "none"
          /\ \A i, j \in DOMAIN shellCalls' : shellCalls'[i].kind = "open" /\ shellCalls'[j].kind = "open" => i = j
      BY <3>2, CallAdded
    <3> QED BY <3>2, <3>3 DEF c
  <2> QED BY <2>1, <2>2
<1>4. owner
  BY <1>0, <1>1 DEF ShellPlaces
<1>5. ShellTravel' /\ ShellPlaces'
  BY <1>0, <1>1, <1>3, <1>4 DEF ShellTravel, ShellPlaces
<1>6. OneOpening'
  BY <1>0, <1>1, <1>3 DEF OneOpening
<1>7. ShellEnds'
  BY <1>0, <1>1 DEF ShellEnds
<1>8. ShellHook'
  BY <1>0, <1>1, <1>2 DEF ShellHook, Shells!ConnectedHasShell
<1>9. Command'
  BY <1>0, <1>1 DEF Command, Shells!CommandTypedOnce
<1>10. Shells!ShellsAreHeld'
  BY <1>0, <1>1, <1>2, <1>3, SentIs DEF Shells!ShellsAreHeld, Close, Opened
<1> QED BY <1>5, <1>6, <1>7, <1>8, <1>9, <1>10 DEF ShellInv

LEMMA ShellRests ==
  ASSUME ShellInv, Shells!Unmount \/ Shells!TimerFires \/ UNCHANGED shellTab
  PROVE  ShellInv'
<1>0. ShellTravel /\ ShellPlaces /\ OneOpening /\ ShellEnds /\ ShellHook /\ Command /\ Shells!ShellsAreHeld
  BY DEF ShellInv
<1>1. /\ UNCHANGED <<pty, sessions, owner, opens, opening, shell, shellStatus, shellShown, ran, shellCalls, shellEvents>>
      /\ \/ UNCHANGED <<shellMount, shellAlive>> \/ (shellMount = "mounted" /\ shellMount' = "leaving" /\ shellAlive' = FALSE)
  BY DEF Shells!Unmount, Shells!TimerFires, shellTab, Shells!shells, Shells!hook
<1>2. ShellTravel' /\ ShellPlaces'
  BY <1>0, <1>1 DEF ShellTravel, ShellPlaces
<1>3. OneOpening' /\ ShellEnds'
  BY <1>0, <1>1 DEF OneOpening, ShellEnds, Has
<1>4. ShellHook' /\ Shells!ShellsAreHeld'
  <2>1. \A k, t : (Shells!Sent(shellEvents', k, t) <=> Shells!Sent(shellEvents, k, t)) /\ (Shells!Sent(shellCalls', k, t) <=> Shells!Sent(shellCalls, k, t))
    BY <1>1
  <2>2. Shells!ConnectedHasShell'
    BY <1>0, <1>1, <2>1 DEF ShellHook, Shells!ConnectedHasShell
  <2>3. Shells!ShellsAreHeld'
    BY <1>0, <1>1, <2>1 DEF Shells!ShellsAreHeld
  <2>4. owner' \in BOOLEAN /\ opening' \in BOOLEAN /\ shellAlive' \in BOOLEAN
    <3>1. owner \in BOOLEAN /\ opening \in BOOLEAN /\ shellAlive \in BOOLEAN
      BY <1>0 DEF ShellHook
    <3> QED BY <1>1, <3>1
  <2>5. shellAlive' <=> shellMount' = "mounted"
    <3>1. shellAlive <=> shellMount = "mounted"
      BY <1>0 DEF ShellHook
    <3> QED BY <1>1, <3>1
  <2>6. shell' \in 0 .. MaxShells /\ shellShown' \in 0 .. MaxShells /\ (opening' => shell' = 0)
        /\ shellStatus' \in {"connecting", "connected", "disconnected", "error", "cleared"}
    BY <1>0, <1>1 DEF ShellHook
  <2>7. shellMount' \in {"mounted", "leaving", "over"} /\ (shellMount' = "mounted" => (shellStatus' = "connected" <=> shell' # 0))
    BY <1>0, <1>1 DEF ShellHook
  <2>8. ShellHook'
    BY <2>2, <2>4, <2>5, <2>6, <2>7 DEF ShellHook
  <2> QED BY <2>3, <2>8
<1>5. Command'
  <2>1. 0 \in 0 .. MaxShells
    BY BoundsAssumption DEF BoundsAssumption
  <2>2. CASE Shells!TimerFires
    <3>1. typing # 0 /\ typed' = Append(typed, typing) /\ typing' = 0 /\ UNCHANGED <<ran, shellMount, shellShown>>
      BY <2>2 DEF Shells!TimerFires, Shells!hook
    <3>2. typed = <<>> /\ ran /\ typing \in Shells!Shell
      BY <1>0, <3>1 DEF Command, Shells!CommandTypedOnce, Shells!Shell
    <3>3. typed' = <<typing>> /\ typed' \in Seq(Shells!Shell) /\ Len(typed') = 1
      BY <3>1, <3>2
    <3> QED BY <1>0, <2>1, <3>1, <3>2, <3>3 DEF Command, Shells!CommandTypedOnce
  <2>3. CASE Shells!Unmount
    BY <1>0, <1>1, <2>1, <2>3 DEF Shells!Unmount, Command, Shells!CommandTypedOnce
  <2>4. CASE UNCHANGED shellTab
    BY <1>0, <2>4 DEF shellTab, Command, Shells!CommandTypedOnce
  <2> QED BY <2>2, <2>3, <2>4
<1> QED BY <1>2, <1>3, <1>4, <1>5 DEF ShellInv

LEMMA NextShell == ASSUME ShellInv, Shells!Next \/ UNCHANGED shellTab PROVE ShellInv'
  BY ShellOpens, ShellCloses, ShellExits, ShellsDestroyed, ShellHears, ShellRestarts, ShellCleans, ShellRests DEF Shells!Next

-----------------------------------------------------------------------------
(* The VNC tab *)

Busy(r) == rfb[r] \in {"handshake", "up", "closing"}

\* Unless Reconnect overtook one, an attempt is on its way or one connection is not over.
OneRfb ==
  /\ vncOpens \in {0, 1} /\ (vncOpens = 1 => \A r \in Rfb : ~Busy(r))
  /\ \A r, q \in Rfb : Busy(r) /\ Busy(q) => r = q

VncInv ==
  /\ Vnc!VncTypeOK /\ (vncAlive <=> vncMount = "on")
  /\ vncMount = "new" => vncOpens = 0 /\ ~vncAborted /\ \A r \in Rfb : rfb[r] = "none"
  /\ vncAborted => vncStatus # "connecting"
  /\ \A r \in watchdog : rfb[r] \in {"handshake", "closing"}
  /\ ~overtaken => OneRfb
  /\ Vnc!RfbIsHeld /\ Vnc!NeverSpins /\ Vnc!ConnectedIsUp

LEMMA InitVnc == Vnc!VncInit => VncInv
<1> SUFFICES ASSUME Vnc!VncInit PROVE VncInv
  OBVIOUS
<1> USE DEF Vnc!VncInit
<1>1. Vnc!VncTypeOK
  <2>1. {vncAlive, vncStarted, vncAborted, cleanup, overtaken} \subseteq BOOLEAN
    OBVIOUS
  <2>2. vncMount \in {"new", "on", "off"} /\ vncOpens \in 0 .. 2 /\ watchdog \subseteq Rfb /\ verifying \subseteq Rfb
    OBVIOUS
  <2>3. /\ rfb \in [Rfb -> {"none", "handshake", "up", "closing", "gone"}] /\ vncRef \in Rfb \cup {None}
        /\ vncStatus \in {"connecting", "connected", "disconnected", "error"}
    OBVIOUS
  <2> QED BY <2>1, <2>2, <2>3 DEF Vnc!VncTypeOK
<1>2. (vncAlive <=> vncMount = "on") /\ \A r \in Rfb : rfb[r] = "none"
  OBVIOUS
<1>3. OneRfb /\ Vnc!RfbIsHeld /\ Vnc!NeverSpins /\ Vnc!ConnectedIsUp
  BY <1>2 DEF OneRfb, Busy, Vnc!RfbIsHeld, Vnc!NeverSpins, Vnc!ConnectedIsUp, Vnc!Live
<1> QED BY <1>1, <1>2, <1>3 DEF VncInv

\* disconnectRfb() ends what the tab holds, and nothing else.
LEMMA LetsGo ==
  ASSUME VncInv, Vnc!disconnectRfb
  PROVE  /\ vncRef' = None /\ rfb' \in [Rfb -> {"none", "handshake", "up", "closing", "gone"}]
         /\ \A r \in Rfb : \/ rfb'[r] = rfb[r] /\ (r # vncRef \/ ~Vnc!Live(r))
                           \/ r = vncRef /\ Vnc!Live(r) /\ rfb'[r] = "closing"
<1>1. vncRef # None => vncRef \in Rfb
  BY DEF VncInv, Vnc!VncTypeOK
<1>2. rfb \in [Rfb -> {"none", "handshake", "up", "closing", "gone"}] /\ None \notin Rfb
  BY NoneAssumption DEF VncInv, Vnc!VncTypeOK, NoneAssumption
<1> QED BY <1>1, <1>2 DEF Vnc!disconnectRfb, Vnc!Live

LEMMA VncStarts == ASSUME VncInv, Vnc!Mount \/ Vnc!reconnect PROVE VncInv'
<1> USE DEF VncInv, Vnc!VncTypeOK
<1>1. CASE Vnc!Mount
  BY <1>1 DEF Vnc!Mount, Vnc!connect, OneRfb, Busy, Vnc!RfbIsHeld, Vnc!NeverSpins, Vnc!ConnectedIsUp, Vnc!Live
<1>2. CASE Vnc!reconnect
  <2>1. /\ vncRef' = None /\ rfb' \in [Rfb -> {"none", "handshake", "up", "closing", "gone"}]
        /\ \A r \in Rfb : rfb'[r] \in {rfb[r], "closing"} /\ (rfb[r] \notin {"handshake", "up"} => rfb'[r] = rfb[r])
    BY <1>2, LetsGo DEF Vnc!reconnect, Vnc!Live
  <2>2. /\ vncMount = "on" /\ vncMount' = "on" /\ vncAlive' = TRUE /\ vncAborted' = FALSE /\ cleanup' = TRUE /\ vncStarted' = TRUE
        /\ overtaken' = (overtaken \/ ~Vnc!Over) /\ UNCHANGED <<watchdog, verifying>>
        /\ vncOpens < 2 /\ vncOpens' = vncOpens + 1 /\ vncStatus' = "connecting"
    BY <1>2 DEF Vnc!reconnect, Vnc!connect
  <2>3. Vnc!VncTypeOK'
    <3>1. overtaken' \in BOOLEAN
      BY <2>2
    <3>2. {vncAlive', vncStarted', vncAborted', cleanup', overtaken'} \subseteq BOOLEAN
      BY <2>2, <3>1
    <3>3. vncMount' \in {"new", "on", "off"} /\ vncOpens' \in 0 .. 2 /\ watchdog' \subseteq Rfb /\ verifying' \subseteq Rfb
      BY <2>2
    <3>4. vncRef' \in Rfb \cup {None} /\ vncStatus' \in {"connecting", "connected", "disconnected", "error"}
      BY <2>1, <2>2
    <3> QED BY <2>1, <3>2, <3>3, <3>4
  <2>4. ~overtaken' => ~overtaken /\ vncOpens = 0 /\ \A r \in Rfb : rfb[r] \in {"none", "gone"} /\ rfb'[r] = rfb[r]
    BY <2>1, <2>2 DEF Vnc!Over
  <2>5. \A r \in watchdog' : rfb'[r] \in {"handshake", "closing"}
    BY <2>1, <2>2
  <2>6. ~overtaken' => OneRfb'
    BY <2>2, <2>4 DEF OneRfb, Busy
  <2>7. Vnc!RfbIsHeld' /\ Vnc!NeverSpins' /\ Vnc!ConnectedIsUp'
    BY <2>2, <2>3, <2>4 DEF Vnc!RfbIsHeld, Vnc!NeverSpins, Vnc!ConnectedIsUp, Vnc!Live
  <2> QED BY <2>2, <2>3, <2>5, <2>6, <2>7
<1> QED BY <1>1, <1>2

LEMMA VncStops == ASSUME VncInv, Vnc!Unmount \/ Vnc!CleanUp \/ Vnc!abortConnect PROVE VncInv'
<1> USE DEF VncInv, Vnc!VncTypeOK
<1>1. CASE Vnc!Unmount
  BY <1>1 DEF Vnc!Unmount, OneRfb, Busy, Vnc!RfbIsHeld, Vnc!NeverSpins, Vnc!ConnectedIsUp, Vnc!Live
<1>2. CASE Vnc!CleanUp /\ vncAlive
  BY <1>2 DEF Vnc!CleanUp, OneRfb, Busy, Vnc!RfbIsHeld, Vnc!NeverSpins, Vnc!ConnectedIsUp, Vnc!Live
<1>3. CASE (Vnc!CleanUp /\ ~vncAlive) \/ Vnc!abortConnect
  <2>1. /\ vncRef' = None /\ rfb' \in [Rfb -> {"none", "handshake", "up", "closing", "gone"}]
        /\ \A r \in Rfb : \/ rfb'[r] = rfb[r] /\ (r # vncRef \/ ~Vnc!Live(r))
                          \/ r = vncRef /\ Vnc!Live(r) /\ rfb'[r] = "closing"
    BY <1>3, LetsGo DEF Vnc!CleanUp, Vnc!abortConnect
  <2>2. /\ UNCHANGED <<vncMount, vncAlive, vncOpens, watchdog, verifying, overtaken>>
        /\ cleanup' \in BOOLEAN /\ vncStarted' \in BOOLEAN
        /\ \/ ~vncAlive /\ UNCHANGED <<vncAborted, vncStatus>>
           \/ vncMount = "on" /\ vncAborted' = TRUE /\ vncStatus' = "disconnected"
    BY <1>3 DEF Vnc!CleanUp, Vnc!abortConnect
  <2>3. Vnc!VncTypeOK'
    BY <2>1, <2>2
  <2>4. \A r \in Rfb : rfb'[r] \in {rfb[r], "closing"} /\ (rfb[r] \notin {"handshake", "up"} => rfb'[r] = rfb[r])
    BY <2>1 DEF Vnc!Live
  <2>5. \A r \in watchdog' : rfb'[r] \in {"handshake", "closing"}
    BY <2>2, <2>4
  <2>6. ~overtaken' => OneRfb'
    BY <2>2, <2>4 DEF OneRfb, Busy
  <2>7. ~overtaken' => \A r \in Rfb : ~Vnc!Live(r)'
    BY <2>1, <2>2 DEF Vnc!RfbIsHeld, Vnc!Live
  <2>8. Vnc!RfbIsHeld' /\ Vnc!NeverSpins' /\ Vnc!ConnectedIsUp'
    BY <2>2, <2>7 DEF Vnc!RfbIsHeld, Vnc!NeverSpins, Vnc!ConnectedIsUp
  <2>9. vncMount' = "new" => vncOpens' = 0 /\ ~vncAborted' /\ \A r \in Rfb : rfb'[r] = "none"
    BY <2>2, <2>4
  <2> QED BY <2>2, <2>3, <2>5, <2>6, <2>8, <2>9
<1> QED BY <1>1, <1>2, <1>3 DEF Vnc!CleanUp

LEMMA VncOpens == ASSUME VncInv, Vnc!Opened \/ Vnc!OpenFailed PROVE VncInv'
<1> USE DEF VncInv, Vnc!VncTypeOK
<1>1. CASE Vnc!OpenFailed
  BY <1>1 DEF Vnc!OpenFailed, Vnc!refs, OneRfb, Busy, Vnc!RfbIsHeld, Vnc!NeverSpins, Vnc!ConnectedIsUp, Vnc!Live
<1>2. CASE Vnc!Opened /\ (~vncAlive \/ vncAborted)
  BY <1>2 DEF Vnc!Opened, Vnc!refs, OneRfb, Busy, Vnc!RfbIsHeld, Vnc!NeverSpins, Vnc!ConnectedIsUp, Vnc!Live
<1>3. CASE Vnc!Opened /\ ~(~vncAlive \/ vncAborted)
  <2>1. PICK r \in Rfb : /\ rfb[r] = "none" /\ rfb' = [rfb EXCEPT ![r] = "handshake"]
                         /\ vncRef' = r /\ watchdog' = watchdog \cup {r}
    BY <1>3 DEF Vnc!Opened
  <2>2. /\ vncOpens > 0 /\ vncOpens' = vncOpens - 1 /\ vncAlive /\ ~vncAborted /\ vncMount = "on"
        /\ UNCHANGED <<vncMount, vncAlive, vncStarted, vncAborted, cleanup, verifying, vncStatus, overtaken>>
    BY <1>3 DEF Vnc!Opened, Vnc!refs
  <2>3. /\ rfb' \in [Rfb -> {"none", "handshake", "up", "closing", "gone"}]
        /\ rfb'[r] = "handshake" /\ \A q \in Rfb \ {r} : rfb'[q] = rfb[q]
    BY <2>1
  <2>4. Vnc!VncTypeOK'
    BY <2>1, <2>2, <2>3
  <2>5. \A q \in watchdog' : rfb'[q] \in {"handshake", "closing"}
    BY <2>1, <2>3
  <2>6. ~overtaken => vncOpens = 1 /\ \A q \in Rfb : ~Busy(q)
    BY <2>2 DEF OneRfb
  <2>7. ~overtaken => OneRfb'
    BY <2>2, <2>3, <2>6 DEF OneRfb, Busy
  <2>8. Vnc!RfbIsHeld'
    BY <2>1, <2>2, <2>3, <2>6 DEF Vnc!RfbIsHeld, Vnc!Live, Busy
  <2>9. Vnc!NeverSpins'
    BY <2>1 DEF Vnc!NeverSpins
  <2>10. Vnc!ConnectedIsUp'
    BY <2>2, <2>3, <2>6 DEF Vnc!ConnectedIsUp, Busy
  <2> QED BY <2>2, <2>4, <2>5, <2>7, <2>8, <2>9, <2>10
<1> QED BY <1>1, <1>2, <1>3

\* A connection comes up, fails, drops or waits; the status follows while the tab is there.
LEMMA VncTells ==
  ASSUME VncInv, Vnc!Connected \/ Vnc!Failed \/ Vnc!CredentialsRequired \/ Vnc!Dropped \/ Vnc!ServerVerification
  PROVE  VncInv'
<1> USE DEF VncInv, Vnc!VncTypeOK
<1>1. CASE Vnc!CredentialsRequired
  BY <1>1 DEF Vnc!CredentialsRequired, Vnc!Shows, Vnc!refs, OneRfb, Busy, Vnc!RfbIsHeld, Vnc!NeverSpins, Vnc!ConnectedIsUp, Vnc!Live
<1>2. CASE Vnc!ServerVerification
  BY <1>2 DEF Vnc!ServerVerification, Vnc!refs, OneRfb, Busy, Vnc!RfbIsHeld, Vnc!NeverSpins, Vnc!ConnectedIsUp, Vnc!Live
<1>3. ASSUME NEW r \in Rfb, NEW s \in {"up", "closing"}, Vnc!Live(r), rfb' = [rfb EXCEPT ![r] = s],
             UNCHANGED <<vncMount, vncAlive, vncStarted, vncAborted, cleanup, vncOpens, vncRef, verifying, overtaken>>,
             \/ watchdog' = watchdog \ {r} /\ vncAlive /\ vncStatus' = (IF s = "up" THEN "connected" ELSE "error")
             \/ watchdog' = watchdog \ {r} /\ ~vncAlive /\ UNCHANGED vncStatus
             \/ s = "closing" /\ UNCHANGED <<watchdog, vncStatus>>
      PROVE  VncInv'
  <2>1. /\ rfb' \in [Rfb -> {"none", "handshake", "up", "closing", "gone"}]
        /\ rfb'[r] = s /\ \A q \in Rfb \ {r} : rfb'[q] = rfb[q]
    BY <1>3
  <2>2. Vnc!VncTypeOK' /\ \A q \in watchdog' : rfb'[q] \in {"handshake", "closing"}
    BY <1>3, <2>1
  <2>3. \A q \in Rfb : (Busy(q)' => Busy(q)) /\ (Vnc!Live(q)' => Vnc!Live(q))
    BY <1>3, <2>1 DEF Busy, Vnc!Live
  <2>4. ~overtaken' => OneRfb'
    BY <1>3, <2>3 DEF OneRfb
  <2>5. Vnc!RfbIsHeld'
    BY <1>3, <2>3 DEF Vnc!RfbIsHeld
  <2>6. Vnc!NeverSpins'
    BY <1>3, <2>1 DEF Vnc!NeverSpins
  <2>7. Vnc!ConnectedIsUp'
    BY <1>3, <2>1 DEF Vnc!ConnectedIsUp
  <2>8. rfb[r] # "none"
    BY <1>3 DEF Vnc!Live
  <2> QED BY <1>3, <2>2, <2>4, <2>5, <2>6, <2>7, <2>8
<1>4. CASE Vnc!Connected
  <2>1. PICK r \in Rfb : /\ rfb[r] = "handshake" /\ rfb' = [rfb EXCEPT ![r] = "up"]
                         /\ watchdog' = watchdog \ {r} /\ vncStatus' = IF vncAlive THEN "connected" ELSE vncStatus
    BY <1>4 DEF Vnc!Connected, Vnc!Shows
  <2> QED BY <1>3, <1>4, <2>1 DEF Vnc!Connected, Vnc!refs, Vnc!Live
<1>5. CASE Vnc!Failed
  <2>1. PICK r \in Rfb : /\ Vnc!Live(r) /\ rfb' = [rfb EXCEPT ![r] = "closing"]
                         /\ watchdog' = watchdog \ {r} /\ vncStatus' = IF vncAlive THEN "error" ELSE vncStatus
    BY <1>5 DEF Vnc!Failed, Vnc!Shows
  <2> QED BY <1>3, <1>5, <2>1 DEF Vnc!Failed, Vnc!refs
<1>6. CASE Vnc!Dropped
  BY <1>3, <1>6 DEF Vnc!Dropped, Vnc!refs
<1> QED BY <1>1, <1>2, <1>4, <1>5, <1>6

\* The ten seconds, a refused key: the tab ends what it holds and shows the error.
LEMMA VncGivesUp ==
  ASSUME VncInv, NEW W \in SUBSET watchdog, watchdog' = W, verifying' \in SUBSET Rfb,
         \/ vncAlive /\ vncStatus' = "error" /\ Vnc!disconnectRfb
         \/ ~vncAlive /\ UNCHANGED <<rfb, vncRef, vncStatus>>
         \/ UNCHANGED <<rfb, vncRef, vncStatus>> /\ \A r \in watchdog \ W : rfb[r] = "closing" \/ ~vncAlive \/ overtaken,
         UNCHANGED <<vncMount, vncAlive, vncStarted, vncAborted, cleanup, vncOpens, overtaken>>
  PROVE  VncInv'
<1> USE DEF VncInv, Vnc!VncTypeOK
<1>1. CASE vncAlive /\ vncStatus' = "error" /\ Vnc!disconnectRfb
  <2>1. /\ vncRef' = None /\ rfb' \in [Rfb -> {"none", "handshake", "up", "closing", "gone"}]
        /\ \A r \in Rfb : \/ rfb'[r] = rfb[r] /\ (r # vncRef \/ ~Vnc!Live(r))
                          \/ r = vncRef /\ Vnc!Live(r) /\ rfb'[r] = "closing"
    BY <1>1, LetsGo
  <2>2. \A r \in Rfb : rfb'[r] \in {rfb[r], "closing"} /\ (rfb[r] \notin {"handshake", "up"} => rfb'[r] = rfb[r])
    BY <2>1 DEF Vnc!Live
  <2>3. Vnc!VncTypeOK' /\ \A r \in watchdog' : rfb'[r] \in {"handshake", "closing"}
    BY <1>1, <2>1, <2>2
  <2>4. ~overtaken' => OneRfb'
    BY <2>2 DEF OneRfb, Busy
  <2>5. ~overtaken' => \A r \in Rfb : ~Vnc!Live(r)'
    BY <2>1 DEF Vnc!RfbIsHeld, Vnc!Live
  <2>6. Vnc!RfbIsHeld' /\ Vnc!NeverSpins' /\ Vnc!ConnectedIsUp'
    BY <1>1, <2>5 DEF Vnc!RfbIsHeld, Vnc!NeverSpins, Vnc!ConnectedIsUp
  <2> QED BY <1>1, <2>3, <2>4, <2>6
<1>2. CASE UNCHANGED <<rfb, vncRef, vncStatus>> /\ \A r \in watchdog \ W : rfb[r] = "closing" \/ ~vncAlive \/ overtaken
  <2>1. Vnc!NeverSpins'
    BY <1>2 DEF Vnc!NeverSpins
  <2> QED BY <1>2, <2>1 DEF OneRfb, Busy, Vnc!RfbIsHeld, Vnc!ConnectedIsUp, Vnc!Live
<1> QED BY <1>1, <1>2

LEMMA VncWatches == ASSUME VncInv, Vnc!Watchdog \/ Vnc!Verified PROVE VncInv'
<1>1. CASE Vnc!Watchdog
  <2>1. PICK r \in watchdog :
          /\ watchdog' = watchdog \ {r}
          /\ IF vncAlive /\ vncRef = r THEN vncStatus' = "error" /\ Vnc!disconnectRfb ELSE UNCHANGED <<vncStatus, rfb, vncRef>>
    BY <1>1 DEF Vnc!Watchdog
  <2>2. UNCHANGED <<vncMount, vncAlive, vncStarted, vncAborted, cleanup, vncOpens, verifying, overtaken>>
    BY <1>1 DEF Vnc!Watchdog, Vnc!refs
  <2>3. watchdog \ {r} \in SUBSET watchdog /\ verifying' \in SUBSET Rfb /\ r \in Rfb /\ rfb[r] \in {"handshake", "closing"}
    BY <2>1, <2>2 DEF VncInv, Vnc!VncTypeOK
  <2>4. ~overtaken /\ vncRef # r => rfb[r] = "closing"
    BY <2>3 DEF VncInv, Vnc!RfbIsHeld, Vnc!Live
  <2> QED BY <2>1, <2>2, <2>3, <2>4, VncGivesUp
<1>2. CASE Vnc!Verified
  <2>1. PICK r \in verifying :
          /\ verifying' = verifying \ {r}
          /\ \/ UNCHANGED <<rfb, vncRef, vncStatus, watchdog>>
             \/ watchdog' = watchdog \ {r} /\ Vnc!Refuse
    BY <1>2 DEF Vnc!Verified
  <2>2. UNCHANGED <<vncMount, vncAlive, vncStarted, vncAborted, cleanup, vncOpens, overtaken>>
    BY <1>2 DEF Vnc!Verified, Vnc!refs
  <2>3. verifying' \in SUBSET Rfb /\ watchdog \ {r} \in SUBSET watchdog
    BY <2>1 DEF VncInv, Vnc!VncTypeOK
  <2> QED BY <2>1, <2>2, <2>3, VncGivesUp DEF Vnc!Refuse, Vnc!Shows
<1> QED BY <1>1, <1>2

LEMMA VncEnds == ASSUME VncInv, Vnc!Disconnect PROVE VncInv'
<1> USE DEF VncInv, Vnc!VncTypeOK
<1>1. PICK r \in Rfb : rfb[r] = "closing" /\ rfb' = [rfb EXCEPT ![r] = "gone"] /\ watchdog' = watchdog \ {r}
  BY DEF Vnc!Disconnect
<1>2. /\ vncRef' = IF vncAlive THEN None ELSE vncRef
      /\ vncStatus' = IF ~vncAlive \/ vncStatus = "error" THEN vncStatus ELSE "disconnected"
      /\ UNCHANGED <<vncMount, vncAlive, vncStarted, vncAborted, cleanup, vncOpens, verifying, overtaken>>
  BY DEF Vnc!Disconnect, Vnc!refs
<1>3. /\ rfb' \in [Rfb -> {"none", "handshake", "up", "closing", "gone"}]
      /\ rfb'[r] = "gone" /\ \A q \in Rfb \ {r} : rfb'[q] = rfb[q]
  BY <1>1
<1>4. Vnc!VncTypeOK' /\ \A q \in watchdog' : rfb'[q] \in {"handshake", "closing"}
  BY <1>1, <1>2, <1>3
<1>5. \A q \in Rfb : Busy(q)' => Busy(q) /\ q # r
  BY <1>3 DEF Busy
<1>6. ~overtaken => OneRfb'
  BY <1>2, <1>5 DEF OneRfb
<1>7. ~overtaken => \A q \in Rfb : ~Vnc!Live(q)'
  BY <1>1, <1>3, <1>5 DEF OneRfb, Busy, Vnc!Live
<1>8. Vnc!RfbIsHeld' /\ Vnc!NeverSpins' /\ Vnc!ConnectedIsUp'
  BY <1>2, <1>7 DEF Vnc!RfbIsHeld, Vnc!NeverSpins, Vnc!ConnectedIsUp
<1>9. vncMount # "new"
  BY <1>1
<1> QED BY <1>2, <1>4, <1>6, <1>8, <1>9

LEMMA NextVnc == ASSUME VncInv, Vnc!VncNext \/ UNCHANGED vncTab PROVE VncInv'
<1>1. CASE UNCHANGED vncTab
  BY <1>1 DEF vncTab, VncInv, Vnc!VncTypeOK, OneRfb, Busy, Vnc!RfbIsHeld, Vnc!NeverSpins, Vnc!ConnectedIsUp, Vnc!Live
<1> QED BY <1>1, VncStarts, VncStops, VncOpens, VncTells, VncWatches, VncEnds DEF Vnc!VncNext

-----------------------------------------------------------------------------
(* The RDP tab *)

OneSession ==
  /\ (rdpOpens = 0 /\ loading \in {0, 1}) \/ (rdpOpens = 1 /\ loading = 0)
  /\ rdpOpens + loading > 0 => \A e \in Element : ~Rdp!Live(e)
  /\ \A e, f \in Element : Rdp!Live(e) /\ Rdp!Live(f) => e = f

RdpInv ==
  /\ Rdp!RdpTypeOK /\ (rdpAlive <=> rdpMount = "on")
  /\ rdpMount = "new" => rdpOpens = 0 /\ loading = 0 /\ ~rdpCleanup /\ \A e \in Element : element[e] = "none"
  /\ rdpOpens + loading <= 2
  /\ ~rdpOvertaken => OneSession
  /\ Rdp!RdpIsHeld /\ Rdp!RdpShowsItsSession

LEMMA InitRdp == Rdp!RdpInit => RdpInv
<1> SUFFICES ASSUME Rdp!RdpInit PROVE RdpInv
  OBVIOUS
<1> USE DEF Rdp!RdpInit
<1>1. Rdp!RdpTypeOK
  <2>1. {rdpAlive, rdpStarted, rdpCleanup, rdpOvertaken} \subseteq BOOLEAN
    OBVIOUS
  <2>2. rdpMount \in {"new", "on", "off"} /\ rdpOpens \in 0 .. 2 /\ loading \in 0 .. 2
    OBVIOUS
  <2>3. /\ element \in [Element -> {"none", "made", "connecting", "up", "over", "gone"}]
        /\ elementRef \in Element \cup {None} /\ uiRef \in Element \cup {None}
        /\ rdpStatus \in Rdp!Status /\ rdpListed \in Rdp!Status \cup {None}
    BY DEF Rdp!Status
  <2> QED BY <2>1, <2>2, <2>3 DEF Rdp!RdpTypeOK
<1>2. (rdpAlive <=> rdpMount = "on") /\ \A e \in Element : element[e] = "none"
  OBVIOUS
<1>3. OneSession /\ Rdp!RdpIsHeld /\ Rdp!RdpShowsItsSession
  BY <1>2 DEF OneSession, Rdp!RdpIsHeld, Rdp!RdpShowsItsSession, Rdp!Live
<1> QED BY <1>1, <1>2, <1>3 DEF RdpInv

LEMMA RdpStarts == ASSUME RdpInv, Rdp!Mount \/ Rdp!reconnect PROVE RdpInv'
<1> USE DEF RdpInv, Rdp!RdpTypeOK
<1>1. /\ rdpMount' = "on" /\ rdpAlive' = TRUE /\ rdpStarted' \in BOOLEAN /\ rdpCleanup' \in BOOLEAN
      /\ rdpOpens + loading < 2 /\ rdpOpens' = rdpOpens + 1 /\ rdpStatus' = "connecting" /\ rdpListed' = "connecting"
      /\ UNCHANGED <<loading, element, elementRef, uiRef>>
      /\ rdpOvertaken' \in BOOLEAN /\ (~rdpOvertaken' => ~rdpOvertaken)
      /\ ~rdpOvertaken' => rdpOpens = 0 /\ loading = 0 /\ \A e \in Element : ~Rdp!Live(e)
  <2>1. CASE Rdp!Mount
    <3>1. \A e \in Element : ~Rdp!Live(e)
      BY <2>1 DEF Rdp!Mount, Rdp!Live
    <3> QED BY <2>1, <3>1 DEF Rdp!Mount, Rdp!connect, Rdp!held
  <2>2. CASE Rdp!reconnect
    <3>1. rdpOvertaken' = (rdpOvertaken \/ ~Rdp!Over)
      BY <2>2 DEF Rdp!reconnect
    <3>2. rdpOvertaken' \in BOOLEAN /\ (~rdpOvertaken' => ~rdpOvertaken /\ Rdp!Over)
      BY <3>1
    <3>3. Rdp!Over => rdpOpens = 0 /\ loading = 0 /\ \A e \in Element : ~Rdp!Live(e)
      BY DEF Rdp!Over
    <3> QED BY <2>2, <3>2, <3>3 DEF Rdp!reconnect, Rdp!connect, Rdp!held
  <2> QED BY <2>1, <2>2
<1>2. Rdp!RdpTypeOK'
  <2>1. {rdpAlive', rdpStarted', rdpCleanup', rdpOvertaken'} \subseteq BOOLEAN
    BY <1>1
  <2>2. rdpMount' \in {"new", "on", "off"} /\ rdpOpens' \in 0 .. 2 /\ loading' \in 0 .. 2
    BY <1>1
  <2>3. rdpStatus' \in Rdp!Status /\ rdpListed' \in Rdp!Status \cup {None}
    BY <1>1 DEF Rdp!Status
  <2> QED BY <1>1, <2>1, <2>2, <2>3
<1>3. \A e \in Element : Rdp!Live(e)' <=> Rdp!Live(e)
  BY <1>1 DEF Rdp!Live
<1>4. ~rdpOvertaken' => OneSession'
  BY <1>1, <1>3 DEF OneSession
<1>5. Rdp!RdpIsHeld'
  BY <1>1, <1>3 DEF Rdp!RdpIsHeld
<1>6. Rdp!RdpShowsItsSession'
  BY <1>1 DEF Rdp!RdpShowsItsSession, Rdp!Live
<1> QED BY <1>1, <1>2, <1>4, <1>5, <1>6

LEMMA RdpStops == ASSUME RdpInv, Rdp!Unmount \/ Rdp!CleanUp PROVE RdpInv'
<1> USE DEF RdpInv, Rdp!RdpTypeOK
<1>1. CASE Rdp!Unmount
  BY <1>1 DEF Rdp!Unmount, Rdp!held, Rdp!shows, OneSession, Rdp!RdpIsHeld, Rdp!RdpShowsItsSession, Rdp!Live
<1>2. CASE Rdp!CleanUp /\ rdpAlive
  BY <1>2 DEF Rdp!CleanUp, Rdp!held, OneSession, Rdp!RdpIsHeld, Rdp!RdpShowsItsSession, Rdp!Live
<1>3. CASE Rdp!CleanUp /\ ~rdpAlive
  <2>1. /\ element' = [e \in Element |-> IF Rdp!Ended(e) THEN "gone" ELSE element[e]]
        /\ elementRef' = None /\ uiRef' = None /\ rdpListed' = None /\ rdpStarted' = FALSE /\ rdpCleanup' = FALSE
        /\ UNCHANGED <<rdpMount, rdpAlive, rdpOpens, loading, rdpStatus, rdpOvertaken>>
    BY <1>3 DEF Rdp!CleanUp
  <2>2. \A e \in Element : element'[e] = "gone" \/ (element'[e] = element[e] /\ e \notin {elementRef, uiRef})
    BY <2>1 DEF Rdp!Ended
  <2>3. element' \in [Element -> {"none", "made", "connecting", "up", "over", "gone"}]
    BY <2>1
  <2>4. Rdp!RdpTypeOK'
    BY <2>1, <2>3
  <2>5. \A e \in Element : Rdp!Live(e)' => Rdp!Live(e) /\ e \notin {elementRef, uiRef}
    BY <2>2 DEF Rdp!Live
  <2>6. ~rdpOvertaken' => OneSession'
    BY <2>1, <2>5 DEF OneSession
  <2>7. Rdp!RdpIsHeld'
    BY <2>1, <2>5 DEF Rdp!RdpIsHeld
  <2>8. Rdp!RdpShowsItsSession'
    BY <1>3, <2>1 DEF Rdp!RdpShowsItsSession
  <2>9. rdpMount = "off"
    BY <1>3 DEF Rdp!CleanUp
  <2> QED BY <2>1, <2>4, <2>6, <2>7, <2>8, <2>9
<1> QED BY <1>1, <1>2, <1>3

LEMMA RdpLoads == ASSUME RdpInv, Rdp!Opened \/ Rdp!Loaded \/ Rdp!OpenFailed PROVE RdpInv'
<1> USE DEF RdpInv, Rdp!RdpTypeOK
<1>1. CASE Rdp!Opened
  <2>1. /\ rdpOpens > 0 /\ rdpOpens' = rdpOpens - 1 /\ loading' = (IF rdpAlive THEN loading + 1 ELSE loading)
        /\ UNCHANGED <<rdpMount, rdpAlive, rdpStarted, rdpCleanup, element, elementRef, uiRef, rdpStatus, rdpListed, rdpOvertaken>>
    BY <1>1 DEF Rdp!Opened, Rdp!refs, Rdp!held, Rdp!shows
  <2>2. \A e \in Element : Rdp!Live(e)' <=> Rdp!Live(e)
    BY <2>1 DEF Rdp!Live
  <2>3. ~rdpOvertaken => OneSession'
    BY <2>1, <2>2 DEF OneSession
  <2>4. Rdp!RdpIsHeld' /\ Rdp!RdpShowsItsSession'
    BY <2>1, <2>2 DEF Rdp!RdpIsHeld, Rdp!RdpShowsItsSession
  <2> QED BY <2>1, <2>3, <2>4
<1>2. CASE Rdp!OpenFailed
  <2>1. /\ \/ rdpOpens > 0 /\ rdpOpens' = rdpOpens - 1 /\ loading' = loading
           \/ loading > 0 /\ loading' = loading - 1 /\ rdpOpens' = rdpOpens
        /\ UNCHANGED <<rdpMount, rdpAlive, rdpStarted, rdpCleanup, element, elementRef, uiRef, rdpOvertaken>>
        /\ IF rdpAlive THEN rdpStatus' = "error" /\ rdpListed' = "error" ELSE UNCHANGED <<rdpStatus, rdpListed>>
    BY <1>2 DEF Rdp!OpenFailed, Rdp!refs, Rdp!held, Rdp!shows, Rdp!Shows
  <2>2. \A e \in Element : Rdp!Live(e)' <=> Rdp!Live(e)
    BY <2>1 DEF Rdp!Live
  <2>3. ~rdpOvertaken => OneSession' /\ \A e \in Element : ~Rdp!Live(e)
    <3>1. ~rdpOvertaken => (\A e \in Element : ~Rdp!Live(e)) /\ rdpOpens' = 0 /\ loading' = 0
      BY <2>1 DEF OneSession
    <3> QED BY <2>2, <3>1 DEF OneSession
  <2>4. Rdp!RdpIsHeld'
    BY <2>1, <2>2 DEF Rdp!RdpIsHeld
  <2>5. Rdp!RdpShowsItsSession'
    BY <2>1, <2>3 DEF Rdp!RdpShowsItsSession, Rdp!Live
  <2>6. Rdp!RdpTypeOK'
    BY <2>1 DEF Rdp!Status
  <2>7. rdpMount # "new" /\ rdpOpens' + loading' <= 2
    BY <2>1
  <2>8. UNCHANGED <<rdpMount, rdpAlive, rdpCleanup, rdpOvertaken>>
    BY <2>1
  <2> HIDE DEF Rdp!RdpTypeOK
  <2> QED BY <2>3, <2>4, <2>5, <2>6, <2>7, <2>8
<1>3. CASE Rdp!Loaded /\ ~rdpAlive
  <2>1. /\ loading > 0 /\ loading' = loading - 1
        /\ UNCHANGED <<rdpMount, rdpAlive, rdpStarted, rdpCleanup, rdpOpens, element, elementRef, uiRef, rdpStatus, rdpListed, rdpOvertaken>>
    BY <1>3 DEF Rdp!Loaded, Rdp!refs, Rdp!shows
  <2> QED BY <1>3, <2>1 DEF OneSession, Rdp!RdpIsHeld, Rdp!RdpShowsItsSession, Rdp!Live
<1>4. CASE Rdp!Loaded /\ rdpAlive
  <2>1. PICK e \in Element : element[e] = "none" /\ element' = [element EXCEPT ![e] = "made"] /\ elementRef' = e
    BY <1>4 DEF Rdp!Loaded
  <2>2. /\ loading > 0 /\ loading' = loading - 1 /\ rdpMount = "on"
        /\ UNCHANGED <<rdpMount, rdpAlive, rdpStarted, rdpCleanup, rdpOpens, uiRef, rdpStatus, rdpListed, rdpOvertaken>>
    BY <1>4 DEF Rdp!Loaded, Rdp!refs, Rdp!shows
  <2>3. /\ element' \in [Element -> {"none", "made", "connecting", "up", "over", "gone"}]
        /\ element'[e] = "made" /\ \A f \in Element \ {e} : element'[f] = element[f]
    BY <2>1
  <2>4. Rdp!RdpTypeOK'
    BY <2>1, <2>2, <2>3
  <2>5. ~rdpOvertaken => \A f \in Element : ~Rdp!Live(f) /\ (Rdp!Live(f)' <=> f = e)
    BY <2>2, <2>3 DEF OneSession, Rdp!Live
  <2>6. ~rdpOvertaken => OneSession'
    BY <2>2, <2>5 DEF OneSession
  <2>7. Rdp!RdpIsHeld'
    BY <2>1, <2>2, <2>5 DEF Rdp!RdpIsHeld
  <2>8. Rdp!RdpShowsItsSession'
    BY <2>1, <2>2, <2>3, <2>5 DEF Rdp!RdpShowsItsSession, Rdp!Live
  <2> QED BY <2>2, <2>4, <2>6, <2>7, <2>8
<1> QED BY <1>1, <1>2, <1>3, <1>4

\* An element becomes ready, its session comes up or is over.
LEMMA RdpRuns == ASSUME RdpInv, Rdp!Ready \/ Rdp!Connected \/ Rdp!SessionEnds PROVE RdpInv'
<1> USE DEF RdpInv, Rdp!RdpTypeOK
<1>1. PICK e \in Element, s \in {"connecting", "up", "over"} :
        /\ Rdp!Live(e) /\ element' = [element EXCEPT ![e] = s]
        /\ uiRef' \in {uiRef, e} /\ (uiRef' = uiRef \/ element[e] = "made")
        /\ \/ s = "connecting" /\ UNCHANGED <<rdpStatus, rdpListed>> /\ element[e] = "made"
           \/ s # "connecting" /\ ~rdpAlive /\ UNCHANGED <<rdpStatus, rdpListed>>
           \/ s = "up" /\ rdpAlive /\ rdpStatus' = "connected" /\ rdpListed' = "connected"
           \/ s = "over" /\ rdpAlive /\ rdpStatus' = rdpListed' /\ rdpStatus' \in {"disconnected", "error"}
           \/ s = "over" /\ rdpAlive /\ rdpStatus = "error" /\ element[e] = "up" /\ UNCHANGED rdpStatus /\ rdpListed' = "disconnected"
  <2>1. CASE Rdp!Ready
    BY <2>1 DEF Rdp!Ready, Rdp!Live, Rdp!shows
  <2>2. CASE Rdp!Connected
    BY <2>2 DEF Rdp!Connected, Rdp!Live, Rdp!Shows, Rdp!shows, Rdp!held
  <2>3. CASE Rdp!SessionEnds
    <3>1. PICK e \in Element :
            \/ /\ element[e] = "up" /\ element' = [element EXCEPT ![e] = "over"]
               /\ IF rdpStatus = "error" /\ rdpAlive THEN UNCHANGED rdpStatus /\ rdpListed' = "disconnected"
                  ELSE Rdp!Shows("disconnected")
            \/ element[e] \in {"connecting", "up"} /\ element' = [element EXCEPT ![e] = "over"] /\ Rdp!Shows("error")
      BY <2>3 DEF Rdp!SessionEnds
    <3>2. UNCHANGED uiRef
      BY <2>3 DEF Rdp!SessionEnds, Rdp!held
    <3> QED BY <3>1, <3>2 DEF Rdp!Live, Rdp!Shows, Rdp!shows
  <2> QED BY <2>1, <2>2, <2>3
<1>2. UNCHANGED <<rdpMount, rdpAlive, rdpStarted, rdpCleanup, rdpOpens, loading, elementRef, rdpOvertaken>>
  BY DEF Rdp!Ready, Rdp!Connected, Rdp!SessionEnds, Rdp!refs, Rdp!held
<1>3. /\ element' \in [Element -> {"none", "made", "connecting", "up", "over", "gone"}]
      /\ element'[e] = s /\ \A f \in Element \ {e} : element'[f] = element[f]
  BY <1>1
<1>4. Rdp!RdpTypeOK'
  BY <1>1, <1>2, <1>3 DEF Rdp!Status
<1>5. \A f \in Element : Rdp!Live(f)' => Rdp!Live(f)
  BY <1>1, <1>3 DEF Rdp!Live
<1>6. ~rdpOvertaken => OneSession' /\ \A f \in Element \ {e} : ~Rdp!Live(f)'
  BY <1>1, <1>2, <1>5 DEF OneSession
<1>7. Rdp!RdpIsHeld'
  BY <1>1, <1>2, <1>5, <1>6 DEF Rdp!RdpIsHeld
<1>8. Rdp!RdpShowsItsSession'
  <2> SUFFICES ASSUME ~rdpOvertaken, rdpMount = "on"
               PROVE  rdpListed' = rdpStatus' /\ (rdpStatus' = "connected" <=> \E f \in Element : element'[f] = "up")
    BY <1>2 DEF Rdp!RdpShowsItsSession
  <2>1. rdpListed = rdpStatus /\ (rdpStatus = "connected" <=> \E f \in Element : element[f] = "up") /\ rdpAlive
    BY DEF Rdp!RdpShowsItsSession
  <2>2. \A f \in Element : element'[f] = "up" => f = e
    BY <1>6 DEF Rdp!Live
  <2>3. \A f \in Element : element[f] = "up" => f = e
    BY <1>1 DEF OneSession, Rdp!Live
  <2> QED BY <1>1, <1>3, <2>1, <2>2, <2>3
<1>9. rdpMount # "new"
  BY <1>1 DEF Rdp!Live
<1> QED BY <1>2, <1>4, <1>6, <1>7, <1>8, <1>9

LEMMA NextRdp == ASSUME RdpInv, Rdp!RdpNext \/ UNCHANGED rdpTab PROVE RdpInv'
<1>1. CASE UNCHANGED rdpTab
  BY <1>1 DEF rdpTab, RdpInv, Rdp!RdpTypeOK, OneSession, Rdp!RdpIsHeld, Rdp!RdpShowsItsSession, Rdp!Live
<1> QED BY <1>1, RdpStarts, RdpStops, RdpLoads, RdpRuns DEF Rdp!RdpNext

-----------------------------------------------------------------------------
(* The tab of an SFTP session *)

OnItsWay(o) == asked[o] \in {"opening", "opened", "failed", "aborted"}
Listing == [of : Dir, read : BOOLEAN, rows : SUBSET Sftp!Entry]
Asked(d) == [of |-> d, read |-> FALSE, rows |-> {}]
SftpTypes ==
  /\ Sftp!TypeOK /\ \A l \in lists : l \in Listing
  /\ dialog # None /\ dialog.kind # "mkdir" => dialog.entry \in Sftp!Entry
  /\ \A a \in actions : a.path \in Dir /\ a.of \in Sftp!Entry /\ a.to \in Sftp!Entry

\* The attempts are numbered as they are made, one at a time; one that is on its way is of a tab
\* that holds no session.
OneAttemptOfSftp ==
  /\ \E n \in 0 .. MaxOpens : \A o \in Sftp!Open : asked[o] # "none" <=> o <= n
  /\ \A o, p \in Sftp!Open : OnItsWay(o) /\ OnItsWay(p) => o = p
  /\ \A o \in live : asked[o] \notin {"none", "opening"}
  /\ sftpStatus = "ready" => \A o \in Sftp!Open : ~OnItsWay(o)
  /\ sftpRef # 0 => sftpStatus = "ready"

\* Of a user who waits there is one listing or one action on its way, of the directory shown.
Waits ==
  /\ sftpStatus # "ready" => lists = {} /\ actions = {}
  /\ Sftp!Ready /\ calm =>
       /\ lists = {} \/ actions = {}
       /\ lists = {} /\ ~listError => entries = {e \in remote : e[1] = path}
       /\ \A l \in lists : l.of = path /\ (l.read => l.rows = {e \in remote : e[1] = path})
       /\ \A l, m \in lists : l = m
       /\ \A a \in actions : a.path = path
       /\ \A a, b \in actions : a = b
SftpInv == SftpTypes /\ OneAttemptOfSftp /\ Waits /\ Sftp!TabHoldsSessions /\ Sftp!ActsOnItsRow

LEMMA NewListing ==
  ASSUME NEW d \in Dir
  PROVE  Asked(d) \in Listing /\ Asked(d).of = d /\ ~Asked(d).read /\ Asked(d).rows = {}
<1>1. FALSE \in BOOLEAN /\ {} \in SUBSET Sftp!Entry
  OBVIOUS
<1>2. Asked(d) \in Listing
  BY <1>1 DEF Listing, Asked
<1> QED BY <1>2 DEF Asked

LEMMA ListingIs == \A l \in Listing : l.of \in Dir /\ l.rows \in SUBSET Sftp!Entry
  BY DEF Listing

LEMMA InitSftp == Sftp!Init => SftpInv
<1> SUFFICES ASSUME Sftp!Init PROVE SftpInv
  OBVIOUS
<1>0. MaxOpens \in Nat /\ MaxOpens >= 1 /\ 1 \in Sftp!Open /\ 0 \notin Sftp!Open
  BY BoundsAssumption DEF BoundsAssumption, Sftp!Open
<1>1. SftpTypes
  <2>1. asked \in [Sftp!Open -> {"none", "opening", "opened", "failed", "aborted", "over"}]
    BY DEF Sftp!Init
  <2>2. remote \in SUBSET Sftp!Entry
    BY DEF Sftp!Init, Sftp!Entry
  <2>3. /\ live = {} /\ sftpRef = 0 /\ aborted = FALSE /\ sftpStatus = "connecting" /\ sftpMount = "alive"
        /\ path = Start /\ listError = FALSE /\ calm = TRUE /\ entries = {} /\ lists = {} /\ dialog = None /\ actions = {}
    BY DEF Sftp!Init
  <2>4. Start \in Dir
    BY StartAssumption DEF StartAssumption
  <2> HIDE DEF Sftp!Init
  <2>5. aborted \in BOOLEAN /\ listError \in BOOLEAN /\ calm \in BOOLEAN
    BY <2>3
  <2>6. Sftp!TypeOK
    BY <2>1, <2>2, <2>3, <2>4, <2>5 DEF Sftp!TypeOK
  <2> QED BY <2>3, <2>6 DEF SftpTypes
<1>2. OneAttemptOfSftp
  <2>1. asked = [o \in Sftp!Open |-> IF o = 1 THEN "opening" ELSE "none"] /\ live = {} /\ sftpRef = 0 /\ sftpStatus = "connecting"
    BY DEF Sftp!Init
  <2>2. 1 \in 0 .. MaxOpens /\ \A o \in Sftp!Open : asked[o] # "none" <=> o <= 1
    BY <1>0, <2>1 DEF Sftp!Open
  <2> QED BY <1>0, <2>1, <2>2 DEF OneAttemptOfSftp, OnItsWay
<1>3. Waits /\ Sftp!TabHoldsSessions /\ Sftp!ActsOnItsRow
  BY DEF Sftp!Init, Waits, Sftp!Ready, Sftp!TabHoldsSessions, Sftp!ActsOnItsRow
<1> QED BY <1>1, <1>2, <1>3 DEF SftpInv

LEMMA SftpShows == SftpInv => Sftp!TypeOK /\ Sftp!TabHoldsSessions /\ Sftp!ActsOnItsRow /\ Sftp!ShowsItsPath
  BY DEF SftpInv, SftpTypes, Waits, Sftp!ShowsItsPath

\* What a step of the session leaves of the browser.
LEMMA BrowserRests ==
  ASSUME SftpInv, UNCHANGED <<path, entries, listError, lists, dialog, actions, acted, remote, calm>>,
         (Sftp!Ready' => Sftp!Ready), (sftpStatus = "ready" => sftpStatus' = "ready")
  PROVE  Waits' /\ Sftp!ActsOnItsRow'
  BY DEF SftpInv, Waits, Sftp!ActsOnItsRow

LEMMA SftpMainOpens == ASSUME SftpInv, NEW o \in Sftp!Open, Sftp!MainOpens(o) PROVE SftpInv'
<1>0. SftpTypes /\ OneAttemptOfSftp /\ Waits /\ Sftp!TabHoldsSessions
  BY DEF SftpInv
<1>1. /\ asked[o] = "opening" /\ UNCHANGED <<sftpStatus, sftpRef, aborted, sftpMount>>
      /\ UNCHANGED <<path, entries, listError, lists, dialog, actions, acted, remote, calm>>
  BY DEF Sftp!MainOpens, Sftp!browser
<1>2. PICK why \in {"opened", "failed", "aborted"} :
        asked' = [asked EXCEPT ![o] = why] /\ live' = IF why = "opened" THEN live \cup {o} ELSE live
  BY DEF Sftp!MainOpens
<1>3. asked \in [Sftp!Open -> {"none", "opening", "opened", "failed", "aborted", "over"}] /\ live \in SUBSET Sftp!Open
  BY <1>0 DEF SftpTypes, Sftp!TypeOK
<1>4. SftpTypes'
  <2>1. asked' \in [Sftp!Open -> {"none", "opening", "opened", "failed", "aborted", "over"}] /\ live' \in SUBSET Sftp!Open
    BY <1>2, <1>3
  <2> QED BY <1>0, <1>1, <2>1 DEF SftpTypes, Sftp!TypeOK
<1>5. \A p \in Sftp!Open : (OnItsWay(p)' <=> OnItsWay(p)) /\ (asked'[p] = "none" <=> asked[p] = "none")
                           /\ (p # o => asked'[p] = asked[p])
  BY <1>1, <1>2, <1>3 DEF OnItsWay
<1>6. OneAttemptOfSftp'
  BY <1>0, <1>1, <1>2, <1>3, <1>5 DEF OneAttemptOfSftp
<1>7. Sftp!TabHoldsSessions'
  BY <1>0, <1>1, <1>2, <1>3 DEF Sftp!TabHoldsSessions
<1>8. Waits' /\ Sftp!ActsOnItsRow'
  BY <1>1, BrowserRests DEF Sftp!Ready, Sftp!Alive
<1> QED BY <1>4, <1>6, <1>7, <1>8 DEF SftpInv

\* An answer ends its attempt.
LEMMA AttemptOver ==
  ASSUME SftpInv, NEW o \in Sftp!Open, OnItsWay(o), asked' = [asked EXCEPT ![o] = "over"],
         live' \subseteq live
  PROVE  /\ asked' \in [Sftp!Open -> {"none", "opening", "opened", "failed", "aborted", "over"}] /\ live' \in SUBSET Sftp!Open
         /\ \E n \in 0 .. MaxOpens : \A p \in Sftp!Open : asked'[p] # "none" <=> p <= n
         /\ \A p \in Sftp!Open : ~OnItsWay(p)'
         /\ \A p \in live' : asked'[p] \notin {"none", "opening"}
         /\ \A p \in Sftp!Open : p # o => asked'[p] = asked[p] /\ asked[p] # "opened"
         /\ sftpStatus # "ready" /\ sftpRef = 0
<1>0. SftpTypes /\ OneAttemptOfSftp
  BY DEF SftpInv
<1>1. asked \in [Sftp!Open -> {"none", "opening", "opened", "failed", "aborted", "over"}] /\ live \in SUBSET Sftp!Open
  BY <1>0 DEF SftpTypes, Sftp!TypeOK
<1>2. \A p \in Sftp!Open : ~OnItsWay(p)' /\ (asked'[p] = "none" <=> asked[p] = "none") /\ (p # o => asked'[p] = asked[p] /\ asked[p] # "opened")
  BY <1>0, <1>1 DEF OneAttemptOfSftp, OnItsWay
<1> QED BY <1>0, <1>1, <1>2 DEF OneAttemptOfSftp

LEMMA SftpAnswered == ASSUME SftpInv, NEW o \in Sftp!Open, Sftp!OpenAnswered(o) PROVE SftpInv'
<1>0. SftpTypes /\ OneAttemptOfSftp /\ Waits /\ Sftp!TabHoldsSessions /\ Sftp!ActsOnItsRow
  BY DEF SftpInv
<1>1. /\ asked[o] = "opened" /\ asked' = [asked EXCEPT ![o] = "over"] /\ OnItsWay(o) /\ live' \subseteq live
      /\ UNCHANGED <<aborted, sftpMount, path, entries, dialog, actions, acted, remote, calm>>
  BY DEF Sftp!OpenAnswered, OnItsWay
<1>2. /\ asked' \in [Sftp!Open -> {"none", "opening", "opened", "failed", "aborted", "over"}] /\ live' \in SUBSET Sftp!Open
      /\ \E n \in 0 .. MaxOpens : \A p \in Sftp!Open : asked'[p] # "none" <=> p <= n
      /\ \A p \in Sftp!Open : ~OnItsWay(p)'
      /\ \A p \in live' : asked'[p] \notin {"none", "opening"}
      /\ \A p \in Sftp!Open : p # o => asked'[p] = asked[p] /\ asked[p] # "opened"
      /\ sftpStatus # "ready" /\ sftpRef = 0
  BY <1>1, AttemptOver
<1>3. 0 \notin Sftp!Open /\ live \in SUBSET Sftp!Open
  BY <1>0, BoundsAssumption DEF BoundsAssumption, Sftp!Open, SftpTypes, Sftp!TypeOK
<1>4. \A p \in live : p = o
  BY <1>0, <1>2, <1>3 DEF Sftp!TabHoldsSessions
<1>5. CASE ~Sftp!Alive \/ aborted
  <2>1. live' = live \ {o} /\ UNCHANGED <<sftpStatus, sftpRef, listError, lists>>
    BY <1>5 DEF Sftp!OpenAnswered
  <2>2. SftpTypes'
    BY <1>0, <1>1, <1>2, <2>1 DEF SftpTypes, Sftp!TypeOK
  <2>3. OneAttemptOfSftp'
    BY <1>0, <1>2, <2>1 DEF OneAttemptOfSftp
  <2>4. Sftp!TabHoldsSessions'
    BY <1>4, <2>1 DEF Sftp!TabHoldsSessions
  <2>5. Waits' /\ Sftp!ActsOnItsRow'
    BY <1>1, <2>1, BrowserRests DEF Sftp!Ready, Sftp!Alive
  <2> QED BY <2>2, <2>3, <2>4, <2>5 DEF SftpInv
<1>6. CASE ~(~Sftp!Alive \/ aborted)
  <2>1. /\ sftpRef' = o /\ sftpStatus' = "ready" /\ live' = live /\ sftpMount = "alive" /\ sftpMount' = "alive"
        /\ listError' = FALSE /\ lists' = lists \cup {Asked(path)}
    BY <1>1, <1>6 DEF Sftp!OpenAnswered, Sftp!List, Sftp!Alive, Asked
  <2>2. lists = {} /\ actions = {}
    BY <1>0, <1>2 DEF Waits
  <2>3. SftpTypes'
    <3>1. listError' \in BOOLEAN /\ calm' \in BOOLEAN /\ aborted' \in BOOLEAN
      BY <1>0, <1>1, <2>1 DEF SftpTypes, Sftp!TypeOK
    <3>2. \A l \in lists' : l \in Listing /\ l.of \in Dir /\ l.rows \in SUBSET Sftp!Entry
      <4>1. path \in Dir /\ \A l \in lists : l \in Listing
        BY <1>0 DEF SftpTypes, Sftp!TypeOK
      <4> QED BY <2>1, <4>1, NewListing, ListingIs
    <3> QED BY <1>0, <1>1, <1>2, <2>1, <3>1, <3>2 DEF SftpTypes, Sftp!TypeOK
  <2>4. OneAttemptOfSftp'
    BY <1>2, <2>1 DEF OneAttemptOfSftp
  <2>5. Sftp!TabHoldsSessions'
    BY <1>4, <2>1 DEF Sftp!TabHoldsSessions
  <2>6. /\ \A l \in lists' : l.of = path' /\ ~l.read
        /\ \A l, m \in lists' : l = m
        /\ lists' # {} /\ actions' = {}
    BY <1>0, <1>1, <2>1, <2>2, NewListing DEF SftpTypes, Sftp!TypeOK
  <2>7. Waits' /\ Sftp!ActsOnItsRow'
    BY <2>1, <2>6 DEF Waits, Sftp!ActsOnItsRow
  <2> QED BY <2>3, <2>4, <2>5, <2>7 DEF SftpInv
<1> QED BY <1>5, <1>6

LEMMA SftpRejected == ASSUME SftpInv, NEW o \in Sftp!Open, Sftp!OpenRejected(o) PROVE SftpInv'
<1>0. SftpTypes /\ OneAttemptOfSftp /\ Waits /\ Sftp!TabHoldsSessions
  BY DEF SftpInv
<1>1. /\ asked[o] \in {"failed", "aborted"} /\ asked' = [asked EXCEPT ![o] = "over"] /\ OnItsWay(o) /\ live' \subseteq live
      /\ live' = live /\ UNCHANGED <<sftpRef, aborted, sftpMount, path, entries, listError, lists, dialog, actions, acted, remote, calm>>
      /\ sftpStatus' \in {sftpStatus, "aborted", "error"}
  BY DEF Sftp!OpenRejected, OnItsWay, Sftp!browser
<1>2. /\ asked' \in [Sftp!Open -> {"none", "opening", "opened", "failed", "aborted", "over"}] /\ live' \in SUBSET Sftp!Open
      /\ \E n \in 0 .. MaxOpens : \A p \in Sftp!Open : asked'[p] # "none" <=> p <= n
      /\ \A p \in Sftp!Open : ~OnItsWay(p)'
      /\ \A p \in live' : asked'[p] \notin {"none", "opening"}
      /\ \A p \in Sftp!Open : p # o => asked'[p] = asked[p] /\ asked[p] # "opened"
      /\ sftpStatus # "ready" /\ sftpRef = 0
  BY <1>1, AttemptOver
<1>3. sftpStatus' # "ready" /\ sftpStatus' \in {"connecting", "ready", "error", "aborted"}
  BY <1>0, <1>1, <1>2 DEF SftpTypes, Sftp!TypeOK
<1>4. SftpTypes'
  BY <1>0, <1>1, <1>2, <1>3 DEF SftpTypes, Sftp!TypeOK
<1>5. OneAttemptOfSftp'
  BY <1>1, <1>2, <1>3 DEF OneAttemptOfSftp
<1>6. Sftp!TabHoldsSessions'
  BY <1>0, <1>1, <1>2 DEF Sftp!TabHoldsSessions, SftpTypes, Sftp!TypeOK
<1>7. Waits' /\ Sftp!ActsOnItsRow'
  BY <1>1, <1>2, <1>3, BrowserRests DEF Sftp!Ready
<1> QED BY <1>4, <1>5, <1>6, <1>7 DEF SftpInv

LEMMA SftpCounts == \A S : Sftp!Cardinality(S) = Cardinality(S)
  BY DEF Sftp!Cardinality, Cardinality

LEMMA SftpReconnects == ASSUME ~Hasty, SftpInv, Sftp!reconnect PROVE SftpInv'
<1>0. SftpTypes /\ OneAttemptOfSftp /\ Waits /\ Sftp!TabHoldsSessions
  BY DEF SftpInv
<1> DEFINE c == Cardinality(Sftp!Opens)
<1>a. /\ sftpStatus \in {"error", "aborted"} /\ c < MaxOpens /\ (Hasty \/ \A o \in Sftp!Opens : asked[o] = "over")
      /\ aborted' = FALSE /\ sftpStatus' = "connecting" /\ asked' = [asked EXCEPT ![c + 1] = "opening"]
      /\ UNCHANGED live /\ UNCHANGED sftpRef /\ UNCHANGED sftpMount /\ UNCHANGED Sftp!browser
  BY SftpCounts DEF Sftp!reconnect
<1>1. /\ sftpStatus \in {"error", "aborted"} /\ c < MaxOpens /\ \A o \in Sftp!Opens : asked[o] = "over"
      /\ aborted' = FALSE /\ sftpStatus' = "connecting" /\ asked' = [asked EXCEPT ![c + 1] = "opening"]
      /\ UNCHANGED <<live, sftpRef, sftpMount, path, entries, listError, lists, dialog, actions, acted, remote, calm>>
  BY <1>a DEF Sftp!browser
<1>2. asked \in [Sftp!Open -> {"none", "opening", "opened", "failed", "aborted", "over"}] /\ live \in SUBSET Sftp!Open
  BY <1>0 DEF SftpTypes, Sftp!TypeOK
<1>3. PICK n \in 0 .. MaxOpens : \A o \in Sftp!Open : asked[o] # "none" <=> o <= n
  BY <1>0 DEF OneAttemptOfSftp
<1>4. MaxOpens \in Nat
  BY BoundsAssumption DEF BoundsAssumption
<1>5. c = n
  <2>1. Sftp!Opens = 1 .. n
    BY <1>3, <1>4 DEF Sftp!Opens, Sftp!Open
  <2> QED BY <1>3, <1>4, <2>1, FS_Interval
<1> HIDE DEF c
<1>6. n + 1 \in Sftp!Open /\ n + 1 \in 0 .. MaxOpens /\ asked[n + 1] = "none"
  BY <1>1, <1>3, <1>4, <1>5 DEF Sftp!Open
<1>7. /\ \A o \in Sftp!Open : o # n + 1 => asked'[o] = asked[o] /\ ~OnItsWay(o)
      /\ asked'[n + 1] = "opening" /\ n + 1 \notin live
      /\ asked' \in [Sftp!Open -> {"none", "opening", "opened", "failed", "aborted", "over"}]
  BY <1>0, <1>1, <1>2, <1>5, <1>6 DEF Sftp!Opens, OnItsWay, OneAttemptOfSftp
<1>8. \A o \in Sftp!Open : asked'[o] # "none" <=> o <= n + 1
  BY <1>3, <1>4, <1>7 DEF Sftp!Open
<1>9. SftpTypes'
  <2>1. aborted' \in BOOLEAN
    BY <1>1
  <2> QED BY <1>0, <1>1, <1>7, <2>1 DEF SftpTypes, Sftp!TypeOK
<1>10. OneAttemptOfSftp'
  <2>1. \A o, p \in Sftp!Open : OnItsWay(o)' /\ OnItsWay(p)' => o = p
    BY <1>7 DEF OnItsWay
  <2>2. \A o \in live' : asked'[o] \notin {"none", "opening"}
    BY <1>0, <1>1, <1>2, <1>7 DEF OneAttemptOfSftp
  <2> QED BY <1>0, <1>1, <1>6, <1>8, <2>1, <2>2 DEF OneAttemptOfSftp
<1>11. Sftp!TabHoldsSessions'
  BY <1>0, <1>1, <1>2, <1>7 DEF Sftp!TabHoldsSessions
<1>12. Waits' /\ Sftp!ActsOnItsRow'
  BY <1>1, BrowserRests DEF Sftp!Ready
<1> QED BY <1>9, <1>10, <1>11, <1>12 DEF SftpInv

LEMMA SftpCloses == ASSUME SftpInv, Sftp!abortConnect \/ Sftp!Unmount \/ Sftp!Cleanup PROVE SftpInv'
<1>0. SftpTypes /\ OneAttemptOfSftp /\ Waits /\ Sftp!TabHoldsSessions
  BY DEF SftpInv
<1>1. UNCHANGED <<asked, path, entries, listError, lists, dialog, actions, acted, remote, calm>>
  BY DEF Sftp!abortConnect, Sftp!Unmount, Sftp!Cleanup, Sftp!browser
<1>2. CASE Sftp!abortConnect
  <2>1. sftpStatus = "connecting" /\ aborted' = TRUE /\ sftpRef' = 0 /\ sftpStatus' = "aborted" /\ UNCHANGED <<live, sftpMount>>
    BY <1>2 DEF Sftp!abortConnect
  <2>2. sftpRef = 0
    BY <1>0, <2>1 DEF OneAttemptOfSftp
  <2>3. aborted' \in BOOLEAN
    BY <2>1
  <2>4. SftpTypes'
    BY <1>0, <1>1, <2>1, <2>3 DEF SftpTypes, Sftp!TypeOK
  <2>5. OneAttemptOfSftp' /\ Sftp!TabHoldsSessions'
    BY <1>0, <1>1, <2>1, <2>2 DEF OneAttemptOfSftp, OnItsWay, Sftp!TabHoldsSessions
  <2>6. Waits' /\ Sftp!ActsOnItsRow'
    BY <1>1, <2>1, BrowserRests DEF Sftp!Ready
  <2> QED BY <2>4, <2>5, <2>6 DEF SftpInv
<1>3. CASE Sftp!Unmount
  <2>1. sftpMount = "alive" /\ sftpMount' = "leaving" /\ UNCHANGED <<live, sftpStatus, sftpRef, aborted>>
    BY <1>3 DEF Sftp!Unmount, Sftp!Alive
  <2>2. SftpTypes' /\ OneAttemptOfSftp' /\ Sftp!TabHoldsSessions'
    BY <1>0, <1>1, <2>1 DEF SftpTypes, Sftp!TypeOK, OneAttemptOfSftp, OnItsWay, Sftp!TabHoldsSessions
  <2>3. Waits' /\ Sftp!ActsOnItsRow'
    BY <1>1, <2>1, BrowserRests DEF Sftp!Ready, Sftp!Alive
  <2> QED BY <2>2, <2>3 DEF SftpInv
<1>4. CASE Sftp!Cleanup
  <2>1. sftpMount = "leaving" /\ sftpMount' = "gone" /\ sftpRef' = 0 /\ live' = live \ {sftpRef} /\ UNCHANGED <<sftpStatus, aborted>>
    BY <1>4 DEF Sftp!Cleanup
  <2>2. SftpTypes' /\ OneAttemptOfSftp' /\ Sftp!TabHoldsSessions'
    BY <1>0, <1>1, <2>1 DEF SftpTypes, Sftp!TypeOK, OneAttemptOfSftp, OnItsWay, Sftp!TabHoldsSessions
  <2>3. Waits' /\ Sftp!ActsOnItsRow'
    BY <1>1, <2>1, BrowserRests DEF Sftp!Ready, Sftp!Alive
  <2> QED BY <2>2, <2>3 DEF SftpInv
<1> QED BY <1>2, <1>3, <1>4

\* What a step of the browser leaves of the session.
LEMMA HookRests ==
  ASSUME SftpInv, UNCHANGED Sftp!hook
  PROVE  /\ OneAttemptOfSftp' /\ Sftp!TabHoldsSessions' /\ (Sftp!Ready' <=> Sftp!Ready)
         /\ UNCHANGED <<asked, live, sftpStatus, sftpRef, aborted, sftpMount>>
         /\ (sftpStatus # "ready" => lists = {} /\ actions = {}) /\ (Sftp!Ready => sftpStatus = "ready")
<1>1. UNCHANGED <<asked, live, sftpStatus, sftpRef, aborted, sftpMount>>
  BY DEF Sftp!hook
<1>2. OneAttemptOfSftp' /\ Sftp!TabHoldsSessions'
  BY <1>1 DEF SftpInv, OneAttemptOfSftp, OnItsWay, Sftp!TabHoldsSessions
<1> QED BY <1>1, <1>2 DEF Sftp!Ready, Sftp!Alive, SftpInv, Waits

\* A listing that is asked for when nothing is on its way.
LEMMA Asks ==
  ASSUME SftpInv, UNCHANGED Sftp!hook, NEW d \in Dir, Sftp!Ready \/ actions # {},
         Sftp!List(d), d = path' \/ ~calm', path' \in Dir, calm' \in BOOLEAN, UNCHANGED entries,
         remote' \subseteq Sftp!Entry, calm' => calm /\ lists = {} /\ actions' = {},
         dialog' = dialog \/ dialog' = None, actions' \subseteq actions
  PROVE  SftpInv'
<1>0. SftpTypes /\ Waits /\ Sftp!ActsOnItsRow
  BY DEF SftpInv
<1>1. /\ OneAttemptOfSftp' /\ Sftp!TabHoldsSessions' /\ (Sftp!Ready' <=> Sftp!Ready)
      /\ UNCHANGED <<asked, live, sftpStatus, sftpRef, aborted, sftpMount>> /\ sftpStatus = "ready"
  BY HookRests
<1>2. listError' = FALSE /\ lists' = lists \cup {Asked(d)}
  BY DEF Sftp!List, Asked
<1>3. SftpTypes'
  <2>1. \A l \in lists' : l \in Listing /\ l.of \in Dir /\ l.rows \in SUBSET Sftp!Entry
    BY <1>0, <1>2, NewListing, ListingIs DEF SftpTypes
  <2>2. listError' \in BOOLEAN /\ calm' \in BOOLEAN
    BY <1>2
  <2>3. /\ dialog' # None => dialog'.kind \in Sftp!Kind /\ dialog'.entry \in Sftp!Entry \cup {None}
        /\ dialog' # None /\ dialog'.kind # "mkdir" => dialog'.entry \in Sftp!Entry
    BY <1>0 DEF SftpTypes, Sftp!TypeOK
  <2>4. \A a \in actions' : a.path \in Dir /\ a.of \in Sftp!Entry /\ a.to \in Sftp!Entry
    BY <1>0 DEF SftpTypes
  <2> QED BY <1>0, <1>1, <2>1, <2>2, <2>3, <2>4 DEF SftpTypes, Sftp!TypeOK
<1>4. Waits'
  <2>1. ASSUME calm' PROVE /\ \A l \in lists' : l.of = path' /\ ~l.read
                           /\ \A l, m \in lists' : l = m
                           /\ lists' # {} /\ actions' = {}
    <3>1. d = path' /\ lists = {} /\ actions' = {}
      BY <2>1
    <3> QED BY <1>2, <3>1, NewListing
  <2> QED BY <1>1, <2>1 DEF Waits
<1>5. Sftp!ActsOnItsRow'
  BY <1>0 DEF Sftp!ActsOnItsRow
<1> QED BY <1>1, <1>3, <1>4, <1>5 DEF SftpInv

LEMMA SftpMoves == ASSUME SftpInv, Sftp!refresh \/ \E d \in Dir : Sftp!setPath(d) PROVE SftpInv'
<1>0. SftpTypes
  BY DEF SftpInv
<1>1. path \in Dir /\ calm \in BOOLEAN /\ remote \in SUBSET Sftp!Entry
  BY <1>0 DEF SftpTypes, Sftp!TypeOK
<1>2. /\ UNCHANGED <<entries, dialog, actions, remote>> /\ UNCHANGED Sftp!hook /\ Sftp!Ready
      /\ calm' = (calm /\ lists = {} /\ actions = {})
  BY DEF Sftp!refresh, Sftp!setPath, Sftp!Browse, Sftp!UserActs
<1>3. PICK d \in Dir : path' = d /\ Sftp!List(d)
  BY <1>1 DEF Sftp!refresh, Sftp!setPath, Sftp!Browse
<1> QED BY <1>1, <1>2, <1>3, Asks

LEMMA SftpDone == ASSUME SftpInv, NEW a \in actions, Sftp!ActionDone(a) PROVE SftpInv'
<1>0. SftpTypes /\ Waits
  BY DEF SftpInv
<1>1. /\ actions' = actions \ {a} /\ dialog' = None /\ Sftp!List(a.path) /\ UNCHANGED <<path, entries, calm>>
      /\ UNCHANGED Sftp!hook /\ (remote' \subseteq remote \cup {a.of, a.to})
  BY DEF Sftp!ActionDone, Sftp!Browse
<1>2. path \in Dir /\ calm \in BOOLEAN /\ remote' \subseteq Sftp!Entry /\ a.path \in Dir
  BY <1>0, <1>1 DEF SftpTypes, Sftp!TypeOK
<1>3. sftpStatus = "ready" /\ (Sftp!Ready' <=> Sftp!Ready)
  BY <1>1, HookRests
<1>4. CASE Sftp!Ready
  <2>1. calm => lists = {} /\ a.path = path /\ actions' = {}
    BY <1>0, <1>1, <1>4 DEF Waits
  <2> QED BY <1>1, <1>2, <2>1, Asks
<1>5. CASE ~Sftp!Ready
  <2>1. Waits'
    BY <1>3, <1>5, HookRests, <1>1 DEF Waits
  <2>2. listError' = FALSE /\ lists' = lists \cup {Asked(a.path)}
    BY <1>1 DEF Sftp!List, Asked
  <2>3. \A l \in lists' : l \in Listing /\ l.of \in Dir /\ l.rows \in SUBSET Sftp!Entry
    BY <1>0, <1>2, <2>2, NewListing, ListingIs DEF SftpTypes
  <2>4. listError' \in BOOLEAN /\ calm' \in BOOLEAN
    BY <1>1, <1>2, <2>2
  <2>5. SftpTypes'
    BY <1>0, <1>1, <1>2, <2>3, <2>4, HookRests DEF SftpTypes, Sftp!TypeOK
  <2>6. Sftp!ActsOnItsRow'
    BY <1>1 DEF SftpInv, Sftp!ActsOnItsRow
  <2> QED BY <1>1, <2>1, <2>5, <2>6, HookRests DEF SftpInv
<1> QED BY <1>4, <1>5

LEMMA SftpLists == ASSUME SftpInv, NEW l \in lists, Sftp!ServerLists(l) \/ Sftp!Listed(l) PROVE SftpInv'
<1>0. SftpTypes /\ Waits /\ Sftp!ActsOnItsRow
  BY DEF SftpInv
<1>1. UNCHANGED <<path, dialog, actions, remote, calm>> /\ UNCHANGED Sftp!hook
  BY DEF Sftp!ServerLists, Sftp!Listed, Sftp!Browse
<1>2. /\ OneAttemptOfSftp' /\ Sftp!TabHoldsSessions' /\ (Sftp!Ready' <=> Sftp!Ready) /\ sftpStatus = "ready"
      /\ UNCHANGED <<asked, live, sftpStatus, sftpRef, aborted, sftpMount>>
  BY <1>1, HookRests
<1>3. Sftp!ActsOnItsRow'
  BY <1>0, <1>1 DEF Sftp!ActsOnItsRow
<1>4. l.of \in Dir /\ l.rows \in SUBSET Sftp!Entry /\ remote \in SUBSET Sftp!Entry /\ entries \in SUBSET Sftp!Entry /\ listError \in BOOLEAN
  BY <1>0 DEF SftpTypes, Sftp!TypeOK
<1>5. CASE Sftp!ServerLists(l)
  <2> DEFINE now == {e \in remote : e[1] = l.of}
             r == [l EXCEPT !.read = TRUE, !.rows = now]
  <2>1. UNCHANGED <<entries, listError>> /\ lists' = (lists \ {l}) \cup {r}
    BY <1>5 DEF Sftp!ServerLists, Sftp!Browse
  <2>2. now \in SUBSET Sftp!Entry /\ l \in Listing
    BY <1>0, <1>4 DEF SftpTypes
  <2> HIDE DEF now
  <2>a. r \in Listing /\ r.of = l.of /\ r.rows = now
    BY <2>2 DEF Listing
  <2> HIDE DEF r
  <2>b. \A k \in lists' : k \in lists \/ k = r
    BY <2>1
  <2>3. \A k \in lists' : k \in Listing /\ k.of \in Dir /\ k.rows \in SUBSET Sftp!Entry
    BY <1>0, <1>4, <2>2, <2>a, <2>b DEF SftpTypes, Sftp!TypeOK
  <2>4. SftpTypes'
    BY <1>0, <1>1, <1>2, <2>1, <2>3 DEF SftpTypes, Sftp!TypeOK
  <2>5. Waits'
    <3>1. ASSUME Sftp!Ready, calm
          PROVE  /\ \A k \in lists' : k = r /\ k.of = path /\ k.rows = {e \in remote : e[1] = path}
                 /\ actions = {} /\ lists' # {}
      <4>1. l.of = path /\ actions = {} /\ \A m \in lists : m = l
        BY <1>0, <3>1 DEF Waits
      <4>2. lists' = {r}
        BY <2>1, <4>1
      <4> QED BY <2>a, <4>1, <4>2 DEF now
    <3> QED BY <1>0, <1>1, <1>2, <3>1 DEF Waits
  <2> QED BY <1>2, <1>3, <2>4, <2>5 DEF SftpInv
<1>6. CASE Sftp!Listed(l)
  <2>1. lists' = lists \ {l} /\ l.read
    BY <1>6 DEF Sftp!Listed
  <2>2. \/ Sftp!Ready /\ entries' = l.rows /\ listError' = listError
        \/ listError' = TRUE /\ entries' = entries
        \/ ~Sftp!Ready /\ entries' = entries /\ listError' = listError
    BY <1>6 DEF Sftp!Listed
  <2>3. entries' \in SUBSET Sftp!Entry /\ listError' \in BOOLEAN
    BY <1>4, <2>2
  <2>4. SftpTypes'
    BY <1>0, <1>1, <1>2, <2>1, <2>3 DEF SftpTypes, Sftp!TypeOK
  <2>5. Waits'
    <3>1. ASSUME Sftp!Ready, calm PROVE lists' = {} /\ (listError' \/ entries' = {e \in remote : e[1] = path})
      BY <1>0, <2>1, <2>2, <3>1 DEF Waits
    <3> QED BY <1>0, <1>1, <1>2, <3>1 DEF Waits
  <2> QED BY <1>2, <1>3, <2>4, <2>5 DEF SftpInv
<1> QED BY <1>5, <1>6

LEMMA SftpDialog ==
  ASSUME SftpInv,
         Sftp!CloseDialog \/ \E k \in Sftp!Kind, e \in Sftp!Entry \cup {None} : Sftp!OpenDialog(k, e)
  PROVE  SftpInv'
<1>0. SftpTypes /\ Waits /\ Sftp!ActsOnItsRow
  BY DEF SftpInv
<1>1. /\ UNCHANGED <<path, entries, listError, lists, actions, remote>> /\ UNCHANGED Sftp!hook
      /\ calm' = (calm /\ lists = {} /\ actions = {})
  BY DEF Sftp!CloseDialog, Sftp!OpenDialog, Sftp!Browse, Sftp!UserActs
<1>2. /\ OneAttemptOfSftp' /\ Sftp!TabHoldsSessions' /\ (Sftp!Ready' <=> Sftp!Ready)
      /\ UNCHANGED <<asked, live, sftpStatus, sftpRef, aborted, sftpMount>>
  BY <1>1, HookRests
<1>3. Sftp!ActsOnItsRow'
  BY <1>0, <1>1 DEF Sftp!ActsOnItsRow
<1>4. calm' \in BOOLEAN /\ entries \in SUBSET Sftp!Entry
  BY <1>0, <1>1 DEF SftpTypes, Sftp!TypeOK
<1>5. dialog' # None => /\ dialog'.kind \in Sftp!Kind /\ dialog'.entry \in Sftp!Entry \cup {None}
                        /\ (dialog'.kind # "mkdir" => dialog'.entry \in Sftp!Entry)
  <2>1. CASE Sftp!CloseDialog
    BY <2>1 DEF Sftp!CloseDialog
  <2>2. CASE \E k \in Sftp!Kind, e \in Sftp!Entry \cup {None} : Sftp!OpenDialog(k, e)
    <3>1. PICK k \in Sftp!Kind, e \in Sftp!Entry \cup {None} :
            /\ dialog' = [kind |-> k, entry |-> e] /\ IF k = "mkdir" THEN e = None ELSE e \in entries /\ ~listError
      BY <2>2 DEF Sftp!OpenDialog
    <3> QED BY <1>4, <3>1
  <2> QED BY <2>1, <2>2
<1>6. SftpTypes'
  BY <1>0, <1>1, <1>2, <1>4, <1>5 DEF SftpTypes, Sftp!TypeOK
<1>7. Waits'
  BY <1>0, <1>1, <1>2 DEF Waits
<1> QED BY <1>2, <1>3, <1>6, <1>7 DEF SftpInv

LEMMA SftpActs == ASSUME SftpInv, NEW n \in Name, Sftp!runAction(n) PROVE SftpInv'
<1>0. SftpTypes /\ Waits /\ Sftp!ActsOnItsRow
  BY DEF SftpInv
<1> DEFINE e == IF dialog.kind = "mkdir" THEN <<path, n>> ELSE dialog.entry
           a == [kind |-> dialog.kind, of |-> e, to |-> <<e[1], n>>, row |-> dialog.entry, path |-> path]
<1>1. /\ UNCHANGED <<path, entries, listError, lists, dialog, remote>> /\ UNCHANGED Sftp!hook /\ Sftp!Ready /\ dialog # None
      /\ calm' = (calm /\ lists = {} /\ actions = {}) /\ actions' = actions \cup {a}
  BY DEF Sftp!runAction, Sftp!Browse, Sftp!UserActs
<1>2. /\ OneAttemptOfSftp' /\ Sftp!TabHoldsSessions' /\ (Sftp!Ready' <=> Sftp!Ready) /\ sftpStatus = "ready"
      /\ UNCHANGED <<asked, live, sftpStatus, sftpRef, aborted, sftpMount>>
  BY <1>1, HookRests
<1>3. a.path = path /\ a.of = e /\ a.to = <<e[1], n>> /\ (a.kind # "mkdir" => a.of = a.row)
  OBVIOUS
<1>4. path \in Dir /\ (dialog.kind # "mkdir" => dialog.entry \in Sftp!Entry) /\ calm \in BOOLEAN
  BY <1>0, <1>1 DEF SftpTypes, Sftp!TypeOK
<1>5. e \in Sftp!Entry /\ <<e[1], n>> \in Sftp!Entry
  BY <1>4 DEF Sftp!Entry
<1> HIDE DEF a, e
<1>6. calm' \in BOOLEAN
  BY <1>1, <1>4
<1>7. SftpTypes'
  BY <1>0, <1>1, <1>2, <1>3, <1>4, <1>5, <1>6 DEF SftpTypes, Sftp!TypeOK
<1>8. Waits'
  BY <1>0, <1>1, <1>2, <1>3 DEF Waits
<1>9. Sftp!ActsOnItsRow'
  BY <1>0, <1>1, <1>3 DEF Sftp!ActsOnItsRow
<1> QED BY <1>2, <1>7, <1>8, <1>9 DEF SftpInv

LEMMA SftpFails == ASSUME SftpInv, NEW a \in actions, Sftp!ActionFails(a) PROVE SftpInv'
<1>0. SftpTypes /\ Waits /\ Sftp!ActsOnItsRow
  BY DEF SftpInv
<1>1. UNCHANGED <<path, entries, listError, lists, dialog, remote, calm>> /\ UNCHANGED Sftp!hook /\ actions' = actions \ {a}
  BY DEF Sftp!ActionFails, Sftp!Browse
<1>2. /\ OneAttemptOfSftp' /\ Sftp!TabHoldsSessions' /\ (Sftp!Ready' <=> Sftp!Ready)
      /\ UNCHANGED <<asked, live, sftpStatus, sftpRef, aborted, sftpMount>>
  BY <1>1, HookRests
<1>3. SftpTypes'
  BY <1>0, <1>1, <1>2 DEF SftpTypes, Sftp!TypeOK
<1>4. Waits' /\ Sftp!ActsOnItsRow'
  BY <1>0, <1>1, <1>2 DEF Waits, Sftp!ActsOnItsRow
<1> QED BY <1>2, <1>3, <1>4 DEF SftpInv

LEMMA NextSftp == ASSUME ~Hasty, SftpInv, Sftp!Next \/ UNCHANGED sftp PROVE SftpInv'
<1>1. CASE UNCHANGED sftp
  <2>1. UNCHANGED Sftp!hook /\ UNCHANGED <<path, entries, listError, lists, dialog, actions, acted, remote, calm>>
    BY <1>1 DEF sftp, Sftp!hook
  <2>2. Waits' /\ Sftp!ActsOnItsRow'
    BY <2>1, BrowserRests, HookRests
  <2>3. SftpTypes'
    BY <2>1, HookRests DEF SftpInv, SftpTypes, Sftp!TypeOK
  <2> QED BY <2>1, <2>2, <2>3, HookRests DEF SftpInv
<1> QED BY <1>1, SftpMainOpens, SftpAnswered, SftpRejected, SftpReconnects, SftpCloses, SftpMoves, SftpDone, SftpLists,
           SftpDialog, SftpActs, SftpFails DEF Sftp!Next

-----------------------------------------------------------------------------
(* The updater *)

\* The flag of a manual check is up only while its user waits; what is loaded was asked for.
UpdInv == /\ manual \in BOOLEAN /\ owed \in BOOLEAN /\ wanted \in BOOLEAN
          /\ (manual => owed) /\ Upd!NoDialogUnasked
          /\ (downloading # None => wanted) /\ Upd!StagedWasAsked
LEMMA InitUpd == Upd!Init => UpdInv
<1> SUFFICES ASSUME Upd!Init PROVE UpdInv
  OBVIOUS
<1>1. manual = FALSE /\ owed = FALSE /\ wanted = FALSE /\ dialogs = "none" /\ downloading = None /\ staged = None
  BY DEF Upd!Init
<1>2. {manual, owed, wanted} \subseteq BOOLEAN
  BY <1>1
<1> QED BY <1>1, <1>2 DEF UpdInv, Upd!NoDialogUnasked, Upd!StagedWasAsked

LEMMA NextUpd == ASSUME UpdInv, Upd!Next \/ UNCHANGED upd PROVE UpdInv'
<1>0. {manual, owed, wanted} \subseteq BOOLEAN /\ (manual => owed) /\ dialogs # "unasked" /\ (downloading # None => wanted) /\ (staged # None => wanted)
  BY DEF UpdInv, Upd!NoDialogUnasked, Upd!StagedWasAsked
<1>1. \/ manual' = manual /\ owed' = owed
      \/ manual' = TRUE /\ owed' = TRUE
      \/ manual' = FALSE /\ owed' = FALSE
  BY DEF Upd!Next, upd, Upd!main, Upd!Release, Upd!check, Upd!manualCheckForUpdates, Upd!UpdateAvailable, Upd!Surface,
         Upd!UpdateNotAvailable, Upd!CheckFails, Upd!DownloadFails, Upd!DownloadProgress, Upd!UpdateDownloaded,
         Upd!init, Upd!onEvent, Upd!dismiss, Upd!download, Upd!install
<1>2. \/ wanted' = wanted /\ downloading' \in {downloading, None} /\ staged' \in {staged, downloading, None}
      \/ wanted' = TRUE
      \/ wanted' = FALSE /\ downloading' = None /\ staged' = None
  BY DEF Upd!Next, upd, Upd!lib, Upd!window, Upd!Release, Upd!check, Upd!manualCheckForUpdates, Upd!UpdateAvailable, Upd!Surface,
         Upd!UpdateNotAvailable, Upd!CheckFails, Upd!DownloadFails, Upd!DownloadProgress, Upd!UpdateDownloaded,
         Upd!init, Upd!onEvent, Upd!dismiss, Upd!download, Upd!install
<1>3. \/ dialogs' = dialogs \/ dialogs' = "none"
      \/ dialogs' = IF ~manual THEN dialogs ELSE IF owed THEN "asked" ELSE "unasked"
  BY DEF Upd!Next, upd, Upd!main, Upd!Release, Upd!check, Upd!manualCheckForUpdates, Upd!UpdateAvailable, Upd!Surface,
         Upd!UpdateNotAvailable, Upd!CheckFails, Upd!DownloadFails, Upd!DownloadProgress, Upd!UpdateDownloaded,
         Upd!init, Upd!onEvent, Upd!dismiss, Upd!download, Upd!install
<1>4. {manual', owed', wanted'} \subseteq BOOLEAN
  BY <1>0, <1>1, <1>2
<1>5. manual' => owed'
  BY <1>0, <1>1
<1>6. (downloading' # None => wanted') /\ (staged' # None => wanted')
  BY <1>0, <1>2
<1>7. dialogs' # "unasked"
  BY <1>0, <1>3
<1> QED BY <1>4, <1>5, <1>6, <1>7 DEF UpdInv, Upd!NoDialogUnasked, Upd!StagedWasAsked

\* The window has the state that main sent last, or will hear it.
UpdState == [status : Upd!Status, version : Upd!Version]
UpdTypes ==
  /\ feed \in Upd!Version /\ found \in Upd!Version /\ state \in UpdState /\ update \in UpdState /\ toWindow \in Seq(UpdState)
  /\ downloading \in Upd!Version \cup {None} /\ staged \in Upd!Version \cup {None}
  /\ dialogs \in {"none", "asked", "unasked"}
UpdFlags == checking \in BOOLEAN /\ manual \in BOOLEAN /\ owed \in BOOLEAN /\ dismissed \in BOOLEAN
            /\ inited \in BOOLEAN /\ wanted \in BOOLEAN
UpdMirror == inited => LastSays(toWindow, UpdState, {state}, update = state)
UpdMore == UpdTypes /\ UpdFlags /\ UpdMirror

LEMMA UpdShows == UpdMore => Upd!TypeOK /\ Upd!WindowMirrors
<1> SUFFICES ASSUME UpdMore PROVE Upd!TypeOK /\ Upd!WindowMirrors
  OBVIOUS
<1>1. state.status \in Upd!Status /\ update.status \in Upd!Status
  BY DEF UpdMore, UpdTypes, UpdState
<1>2. Upd!TypeOK
  BY <1>1 DEF UpdMore, UpdTypes, UpdFlags, Upd!TypeOK
<1>3. Upd!WindowMirrors
  BY LastSaid DEF UpdMore, UpdMirror, Upd!WindowMirrors
<1> QED BY <1>2, <1>3

LEMMA InitUpdMore == Upd!Init => UpdMore
<1> SUFFICES ASSUME Upd!Init PROVE UpdMore
  OBVIOUS
<1>1. Upd!Idle \in UpdState
  BY BoundsAssumption DEF Upd!Idle, Upd!State, UpdState, Upd!Status, Upd!Version
<1>2. UpdTypes
  BY <1>1, BoundsAssumption DEF Upd!Init, UpdTypes, Upd!Version
<1>3. UpdFlags
  BY DEF Upd!Init, UpdFlags
<1>4. UpdMirror
  BY DEF Upd!Init, UpdMirror
<1> QED BY <1>2, <1>3, <1>4 DEF UpdMore

\* setState() tells every window.
LEMMA UpdSays ==
  ASSUME UpdTypes, UpdMirror, UNCHANGED <<update, inited>>, NEW s \in UpdState, Upd!setState(s)
  PROVE  UpdMirror' /\ state' \in UpdState /\ toWindow' \in Seq(UpdState)
<1>1. toWindow \in Seq(UpdState) /\ toWindow' = Append(toWindow, s) /\ state' = s
  BY DEF UpdTypes, Upd!setState
<1>2. LastSays(Append(toWindow, s), UpdState, {s}, update = s)
  BY <1>1, LastTold
<1> QED BY <1>1, <1>2 DEF UpdMirror

LEMMA NextUpdMore == ASSUME UpdMore, Upd!Next \/ UNCHANGED upd PROVE UpdMore'
<1> USE DEF UpdMore
<1>1. UpdFlags'
  <2>0. {checking, manual, owed, dismissed, inited, wanted} \subseteq BOOLEAN
    BY DEF UpdFlags
  <2>1. /\ checking' \in {checking, TRUE, FALSE} /\ manual' \in {manual, TRUE, FALSE} /\ owed' \in {owed, TRUE, FALSE}
        /\ inited' \in {inited, TRUE, FALSE} /\ wanted' \in {wanted, TRUE, FALSE}
    BY DEF Upd!Next, upd, Upd!main, Upd!lib, Upd!window, Upd!Release, Upd!check, Upd!manualCheckForUpdates, Upd!UpdateAvailable, Upd!Surface,
           Upd!UpdateNotAvailable, Upd!CheckFails, Upd!DownloadFails, Upd!DownloadProgress, Upd!UpdateDownloaded,
           Upd!init, Upd!onEvent, Upd!dismiss, Upd!download, Upd!install
  <2>2. {checking', manual', owed', inited', wanted'} \subseteq BOOLEAN
    BY <2>0, <2>1
  <2>3. dismissed' \in {dismissed, TRUE, FALSE} \/ \E r : dismissed' = (dismissed /\ ~r)
    BY DEF Upd!Next, upd, Upd!main, Upd!lib, Upd!window, Upd!Release, Upd!check, Upd!manualCheckForUpdates, Upd!UpdateAvailable, Upd!Surface,
           Upd!UpdateNotAvailable, Upd!CheckFails, Upd!DownloadFails, Upd!DownloadProgress, Upd!UpdateDownloaded,
           Upd!init, Upd!onEvent, Upd!dismiss, Upd!download, Upd!install
  <2>4. dismissed' \in BOOLEAN
    BY <2>0, <2>3
  <2> QED BY <2>2, <2>4 DEF UpdFlags
<1>2. UpdTypes' /\ UpdMirror'
  <2>0. /\ feed \in Upd!Version /\ found \in Upd!Version /\ state \in UpdState /\ update \in UpdState /\ toWindow \in Seq(UpdState)
        /\ downloading \in Upd!Version \cup {None} /\ staged \in Upd!Version \cup {None}
        /\ dialogs \in {"none", "asked", "unasked"}
    BY DEF UpdTypes
  <2>1. ASSUME NEW s \in Upd!Status PROVE [state EXCEPT !.status = s] \in UpdState
    BY <2>0 DEF UpdState
  <2>2. ASSUME NEW s \in Upd!Status, NEW v \in Upd!Version PROVE Upd!State(s, v) \in UpdState
    BY DEF UpdState, Upd!State
  <2>3. {"idle", "checking", "available", "downloading", "downloaded"} = Upd!Status /\ 0 \in Upd!Version
    BY BoundsAssumption DEF Upd!Status, Upd!Version
  <2>4. CASE \/ UNCHANGED upd \/ Upd!check \/ Upd!dismiss \/ Upd!download \/ Upd!Release
    <3>1. UNCHANGED <<state, toWindow, inited, staged, dialogs, found>> /\ update' = update /\ downloading' \in {downloading, found}
      BY <2>4 DEF upd, Upd!main, Upd!lib, Upd!window, Upd!Release, Upd!check, Upd!dismiss, Upd!download
    <3>2. feed' = feed \/ (feed < MaxVersion /\ feed' = feed + 1)
      BY <2>4 DEF upd, Upd!main, Upd!lib, Upd!window, Upd!Release, Upd!check, Upd!dismiss, Upd!download
    <3>3. feed' \in Upd!Version
      BY <2>0, <3>2, BoundsAssumption DEF Upd!Version
    <3>4. UpdMirror'
      BY <3>1 DEF UpdMirror
    <3> QED BY <2>0, <3>1, <3>3, <3>4 DEF UpdTypes
  <2>5. CASE Upd!manualCheckForUpdates
    <3>1. UNCHANGED <<update, inited, feed, found, downloading, staged, dialogs>>
      BY <2>5 DEF Upd!manualCheckForUpdates, Upd!window
    <3>2. CASE checking
      <4>1. UNCHANGED <<state, toWindow>>
        BY <2>5, <3>2 DEF Upd!manualCheckForUpdates
      <4> QED BY <2>0, <3>1, <4>1 DEF UpdMirror, UpdTypes
    <3>3. CASE ~checking
      <4>1. Upd!setState([state EXCEPT !.status = "checking"])
        BY <2>5, <3>3 DEF Upd!manualCheckForUpdates
      <4>2. [state EXCEPT !.status = "checking"] \in UpdState
        BY <2>1, <2>3
      <4>3. UpdMirror' /\ state' \in UpdState /\ toWindow' \in Seq(UpdState)
        BY <3>1, <4>1, <4>2, UpdSays
      <4> QED BY <2>0, <3>1, <4>3 DEF UpdTypes
    <3> QED BY <3>2, <3>3
  <2>6. CASE Upd!UpdateAvailable
    <3>1. UNCHANGED <<update, inited, feed, downloading, staged, dialogs>> /\ found' = feed /\ Upd!setState(Upd!State("available", feed))
      BY <2>6 DEF Upd!UpdateAvailable, Upd!window
    <3>2. Upd!State("available", feed) \in UpdState
      BY <2>0, <2>2, <2>3
    <3>3. UpdMirror' /\ state' \in UpdState /\ toWindow' \in Seq(UpdState)
      BY <3>1, <3>2, UpdSays
    <3> QED BY <2>0, <3>1, <3>3 DEF UpdTypes
  <2>7. CASE Upd!UpdateNotAvailable \/ Upd!CheckFails \/ Upd!DownloadFails
    <3>1. UNCHANGED <<update, inited, feed, found, staged>> /\ downloading' \in {downloading, None}
          /\ Upd!setState([state EXCEPT !.status = "idle"])
          /\ dialogs' = IF ~manual THEN dialogs ELSE IF owed THEN "asked" ELSE "unasked"
      BY <2>7 DEF Upd!UpdateNotAvailable, Upd!CheckFails, Upd!DownloadFails, Upd!Surface, Upd!window
    <3>2. [state EXCEPT !.status = "idle"] \in UpdState
      BY <2>1, <2>3
    <3>3. UpdMirror' /\ state' \in UpdState /\ toWindow' \in Seq(UpdState)
      BY <3>1, <3>2, UpdSays
    <3>4. dialogs' \in {"none", "asked", "unasked"}
      BY <2>0, <3>1
    <3> QED BY <2>0, <3>1, <3>3, <3>4 DEF UpdTypes
  <2>8. CASE Upd!DownloadProgress
    <3>1. UNCHANGED <<update, inited, feed, found, staged, downloading, dialogs>> /\ Upd!setState([state EXCEPT !.status = "downloading"])
      BY <2>8 DEF Upd!DownloadProgress, Upd!window, Upd!lib
    <3>2. [state EXCEPT !.status = "downloading"] \in UpdState
      BY <2>1, <2>3
    <3>3. UpdMirror' /\ state' \in UpdState /\ toWindow' \in Seq(UpdState)
      BY <3>1, <3>2, UpdSays
    <3> QED BY <2>0, <3>1, <3>3 DEF UpdTypes
  <2>9. CASE Upd!UpdateDownloaded
    <3>1. /\ UNCHANGED <<update, inited, feed, found, dialogs>> /\ downloading # None /\ staged' = downloading /\ downloading' = None
          /\ Upd!setState(Upd!State("downloaded", downloading))
      BY <2>9 DEF Upd!UpdateDownloaded, Upd!window
    <3>2. Upd!State("downloaded", downloading) \in UpdState
      BY <2>0, <2>2, <2>3, <3>1
    <3>3. UpdMirror' /\ state' \in UpdState /\ toWindow' \in Seq(UpdState)
      BY <3>1, <3>2, UpdSays
    <3> QED BY <2>0, <3>1, <3>3 DEF UpdTypes
  <2>10. CASE Upd!init
    <3>1. UNCHANGED <<state, update, feed, found, downloading, staged, dialogs>> /\ toWindow' = <<state>>
      BY <2>10 DEF Upd!init, Upd!main, Upd!lib
    <3>2. <<state>> = Append(<<>>, state) /\ <<>> \in Seq(UpdState)
      OBVIOUS
    <3>3. Append(<<>>, state) \in Seq(UpdState) /\ LastSays(Append(<<>>, state), UpdState, {state}, update = state)
      BY <2>0, <3>2, LastTold, AppendIs
    <3> QED BY <2>0, <3>1, <3>2, <3>3 DEF UpdTypes, UpdMirror
  <2>11. CASE Upd!onEvent
    <3>1. /\ UNCHANGED <<state, inited, feed, found, downloading, staged, dialogs>> /\ toWindow # <<>> /\ toWindow' = Tail(toWindow)
          /\ inited => update' = Head(toWindow)
          /\ ~inited => update' = update
      BY <2>11 DEF Upd!onEvent, Upd!main, Upd!lib
    <3>2. Tail(toWindow) \in Seq(UpdState) /\ Head(toWindow) \in UpdState
      BY <2>0, <3>1, TailIs
    <3>3. update' \in UpdState
      BY <2>0, <3>1, <3>2 DEF UpdFlags
    <3>4. ASSUME inited PROVE LastSays(Tail(toWindow), UpdState, {state}, Head(toWindow) = state)
      <4>1. LastSays(toWindow, UpdState, {state}, update = state)
        BY <3>4 DEF UpdMirror
      <4> QED BY <2>0, <3>1, <3>2, <4>1, LastHeard
    <3>5. UpdMirror'
      BY <3>1, <3>4 DEF UpdMirror
    <3> QED BY <2>0, <3>1, <3>2, <3>3, <3>5 DEF UpdTypes
  <2>12. CASE Upd!install
    <3>1. UNCHANGED dialogs \/ dialogs' = "none"
      BY <2>12 DEF Upd!install
    <3>2. /\ feed' = 0 /\ found' = 0 /\ downloading' = None /\ staged' = None /\ state' = Upd!Idle /\ toWindow' = <<>>
          /\ update' = Upd!Idle /\ inited' = FALSE
      BY <2>12 DEF Upd!install
    <3>3. Upd!Idle \in UpdState
      BY <2>2, <2>3 DEF Upd!Idle
    <3> QED BY <2>0, <2>3, <3>1, <3>2, <3>3 DEF UpdTypes, UpdMirror
  <2> QED BY <2>4, <2>5, <2>6, <2>7, <2>8, <2>9, <2>10, <2>11, <2>12 DEF Upd!Next
<1> QED BY <1>1, <1>2

-----------------------------------------------------------------------------
(* The output of a terminal *)

Numbers(a, b) == [n \in 1 .. (b - a) |-> n + a]
LEMMA NumbersAre ==
  ASSUME NEW a \in Nat, NEW b \in Nat, a <= b
  PROVE  /\ Numbers(a, b) \in Seq(Nat) /\ Len(Numbers(a, b)) = b - a /\ b - a \in Nat
         /\ \A n \in 1 .. (b - a) : Numbers(a, b)[n] = n + a
         /\ Numbers(a, a) = <<>>
<1>1. b - a \in Nat
  OBVIOUS
<1>2. Numbers(a, b) \in Seq(Nat) /\ Len(Numbers(a, b)) = b - a
  <2>1. \A n \in 1 .. (b - a) : n + a \in Nat
    OBVIOUS
  <2>2. Numbers(a, b) \in [1 .. (b - a) -> Nat]
    BY <2>1 DEF Numbers
  <2> QED BY <1>1, <2>2 DEF Numbers
<1>3. Numbers(a, a) = <<>>
  BY DEF Numbers
<1> QED BY <1>1, <1>2, <1>3 DEF Numbers

LEMMA OneMore ==
  ASSUME NEW a \in Nat, NEW b \in Nat, a <= b
  PROVE  Append(Numbers(a, b), b + 1) = Numbers(a, b + 1)
<1> DEFINE c == b + 1
           s == Numbers(a, b)
           t == Append(s, c)
           u == Numbers(a, c)
<1>0. c \in Nat /\ a <= c /\ c = b + 1
  OBVIOUS
<1>1. s \in Seq(Nat) /\ Len(s) = b - a /\ \A n \in 1 .. (b - a) : s[n] = n + a
  BY NumbersAre
<1> HIDE DEF s, c
<1>2. u \in Seq(Nat) /\ Len(u) = c - a /\ \A n \in 1 .. (c - a) : u[n] = n + a
  BY <1>0, NumbersAre
<1> HIDE DEF u
<1>3. t \in Seq(Nat) /\ Len(t) = c - a /\ \A n \in 1 .. (c - a) : t[n] = IF n = c - a THEN c ELSE s[n]
  BY <1>0, <1>1
<1> HIDE DEF t
<1>4. \A n \in 1 .. (c - a) : t[n] = n + a
  <2> TAKE n \in 1 .. (c - a)
  <2>1. CASE n = c - a
    BY <1>0, <1>3, <2>1
  <2>2. CASE n # c - a
    <3>1. n \in 1 .. (b - a)
      BY <1>0, <2>2
    <3> QED BY <1>1, <1>3, <2>2, <3>1
  <2> QED BY <2>1, <2>2
<1>5. t = u
  <2>1. Len(t) = Len(u) /\ \A n \in 1 .. Len(t) : t[n] = u[n]
    BY <1>2, <1>3, <1>4
  <2> QED BY <1>2, <1>3, <2>1, SeqEqual
<1> QED BY <1>5 DEF s, t, u, c

LEMMA WithoutOldest ==
  ASSUME NEW a \in Nat, NEW b \in Nat, a <= b, NEW o \in 0 .. (b - a)
  PROVE  SubSeq(Numbers(a, b), o + 1, b - a) = Numbers(a + o, b) /\ a + o \in Nat /\ a + o <= b
<1> DEFINE s == Numbers(a, b)
           t == SubSeq(s, o + 1, b - a)
           u == Numbers(a + o, b)
<1>1. s \in Seq(Nat) /\ Len(s) = b - a /\ \A n \in 1 .. (b - a) : s[n] = n + a
  BY NumbersAre
<1>2. a + o \in Nat /\ a + o <= b
  OBVIOUS
<1>3. u \in Seq(Nat) /\ Len(u) = b - (a + o) /\ \A n \in 1 .. b - (a + o) : u[n] = n + (a + o)
  BY <1>2, NumbersAre
<1> HIDE DEF s, u
<1>a. o + 1 \in 1 .. Len(s) + 1 /\ b - a \in Nat /\ b - a <= Len(s)
  BY <1>1
<1>b. t \in Seq(Nat) /\ Len(t) = (IF o + 1 <= b - a THEN (b - a) - (o + 1) + 1 ELSE 0) /\ \A n \in 1 .. Len(t) : t[n] = s[(o + 1) + n - 1]
  BY <1>1, <1>a
<1>4. t \in Seq(Nat) /\ Len(t) = b - (a + o) /\ \A n \in 1 .. b - (a + o) : t[n] = s[o + n]
  <2>1. Len(t) = b - (a + o) /\ \A n \in 1 .. b - (a + o) : (o + 1) + n - 1 = o + n
    BY <1>b
  <2> QED BY <1>b, <2>1
<1>5. \A n \in 1 .. b - (a + o) : t[n] = u[n]
  BY <1>1, <1>3, <1>4
<1> HIDE DEF t
<1>6. t = u
  BY <1>3, <1>4, <1>5, SeqEqual
<1> QED BY <1>2, <1>6 DEF s, t, u

LEMMA Joined ==
  ASSUME NEW a \in Nat, NEW m \in Nat, NEW b \in Nat, a <= m, m <= b
  PROVE  Numbers(a, m) \o Numbers(m, b) = Numbers(a, b)
<1> DEFINE s == Numbers(a, m)
           t == Numbers(m, b)
           u == Numbers(a, b)
<1>a. s \in Seq(Nat) /\ Len(s) = m - a /\ \A n \in 1 .. (m - a) : s[n] = n + a
  BY NumbersAre
<1>b. t \in Seq(Nat) /\ Len(t) = b - m /\ \A n \in 1 .. (b - m) : t[n] = n + m
  BY NumbersAre
<1>c. a <= b
  OBVIOUS
<1>d. u \in Seq(Nat) /\ Len(u) = b - a /\ \A n \in 1 .. (b - a) : u[n] = n + a
  BY <1>c, NumbersAre
<1> HIDE DEF s, t, u
<1>1. /\ s \in Seq(Nat) /\ Len(s) = m - a /\ \A n \in 1 .. (m - a) : s[n] = n + a
      /\ t \in Seq(Nat) /\ Len(t) = b - m /\ \A n \in 1 .. (b - m) : t[n] = n + m
      /\ u \in Seq(Nat) /\ Len(u) = b - a /\ \A n \in 1 .. (b - a) : u[n] = n + a
  BY <1>a, <1>b, <1>d
<1>2. /\ s \o t \in Seq(Nat) /\ Len(s \o t) = Len(s) + Len(t)
      /\ \A n \in 1 .. Len(s) + Len(t) : (s \o t)[n] = IF n <= Len(s) THEN s[n] ELSE t[n - Len(s)]
  BY <1>a, <1>b, ConcatProperties
<1>3. Len(s \o t) = b - a /\ \A n \in 1 .. (b - a) : (s \o t)[n] = IF n <= m - a THEN s[n] ELSE t[n - (m - a)]
  <2>1. Len(s) + Len(t) = b - a
    BY <1>1
  <2> QED BY <1>1, <1>2, <2>1
<1>4. \A n \in 1 .. b - a : (s \o t)[n] = u[n]
  <2> TAKE n \in 1 .. b - a
  <2>1. CASE n <= m - a
    BY <1>1, <1>3, <2>1
  <2>2. CASE ~(n <= m - a)
    <3>1. n - (m - a) \in 1 .. b - m
      BY <2>2
    <3> QED BY <1>1, <1>3, <2>2, <3>1
  <2> QED BY <2>1, <2>2
<1>5. s \o t = u
  <2>1. Len(s \o t) = Len(u) /\ \A n \in 1 .. Len(s \o t) : (s \o t)[n] = u[n]
    BY <1>1, <1>3, <1>4
  <2> QED BY <1>1, <1>2, <2>1, SeqEqual
<1> QED BY <1>5 DEF s, t, u

LEMMA FirstOff ==
  ASSUME NEW a \in Nat, NEW b \in Nat, a < b, NEW e \in Seq(Nat)
  PROVE  /\ Numbers(a, b) \o e \in Seq(Nat) /\ Numbers(a, b) \o e # <<>>
         /\ Head(Numbers(a, b) \o e) = a + 1 /\ Tail(Numbers(a, b) \o e) = Numbers(a + 1, b) \o e
<1> DEFINE s == Numbers(a, b)
           t == Numbers(a + 1, b)
           c == a + 1
<1>0. c \in Nat /\ c <= b /\ c = a + 1 /\ a <= b
  OBVIOUS
<1>a. s \in Seq(Nat) /\ Len(s) = b - a /\ \A n \in 1 .. (b - a) : s[n] = n + a
  BY <1>0, NumbersAre
<1> HIDE DEF s, c
<1>b. t \in Seq(Nat) /\ Len(t) = b - c /\ \A n \in 1 .. (b - c) : t[n] = n + c
  BY <1>0, NumbersAre
<1> HIDE DEF t
<1>1. /\ s \in Seq(Nat) /\ Len(s) = b - a /\ \A n \in 1 .. (b - a) : s[n] = n + a
      /\ t \in Seq(Nat) /\ Len(t) = b - (a + 1) /\ \A n \in 1 .. (b - (a + 1)) : t[n] = n + (a + 1)
  BY <1>0, <1>a, <1>b
<1> DEFINE x == s \o e
           y == t \o e
<1>e. /\ x \in Seq(Nat) /\ Len(x) = Len(s) + Len(e)
      /\ \A n \in 1 .. Len(s) + Len(e) : x[n] = IF n <= Len(s) THEN s[n] ELSE e[n - Len(s)]
  BY <1>a, ConcatProperties
<1>f. /\ y \in Seq(Nat) /\ Len(y) = Len(t) + Len(e)
      /\ \A n \in 1 .. Len(t) + Len(e) : y[n] = IF n <= Len(t) THEN t[n] ELSE e[n - Len(t)]
  BY <1>b, ConcatProperties
<1>g. Len(e) \in Nat
  OBVIOUS
<1>2. /\ x \in Seq(Nat) /\ Len(x) = Len(s) + Len(e) /\ Len(e) \in Nat
      /\ \A n \in 1 .. Len(s) + Len(e) : x[n] = IF n <= Len(s) THEN s[n] ELSE e[n - Len(s)]
      /\ y \in Seq(Nat) /\ Len(y) = Len(t) + Len(e)
      /\ \A n \in 1 .. Len(t) + Len(e) : y[n] = IF n <= Len(t) THEN t[n] ELSE e[n - Len(t)]
  BY <1>e, <1>f, <1>g
<1> HIDE DEF x, y
<1>c. Len(x) > 0 /\ x[1] = a + 1
  <2>1. 1 \in 1 .. Len(s) + Len(e) /\ 1 <= Len(s) /\ 1 \in 1 .. (b - a)
    BY <1>1, <1>2
  <2> QED BY <1>1, <1>2, <2>1
<1>d. x # <<>> /\ Head(x) = x[1] /\ Tail(x) \in Seq(Nat) /\ Len(Tail(x)) = Len(x) - 1 /\ \A n \in 1 .. Len(x) - 1 : Tail(x)[n] = x[n + 1]
  <2>1. x \in Seq(Nat) /\ x # <<>>
    BY <1>2, <1>c
  <2>2. Head(x) = x[1] /\ Len(x) \in Nat
    BY <2>1
  <2>3. Tail(x) \in Seq(Nat) /\ Len(Tail(x)) = Len(x) - 1 /\ \A n \in 1 .. Len(Tail(x)) : Tail(x)[n] = x[n + 1]
    BY <2>1, HeadTailProperties
  <2> QED BY <2>1, <2>2, <2>3
<1>3. Len(Tail(x)) = Len(y) /\ Len(x) - 1 = Len(y)
  BY <1>1, <1>2, <1>d
<1>4. \A n \in 1 .. Len(y) : Tail(x)[n] = y[n]
  <2> TAKE n \in 1 .. Len(y)
  <2>1. Tail(x)[n] = x[n + 1] /\ n + 1 \in 1 .. Len(s) + Len(e) /\ n \in 1 .. Len(t) + Len(e)
    <3>1. n \in 1 .. Len(x) - 1 /\ Len(x) = Len(s) + Len(e) /\ Len(y) = Len(t) + Len(e)
      BY <1>2, <1>3
    <3>2. Len(x) \in Nat
      BY <1>2
    <3> QED BY <1>d, <3>1, <3>2
  <2>2. CASE n <= Len(t)
    <3>1. n + 1 <= Len(s) /\ n + 1 \in 1 .. (b - a) /\ n \in 1 .. (b - (a + 1))
      BY <1>1, <2>2
    <3>2. s[n + 1] = (n + 1) + a /\ t[n] = n + (a + 1)
      BY <1>1, <3>1
    <3>3. x[n + 1] = s[n + 1] /\ y[n] = t[n]
      BY <1>e, <1>f, <2>1, <2>2, <3>1
    <3>4. (n + 1) + a = n + (a + 1)
      BY <3>1
    <3> QED BY <2>1, <3>2, <3>3, <3>4
  <2>3. CASE ~(n <= Len(t))
    <3>1. ~(n + 1 <= Len(s)) /\ (n + 1) - Len(s) = n - Len(t)
      BY <1>1, <2>3
    <3> QED BY <1>2, <2>1, <2>3, <3>1
  <2> QED BY <2>2, <2>3
<1>5. Tail(x) = y
  BY <1>2, <1>3, <1>4, <1>d, SeqEqual
<1> QED BY <1>2, <1>c, <1>d, <1>5 DEF s, t, x, y, c

\* Of numbers that are followed by none of S, the filter keeps them.
LEMMA FilterOfNumbers ==
  ASSUME NEW m \in Nat, NEW b \in Nat, m <= b, NEW e \in Seq(Nat), NEW S,
         \A n \in 1 .. (b - m) : n + m \in S, \A i \in DOMAIN e : e[i] \notin S,
         NEW f, Filters(f, Numbers(m, b) \o e, S)
  PROVE  f[Len(Numbers(m, b) \o e)] = Numbers(m, b)
<1> DEFINE q == Numbers(m, b) \o e
           k == b - m
           s == Numbers(m, b)
           N == Len(q)
<1>1. s \in Seq(Nat) /\ Len(s) = k /\ k \in Nat /\ \A n \in 1 .. k : s[n] = n + m
  BY NumbersAre
<1>2. q \in Seq(Nat) /\ N = k + Len(e) /\ N \in Nat /\ Len(e) \in Nat /\ DOMAIN e = 1 .. Len(e)
      /\ \A n \in 1 .. N : q[n] = IF n <= k THEN s[n] ELSE e[n - k]
  <2> HIDE DEF s
  <2>1. s \in Seq(Nat) /\ e \in Seq(Nat)
    BY <1>1
  <2>2. /\ q \in Seq(Nat) /\ N = Len(s) + Len(e) /\ Len(s) \in Nat /\ Len(e) \in Nat /\ DOMAIN e = 1 .. Len(e)
        /\ \A n \in 1 .. Len(s) + Len(e) : q[n] = IF n <= Len(s) THEN s[n] ELSE e[n - Len(s)]
    <3>1. Len(s) \in Nat /\ Len(e) \in Nat /\ DOMAIN e = 1 .. Len(e)
      BY <2>1
    <3>2. /\ s \o e \in Seq(Nat) /\ Len(s \o e) = Len(s) + Len(e)
          /\ \A n \in 1 .. Len(s) + Len(e) : (s \o e)[n] = IF n <= Len(s) THEN s[n] ELSE e[n - Len(s)]
      BY <2>1, ConcatProperties
    <3> QED BY <3>1, <3>2 DEF s
  <2>3. Len(s) = k
    BY <1>1
  <2> HIDE DEF q, N, k
  <2>4. N \in Nat
    BY <2>2
  <2> QED BY <2>2, <2>3, <2>4
<1>3. \A n \in 1 .. N : IF n <= k THEN q[n] = n + m /\ q[n] \in S ELSE q[n] \notin S
  <2> TAKE n \in 1 .. N
  <2>1. CASE n <= k
    BY <1>1, <1>2, <2>1
  <2>2. CASE ~(n <= k)
    <3>1. n - k \in 1 .. Len(e)
      BY <1>1, <1>2, <2>2
    <3> QED BY <1>1, <1>2, <2>2, <3>1
  <2> QED BY <2>1, <2>2
<1>4. f[0] = <<>> /\ \A n \in 1 .. N : f[n] = IF q[n] \in S THEN Append(f[n - 1], q[n]) ELSE f[n - 1]
  <2>1. \A n \in 0 .. N : f[n] = IF n = 0 THEN <<>> ELSE IF q[n] \in S THEN Append(f[n - 1], q[n]) ELSE f[n - 1]
    BY DEF Filters
  <2> HIDE DEF q, N
  <2> QED BY <1>2, <2>1
<1> DEFINE P(n) == f[n] = IF n <= k THEN Numbers(m, m + n) ELSE s
           Wrong == {n \in 0 .. N : ~P(n)}
<1> HIDE DEF q, N
<1>5. Wrong = {}
  <2> SUFFICES ASSUME Wrong # {} PROVE FALSE
    OBVIOUS
  <2>1. PICK n \in Wrong : \A i \in Wrong : n <= i
    <3>1. Wrong \in SUBSET Nat
      BY <1>2
    <3> HIDE DEF Wrong
    <3> QED BY <3>1, OneIsFirst
  <2>2. n # 0
    <3>1. P(0)
      BY <1>1, <1>4, NumbersAre
    <3> HIDE DEF P
    <3> QED BY <2>1, <3>1
  <2>3. n \in 1 .. N /\ n - 1 \in 0 .. N /\ n - 1 \notin Wrong /\ n - 1 \in Nat
    <3>1. n \in 0 .. N
      BY <2>1
    <3>2. n - 1 \in 0 .. N /\ ~(n <= n - 1) /\ n \in 1 .. N
      BY <1>2, <2>2, <3>1
    <3>3. n - 1 \notin Wrong
      <4> HIDE DEF Wrong
      <4> QED BY <2>1, <3>2
    <3> QED BY <3>2, <3>3
  <2>4. P(n - 1)
    <3> HIDE DEF P
    <3> QED BY <2>3
  <2>5. CASE n <= k
    <3>a. n - 1 <= k /\ n \in 1 .. k /\ q[n] = n + m /\ q[n] \in S
      BY <1>1, <1>3, <2>3, <2>5
    <3>b. f[n - 1] = Numbers(m, m + (n - 1))
      BY <2>4, <3>a
    <3>1. f[n - 1] = Numbers(m, m + (n - 1)) /\ f[n] = Append(f[n - 1], n + m)
      BY <1>4, <2>3, <3>a, <3>b
    <3> DEFINE j == m + (n - 1)
    <3>c. j \in Nat /\ m <= j
      BY <2>3
    <3>2. Append(Numbers(m, j), j + 1) = Numbers(m, j + 1)
      <4> HIDE DEF j
      <4> QED BY <3>c, OneMore
    <3>3. m + (n - 1) + 1 = n + m /\ m + (n - 1) + 1 = m + n
      BY <2>3
    <3>4. P(n)
      BY <2>5, <3>1, <3>2, <3>3
    <3> HIDE DEF P
    <3> QED BY <2>1, <3>4
  <2>6. CASE ~(n <= k)
    <3>1. f[n] = f[n - 1]
      BY <1>3, <1>4, <2>3, <2>6
    <3>2. f[n - 1] = s
      <4>1. CASE n - 1 <= k
        <5>1. n - 1 = k /\ m + (n - 1) = b
          BY <1>1, <2>3, <2>6, <4>1
        <5> QED BY <2>4, <4>1, <5>1
      <4>2. CASE ~(n - 1 <= k)
        BY <2>4, <4>2
      <4> QED BY <4>1, <4>2
    <3>3. P(n)
      BY <2>6, <3>1, <3>2
    <3> HIDE DEF P
    <3> QED BY <2>1, <3>3
  <2> QED BY <2>5, <2>6
<1>6. P(N)
  <2> HIDE DEF P
  <2> QED BY <1>2, <1>5
<1>7. f[N] = s
  <2>1. CASE N <= k
    <3>1. N = k /\ m + N = b
      BY <1>1, <1>2, <2>1
    <3> QED BY <1>6, <2>1, <3>1
  <2>2. CASE ~(N <= k)
    BY <1>6, <2>2
  <2> QED BY <2>1, <2>2
<1> QED BY <1>7 DEF N, q

\* What is on the screen, on its way and in the buffer, by how far the terminal is.
TheEnd == IF session = "over" THEN <<Output!End>> ELSE <<>>
OutTypes ==
  /\ kind \in {"ssh", "local"} /\ session \in {"open", "over"} /\ view \in {"none", "mounted", "gone"}
  /\ attached \in BOOLEAN /\ out \in 0 .. MaxOut /\ dropped \in 0 .. out
OutFlow ==
  /\ view = "none" => attaches = 0 /\ ~attached /\ toScreen = <<Output!Opened>> \o TheEnd
  /\ view = "mounted" /\ ~attached => toScreen = TheEnd
  /\ ~attached => shown = <<>> /\ preAttach = Numbers(dropped, out)
  /\ view = "mounted" /\ attached =>
       /\ preAttach = <<>>
       /\ \E m \in dropped .. out : shown = Numbers(dropped, m) /\ toScreen = Numbers(m, out) \o TheEnd
OutInv == OutTypes /\ OutFlow

LEMMA InitOut == Output!Init => OutInv
<1> SUFFICES ASSUME Output!Init PROVE OutInv
  OBVIOUS
<1>1. /\ kind \in {"ssh", "local"} /\ out = 0 /\ session = "open" /\ attached = FALSE /\ preAttach = <<>>
      /\ toScreen = <<Output!Opened>> /\ attaches = 0 /\ view = "none" /\ shown = <<>> /\ dropped = 0
  BY DEF Output!Init
<1>2. TheEnd = <<>> /\ <<Output!Opened>> \o <<>> = <<Output!Opened>> /\ Numbers(0, 0) = <<>>
  <2>1. <<Output!Opened>> \in Seq({Output!Opened})
    OBVIOUS
  <2> QED BY <1>1, <2>1, ConcatEmptySeq, NumbersAre DEF TheEnd
<1>3. MaxOut \in Nat
  BY BoundsAssumption DEF BoundsAssumption
<1>4. attached \in BOOLEAN
  BY <1>1
<1>5. OutTypes
  BY <1>1, <1>3, <1>4 DEF OutTypes
<1>6. OutFlow
  BY <1>1, <1>2 DEF OutFlow
<1> QED BY <1>5, <1>6 DEF OutInv

LEMMA TheEndIs == ASSUME OutTypes
                 PROVE  /\ TheEnd \in Seq(Nat) /\ MaxOut \in Nat /\ Output!Opened = 0 /\ Output!End = MaxOut + 1
                        /\ (session = "open" => TheEnd = <<>>) /\ (session = "over" => TheEnd = <<Output!End>>)
                        /\ \A i \in DOMAIN TheEnd : TheEnd[i] = MaxOut + 1
                        /\ out \in Nat /\ dropped \in Nat /\ dropped <= out
<1>1. MaxOut \in Nat /\ Output!Opened = 0 /\ Output!End = MaxOut + 1
  BY BoundsAssumption DEF BoundsAssumption, Output!Opened, Output!End
<1>2. (session = "open" => TheEnd = <<>>) /\ (session = "over" => TheEnd = <<Output!End>>)
  BY DEF TheEnd
<1>3. session \in {"open", "over"} /\ out \in 0 .. MaxOut /\ dropped \in 0 .. out
  BY DEF OutTypes
<1>4. out \in Nat /\ dropped \in Nat /\ dropped <= out
  BY <1>1, <1>3
<1> DEFINE e == Output!End
<1>5. e \in Nat /\ e = MaxOut + 1
  BY <1>1
<1> HIDE DEF e
<1>6. <<e>> \in Seq(Nat) /\ (\A i \in DOMAIN <<e>> : <<e>>[i] = e) /\ <<>> \in Seq(Nat) /\ DOMAIN <<>> = {}
  BY <1>5
<1>7. TheEnd = <<>> \/ TheEnd = <<e>>
  BY <1>2, <1>3 DEF e
<1> QED BY <1>1, <1>2, <1>4, <1>5, <1>6, <1>7 DEF e

LEMMA OutputIsShown == OutInv => Output!EachByteOnce
<1> SUFFICES ASSUME OutInv, view # "gone", session = "open" \/ attached
             PROVE  shown \o Output!Chunks(toScreen) \o preAttach = [n \in 1..(out - dropped) |-> n + dropped]
  BY DEF Output!EachByteOnce
<1>1. OutTypes /\ OutFlow /\ view \in {"none", "mounted"} /\ attached \in BOOLEAN
  BY DEF OutInv, OutTypes
<1>2. /\ TheEnd \in Seq(Nat) /\ MaxOut \in Nat /\ Output!Opened = 0 /\ Output!End = MaxOut + 1
      /\ (session = "open" => TheEnd = <<>>) /\ (session = "over" => TheEnd = <<Output!End>>)
      /\ \A i \in DOMAIN TheEnd : TheEnd[i] = MaxOut + 1
      /\ out \in Nat /\ dropped \in Nat /\ dropped <= out /\ out <= MaxOut
  BY <1>1, TheEndIs DEF OutTypes
<1> DEFINE S == 1 .. MaxOut
           c == CHOOSE f : Filters(f, toScreen, S)
<1>3. Output!Chunks(toScreen) = c[Len(toScreen)]
  BY DEF Output!Chunks, Filters
<1>4. ASSUME NEW m \in Nat, NEW b \in Nat, NEW e \in Seq(Nat), m <= b, b <= MaxOut, \A i \in DOMAIN e : e[i] \notin S,
             toScreen = Numbers(m, b) \o e
      PROVE  Output!Chunks(toScreen) = Numbers(m, b)
  <2>1. Numbers(m, b) \in Seq(Nat)
    BY <1>4, NumbersAre
  <2> DEFINE q == Numbers(m, b) \o e
  <2>2. q \in Seq(Nat)
    BY <2>1, ConcatProperties
  <2>3. Filters(c, q, S)
    <3>1. \E f : Filters(f, q, S)
      <4> HIDE DEF q, S
      <4> QED BY <2>2, FilterIsThere
    <3>2. c = CHOOSE f : Filters(f, q, S)
      BY <1>4
    <3> HIDE DEF c, q, S
    <3> QED BY <3>1, <3>2
  <2>4. \A n \in 1 .. (b - m) : n + m \in S
    BY <1>2, <1>4
  <2> HIDE DEF c, S
  <2>5. c[Len(q)] = Numbers(m, b)
    BY <1>4, <2>3, <2>4, FilterOfNumbers
  <2> QED BY <1>3, <1>4, <2>5 DEF S, c
<1> HIDE DEF c
<1>5. CASE attached
  <2>1. view = "mounted" /\ preAttach = <<>>
    BY <1>1, <1>5 DEF OutFlow
  <2>2. PICK m \in dropped .. out : shown = Numbers(dropped, m) /\ toScreen = Numbers(m, out) \o TheEnd
    BY <1>1, <1>5, <2>1 DEF OutFlow
  <2>3. m \in Nat /\ dropped <= m /\ m <= out
    BY <1>2, <2>2
  <2>4. \A i \in DOMAIN TheEnd : TheEnd[i] \notin S
    BY <1>2
  <2>5. Output!Chunks(toScreen) = Numbers(m, out)
    BY <1>2, <1>4, <2>2, <2>3, <2>4
  <2>6. Numbers(dropped, m) \o Numbers(m, out) = Numbers(dropped, out) /\ Numbers(dropped, out) \in Seq(Nat)
    BY <1>2, <2>3, Joined, NumbersAre
  <2>7. Numbers(dropped, out) \o <<>> = Numbers(dropped, out)
    BY <2>6, ConcatEmptySeq
  <2> QED BY <2>1, <2>2, <2>5, <2>6, <2>7 DEF Numbers
<1>6. CASE ~attached
  <2>1. session = "open" /\ TheEnd = <<>> /\ shown = <<>> /\ preAttach = Numbers(dropped, out)
    BY <1>1, <1>2, <1>6 DEF OutFlow
  <2>2. PICK e \in Seq(Nat) : toScreen = e /\ \A i \in DOMAIN e : e[i] \notin S
    <3>1. CASE view = "none"
      <4>1. <<0>> \in Seq(Nat) /\ <<0>> \o <<>> = <<0>> /\ \A i \in DOMAIN <<0>> : <<0>>[i] = 0
        OBVIOUS
      <4>2. toScreen = <<0>>
        BY <1>1, <1>2, <2>1, <3>1, <4>1 DEF OutFlow
      <4>3. 0 \notin S
        OBVIOUS
      <4> HIDE DEF S
      <4> QED BY <4>1, <4>2, <4>3
    <3>2. CASE view = "mounted"
      <4>1. toScreen = <<>>
        BY <1>1, <1>6, <2>1, <3>2 DEF OutFlow
      <4>2. <<>> \in Seq(Nat) /\ DOMAIN <<>> = {}
        OBVIOUS
      <4> HIDE DEF S
      <4> QED BY <4>1, <4>2
    <3> QED BY <1>1, <3>1, <3>2
  <2>3. Numbers(0, 0) = <<>> /\ <<>> \o e = e
    BY ConcatEmptySeq, NumbersAre
  <2>4. Output!Chunks(toScreen) = <<>>
    <3>1. 0 \in Nat /\ 0 <= 0 /\ 0 <= MaxOut
      BY <1>2
    <3>2. toScreen = Numbers(0, 0) \o e
      BY <2>2, <2>3
    <3> HIDE DEF S
    <3> QED BY <1>4, <2>2, <2>3, <3>1, <3>2
  <2>5. Numbers(dropped, out) \in Seq(Nat)
    BY <1>2, NumbersAre
  <2>6. <<>> \o <<>> = <<>> /\ <<>> \o Numbers(dropped, out) = Numbers(dropped, out)
    BY <2>5, ConcatEmptySeq
  <2> QED BY <2>1, <2>4, <2>6 DEF Numbers
<1> QED BY <1>1, <1>5, <1>6

LEMMA OutWrites == ASSUME OutInv, Output!onData PROVE OutInv'
<1>0. OutTypes /\ OutFlow
  BY DEF OutInv
<1>1. /\ session = "open" /\ out < MaxOut /\ out' = out + 1
      /\ UNCHANGED <<kind, session, attached, attaches, view, shown>>
      /\ attached => toScreen' = Append(toScreen, out + 1) /\ UNCHANGED <<preAttach, dropped>>
      /\ ~attached => Output!buffer(out + 1) /\ UNCHANGED toScreen
  BY DEF Output!onData
<1>2. /\ TheEnd \in Seq(Nat) /\ MaxOut \in Nat /\ out \in Nat /\ dropped \in Nat /\ dropped <= out /\ TheEnd = <<>>
      /\ TheEnd' = TheEnd
  BY <1>0, <1>1, TheEndIs DEF TheEnd
<1>3. CASE attached
  <2>1. OutTypes'
    BY <1>0, <1>1, <1>2, <1>3 DEF OutTypes
  <2>2. ASSUME view = "mounted" PROVE \E m \in dropped' .. out' : shown' = Numbers(dropped', m) /\ toScreen' = Numbers(m, out') \o TheEnd'
    <3>1. PICK m \in dropped .. out : shown = Numbers(dropped, m) /\ toScreen = Numbers(m, out) \o TheEnd
      BY <1>0, <1>3, <2>2 DEF OutFlow
    <3>2. m \in Nat /\ m <= out /\ m <= out + 1 /\ out + 1 \in Nat /\ m \in dropped .. out + 1
      BY <1>2, <3>1
    <3>3. Numbers(m, out) \in Seq(Nat)
      BY <1>2, <3>2, NumbersAre
    <3>b. Numbers(m, out + 1) \in Seq(Nat)
      BY <3>2, NumbersAre
    <3>4. Numbers(m, out) \o <<>> = Numbers(m, out)
      BY <3>3, ConcatEmptySeq
    <3>c. Numbers(m, out + 1) \o <<>> = Numbers(m, out + 1)
      BY <3>b, ConcatEmptySeq
    <3>5. Append(Numbers(m, out), out + 1) = Numbers(m, out + 1)
      BY <1>2, <3>2, OneMore
    <3> QED BY <1>1, <1>2, <1>3, <3>1, <3>2, <3>4, <3>5, <3>c
  <2>3. OutFlow'
    BY <1>0, <1>1, <1>3, <2>2 DEF OutFlow
  <2> QED BY <2>1, <2>3 DEF OutInv
<1>4. CASE ~attached
  <2> DEFINE buf == Append(preAttach, out + 1)
             over == IF Len(buf) > Cap THEN Len(buf) - Cap ELSE 0
  <2>1. preAttach' = SubSeq(buf, over + 1, Len(buf)) /\ dropped' = dropped + over /\ UNCHANGED toScreen
    BY <1>1, <1>4 DEF Output!buffer
  <2>11. preAttach = Numbers(dropped, out) /\ shown = <<>>
    BY <1>0, <1>4 DEF OutFlow
  <2> DEFINE c == out + 1
  <2>12. c \in Nat /\ dropped <= c
    BY <1>2
  <2>13. buf = Numbers(dropped, c)
    BY <1>2, <2>11, OneMore
  <2>14. Len(buf) = c - dropped /\ c - dropped \in Nat
    BY <1>2, <2>12, <2>13, NumbersAre
  <2>15. over \in 0 .. (c - dropped)
    <3>1. Cap \in Nat
      BY BoundsAssumption DEF BoundsAssumption
    <3> HIDE DEF buf, c
    <3> QED BY <2>14, <3>1
  <2>16. SubSeq(Numbers(dropped, c), over + 1, c - dropped) = Numbers(dropped + over, c) /\ dropped + over \in Nat /\ dropped + over <= c
    <3> HIDE DEF over, c
    <3> QED BY <1>2, <2>12, <2>15, WithoutOldest
  <2>17. preAttach' = Numbers(dropped', out') /\ dropped' \in 0 .. out'
    <3>1. preAttach' = SubSeq(Numbers(dropped, c), over + 1, c - dropped)
      BY <2>1, <2>13, <2>14
    <3> HIDE DEF over, buf
    <3>2. dropped' = dropped + over /\ out' = c
      BY <1>1, <2>1
    <3>3. preAttach' = Numbers(dropped', out')
      BY <2>16, <3>1, <3>2
    <3>4. dropped + over \in 0 .. c
      <4> HIDE DEF c
      <4> QED BY <2>12, <2>16
    <3> QED BY <3>2, <3>3, <3>4
  <2>18. OutTypes' /\ OutFlow'
    <3> HIDE DEF over, buf
    <3>1. attached' \in BOOLEAN
      BY <1>0, <1>1 DEF OutTypes
    <3>2. OutTypes'
      BY <1>0, <1>1, <1>2, <2>17, <3>1 DEF OutTypes
    <3>3. OutFlow'
      BY <1>0, <1>1, <1>2, <1>4, <2>1, <2>11, <2>17 DEF OutFlow
    <3> QED BY <3>2, <3>3
  <2> QED BY <2>18 DEF OutInv
<1>5. attached \in BOOLEAN
  BY <1>0 DEF OutTypes
<1> QED BY <1>3, <1>4, <1>5

LEMMA OutAttaches == ASSUME OutInv, Output!attach PROVE OutInv'
<1>0. OutTypes /\ OutFlow
  BY DEF OutInv
<1>1. attaches > 0 /\ attaches' = attaches - 1 /\ UNCHANGED <<kind, out, session, view, shown, dropped>> /\ TheEnd' = TheEnd
  BY DEF Output!attach, TheEnd
<1>2. /\ TheEnd \in Seq(Nat) /\ out \in Nat /\ dropped \in Nat /\ dropped <= out /\ (session = "open" => TheEnd = <<>>)
  BY <1>0, <1>1, TheEndIs
<1>3. view # "none"
  BY <1>0, <1>1 DEF OutFlow
<1>4. CASE session = "open" /\ ~(kind = "ssh" /\ attached)
  <2>1. toScreen' = toScreen \o preAttach /\ preAttach' = <<>> /\ attached' = TRUE
    BY <1>4 DEF Output!attach
  <2>2. attached' \in BOOLEAN
    BY <2>1
  <2>3. OutTypes'
    BY <1>0, <1>1, <2>2 DEF OutTypes
  <2>4. ASSUME view = "mounted" PROVE \E m \in dropped .. out : shown = Numbers(dropped, m) /\ toScreen' = Numbers(m, out) \o TheEnd
    <3>1. CASE attached
      <4>1. PICK m \in dropped .. out : preAttach = <<>> /\ shown = Numbers(dropped, m) /\ toScreen = Numbers(m, out) \o TheEnd
        BY <1>0, <2>4, <3>1 DEF OutFlow
      <4>2. m \in Nat /\ m <= out
        BY <1>2, <4>1
      <4>3. Numbers(m, out) \in Seq(Nat)
        BY <1>2, <4>2, NumbersAre
      <4>4. toScreen \in Seq(Nat)
        BY <1>2, <4>1, <4>3, ConcatProperties
      <4>5. toScreen \o <<>> = toScreen
        BY <4>4, ConcatEmptySeq
      <4> QED BY <2>1, <4>1, <4>5
    <3>2. CASE ~attached
      <4>1. toScreen = <<>> /\ shown = <<>> /\ preAttach = Numbers(dropped, out) /\ TheEnd = <<>>
        BY <1>0, <1>2, <1>4, <2>4, <3>2 DEF OutFlow
      <4>2. Numbers(dropped, out) \in Seq(Nat) /\ Numbers(dropped, dropped) = <<>>
        BY <1>2, NumbersAre
      <4>3. <<>> \o Numbers(dropped, out) = Numbers(dropped, out) /\ Numbers(dropped, out) \o <<>> = Numbers(dropped, out)
        BY <4>2, ConcatEmptySeq
      <4>4. dropped \in dropped .. out
        BY <1>2
      <4> QED BY <2>1, <4>1, <4>2, <4>3, <4>4
    <3> QED BY <3>1, <3>2, <1>0 DEF OutTypes
  <2>5. OutFlow'
    BY <1>1, <1>3, <2>1, <2>4 DEF OutFlow
  <2> QED BY <2>3, <2>5 DEF OutInv
<1>5. CASE ~(session = "open" /\ ~(kind = "ssh" /\ attached))
  <2>1. UNCHANGED <<toScreen, preAttach, attached>>
    BY <1>5 DEF Output!attach
  <2>2. OutTypes'
    BY <1>0, <1>1, <2>1 DEF OutTypes
  <2>3. OutFlow'
    BY <1>0, <1>1, <1>3, <2>1 DEF OutFlow
  <2> QED BY <2>2, <2>3 DEF OutInv
<1> QED BY <1>4, <1>5

LEMMA OutExits == ASSUME OutInv, Output!onExit PROVE OutInv'
<1>0. OutTypes /\ OutFlow
  BY DEF OutInv
<1>1. /\ session = "open" /\ session' = "over" /\ toScreen' = Append(toScreen, Output!End)
      /\ UNCHANGED <<kind, out, attached, preAttach, attaches, view, shown, dropped>>
  BY DEF Output!onExit
<1>2. TheEnd = <<>> /\ TheEnd' = <<Output!End>> /\ Output!End \in Nat /\ Output!Opened \in Nat /\ out \in Nat /\ dropped \in Nat /\ dropped <= out
  BY <1>0, <1>1, TheEndIs DEF TheEnd
<1>3. OutTypes'
  BY <1>0, <1>1 DEF OutTypes
<1> DEFINE e == Output!End
           o == Output!Opened
<1>4. Append(<<>>, e) = <<e>> /\ <<o>> \o <<>> = <<o>> /\ Append(<<o>>, e) = <<o>> \o <<e>>
  <2>1. e \in Nat /\ o \in Nat
    BY <1>2
  <2> HIDE DEF e, o
  <2>2. <<o>> \in Seq(Nat)
    BY <2>1
  <2>3. <<o>> \o <<>> = <<o>>
    BY <2>2, ConcatEmptySeq
  <2>4. Append(<<o>>, e) = <<o>> \o <<e>>
    <3> DEFINE s == <<o>>
    <3>1. s \in Seq(Nat)
      BY <2>2
    <3> HIDE DEF s
    <3>2. s \o <<e>> = Append(s, e)
      BY <2>1, <3>1, AppendIs
    <3> QED BY <3>2 DEF s
  <2> QED BY <2>1, <2>3, <2>4
<1> HIDE DEF e, o
<1>5. ASSUME view = "mounted", attached
      PROVE  \E m \in dropped .. out : shown = Numbers(dropped, m) /\ toScreen' = Numbers(m, out) \o TheEnd'
  <2>1. PICK m \in dropped .. out : shown = Numbers(dropped, m) /\ toScreen = Numbers(m, out) \o TheEnd
    BY <1>0, <1>5 DEF OutFlow
  <2>2. m \in Nat /\ m <= out
    BY <1>2, <2>1
  <2>3. Numbers(m, out) \in Seq(Nat)
    BY <1>2, <2>2, NumbersAre
  <2>4. Numbers(m, out) \o <<>> = Numbers(m, out)
    BY <2>3, ConcatEmptySeq
  <2>5. Append(Numbers(m, out), e) = Numbers(m, out) \o <<e>>
    <3> DEFINE s == Numbers(m, out)
    <3>1. s \in Seq(Nat) /\ e \in Nat
      BY <1>2, <2>3 DEF e
    <3> HIDE DEF s
    <3> QED BY <3>1, AppendIs
  <2> QED BY <1>1, <1>2, <2>1, <2>4, <2>5 DEF e
<1>6. OutFlow'
  <2>1. view = "none" => attaches' = 0 /\ ~attached' /\ toScreen' = <<Output!Opened>> \o TheEnd'
    BY <1>0, <1>1, <1>2, <1>4 DEF OutFlow, e, o
  <2>2. view = "mounted" /\ ~attached => toScreen' = TheEnd'
    BY <1>0, <1>1, <1>2, <1>4 DEF OutFlow, e, o
  <2> QED BY <1>0, <1>1, <1>5, <2>1, <2>2 DEF OutFlow
<1> QED BY <1>3, <1>6 DEF OutInv

LEMMA OutReceives == ASSUME OutInv, Output!Receive PROVE OutInv'
<1>0. OutTypes /\ OutFlow
  BY DEF OutInv
<1> DEFINE m == Head(toScreen)
<1>1. toScreen # <<>> /\ toScreen' = Tail(toScreen) /\ UNCHANGED <<kind, out, session, attached, preAttach, dropped>> /\ TheEnd' = TheEnd
  BY DEF Output!Receive, TheEnd
<1>2. /\ TheEnd \in Seq(Nat) /\ MaxOut \in Nat /\ Output!Opened = 0 /\ Output!End = MaxOut + 1
      /\ (session = "open" => TheEnd = <<>>) /\ (session = "over" => TheEnd = <<Output!End>>)
      /\ out \in Nat /\ dropped \in Nat /\ dropped <= out /\ out <= MaxOut
  BY <1>0, TheEndIs DEF OutTypes
<1>3. CASE view = "gone"
  <2>1. view' = "gone"
    BY <1>1, <1>3 DEF Output!Receive
  <2>2. shown' = shown
    BY <1>3 DEF Output!Receive
  <2>3. ~attached => shown' = <<>> /\ preAttach = Numbers(dropped, out)
    BY <1>0, <1>1, <2>2 DEF OutFlow
  <2>4. OutTypes'
    BY <1>0, <1>1, <2>1 DEF OutTypes
  <2>5. OutFlow'
    BY <1>0, <1>1, <2>1, <2>3 DEF OutFlow
  <2> QED BY <2>4, <2>5 DEF OutInv
<1>4. CASE view = "none"
  <2>1. ~attached /\ toScreen = <<Output!Opened>> \o TheEnd /\ preAttach = Numbers(dropped, out)
    BY <1>0, <1>4 DEF OutFlow
  <2>2. m = 0 /\ Tail(toScreen) = TheEnd
    BY <1>2, <2>1
  <2>3. Output!TerminalView
    BY <1>2, <1>4, <2>2 DEF Output!Receive
  <2>4. view' = "mounted" /\ shown' = <<>>
    BY <2>3 DEF Output!TerminalView
  <2>5. OutTypes'
    BY <1>0, <1>1, <2>4 DEF OutTypes
  <2>6. OutFlow'
    BY <1>1, <2>1, <2>2, <2>4 DEF OutFlow
  <2> QED BY <2>5, <2>6 DEF OutInv
<1>5. CASE view = "mounted"
  <2>1. CASE m = Output!End
    <3>1. view' = "gone"
      BY <1>2, <1>5, <2>1 DEF Output!Receive
    <3>2. OutTypes'
      BY <1>0, <1>1, <3>1 DEF OutTypes
    <3>a. (view = "none") = FALSE /\ (view = "none" /\ m = Output!Opened) = FALSE
      BY <1>5
    <3>b. shown' = shown
      BY <1>2, <1>5, <2>1, <3>a DEF Output!Receive
    <3>3. OutFlow'
      BY <1>0, <1>1, <3>1, <3>b DEF OutFlow
    <3> QED BY <3>2, <3>3 DEF OutInv
  <2>2. CASE m # Output!End
    <3>1. attached
      <4>1. CASE ~attached
        <5>1. toScreen = TheEnd
          BY <1>0, <1>5, <4>1 DEF OutFlow
        <5>2. session = "over" \/ session = "open"
          BY <1>0 DEF OutTypes
        <5> QED BY <1>1, <1>2, <2>2, <5>1, <5>2
      <4> QED BY <4>1
    <3>2. PICK k \in dropped .. out : shown = Numbers(dropped, k) /\ toScreen = Numbers(k, out) \o TheEnd
      BY <1>0, <1>5, <3>1 DEF OutFlow
    <3>3. k \in Nat /\ dropped <= k /\ k <= out
      BY <1>2, <3>2
    <3>4. k # out
      <4> SUFFICES ASSUME k = out PROVE FALSE
        OBVIOUS
      <4>1. Numbers(k, out) = <<>> /\ <<>> \o TheEnd = TheEnd
        BY <1>2, <3>3, NumbersAre, ConcatEmptySeq
      <4>2. toScreen = TheEnd /\ (session = "over" \/ session = "open")
        BY <1>0, <3>2, <4>1 DEF OutTypes
      <4> QED BY <1>1, <1>2, <2>2, <4>2
    <3>5. k < out
      BY <1>2, <3>3, <3>4
    <3>6. m = k + 1 /\ Tail(toScreen) = Numbers(k + 1, out) \o TheEnd
      BY <1>2, <3>2, <3>3, <3>5, FirstOff
    <3>7. m \in 1 .. MaxOut /\ m # Output!Opened
      BY <1>2, <3>3, <3>5, <3>6
    <3>8. shown' = Append(shown, m) /\ view' = "mounted"
      <4> HIDE DEF m
      <4>1. (view = "none") = FALSE
        BY <1>5
      <4> QED BY <1>5, <2>2, <3>7 DEF Output!Receive, m
    <3>9. shown' = Numbers(dropped, k + 1)
      BY <1>2, <3>2, <3>3, <3>6, <3>8, OneMore
    <3>10. k + 1 \in dropped .. out
      BY <1>2, <3>3, <3>5
    <3>11. OutTypes'
      BY <1>0, <1>1, <3>8 DEF OutTypes
    <3>12. OutFlow'
      <4>1. preAttach' = <<>>
        BY <1>0, <1>1, <1>5, <3>1 DEF OutFlow
      <4> HIDE DEF m
      <4> QED BY <1>1, <3>1, <3>6, <3>8, <3>9, <3>10, <4>1 DEF OutFlow
    <3> QED BY <3>11, <3>12 DEF OutInv
  <2> QED BY <2>1, <2>2
<1> QED BY <1>0, <1>3, <1>4, <1>5 DEF OutTypes

LEMMA NextOut == ASSUME OutInv, Output!Next \/ UNCHANGED output PROVE OutInv'
<1>1. CASE Output!CloseTab
  BY <1>1 DEF Output!CloseTab, OutInv, OutTypes, OutFlow
<1>2. CASE UNCHANGED output
  BY <1>2 DEF output, OutInv, OutTypes, OutFlow, TheEnd
<1> QED BY <1>1, <1>2, OutWrites, OutAttaches, OutExits, OutReceives DEF Output!Next

-----------------------------------------------------------------------------
(* The drawer of the transfers *)

\* A sequence without repetitions is as long as the set of what is in it.
LEMMA OnceIsCounted ==
  ASSUME NEW T, NEW s \in Seq(T), Once(s)
  PROVE  Cardinality(Elems(s)) = Len(s)
<1>1. Len(s) \in Nat /\ DOMAIN s = 1 .. Len(s) /\ s \in [1 .. Len(s) -> Elems(s)]
  BY DEF Elems
<1>2. s \in Bijection(1 .. Len(s), Elems(s))
  BY <1>1 DEF Elems, Once, Bijection, Injection, Surjection, IsInjective
<1>3. ExistsBijection(1 .. Len(s), Elems(s))
  BY <1>2 DEF ExistsBijection
<1>4. IsFiniteSet(1 .. Len(s)) /\ Cardinality(1 .. Len(s)) = Len(s)
  BY <1>1, FS_Interval
<1> QED BY <1>3, <1>4, FS_Bijection

DrawerStatus == Drawer!Status \cup {None}
DrawerEvent == [id : TransferId, status : Drawer!Status]
DrawerCall == [id : TransferId, call : {"cancel", "retry"}]
DrawerTypes ==
  /\ main \in [TransferId -> DrawerStatus] /\ transfers \in [TransferId -> DrawerStatus] /\ wiped \in [TransferId -> DrawerStatus]
  /\ events \in Seq(DrawerEvent) /\ drawerCalls \in Seq(DrawerCall)
  /\ order \in Seq(TransferId) /\ Once(order)

\* A row is as main has the transfer, or will be told; one that was cleared had ended as it did.
RowIs(t) == IF t \in Elems(order) THEN transfers[t] = main[t] ELSE main[t] = wiped[t] /\ main[t] \notin Drawer!Unfinished
OfRow(t) == {e \in DrawerEvent : e.id = t}
Says(s) == {e \in DrawerEvent : e.status = s}
RowsFollow == \A t \in TransferId : LastSays(events, OfRow(t), Says(main[t]), RowIs(t))
DrawerInv == DrawerTypes /\ RowsFollow

LEMMA DrawerShows == DrawerInv => Drawer!TypeOK /\ Drawer!DrawerIsMain
<1> SUFFICES ASSUME DrawerInv PROVE Drawer!TypeOK /\ Drawer!DrawerIsMain
  OBVIOUS
<1>1. Drawer!InOrder = Elems(order)
  BY DEF Drawer!InOrder, Elems
<1>2. Cardinality(Elems(order)) = Len(order)
  BY OnceIsCounted DEF DrawerInv, DrawerTypes
<1>3. Drawer!Cardinality(Elems(order)) = Len(order)
  BY <1>2 DEF Drawer!Cardinality, Cardinality
<1>4. Drawer!TypeOK
  BY <1>1, <1>3 DEF DrawerInv, DrawerTypes, DrawerStatus, Drawer!TypeOK
<1>5. ASSUME events = <<>>, NEW t \in TransferId PROVE RowIs(t)
  BY <1>5, LastSaid DEF DrawerInv, RowsFollow
<1>6. Drawer!DrawerIsMain
  BY <1>1, <1>5 DEF Drawer!DrawerIsMain, RowIs
<1> QED BY <1>4, <1>6

LEMMA InitDrawer == Drawer!Init => DrawerInv
<1> SUFFICES ASSUME Drawer!Init PROVE DrawerInv
  OBVIOUS
<1>1. /\ main = [t \in TransferId |-> None] /\ events = <<>> /\ drawerCalls = <<>>
      /\ transfers = [t \in TransferId |-> None] /\ order = <<>> /\ wiped = [t \in TransferId |-> None]
  BY DEF Drawer!Init
<1>2. DrawerTypes
  BY <1>1 DEF DrawerTypes, DrawerStatus, Once
<1>3. ASSUME NEW t \in TransferId PROVE RowIs(t)
  BY <1>1, NoStatusAssumption DEF RowIs, Elems, Drawer!Unfinished
<1>4. RowsFollow
  BY <1>1, <1>3, NothingSaid DEF RowsFollow
<1> QED BY <1>2, <1>4 DEF DrawerInv

\* What main makes of a transfer is told.
LEMMA DrawerTells ==
  ASSUME DrawerInv, NEW u \in TransferId, NEW s \in Drawer!Status, main' = [main EXCEPT ![u] = s],
         events' = Append(events, [id |-> u, status |-> s]), UNCHANGED <<transfers, order, wiped>>
  PROVE  main' \in [TransferId -> DrawerStatus] /\ events' \in Seq(DrawerEvent) /\ RowsFollow'
<1> DEFINE e == [id |-> u, status |-> s]
<1>1. e \in DrawerEvent /\ e.id = u /\ e.status = s
  BY DEF DrawerEvent
<1> HIDE DEF e
<1>2. events \in Seq(DrawerEvent) /\ main \in [TransferId -> DrawerStatus]
  BY DEF DrawerInv, DrawerTypes
<1>3. main' \in [TransferId -> DrawerStatus] /\ main'[u] = s /\ \A t \in TransferId : t # u => main'[t] = main[t]
  BY <1>2 DEF DrawerStatus
<1>4. events' = Append(events, e) /\ Append(events, e) \in Seq(DrawerEvent)
  BY <1>1, <1>2 DEF e
<1>5. ASSUME NEW t \in TransferId PROVE LastSays(Append(events, e), OfRow(t), Says(main'[t]), RowIs(t)')
  <2>1. CASE t = u
    <3>1. e \in OfRow(t) /\ e \in Says(main'[t])
      BY <1>1, <1>3, <2>1 DEF OfRow, Says
    <3> QED BY <1>1, <1>2, <3>1, LastTold
  <2>2. CASE t # u
    <3>1. e \notin OfRow(t) /\ main'[t] = main[t]
      BY <1>1, <1>3, <2>2 DEF OfRow
    <3>2. RowIs(t)' <=> RowIs(t)
      BY <3>1 DEF RowIs
    <3>3. LastSays(events, OfRow(t), Says(main[t]), RowIs(t))
      BY DEF DrawerInv, RowsFollow
    <3>4. LastSays(events, OfRow(t), Says(main'[t]), RowIs(t)')
      BY <3>1, <3>2, <3>3, LastStays
    <3> QED BY <1>1, <1>2, <3>1, <3>4, LastTold
  <2> QED BY <2>1, <2>2
<1> QED BY <1>3, <1>4, <1>5 DEF RowsFollow, OfRow, Says

LEMMA NextDrawer == ASSUME DrawerInv, Drawer!Next \/ UNCHANGED drawer PROVE DrawerInv'
<1>0. /\ main \in [TransferId -> DrawerStatus] /\ transfers \in [TransferId -> DrawerStatus] /\ wiped \in [TransferId -> DrawerStatus]
      /\ events \in Seq(DrawerEvent) /\ drawerCalls \in Seq(DrawerCall)
      /\ order \in Seq(TransferId) /\ Once(order)
  BY DEF DrawerInv, DrawerTypes
<1>a. Drawer!InOrder = Elems(order)
  BY DEF Drawer!InOrder, Elems
<1>1. CASE UNCHANGED drawer
  BY <1>1 DEF drawer, DrawerInv, DrawerTypes, RowsFollow, RowIs, OfRow, Says, Once
<1>2. ASSUME NEW t \in TransferId, NEW s \in Drawer!Status, Drawer!MainMoves(t, s) PROVE DrawerInv'
  <2>1. main' = [main EXCEPT ![t] = s] /\ events' = Append(events, [id |-> t, status |-> s]) /\ UNCHANGED <<drawerCalls, transfers, order, wiped>>
    BY <1>2 DEF Drawer!MainMoves, Drawer!Emit
  <2>2. main' \in [TransferId -> DrawerStatus] /\ events' \in Seq(DrawerEvent) /\ RowsFollow'
    BY <2>1, DrawerTells
  <2> QED BY <1>0, <2>1, <2>2 DEF DrawerInv, DrawerTypes, Once
<1>3. ASSUME NEW t \in TransferId, NEW c \in {"cancel", "retry"}, Drawer!Click(t, c) PROVE DrawerInv'
  <2>1. drawerCalls' = Append(drawerCalls, [id |-> t, call |-> c]) /\ UNCHANGED <<main, events, transfers, order, wiped>>
    BY <1>3 DEF Drawer!Click
  <2>2. [id |-> t, call |-> c] \in DrawerCall
    BY DEF DrawerCall
  <2>3. drawerCalls' \in Seq(DrawerCall)
    BY <1>0, <2>1, <2>2, AppendIs
  <2> QED BY <1>0, <2>1, <2>3 DEF DrawerInv, DrawerTypes, RowsFollow, RowIs, OfRow, Says, Once
<1>4. CASE Drawer!MainCalled
  <2> DEFINE t == Head(drawerCalls).id
             s == IF Head(drawerCalls).call = "cancel" THEN "cancelled" ELSE "queued"
  <2>1. drawerCalls # <<>> /\ drawerCalls' = Tail(drawerCalls) /\ UNCHANGED <<transfers, order, wiped>>
    BY <1>4 DEF Drawer!MainCalled
  <2>2. Tail(drawerCalls) \in Seq(DrawerCall) /\ Head(drawerCalls) \in DrawerCall
    BY <1>0, <2>1, TailIs
  <2>3. t \in TransferId /\ s \in Drawer!Status
    BY <2>2 DEF DrawerCall, Drawer!Status
  <2>4. \/ main' = [main EXCEPT ![t] = s] /\ events' = Append(events, [id |-> t, status |-> s])
        \/ UNCHANGED <<main, events>>
    BY <1>4 DEF Drawer!MainCalled, Drawer!Emit
  <2> HIDE DEF t, s
  <2>5. main' \in [TransferId -> DrawerStatus] /\ events' \in Seq(DrawerEvent) /\ RowsFollow'
    <3>1. CASE UNCHANGED <<main, events>>
      BY <1>0, <2>1, <3>1 DEF DrawerInv, RowsFollow, RowIs, OfRow, Says
    <3>2. CASE main' = [main EXCEPT ![t] = s] /\ events' = Append(events, [id |-> t, status |-> s])
      BY <2>1, <2>3, <3>2, DrawerTells
    <3> QED BY <2>4, <3>1, <3>2
  <2> QED BY <1>0, <2>1, <2>2, <2>5 DEF DrawerInv, DrawerTypes, Once
<1>5. CASE Drawer!Heard
  <2> DEFINE e == Head(events)
  <2>1. /\ events # <<>> /\ events' = Tail(events) /\ UNCHANGED <<main, drawerCalls>>
        /\ transfers' = [transfers EXCEPT ![e.id] = e.status] /\ wiped' = [wiped EXCEPT ![e.id] = None]
        /\ order' = IF e.id \in Elems(order) THEN order ELSE Append(order, e.id)
    BY <1>5, <1>a DEF Drawer!Heard
  <2>2. Tail(events) \in Seq(DrawerEvent) /\ e \in DrawerEvent
    BY <1>0, <2>1, TailIs
  <2>3. e.id \in TransferId /\ e.status \in Drawer!Status
    BY <2>2 DEF DrawerEvent
  <2> HIDE DEF e
  <2>4. transfers' \in [TransferId -> DrawerStatus] /\ wiped' \in [TransferId -> DrawerStatus]
    BY <1>0, <2>1, <2>3 DEF DrawerStatus
  <2>5. order' \in Seq(TransferId) /\ Once(order') /\ Elems(order') = Elems(order) \cup {e.id}
    <3>1. CASE e.id \in Elems(order)
      BY <1>0, <2>1, <3>1
    <3>2. CASE e.id \notin Elems(order)
      <4> DEFINE p == Append(order, e.id)
                 l == Len(order) + 1
      <4>1. /\ p \in Seq(TransferId) /\ DOMAIN p = DOMAIN order \cup {l} /\ p[l] = e.id /\ l \notin DOMAIN order
            /\ \A i \in DOMAIN order : p[i] = order[i]
        BY <1>0, <2>3, AppendIs
      <4>2. order' = p
        BY <2>1, <3>2
      <4> HIDE DEF p, l
      <4>3. Elems(p) = Elems(order) \cup {e.id}
        BY <4>1 DEF Elems
      <4>4. Once(p)
        BY <1>0, <3>2, <4>1 DEF Once, Elems
      <4> QED BY <4>1, <4>2, <4>3, <4>4
    <3> QED BY <3>1, <3>2
  <2>6. ASSUME NEW t \in TransferId PROVE LastSays(Tail(events), OfRow(t), Says(main[t]), RowIs(t)')
    <3>1. LastSays(events, OfRow(t), Says(main[t]), RowIs(t))
      BY DEF DrawerInv, RowsFollow
    <3>2. e \in OfRow(t) /\ e \in Says(main[t]) => RowIs(t)'
      BY <1>0, <2>1, <2>5 DEF OfRow, Says, RowIs
    <3>3. e \notin OfRow(t) /\ RowIs(t) => RowIs(t)'
      BY <1>0, <2>1, <2>2, <2>5 DEF OfRow, RowIs
    <3> QED BY <1>0, <2>1, <3>1, <3>2, <3>3, LastHeard DEF e
  <2>7. RowsFollow'
    BY <2>1, <2>6 DEF RowsFollow, OfRow, Says
  <2>8. DrawerTypes'
    BY <1>0, <2>1, <2>2, <2>4, <2>5 DEF DrawerTypes
  <2> QED BY <2>7, <2>8 DEF DrawerInv
<1>6. CASE Drawer!clearFinished
  <2> DEFINE gone == {t \in Elems(order) : transfers[t] \notin Drawer!Unfinished}
             kept == CHOOSE f : Filters(f, order, TransferId \ gone)
  <2>1. /\ order' = Drawer!Kept(TransferId \ gone) /\ UNCHANGED <<main, events, drawerCalls>>
        /\ transfers' = [t \in TransferId |-> IF t \in gone THEN None ELSE transfers[t]]
        /\ wiped' = [t \in TransferId |-> IF t \in gone THEN transfers[t] ELSE wiped[t]]
    BY <1>6, <1>a DEF Drawer!clearFinished
  <2>2. Drawer!Kept(TransferId \ gone) = kept[Len(order)]
    BY DEF Drawer!Kept, Filters
  <2>3. Filters(kept, order, TransferId \ gone)
    BY <1>0, FilterIsThere
  <2> DEFINE S == TransferId \ gone
  <2>9. order' = kept[Len(order)] /\ Filters(kept, order, S)
    BY <2>1, <2>2, <2>3
  <2> HIDE DEF kept, S
  <2>4. order' \in Seq(TransferId) /\ Elems(order') = Elems(order) \cap (TransferId \ gone) /\ Once(order')
    <3>1. order' \in Seq(TransferId) /\ Elems(order') = Elems(order) \cap S /\ Once(order')
      BY <1>0, <2>9, FilterIs
    <3> QED BY <3>1 DEF S
  <2>5. \A t \in TransferId : t \in gone <=> t \in Elems(order) /\ transfers[t] \notin Drawer!Unfinished
    OBVIOUS
  <2> HIDE DEF gone
  <2>6. transfers' \in [TransferId -> DrawerStatus] /\ wiped' \in [TransferId -> DrawerStatus]
    BY <1>0, <2>1 DEF DrawerStatus
  <2>7. ASSUME NEW t \in TransferId PROVE LastSays(events, OfRow(t), Says(main[t]), RowIs(t)')
    <3>1. RowIs(t) => RowIs(t)'
      BY <1>0, <2>1, <2>4, <2>5 DEF RowIs
    <3>2. LastSays(events, OfRow(t), Says(main[t]), RowIs(t))
      BY DEF DrawerInv, RowsFollow
    <3> QED BY <3>1, <3>2, LastStays
  <2>8. RowsFollow'
    BY <2>1, <2>7 DEF RowsFollow, OfRow, Says
  <2> QED BY <1>0, <2>1, <2>4, <2>6, <2>8 DEF DrawerInv, DrawerTypes
<1> QED BY <1>1, <1>2, <1>3, <1>4, <1>5, <1>6 DEF Drawer!Next

-----------------------------------------------------------------------------
(* The settings *)

PrefPatch == [theme : Prefs!Theme] \cup [terminalWorkspaces : SUBSET Ws] \cup [mcpEnabled : BOOLEAN]
PrefCall ==
  [op : {"get"}] \cup [op : {"set"}, patch : PrefPatch, by : {"palette", "workspaces", "dialog"}]
  \cup [op : {"enable"}, patch : [mcpEnabled : BOOLEAN]]
PrefAnswer == [op : {"get", "palette", "workspaces", "dialog"}, is : Prefs!SettingsType \cup {None}]
PrefForm == [open : BOOLEAN, theme : Prefs!Theme]

\* The settings that are and that are shown
PrefTypes ==
  /\ committed \in Prefs!SettingsType /\ settings \in Prefs!SettingsType /\ cached \in Prefs!SettingsType \cup {None}
  /\ loaded \in BOOLEAN /\ form \in PrefForm
  /\ prefCalls \in Seq(PrefCall) /\ prefAnswers \in Seq(PrefAnswer)

\* The last answer that has settings, or else the window, has those that were written last.
Shared == Prefs!Fields \ {"mcpEnabled"}
Given == {m \in PrefAnswer : m.is # None}
GivenAs(s) == {m \in PrefAnswer : \A f \in Shared : m.is[f] = s[f]}
SettingsShown == LastSays(prefAnswers, Given, GivenAs(committed), loaded => \A f \in Shared : settings[f] = committed[f])
ReadFirst == loaded \/ prefAnswers # <<>> => cached # None
PrefsInv == PrefTypes /\ Prefs!RestartKeepsSettings /\ SettingsShown /\ ReadFirst

LEMMA PrefsShow == PrefsInv => Prefs!SettingsTypeOK /\ Prefs!RestartKeepsSettings /\ Prefs!WindowHasSettings
<1> SUFFICES ASSUME PrefsInv PROVE Prefs!SettingsTypeOK /\ Prefs!WindowHasSettings
  BY DEF PrefsInv
<1>1. Prefs!SettingsTypeOK
  BY DEF PrefsInv, PrefTypes, PrefForm, Prefs!SettingsTypeOK
<1>2. ASSUME loaded, prefAnswers = <<>> PROVE \A f \in Shared : settings[f] = cached[f]
  <2>1. LastSays(<<>>, Given, GivenAs(committed), loaded => \A f \in Shared : settings[f] = committed[f])
    BY <1>2 DEF PrefsInv, SettingsShown
  <2>2. loaded => \A f \in Shared : settings[f] = committed[f]
    BY <2>1, LastSaid
  <2>3. cached = committed
    BY <1>2 DEF PrefsInv, ReadFirst, Prefs!RestartKeepsSettings
  <2> QED BY <1>2, <2>2, <2>3
<1> QED BY <1>1, <1>2 DEF Prefs!WindowHasSettings, Shared

LEMMA SettingsAre ==
  ASSUME NEW m, m \in Prefs!SettingsType
  PROVE  /\ m.theme \in Prefs!Theme /\ m.terminalProgram \in Prefs!Program /\ m.tmuxEnabled \in BOOLEAN
         /\ m.terminalWorkspaces \in SUBSET Ws /\ m.mcpEnabled \in BOOLEAN
         /\ m = [f \in Prefs!Fields |-> m[f]] /\ DOMAIN m = Prefs!Fields
BY DEF Prefs!SettingsType, Prefs!Fields

\* What has every field, of its type, is a settings object.
LEMMA SettingsOf ==
  ASSUME NEW m, m = [f \in Prefs!Fields |-> m[f]],
         m.theme \in Prefs!Theme, m.terminalProgram \in Prefs!Program, m.tmuxEnabled \in BOOLEAN,
         m.terminalWorkspaces \in SUBSET Ws, m.mcpEnabled \in BOOLEAN
  PROVE  m \in Prefs!SettingsType
<1>1. m = [theme |-> m.theme, terminalProgram |-> m.terminalProgram, tmuxEnabled |-> m.tmuxEnabled,
           terminalWorkspaces |-> m.terminalWorkspaces, mcpEnabled |-> m.mcpEnabled]
  BY DEF Prefs!Fields
<1> DEFINE a == m.theme
           b == m.terminalProgram
           c == m.tmuxEnabled
           d == m.terminalWorkspaces
           e == m.mcpEnabled
<1>2. m = [theme |-> a, terminalProgram |-> b, tmuxEnabled |-> c, terminalWorkspaces |-> d, mcpEnabled |-> e]
  BY <1>1
<1>3. a \in Prefs!Theme /\ b \in Prefs!Program /\ c \in BOOLEAN /\ d \in SUBSET Ws /\ e \in BOOLEAN
  OBVIOUS
<1> HIDE DEF a, b, c, d, e
<1>4. [theme |-> a, terminalProgram |-> b, tmuxEnabled |-> c, terminalWorkspaces |-> d, mcpEnabled |-> e] \in Prefs!SettingsType
  BY <1>3 DEF Prefs!SettingsType
<1> QED BY <1>2, <1>4

LEMMA DefaultsAre == Prefs!DEFAULTS \in Prefs!SettingsType
<1>1. FALSE \in BOOLEAN /\ {} \in SUBSET Ws /\ "dark" \in Prefs!Theme /\ "default" \in Prefs!Program
  BY DEF Prefs!Theme, Prefs!Program
<1> QED BY <1>1 DEF Prefs!DEFAULTS, Prefs!SettingsType

LEMMA MergedIs ==
  ASSUME NEW p \in PrefPatch, NEW s \in Prefs!SettingsType
  PROVE  /\ Prefs!Merged(p, s) \in Prefs!SettingsType
         /\ p \in [mcpEnabled : BOOLEAN] => \A f \in Shared : Prefs!Merged(p, s)[f] = s[f]
<1> DEFINE m == Prefs!Merged(p, s)
<1>1. /\ m = [f \in Prefs!Fields |-> IF f \in DOMAIN p THEN p[f] ELSE s[f]] /\ m = [f \in Prefs!Fields |-> m[f]]
      /\ \A f \in Prefs!Fields : m[f] = IF f \in DOMAIN p THEN p[f] ELSE s[f]
  BY DEF Prefs!Merged
<1> HIDE DEF m
<1>2. /\ s.theme \in Prefs!Theme /\ s.terminalProgram \in Prefs!Program /\ s.tmuxEnabled \in BOOLEAN
      /\ s.terminalWorkspaces \in SUBSET Ws /\ s.mcpEnabled \in BOOLEAN
  BY SettingsAre
<1>3. {"theme", "terminalProgram", "tmuxEnabled", "terminalWorkspaces", "mcpEnabled"} = Prefs!Fields
  BY DEF Prefs!Fields
<1>4. /\ p \in [theme : Prefs!Theme] => DOMAIN p = {"theme"} /\ p.theme \in Prefs!Theme
      /\ p \in [terminalWorkspaces : SUBSET Ws] => DOMAIN p = {"terminalWorkspaces"} /\ p.terminalWorkspaces \in SUBSET Ws
      /\ p \in [mcpEnabled : BOOLEAN] => DOMAIN p = {"mcpEnabled"} /\ p.mcpEnabled \in BOOLEAN
  OBVIOUS
<1>5. \/ DOMAIN p = {"theme"} /\ p.theme \in Prefs!Theme
      \/ DOMAIN p = {"terminalWorkspaces"} /\ p.terminalWorkspaces \in SUBSET Ws
      \/ DOMAIN p = {"mcpEnabled"} /\ p.mcpEnabled \in BOOLEAN
  BY <1>4 DEF PrefPatch
<1>6. m["theme"] \in Prefs!Theme
  BY <1>1, <1>2, <1>3, <1>5
<1>7. m["terminalProgram"] \in Prefs!Program
  BY <1>1, <1>2, <1>3, <1>5
<1>8. m["tmuxEnabled"] \in BOOLEAN
  BY <1>1, <1>2, <1>3, <1>5
<1>9. m["terminalWorkspaces"] \in SUBSET Ws
  BY <1>1, <1>2, <1>3, <1>5
<1>10. m["mcpEnabled"] \in BOOLEAN
  BY <1>1, <1>2, <1>3, <1>5
<1>11. m \in Prefs!SettingsType
  BY <1>1, <1>6, <1>7, <1>8, <1>9, <1>10, SettingsOf
<1>12. p \in [mcpEnabled : BOOLEAN] => \A f \in Shared : m[f] = s[f]
  BY <1>1, <1>4 DEF Shared
<1> QED BY <1>11, <1>12 DEF m

\* What was written whole is read as it was written.
LEMMA ReadIs == ASSUME file \in Prefs!SettingsType PROVE Prefs!readSettings = file
<1>1. \A f \in Prefs!Fields : file[f] \notin {Bad, Absent}
  <2>1. /\ file["theme"] \in Prefs!Theme /\ file["terminalProgram"] \in Prefs!Program /\ file["tmuxEnabled"] \in BOOLEAN
        /\ file["terminalWorkspaces"] \in SUBSET Ws /\ file["mcpEnabled"] \in BOOLEAN
    BY SettingsAre
  <2>2. ASSUME NEW f \in Prefs!Fields
        PROVE  file[f] \in Prefs!Theme \/ file[f] \in Prefs!Program \/ file[f] \in BOOLEAN \/ file[f] \in SUBSET Ws
    BY <2>1 DEF Prefs!Fields
  <2> QED BY <2>2, SettingsAssumption
<1>2. Prefs!parseSettingsResilient(file) = [f \in Prefs!Fields |-> file[f]]
  BY <1>1 DEF Prefs!parseSettingsResilient
<1>3. Prefs!parseSettingsResilient(file) = file
  BY <1>2, SettingsAre
<1>4. file # None /\ file.terminalProgram # Absent
  BY <1>1, SettingsAssumption DEF Prefs!Fields
<1> QED BY <1>3, <1>4 DEF Prefs!readSettings

LEMMA InitPrefs == Prefs!SettingsInit => PrefsInv
<1> SUFFICES ASSUME Prefs!SettingsInit PROVE PrefsInv
  OBVIOUS
<1>1. /\ file \in Prefs!Files \cup {None} /\ cached = None
      /\ settings = Prefs!DEFAULTS /\ loaded = FALSE /\ prefCalls = <<>> /\ prefAnswers = <<>> /\ form = Prefs!NoForm
      /\ committed = IF file = None THEN Prefs!DEFAULTS
                     ELSE [f \in Prefs!Fields |->
                            IF f = "terminalProgram" /\ file[f] = Absent /\ file.tmuxEnabled
                            THEN "tmux" ELSE Prefs!Kept(file, f)]
  BY DEF Prefs!SettingsInit
<1>2. committed \in Prefs!SettingsType /\ Prefs!readSettings = committed
  <2>1. CASE file = None
    BY <1>1, <2>1, DefaultsAre DEF Prefs!readSettings
  <2>2. CASE file # None
    <3> DEFINE Of(f) == IF f = "terminalProgram" /\ file[f] = Absent /\ file.tmuxEnabled THEN "tmux" ELSE Prefs!Kept(file, f)
    <3>1. file \in Prefs!Files
      BY <1>1, <2>2
    <3>2. PICK t \in Prefs!Theme \cup {Bad}, g \in Prefs!Program \cup {Bad, Absent}, x \in BOOLEAN :
            file = [theme |-> t, terminalProgram |-> g, tmuxEnabled |-> x, terminalWorkspaces |-> Ws, mcpEnabled |-> FALSE]
      BY <3>1 DEF Prefs!Files
    <3>3. /\ file["theme"] = t /\ file["terminalProgram"] = g /\ file["tmuxEnabled"] = x
          /\ file["terminalWorkspaces"] = Ws /\ file["mcpEnabled"] = FALSE /\ file.tmuxEnabled \in BOOLEAN
      BY <3>2
    <3>a. Ws \in SUBSET Ws /\ FALSE \in BOOLEAN
      OBVIOUS
    <3>4. committed = [f \in Prefs!Fields |-> Of(f)] /\ \A f \in Prefs!Fields : committed[f] = Of(f)
      BY <1>1, <2>2
    <3>b. committed = [f \in Prefs!Fields |-> committed[f]]
      BY <3>4
    <3>5. /\ Prefs!DEFAULTS["theme"] = "dark" /\ Prefs!DEFAULTS["terminalProgram"] = "default"
          /\ Prefs!DEFAULTS["tmuxEnabled"] = FALSE /\ Prefs!DEFAULTS["terminalWorkspaces"] = {} /\ Prefs!DEFAULTS["mcpEnabled"] = FALSE
      BY DEF Prefs!DEFAULTS
    <3>6. committed["theme"] \in Prefs!Theme
      BY <3>3, <3>4, <3>5 DEF Prefs!Kept, Prefs!Theme, Prefs!Fields
    <3>7. committed["terminalProgram"] \in Prefs!Program
      BY <3>3, <3>4, <3>5 DEF Prefs!Kept, Prefs!Program, Prefs!Fields
    <3>8. committed["tmuxEnabled"] \in {x, FALSE}
      BY <3>3, <3>4, <3>5 DEF Prefs!Kept, Prefs!Fields
    <3>9. committed["terminalWorkspaces"] \in {Ws, {}}
      BY <3>3, <3>4, <3>5 DEF Prefs!Kept, Prefs!Fields
    <3>10. committed["mcpEnabled"] \in {FALSE}
      BY <3>3, <3>4, <3>5 DEF Prefs!Kept, Prefs!Fields
    <3>c. committed["tmuxEnabled"] \in BOOLEAN /\ committed["terminalWorkspaces"] \in SUBSET Ws /\ committed["mcpEnabled"] \in BOOLEAN
      BY <3>8, <3>9, <3>10
    <3>11. committed \in Prefs!SettingsType
      BY <3>b, <3>6, <3>7, <3>c, SettingsOf
    <3>12. Prefs!readSettings = committed
      <4> DEFINE parsed == Prefs!parseSettingsResilient(file)
      <4>1. parsed = [f \in Prefs!Fields |-> Prefs!Kept(file, f)]
        BY DEF Prefs!parseSettingsResilient, Prefs!Kept
      <4> HIDE DEF parsed
      <4>2. CASE file.terminalProgram = Absent /\ file.tmuxEnabled
        <5>1. Prefs!readSettings = [parsed EXCEPT !.terminalProgram = "tmux"]
          BY <2>2, <3>3, <4>2 DEF Prefs!readSettings, parsed
        <5>2. ASSUME NEW f \in Prefs!Fields PROVE [parsed EXCEPT !.terminalProgram = "tmux"][f] = Of(f)
          BY <4>1, <4>2
        <5>3. [parsed EXCEPT !.terminalProgram = "tmux"] = [f \in Prefs!Fields |-> [parsed EXCEPT !.terminalProgram = "tmux"][f]]
          BY <4>1
        <5> QED BY <3>4, <5>1, <5>2, <5>3
      <4>3. CASE ~(file.terminalProgram = Absent /\ file.tmuxEnabled)
        <5>1. Prefs!readSettings = parsed
          BY <2>2, <3>3, <4>3 DEF Prefs!readSettings, parsed
        <5>2. \A f \in Prefs!Fields : Of(f) = Prefs!Kept(file, f)
          BY <4>3
        <5> QED BY <3>4, <4>1, <5>1, <5>2
      <4> QED BY <4>2, <4>3
    <3> QED BY <3>11, <3>12
  <2> QED BY <2>1, <2>2
<1>3. PrefTypes
  <2>1. Prefs!NoForm \in PrefForm
    <3>1. FALSE \in BOOLEAN /\ "dark" \in Prefs!Theme
      BY DEF Prefs!Theme
    <3> QED BY <3>1 DEF Prefs!NoForm, PrefForm
  <2>2. loaded \in BOOLEAN
    BY <1>1
  <2>3. prefCalls \in Seq(PrefCall) /\ prefAnswers \in Seq(PrefAnswer)
    BY <1>1
  <2>4. settings \in Prefs!SettingsType /\ form \in PrefForm /\ cached \in Prefs!SettingsType \cup {None}
    BY <1>1, <2>1, DefaultsAre
  <2> QED BY <1>2, <2>2, <2>3, <2>4 DEF PrefTypes
<1>4. Prefs!RestartKeepsSettings
  BY <1>1, <1>2 DEF Prefs!RestartKeepsSettings
<1>5. SettingsShown
  <2>1. loaded => \A f \in Shared : settings[f] = committed[f]
    BY <1>1
  <2>2. LastSays(<<>>, Given, GivenAs(committed), loaded => \A f \in Shared : settings[f] = committed[f])
    BY <2>1, NothingSaid
  <2> QED BY <1>1, <2>2 DEF SettingsShown
<1>6. ReadFirst
  BY <1>1 DEF ReadFirst
<1> QED BY <1>3, <1>4, <1>5, <1>6 DEF PrefsInv

\* Whether they were read before or not, main has the settings that were written last.
LEMMA GetIs == PrefsInv => Prefs!getSettings = committed
BY DEF PrefsInv, Prefs!RestartKeepsSettings, Prefs!getSettings

\* A call, what it patches and what is made of that.
LEMMA PatchIs ==
  ASSUME PrefsInv, Prefs!Writing
  PROVE  LET m == Head(prefCalls)
             next == Prefs!Merged(Prefs!Patch, Prefs!getSettings)
         IN /\ next \in Prefs!SettingsType
            /\ m.op = "set" => m.by \in {"palette", "workspaces", "dialog"}
            /\ m.op # "set" => m.op = "enable" /\ \A f \in Shared : next[f] = committed[f]
<1> DEFINE m == Head(prefCalls)
           next == Prefs!Merged(Prefs!Patch, Prefs!getSettings)
<1>1. m \in PrefCall /\ m.op \in {"set", "enable"}
  BY TailIs DEF PrefsInv, PrefTypes, Prefs!Writing
<1>2. committed \in Prefs!SettingsType /\ Prefs!getSettings = committed
  BY GetIs DEF PrefsInv, PrefTypes
<1>3. CASE m.op = "set"
  <2>1. m.patch \in PrefPatch /\ m.by \in {"palette", "workspaces", "dialog"}
    BY <1>1, <1>3 DEF PrefCall
  <2> DEFINE whole == Prefs!Merged(m.patch, Prefs!DEFAULTS)
  <2>2. whole \in Prefs!SettingsType
    BY <2>1, DefaultsAre, MergedIs
  <2>3. next = Prefs!Merged(whole, committed)
    BY <1>2, <1>3 DEF Prefs!Patch, Prefs!settingsPatch
  <2> HIDE DEF whole
  <2>4. whole = [f \in Prefs!Fields |-> whole[f]] /\ DOMAIN whole = Prefs!Fields
    BY <2>2, SettingsAre
  <2>5. Prefs!Merged(whole, committed) = [f \in Prefs!Fields |-> whole[f]]
    BY <2>4 DEF Prefs!Merged
  <2>6. next = whole
    BY <2>3, <2>4, <2>5
  <2> QED BY <1>3, <2>1, <2>2, <2>6
<1>4. CASE m.op = "enable"
  <2>1. m.patch \in [mcpEnabled : BOOLEAN]
    BY <1>1, <1>4 DEF PrefCall
  <2>2. m.patch \in PrefPatch
    BY <2>1 DEF PrefPatch
  <2>3. next = Prefs!Merged(m.patch, committed)
    BY <1>2, <1>4 DEF Prefs!Patch
  <2> QED BY <1>2, <1>4, <2>1, <2>2, <2>3, MergedIs
<1> QED BY <1>1, <1>3, <1>4

\* Main answers with the settings as they are then, or refuses.
LEMMA PrefsAnswer ==
  ASSUME PrefsInv, prefCalls # <<>>, UNCHANGED <<settings, loaded, form>>, prefCalls' = Tail(prefCalls),
         NEW s \in Prefs!SettingsType, committed' = s, cached' = s, Prefs!readSettings' = s,
         NEW op \in {"get", "palette", "workspaces", "dialog"}, NEW is \in {s, None},
         is = None => s = committed,
         prefAnswers' = Append(prefAnswers, [op |-> op, is |-> is])
  PROVE  PrefsInv'
<1> DEFINE m == [op |-> op, is |-> is]
<1>1. m \in PrefAnswer /\ m.is = is
  BY DEF PrefAnswer
<1> HIDE DEF m
<1>2. Tail(prefCalls) \in Seq(PrefCall) /\ prefAnswers \in Seq(PrefAnswer)
  BY TailIs DEF PrefsInv, PrefTypes
<1>3. Append(prefAnswers, m) \in Seq(PrefAnswer) /\ prefAnswers' = Append(prefAnswers, m)
  BY <1>1, <1>2, AppendIs DEF m
<1>4. PrefTypes'
  BY <1>2, <1>3 DEF PrefsInv, PrefTypes
<1>5. s # None
  BY SettingsAssumption
<1>6. LastSays(Append(prefAnswers, m), Given, GivenAs(s), loaded => \A f \in Shared : settings[f] = s[f])
  <2>1. CASE is = None
    <3>1. m \notin Given
      BY <1>1, <2>1 DEF Given
    <3>2. LastSays(prefAnswers, Given, GivenAs(s), loaded => \A f \in Shared : settings[f] = s[f])
      BY <2>1 DEF PrefsInv, SettingsShown
    <3> QED BY <1>1, <1>2, <3>1, <3>2, LastTold
  <2>2. CASE is = s
    <3>1. m \in Given /\ m \in GivenAs(s)
      BY <1>1, <1>5, <2>2 DEF Given, GivenAs
    <3> QED BY <1>1, <1>2, <3>1, LastTold
  <2> QED BY <2>1, <2>2
<1>7. SettingsShown'
  BY <1>3, <1>6 DEF SettingsShown, GivenAs, Given
<1>8. Prefs!RestartKeepsSettings'
  BY DEF Prefs!RestartKeepsSettings
<1>9. ReadFirst'
  BY <1>5 DEF ReadFirst
<1> QED BY <1>4, <1>7, <1>8, <1>9 DEF PrefsInv

\* The switch is written, or refused, without an answer that has settings.
LEMMA PrefsSwitch ==
  ASSUME PrefsInv, prefCalls # <<>>, UNCHANGED <<settings, loaded, form, prefAnswers>>, prefCalls' = Tail(prefCalls),
         NEW s \in Prefs!SettingsType, committed' = s, cached' = s, Prefs!readSettings' = s,
         \A f \in Shared : s[f] = committed[f]
  PROVE  PrefsInv'
<1>1. Tail(prefCalls) \in Seq(PrefCall)
  BY TailIs DEF PrefsInv, PrefTypes
<1>2. PrefTypes'
  BY <1>1 DEF PrefsInv, PrefTypes
<1>3. LastSays(prefAnswers, Given, GivenAs(s), loaded => \A f \in Shared : settings[f] = s[f])
  <2>1. LastSays(prefAnswers, Given, GivenAs(committed), loaded => \A f \in Shared : settings[f] = committed[f])
    BY DEF PrefsInv, SettingsShown
  <2>2. \A m \in GivenAs(committed) : m \in GivenAs(s)
    BY DEF GivenAs
  <2> QED BY <2>1, <2>2, LastStays
<1>4. SettingsShown'
  BY <1>3 DEF SettingsShown, GivenAs, Given
<1>5. Prefs!RestartKeepsSettings'
  BY DEF Prefs!RestartKeepsSettings
<1>6. ReadFirst'
  BY SettingsAssumption DEF ReadFirst
<1> QED BY <1>2, <1>4, <1>5, <1>6 DEF PrefsInv

\* A new life begins with what was written.
LEMMA PrefsRestart ==
  ASSUME Prefs!Restart, committed' \in Prefs!SettingsType, Prefs!readSettings' = committed'
  PROVE  PrefsInv'
<1>1. /\ cached' = None /\ settings' = Prefs!DEFAULTS /\ loaded' = FALSE /\ form' = Prefs!NoForm
      /\ prefCalls' = <<>> /\ prefAnswers' = <<>>
  BY DEF Prefs!Restart
<1>2. Prefs!NoForm \in PrefForm
  <2>1. FALSE \in BOOLEAN /\ "dark" \in Prefs!Theme
    BY DEF Prefs!Theme
  <2> QED BY <2>1 DEF Prefs!NoForm, PrefForm
<1>3. loaded' \in BOOLEAN
  BY <1>1
<1>4. prefCalls' \in Seq(PrefCall) /\ prefAnswers' \in Seq(PrefAnswer)
  BY <1>1
<1>5. settings' \in Prefs!SettingsType /\ form' \in PrefForm /\ cached' \in Prefs!SettingsType \cup {None}
  BY <1>1, <1>2, DefaultsAre
<1>6. PrefTypes'
  BY <1>3, <1>4, <1>5 DEF PrefTypes
<1>7. (loaded => \A f \in Shared : settings[f] = committed[f])'
  BY <1>1
<1>8. SettingsShown'
  BY <1>1, <1>7 DEF SettingsShown, LastSays
<1>9. Prefs!RestartKeepsSettings' /\ ReadFirst'
  BY <1>1 DEF Prefs!RestartKeepsSettings, ReadFirst
<1> QED BY <1>6, <1>8, <1>9 DEF PrefsInv

\* What the window asks changes nothing yet.
LEMMA PrefsAsked ==
  ASSUME PrefsInv, UNCHANGED <<file, cached, committed, settings, loaded, prefAnswers>>, form' \in PrefForm,
         prefCalls' \in Seq(PrefCall)
  PROVE  PrefsInv'
<1>1. PrefTypes'
  BY DEF PrefsInv, PrefTypes
<1>2. Prefs!RestartKeepsSettings'
  BY DEF PrefsInv, Prefs!RestartKeepsSettings, Prefs!readSettings, Prefs!parseSettingsResilient
<1>3. SettingsShown'
  BY DEF PrefsInv, SettingsShown, GivenAs, Given
<1>4. ReadFirst'
  BY DEF PrefsInv, ReadFirst
<1> QED BY <1>1, <1>2, <1>3, <1>4 DEF PrefsInv

\* Main serves a call.
LEMMA PrefsServed ==
  ASSUME PrefsInv, Prefs!HandleGet \/ Prefs!HandleSet \/ Prefs!FailSet \/ Prefs!EndInWrite \/ Prefs!Quit
  PROVE  PrefsInv'
<1>0. committed \in Prefs!SettingsType /\ Prefs!readSettings = committed /\ Prefs!getSettings = committed
  BY GetIs DEF PrefsInv, PrefTypes, Prefs!RestartKeepsSettings
<1>1. ASSUME UNCHANGED <<file, committed>> PROVE Prefs!readSettings' = committed'
  BY <1>0, <1>1 DEF Prefs!readSettings, Prefs!parseSettingsResilient
<1> DEFINE m == Head(prefCalls)
           next == Prefs!Merged(Prefs!Patch, Prefs!getSettings)
<1>2. ASSUME file' = next, Prefs!Writing PROVE Prefs!readSettings' = next
  <2>1. next \in Prefs!SettingsType
    BY <1>2, PatchIs
  <2> HIDE DEF next
  <2>2. file' \in Prefs!SettingsType
    BY <1>2, <2>1
  <2>3. (file \in Prefs!SettingsType => Prefs!readSettings = file)'
    BY ReadIs, PTL
  <2> QED BY <1>2, <2>2, <2>3
<1>3. CASE Prefs!HandleGet
  <2>1. /\ prefCalls # <<>> /\ cached' = committed /\ prefAnswers' = Append(prefAnswers, [op |-> "get", is |-> committed])
        /\ prefCalls' = Tail(prefCalls) /\ UNCHANGED <<file, committed, settings, loaded, form>>
    BY <1>0, <1>3 DEF Prefs!HandleGet, Prefs!winVars
  <2> QED BY <1>0, <1>1, <2>1, PrefsAnswer
<1>4. CASE Prefs!HandleSet
  <2>1. /\ Prefs!Writing /\ file' = next /\ committed' = next /\ cached' = next /\ prefCalls # <<>>
        /\ prefCalls' = Tail(prefCalls) /\ UNCHANGED <<settings, loaded, form>>
        /\ m.op = "enable" => prefAnswers' = prefAnswers
        /\ m.op # "enable" => prefAnswers' = Append(prefAnswers, [op |-> m.by, is |-> next])
    BY <1>4 DEF Prefs!HandleSet, Prefs!updateSettings, Prefs!winVars, Prefs!Writing
  <2>2. /\ next \in Prefs!SettingsType /\ Prefs!readSettings' = next
        /\ m.op = "set" => m.by \in {"palette", "workspaces", "dialog"}
        /\ m.op # "set" => m.op = "enable" /\ \A f \in Shared : next[f] = committed[f]
    BY <1>2, <2>1, PatchIs
  <2> HIDE DEF next, m
  <2>3. CASE m.op = "set"
    <3>1. m.by \in {"get", "palette", "workspaces", "dialog"} /\ prefAnswers' = Append(prefAnswers, [op |-> m.by, is |-> next])
      BY <2>1, <2>2, <2>3
    <3>2. next # None
      BY <2>2, SettingsAssumption
    <3> QED BY <2>1, <2>2, <3>1, <3>2, PrefsAnswer
  <2>4. CASE m.op # "set"
    BY <2>1, <2>2, <2>4, PrefsSwitch
  <2> QED BY <2>3, <2>4
<1>5. CASE Prefs!FailSet
  <2>1. /\ Prefs!Writing /\ cached' = committed /\ prefCalls # <<>>
        /\ prefCalls' = Tail(prefCalls) /\ UNCHANGED <<file, committed, settings, loaded, form>>
        /\ m.op = "enable" => prefAnswers' = prefAnswers
        /\ m.op # "enable" => prefAnswers' = Append(prefAnswers, [op |-> m.by, is |-> None])
    BY <1>0, <1>5 DEF Prefs!FailSet, Prefs!winVars, Prefs!Writing
  <2>2. /\ m.op = "set" => m.by \in {"palette", "workspaces", "dialog"}
        /\ m.op # "set" => m.op = "enable"
    BY <2>1, PatchIs
  <2> HIDE DEF m
  <2>3. CASE m.op = "set"
    <3>1. m.by \in {"get", "palette", "workspaces", "dialog"} /\ prefAnswers' = Append(prefAnswers, [op |-> m.by, is |-> None])
      BY <2>1, <2>2, <2>3
    <3> QED BY <1>0, <1>1, <2>1, <3>1, PrefsAnswer
  <2>4. CASE m.op # "set"
    BY <1>0, <1>1, <2>1, <2>2, <2>4, PrefsSwitch
  <2> QED BY <2>3, <2>4
<1>6. CASE Prefs!EndInWrite
  <2>1. Prefs!Writing /\ file' = next /\ committed' = next /\ Prefs!Restart
    BY <1>6 DEF Prefs!EndInWrite, Prefs!updateSettings
  <2>2. next \in Prefs!SettingsType /\ Prefs!readSettings' = next
    BY <1>2, <2>1, PatchIs
  <2> HIDE DEF next
  <2> QED BY <2>1, <2>2, PrefsRestart
<1>7. CASE Prefs!Quit
  <2>1. Prefs!Restart /\ UNCHANGED <<file, committed>>
    BY <1>7 DEF Prefs!Quit
  <2> QED BY <1>0, <1>1, <2>1, PrefsRestart
<1> QED BY <1>3, <1>4, <1>5, <1>6, <1>7

LEMMA NextPrefs == ASSUME PrefsInv, Prefs!SettingsNext \/ UNCHANGED prefs PROVE PrefsInv'
<1>0. /\ settings \in Prefs!SettingsType /\ form \in PrefForm /\ loaded \in BOOLEAN
      /\ prefCalls \in Seq(PrefCall) /\ prefAnswers \in Seq(PrefAnswer)
  BY DEF PrefsInv, PrefTypes
<1>1. CASE UNCHANGED prefs
  BY <1>0, <1>1, PrefsAsked DEF prefs
<1>2. CASE Prefs!HandleGet \/ Prefs!HandleSet \/ Prefs!FailSet \/ Prefs!EndInWrite \/ Prefs!Quit
  BY <1>2, PrefsServed
<1>3. CASE Prefs!load \/ Prefs!toggleTheme \/ Prefs!saveWorkspaces \/ Prefs!setEnabled \/ Prefs!handleSave
  <2>1. PICK m \in PrefCall : prefCalls' = Append(prefCalls, m)
    <3>1. ASSUME NEW p, NEW by \in {"palette", "workspaces", "dialog"}, Prefs!update(p, by), p \in PrefPatch
          PROVE  \E m \in PrefCall : prefCalls' = Append(prefCalls, m)
      <4>1. [op |-> "set", patch |-> p, by |-> by] \in PrefCall
        BY <3>1 DEF PrefCall
      <4> QED BY <3>1, <4>1 DEF Prefs!update, Prefs!Call
    <3>2. CASE Prefs!load
      <4>1. [op |-> "get"] \in PrefCall
        BY DEF PrefCall
      <4> QED BY <3>2, <4>1 DEF Prefs!load, Prefs!Call
    <3>3. CASE Prefs!toggleTheme
      <4> DEFINE t == IF settings.theme = "dark" THEN "light" ELSE "dark"
      <4>1. t \in Prefs!Theme
        BY DEF Prefs!Theme
      <4>2. Prefs!update([theme |-> t], "palette")
        BY <3>3 DEF Prefs!toggleTheme
      <4> HIDE DEF t
      <4>3. [theme |-> t] \in PrefPatch
        BY <4>1 DEF PrefPatch
      <4> QED BY <3>1, <4>2, <4>3
    <3>4. CASE Prefs!saveWorkspaces
      <4>0. PICK w \in Ws :
              \E next \in {settings.terminalWorkspaces \cup {w}, settings.terminalWorkspaces \ {w}} :
                Prefs!update([terminalWorkspaces |-> next], "workspaces")
        BY <3>4 DEF Prefs!saveWorkspaces
      <4>1. PICK next \in {settings.terminalWorkspaces \cup {w}, settings.terminalWorkspaces \ {w}} :
              Prefs!update([terminalWorkspaces |-> next], "workspaces")
        BY <4>0
      <4>2. settings.terminalWorkspaces \in SUBSET Ws
        BY <1>0, SettingsAre
      <4>3. next \in SUBSET Ws
        BY <4>2
      <4>4. [terminalWorkspaces |-> next] \in PrefPatch
        BY <4>3 DEF PrefPatch
      <4> QED BY <3>1, <4>1, <4>4
    <3>5. CASE Prefs!setEnabled
      <4> DEFINE b == ~settings.mcpEnabled
      <4>1. prefCalls' = Append(prefCalls, [op |-> "enable", patch |-> [mcpEnabled |-> b]])
        BY <3>5 DEF Prefs!setEnabled, Prefs!Call
      <4>2. b \in BOOLEAN
        OBVIOUS
      <4> HIDE DEF b
      <4> DEFINE p == [mcpEnabled |-> b]
      <4>3. p \in [mcpEnabled : BOOLEAN]
        BY <4>2
      <4>4. prefCalls' = Append(prefCalls, [op |-> "enable", patch |-> p])
        BY <4>1
      <4> HIDE DEF p
      <4>5. [op |-> "enable", patch |-> p] \in PrefCall
        BY <4>3 DEF PrefCall
      <4> QED BY <4>4, <4>5
    <3>6. CASE Prefs!handleSave
      <4>1. form.theme \in Prefs!Theme /\ Prefs!update([theme |-> form.theme], "dialog")
        BY <1>0, <3>6 DEF Prefs!handleSave, PrefForm
      <4>2. [theme |-> form.theme] \in PrefPatch
        BY <4>1 DEF PrefPatch
      <4> QED BY <3>1, <4>1, <4>2
    <3> QED BY <1>3, <3>2, <3>3, <3>4, <3>5, <3>6
  <2>2. prefCalls' \in Seq(PrefCall)
    BY <1>0, <2>1, AppendIs
  <2>3. UNCHANGED <<file, cached, committed, settings, loaded, form, prefAnswers>>
    BY <1>3 DEF Prefs!load, Prefs!toggleTheme, Prefs!saveWorkspaces, Prefs!setEnabled, Prefs!handleSave, Prefs!mainVars, Prefs!winVars
  <2> QED BY <1>0, <2>2, <2>3, PrefsAsked
<1>a. ASSUME NEW s \in Prefs!SettingsType PROVE Prefs!Fill(s) \in PrefForm
  <2>1. s.theme \in Prefs!Theme /\ TRUE \in BOOLEAN
    BY SettingsAre
  <2> QED BY <2>1 DEF Prefs!Fill, PrefForm
<1>b. Prefs!NoForm \in PrefForm
  <2>1. FALSE \in BOOLEAN /\ "dark" \in Prefs!Theme
    BY DEF Prefs!Theme
  <2> QED BY <2>1 DEF Prefs!NoForm, PrefForm
<1>4. CASE Prefs!openDialog \/ Prefs!closeDialog \/ Prefs!edit
  <2>1. UNCHANGED <<file, cached, committed, settings, loaded, prefCalls, prefAnswers>>
    BY <1>4 DEF Prefs!openDialog, Prefs!closeDialog, Prefs!edit, Prefs!mainVars
  <2>2. form' \in PrefForm
    <3>1. CASE Prefs!edit
      <4>1. PICK t \in Prefs!Theme : form' = [form EXCEPT !.theme = t]
        BY <3>1 DEF Prefs!edit
      <4> QED BY <1>0, <4>1 DEF PrefForm
    <3>2. CASE Prefs!openDialog \/ Prefs!closeDialog
      BY <1>0, <1>a, <1>b, <3>2 DEF Prefs!openDialog, Prefs!closeDialog
    <3> QED BY <1>4, <3>1, <3>2
  <2> QED BY <1>0, <2>1, <2>2, PrefsAsked
<1>5. CASE Prefs!Answer
  <2> DEFINE m == Head(prefAnswers)
  <2>1. /\ prefAnswers # <<>> /\ prefAnswers' = Tail(prefAnswers) /\ UNCHANGED <<file, cached, committed, prefCalls>>
        /\ m.is = None => UNCHANGED <<settings, loaded, form>>
        /\ m.is # None => /\ settings' = m.is /\ loaded' = (loaded \/ m.op = "get")
                          /\ form' = IF form.open /\ m.op # "dialog" THEN Prefs!Fill(m.is) ELSE Prefs!NoForm
    BY <1>5 DEF Prefs!Answer, Prefs!mainVars, Prefs!winVars
  <2>2. m \in PrefAnswer /\ Tail(prefAnswers) \in Seq(PrefAnswer)
    BY <1>0, <2>1, TailIs
  <2>3. m.is # None => m.is \in Prefs!SettingsType
    BY <2>2 DEF PrefAnswer
  <2> HIDE DEF m
  <2>4. settings' \in Prefs!SettingsType
    BY <1>0, <2>1, <2>3
  <2>5. form' \in PrefForm
    BY <1>0, <1>a, <1>b, <2>1, <2>3
  <2>6. loaded' \in BOOLEAN
    BY <1>0, <2>1
  <2>7. PrefTypes'
    BY <2>1, <2>2, <2>4, <2>5, <2>6 DEF PrefsInv, PrefTypes
  <2>8. Prefs!RestartKeepsSettings'
    BY <2>1 DEF PrefsInv, Prefs!RestartKeepsSettings, Prefs!readSettings, Prefs!parseSettingsResilient
  <2>9. ReadFirst'
    BY <2>1 DEF PrefsInv, ReadFirst
  <2>10. LastSays(Tail(prefAnswers), Given, GivenAs(committed), (loaded => \A f \in Shared : settings[f] = committed[f])')
    <3>1. LastSays(prefAnswers, Given, GivenAs(committed), loaded => \A f \in Shared : settings[f] = committed[f])
      BY DEF PrefsInv, SettingsShown
    <3>2. m \in Given /\ m \in GivenAs(committed) => (loaded => \A f \in Shared : settings[f] = committed[f])'
      BY <2>1 DEF Given, GivenAs
    <3>3. m \notin Given /\ (loaded => \A f \in Shared : settings[f] = committed[f]) => (loaded => \A f \in Shared : settings[f] = committed[f])'
      BY <2>1, <2>2 DEF Given
    <3> QED BY <1>0, <2>1, <3>1, <3>2, <3>3, LastHeard DEF m
  <2>11. SettingsShown'
    BY <2>1, <2>10 DEF SettingsShown, Given, GivenAs
  <2> QED BY <2>7, <2>8, <2>9, <2>11 DEF PrefsInv
<1> QED BY <1>1, <1>2, <1>3, <1>4, <1>5 DEF Prefs!SettingsNext
====
