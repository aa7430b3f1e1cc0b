---------------------------- MODULE WindowProofs ----------------------------
(***************************************************************************)
(* Theorems of the window.  First the lists that answers and events keep: the *)
(* automation tab, prompts and routines, the groups, the tunnels, the rows of  *)
(* the hosts; then the window, whose steps are steps or stutters of each part. *)
(* All hold for any tabs, hosts, groups, tunnels and bounds; what a user could *)
(* break who reconnects before an attempt was answered is shown of one who     *)
(* does not (~Hasty).                                                        *)
(***************************************************************************)
EXTENDS WindowTabsProofs

-----------------------------------------------------------------------------
(* The automation tab *)

Updates(m, j) == m.op = "update" /\ m.id = j
Deletes(m, j) == m.op = "delete" /\ m.id = j
Touches(m, j) == Updates(m, j) \/ Deletes(m, j)

\* Of the calls q and the rows r, w is what the jobs will be: none once a deletion is on its way,
\* what the last update says, and what the row is without either.
Meaning(q, r, w) ==
  \A j \in Jobs!Id :
    /\ r[j] = None => w[j] = None
    /\ (\E i \in DOMAIN q : Deletes(q[i], j)) => w[j] = None
    /\ \A i \in DOMAIN q :
         r[j] # None /\ Updates(q[i], j) /\ (\A k \in DOMAIN q : ~Deletes(q[k], j) /\ (k > i => ~Touches(q[k], j)))
         => w[j] = Jobs!Job(q[i].command, q[i].hosts)
    /\ r[j] # None /\ (\A i \in DOMAIN q : ~Touches(q[i], j)) => w[j] = r[j]
    /\ r[j] # None /\ (\A i \in DOMAIN q : ~Deletes(q[i], j)) => w[j] # None

LEMMA OthersAsked ==
  ASSUME NEW T, NEW q \in Seq(T), NEW m \in T, NEW r, NEW w, Meaning(q, r, w), \A j \in Jobs!Id : ~Touches(m, j)
  PROVE  Meaning(Append(q, m), r, w)
<1> DEFINE p == Append(q, m)
           n == Len(q) + 1
<1>1. DOMAIN p = DOMAIN q \cup {n} /\ p[n] = m /\ \A i \in DOMAIN q : i \in Nat /\ i < n /\ p[i] = q[i]
  BY AppendIs
<1>2. Len(q) \in Nat /\ n \in Nat
  OBVIOUS
<1> HIDE DEF p, n
<1> SUFFICES ASSUME NEW j \in Jobs!Id
             PROVE  /\ r[j] = None => w[j] = None
                    /\ (\E i \in DOMAIN p : Deletes(p[i], j)) => w[j] = None
                    /\ \A i \in DOMAIN p :
                         r[j] # None /\ Updates(p[i], j) /\ (\A k \in DOMAIN p : ~Deletes(p[k], j) /\ (k > i => ~Touches(p[k], j)))
                         => w[j] = Jobs!Job(p[i].command, p[i].hosts)
                    /\ r[j] # None /\ (\A i \in DOMAIN p : ~Touches(p[i], j)) => w[j] = r[j]
                    /\ r[j] # None /\ (\A i \in DOMAIN p : ~Deletes(p[i], j)) => w[j] # None
  BY DEF Meaning, p
<1>3. ~Updates(m, j) /\ ~Deletes(m, j)
  BY DEF Touches
<1> QED BY <1>1, <1>2, <1>3 DEF Meaning

LEMMA OthersHeard ==
  ASSUME NEW T, NEW q \in Seq(T), q # <<>>, NEW r, NEW w, Meaning(q, r, w), \A j \in Jobs!Id : ~Touches(Head(q), j)
  PROVE  Meaning(Tail(q), r, w)
<1> DEFINE p == Tail(q)
           m == Head(q)
<1>1. /\ m = q[1]
      /\ \A i \in DOMAIN p : i \in Nat /\ i + 1 \in DOMAIN q /\ p[i] = q[i + 1]
      /\ \A i \in DOMAIN q : i \in Nat /\ (i # 1 => i > 1 /\ i - 1 \in DOMAIN p /\ p[i - 1] = q[i])
  BY TailIs
<1>2. \A j \in Jobs!Id : ~Updates(m, j) /\ ~Deletes(m, j) /\ ~Touches(m, j)
  BY DEF Touches
<1> HIDE DEF p, m
<1> SUFFICES ASSUME NEW j \in Jobs!Id
             PROVE  /\ r[j] = None => w[j] = None
                    /\ (\E i \in DOMAIN p : Deletes(p[i], j)) => w[j] = None
                    /\ \A i \in DOMAIN p :
                         r[j] # None /\ Updates(p[i], j) /\ (\A k \in DOMAIN p : ~Deletes(p[k], j) /\ (k > i => ~Touches(p[k], j)))
                         => w[j] = Jobs!Job(p[i].command, p[i].hosts)
                    /\ r[j] # None /\ (\A i \in DOMAIN p : ~Touches(p[i], j)) => w[j] = r[j]
                    /\ r[j] # None /\ (\A i \in DOMAIN p : ~Deletes(p[i], j)) => w[j] # None
  BY DEF Meaning, p
<1>3. r[j] = None => w[j] = None
  BY DEF Meaning
<1>4. (\E i \in DOMAIN p : Deletes(p[i], j)) => w[j] = None
  BY <1>1 DEF Meaning
<1>5. ASSUME NEW i \in DOMAIN p, r[j] # None, Updates(p[i], j), \A k \in DOMAIN p : ~Deletes(p[k], j) /\ (k > i => ~Touches(p[k], j))
      PROVE  w[j] = Jobs!Job(p[i].command, p[i].hosts)
  <2>1. i \in Nat /\ i + 1 \in DOMAIN q /\ p[i] = q[i + 1]
    BY <1>1
  <2>2. \A k \in DOMAIN q : ~Deletes(q[k], j)
    BY <1>1, <1>2, <1>5
  <2>3. \A k \in DOMAIN q : k > i + 1 => ~Touches(q[k], j)
    <3> SUFFICES ASSUME NEW k \in DOMAIN q, k > i + 1 PROVE ~Touches(q[k], j)
      OBVIOUS
    <3>1. k \in Nat /\ k # 1 /\ k - 1 \in DOMAIN p /\ p[k - 1] = q[k] /\ k - 1 > i
      BY <1>1, <2>1
    <3> QED BY <1>5, <3>1
  <2> QED BY <1>5, <2>1, <2>2, <2>3 DEF Meaning
<1>6. r[j] # None /\ (\A i \in DOMAIN p : ~Touches(p[i], j)) => w[j] = r[j]
  <2> SUFFICES ASSUME r[j] # None, \A i \in DOMAIN p : ~Touches(p[i], j) PROVE w[j] = r[j]
    OBVIOUS
  <2>1. \A i \in DOMAIN q : ~Touches(q[i], j)
    BY <1>1, <1>2
  <2> QED BY <2>1 DEF Meaning
<1>7. r[j] # None /\ (\A i \in DOMAIN p : ~Deletes(p[i], j)) => w[j] # None
  <2> SUFFICES ASSUME r[j] # None, \A i \in DOMAIN p : ~Deletes(p[i], j) PROVE w[j] # None
    OBVIOUS
  <2>1. \A i \in DOMAIN q : ~Deletes(q[i], j)
    BY <1>1, <1>2
  <2> QED BY <2>1 DEF Meaning
<1> QED BY <1>3, <1>4, <1>5, <1>6, <1>7

LEMMA UpdateAsked ==
  ASSUME NEW T, NEW q \in Seq(T), NEW m \in T, NEW r, NEW w, Meaning(q, r, w), DOMAIN w = Jobs!Id,
         NEW e \in Jobs!Id, Updates(m, e), NEW x, x = Jobs!Job(m.command, m.hosts), x # None,
         NEW v, v = [w EXCEPT ![e] = IF @ = None THEN None ELSE x]
  PROVE  Meaning(Append(q, m), r, v)
<1> DEFINE p == Append(q, m)
           n == Len(q) + 1
<1>1. DOMAIN p = DOMAIN q \cup {n} /\ p[n] = m /\ \A i \in DOMAIN q : i \in Nat /\ i < n /\ p[i] = q[i]
  BY AppendIs
<1>2. Len(q) \in Nat /\ n \in Nat
  OBVIOUS
<1> HIDE DEF p, n
<1> SUFFICES ASSUME NEW j \in Jobs!Id
             PROVE  /\ r[j] = None => v[j] = None
                    /\ (\E i \in DOMAIN p : Deletes(p[i], j)) => v[j] = None
                    /\ \A i \in DOMAIN p :
                         r[j] # None /\ Updates(p[i], j) /\ (\A k \in DOMAIN p : ~Deletes(p[k], j) /\ (k > i => ~Touches(p[k], j)))
                         => v[j] = Jobs!Job(p[i].command, p[i].hosts)
                    /\ r[j] # None /\ (\A i \in DOMAIN p : ~Touches(p[i], j)) => v[j] = r[j]
                    /\ r[j] # None /\ (\A i \in DOMAIN p : ~Deletes(p[i], j)) => v[j] # None
  BY DEF Meaning, p
<1>3. ~Deletes(m, j) /\ (j # e => ~Updates(m, j) /\ ~Touches(m, j)) /\ (j = e => Touches(m, j))
  BY DEF Touches, Updates, Deletes
<1>4. (j # e => v[j] = w[j]) /\ v[e] = IF w[e] = None THEN None ELSE x
  OBVIOUS
<1>5. CASE j # e
  BY <1>1, <1>2, <1>3, <1>4, <1>5 DEF Meaning
<1>6. CASE j = e
  <2>1. (r[j] = None => w[j] = None) /\ ((\E i \in DOMAIN q : Deletes(q[i], j)) => w[j] = None)
        /\ (r[j] # None /\ (\A i \in DOMAIN q : ~Deletes(q[i], j)) => w[j] # None)
    BY DEF Meaning
  <2>2. ~\A i \in DOMAIN p : ~Touches(p[i], j)
    BY <1>1, <1>3, <1>6
  <2>3. (\E i \in DOMAIN p : Deletes(p[i], j)) => v[j] = None
    BY <1>1, <1>3, <1>4, <1>6, <2>1
  <2>4. ASSUME r[j] # None, \A i \in DOMAIN p : ~Deletes(p[i], j) PROVE v[j] = x
    BY <1>1, <1>4, <1>6, <2>1, <2>4
  <2>5. ASSUME NEW i \in DOMAIN p, r[j] # None, Updates(p[i], j), \A k \in DOMAIN p : ~Deletes(p[k], j) /\ (k > i => ~Touches(p[k], j))
        PROVE  v[j] = Jobs!Job(p[i].command, p[i].hosts)
    <3>1. i = n
      BY <1>1, <1>2, <1>3, <1>6, <2>5
    <3> QED BY <1>1, <2>4, <2>5, <3>1
  <2> QED BY <1>4, <1>6, <2>1, <2>2, <2>3, <2>4, <2>5
<1> QED BY <1>5, <1>6

LEMMA DeleteAsked ==
  ASSUME NEW T, NEW q \in Seq(T), NEW m \in T, NEW r, NEW w, Meaning(q, r, w), DOMAIN w = Jobs!Id,
         NEW e \in Jobs!Id, Deletes(m, e), NEW v, v = [w EXCEPT ![e] = None]
  PROVE  Meaning(Append(q, m), r, v)
<1> DEFINE p == Append(q, m)
           n == Len(q) + 1
<1>1. DOMAIN p = DOMAIN q \cup {n} /\ p[n] = m /\ \A i \in DOMAIN q : i \in Nat /\ i < n /\ p[i] = q[i]
  BY AppendIs
<1>2. Len(q) \in Nat /\ n \in Nat
  OBVIOUS
<1> HIDE DEF p, n
<1> SUFFICES ASSUME NEW j \in Jobs!Id
             PROVE  /\ r[j] = None => v[j] = None
                    /\ (\E i \in DOMAIN p : Deletes(p[i], j)) => v[j] = None
                    /\ \A i \in DOMAIN p :
                         r[j] # None /\ Updates(p[i], j) /\ (\A k \in DOMAIN p : ~Deletes(p[k], j) /\ (k > i => ~Touches(p[k], j)))
                         => v[j] = Jobs!Job(p[i].command, p[i].hosts)
                    /\ r[j] # None /\ (\A i \in DOMAIN p : ~Touches(p[i], j)) => v[j] = r[j]
                    /\ r[j] # None /\ (\A i \in DOMAIN p : ~Deletes(p[i], j)) => v[j] # None
  BY DEF Meaning, p
<1>3. ~Updates(m, j) /\ (j # e => ~Deletes(m, j) /\ ~Touches(m, j)) /\ (j = e => Touches(m, j) /\ Deletes(m, j))
  BY DEF Touches, Updates, Deletes
<1>4. (j # e => v[j] = w[j]) /\ v[e] = None
  OBVIOUS
<1>5. CASE j # e
  BY <1>1, <1>2, <1>3, <1>4, <1>5 DEF Meaning
<1>6. CASE j = e
  BY <1>1, <1>3, <1>4, <1>6
<1> QED BY <1>5, <1>6

\* What main makes of a call: a row that is new, one that is written, one that is gone.
LEMMA CreateHeard ==
  ASSUME NEW q, NEW r, NEW w, Meaning(q, r, w), DOMAIN r = Jobs!Id, DOMAIN w = Jobs!Id, NEW n, NEW x, x # None,
         \A i \in DOMAIN q : ~Touches(q[i], n),
         NEW s, s = [r EXCEPT ![n] = x], NEW v, v = [w EXCEPT ![n] = x]
  PROVE  Meaning(q, s, v)
<1> SUFFICES ASSUME NEW j \in Jobs!Id
             PROVE  /\ s[j] = None => v[j] = None
                    /\ (\E i \in DOMAIN q : Deletes(q[i], j)) => v[j] = None
                    /\ \A i \in DOMAIN q :
                         s[j] # None /\ Updates(q[i], j) /\ (\A k \in DOMAIN q : ~Deletes(q[k], j) /\ (k > i => ~Touches(q[k], j)))
                         => v[j] = Jobs!Job(q[i].command, q[i].hosts)
                    /\ s[j] # None /\ (\A i \in DOMAIN q : ~Touches(q[i], j)) => v[j] = s[j]
                    /\ s[j] # None /\ (\A i \in DOMAIN q : ~Deletes(q[i], j)) => v[j] # None
  BY DEF Meaning
<1>1. CASE j # n
  <2>1. s[j] = r[j] /\ v[j] = w[j]
    BY <1>1
  <2> QED BY <2>1 DEF Meaning
<1>2. CASE j = n
  <2>1. s[j] = x /\ v[j] = x
    BY <1>2
  <2>2. \A i \in DOMAIN q : ~Updates(q[i], j) /\ ~Deletes(q[i], j)
    BY <1>2 DEF Touches
  <2> QED BY <2>1, <2>2
<1> QED BY <1>1, <1>2

LEMMA UpdateHeard ==
  ASSUME NEW T, NEW q \in Seq(T), q # <<>>, NEW m, m = Head(q), NEW r, NEW w, Meaning(q, r, w), DOMAIN r = Jobs!Id,
         NEW e \in Jobs!Id, Updates(m, e), NEW x, x = Jobs!Job(m.command, m.hosts), x # None,
         NEW s, s = [r EXCEPT ![e] = IF @ = None THEN None ELSE x]
  PROVE  Meaning(Tail(q), s, w)
<1> DEFINE p == Tail(q)
<1>1. /\ m = q[1] /\ 1 \in DOMAIN q
      /\ \A i \in DOMAIN p : i \in Nat /\ i + 1 \in DOMAIN q /\ p[i] = q[i + 1]
      /\ \A i \in DOMAIN q : i \in Nat /\ (i # 1 => i > 1 /\ i - 1 \in DOMAIN p /\ p[i - 1] = q[i])
  BY TailIs
<1> HIDE DEF p
<1> SUFFICES ASSUME NEW j \in Jobs!Id
             PROVE  /\ s[j] = None => w[j] = None
                    /\ (\E i \in DOMAIN p : Deletes(p[i], j)) => w[j] = None
                    /\ \A i \in DOMAIN p :
                         s[j] # None /\ Updates(p[i], j) /\ (\A k \in DOMAIN p : ~Deletes(p[k], j) /\ (k > i => ~Touches(p[k], j)))
                         => w[j] = Jobs!Job(p[i].command, p[i].hosts)
                    /\ s[j] # None /\ (\A i \in DOMAIN p : ~Touches(p[i], j)) => w[j] = s[j]
                    /\ s[j] # None /\ (\A i \in DOMAIN p : ~Deletes(p[i], j)) => w[j] # None
  BY DEF Meaning, p
<1>2. ~Deletes(m, j) /\ (j # e => ~Updates(m, j)) /\ (j = e => Updates(m, j))
  BY DEF Updates, Deletes
<1>3. (j # e => s[j] = r[j]) /\ s[e] = (IF r[e] = None THEN None ELSE x) /\ (s[j] = None <=> r[j] = None)
  OBVIOUS
<1>4. s[j] = None => w[j] = None
  BY <1>3 DEF Meaning
<1>5. (\E i \in DOMAIN p : Deletes(p[i], j)) => w[j] = None
  BY <1>1 DEF Meaning
<1>6. (\A i \in DOMAIN p : ~Deletes(p[i], j)) => \A i \in DOMAIN q : ~Deletes(q[i], j)
  BY <1>1, <1>2
<1>7. ASSUME NEW i \in DOMAIN p, s[j] # None, Updates(p[i], j),
             \A k \in DOMAIN p : ~Deletes(p[k], j) /\ (k > i => ~Touches(p[k], j))
      PROVE  w[j] = Jobs!Job(p[i].command, p[i].hosts)
  <2>1. i \in Nat /\ i + 1 \in DOMAIN q /\ p[i] = q[i + 1]
    BY <1>1
  <2>2. \A k \in DOMAIN q : ~Deletes(q[k], j)
    BY <1>6, <1>7
  <2>3. \A k \in DOMAIN q : k > i + 1 => ~Touches(q[k], j)
    <3> SUFFICES ASSUME NEW k \in DOMAIN q, k > i + 1 PROVE ~Touches(q[k], j)
      OBVIOUS
    <3>1. k \in Nat /\ k # 1 /\ k - 1 \in DOMAIN p /\ p[k - 1] = q[k] /\ k - 1 > i
      BY <1>1, <2>1
    <3> QED BY <1>7, <3>1
  <2> QED BY <1>3, <1>7, <2>1, <2>2, <2>3 DEF Meaning
<1>8. ASSUME s[j] # None, \A i \in DOMAIN p : ~Touches(p[i], j) PROVE w[j] = s[j]
  <2>1. \A i \in DOMAIN q : ~Deletes(q[i], j)
    BY <1>6, <1>8 DEF Touches
  <2>2. CASE j = e
    <3>1. \A k \in DOMAIN q : k > 1 => ~Touches(q[k], j)
      <4> SUFFICES ASSUME NEW k \in DOMAIN q, k > 1 PROVE ~Touches(q[k], j)
        OBVIOUS
      <4>1. k \in Nat /\ k # 1
        BY <1>1
      <4>2. k - 1 \in DOMAIN p /\ p[k - 1] = q[k]
        BY <1>1, <4>1
      <4> QED BY <1>8, <4>2
    <3>2. Updates(q[1], j) /\ r[j] # None /\ s[j] = x
      BY <1>1, <1>2, <1>3, <1>8, <2>2
    <3> QED BY <1>1, <2>1, <3>1, <3>2 DEF Meaning
  <2>3. CASE j # e
    <3>1. \A k \in DOMAIN q : ~Touches(q[k], j)
      BY <1>1, <1>2, <1>8, <2>3 DEF Touches
    <3> QED BY <1>3, <1>8, <2>3, <3>1 DEF Meaning
  <2> QED BY <2>2, <2>3
<1>9. s[j] # None /\ (\A i \in DOMAIN p : ~Deletes(p[i], j)) => w[j] # None
  BY <1>3, <1>6 DEF Meaning
<1> QED BY <1>4, <1>5, <1>7, <1>8, <1>9

LEMMA DeleteHeard ==
  ASSUME NEW T, NEW q \in Seq(T), q # <<>>, NEW m, m = Head(q), NEW r, NEW w, Meaning(q, r, w), DOMAIN r = Jobs!Id,
         NEW e \in Jobs!Id, Deletes(m, e), NEW s, s = [r EXCEPT ![e] = None]
  PROVE  Meaning(Tail(q), s, w)
<1> DEFINE p == Tail(q)
<1>1. /\ m = q[1] /\ 1 \in DOMAIN q
      /\ \A i \in DOMAIN p : i \in Nat /\ i + 1 \in DOMAIN q /\ p[i] = q[i + 1]
      /\ \A i \in DOMAIN q : i \in Nat /\ (i # 1 => i > 1 /\ i - 1 \in DOMAIN p /\ p[i - 1] = q[i])
  BY TailIs
<1> HIDE DEF p
<1> SUFFICES ASSUME NEW j \in Jobs!Id
             PROVE  /\ s[j] = None => w[j] = None
                    /\ (\E i \in DOMAIN p : Deletes(p[i], j)) => w[j] = None
                    /\ \A i \in DOMAIN p :
                         s[j] # None /\ Updates(p[i], j) /\ (\A k \in DOMAIN p : ~Deletes(p[k], j) /\ (k > i => ~Touches(p[k], j)))
                         => w[j] = Jobs!Job(p[i].command, p[i].hosts)
                    /\ s[j] # None /\ (\A i \in DOMAIN p : ~Touches(p[i], j)) => w[j] = s[j]
                    /\ s[j] # None /\ (\A i \in DOMAIN p : ~Deletes(p[i], j)) => w[j] # None
  BY DEF Meaning, p
<1>2. (j # e => ~Updates(m, j) /\ ~Deletes(m, j) /\ ~Touches(m, j)) /\ (j = e => Deletes(m, j))
  BY DEF Updates, Deletes, Touches
<1>3. (j # e => s[j] = r[j]) /\ s[e] = None
  OBVIOUS
<1>4. CASE j = e
  <2>1. w[j] = None
    BY <1>1, <1>2, <1>4 DEF Meaning
  <2> QED BY <1>3, <1>4, <2>1
<1>5. CASE j # e
  <2>1. s[j] = r[j]
    BY <1>3, <1>5
  <2>2. r[j] = None => w[j] = None
    BY DEF Meaning
  <2>3. (\E i \in DOMAIN p : Deletes(p[i], j)) => w[j] = None
    BY <1>1 DEF Meaning
  <2>4. (\A i \in DOMAIN p : ~Deletes(p[i], j)) => \A i \in DOMAIN q : ~Deletes(q[i], j)
    BY <1>1, <1>2, <1>5
  <2>5. ASSUME NEW i \in DOMAIN p, r[j] # None, Updates(p[i], j),
               \A k \in DOMAIN p : ~Deletes(p[k], j) /\ (k > i => ~Touches(p[k], j))
        PROVE  w[j] = Jobs!Job(p[i].command, p[i].hosts)
    <3>1. i \in Nat /\ i + 1 \in DOMAIN q /\ p[i] = q[i + 1]
      BY <1>1
    <3>2. \A k \in DOMAIN q : ~Deletes(q[k], j)
      BY <2>4, <2>5
    <3>3. \A k \in DOMAIN q : k > i + 1 => ~Touches(q[k], j)
      <4> SUFFICES ASSUME NEW k \in DOMAIN q, k > i + 1 PROVE ~Touches(q[k], j)
        OBVIOUS
      <4>1. k \in Nat /\ k # 1 /\ k - 1 \in DOMAIN p /\ p[k - 1] = q[k] /\ k - 1 > i
        BY <1>1, <3>1
      <4> QED BY <2>5, <4>1
    <3> QED BY <2>5, <3>1, <3>2, <3>3 DEF Meaning
  <2>6. ASSUME r[j] # None, \A i \in DOMAIN p : ~Touches(p[i], j) PROVE w[j] = r[j]
    <3>1. \A k \in DOMAIN q : ~Touches(q[k], j)
      BY <1>1, <1>2, <1>5, <2>6
    <3> QED BY <2>6, <3>1 DEF Meaning
  <2>7. r[j] # None /\ (\A i \in DOMAIN p : ~Deletes(p[i], j)) => w[j] # None
    BY <2>4 DEF Meaning
  <2> QED BY <2>1, <2>2, <2>3, <2>5, <2>6, <2>7
<1> QED BY <1>4, <1>5

JobOp == {"create", "update", "delete", "list", "listForForm", "run", "runJob"}
JobCall == [op : JobOp, id : 0 .. MaxCalls, command : Script \cup {None}, hosts : SUBSET JobHost]
ListedJob == [id : Jobs!Id, command : Script, hosts : SUBSET JobHost]
JobAnswer == [op : JobOp, id : 0 .. MaxCalls, ok : BOOLEAN, list : SUBSET ListedJob, run : Nat]

JobForm ==
  /\ jobHosts \subseteq JobHost /\ selected \subseteq JobHost /\ command \in Script \cup {None}
  /\ jobs \subseteq ListedJob /\ runs \in Nat /\ made \in Nat /\ editing \in 0 .. MaxCalls
JobRows == /\ rows \in [Jobs!Id -> Jobs!JobRow \cup {None}] /\ meant \in [Jobs!Id -> Jobs!JobRow \cup {None}]
JobTravel ==
  /\ jobCalls \in Seq(JobCall) /\ answers \in Seq(JobAnswer)
  /\ \A i \in DOMAIN jobCalls : jobCalls[i].op \in {"create", "update"} => jobCalls[i].command \in Script

\* Nobody speaks of a job that has not been made.
JobsMade ==
  /\ \A j \in Jobs!Id : rows[j] # None => j <= made
  /\ editing <= made /\ \A l \in jobs : l.id <= made
  /\ \A i \in DOMAIN answers : \A l \in answers[i].list : l.id <= made
  /\ \A i \in DOMAIN jobCalls : jobCalls[i].op \in {"update", "delete"} => jobCalls[i].id \in Jobs!Id /\ jobCalls[i].id <= made

FormOp == {"create", "update", "run", "listForForm"}
JobBusy == busy \in BOOLEAN /\ (busy => (\E i \in DOMAIN jobCalls : jobCalls[i].op \in FormOp) \/ \E i \in DOMAIN answers : answers[i].op \in FormOp)
JobsInv == JobForm /\ JobRows /\ JobTravel /\ JobsMade /\ JobBusy /\ Meaning(jobCalls, rows, meant)

LEMMA JobsShow == JobsInv => Jobs!JobsAreAsSaved /\ Jobs!BusyIsAnswered
<1> SUFFICES ASSUME JobsInv PROVE Jobs!JobsAreAsSaved /\ Jobs!BusyIsAnswered
  OBVIOUS
<1>1. Jobs!JobsAreAsSaved
  <2> SUFFICES ASSUME ~Jobs!OnTheWay({"update", "delete"}, jobCalls) PROVE rows = meant
    BY DEF Jobs!JobsAreAsSaved
  <2>1. \A j \in Jobs!Id : \A i \in DOMAIN jobCalls : ~Touches(jobCalls[i], j)
    BY DEF Jobs!OnTheWay, Touches, Updates, Deletes
  <2>2. \A j \in Jobs!Id : (rows[j] = None => meant[j] = None) /\ (rows[j] # None => meant[j] = rows[j])
    BY <2>1 DEF JobsInv, Meaning
  <2>3. \A j \in Jobs!Id : rows[j] = meant[j]
    BY <2>2
  <2> QED BY <2>3 DEF JobsInv, JobRows
<1>2. Jobs!BusyIsAnswered
  <2> SUFFICES ASSUME busy PROVE \E n \in DOMAIN (jobCalls \o answers) : (jobCalls \o answers)[n].op \in FormOp
    BY DEF Jobs!BusyIsAnswered, Jobs!OnTheWay, FormOp
  <2>1. jobCalls \in Seq(JobCall) /\ answers \in Seq(JobAnswer)
    BY DEF JobsInv, JobTravel
  <2> DEFINE T == JobCall \cup JobAnswer
             p == jobCalls
             q == answers
  <2>2. p \in Seq(T) /\ q \in Seq(T)
    BY <2>1
  <2>3. (\E i \in DOMAIN p : p[i].op \in FormOp) \/ \E i \in DOMAIN q : q[i].op \in FormOp
    BY DEF JobsInv, JobBusy
  <2> HIDE DEF p, q, T
  <2>4. /\ DOMAIN (p \o q) = 1 .. Len(p) + Len(q) /\ DOMAIN p = 1 .. Len(p) /\ DOMAIN q = 1 .. Len(q)
        /\ Len(p) \in Nat /\ Len(q) \in Nat
        /\ \A i \in 1 .. Len(p) + Len(q) : (p \o q)[i] = IF i <= Len(p) THEN p[i] ELSE q[i - Len(p)]
    BY <2>2, ConcatProperties
  <2>5. ASSUME NEW i \in DOMAIN p, p[i].op \in FormOp PROVE \E n \in DOMAIN (p \o q) : (p \o q)[n].op \in FormOp
    <3>1. i \in DOMAIN (p \o q) /\ (p \o q)[i] = p[i]
      BY <2>4
    <3> QED BY <2>5, <3>1
  <2>6. ASSUME NEW i \in DOMAIN q, q[i].op \in FormOp PROVE \E n \in DOMAIN (p \o q) : (p \o q)[n].op \in FormOp
    <3>1. Len(p) + i \in 1 .. Len(p) + Len(q) /\ ~(Len(p) + i <= Len(p)) /\ (Len(p) + i) - Len(p) = i
      BY <2>4
    <3>2. Len(p) + i \in DOMAIN (p \o q) /\ (p \o q)[Len(p) + i] = q[i]
      BY <2>4, <3>1
    <3> QED BY <2>6, <3>2
  <2>7. \E n \in DOMAIN (p \o q) : (p \o q)[n].op \in FormOp
    BY <2>3, <2>5, <2>6
  <2> QED BY <2>7 DEF p, q
<1> QED BY <1>1, <1>2

LEMMA InitJobs == Jobs!Init => JobsInv
<1> SUFFICES ASSUME Jobs!Init PROVE JobsInv
  OBVIOUS
<1>1. /\ jobHosts = JobHost /\ selected = {} /\ command = None /\ editing = 0 /\ busy = FALSE /\ rows = [j \in Jobs!Id |-> None]
      /\ made = 0 /\ jobs = {} /\ runs = 0 /\ jobCalls = <<>> /\ answers = <<>> /\ meant = rows
  BY DEF Jobs!Init
<1>2. MaxCalls \in Nat
  BY BoundsAssumption DEF BoundsAssumption
<1>a. DOMAIN jobCalls = {} /\ DOMAIN answers = {}
  BY <1>1
<1>b. busy \in BOOLEAN
  BY <1>1
<1>3. DOMAIN jobCalls = {} /\ DOMAIN answers = {} /\ busy \in BOOLEAN
  BY <1>a, <1>b
<1>4. JobForm /\ JobRows /\ JobTravel
  BY <1>1, <1>2, <1>3 DEF JobForm, JobRows, JobTravel
<1>5. JobsMade /\ JobBusy
  BY <1>1, <1>3 DEF JobsMade, JobBusy
<1>6. Meaning(jobCalls, rows, meant)
  BY <1>1, <1>3 DEF Meaning
<1> QED BY <1>4, <1>5, <1>6 DEF JobsInv

LEMMA MeaningRests == ASSUME UNCHANGED <<jobCalls, rows, meant>>, Meaning(jobCalls, rows, meant) PROVE Meaning(jobCalls, rows, meant)'
  BY DEF Meaning

LEMMA JobsForm == ASSUME JobsInv, Jobs!FormStep PROVE JobsInv'
<1>0. JobForm /\ JobRows /\ JobTravel /\ JobsMade /\ JobBusy /\ Meaning(jobCalls, rows, meant)
  BY DEF JobsInv
<1>1. UNCHANGED <<jobHosts, busy, rows, made, runs, jobs, jobCalls, answers, meant>>
  BY DEF Jobs!FormStep, Jobs!world, Jobs!vault
<1>2. /\ selected' \subseteq JobHost /\ command' \in Script \cup {None}
      /\ editing' \in {0, editing} \/ \E j \in jobs : editing' = j.id
  <2>1. CASE \E j \in jobs : Jobs!loadJobIntoForm(j)
    <3>1. PICK j \in jobs : editing' = j.id /\ command' = j.command /\ selected' = j.hosts
      BY <2>1 DEF Jobs!loadJobIntoForm
    <3>2. j \in ListedJob
      BY <1>0 DEF JobForm
    <3> QED BY <3>1, <3>2 DEF ListedJob
  <2>2. CASE ~\E j \in jobs : Jobs!loadJobIntoForm(j)
    <3>1. editing' \in {0, editing}
      BY <2>2 DEF Jobs!FormStep, Jobs!toggleHost, Jobs!toggleGroup, Jobs!setCommand, Jobs!TickAll, Jobs!TickNone, Jobs!Tick, Jobs!resetForm
    <3>2. command' \in Script \cup {None}
      BY <1>0, <2>2 DEF JobForm, Jobs!FormStep, Jobs!toggleHost, Jobs!toggleGroup, Jobs!setCommand, Jobs!TickAll, Jobs!TickNone, Jobs!Tick, Jobs!resetForm
    <3>3. Jobs!sshHosts \subseteq JobHost /\ \A g : Jobs!groupHostIds(g) \subseteq JobHost
      BY <1>0 DEF JobForm, Jobs!sshHosts, Jobs!groupHostIds
    <3>4. selected' \subseteq JobHost
      BY <1>0, <2>2, <3>3 DEF JobForm, Jobs!FormStep, Jobs!toggleHost, Jobs!toggleGroup, Jobs!setCommand, Jobs!TickAll, Jobs!TickNone, Jobs!Tick, Jobs!resetForm
    <3> QED BY <3>1, <3>2, <3>4
  <2> QED BY <2>1, <2>2
<1>3. editing' \in 0 .. MaxCalls /\ editing' <= made
  <2>1. CASE editing' \in {0, editing}
    BY <1>0, <2>1, BoundsAssumption DEF JobForm, JobsMade, BoundsAssumption
  <2>2. CASE \E j \in jobs : editing' = j.id
    <3>1. PICK j \in jobs : editing' = j.id
      BY <2>2
    <3>2. j \in ListedJob /\ j.id <= made
      BY <1>0 DEF JobForm, JobsMade
    <3> QED BY <3>1, <3>2 DEF ListedJob, Jobs!Id
  <2> QED BY <1>2, <2>1, <2>2
<1>4. JobForm' /\ JobRows' /\ JobTravel'
  BY <1>0, <1>1, <1>2, <1>3 DEF JobForm, JobRows, JobTravel
<1>5. JobsMade'
  BY <1>0, <1>1, <1>3 DEF JobsMade
<1>6. JobBusy'
  BY <1>0, <1>1 DEF JobBusy
<1> QED BY <1>0, <1>1, <1>4, <1>5, <1>6, MeaningRests DEF JobsInv

LEMMA JobsAsk == ASSUME JobsInv, Jobs!ButtonStep PROVE JobsInv'
<1>0. JobForm /\ JobRows /\ JobTravel /\ JobsMade /\ JobBusy /\ Meaning(jobCalls, rows, meant)
  BY DEF JobsInv
<1>1. UNCHANGED <<jobHosts, selected, command, editing, rows, made, runs, jobs, answers>>
  BY DEF Jobs!ButtonStep, Jobs!world, Jobs!form, Jobs!vault
<1>2. 0 \in 0 .. MaxCalls /\ DOMAIN meant = Jobs!Id /\ Jobs!Id \subseteq 0 .. MaxCalls
  BY <1>0, BoundsAssumption DEF BoundsAssumption, JobRows, Jobs!Id
<1>3. ASSUME NEW m \in JobCall, jobCalls' = Append(jobCalls, m), m.op \in {"create", "update"} => m.command \in Script,
             m.op \in {"update", "delete"} => m.id \in Jobs!Id /\ m.id <= made,
             Meaning(Append(jobCalls, m), rows, meant'), meant' \in [Jobs!Id -> Jobs!JobRow \cup {None}],
             busy' = busy \/ (busy' = TRUE /\ m.op \in FormOp)
      PROVE  JobsInv'
  <2>1. /\ jobCalls' \in Seq(JobCall) /\ DOMAIN jobCalls' = DOMAIN jobCalls \cup {Len(jobCalls) + 1}
        /\ jobCalls'[Len(jobCalls) + 1] = m /\ \A i \in DOMAIN jobCalls : jobCalls'[i] = jobCalls[i]
    BY <1>0, <1>3, AppendIs DEF JobTravel
  <2>2. JobForm' /\ JobRows'
    BY <1>0, <1>1, <1>3 DEF JobForm, JobRows
  <2>3. JobTravel' /\ JobsMade'
    BY <1>0, <1>1, <1>3, <2>1 DEF JobTravel, JobsMade
  <2>4. JobBusy'
    <3>1. busy' \in BOOLEAN
      BY <1>0, <1>3 DEF JobBusy
    <3>2. CASE busy' = busy
      <4>1. ASSUME busy PROVE (\E i \in DOMAIN jobCalls' : jobCalls'[i].op \in FormOp) \/ \E i \in DOMAIN answers' : answers'[i].op \in FormOp
        BY <1>0, <1>1, <2>1, <4>1 DEF JobBusy
      <4> QED BY <3>1, <3>2, <4>1 DEF JobBusy
    <3>3. CASE m.op \in FormOp
      <4>1. \E i \in DOMAIN jobCalls' : jobCalls'[i].op \in FormOp
        BY <2>1, <3>3
      <4> QED BY <3>1, <4>1 DEF JobBusy
    <3> QED BY <1>3, <3>2, <3>3
  <2>5. Meaning(jobCalls, rows, meant)'
    <3>1. Meaning(jobCalls', rows', meant')
      BY <1>1, <1>3
    <3> QED BY <3>1
  <2> QED BY <2>2, <2>3, <2>4, <2>5 DEF JobsInv
<1>4. jobCalls \in Seq(JobCall) /\ Meaning(jobCalls, rows, meant) /\ meant \in [Jobs!Id -> Jobs!JobRow \cup {None}] /\ selected \subseteq JobHost
  BY <1>0 DEF JobTravel, JobRows, JobForm
<1>5. CASE Jobs!handleRun
  <2> DEFINE m == Jobs!Call("run", 0, command, selected)
  <2>1. busy' = TRUE /\ jobCalls' = Append(jobCalls, m) /\ meant' = meant
    BY <1>5 DEF Jobs!handleRun, Jobs!Ask
  <2>2. m \in JobCall /\ m.op = "run"
    BY <1>0, <1>2 DEF Jobs!Call, JobCall, JobOp, JobForm
  <2> HIDE DEF m
  <2>3. \A j \in Jobs!Id : ~Touches(m, j)
    BY <2>2 DEF Touches, Updates, Deletes
  <2>4. Meaning(Append(jobCalls, m), rows, meant')
    BY <1>4, <2>1, <2>2, <2>3, OthersAsked
  <2> QED BY <1>3, <1>4, <2>1, <2>2, <2>4 DEF FormOp
<1>6. CASE \E j \in jobs : Jobs!RunJob(j)
  <2>1. PICK j \in jobs : Jobs!RunJob(j)
    BY <1>6
  <2> DEFINE m == Jobs!Call("runJob", 0, j.command, j.hosts)
  <2>2. busy' = busy /\ jobCalls' = Append(jobCalls, m) /\ meant' = meant
    BY <2>1 DEF Jobs!RunJob, Jobs!Ask
  <2>3. j.command \in Script /\ j.hosts \subseteq JobHost
    BY <1>0 DEF JobForm, ListedJob
  <2>4. m \in JobCall /\ m.op = "runJob"
    BY <1>2, <2>3 DEF Jobs!Call, JobCall, JobOp
  <2> HIDE DEF m
  <2>5. \A i \in Jobs!Id : ~Touches(m, i)
    BY <2>4 DEF Touches, Updates, Deletes
  <2>6. Meaning(Append(jobCalls, m), rows, meant')
    BY <1>4, <2>2, <2>4, <2>5, OthersAsked
  <2> QED BY <1>3, <1>4, <2>2, <2>4, <2>6
<1>7. CASE Jobs!handleSave
  <2>0. command \in Script /\ busy' = TRUE
    BY <1>0, <1>7 DEF Jobs!handleSave, JobForm
  <2>1. CASE editing = 0
    <3> DEFINE m == Jobs!Call("create", 0, command, selected)
    <3>1. jobCalls' = Append(jobCalls, m) /\ meant' = meant
      BY <1>7, <2>1 DEF Jobs!handleSave, Jobs!Ask
    <3>2. m \in JobCall /\ m.op = "create" /\ m.command \in Script
      BY <1>2, <1>4, <2>0 DEF Jobs!Call, JobCall, JobOp
    <3> HIDE DEF m
    <3>3. \A j \in Jobs!Id : ~Touches(m, j)
      BY <3>2 DEF Touches, Updates, Deletes
    <3>4. Meaning(Append(jobCalls, m), rows, meant')
      BY <1>4, <3>1, <3>2, <3>3, OthersAsked
    <3> QED BY <1>3, <1>4, <2>0, <3>1, <3>2, <3>4 DEF FormOp
  <2>2. CASE editing # 0
    <3> DEFINE m == Jobs!Call("update", editing, command, selected)
               x == Jobs!Job(command, selected)
    <3>1. jobCalls' = Append(jobCalls, m) /\ meant' = [meant EXCEPT ![editing] = IF @ = None THEN None ELSE x]
      BY <1>7, <2>2 DEF Jobs!handleSave, Jobs!Ask
    <3>2. editing \in Jobs!Id /\ editing <= made /\ editing \in 0 .. MaxCalls
      BY <1>0, <2>2, BoundsAssumption DEF BoundsAssumption, JobForm, JobsMade, Jobs!Id
    <3>3. m \in JobCall /\ m.op = "update" /\ m.command \in Script /\ m.id = editing /\ m.command = command /\ m.hosts = selected
      BY <1>4, <2>0, <3>2 DEF Jobs!Call, JobCall, JobOp
    <3>4. x \in Jobs!JobRow /\ x # None
      BY <1>4, <2>0, NoJobAssumption DEF NoJobAssumption, Jobs!Job, Jobs!JobRow
    <3> HIDE DEF m
    <3>5. Updates(m, editing) /\ x = Jobs!Job(m.command, m.hosts)
      BY <3>3 DEF Updates
    <3> HIDE DEF x
    <3>6. Meaning(Append(jobCalls, m), rows, meant')
      BY <1>2, <1>4, <3>1, <3>2, <3>3, <3>4, <3>5, UpdateAsked
    <3>7. meant' \in [Jobs!Id -> Jobs!JobRow \cup {None}]
      BY <1>4, <3>1, <3>2, <3>4
    <3> QED BY <1>3, <2>0, <3>1, <3>2, <3>3, <3>6, <3>7 DEF FormOp
  <2> QED BY <2>1, <2>2
<1>8. CASE \E j \in jobs : Jobs!deleteJob(j)
  <2>1. PICK j \in jobs : Jobs!deleteJob(j)
    BY <1>8
  <2> DEFINE m == Jobs!Call("delete", j.id, None, {})
  <2>2. busy' = busy /\ jobCalls' = Append(jobCalls, m) /\ meant' = [meant EXCEPT ![j.id] = None]
    BY <2>1 DEF Jobs!deleteJob, Jobs!Ask
  <2>3. j.id \in Jobs!Id /\ j.id <= made
    BY <1>0 DEF JobForm, ListedJob, JobsMade
  <2>4. m \in JobCall /\ m.op = "delete" /\ m.id = j.id
    BY <1>2, <2>3 DEF Jobs!Call, JobCall, JobOp
  <2> HIDE DEF m
  <2>5. Deletes(m, j.id)
    BY <2>4 DEF Deletes
  <2>6. Meaning(Append(jobCalls, m), rows, meant')
    BY <1>2, <1>4, <2>2, <2>3, <2>4, <2>5, DeleteAsked
  <2>7. meant' \in [Jobs!Id -> Jobs!JobRow \cup {None}]
    BY <1>4, <2>2, <2>3
  <2> QED BY <1>3, <2>2, <2>3, <2>4, <2>6, <2>7
<1> QED BY <1>5, <1>6, <1>7, <1>8 DEF Jobs!ButtonStep

LEMMA JobsHear == ASSUME JobsInv, Jobs!MainHears PROVE JobsInv'
<1>0. JobForm /\ JobRows /\ JobTravel /\ JobsMade /\ JobBusy /\ Meaning(jobCalls, rows, meant)
  BY DEF JobsInv
<1> DEFINE m == Head(jobCalls)
           p == Tail(jobCalls)
<1>1. /\ jobCalls # <<>> /\ jobCalls' = p
      /\ UNCHANGED <<jobHosts, selected, command, editing, busy, jobs>>
  BY DEF Jobs!MainHears, Jobs!world, Jobs!form
<1>2. /\ jobCalls \in Seq(JobCall) /\ answers \in Seq(JobAnswer)
      /\ rows \in [Jobs!Id -> Jobs!JobRow \cup {None}] /\ meant \in [Jobs!Id -> Jobs!JobRow \cup {None}]
      /\ Meaning(jobCalls, rows, meant)
  BY <1>0 DEF JobTravel, JobRows
<1>3. /\ p \in Seq(JobCall) /\ m \in JobCall /\ m = jobCalls[1] /\ 1 \in DOMAIN jobCalls
      /\ \A i \in DOMAIN p : i \in Nat /\ i + 1 \in DOMAIN jobCalls /\ p[i] = jobCalls[i + 1]
      /\ \A i \in DOMAIN jobCalls : i \in Nat /\ (i # 1 => i > 1 /\ i - 1 \in DOMAIN p /\ p[i - 1] = jobCalls[i])
  BY <1>1, <1>2, TailIs
<1>4. /\ m.op \in {"create", "update"} => m.command \in Script
      /\ m.op \in {"update", "delete"} => m.id \in Jobs!Id /\ m.id <= made
      /\ m.hosts \subseteq JobHost /\ m.op \in JobOp /\ m.id \in 0 .. MaxCalls
  BY <1>0, <1>3 DEF JobTravel, JobsMade, JobCall
<1> HIDE DEF m, p
<1>5. ASSUME NEW a \in JobAnswer, answers' = Append(answers, a), a.op = m.op, \A l \in a.list : l.id <= made',
             runs' \in Nat, made' \in Nat, made <= made', Meaning(p, rows', meant'),
             rows' \in [Jobs!Id -> Jobs!JobRow \cup {None}], meant' \in [Jobs!Id -> Jobs!JobRow \cup {None}],
             \A j \in Jobs!Id : rows'[j] # None => j <= made'
      PROVE  JobsInv'
  <2>1. /\ answers' \in Seq(JobAnswer) /\ DOMAIN answers' = DOMAIN answers \cup {Len(answers) + 1}
        /\ answers'[Len(answers) + 1] = a /\ \A i \in DOMAIN answers : answers'[i] = answers[i]
    BY <1>2, <1>5, AppendIs
  <2>2. JobForm' /\ JobRows'
    BY <1>0, <1>1, <1>5 DEF JobForm, JobRows
  <2>3. JobTravel'
    BY <1>0, <1>1, <1>3, <2>1 DEF JobTravel
  <2>4. JobsMade'
    <3>1. editing' <= made' /\ \A l \in jobs' : l.id <= made'
      <4>1. editing \in Nat /\ made \in Nat /\ \A l \in jobs : l.id \in Nat
        BY <1>0, BoundsAssumption DEF BoundsAssumption, JobForm, ListedJob, Jobs!Id
      <4> QED BY <1>0, <1>1, <1>5, <4>1 DEF JobsMade
    <3>2. \A i \in DOMAIN answers' : \A l \in answers'[i].list : l.id <= made'
      <4>1. \A i \in DOMAIN answers : \A l \in answers[i].list : l.id <= made /\ l.id \in Nat
        <5> SUFFICES ASSUME NEW i \in DOMAIN answers, NEW l \in answers[i].list PROVE l.id <= made /\ l.id \in Nat
          OBVIOUS
        <5>1. answers[i] \in JobAnswer
          BY <1>2
        <5>2. answers[i].list \subseteq ListedJob
          BY <5>1 DEF JobAnswer
        <5>3. l.id \in Jobs!Id
          BY <5>2 DEF ListedJob
        <5>4. l.id \in Nat
          BY <5>3, BoundsAssumption DEF BoundsAssumption, Jobs!Id
        <5> QED BY <1>0, <5>4 DEF JobsMade
      <4>2. \A i \in DOMAIN answers : \A l \in answers[i].list : l.id <= made'
        BY <1>0, <1>5, <4>1 DEF JobForm
      <4> QED BY <1>5, <2>1, <4>2
    <3>3. \A i \in DOMAIN jobCalls' : jobCalls'[i].op \in {"update", "delete"} => jobCalls'[i].id \in Jobs!Id /\ jobCalls'[i].id <= made'
      <4>1. \A i \in DOMAIN jobCalls : jobCalls[i].op \in {"update", "delete"} => jobCalls[i].id \in Jobs!Id /\ jobCalls[i].id <= made'
        BY <1>0, <1>5, BoundsAssumption DEF BoundsAssumption, JobsMade, Jobs!Id, JobForm
      <4> QED BY <1>1, <1>3, <4>1
    <3> QED BY <1>5, <3>1, <3>2, <3>3 DEF JobsMade
  <2>5. JobBusy'
    <3>1. busy' \in BOOLEAN
      BY <1>0, <1>1 DEF JobBusy
    <3>2. ASSUME busy' PROVE (\E i \in DOMAIN jobCalls' : jobCalls'[i].op \in FormOp) \/ \E i \in DOMAIN answers' : answers'[i].op \in FormOp
      <4>1. (\E i \in DOMAIN jobCalls : jobCalls[i].op \in FormOp) \/ \E i \in DOMAIN answers : answers[i].op \in FormOp
        BY <1>0, <1>1, <3>2 DEF JobBusy
      <4>2. ASSUME NEW i \in DOMAIN jobCalls, jobCalls[i].op \in FormOp
            PROVE  (\E k \in DOMAIN jobCalls' : jobCalls'[k].op \in FormOp) \/ \E k \in DOMAIN answers' : answers'[k].op \in FormOp
        <5>1. CASE i = 1
          BY <1>3, <1>5, <2>1, <4>2, <5>1
        <5>2. CASE i # 1
          BY <1>1, <1>3, <4>2, <5>2
        <5> QED BY <5>1, <5>2
      <4> QED BY <2>1, <4>1, <4>2
    <3> QED BY <3>1, <3>2 DEF JobBusy
  <2>6. Meaning(jobCalls, rows, meant)'
    <3>1. Meaning(jobCalls', rows', meant')
      BY <1>1, <1>5
    <3> QED BY <3>1
  <2> QED BY <2>2, <2>3, <2>4, <2>5, <2>6 DEF JobsInv
<1>6. \A ok \in BOOLEAN, L \in SUBSET ListedJob, r \in Nat :
        /\ [op |-> m.op, id |-> m.id, ok |-> ok, list |-> L, run |-> r] \in JobAnswer
        /\ [op |-> m.op, id |-> m.id, ok |-> ok, list |-> L, run |-> r].op = m.op
        /\ [op |-> m.op, id |-> m.id, ok |-> ok, list |-> L, run |-> r].list = L
  BY <1>4 DEF JobAnswer
<1>7. \A j \in Jobs!Id : (m.op # "update" => ~Updates(m, j)) /\ (m.op # "delete" => ~Deletes(m, j))
  BY DEF Updates, Deletes
<1>8. made \in Nat /\ runs \in Nat /\ \A j \in Jobs!Id : rows[j] # None => j <= made
  BY <1>0 DEF JobForm, JobsMade
<1> DEFINE Said(ok, L, r) == [op |-> m.op, id |-> m.id, ok |-> ok, list |-> L, run |-> r]
<1>9. \A ok \in BOOLEAN, L \in SUBSET ListedJob, r \in Nat :
        Said(ok, L, r) \in JobAnswer /\ Said(ok, L, r).op = m.op /\ Said(ok, L, r).list = L
  BY <1>6
<1>10. \A ok, L, r : Jobs!Answer(m, ok, L, r) <=> answers' = Append(answers, Said(ok, L, r))
  BY DEF Jobs!Answer
<1> HIDE DEF Said
<1>11. Jobs!Done(m) <=> Jobs!Answer(m, TRUE, {}, 0)
  BY DEF Jobs!Done
<1>12. {} \in SUBSET ListedJob /\ 0 \in Nat /\ TRUE \in BOOLEAN
  OBVIOUS
<1>13. CASE m.op = "create" /\ Jobs!createAutomationJob(m)
  <2> DEFINE x == Jobs!Job(m.command, m.hosts)
  <2>1. /\ made' = made + 1 /\ rows' = [rows EXCEPT ![made + 1] = x] /\ meant' = [meant EXCEPT ![made + 1] = x]
        /\ Jobs!Done(m) /\ runs' = runs
    BY <1>13 DEF Jobs!createAutomationJob
  <2>2. x \in Jobs!JobRow /\ x # None
    BY <1>4, <1>13, NoJobAssumption DEF NoJobAssumption, Jobs!Job, Jobs!JobRow
  <2> HIDE DEF x
  <2>3. Meaning(p, rows, meant)
    BY <1>1, <1>2, <1>7, <1>13, OthersHeard DEF Touches, m, p
  <2>4. \A i \in DOMAIN p : ~Touches(p[i], made + 1)
    <3>1. \A i \in DOMAIN p : p[i].op \in {"update", "delete"} => p[i].id \in Jobs!Id /\ p[i].id <= made
      BY <1>0, <1>3 DEF JobsMade
    <3>2. \A i \in DOMAIN p : p[i].op \in {"update", "delete"} => p[i].id # made + 1
      BY <1>8, <3>1, BoundsAssumption DEF BoundsAssumption, Jobs!Id
    <3> QED BY <3>2 DEF Touches, Updates, Deletes
  <2>5. Meaning(p, rows', meant')
    BY <1>2, <2>1, <2>2, <2>3, <2>4, CreateHeard
  <2>6. rows' \in [Jobs!Id -> Jobs!JobRow \cup {None}] /\ meant' \in [Jobs!Id -> Jobs!JobRow \cup {None}]
    BY <1>2, <2>1, <2>2
  <2>7. \A j \in Jobs!Id : rows'[j] # None => j <= made'
    <3> SUFFICES ASSUME NEW j \in Jobs!Id, rows'[j] # None PROVE j <= made + 1
      BY <2>1
    <3>1. j \in Nat
      BY BoundsAssumption DEF BoundsAssumption, Jobs!Id
    <3>2. j = made + 1 \/ rows'[j] = rows[j]
      BY <1>2, <2>1
    <3> QED BY <1>8, <3>1, <3>2
  <2>8. answers' = Append(answers, Said(TRUE, {}, 0))
    BY <1>10, <1>11, <2>1
  <2>9. made' \in Nat /\ made <= made' /\ runs' \in Nat
    BY <1>8, <2>1
  <2>10. Said(TRUE, {}, 0) \in JobAnswer /\ Said(TRUE, {}, 0).op = m.op /\ Said(TRUE, {}, 0).list = {}
    BY <1>9, <1>12
  <2> QED BY <1>5, <2>5, <2>6, <2>7, <2>8, <2>9, <2>10
<1>14. CASE m.op = "update" /\ Jobs!updateAutomationJob(m)
  <2> DEFINE x == Jobs!Job(m.command, m.hosts)
             ok == rows[m.id] # None
  <2>1. /\ rows' = [rows EXCEPT ![m.id] = IF @ = None THEN None ELSE x]
        /\ Jobs!Answer(m, ok, {}, 0) /\ UNCHANGED <<made, runs, meant>>
    BY <1>14 DEF Jobs!updateAutomationJob
  <2>2. x \in Jobs!JobRow /\ x # None
    BY <1>4, <1>14, NoJobAssumption DEF NoJobAssumption, Jobs!Job, Jobs!JobRow
  <2>3. ok \in BOOLEAN
    OBVIOUS
  <2>4. m.id \in Jobs!Id /\ Updates(m, m.id)
    BY <1>4, <1>14 DEF Updates
  <2>5. Meaning(p, rows', meant')
    <3> DEFINE e == m.id
    <3>0. x = Jobs!Job(m.command, m.hosts) /\ x # None
      BY <2>2
    <3>1. e \in Jobs!Id /\ Updates(m, e)
      BY <2>4
    <3>4. rows' = [rows EXCEPT ![e] = IF @ = None THEN None ELSE x]
      BY <2>1
    <3>2. DOMAIN rows = Jobs!Id /\ m = Head(jobCalls) /\ p = Tail(jobCalls)
      BY <1>2 DEF m, p
    <3> HIDE DEF e, x
    <3>5. /\ jobCalls \in Seq(JobCall) /\ jobCalls # <<>> /\ m = Head(jobCalls) /\ Meaning(jobCalls, rows, meant)
          /\ DOMAIN rows = Jobs!Id /\ e \in Jobs!Id /\ Updates(m, e) /\ x = Jobs!Job(m.command, m.hosts) /\ x # None
          /\ rows' = [rows EXCEPT ![e] = IF @ = None THEN None ELSE x]
      BY <1>1, <1>2, <3>0, <3>1, <3>2, <3>4
    <3>3. Meaning(Tail(jobCalls), rows', meant)
      BY <3>5, UpdateHeard
    <3> QED BY <2>1, <3>2, <3>3
  <2> HIDE DEF x, ok
  <2>6. rows' \in [Jobs!Id -> Jobs!JobRow \cup {None}] /\ meant' \in [Jobs!Id -> Jobs!JobRow \cup {None}]
    BY <1>2, <2>1, <2>2
  <2>7. \A j \in Jobs!Id : rows'[j] # None => j <= made'
    BY <1>2, <1>8, <2>1
  <2>8. answers' = Append(answers, Said(ok, {}, 0))
    BY <1>10, <2>1
  <2>9. made' \in Nat /\ made <= made' /\ runs' \in Nat
    BY <1>8, <2>1
  <2>10. Said(ok, {}, 0) \in JobAnswer /\ Said(ok, {}, 0).op = m.op /\ Said(ok, {}, 0).list = {}
    BY <1>9, <1>12, <2>3
  <2> QED BY <1>5, <2>5, <2>6, <2>7, <2>8, <2>9, <2>10
<1>15. CASE m.op = "delete" /\ Jobs!deleteAutomationJob(m)
  <2>1. rows' = [rows EXCEPT ![m.id] = None] /\ Jobs!Done(m) /\ UNCHANGED <<made, runs, meant>>
    BY <1>15 DEF Jobs!deleteAutomationJob
  <2>4. m.id \in Jobs!Id /\ Deletes(m, m.id)
    BY <1>4, <1>15 DEF Deletes
  <2>5. Meaning(p, rows', meant')
    <3> DEFINE e == m.id
    <3>1. e \in Jobs!Id /\ Deletes(m, e) /\ rows' = [rows EXCEPT ![e] = None]
      BY <2>1, <2>4
    <3>2. DOMAIN rows = Jobs!Id /\ m = Head(jobCalls) /\ p = Tail(jobCalls)
      BY <1>2 DEF m, p
    <3> HIDE DEF e
    <3>3. Meaning(Tail(jobCalls), rows', meant)
      BY <1>1, <1>2, <3>1, <3>2, DeleteHeard
    <3> QED BY <2>1, <3>2, <3>3
  <2>6. rows' \in [Jobs!Id -> Jobs!JobRow \cup {None}] /\ meant' \in [Jobs!Id -> Jobs!JobRow \cup {None}]
    BY <1>2, <2>1
  <2>7. \A j \in Jobs!Id : rows'[j] # None => j <= made'
    BY <1>2, <1>8, <2>1
  <2>8. answers' = Append(answers, Said(TRUE, {}, 0))
    BY <1>10, <1>11, <2>1
  <2>9. made' \in Nat /\ made <= made' /\ runs' \in Nat
    BY <1>8, <2>1
  <2>10. Said(TRUE, {}, 0) \in JobAnswer /\ Said(TRUE, {}, 0).op = m.op /\ Said(TRUE, {}, 0).list = {}
    BY <1>9, <1>12
  <2> QED BY <1>5, <2>5, <2>6, <2>7, <2>8, <2>9, <2>10
<1>16. CASE m.op \in {"list", "listForForm"} /\ Jobs!listAutomationJobs(m)
  <2> DEFINE L == {[id |-> j, command |-> rows[j].command, hosts |-> rows[j].hosts \cap jobHosts] :
                      j \in {j \in Jobs!Id : rows[j] # None}}
  <2>1. Jobs!Answer(m, TRUE, L, 0) /\ UNCHANGED <<rows, made, runs, meant>>
    BY <1>16 DEF Jobs!listAutomationJobs, Jobs!vault
  <2>2. L \in SUBSET ListedJob /\ \A l \in L : l.id <= made
    <3>1. \A j \in Jobs!Id : rows[j] # None => rows[j].command \in Script /\ rows[j].hosts \subseteq JobHost /\ j <= made
      BY <1>2, <1>8 DEF Jobs!JobRow
    <3> QED BY <3>1 DEF ListedJob
  <2> HIDE DEF L
  <2>3. Meaning(p, rows', meant')
    BY <1>1, <1>2, <1>7, <1>16, <2>1, OthersHeard DEF Touches, m, p
  <2>4. answers' = Append(answers, Said(TRUE, L, 0))
    BY <1>10, <2>1
  <2>5. Said(TRUE, L, 0) \in JobAnswer /\ Said(TRUE, L, 0).op = m.op /\ Said(TRUE, L, 0).list = L
    BY <1>9, <1>12, <2>2
  <2>6. rows' \in [Jobs!Id -> Jobs!JobRow \cup {None}] /\ meant' \in [Jobs!Id -> Jobs!JobRow \cup {None}]
    BY <1>2, <2>1
  <2>7. made' \in Nat /\ made <= made' /\ runs' \in Nat /\ \A j \in Jobs!Id : rows'[j] # None => j <= made'
    BY <1>8, <2>1
  <2>8. \A l \in L : l.id <= made'
    BY <2>1, <2>2
  <2> QED BY <1>5, <2>2, <2>3, <2>4, <2>5, <2>6, <2>7, <2>8
<1>17. CASE m.op \in {"run", "runJob"} /\ Jobs!automationRun(m)
  <2> DEFINE r == runs + 1
  <2>0. runs' = r /\ Jobs!Answer(m, TRUE, {}, r) /\ UNCHANGED <<rows, made, meant>>
    BY <1>17 DEF Jobs!automationRun
  <2>7. r \in Nat
    BY <1>8
  <2>1. runs' = r /\ Jobs!Answer(m, TRUE, {}, r) /\ UNCHANGED <<rows, made, meant>> /\ r \in Nat
    BY <2>0, <2>7
  <2> HIDE DEF r
  <2>3. Meaning(p, rows', meant')
    BY <1>1, <1>2, <1>7, <1>17, <2>1, OthersHeard DEF Touches, m, p
  <2>4. answers' = Append(answers, Said(TRUE, {}, r))
    BY <1>10, <2>1
  <2>5. Said(TRUE, {}, r) \in JobAnswer /\ Said(TRUE, {}, r).op = m.op /\ Said(TRUE, {}, r).list = {}
    BY <1>9, <1>12, <2>1
  <2>6. rows' \in [Jobs!Id -> Jobs!JobRow \cup {None}] /\ meant' \in [Jobs!Id -> Jobs!JobRow \cup {None}]
    BY <1>2, <2>1
  <2>8. made' \in Nat /\ made <= made' /\ runs' \in Nat /\ \A j \in Jobs!Id : rows'[j] # None => j <= made'
    BY <1>8, <2>1
  <2> QED BY <1>5, <2>3, <2>4, <2>5, <2>6, <2>8
<1> QED BY <1>13, <1>14, <1>15, <1>16, <1>17 DEF Jobs!MainHears, m

LEMMA JobsAnswered == ASSUME JobsInv, Jobs!Answered PROVE JobsInv'
<1>0. JobForm /\ JobRows /\ JobTravel /\ JobsMade /\ JobBusy /\ Meaning(jobCalls, rows, meant)
  BY DEF JobsInv
<1> DEFINE m == Head(answers)
           n == [op |-> "list", id |-> 0, command |-> None, hosts |-> {}]
           f == [op |-> "listForForm", id |-> 0, command |-> None, hosts |-> {}]
<1>1. /\ answers # <<>> /\ answers' = Tail(answers)
      /\ UNCHANGED <<jobHosts, selected, command, editing, rows, made, runs, meant>>
  BY DEF Jobs!Answered, Jobs!world, Jobs!form, Jobs!vault
<1>2. jobCalls \in Seq(JobCall) /\ answers \in Seq(JobAnswer) /\ Meaning(jobCalls, rows, meant) /\ busy \in BOOLEAN
  BY <1>0 DEF JobTravel, JobBusy
<1>3. /\ answers' \in Seq(JobAnswer) /\ m \in JobAnswer /\ m = answers[1] /\ 1 \in DOMAIN answers
      /\ \A i \in DOMAIN answers' : i \in Nat /\ i + 1 \in DOMAIN answers /\ answers'[i] = answers[i + 1]
      /\ \A i \in DOMAIN answers : i \in Nat /\ (i # 1 => i > 1 /\ i - 1 \in DOMAIN answers' /\ answers'[i - 1] = answers[i])
  BY <1>1, <1>2, TailIs
<1>4. /\ n \in JobCall /\ n.op = "list" /\ f \in JobCall /\ f.op = "listForForm"
  BY BoundsAssumption DEF BoundsAssumption, JobCall, JobOp
<1>5. \/ /\ jobCalls' = Append(jobCalls, f) /\ busy' = busy /\ jobs' = jobs
      \/ /\ jobCalls' = Append(jobCalls, n) /\ busy' = busy /\ jobs' = jobs /\ m.op \notin FormOp
      \/ /\ jobCalls' = jobCalls /\ jobs' \in {jobs, m.list} /\ (busy' = FALSE \/ (busy' = busy /\ m.op \notin FormOp))
  BY DEF Jobs!Answered, Jobs!loadJobs, Jobs!Call, FormOp
<1> HIDE DEF m, n, f
<1>6. /\ jobCalls' \in Seq(JobCall) /\ \A i \in DOMAIN jobCalls : i \in DOMAIN jobCalls' /\ jobCalls'[i] = jobCalls[i]
      /\ \A i \in DOMAIN jobCalls' : i \in DOMAIN jobCalls \/ jobCalls'[i].op \in {"list", "listForForm"}
      /\ Meaning(jobCalls', rows, meant)
  <2>1. ASSUME NEW c \in {f, n}, jobCalls' = Append(jobCalls, c)
        PROVE  /\ jobCalls' \in Seq(JobCall) /\ \A i \in DOMAIN jobCalls : i \in DOMAIN jobCalls' /\ jobCalls'[i] = jobCalls[i]
               /\ \A i \in DOMAIN jobCalls' : i \in DOMAIN jobCalls \/ jobCalls'[i] = c
               /\ Meaning(jobCalls', rows, meant)
    <3>1. c \in JobCall /\ c.op \in {"list", "listForForm"}
      BY <1>4
    <3>2. \A j \in Jobs!Id : ~Touches(c, j)
      BY <3>1 DEF Touches, Updates, Deletes
    <3>3. Meaning(jobCalls', rows, meant)
      BY <1>2, <2>1, <3>1, <3>2, OthersAsked
    <3> QED BY <1>2, <2>1, <3>1, <3>3, AppendIs
  <2>2. CASE jobCalls' = jobCalls
    BY <1>2, <2>2
  <2> QED BY <1>4, <1>5, <2>1, <2>2
<1>7. JobRows' /\ JobForm'
  <2>1. jobs' \subseteq ListedJob
    BY <1>0, <1>3, <1>5 DEF JobForm, JobAnswer
  <2> QED BY <1>0, <1>1, <2>1 DEF JobRows, JobForm
<1>8. JobTravel' /\ JobsMade'
  <2>1. \A i \in DOMAIN jobCalls' : /\ jobCalls'[i].op \in {"create", "update"} => jobCalls'[i].command \in Script
                                    /\ jobCalls'[i].op \in {"update", "delete"} => jobCalls'[i].id \in Jobs!Id /\ jobCalls'[i].id <= made
    BY <1>0, <1>6 DEF JobTravel, JobsMade
  <2>2. \A l \in jobs' : l.id <= made
    BY <1>0, <1>3, <1>5 DEF JobsMade
  <2> QED BY <1>0, <1>1, <1>3, <1>6, <2>1, <2>2 DEF JobTravel, JobsMade
<1>9. JobBusy'
  <2>1. busy' \in BOOLEAN
    BY <1>2, <1>5
  <2>2. ASSUME busy' PROVE (\E i \in DOMAIN jobCalls' : jobCalls'[i].op \in FormOp) \/ \E i \in DOMAIN answers' : answers'[i].op \in FormOp
    <3>1. CASE jobCalls' = Append(jobCalls, f)
      <4>1. Len(jobCalls) + 1 \in DOMAIN jobCalls' /\ jobCalls'[Len(jobCalls) + 1] = f
        BY <1>2, <1>4, <3>1, AppendIs
      <4> QED BY <1>4, <4>1 DEF FormOp
    <3>2. CASE jobCalls' # Append(jobCalls, f)
      <4>1. busy /\ m.op \notin FormOp
        BY <1>2, <1>5, <2>2, <3>2
      <4>2. (\E i \in DOMAIN jobCalls : jobCalls[i].op \in FormOp) \/ \E i \in DOMAIN answers : answers[i].op \in FormOp
        BY <1>0, <4>1 DEF JobBusy
      <4>3. \A i \in DOMAIN answers : answers[i].op \in FormOp => i # 1
        BY <1>3, <4>1
      <4> QED BY <1>3, <1>6, <4>2, <4>3
    <3> QED BY <3>1, <3>2
  <2> QED BY <2>1, <2>2 DEF JobBusy
<1>10. Meaning(jobCalls, rows, meant)'
  BY <1>1, <1>6
<1> QED BY <1>7, <1>8, <1>9, <1>10 DEF JobsInv

LEMMA NextJobs == ASSUME JobsInv, Jobs!Next \/ UNCHANGED jobTab PROVE JobsInv'
<1>0. JobForm /\ JobRows /\ JobTravel /\ JobsMade /\ JobBusy /\ Meaning(jobCalls, rows, meant)
  BY DEF JobsInv
<1>1. CASE Jobs!HostChanges \/ UNCHANGED jobTab
  <2>1. UNCHANGED <<selected, command, editing, busy, rows, made, runs, jobs, jobCalls, answers, meant>> /\ jobHosts' \subseteq jobHosts
    BY <1>1 DEF Jobs!HostChanges, jobTab, Jobs!form, Jobs!vault
  <2>2. JobForm' /\ JobRows' /\ JobTravel' /\ JobsMade'
    BY <1>0, <2>1 DEF JobForm, JobRows, JobTravel, JobsMade
  <2>3. JobBusy'
    BY <1>0, <2>1 DEF JobBusy
  <2> QED BY <1>0, <2>1, <2>2, <2>3, MeaningRests DEF JobsInv
<1> QED BY <1>1, JobsForm, JobsAsk, JobsHear, JobsAnswered DEF Jobs!Next

\* What the answers say of the list: the jobs they name, without the hosts that are gone.
ListOp == {"list", "listForForm"}
Listings == {m \in JobAnswer : m.op \in ListOp}
Changes == {m \in JobAnswer : m.op \in {"create", "delete"} \/ (m.op = "update" /\ m.ok)}
Cut(S, L) == {[id |-> j.id, command |-> j.command, hosts |-> j.hosts \cap L] : j \in S}
RowsOf(r, L) ==
  {[id |-> j, command |-> r[j].command, hosts |-> r[j].hosts \cap L] : j \in {j \in Jobs!Id : r[j] # None}}
SaysJobs(r, L) == {m \in JobAnswer : Cut(m.list, L) = RowsOf(r, L)}
ListingAsked(c) == \E i \in DOMAIN c : c[i].op \in ListOp
ChangeDone(a) == \E i \in DOMAIN a : a[i] \in Changes

\* The list is asked for, or will be; or the last answer has the rows, or the window.
JobsListed(c, a, l, r, L) ==
  ListingAsked(c) \/ ChangeDone(a) \/ LastSays(a, Listings, SaysJobs(r, L), Cut(l, L) = RowsOf(r, L))

Started == {m \in JobAnswer : m.op \in {"run", "runJob"}}
RunIs(n) == {m \in JobAnswer : m.run = n}
RunShown(a, n, x) == LastSays(a, Started, RunIs(n), x = n)
JobLists == JobsListed(jobCalls, answers, jobs, rows, jobHosts) /\ RunShown(answers, runs, current)

LEMMA JobListsShow == ASSUME JobLists PROVE Jobs!QuietTabIsVault
<1> SUFFICES ASSUME jobCalls = <<>>, answers = <<>>
             PROVE  current = runs /\ Cut(jobs, jobHosts) = RowsOf(rows, jobHosts)
  BY DEF Jobs!QuietTabIsVault, Jobs!Quiet, Cut, RowsOf
<1>1. ~ListingAsked(jobCalls) /\ ~ChangeDone(answers)
  BY DEF ListingAsked, ChangeDone
<1> QED BY <1>1, LastSaid DEF JobLists, JobsListed, RunShown

LEMMA InitJobLists == Jobs!Init => JobLists
<1> SUFFICES ASSUME Jobs!Init PROVE JobLists
  OBVIOUS
<1>1. rows = [j \in Jobs!Id |-> None] /\ jobs = {} /\ runs = 0 /\ current = 0 /\ answers = <<>>
  BY DEF Jobs!Init
<1>2. Cut(jobs, jobHosts) = {} /\ RowsOf(rows, jobHosts) = {}
  BY <1>1 DEF Cut, RowsOf
<1> QED BY <1>1, <1>2, NothingSaid DEF JobLists, JobsListed, RunShown

\* A list cut to fewer hosts is the rows cut to them.
LEMMA CutAgain ==
  ASSUME NEW l, NEW r, NEW L, NEW K, K \subseteq L, Cut(l, L) = RowsOf(r, L)
  PROVE  Cut(l, K) = RowsOf(r, K)
<1>1. \A H : (H \cap L) \cap K = H \cap K
  OBVIOUS
<1>2. ASSUME NEW S PROVE Cut(Cut(S, L), K) = Cut(S, K)
  <2>1. Cut(Cut(S, L), K) \subseteq Cut(S, K)
    <3> SUFFICES ASSUME NEW x \in Cut(S, L)
                 PROVE  [id |-> x.id, command |-> x.command, hosts |-> x.hosts \cap K] \in Cut(S, K)
      BY DEF Cut
    <3>1. PICK j \in S : x = [id |-> j.id, command |-> j.command, hosts |-> j.hosts \cap L]
      BY DEF Cut
    <3>2. x.id = j.id /\ x.command = j.command /\ x.hosts \cap K = j.hosts \cap K
      BY <1>1, <3>1
    <3> QED BY <3>2 DEF Cut
  <2>2. Cut(S, K) \subseteq Cut(Cut(S, L), K)
    <3> SUFFICES ASSUME NEW j \in S
                 PROVE  [id |-> j.id, command |-> j.command, hosts |-> j.hosts \cap K] \in Cut(Cut(S, L), K)
      BY DEF Cut
    <3> DEFINE x == [id |-> j.id, command |-> j.command, hosts |-> j.hosts \cap L]
    <3>1. x \in Cut(S, L)
      BY DEF Cut
    <3>2. x.id = j.id /\ x.command = j.command /\ x.hosts \cap K = j.hosts \cap K
      BY <1>1
    <3> HIDE DEF x
    <3>3. [id |-> x.id, command |-> x.command, hosts |-> x.hosts \cap K] \in Cut(Cut(S, L), K)
      BY <3>1 DEF Cut
    <3> QED BY <3>2, <3>3
  <2> QED BY <2>1, <2>2
<1> DEFINE I == {j \in Jobs!Id : r[j] # None}
           R == {[id |-> j, command |-> r[j].command, hosts |-> r[j].hosts] : j \in I}
<1>3. ASSUME NEW M PROVE RowsOf(r, M) = Cut(R, M)
  <2>1. \A x : x \in RowsOf(r, M) <=> \E j \in I : x = [id |-> j, command |-> r[j].command, hosts |-> r[j].hosts \cap M]
    BY DEF RowsOf
  <2>2. ASSUME NEW j \in I
        PROVE  [id |-> j, command |-> r[j].command, hosts |-> r[j].hosts \cap M] \in Cut(R, M)
    <3> DEFINE x == [id |-> j, command |-> r[j].command, hosts |-> r[j].hosts]
    <3>1. x \in R /\ x.id = j /\ x.command = r[j].command /\ x.hosts = r[j].hosts
      OBVIOUS
    <3> HIDE DEF x, R
    <3> QED BY <3>1 DEF Cut
  <2>3. ASSUME NEW x \in R PROVE [id |-> x.id, command |-> x.command, hosts |-> x.hosts \cap M] \in RowsOf(r, M)
    <3>1. PICK j \in I : x = [id |-> j, command |-> r[j].command, hosts |-> r[j].hosts]
      OBVIOUS
    <3>2. x.id = j /\ x.command = r[j].command /\ x.hosts = r[j].hosts
      BY <3>1
    <3> QED BY <2>1, <3>2
  <2>4. RowsOf(r, M) \subseteq Cut(R, M)
    BY <2>1, <2>2
  <2> HIDE DEF R
  <2>5. Cut(R, M) \subseteq RowsOf(r, M)
    BY <2>3 DEF Cut
  <2> QED BY <2>4, <2>5
<1> HIDE DEF R
<1> QED BY <1>2, <1>3

\* The hosts the listing leaves out are those the window leaves out.
LEMMA ListingSays ==
  ASSUME NEW r, NEW L PROVE Cut(RowsOf(r, L), L) = RowsOf(r, L)
<1> DEFINE f(x) == [id |-> x.id, command |-> x.command, hosts |-> x.hosts \cap L]
<1>1. ASSUME NEW x \in RowsOf(r, L) PROVE f(x) = x
  <2>1. PICK j : x = [id |-> j, command |-> r[j].command, hosts |-> r[j].hosts \cap L]
    BY DEF RowsOf
  <2>2. x.id = j /\ x.command = r[j].command /\ x.hosts = r[j].hosts \cap L /\ x.hosts \cap L = x.hosts
    BY <2>1
  <2> QED BY <2>1, <2>2
<1>2. \A y : y \in Cut(RowsOf(r, L), L) <=> \E x \in RowsOf(r, L) : y = f(x)
  BY DEF Cut
<1> HIDE DEF f
<1> QED BY <1>1, <1>2

\* Main answers without a change of the rows; it lists them; it changes one.
LEMMA ListingKept ==
  ASSUME NEW c \in Seq(JobCall), c # <<>>, Head(c).op \notin ListOp, NEW a \in Seq(JobAnswer), NEW m \in JobAnswer, m.op \notin ListOp,
         NEW l, NEW r, NEW L, JobsListed(c, a, l, r, L)
  PROVE  JobsListed(Tail(c), Append(a, m), l, r, L)
<1>1. ListingAsked(c) => ListingAsked(Tail(c))
  BY TailIs DEF ListingAsked
<1>2. ChangeDone(a) => ChangeDone(Append(a, m))
  BY AppendIs DEF ChangeDone
<1>3. m \notin Listings
  BY DEF Listings
<1>4. ASSUME LastSays(a, Listings, SaysJobs(r, L), Cut(l, L) = RowsOf(r, L))
      PROVE  LastSays(Append(a, m), Listings, SaysJobs(r, L), Cut(l, L) = RowsOf(r, L))
  BY <1>3, <1>4, LastTold
<1> QED BY <1>1, <1>2, <1>4 DEF JobsListed

LEMMA ListingSent ==
  ASSUME NEW c, NEW a \in Seq(JobAnswer), NEW m \in JobAnswer, NEW r, NEW L, m.list = RowsOf(r, L), NEW l, m.op \in ListOp
  PROVE  JobsListed(c, Append(a, m), l, r, L)
<1>1. m \in Listings /\ m \in SaysJobs(r, L)
  BY ListingSays DEF Listings, SaysJobs
<1>2. LastSays(Append(a, m), Listings, SaysJobs(r, L), Cut(l, L) = RowsOf(r, L))
  BY <1>1, LastTold
<1> QED BY <1>2 DEF JobsListed

LEMMA ChangeSent ==
  ASSUME NEW c, NEW a \in Seq(JobAnswer), NEW m \in Changes, NEW r, NEW L, NEW l
  PROVE  JobsListed(c, Append(a, m), l, r, L)
<1>1. m \in JobAnswer
  BY DEF Changes
<1>2. ChangeDone(Append(a, m))
  BY <1>1, AppendIs DEF ChangeDone
<1> QED BY <1>2 DEF JobsListed

LEMMA JobListsKept ==
  ASSUME JobLists, UNCHANGED <<answers, jobs, rows, runs, current>>, jobHosts' \subseteq jobHosts,
         ListingAsked(jobCalls) => ListingAsked(jobCalls)'
  PROVE  JobLists'
<1>1. RunShown(answers, runs, current)'
  BY DEF JobLists, RunShown, LastSays
<1>2. ASSUME LastSays(answers, Listings, SaysJobs(rows, jobHosts), Cut(jobs, jobHosts) = RowsOf(rows, jobHosts))
      PROVE  LastSays(answers, Listings, SaysJobs(rows, jobHosts'), Cut(jobs, jobHosts') = RowsOf(rows, jobHosts'))
  <2> DEFINE S == Listings
             W == SaysJobs(rows, jobHosts)
             V == SaysJobs(rows, jobHosts')
             x == Cut(jobs, jobHosts) = RowsOf(rows, jobHosts)
             y == Cut(jobs, jobHosts') = RowsOf(rows, jobHosts')
  <2>1. x => y
    BY CutAgain
  <2>2. \A m : m \in W => m \in V
    BY CutAgain DEF SaysJobs
  <2>3. LastSays(answers, S, W, x)
    BY <1>2
  <2> HIDE DEF S, W, V, x, y
  <2>4. LastSays(answers, S, V, y)
    BY <2>1, <2>2, <2>3, LastStays
  <2> QED BY <2>4 DEF S, V, y
<1>3. ListingAsked(jobCalls') \/ ChangeDone(answers)
      \/ LastSays(answers, Listings, SaysJobs(rows, jobHosts'), Cut(jobs, jobHosts') = RowsOf(rows, jobHosts'))
  <2>1. ListingAsked(jobCalls)' => ListingAsked(jobCalls')
    BY DEF ListingAsked
  <2> QED BY <1>2, <2>1 DEF JobLists, JobsListed
<1>4. JobsListed(jobCalls', answers', jobs', rows', jobHosts')
  BY <1>3 DEF JobsListed
<1>5. JobsListed(jobCalls, answers, jobs, rows, jobHosts)'
  BY <1>4 DEF JobsListed, ListingAsked, ChangeDone, LastSays, SaysJobs, RowsOf
<1> QED BY <1>1, <1>5 DEF JobLists

\* Main answers a call.
LEMMA JobListsHear == ASSUME JobsInv, JobsInv', JobLists, Jobs!MainHears PROVE JobLists'
<1> DEFINE m == Head(jobCalls)
           L == jobHosts
<1>1. jobCalls # <<>> /\ jobCalls' = Tail(jobCalls) /\ UNCHANGED <<jobHosts, jobs, current>>
  BY DEF Jobs!MainHears, Jobs!world
<1>2. /\ jobCalls \in Seq(JobCall) /\ answers \in Seq(JobAnswer) /\ answers' \in Seq(JobAnswer)
      /\ rows \in [Jobs!Id -> Jobs!JobRow \cup {None}] /\ rows' \in [Jobs!Id -> Jobs!JobRow \cup {None}] /\ runs \in Nat
  BY DEF JobsInv, JobTravel, JobRows, JobForm
<1>3. JobsListed(jobCalls, answers, jobs, rows, L) /\ RunShown(answers, runs, current)
  BY DEF JobLists
<1> HIDE DEF m
<1>4. ASSUME NEW a, answers' = Append(answers, a), JobsListed(Tail(jobCalls), Append(answers, a), jobs, rows', L),
             RunShown(Append(answers, a), runs', current)
      PROVE  JobLists'
  <2>1. JobsListed(jobCalls', answers', jobs', rows', jobHosts') /\ RunShown(answers', runs', current')
    BY <1>1, <1>4
  <2>2. JobsListed(jobCalls, answers, jobs, rows, jobHosts)'
    BY <2>1 DEF JobsListed, ListingAsked, ChangeDone, LastSays, SaysJobs, RowsOf
  <2>3. RunShown(answers, runs, current)'
    BY <2>1 DEF RunShown, LastSays
  <2> QED BY <2>2, <2>3 DEF JobLists
<1>5. ASSUME NEW a, answers' = Append(answers, a) PROVE a \in JobAnswer
  BY <1>2, <1>5, LastIsIn
<1>6. ASSUME NEW a \in JobAnswer, a.op \notin {"run", "runJob"} PROVE RunShown(Append(answers, a), runs, current)
  <2>1. a \notin Started
    BY <1>6 DEF Started
  <2> QED BY <1>2, <1>3, <2>1, LastTold DEF RunShown
<1>7. CASE m.op \in ListOp
  <2> DEFINE l == {[id |-> j, command |-> rows[j].command, hosts |-> rows[j].hosts \cap jobHosts] :
                     j \in {j \in Jobs!Id : rows[j] # None}}
             a == [op |-> m.op, id |-> m.id, ok |-> TRUE, list |-> l, run |-> 0]
  <2>1. answers' = Append(answers, a) /\ UNCHANGED <<rows, runs>>
    BY <1>7 DEF Jobs!MainHears, Jobs!listAutomationJobs, Jobs!Answer, Jobs!vault, ListOp, m
  <2>2. a.op = m.op /\ a.list = RowsOf(rows, L)
    BY DEF RowsOf
  <2> HIDE DEF a
  <2>3. a \in JobAnswer
    BY <1>5, <2>1
  <2>4. JobsListed(Tail(jobCalls), Append(answers, a), jobs, rows, L)
    BY <1>2, <1>7, <2>2, <2>3, ListingSent
  <2>5. RunShown(Append(answers, a), runs, current)
    BY <1>6, <1>7, <2>2, <2>3 DEF ListOp
  <2> QED BY <1>4, <2>1, <2>4, <2>5
<1>8. CASE m.op \in {"run", "runJob"}
  <2> DEFINE a == [op |-> m.op, id |-> m.id, ok |-> TRUE, list |-> {}, run |-> runs + 1]
  <2>1. answers' = Append(answers, a) /\ runs' = runs + 1 /\ rows' = rows
    BY <1>8 DEF Jobs!MainHears, Jobs!automationRun, Jobs!Answer, m
  <2>2. a.op = m.op /\ a.run = runs'
    BY <2>1
  <2> HIDE DEF a
  <2>3. a \in JobAnswer
    BY <1>5, <2>1
  <2>4. Head(jobCalls).op \notin ListOp /\ a.op \notin ListOp
    BY <1>8, <2>2 DEF ListOp, m
  <2>5. JobsListed(Tail(jobCalls), Append(answers, a), jobs, rows, L)
    BY <1>1, <1>2, <1>3, <2>3, <2>4, ListingKept
  <2>6. a \in Started /\ a \in RunIs(runs')
    BY <1>8, <2>2, <2>3 DEF Started, RunIs
  <2>7. \A n : n = runs' => RunShown(Append(answers, a), n, current)
    BY <1>2, <2>3, <2>6, LastTold DEF RunShown
  <2> QED BY <1>4, <2>1, <2>5, <2>7
<1>9. CASE m.op \in {"create", "delete"}
  <2> DEFINE a == [op |-> m.op, id |-> m.id, ok |-> TRUE, list |-> {}, run |-> 0]
  <2>1. answers' = Append(answers, a) /\ runs' = runs
    BY <1>9 DEF Jobs!MainHears, Jobs!createAutomationJob, Jobs!deleteAutomationJob, Jobs!Done, Jobs!Answer, m
  <2>2. a.op = m.op
    OBVIOUS
  <2> HIDE DEF a
  <2>3. a \in JobAnswer
    BY <1>5, <2>1
  <2>4. a \in Changes
    BY <1>9, <2>2, <2>3 DEF Changes
  <2>5. \A s : JobsListed(Tail(jobCalls), Append(answers, a), jobs, s, L)
    BY <1>2, <2>4, ChangeSent
  <2>6. RunShown(Append(answers, a), runs, current)
    BY <1>6, <1>9, <2>2, <2>3
  <2> QED BY <1>4, <2>1, <2>5, <2>6
<1>10. CASE m.op = "update"
  <2> DEFINE a == [op |-> m.op, id |-> m.id, ok |-> rows[m.id] # None, list |-> {}, run |-> 0]
  <2>1. answers' = Append(answers, a) /\ runs' = runs
        /\ rows' = [rows EXCEPT ![m.id] = IF @ = None THEN None ELSE Jobs!Job(m.command, m.hosts)]
    BY <1>10 DEF Jobs!MainHears, Jobs!updateAutomationJob, Jobs!Answer, m
  <2>2. a.op = m.op /\ (a.ok <=> rows[m.id] # None)
    OBVIOUS
  <2> HIDE DEF a
  <2>3. a \in JobAnswer
    BY <1>5, <2>1
  <2>4. RunShown(Append(answers, a), runs, current)
    BY <1>6, <1>10, <2>2, <2>3
  <2>5. CASE a.ok
    <3>1. a \in Changes
      BY <1>10, <2>2, <2>3, <2>5 DEF Changes
    <3>2. \A s : JobsListed(Tail(jobCalls), Append(answers, a), jobs, s, L)
      BY <1>2, <3>1, ChangeSent
    <3> QED BY <1>4, <2>1, <2>4, <3>2
  <2>6. CASE ~a.ok
    <3>1. rows[m.id] = None
      BY <2>2, <2>6
    <3>2. \A j \in Jobs!Id : rows'[j] = rows[j]
      BY <1>2, <2>1, <3>1
    <3>3. rows' = rows
      BY <1>2, <3>2
    <3>4. Head(jobCalls).op \notin ListOp /\ a.op \notin ListOp
      BY <1>10, <2>2 DEF ListOp, m
    <3>5. JobsListed(Tail(jobCalls), Append(answers, a), jobs, rows, L)
      BY <1>1, <1>2, <1>3, <2>3, <3>4, ListingKept
    <3> QED BY <1>4, <2>1, <2>4, <3>3, <3>5
  <2> QED BY <2>5, <2>6
<1> QED BY <1>7, <1>8, <1>9, <1>10 DEF Jobs!MainHears, ListOp, m

\* The tab hears an answer: it asks for the list, takes it or leaves it.
LEMMA JobListsAnswered == ASSUME JobsInv, JobLists, Jobs!Answered PROVE JobLists'
<1> DEFINE m == Head(answers)
           n == [op |-> "list", id |-> 0, command |-> None, hosts |-> {}]
           f == [op |-> "listForForm", id |-> 0, command |-> None, hosts |-> {}]
           L == jobHosts
<1>1. answers # <<>> /\ answers' = Tail(answers) /\ UNCHANGED <<jobHosts, rows, runs>>
  BY DEF Jobs!Answered, Jobs!world, Jobs!vault
<1>2. jobCalls \in Seq(JobCall) /\ answers \in Seq(JobAnswer) /\ m \in JobAnswer /\ m = answers[1]
      /\ \A i \in DOMAIN answers : i \in Nat /\ (i # 1 => i > 1 /\ i - 1 \in DOMAIN Tail(answers) /\ Tail(answers)[i - 1] = answers[i])
  BY <1>1, TailIs DEF JobsInv, JobTravel
<1>3. JobsListed(jobCalls, answers, jobs, rows, L) /\ RunShown(answers, runs, current)
  BY DEF JobLists
<1>4. /\ n \in JobCall /\ n.op = "list" /\ f \in JobCall /\ f.op = "listForForm"
  BY BoundsAssumption DEF BoundsAssumption, JobCall, JobOp
<1>5. /\ \/ jobCalls' = Append(jobCalls, f) /\ jobs' = jobs
         \/ jobCalls' = Append(jobCalls, n) /\ jobs' = jobs
         \/ jobCalls' = jobCalls /\ m \notin Changes /\ m.op \notin ListOp /\ jobs' = jobs
         \/ jobCalls' = jobCalls /\ m \notin Changes /\ m.op \in ListOp /\ jobs' = m.list
      /\ \/ m.op \in {"run", "runJob"} /\ current' = m.run
         \/ m.op \notin {"run", "runJob"} /\ current' = current
  BY DEF Jobs!Answered, Jobs!loadJobs, Jobs!Call, ListOp, Changes
<1> HIDE DEF m, n, f
<1>6. JobsListed(jobCalls', Tail(answers), jobs', rows, L)
  <2>1. ASSUME NEW x \in {f, n}, jobCalls' = Append(jobCalls, x) PROVE ListingAsked(jobCalls')
    <3>1. x \in JobCall /\ x.op \in ListOp
      BY <1>4 DEF ListOp
    <3>2. Len(jobCalls) + 1 \in DOMAIN Append(jobCalls, x) /\ Append(jobCalls, x)[Len(jobCalls) + 1] = x
      BY <1>2, <3>1, AppendIs
    <3> QED BY <2>1, <3>1, <3>2 DEF ListingAsked
  <2>2. CASE jobCalls' = Append(jobCalls, f) \/ jobCalls' = Append(jobCalls, n)
    BY <2>1, <2>2 DEF JobsListed
  <2>3. CASE jobCalls' = jobCalls /\ m \notin Changes
             /\ ((m.op \notin ListOp /\ jobs' = jobs) \/ (m.op \in ListOp /\ jobs' = m.list))
    <3>1. ChangeDone(answers) => ChangeDone(Tail(answers))
      BY <1>2, <2>3 DEF ChangeDone
    <3> DEFINE x == Cut(jobs, L) = RowsOf(rows, L)
               y == Cut(jobs', L) = RowsOf(rows, L)
               W == SaysJobs(rows, L)
    <3>2. Head(answers) \in Listings /\ Head(answers) \in W => y
      BY <2>3 DEF Listings, SaysJobs, m
    <3>3. Head(answers) \notin Listings /\ x => y
      BY <1>2, <2>3 DEF Listings, m
    <3> HIDE DEF x, y, W
    <3>4. LastSays(answers, Listings, W, x) => LastSays(Tail(answers), Listings, W, y)
      BY <1>1, <1>2, <3>2, <3>3, LastHeard
    <3> QED BY <1>3, <2>3, <3>1, <3>4 DEF JobsListed, x, y, W
  <2> QED BY <1>5, <2>2, <2>3
<1>7. RunShown(Tail(answers), runs, current')
  <2> DEFINE x == current = runs
             y == current' = runs
             W == RunIs(runs)
  <2>1. Head(answers) \in Started /\ Head(answers) \in W => y
    BY <1>5 DEF Started, RunIs, m
  <2>2. Head(answers) \notin Started /\ x => y
    BY <1>2, <1>5 DEF Started, m
  <2>3. LastSays(answers, Started, W, x)
    BY <1>3 DEF RunShown, RunIs
  <2> HIDE DEF x, y, W
  <2>4. LastSays(Tail(answers), Started, W, y)
    BY <1>1, <1>2, <2>1, <2>2, <2>3, LastHeard
  <2> QED BY <2>4 DEF RunShown, y, W
<1>8. JobsListed(jobCalls', answers', jobs', rows', jobHosts') /\ RunShown(answers', runs', current')
  BY <1>1, <1>6, <1>7
<1>9. JobsListed(jobCalls, answers, jobs, rows, jobHosts)' /\ RunShown(answers, runs, current)'
  BY <1>8 DEF JobsListed, ListingAsked, ChangeDone, LastSays, SaysJobs, RowsOf, RunShown
<1> QED BY <1>9 DEF JobLists

LEMMA NextJobLists == ASSUME JobsInv, JobsInv', JobLists, Jobs!Next \/ UNCHANGED jobTab PROVE JobLists'
<1>1. CASE Jobs!FormStep \/ Jobs!HostChanges \/ UNCHANGED jobTab
  <2>1. UNCHANGED <<answers, jobs, rows, runs, current, jobCalls>> /\ jobHosts' \subseteq jobHosts
    BY <1>1 DEF Jobs!FormStep, Jobs!HostChanges, jobTab, Jobs!world, Jobs!vault
  <2>2. ListingAsked(jobCalls) => ListingAsked(jobCalls)'
    BY <2>1 DEF ListingAsked
  <2> QED BY <2>1, <2>2, JobListsKept
<1>2. CASE Jobs!ButtonStep
  <2>1. UNCHANGED <<answers, jobs, rows, runs, current, jobHosts>>
    BY <1>2 DEF Jobs!ButtonStep, Jobs!world, Jobs!vault
  <2>2. PICK m : jobCalls' = Append(jobCalls, m)
    BY <1>2 DEF Jobs!ButtonStep, Jobs!handleRun, Jobs!handleSave, Jobs!RunJob, Jobs!deleteJob, Jobs!Ask
  <2>3. jobCalls \in Seq(JobCall) /\ jobCalls' \in Seq(JobCall)
    BY DEF JobsInv, JobTravel
  <2>4. m \in JobCall
    BY <2>2, <2>3, LastIsIn
  <2>5. ListingAsked(jobCalls) => ListingAsked(jobCalls)'
    <3>1. \A i \in DOMAIN jobCalls : i \in DOMAIN jobCalls' /\ jobCalls'[i] = jobCalls[i]
      BY <2>2, <2>3, <2>4, AppendIs
    <3> QED BY <3>1 DEF ListingAsked
  <2> QED BY <2>1, <2>5, JobListsKept
<1> QED BY <1>1, <1>2, JobListsHear, JobListsAnswered DEF Jobs!Next

-----------------------------------------------------------------------------
(* Prompts and routines *)

Body == Nat \cup {None}
BookCall ==
       [op : {"prompts", "routines"}]
  \cup [op : {"savePrompt"}, new : BOOLEAN, id : Prompt, is : Nat]
  \cup [op : {"saveRoutine"}, new : BOOLEAN, id : Routine, is : Prompt]
  \cup [op : {"removePrompt"}, id : Prompt]
  \cup [op : {"removeRoutine"}, id : Routine]
  \cup [op : {"due"}, promptId : Prompt, due : Nat]
BookAnswer ==
       [op : {"prompts"}, is : [Prompt -> Body]]
  \cup [op : {"routines"}, is : [Routine -> Prompt \cup {None}]]
  \cup [op : {"savedPrompt"}, id : Prompt, is : Nat]
  \cup [op : {"savedRoutine"}, id : Routine, is : Prompt]
  \cup [op : {"removedPrompt"}, id : Prompt]
  \cup [op : {"removedRoutine"}, id : Routine]
  \cup [op : {"failed"}, form : {"prompt", "routine", "none"}]
  \cup [op : {"trigger"}, promptId : Prompt]
  \cup [op : {"due"}, is : [Prompt -> Body], promptId : Prompt, due : Nat]

BookForms ==
  /\ promptForm \in [open : BOOLEAN, of : Prompt \cup {None}, busy : BOOLEAN]
  /\ routineForm \in [open : BOOLEAN, of : Routine \cup {None}, busy : BOOLEAN, promptId : Prompt \cup {None}]
BookRows ==
  /\ savedPrompts \in [Prompt -> Body] /\ savedRoutines \in [Routine -> Prompt \cup {None}]
  /\ prompts \in [Prompt -> Body] /\ routines \in [Routine -> Prompt \cup {None}] /\ bodies \in Nat
BookTravel == bookCalls \in Seq(BookCall) /\ bookAnswers \in Seq(BookAnswer)

\* Of the calls c and the answers a, one is about the save s of a form: it is asked, done (d) or refused.
Refuses(m, f) == m.op = "failed" /\ m.form = f
FormWaits(c, a, s, d, f) ==
  \/ \E i \in DOMAIN c : c[i].op = s
  \/ \E i \in DOMAIN a : a[i].op = d \/ Refuses(a[i], f)
BookBusy ==
  /\ promptForm.busy => FormWaits(bookCalls, bookAnswers, "savePrompt", "savedPrompt", "prompt")
  /\ routineForm.busy => FormWaits(bookCalls, bookAnswers, "saveRoutine", "savedRoutine", "routine")

\* The bodies are written in the order of their numbers: no row is newer than a save that is on its
\* way, and none than the last of them.
BodiesInOrder(c, r, n) ==
  /\ \A q \in Prompt : r[q] # None => r[q] <= n
  /\ \A i \in DOMAIN c : c[i].op = "savePrompt" =>
       /\ c[i].is <= n
       /\ \A q \in Prompt : r[q] # None => r[q] <= c[i].is
       /\ \A k \in DOMAIN c : k > i /\ c[k].op = "savePrompt" => c[i].is <= c[k].is
\* What a routine is due with is no newer than its prompt, nor than one that may be made of it.
DueAsked(c, r, n) ==
  \A i \in DOMAIN c : c[i].op = "due" =>
    /\ c[i].due <= n
    /\ r[c[i].promptId] # None => c[i].due <= r[c[i].promptId]
    /\ \A k \in DOMAIN c : c[k].op = "savePrompt" => c[i].due <= c[k].is
DueTold(a) ==
  \A i \in DOMAIN a : a[i].op = "due" /\ a[i].is[a[i].promptId] # None => a[i].due <= a[i].is[a[i].promptId]
BookDue ==
  /\ BodiesInOrder(bookCalls, savedPrompts, bodies) /\ DueAsked(bookCalls, savedPrompts, bodies)
  /\ DueTold(bookAnswers) /\ Book!DueRunsTheSavedPrompt

BookInv == BookForms /\ BookRows /\ BookTravel /\ BookBusy /\ BookDue

LEMMA BookCallIs ==
  ASSUME NEW m \in BookCall
  PROVE  /\ m.op \in {"prompts", "routines", "savePrompt", "saveRoutine", "removePrompt", "removeRoutine", "due"}
         /\ m.op = "savePrompt" => m.id \in Prompt /\ m.is \in Nat
         /\ m.op = "saveRoutine" => m.id \in Routine /\ m.is \in Prompt
         /\ m.op = "removePrompt" => m.id \in Prompt
         /\ m.op = "removeRoutine" => m.id \in Routine
         /\ m.op = "due" => m.promptId \in Prompt /\ m.due \in Nat
BY DEF BookCall

LEMMA BookAnswerIs ==
  ASSUME NEW m \in BookAnswer
  PROVE  /\ m.op = "prompts" => m.is \in [Prompt -> Body]
         /\ m.op = "routines" => m.is \in [Routine -> Prompt \cup {None}]
         /\ m.op = "savedPrompt" => m.id \in Prompt /\ m.is \in Nat
         /\ m.op = "savedRoutine" => m.id \in Routine /\ m.is \in Prompt
         /\ m.op = "removedPrompt" => m.id \in Prompt
         /\ m.op = "removedRoutine" => m.id \in Routine
         /\ m.op = "failed" => m.form \in {"prompt", "routine", "none"}
         /\ m.op = "trigger" => m.promptId \in Prompt
         /\ m.op = "due" => m.is \in [Prompt -> Body] /\ m.promptId \in Prompt /\ m.due \in Nat
BY DEF BookAnswer

LEMMA BookShows == BookInv => Book!BusyFormIsAnswered /\ Book!DueRunsTheSavedPrompt
<1> SUFFICES ASSUME BookInv PROVE Book!BusyFormIsAnswered
  BY DEF BookInv, BookDue
<1>1. \A op : (\E i \in DOMAIN bookCalls : bookCalls[i].op = op) \/ (\E i \in DOMAIN bookAnswers : bookAnswers[i].op = op)
              => Book!Pending(op)
  BY DEF Book!Pending, Book!Range
<1>2. ASSUME NEW s, NEW d, NEW f, FormWaits(bookCalls, bookAnswers, s, d, f)
      PROVE  Book!Pending(s) \/ Book!Pending(d) \/ Book!Pending("failed")
  BY <1>1, <1>2 DEF FormWaits, Refuses
<1> QED BY <1>2 DEF Book!BusyFormIsAnswered, BookInv, BookBusy

LEMMA InitBook == Book!BookInit => BookInv
<1> SUFFICES ASSUME Book!BookInit PROVE BookInv
  OBVIOUS
<1>1. /\ bookCalls = <<>> /\ bookAnswers = <<>> /\ bodies = 1 /\ savedPrompts \in [Prompt -> {1, None}]
      /\ promptForm = Book!Closed /\ routineForm = Book!ClosedRoutine /\ ranRoutine.by = "nobody"
      /\ savedRoutines \in [Routine -> Prompt \cup {None}]
      /\ prompts = [q \in Prompt |-> None] /\ routines = [r \in Routine |-> None]
  BY DEF Book!BookInit
<1>2. Book!Closed \in [open : BOOLEAN, of : Prompt \cup {None}, busy : BOOLEAN] /\ ~Book!Closed.busy
  BY DEF Book!Closed
<1>3. Book!ClosedRoutine \in [open : BOOLEAN, of : Routine \cup {None}, busy : BOOLEAN, promptId : Prompt \cup {None}]
      /\ ~Book!ClosedRoutine.busy
  BY DEF Book!ClosedRoutine
<1>4. BookForms /\ BookBusy
  BY <1>1, <1>2, <1>3 DEF BookForms, BookBusy
<1>5. BookRows /\ BookTravel
  BY <1>1 DEF BookRows, BookTravel, Body
<1>6. DOMAIN bookCalls = {} /\ DOMAIN bookAnswers = {}
  BY <1>1
<1>7. BookDue
  <2>1. \A q \in Prompt : savedPrompts[q] # None => savedPrompts[q] <= bodies
    BY <1>1
  <2>2. Book!DueRunsTheSavedPrompt
    BY <1>1 DEF Book!DueRunsTheSavedPrompt
  <2> QED BY <1>6, <2>1, <2>2 DEF BookDue, BodiesInOrder, DueAsked, DueTold
<1> QED BY <1>4, <1>5, <1>7 DEF BookInv

\* What happens to the two lines.
LEMMA FormAsked ==
  ASSUME NEW T, NEW c \in Seq(T), NEW m \in T, NEW a, NEW s, NEW d, NEW f, FormWaits(c, a, s, d, f) \/ m.op = s
  PROVE  FormWaits(Append(c, m), a, s, d, f)
<1> DEFINE p == Append(c, m)
<1>1. Len(c) + 1 \in DOMAIN p /\ p[Len(c) + 1] = m /\ \A i \in DOMAIN c : i \in DOMAIN p /\ p[i] = c[i]
  BY AppendIs
<1> HIDE DEF p
<1>2. FormWaits(p, a, s, d, f)
  BY <1>1 DEF FormWaits
<1> QED BY <1>2 DEF p

LEMMA FormTold ==
  ASSUME NEW T, NEW a \in Seq(T), NEW m \in T, NEW c, NEW s, NEW d, NEW f,
         FormWaits(c, a, s, d, f) \/ m.op = d \/ Refuses(m, f)
  PROVE  FormWaits(c, Append(a, m), s, d, f)
<1> DEFINE p == Append(a, m)
<1>1. Len(a) + 1 \in DOMAIN p /\ p[Len(a) + 1] = m /\ \A i \in DOMAIN a : i \in DOMAIN p /\ p[i] = a[i]
  BY AppendIs
<1> HIDE DEF p
<1>2. FormWaits(c, p, s, d, f)
  BY <1>1 DEF FormWaits
<1> QED BY <1>2 DEF p

LEMMA FormServed ==
  ASSUME NEW T, NEW c \in Seq(T), c # <<>>, NEW a, NEW s, NEW d, NEW f, FormWaits(c, a, s, d, f), Head(c).op # s
  PROVE  FormWaits(Tail(c), a, s, d, f)
<1> DEFINE p == Tail(c)
<1>1. /\ Head(c) = c[1]
      /\ \A i \in DOMAIN c : i # 1 => i - 1 \in DOMAIN p /\ p[i - 1] = c[i]
  BY TailIs
<1> HIDE DEF p
<1>2. FormWaits(p, a, s, d, f)
  BY <1>1 DEF FormWaits
<1> QED BY <1>2 DEF p

LEMMA FormHeard ==
  ASSUME NEW T, NEW a \in Seq(T), a # <<>>, NEW c, NEW s, NEW d, NEW f, FormWaits(c, a, s, d, f),
         Head(a).op # d, ~Refuses(Head(a), f)
  PROVE  FormWaits(c, Tail(a), s, d, f)
<1> DEFINE p == Tail(a)
<1>1. /\ Head(a) = a[1]
      /\ \A i \in DOMAIN a : i # 1 => i - 1 \in DOMAIN p /\ p[i - 1] = a[i]
  BY TailIs
<1> HIDE DEF p
<1>2. FormWaits(c, p, s, d, f)
  BY <1>1 DEF FormWaits
<1> QED BY <1>2 DEF p

LEMMA BodiesServed ==
  ASSUME NEW T, NEW c \in Seq(T), c # <<>>, NEW r, NEW n
  PROVE  /\ BodiesInOrder(c, r, n) => BodiesInOrder(Tail(c), r, n)
         /\ DueAsked(c, r, n) => DueAsked(Tail(c), r, n)
<1> DEFINE p == Tail(c)
<1>1. \A i \in DOMAIN p : i \in Nat /\ i + 1 \in DOMAIN c /\ p[i] = c[i + 1]
  BY TailIs
<1> HIDE DEF p
<1>2. ASSUME BodiesInOrder(c, r, n) PROVE BodiesInOrder(p, r, n)
  <2>1. ASSUME NEW i \in DOMAIN p, p[i].op = "savePrompt", NEW k \in DOMAIN p, k > i, p[k].op = "savePrompt"
        PROVE  p[i].is <= p[k].is
    <3>1. i + 1 \in DOMAIN c /\ p[i] = c[i + 1] /\ k + 1 \in DOMAIN c /\ p[k] = c[k + 1] /\ k + 1 > i + 1
      BY <1>1, <2>1
    <3>2. c[i + 1].is <= c[k + 1].is
      BY <1>2, <2>1, <3>1 DEF BodiesInOrder
    <3> QED BY <3>1, <3>2
  <2>2. ASSUME NEW i \in DOMAIN p, p[i].op = "savePrompt"
        PROVE  p[i].is <= n /\ \A q \in Prompt : r[q] # None => r[q] <= p[i].is
    <3>1. i + 1 \in DOMAIN c /\ p[i] = c[i + 1]
      BY <1>1
    <3> QED BY <1>2, <2>2, <3>1 DEF BodiesInOrder
  <2> QED BY <1>2, <2>1, <2>2 DEF BodiesInOrder
<1>3. ASSUME DueAsked(c, r, n) PROVE DueAsked(p, r, n)
  <2> SUFFICES ASSUME NEW i \in DOMAIN p, p[i].op = "due"
               PROVE  /\ p[i].due <= n
                      /\ r[p[i].promptId] # None => p[i].due <= r[p[i].promptId]
                      /\ \A k \in DOMAIN p : p[k].op = "savePrompt" => p[i].due <= p[k].is
    BY DEF DueAsked
  <2>1. i + 1 \in DOMAIN c /\ p[i] = c[i + 1]
    BY <1>1
  <2>2. /\ p[i].due <= n
        /\ r[p[i].promptId] # None => p[i].due <= r[p[i].promptId]
        /\ \A k \in DOMAIN c : c[k].op = "savePrompt" => p[i].due <= c[k].is
    BY <1>3, <2>1 DEF DueAsked
  <2> QED BY <1>1, <2>2
<1> QED BY <1>2, <1>3 DEF p

LEMMA BodiesAsked ==
  ASSUME NEW T, NEW c \in Seq(T), NEW m \in T, NEW r, NEW n, m.op \notin {"savePrompt", "due"}
  PROVE  /\ BodiesInOrder(c, r, n) => BodiesInOrder(Append(c, m), r, n)
         /\ DueAsked(c, r, n) => DueAsked(Append(c, m), r, n)
<1> DEFINE p == Append(c, m)
<1>1. DOMAIN p = DOMAIN c \cup {Len(c) + 1} /\ p[Len(c) + 1] = m /\ \A i \in DOMAIN c : p[i] = c[i]
  BY AppendIs
<1> HIDE DEF p
<1>2. \A i \in DOMAIN p : p[i].op \in {"savePrompt", "due"} => i \in DOMAIN c /\ p[i] = c[i]
  BY <1>1
<1>3. BodiesInOrder(c, r, n) => BodiesInOrder(p, r, n)
  BY <1>2 DEF BodiesInOrder
<1>4. DueAsked(c, r, n) => DueAsked(p, r, n)
  BY <1>2 DEF DueAsked
<1> QED BY <1>3, <1>4 DEF p

LEMMA SaveAsked ==
  ASSUME NEW c \in Seq(BookCall), NEW m \in BookCall, NEW r \in [Prompt -> Body], NEW n \in Nat,
         m.op = "savePrompt", m.is = n + 1, BodiesInOrder(c, r, n), DueAsked(c, r, n)
  PROVE  BodiesInOrder(Append(c, m), r, n + 1) /\ DueAsked(Append(c, m), r, n + 1)
<1> DEFINE p == Append(c, m)
           l == Len(c) + 1
<1>1. /\ DOMAIN p = DOMAIN c \cup {l} /\ p[l] = m
      /\ \A i \in DOMAIN c : i \in Nat /\ i < l /\ p[i] = c[i] /\ c[i] \in BookCall
  BY AppendIs
<1>2. l \in Nat
  OBVIOUS
<1> HIDE DEF p, l
<1>3. \A q \in Prompt : r[q] # None => r[q] \in Nat /\ r[q] <= n
  BY DEF BodiesInOrder, Body
<1>4. \A i \in DOMAIN c : (c[i].op = "savePrompt" => c[i].is \in Nat /\ c[i].is <= n) /\ (c[i].op = "due" => c[i].due \in Nat /\ c[i].due <= n)
  BY <1>1, BookCallIs DEF BodiesInOrder, DueAsked
<1>5. \A q \in Prompt : r[q] # None => r[q] <= n + 1
  BY <1>3
<1>6. ASSUME NEW i \in DOMAIN p, p[i].op = "savePrompt"
      PROVE  /\ p[i].is <= n + 1
             /\ \A q \in Prompt : r[q] # None => r[q] <= p[i].is
             /\ \A k \in DOMAIN p : k > i /\ p[k].op = "savePrompt" => p[i].is <= p[k].is
  <2>1. CASE i = l
    <3>1. \A k \in DOMAIN p : ~(k > i)
      BY <1>1, <1>2, <2>1
    <3> QED BY <1>1, <1>5, <2>1, <3>1
  <2>2. CASE i # l
    <3>1. i \in DOMAIN c /\ p[i] = c[i]
      BY <1>1, <2>2
    <3>2. p[i].is <= n + 1 /\ \A q \in Prompt : r[q] # None => r[q] <= p[i].is
      BY <1>4, <1>6, <3>1 DEF BodiesInOrder
    <3>3. ASSUME NEW k \in DOMAIN p, k > i, p[k].op = "savePrompt" PROVE p[i].is <= p[k].is
      <4>1. CASE k = l
        BY <1>1, <3>2, <4>1
      <4>2. CASE k # l
        <5>1. k \in DOMAIN c /\ p[k] = c[k]
          BY <1>1, <4>2
        <5> QED BY <1>6, <3>1, <3>3, <5>1 DEF BodiesInOrder
      <4> QED BY <4>1, <4>2
    <3> QED BY <3>2, <3>3
  <2> QED BY <2>1, <2>2
<1>7. ASSUME NEW i \in DOMAIN p, p[i].op = "due"
      PROVE  /\ p[i].due <= n + 1
             /\ r[p[i].promptId] # None => p[i].due <= r[p[i].promptId]
             /\ \A k \in DOMAIN p : p[k].op = "savePrompt" => p[i].due <= p[k].is
  <2>1. i \in DOMAIN c /\ p[i] = c[i]
    BY <1>1, <1>7
  <2>2. p[i].due \in Nat /\ p[i].due <= n /\ p[i].due <= n + 1
    BY <1>4, <1>7, <2>1
  <2> QED BY <1>1, <1>7, <2>1, <2>2 DEF DueAsked
<1>8. BodiesInOrder(p, r, n + 1) /\ DueAsked(p, r, n + 1)
  BY <1>5, <1>6, <1>7 DEF BodiesInOrder, DueAsked
<1> QED BY <1>8 DEF p

LEMMA SaveServed ==
  ASSUME NEW c \in Seq(BookCall), c # <<>>, NEW m, m = Head(c), m.op = "savePrompt", NEW r \in [Prompt -> Body], NEW n \in Nat,
         BodiesInOrder(c, r, n), DueAsked(c, r, n), NEW s, s = [r EXCEPT ![m.id] = m.is]
  PROVE  BodiesInOrder(Tail(c), s, n) /\ DueAsked(Tail(c), s, n)
<1> DEFINE p == Tail(c)
<1>1. /\ m = c[1] /\ 1 \in DOMAIN c /\ m \in BookCall /\ p \in Seq(BookCall)
      /\ \A i \in DOMAIN p : i \in Nat /\ i + 1 \in DOMAIN c /\ p[i] = c[i + 1] /\ p[i] \in BookCall
  BY TailIs
<1>2. BodiesInOrder(p, r, n) /\ DueAsked(p, r, n)
  BY BodiesServed
<1> HIDE DEF p
<1>3. \A q \in Prompt : s[q] = r[q] \/ s[q] = m.is
  OBVIOUS
<1>4. m.is <= n /\ \A k \in DOMAIN p : p[k].op = "savePrompt" => m.is <= p[k].is
  <2>1. m.is <= n /\ \A k \in DOMAIN c : k > 1 /\ c[k].op = "savePrompt" => m.is <= c[k].is
    BY <1>1 DEF BodiesInOrder
  <2>2. ASSUME NEW k \in DOMAIN p, p[k].op = "savePrompt" PROVE m.is <= p[k].is
    <3>1. k \in Nat /\ k + 1 \in DOMAIN c /\ p[k] = c[k + 1]
      BY <1>1
    <3>2. k + 1 > 1
      <4>1. k \in DOMAIN p /\ DOMAIN p = 1 .. Len(p) /\ Len(p) \in Nat
        BY <1>1
      <4> QED BY <4>1
    <3> QED BY <2>1, <2>2, <3>1, <3>2
  <2> QED BY <2>1, <2>2
<1>5. BodiesInOrder(p, s, n)
  <2>1. \A q \in Prompt : s[q] # None => s[q] <= n
    BY <1>2, <1>3, <1>4 DEF BodiesInOrder
  <2>2. \A i \in DOMAIN p : p[i].op = "savePrompt" => \A q \in Prompt : s[q] # None => s[q] <= p[i].is
    BY <1>2, <1>3, <1>4 DEF BodiesInOrder
  <2> QED BY <1>2, <2>1, <2>2 DEF BodiesInOrder
<1>6. DueAsked(p, s, n)
  <2> SUFFICES ASSUME NEW i \in DOMAIN p, p[i].op = "due"
               PROVE  /\ p[i].due <= n
                      /\ s[p[i].promptId] # None => p[i].due <= s[p[i].promptId]
                      /\ \A k \in DOMAIN p : p[k].op = "savePrompt" => p[i].due <= p[k].is
    BY DEF DueAsked
  <2>1. /\ p[i].due <= n /\ p[i].promptId \in Prompt
        /\ r[p[i].promptId] # None => p[i].due <= r[p[i].promptId]
        /\ \A k \in DOMAIN p : p[k].op = "savePrompt" => p[i].due <= p[k].is
    BY <1>1, <1>2, BookCallIs DEF DueAsked
  <2>2. p[i].due <= m.is
    <3>1. i + 1 \in DOMAIN c /\ p[i] = c[i + 1]
      BY <1>1
    <3> QED BY <1>1, <3>1 DEF DueAsked
  <2> QED BY <1>3, <2>1, <2>2
<1> QED BY <1>5, <1>6 DEF p

LEMMA RowGone ==
  ASSUME NEW c, NEW r, NEW n, NEW e, BodiesInOrder(c, r, n), DueAsked(c, r, n), NEW s, s = [r EXCEPT ![e] = None], DOMAIN r = Prompt,
         \A i \in DOMAIN c : c[i].op = "due" => c[i].promptId \in Prompt
  PROVE  BodiesInOrder(c, s, n) /\ DueAsked(c, s, n)
<1>1. \A q \in Prompt : s[q] # None => s[q] = r[q]
  OBVIOUS
<1>2. BodiesInOrder(c, s, n)
  BY <1>1 DEF BodiesInOrder
<1>3. DueAsked(c, s, n)
  BY <1>1 DEF DueAsked
<1> QED BY <1>2, <1>3

LEMMA DueHeard ==
  ASSUME NEW c \in Seq(BookCall), NEW m \in BookCall, NEW r \in [Prompt -> Body], NEW n \in Nat, m.op = "due",
         m.due = (IF r[m.promptId] = None THEN 0 ELSE r[m.promptId]), BodiesInOrder(c, r, n), DueAsked(c, r, n)
  PROVE  BodiesInOrder(Append(c, m), r, n) /\ DueAsked(Append(c, m), r, n)
<1> DEFINE p == Append(c, m)
           l == Len(c) + 1
<1>1. /\ DOMAIN p = DOMAIN c \cup {l} /\ p[l] = m
      /\ \A i \in DOMAIN c : i \in Nat /\ i < l /\ p[i] = c[i] /\ c[i] \in BookCall
  BY AppendIs
<1> HIDE DEF p, l
<1>2. \A i \in DOMAIN p : p[i].op = "savePrompt" => i \in DOMAIN c /\ p[i] = c[i] /\ p[i].is \in Nat
  BY <1>1, BookCallIs
<1>3. BodiesInOrder(p, r, n)
  BY <1>2 DEF BodiesInOrder
<1>4. m.promptId \in Prompt /\ m.due \in Nat
  BY BookCallIs
<1>5. m.due <= n /\ (r[m.promptId] # None => m.due <= r[m.promptId])
  BY <1>4 DEF BodiesInOrder, Body
<1>6. \A k \in DOMAIN p : p[k].op = "savePrompt" => m.due <= p[k].is
  BY <1>2, <1>4 DEF BodiesInOrder
<1>7. ASSUME NEW i \in DOMAIN p, p[i].op = "due"
      PROVE  /\ p[i].due <= n
             /\ r[p[i].promptId] # None => p[i].due <= r[p[i].promptId]
             /\ \A k \in DOMAIN p : p[k].op = "savePrompt" => p[i].due <= p[k].is
  <2>1. CASE i = l
    BY <1>1, <1>5, <1>6, <2>1
  <2>2. CASE i # l
    <3>1. i \in DOMAIN c /\ p[i] = c[i]
      BY <1>1, <2>2
    <3> QED BY <1>2, <1>7, <3>1 DEF DueAsked
  <2> QED BY <2>1, <2>2
<1>8. DueAsked(p, r, n)
  BY <1>7 DEF DueAsked
<1> QED BY <1>3, <1>8 DEF p

LEMMA DueAnswers ==
  ASSUME NEW a \in Seq(BookAnswer), DueTold(a)
  PROVE  /\ a # <<>> => DueTold(Tail(a))
         /\ \A m \in BookAnswer : (m.op = "due" /\ m.is[m.promptId] # None => m.due <= m.is[m.promptId]) => DueTold(Append(a, m))
<1>1. ASSUME a # <<>> PROVE DueTold(Tail(a))
  <2> DEFINE p == Tail(a)
  <2>1. \A i \in DOMAIN p : i + 1 \in DOMAIN a /\ p[i] = a[i + 1]
    BY <1>1, TailIs
  <2> HIDE DEF p
  <2>2. DueTold(p)
    BY <2>1 DEF DueTold
  <2> QED BY <2>2 DEF p
<1>2. ASSUME NEW m \in BookAnswer, m.op = "due" /\ m.is[m.promptId] # None => m.due <= m.is[m.promptId]
      PROVE  DueTold(Append(a, m))
  <2> DEFINE p == Append(a, m)
  <2>1. DOMAIN p = DOMAIN a \cup {Len(a) + 1} /\ p[Len(a) + 1] = m /\ \A i \in DOMAIN a : p[i] = a[i]
    BY AppendIs
  <2> HIDE DEF p
  <2>2. DueTold(p)
    BY <1>2, <2>1 DEF DueTold
  <2> QED BY <2>2 DEF p
<1> QED BY <1>1, <1>2

\* Main answers a call.
LEMMA BookAnswers ==
  ASSUME BookInv, bookCalls # <<>>, NEW m \in BookAnswer, Book!Answer(m),
         Head(bookCalls).op = "savePrompt" => m.op = "savedPrompt" \/ Refuses(m, "prompt"),
         Head(bookCalls).op = "saveRoutine" => m.op = "savedRoutine" \/ Refuses(m, "routine"),
         m.op = "due" /\ m.is[m.promptId] # None => m.due <= m.is[m.promptId],
         savedPrompts' \in [Prompt -> Body], savedRoutines' \in [Routine -> Prompt \cup {None}],
         BodiesInOrder(Tail(bookCalls), savedPrompts', bodies), DueAsked(Tail(bookCalls), savedPrompts', bodies)
  PROVE  BookInv'
<1>1. /\ bookAnswers' = Append(bookAnswers, m) /\ bookCalls' = Tail(bookCalls)
      /\ UNCHANGED <<prompts, routines, bodies, promptForm, routineForm, ranRoutine>>
  BY DEF Book!Answer, Book!stores, Book!dialogs
<1>2. bookCalls \in Seq(BookCall) /\ bookAnswers \in Seq(BookAnswer)
  BY DEF BookInv, BookTravel
<1>3. BookForms' /\ BookRows'
  BY <1>1 DEF BookInv, BookForms, BookRows
<1>4. BookTravel'
  BY <1>1, <1>2, TailIs, AppendIs DEF BookTravel
<1>5. BookBusy'
  <2>1. ASSUME NEW s, NEW d, NEW f, FormWaits(bookCalls, bookAnswers, s, d, f), Head(bookCalls).op = s => m.op = d \/ Refuses(m, f)
        PROVE  FormWaits(bookCalls', bookAnswers', s, d, f)
    <3>1. CASE Head(bookCalls).op = s
      <4>1. FormWaits(bookCalls', Append(bookAnswers, m), s, d, f)
        BY <1>2, <2>1, <3>1, FormTold
      <4> QED BY <1>1, <4>1
    <3>2. CASE Head(bookCalls).op # s
      <4>1. FormWaits(Tail(bookCalls), bookAnswers, s, d, f)
        BY <1>2, <2>1, <3>2, FormServed
      <4>2. FormWaits(Tail(bookCalls), Append(bookAnswers, m), s, d, f)
        BY <1>2, <4>1, FormTold
      <4> QED BY <1>1, <4>2
    <3> QED BY <3>1, <3>2
  <2>2. promptForm.busy => FormWaits(bookCalls', bookAnswers', "savePrompt", "savedPrompt", "prompt")
    BY <2>1 DEF BookInv, BookBusy
  <2>3. routineForm.busy => FormWaits(bookCalls', bookAnswers', "saveRoutine", "savedRoutine", "routine")
    BY <2>1 DEF BookInv, BookBusy
  <2> QED BY <1>1, <2>2, <2>3 DEF BookBusy
<1>6. BookDue'
  <2>1. DueTold(bookAnswers')
    BY <1>1, <1>2, DueAnswers DEF BookInv, BookDue
  <2>2. Book!DueRunsTheSavedPrompt'
    BY <1>1 DEF BookInv, BookDue, Book!DueRunsTheSavedPrompt
  <2> QED BY <1>1, <2>1, <2>2 DEF BookDue
<1> QED BY <1>3, <1>4, <1>5, <1>6 DEF BookInv

\* The window calls main, or does not.
LEMMA BookAsks ==
  ASSUME BookInv, UNCHANGED <<savedPrompts, savedRoutines, bookAnswers>>,
         bookCalls' = bookCalls \/ \E m \in BookCall : bookCalls' = Append(bookCalls, m) /\ m.op \notin {"savePrompt", "due"},
         bodies' = bodies, prompts' \in [Prompt -> Body], routines' \in [Routine -> Prompt \cup {None}],
         BookForms', promptForm'.busy => promptForm.busy,
         routineForm'.busy => routineForm.busy \/ \E m \in BookCall : bookCalls' = Append(bookCalls, m) /\ m.op = "saveRoutine",
         Book!DueRunsTheSavedPrompt'
  PROVE  BookInv'
<1>1. bookCalls \in Seq(BookCall) /\ bookAnswers \in Seq(BookAnswer)
  BY DEF BookInv, BookTravel
<1>2. BookRows'
  BY DEF BookInv, BookRows
<1>3. BookTravel'
  <2>1. \A m \in BookCall : Append(bookCalls, m) \in Seq(BookCall)
    BY <1>1
  <2> QED BY <1>1, <2>1 DEF BookTravel
<1>4. ASSUME NEW s, NEW d, NEW f, FormWaits(bookCalls, bookAnswers, s, d, f) PROVE FormWaits(bookCalls', bookAnswers, s, d, f)
  <2>1. \A m \in BookCall : FormWaits(Append(bookCalls, m), bookAnswers, s, d, f)
    BY <1>1, <1>4, FormAsked
  <2> QED BY <1>4, <2>1
<1>5. BookBusy'
  <2>1. promptForm'.busy => FormWaits(bookCalls', bookAnswers, "savePrompt", "savedPrompt", "prompt")
    BY <1>4 DEF BookInv, BookBusy
  <2>2. routineForm.busy => FormWaits(bookCalls', bookAnswers, "saveRoutine", "savedRoutine", "routine")
    BY <1>4 DEF BookInv, BookBusy
  <2>3. \A m \in BookCall : m.op = "saveRoutine" => FormWaits(Append(bookCalls, m), bookAnswers, "saveRoutine", "savedRoutine", "routine")
    BY <1>1, FormAsked
  <2>4. routineForm'.busy => FormWaits(bookCalls', bookAnswers, "saveRoutine", "savedRoutine", "routine")
    BY <2>2, <2>3
  <2> QED BY <2>1, <2>4 DEF BookBusy
<1>6. BodiesInOrder(bookCalls', savedPrompts, bodies) /\ DueAsked(bookCalls', savedPrompts, bodies)
  <2>1. BodiesInOrder(bookCalls, savedPrompts, bodies) /\ DueAsked(bookCalls, savedPrompts, bodies)
    BY DEF BookInv, BookDue
  <2>2. \A m \in BookCall : m.op \notin {"savePrompt", "due"} =>
          BodiesInOrder(Append(bookCalls, m), savedPrompts, bodies) /\ DueAsked(Append(bookCalls, m), savedPrompts, bodies)
    BY <1>1, <2>1, BodiesAsked
  <2> QED BY <2>1, <2>2
<1>7. BookDue'
  BY <1>6 DEF BookInv, BookDue
<1> QED BY <1>2, <1>3, <1>5, <1>7 DEF BookInv

\* An answer arrives.
LEMMA BookHears ==
  ASSUME BookInv, bookAnswers # <<>>, bookAnswers' = Tail(bookAnswers),
         UNCHANGED <<savedPrompts, savedRoutines, bookCalls, bodies>>,
         prompts' \in [Prompt -> Body], routines' \in [Routine -> Prompt \cup {None}], BookForms',
         promptForm'.busy => promptForm.busy /\ Head(bookAnswers).op # "savedPrompt" /\ ~Refuses(Head(bookAnswers), "prompt"),
         routineForm'.busy => routineForm.busy /\ Head(bookAnswers).op # "savedRoutine" /\ ~Refuses(Head(bookAnswers), "routine"),
         Book!DueRunsTheSavedPrompt'
  PROVE  BookInv'
<1>1. bookCalls \in Seq(BookCall) /\ bookAnswers \in Seq(BookAnswer)
  BY DEF BookInv, BookTravel
<1>2. BookRows'
  BY DEF BookInv, BookRows
<1>3. BookTravel'
  BY <1>1, TailIs DEF BookTravel
<1>4. BookBusy'
  <2>1. promptForm'.busy => FormWaits(bookCalls, Tail(bookAnswers), "savePrompt", "savedPrompt", "prompt")
    BY <1>1, FormHeard DEF BookInv, BookBusy
  <2>2. routineForm'.busy => FormWaits(bookCalls, Tail(bookAnswers), "saveRoutine", "savedRoutine", "routine")
    BY <1>1, FormHeard DEF BookInv, BookBusy
  <2> QED BY <2>1, <2>2 DEF BookBusy
<1>5. BookDue'
  <2>1. DueTold(bookAnswers')
    BY <1>1, DueAnswers DEF BookInv, BookDue
  <2> QED BY <2>1 DEF BookInv, BookDue
<1> QED BY <1>2, <1>3, <1>4, <1>5 DEF BookInv

\* Main, one call at a time.
LEMMA BookServed ==
  ASSUME BookInv, Book!listPrompts \/ Book!listRoutines \/ Book!SavePrompt \/ Book!SaveRoutine \/ Book!deletePrompt \/ Book!deleteRoutine \/ Book!Fails
  PROVE  BookInv'
<1> DEFINE m == Head(bookCalls)
<1>1. bookCalls # <<>>
  BY DEF Book!listPrompts, Book!listRoutines, Book!SavePrompt, Book!SaveRoutine, Book!deletePrompt, Book!deleteRoutine, Book!Fails, Book!Served
<1>2. bookCalls \in Seq(BookCall) /\ m \in BookCall /\ Tail(bookCalls) \in Seq(BookCall)
  BY <1>1, TailIs DEF BookInv, BookTravel
<1> HIDE DEF m
<1>3. /\ savedPrompts \in [Prompt -> Body] /\ savedRoutines \in [Routine -> Prompt \cup {None}] /\ bodies \in Nat
      /\ BodiesInOrder(bookCalls, savedPrompts, bodies) /\ DueAsked(bookCalls, savedPrompts, bodies)
  BY DEF BookInv, BookRows, BookDue
<1>4. BodiesInOrder(Tail(bookCalls), savedPrompts, bodies) /\ DueAsked(Tail(bookCalls), savedPrompts, bodies)
  BY <1>1, <1>2, <1>3, BodiesServed
<1>5. /\ m.op = "savePrompt" => m.id \in Prompt /\ m.is \in Nat
      /\ m.op = "saveRoutine" => m.id \in Routine /\ m.is \in Prompt
      /\ m.op = "removePrompt" => m.id \in Prompt
      /\ m.op = "removeRoutine" => m.id \in Routine
      /\ m.op = "due" => m.promptId \in Prompt /\ m.due \in Nat
  BY <1>2, BookCallIs
<1>6. \* An answer that is none of a form, nor of a routine that is due.
      ASSUME NEW a \in BookAnswer, Book!Answer(a), a.op # "due", m.op \notin {"savePrompt", "saveRoutine"},
             savedPrompts' \in [Prompt -> Body], savedRoutines' \in [Routine -> Prompt \cup {None}],
             BodiesInOrder(Tail(bookCalls), savedPrompts', bodies), DueAsked(Tail(bookCalls), savedPrompts', bodies)
      PROVE  BookInv'
  BY <1>1, <1>6, BookAnswers DEF m
<1>7. CASE Book!listPrompts
  <2>1. UNCHANGED <<savedPrompts, savedRoutines>>
    BY <1>7 DEF Book!listPrompts, Book!rows
  <2>2. CASE m.op = "prompts" /\ Book!Answer([op |-> "prompts", is |-> savedPrompts])
    <3> DEFINE a == [op |-> "prompts", is |-> savedPrompts]
    <3>1. a \in BookAnswer /\ a.op = "prompts"
      BY <1>3 DEF BookAnswer
    <3>2. Book!Answer(a)
      BY <2>2
    <3> HIDE DEF a
    <3> QED BY <1>3, <1>4, <1>6, <2>1, <2>2, <3>1, <3>2
  <2>3. CASE m.op = "due" /\ Book!Answer([op |-> "due", is |-> savedPrompts, promptId |-> m.promptId, due |-> m.due])
    <3> DEFINE a == [op |-> "due", is |-> savedPrompts, promptId |-> m.promptId, due |-> m.due]
    <3>1. a \in BookAnswer /\ a.op = "due" /\ a.is = savedPrompts /\ a.promptId = m.promptId /\ a.due = m.due
      BY <1>3, <1>5, <2>3 DEF BookAnswer
    <3>2. Book!Answer(a)
      BY <2>3
    <3> HIDE DEF a
    <3>3. m = bookCalls[1] /\ 1 \in DOMAIN bookCalls
      BY <1>1, <1>2, TailIs DEF m
    <3>4. a.is[a.promptId] # None => a.due <= a.is[a.promptId]
      BY <1>3, <2>3, <3>1, <3>3 DEF DueAsked
    <3>5. m.op \notin {"savePrompt", "saveRoutine"}
      BY <2>3
    <3> QED BY <1>1, <1>3, <1>4, <2>1, <3>1, <3>2, <3>4, <3>5, BookAnswers DEF m
  <2> QED BY <1>7, <2>2, <2>3 DEF Book!listPrompts, Book!Served, m
<1>8. CASE Book!listRoutines
  <2> DEFINE a == [op |-> "routines", is |-> savedRoutines]
  <2>1. UNCHANGED <<savedPrompts, savedRoutines>> /\ m.op = "routines" /\ Book!Answer(a)
    BY <1>8 DEF Book!listRoutines, Book!rows, Book!Served, m
  <2>2. a \in BookAnswer /\ a.op = "routines"
    BY <1>3 DEF BookAnswer
  <2> HIDE DEF a
  <2> QED BY <1>3, <1>4, <1>6, <2>1, <2>2
<1>9. CASE Book!SavePrompt
  <2> DEFINE a == [op |-> "savedPrompt", id |-> m.id, is |-> m.is]
             f == [op |-> "failed", form |-> "prompt"]
  <2>1. m.op = "savePrompt" /\ savedRoutines' = savedRoutines
    BY <1>9 DEF Book!SavePrompt, Book!Served, m
  <2>2. \/ savedPrompts' = [savedPrompts EXCEPT ![m.id] = m.is] /\ Book!Answer(a)
        \/ savedPrompts' = savedPrompts /\ Book!Answer(f)
    BY <1>9 DEF Book!SavePrompt, m
  <2>3. a \in BookAnswer /\ a.op = "savedPrompt"
    BY <1>5, <2>1 DEF BookAnswer
  <2>4. f \in BookAnswer /\ f.op = "failed" /\ Refuses(f, "prompt")
    BY DEF BookAnswer, Refuses
  <2> HIDE DEF a, f
  <2>5. CASE savedPrompts' = [savedPrompts EXCEPT ![m.id] = m.is] /\ Book!Answer(a)
    <3>1. savedPrompts' \in [Prompt -> Body]
      BY <1>3, <1>5, <2>1, <2>5 DEF Body
    <3>2. BodiesInOrder(Tail(bookCalls), savedPrompts', bodies) /\ DueAsked(Tail(bookCalls), savedPrompts', bodies)
      BY <1>1, <1>2, <1>3, <2>1, <2>5, SaveServed DEF m
    <3> QED BY <1>1, <1>3, <2>1, <2>3, <2>5, <3>1, <3>2, BookAnswers DEF m
  <2>6. CASE savedPrompts' = savedPrompts /\ Book!Answer(f)
    BY <1>1, <1>3, <1>4, <2>1, <2>4, <2>6, BookAnswers DEF m
  <2> QED BY <2>2, <2>5, <2>6
<1>10. CASE Book!SaveRoutine
  <2> DEFINE a == [op |-> "savedRoutine", id |-> m.id, is |-> m.is]
             f == [op |-> "failed", form |-> "routine"]
  <2>1. m.op = "saveRoutine" /\ savedPrompts' = savedPrompts
    BY <1>10 DEF Book!SaveRoutine, Book!Served, m
  <2>2. \/ savedRoutines' = [savedRoutines EXCEPT ![m.id] = m.is] /\ Book!Answer(a)
        \/ savedRoutines' = savedRoutines /\ Book!Answer(f)
    BY <1>10 DEF Book!SaveRoutine, m
  <2>3. a \in BookAnswer /\ a.op = "savedRoutine"
    BY <1>5, <2>1 DEF BookAnswer
  <2>4. f \in BookAnswer /\ f.op = "failed" /\ Refuses(f, "routine")
    BY DEF BookAnswer, Refuses
  <2> HIDE DEF a, f
  <2>5. savedRoutines' \in [Routine -> Prompt \cup {None}]
    BY <1>3, <1>5, <2>1, <2>2
  <2>6. CASE Book!Answer(a)
    BY <1>1, <1>3, <1>4, <2>1, <2>3, <2>5, <2>6, BookAnswers DEF m
  <2>7. CASE Book!Answer(f)
    BY <1>1, <1>3, <1>4, <2>1, <2>4, <2>5, <2>7, BookAnswers DEF m
  <2> QED BY <2>2, <2>6, <2>7
<1>11. CASE Book!deletePrompt
  <2> DEFINE a == [op |-> "removedPrompt", id |-> m.id]
  <2>1. m.op = "removePrompt" /\ savedRoutines' = savedRoutines /\ savedPrompts' = [savedPrompts EXCEPT ![m.id] = None] /\ Book!Answer(a)
    BY <1>11 DEF Book!deletePrompt, Book!Served, m
  <2>2. a \in BookAnswer /\ a.op = "removedPrompt"
    BY <1>5, <2>1 DEF BookAnswer
  <2> HIDE DEF a
  <2>3. savedPrompts' \in [Prompt -> Body]
    BY <1>3, <2>1 DEF Body
  <2>4. \A i \in DOMAIN Tail(bookCalls) : Tail(bookCalls)[i].op = "due" => Tail(bookCalls)[i].promptId \in Prompt
    BY <1>2, BookCallIs
  <2>5. DOMAIN savedPrompts = Prompt
    BY <1>3
  <2>6. BodiesInOrder(Tail(bookCalls), savedPrompts', bodies) /\ DueAsked(Tail(bookCalls), savedPrompts', bodies)
    BY <1>4, <2>1, <2>4, <2>5, RowGone
  <2> QED BY <1>3, <1>6, <2>1, <2>2, <2>3, <2>6
<1>12. CASE Book!deleteRoutine
  <2> DEFINE a == [op |-> "removedRoutine", id |-> m.id]
  <2>1. m.op = "removeRoutine" /\ savedPrompts' = savedPrompts /\ savedRoutines' = [savedRoutines EXCEPT ![m.id] = None] /\ Book!Answer(a)
    BY <1>12 DEF Book!deleteRoutine, Book!Served, m
  <2>2. a \in BookAnswer /\ a.op = "removedRoutine"
    BY <1>5, <2>1 DEF BookAnswer
  <2> HIDE DEF a
  <2>3. savedRoutines' \in [Routine -> Prompt \cup {None}]
    BY <1>3, <2>1
  <2> QED BY <1>3, <1>4, <1>6, <2>1, <2>2, <2>3
<1>13. CASE Book!Fails
  <2> DEFINE w == CASE m.op = "savePrompt" -> "prompt" [] m.op = "saveRoutine" -> "routine" [] OTHER -> "none"
             a == [op |-> "failed", form |-> w]
  <2>1. UNCHANGED <<savedPrompts, savedRoutines>> /\ Book!Answer(a)
    BY <1>13 DEF Book!Fails, Book!rows, m
  <2>2. w \in {"prompt", "routine", "none"} /\ (m.op = "savePrompt" => w = "prompt") /\ (m.op = "saveRoutine" => w = "routine")
    OBVIOUS
  <2> HIDE DEF w
  <2>3. a \in BookAnswer /\ a.op = "failed" /\ a.form = w
    BY <2>2 DEF BookAnswer
  <2> HIDE DEF a
  <2>4. (m.op = "savePrompt" => Refuses(a, "prompt")) /\ (m.op = "saveRoutine" => Refuses(a, "routine"))
    BY <2>2, <2>3 DEF Refuses
  <2> QED BY <1>1, <1>3, <1>4, <2>1, <2>3, <2>4, BookAnswers DEF m
<1> QED BY <1>7, <1>8, <1>9, <1>10, <1>11, <1>12, <1>13

\* A routine is due, the window asks for its prompt, and runs it.
LEMMA BookRuns ==
  ASSUME BookInv, Book!Trigger \/ Book!onTrigger \/ Book!runDue
  PROVE  BookInv'
<1> DEFINE m == Head(bookAnswers)
<1>1. bookCalls \in Seq(BookCall) /\ bookAnswers \in Seq(BookAnswer)
  BY DEF BookInv, BookTravel
<1>2. /\ savedPrompts \in [Prompt -> Body] /\ savedRoutines \in [Routine -> Prompt \cup {None}] /\ bodies \in Nat
      /\ BodiesInOrder(bookCalls, savedPrompts, bodies) /\ DueAsked(bookCalls, savedPrompts, bodies)
  BY DEF BookInv, BookRows, BookDue
<1>3. bookAnswers # <<>> => m = bookAnswers[1] /\ 1 \in DOMAIN bookAnswers /\ m \in BookAnswer /\ Tail(bookAnswers) \in Seq(BookAnswer)
  BY <1>1, TailIs
<1> HIDE DEF m
<1>4. CASE Book!Trigger
  <2>1. PICK r \in Routine : savedRoutines[r] # None /\ bookAnswers' = Append(bookAnswers, [op |-> "trigger", promptId |-> savedRoutines[r]])
    BY <1>4 DEF Book!Trigger
  <2>2. UNCHANGED <<savedPrompts, savedRoutines, prompts, routines, bookCalls, bodies, promptForm, routineForm, ranRoutine>>
    BY <1>4 DEF Book!Trigger, Book!rows, Book!stores, Book!dialogs
  <2> DEFINE a == [op |-> "trigger", promptId |-> savedRoutines[r]]
  <2>3. savedRoutines[r] \in Prompt
    BY <1>2, <2>1
  <2>4. a \in BookAnswer /\ a.op = "trigger"
    BY <2>3 DEF BookAnswer
  <2>5. bookAnswers' = Append(bookAnswers, a)
    BY <2>1
  <2> HIDE DEF a
  <2>6. BookForms' /\ BookRows' /\ BookTravel'
    BY <1>1, <2>2, <2>4, <2>5, AppendIs DEF BookInv, BookForms, BookRows, BookTravel
  <2>7. BookBusy'
    <3>1. promptForm.busy => FormWaits(bookCalls, bookAnswers', "savePrompt", "savedPrompt", "prompt")
      BY <1>1, <2>4, <2>5, FormTold DEF BookInv, BookBusy
    <3>2. routineForm.busy => FormWaits(bookCalls, bookAnswers', "saveRoutine", "savedRoutine", "routine")
      BY <1>1, <2>4, <2>5, FormTold DEF BookInv, BookBusy
    <3> QED BY <2>2, <3>1, <3>2 DEF BookBusy
  <2>8. BookDue'
    <3>1. DueTold(bookAnswers')
      BY <1>1, <2>4, <2>5, DueAnswers DEF BookInv, BookDue
    <3>2. Book!DueRunsTheSavedPrompt'
      BY <2>2 DEF BookInv, BookDue, Book!DueRunsTheSavedPrompt
    <3> QED BY <1>2, <2>2, <3>1, <3>2 DEF BookDue
  <2> QED BY <2>6, <2>7, <2>8 DEF BookInv
<1>5. CASE Book!onTrigger
  <2> DEFINE q == m.promptId
             d == IF savedPrompts[q] = None THEN 0 ELSE savedPrompts[q]
             c == [op |-> "due", promptId |-> q, due |-> d]
  <2>1. /\ bookAnswers # <<>> /\ m.op = "trigger" /\ bookAnswers' = Tail(bookAnswers) /\ bookCalls' = Append(bookCalls, c)
        /\ UNCHANGED <<savedPrompts, savedRoutines, prompts, routines, bodies, promptForm, routineForm, ranRoutine>>
    BY <1>5 DEF Book!onTrigger, Book!AnswerIs, Book!rows, Book!stores, Book!dialogs, m
  <2>2. q \in Prompt
    BY <1>3, <2>1, BookAnswerIs
  <2>3. d \in Nat
    BY <1>2, <2>2 DEF Body
  <2> HIDE DEF d
  <2>4. c \in BookCall /\ c.op = "due" /\ c.due = d /\ c.promptId = q
    BY <2>2, <2>3 DEF BookCall
  <2> HIDE DEF c
  <2>5. c.due = IF savedPrompts[c.promptId] = None THEN 0 ELSE savedPrompts[c.promptId]
    BY <2>4 DEF d
  <2>6. BookForms' /\ BookRows' /\ BookTravel'
    BY <1>1, <1>3, <2>1, <2>4, AppendIs DEF BookInv, BookForms, BookRows, BookTravel
  <2>7. BookBusy'
    <3>1. ASSUME NEW s, NEW w, NEW f, FormWaits(bookCalls, bookAnswers, s, w, f), w # "trigger" PROVE FormWaits(bookCalls', bookAnswers', s, w, f)
      <4>1. FormWaits(Append(bookCalls, c), bookAnswers, s, w, f)
        BY <1>1, <2>4, <3>1, FormAsked
      <4>2. ~Refuses(m, f)
        BY <2>1 DEF Refuses
      <4>3. FormWaits(Append(bookCalls, c), Tail(bookAnswers), s, w, f)
        BY <1>1, <2>1, <3>1, <4>1, <4>2, FormHeard DEF m
      <4> QED BY <2>1, <4>3
    <3> QED BY <2>1, <3>1 DEF BookInv, BookBusy
  <2>8. BookDue'
    <3>1. DueTold(bookAnswers')
      BY <1>1, <2>1, DueAnswers DEF BookInv, BookDue
    <3>2. Book!DueRunsTheSavedPrompt'
      BY <2>1 DEF BookInv, BookDue, Book!DueRunsTheSavedPrompt
    <3>3. BodiesInOrder(Append(bookCalls, c), savedPrompts, bodies) /\ DueAsked(Append(bookCalls, c), savedPrompts, bodies)
      BY <1>1, <1>2, <2>4, <2>5, DueHeard
    <3> QED BY <2>1, <3>1, <3>2, <3>3 DEF BookDue
  <2> QED BY <2>6, <2>7, <2>8 DEF BookInv
<1>6. CASE Book!runDue
  <2>1. /\ bookAnswers # <<>> /\ m.op = "due" /\ bookAnswers' = Tail(bookAnswers)
        /\ UNCHANGED <<savedPrompts, savedRoutines, prompts, routines, bookCalls, bodies, promptForm, routineForm>>
        /\ IF m.is[m.promptId] = None THEN UNCHANGED ranRoutine ELSE Book!Run("trigger", m.is[m.promptId], m.due)
    BY <1>6 DEF Book!runDue, Book!AnswerIs, Book!rows, Book!stores, Book!dialogs, m
  <2>2. Book!DueRunsTheSavedPrompt'
    <3>1. CASE m.is[m.promptId] = None
      BY <2>1, <3>1 DEF BookInv, BookDue, Book!DueRunsTheSavedPrompt
    <3>2. CASE m.is[m.promptId] # None
      <4>1. ranRoutine' = [by |-> "trigger", body |-> m.is[m.promptId], due |-> m.due]
        BY <2>1, <3>2 DEF Book!Run
      <4>2. m.due <= m.is[m.promptId] /\ m.due \in Nat /\ m.is[m.promptId] \in Nat
        BY <1>3, <2>1, <3>2, BookAnswerIs DEF BookInv, BookDue, DueTold, Body
      <4> QED BY <4>1, <4>2 DEF Book!DueRunsTheSavedPrompt
    <3> QED BY <3>1, <3>2
  <2>3. BookForms' /\ prompts' \in [Prompt -> Body] /\ routines' \in [Routine -> Prompt \cup {None}]
    BY <2>1 DEF BookInv, BookForms, BookRows
  <2>4. ~Refuses(m, "prompt") /\ ~Refuses(m, "routine") /\ m.op \notin {"savedPrompt", "savedRoutine"}
    BY <2>1 DEF Refuses
  <2> QED BY <2>1, <2>2, <2>3, <2>4, BookHears DEF m
<1> QED BY <1>4, <1>5, <1>6

LEMMA ClosedForms ==
  /\ Book!Closed \in [open : BOOLEAN, of : Prompt \cup {None}, busy : BOOLEAN] /\ ~Book!Closed.busy
  /\ Book!ClosedRoutine \in [open : BOOLEAN, of : Routine \cup {None}, busy : BOOLEAN, promptId : Prompt \cup {None}]
  /\ ~Book!ClosedRoutine.busy
<1>1. Book!Closed \in [open : BOOLEAN, of : Prompt \cup {None}, busy : BOOLEAN] /\ ~Book!Closed.busy
  BY DEF Book!Closed
<1>2. Book!ClosedRoutine \in [open : BOOLEAN, of : Routine \cup {None}, busy : BOOLEAN, promptId : Prompt \cup {None}]
  BY DEF Book!ClosedRoutine
<1>3. ~Book!ClosedRoutine.busy
  BY DEF Book!ClosedRoutine
<1> QED BY <1>1, <1>2, <1>3

LEMMA BookArrives ==
  ASSUME BookInv, Book!PromptsArrive \/ Book!RoutinesArrive \/ Book!Refused
  PROVE  BookInv'
<1> DEFINE m == Head(bookAnswers)
<1>1. bookAnswers # <<>> /\ bookAnswers' = Tail(bookAnswers) /\ UNCHANGED <<savedPrompts, savedRoutines, bookCalls, bodies, ranRoutine>>
  BY DEF Book!PromptsArrive, Book!RoutinesArrive, Book!Refused, Book!AnswerIs, Book!rows
<1>2. bookAnswers \in Seq(BookAnswer) /\ m \in BookAnswer
  BY <1>1, TailIs DEF BookInv, BookTravel
<1> HIDE DEF m
<1>3. Book!DueRunsTheSavedPrompt'
  BY <1>1 DEF BookInv, BookDue, Book!DueRunsTheSavedPrompt
<1>4. prompts \in [Prompt -> Body] /\ routines \in [Routine -> Prompt \cup {None}] /\ BookForms
  BY DEF BookInv, BookRows
<1>5. /\ m.op = "prompts" => m.is \in [Prompt -> Body]
      /\ m.op = "routines" => m.is \in [Routine -> Prompt \cup {None}]
      /\ m.op = "savedPrompt" => m.id \in Prompt /\ m.is \in Body
      /\ m.op = "savedRoutine" => m.id \in Routine /\ m.is \in Prompt
  BY <1>2, BookAnswerIs DEF Body
<1>6. None \in Body
  BY DEF Body
<1>7. CASE Book!PromptsArrive
  <2>1. m.op \in {"prompts", "savedPrompt", "removedPrompt"} /\ routines' = routines /\ routineForm' = routineForm
        /\ promptForm' = IF m.op = "savedPrompt" THEN Book!Closed ELSE promptForm
    BY <1>7 DEF Book!PromptsArrive, Book!AnswerIs, m
  <2>2. prompts' \in [Prompt -> Body]
    <3>1. \/ m.op = "prompts" /\ prompts' = m.is
          \/ m.op = "savedPrompt" /\ prompts' = [prompts EXCEPT ![m.id] = m.is]
          \/ m.op = "removedPrompt" /\ prompts' = [prompts EXCEPT ![m.id] = None]
      BY <1>7 DEF Book!PromptsArrive, Book!AnswerIs, m
    <3> QED BY <1>4, <1>5, <1>6, <3>1
  <2>3. BookForms'
    BY <1>4, <2>1, ClosedForms DEF BookForms
  <2>4. ~Refuses(m, "prompt") /\ ~Refuses(m, "routine") /\ m.op # "savedRoutine"
    BY <2>1 DEF Refuses
  <2>5. promptForm'.busy => promptForm.busy /\ m.op # "savedPrompt"
    BY <2>1, ClosedForms
  <2> QED BY <1>1, <1>3, <1>4, <2>1, <2>2, <2>3, <2>4, <2>5, BookHears DEF m
<1>8. CASE Book!RoutinesArrive
  <2>1. m.op \in {"routines", "savedRoutine", "removedRoutine"} /\ prompts' = prompts /\ promptForm' = promptForm
        /\ routineForm' = IF m.op = "savedRoutine" THEN Book!ClosedRoutine ELSE routineForm
    BY <1>8 DEF Book!RoutinesArrive, Book!AnswerIs, m
  <2>2. routines' \in [Routine -> Prompt \cup {None}]
    <3>1. \/ m.op = "routines" /\ routines' = m.is
          \/ m.op = "savedRoutine" /\ routines' = [routines EXCEPT ![m.id] = m.is]
          \/ m.op = "removedRoutine" /\ routines' = [routines EXCEPT ![m.id] = None]
      BY <1>8 DEF Book!RoutinesArrive, Book!AnswerIs, m
    <3> QED BY <1>4, <1>5, <3>1
  <2>3. BookForms'
    BY <1>4, <2>1, ClosedForms DEF BookForms
  <2>4. ~Refuses(m, "prompt") /\ ~Refuses(m, "routine") /\ m.op # "savedPrompt"
    BY <2>1 DEF Refuses
  <2>5. routineForm'.busy => routineForm.busy /\ m.op # "savedRoutine"
    BY <2>1, ClosedForms
  <2> QED BY <1>1, <1>3, <1>4, <2>1, <2>2, <2>3, <2>4, <2>5, BookHears DEF m
<1>9. CASE Book!Refused
  <2>1. /\ m.op = "failed" /\ UNCHANGED <<prompts, routines>>
        /\ promptForm' = IF m.form = "prompt" THEN [promptForm EXCEPT !.busy = FALSE] ELSE promptForm
        /\ routineForm' = IF m.form = "routine" THEN [routineForm EXCEPT !.busy = FALSE] ELSE routineForm
    BY <1>9 DEF Book!Refused, Book!AnswerIs, Book!stores, m
  <2>2. promptForm' \in [open : BOOLEAN, of : Prompt \cup {None}, busy : BOOLEAN] /\ (promptForm'.busy => promptForm.busy /\ m.form # "prompt")
    BY <1>4, <2>1 DEF BookForms
  <2>3. /\ routineForm' \in [open : BOOLEAN, of : Routine \cup {None}, busy : BOOLEAN, promptId : Prompt \cup {None}]
        /\ routineForm'.busy => routineForm.busy /\ m.form # "routine"
    BY <1>4, <2>1 DEF BookForms
  <2>4. BookForms'
    BY <2>2, <2>3 DEF BookForms
  <2>5. m.op # "savedPrompt" /\ m.op # "savedRoutine" /\ (Refuses(m, "prompt") => m.form = "prompt") /\ (Refuses(m, "routine") => m.form = "routine")
    BY <2>1 DEF Refuses
  <2> QED BY <1>1, <1>3, <1>4, <2>1, <2>2, <2>3, <2>4, <2>5, BookHears DEF m
<1> QED BY <1>7, <1>8, <1>9

\* What the user does but save a prompt and load the lists.
LEMMA BookUses ==
  ASSUME BookInv,
         \/ Book!openPrompt \/ Book!openRoutine \/ Book!choosePrompt \/ Book!close \/ Book!submitRoutine
         \/ Book!remove \/ Book!runNow \/ Book!openAgent \/ Book!runInAgent
  PROVE  BookInv'
<1>1. UNCHANGED <<savedPrompts, savedRoutines, bookAnswers, bodies, prompts, routines>>
  BY DEF Book!openPrompt, Book!openRoutine, Book!choosePrompt, Book!close, Book!submitRoutine, Book!remove, Book!runNow,
         Book!openAgent, Book!runInAgent, Book!rows, Book!stores
<1>2. prompts \in [Prompt -> Body] /\ routines \in [Routine -> Prompt \cup {None}] /\ BookForms /\ Book!DueRunsTheSavedPrompt
  BY DEF BookInv, BookRows, BookDue
<1>3. ranRoutine' = ranRoutine \/ ranRoutine'.by \in {"panel", "agent"}
  <2>1. \A w, b, d : Book!Run(w, b, d) => ranRoutine'.by = w
    BY DEF Book!Run
  <2>2. CASE Book!runNow
    <3>1. \E b : Book!Run("panel", b, 0)
      BY <2>2 DEF Book!runNow
    <3> QED BY <2>1, <3>1
  <2>3. CASE Book!runInAgent
    <3>1. Book!Run("agent", agent, 0)
      BY <2>3 DEF Book!runInAgent
    <3> QED BY <2>1, <3>1
  <2>4. CASE ~Book!runNow /\ ~Book!runInAgent
    BY <2>4 DEF Book!openPrompt, Book!openRoutine, Book!choosePrompt, Book!close, Book!submitRoutine, Book!remove, Book!openAgent
  <2> QED BY <2>2, <2>3, <2>4
<1>4. Book!DueRunsTheSavedPrompt'
  <2>1. CASE ranRoutine' = ranRoutine
    BY <1>2, <2>1 DEF Book!DueRunsTheSavedPrompt
  <2>2. CASE ranRoutine'.by \in {"panel", "agent"}
    BY <2>2 DEF Book!DueRunsTheSavedPrompt
  <2> QED BY <1>3, <2>1, <2>2
<1>5. CASE Book!runNow \/ Book!openAgent \/ Book!runInAgent
  <2>1. bookCalls' = bookCalls /\ UNCHANGED <<promptForm, routineForm>>
    BY <1>5 DEF Book!runNow, Book!openAgent, Book!runInAgent, Book!dialogs
  <2>2. BookForms'
    BY <1>2, <2>1 DEF BookForms
  <2> QED BY <1>1, <1>2, <1>4, <2>1, <2>2, BookAsks
<1>6. CASE Book!openPrompt
  <2>1. /\ bookCalls' = bookCalls /\ routineForm' = routineForm
        /\ promptForm' \in [open : {TRUE}, of : {None} \cup {q \in Prompt : prompts[q] # None}, busy : {FALSE}]
    BY <1>6 DEF Book!openPrompt
  <2>2. promptForm' \in [open : BOOLEAN, of : Prompt \cup {None}, busy : BOOLEAN] /\ ~promptForm'.busy
    <3>1. promptForm'.busy \in {FALSE}
      BY <2>1
    <3>2. promptForm' \in [open : BOOLEAN, of : Prompt \cup {None}, busy : BOOLEAN]
      BY <2>1
    <3> QED BY <3>1, <3>2
  <2>3. BookForms'
    BY <1>2, <2>1, <2>2 DEF BookForms
  <2> QED BY <1>1, <1>2, <1>4, <2>1, <2>2, <2>3, BookAsks
<1>7. CASE Book!openRoutine
  <2> DEFINE c == [op |-> "prompts"]
  <2>1. bookCalls' = Append(bookCalls, c) /\ promptForm' = promptForm
    BY <1>7 DEF Book!openRoutine, Book!Call
  <2>2. c \in BookCall /\ c.op \notin {"savePrompt", "due"}
    BY DEF BookCall
  <2> HIDE DEF c
  <2>3. routineForm' \in [open : BOOLEAN, of : Routine \cup {None}, busy : BOOLEAN, promptId : Prompt \cup {None}] /\ ~routineForm'.busy
    <3>1. CASE routineForm' = [Book!ClosedRoutine EXCEPT !.open = TRUE]
      BY <3>1, ClosedForms
    <3>2. CASE \E r \in Routine : routines[r] # None /\ routineForm' = [open |-> TRUE, of |-> r, busy |-> FALSE, promptId |-> routines[r]]
      <4>1. PICK r \in Routine : routines[r] # None /\ routineForm' = [open |-> TRUE, of |-> r, busy |-> FALSE, promptId |-> routines[r]]
        BY <3>2
      <4>2. routines[r] \in Prompt \cup {None} /\ r \in Routine \cup {None}
        BY <1>2
      <4>3. ~routineForm'.busy
        BY <4>1
      <4>4. routineForm' \in [open : BOOLEAN, of : Routine \cup {None}, busy : BOOLEAN, promptId : Prompt \cup {None}]
        BY <4>1, <4>2
      <4> QED BY <4>3, <4>4
    <3> QED BY <1>7, <3>1, <3>2 DEF Book!openRoutine
  <2>4. BookForms'
    BY <1>2, <2>1, <2>3 DEF BookForms
  <2>5. \E a \in BookCall : bookCalls' = Append(bookCalls, a) /\ a.op \notin {"savePrompt", "due"}
    BY <2>1, <2>2
  <2> QED BY <1>1, <1>2, <1>4, <2>1, <2>3, <2>4, <2>5, BookAsks
<1>8. CASE Book!choosePrompt
  <2>1. PICK q \in Prompt : routineForm' = [routineForm EXCEPT !.promptId = q]
    BY <1>8 DEF Book!choosePrompt
  <2>2. bookCalls' = bookCalls /\ promptForm' = promptForm
    BY <1>8 DEF Book!choosePrompt
  <2>3. BookForms' /\ routineForm'.busy = routineForm.busy
    BY <1>2, <2>1, <2>2 DEF BookForms
  <2> QED BY <1>1, <1>2, <1>4, <2>2, <2>3, BookAsks
<1>9. CASE Book!close
  <2>1. bookCalls' = bookCalls /\ promptForm' = Book!Closed /\ routineForm' = Book!ClosedRoutine
    BY <1>9 DEF Book!close
  <2>2. BookForms' /\ ~promptForm'.busy /\ ~routineForm'.busy
    BY <2>1, ClosedForms DEF BookForms
  <2> QED BY <1>1, <1>2, <1>4, <2>1, <2>2, BookAsks
<1>10. CASE Book!submitRoutine
  <2> DEFINE n == routineForm.of = None
  <2>1. PICK r \in Routine : bookCalls' = Append(bookCalls, [op |-> "saveRoutine", new |-> n, id |-> r, is |-> routineForm.promptId])
    BY <1>10 DEF Book!submitRoutine, Book!Call
  <2>2. routineForm.promptId # None /\ routineForm' = [routineForm EXCEPT !.busy = TRUE] /\ promptForm' = promptForm
    BY <1>10 DEF Book!submitRoutine
  <2> DEFINE c == [op |-> "saveRoutine", new |-> n, id |-> r, is |-> routineForm.promptId]
  <2>3. n \in BOOLEAN
    OBVIOUS
  <2>4. routineForm.promptId \in Prompt
    BY <1>2, <2>2 DEF BookForms
  <2> HIDE DEF n
  <2>5. c \in BookCall /\ c.op = "saveRoutine"
    BY <2>3, <2>4 DEF BookCall
  <2>6. bookCalls' = Append(bookCalls, c)
    BY <2>1
  <2> HIDE DEF c
  <2>7. BookForms'
    BY <1>2, <2>2 DEF BookForms
  <2>8. \E a \in BookCall : bookCalls' = Append(bookCalls, a) /\ a.op \notin {"savePrompt", "due"}
    BY <2>5, <2>6
  <2>9. \E a \in BookCall : bookCalls' = Append(bookCalls, a) /\ a.op = "saveRoutine"
    BY <2>5, <2>6
  <2> QED BY <1>1, <1>2, <1>4, <2>2, <2>7, <2>8, <2>9, BookAsks
<1>11. CASE Book!remove
  <2>1. UNCHANGED <<promptForm, routineForm>>
    BY <1>11 DEF Book!remove, Book!dialogs
  <2>2. \A q \in Prompt : [op |-> "removePrompt", id |-> q] \in BookCall /\ [op |-> "removePrompt", id |-> q].op \notin {"savePrompt", "due"}
    BY DEF BookCall
  <2>3. \A r \in Routine : [op |-> "removeRoutine", id |-> r] \in BookCall /\ [op |-> "removeRoutine", id |-> r].op \notin {"savePrompt", "due"}
    BY DEF BookCall
  <2>4. \E a \in BookCall : bookCalls' = Append(bookCalls, a) /\ a.op \notin {"savePrompt", "due"}
    BY <1>11, <2>2, <2>3 DEF Book!remove, Book!Call
  <2>5. BookForms'
    BY <1>2, <2>1 DEF BookForms
  <2> QED BY <1>1, <1>2, <1>4, <2>1, <2>4, <2>5, BookAsks
<1> QED BY <1>5, <1>6, <1>7, <1>8, <1>9, <1>10, <1>11

LEMMA BookLoads == ASSUME BookInv, Book!load PROVE BookInv'
<1> DEFINE a == [op |-> "routines"]
           b == [op |-> "prompts"]
           c == Append(bookCalls, a)
<1>1. a \in BookCall /\ b \in BookCall /\ a.op = "routines" /\ b.op = "prompts"
  BY DEF BookCall
<1>2. bookCalls \in Seq(BookCall) /\ BodiesInOrder(bookCalls, savedPrompts, bodies) /\ DueAsked(bookCalls, savedPrompts, bodies)
  BY DEF BookInv, BookTravel, BookDue
<1>3. bookCalls \o <<a, b>> = Append(c, b)
  <2> HIDE DEF a, b
  <2> DEFINE p == bookCalls \o <<a, b>>
             r == Append(c, b)
             n == Len(bookCalls)
  <2>1. p \in Seq(BookCall) /\ r \in Seq(BookCall) /\ n \in Nat /\ Len(p) = n + 2 /\ Len(r) = n + 2
    BY <1>1, <1>2
  <2>2. \A i \in 1 .. n + 2 : p[i] = r[i]
    BY <1>1, <1>2
  <2> HIDE DEF p, r
  <2>3. p = r
    BY <2>1, <2>2, SeqEqual
  <2> QED BY <2>3 DEF p, r
<1>4. bookCalls' = Append(c, b)
      /\ UNCHANGED <<savedPrompts, savedRoutines, bookAnswers, bodies, prompts, routines, promptForm, routineForm, ranRoutine>>
  BY <1>3 DEF Book!load, Book!rows, Book!stores, Book!dialogs
<1> HIDE DEF a, b
<1>5. c \in Seq(BookCall) /\ Append(c, b) \in Seq(BookCall)
  BY <1>1, <1>2
<1>6. BodiesInOrder(c, savedPrompts, bodies) /\ DueAsked(c, savedPrompts, bodies)
  BY <1>1, <1>2, BodiesAsked
<1>7. BodiesInOrder(Append(c, b), savedPrompts, bodies) /\ DueAsked(Append(c, b), savedPrompts, bodies)
  <2> HIDE DEF c
  <2> QED BY <1>1, <1>5, <1>6, BodiesAsked
<1>8. ASSUME NEW s, NEW d, NEW f, FormWaits(bookCalls, bookAnswers, s, d, f) PROVE FormWaits(bookCalls', bookAnswers, s, d, f)
  <2>1. FormWaits(c, bookAnswers, s, d, f)
    BY <1>1, <1>2, <1>8, FormAsked
  <2> HIDE DEF c
  <2>2. FormWaits(Append(c, b), bookAnswers, s, d, f)
    BY <1>1, <1>5, <2>1, FormAsked
  <2> QED BY <1>4, <2>2
<1>9. BookBusy'
  BY <1>4, <1>8 DEF BookInv, BookBusy
<1>10. BookForms' /\ BookRows' /\ BookTravel'
  BY <1>4, <1>5 DEF BookInv, BookForms, BookRows, BookTravel
<1>11. BookDue'
  BY <1>4, <1>7 DEF BookInv, BookDue, Book!DueRunsTheSavedPrompt
<1> QED BY <1>9, <1>10, <1>11 DEF BookInv

LEMMA BookSaves == ASSUME BookInv, Book!submitPrompt PROVE BookInv'
<1> DEFINE n == promptForm.of = None
<1>1. PICK q \in Prompt : bookCalls' = Append(bookCalls, [op |-> "savePrompt", new |-> n, id |-> q, is |-> bodies + 1])
  BY DEF Book!submitPrompt, Book!Call
<1>2. /\ bodies' = bodies + 1 /\ promptForm' = [promptForm EXCEPT !.busy = TRUE]
      /\ UNCHANGED <<savedPrompts, savedRoutines, prompts, routines, bookAnswers, routineForm, ranRoutine>>
  BY DEF Book!submitPrompt, Book!rows, Book!stores
<1> DEFINE c == [op |-> "savePrompt", new |-> n, id |-> q, is |-> bodies + 1]
<1>3. n \in BOOLEAN
  OBVIOUS
<1> HIDE DEF n
<1>4. bodies \in Nat /\ bodies + 1 \in Nat
  BY DEF BookInv, BookRows
<1>5. c \in BookCall /\ c.op = "savePrompt" /\ c.is = bodies + 1
  BY <1>3, <1>4 DEF BookCall
<1>6. bookCalls' = Append(bookCalls, c)
  BY <1>1
<1> HIDE DEF c
<1>7. /\ bookCalls \in Seq(BookCall) /\ BodiesInOrder(bookCalls, savedPrompts, bodies) /\ DueAsked(bookCalls, savedPrompts, bodies)
      /\ savedPrompts \in [Prompt -> Body]
  BY DEF BookInv, BookTravel, BookRows, BookDue
<1>8. BodiesInOrder(Append(bookCalls, c), savedPrompts, bodies + 1) /\ DueAsked(Append(bookCalls, c), savedPrompts, bodies + 1)
  BY <1>4, <1>5, <1>7, SaveAsked
<1>9. BookDue'
  BY <1>2, <1>6, <1>8 DEF BookInv, BookDue, Book!DueRunsTheSavedPrompt
<1>10. BookForms' /\ BookRows'
  BY <1>2, <1>4 DEF BookInv, BookForms, BookRows
<1>11. BookTravel'
  BY <1>2, <1>5, <1>6, <1>7 DEF BookInv, BookTravel
<1>12. BookBusy'
  <2>1. FormWaits(bookCalls', bookAnswers, "savePrompt", "savedPrompt", "prompt")
    BY <1>5, <1>6, <1>7, FormAsked
  <2>2. routineForm.busy => FormWaits(bookCalls', bookAnswers, "saveRoutine", "savedRoutine", "routine")
    BY <1>5, <1>6, <1>7, FormAsked DEF BookInv, BookBusy
  <2> QED BY <1>2, <2>1, <2>2 DEF BookBusy
<1> QED BY <1>9, <1>10, <1>11, <1>12 DEF BookInv

LEMMA NextBook == ASSUME BookInv, Book!BookNext \/ UNCHANGED book PROVE BookInv'
<1>1. CASE UNCHANGED book
  <2>1. UNCHANGED <<savedPrompts, savedRoutines, prompts, routines, bookCalls, bookAnswers, bodies, promptForm, routineForm, ranRoutine>>
    BY <1>1 DEF book
  <2>2. BookForms' /\ BookRows' /\ BookTravel'
    BY <2>1 DEF BookInv, BookForms, BookRows, BookTravel
  <2>3. BookBusy'
    BY <2>1 DEF BookInv, BookBusy
  <2>4. BookDue'
    BY <2>1 DEF BookInv, BookDue, Book!DueRunsTheSavedPrompt
  <2> QED BY <2>2, <2>3, <2>4 DEF BookInv
<1> QED BY <1>1, BookServed, BookRuns, BookArrives, BookUses, BookLoads, BookSaves DEF Book!BookNext

\* Of a list l, the answers to its loads, to its saves s and to its removals r say what the row x is.
Touches2(l, s, r, x) == {m \in BookAnswer : m.op = l \/ (m.op \in {s, r} /\ m.id = x)}
SaysRow(l, s, r, x, v) ==
  {m \in BookAnswer : (m.op = l => m.is[x] = v) /\ (m.op = s => m.is = v) /\ (m.op = r => v = None)}
ListShown(l, s, r, X, a, is, here, there) ==
  \A x \in X : LastSays(a, Touches2(l, s, r, x), SaysRow(l, s, r, x, there[x]), is => here[x] = there[x])
BookLists ==
  /\ ListShown("prompts", "savedPrompt", "removedPrompt", Prompt, bookAnswers, "prompts" \in listsLoaded, prompts, savedPrompts)
  /\ ListShown("routines", "savedRoutine", "removedRoutine", Routine, bookAnswers, "routines" \in listsLoaded, routines, savedRoutines)

LEMMA ListTold ==
  ASSUME NEW l, NEW s, NEW r, NEW X, NEW a \in Seq(BookAnswer), NEW m \in BookAnswer, NEW is, NEW here, NEW there, NEW next,
         ListShown(l, s, r, X, a, is, here, there),
         \A x \in X : /\ m \in Touches2(l, s, r, x) => m \in SaysRow(l, s, r, x, next[x])
                      /\ m \notin Touches2(l, s, r, x) => next[x] = there[x]
  PROVE  ListShown(l, s, r, X, Append(a, m), is, here, next)
<1> SUFFICES ASSUME NEW x \in X
             PROVE  LastSays(Append(a, m), Touches2(l, s, r, x), SaysRow(l, s, r, x, next[x]), is => here[x] = next[x])
  BY DEF ListShown
<1>1. LastSays(a, Touches2(l, s, r, x), SaysRow(l, s, r, x, there[x]), is => here[x] = there[x])
  BY DEF ListShown
<1>2. m \notin Touches2(l, s, r, x) => LastSays(a, Touches2(l, s, r, x), SaysRow(l, s, r, x, next[x]), is => here[x] = next[x])
  BY <1>1
<1> QED BY <1>2, LastTold

\* A list that was here is then as the answer m says.
Follows(m, l, s, r, X, is, here, there, as, then) ==
  \A x \in X : /\ m \in Touches2(l, s, r, x) /\ m \in SaysRow(l, s, r, x, there[x]) => then[x] = there[x]
               /\ m \notin Touches2(l, s, r, x) => then[x] = here[x] /\ (as => is)

LEMMA ListHeard ==
  ASSUME NEW l, NEW s, NEW r, NEW X, NEW a \in Seq(BookAnswer), a # <<>>, NEW m, m = Head(a), NEW is, NEW here, NEW there,
         ListShown(l, s, r, X, a, is, here, there), NEW as, NEW then,
         Follows(m, l, s, r, X, is, here, there, as, then)
  PROVE  ListShown(l, s, r, X, Tail(a), as, then, there)
<1> SUFFICES ASSUME NEW x \in X
             PROVE  LastSays(Tail(a), Touches2(l, s, r, x), SaysRow(l, s, r, x, there[x]), as => then[x] = there[x])
  BY DEF ListShown
<1>1. LastSays(a, Touches2(l, s, r, x), SaysRow(l, s, r, x, there[x]), is => here[x] = there[x])
  BY DEF ListShown
<1>2. Head(a) \in Touches2(l, s, r, x) /\ Head(a) \in SaysRow(l, s, r, x, there[x]) => (as => then[x] = there[x])
  BY DEF Follows
<1>3. Head(a) \notin Touches2(l, s, r, x) /\ (is => here[x] = there[x]) => (as => then[x] = there[x])
  BY DEF Follows
<1> QED BY <1>1, <1>2, <1>3, LastHeard

LEMMA BookListsShow == ASSUME BookInv, BookLists PROVE Book!QuietBookIsMain
<1> SUFFICES ASSUME bookAnswers = <<>>
             PROVE  /\ "prompts" \in listsLoaded => prompts = savedPrompts
                    /\ "routines" \in listsLoaded => routines = savedRoutines
  BY DEF Book!QuietBookIsMain
<1>1. /\ prompts \in [Prompt -> Body] /\ savedPrompts \in [Prompt -> Body]
      /\ routines \in [Routine -> Prompt \cup {None}] /\ savedRoutines \in [Routine -> Prompt \cup {None}]
  BY DEF BookInv, BookRows
<1>2. \A q \in Prompt : "prompts" \in listsLoaded => prompts[q] = savedPrompts[q]
  BY LastSaid DEF BookLists, ListShown
<1>3. \A q \in Routine : "routines" \in listsLoaded => routines[q] = savedRoutines[q]
  BY LastSaid DEF BookLists, ListShown
<1> QED BY <1>1, <1>2, <1>3

LEMMA InitBookLists == Book!BookInit => BookLists
<1> SUFFICES ASSUME Book!BookInit PROVE BookLists
  OBVIOUS
<1>1. bookAnswers = <<>> /\ listsLoaded = {}
  BY DEF Book!BookInit
<1> QED BY <1>1 DEF BookLists, ListShown, LastSays

\* Main answers: it tells what it did to a row.
LEMMA ListsAnswered ==
  ASSUME BookInv, BookInv', BookLists,
         Book!listPrompts \/ Book!listRoutines \/ Book!SavePrompt \/ Book!SaveRoutine \/ Book!deletePrompt \/ Book!deleteRoutine \/ Book!Fails
  PROVE  BookLists'
<1> DEFINE c == Head(bookCalls)
<1>1. bookCalls # <<>>
  BY DEF Book!listPrompts, Book!listRoutines, Book!SavePrompt, Book!SaveRoutine, Book!deletePrompt, Book!deleteRoutine, Book!Fails, Book!Served
<1>2. c \in BookCall /\ bookAnswers \in Seq(BookAnswer) /\ bookAnswers' \in Seq(BookAnswer)
      /\ savedPrompts \in [Prompt -> Body] /\ savedRoutines \in [Routine -> Prompt \cup {None}]
  BY <1>1, TailIs DEF BookInv, BookTravel, BookRows
<1> HIDE DEF c
<1>3. /\ c.op = "savePrompt" => c.id \in Prompt
      /\ c.op = "saveRoutine" => c.id \in Routine
      /\ c.op = "removePrompt" => c.id \in Prompt
      /\ c.op = "removeRoutine" => c.id \in Routine
  BY <1>2, BookCallIs
<1>4. ASSUME NEW m, Book!Answer(m),
             \A q \in Prompt : /\ m \in Touches2("prompts", "savedPrompt", "removedPrompt", q) => m \in SaysRow("prompts", "savedPrompt", "removedPrompt", q, savedPrompts'[q])
                               /\ m \notin Touches2("prompts", "savedPrompt", "removedPrompt", q) => savedPrompts'[q] = savedPrompts[q],
             \A q \in Routine : /\ m \in Touches2("routines", "savedRoutine", "removedRoutine", q) => m \in SaysRow("routines", "savedRoutine", "removedRoutine", q, savedRoutines'[q])
                                /\ m \notin Touches2("routines", "savedRoutine", "removedRoutine", q) => savedRoutines'[q] = savedRoutines[q]
      PROVE  BookLists'
  <2>1. bookAnswers' = Append(bookAnswers, m) /\ UNCHANGED <<prompts, routines, listsLoaded>>
    BY <1>4 DEF Book!Answer, Book!stores
  <2>2. m \in BookAnswer
    BY <1>2, <2>1, LastIsIn
  <2>3. ListShown("prompts", "savedPrompt", "removedPrompt", Prompt, Append(bookAnswers, m), "prompts" \in listsLoaded, prompts, savedPrompts')
    BY <1>2, <1>4, <2>2, ListTold DEF BookLists
  <2>4. ListShown("routines", "savedRoutine", "removedRoutine", Routine, Append(bookAnswers, m), "routines" \in listsLoaded, routines, savedRoutines')
    BY <1>2, <1>4, <2>2, ListTold DEF BookLists
  <2> QED BY <2>1, <2>3, <2>4 DEF BookLists, ListShown, Touches2, SaysRow
<1>5. ASSUME NEW m, m \in BookAnswer, m.op \notin {"prompts", "routines", "savedPrompt", "savedRoutine", "removedPrompt", "removedRoutine"},
             Book!Answer(m), UNCHANGED <<savedPrompts, savedRoutines>>
      PROVE  BookLists'
  <2>1. /\ \A q \in Prompt : m \notin Touches2("prompts", "savedPrompt", "removedPrompt", q)
        /\ \A q \in Routine : m \notin Touches2("routines", "savedRoutine", "removedRoutine", q)
    BY <1>5 DEF Touches2
  <2> QED BY <1>4, <1>5, <2>1
<1>6. ASSUME NEW m, Book!Answer(m) PROVE m \in BookAnswer
  <2>1. bookAnswers' = Append(bookAnswers, m)
    BY <1>6 DEF Book!Answer
  <2> QED BY <1>2, <2>1, LastIsIn
<1>7. \A m : m.op \notin {"routines", "savedRoutine", "removedRoutine"} =>
        \A q \in Routine : m \notin Touches2("routines", "savedRoutine", "removedRoutine", q)
  BY DEF Touches2
<1>8. \A m : m.op \notin {"prompts", "savedPrompt", "removedPrompt"} =>
        \A q \in Prompt : m \notin Touches2("prompts", "savedPrompt", "removedPrompt", q)
  BY DEF Touches2
<1>9. CASE Book!listPrompts
  <2>1. UNCHANGED <<savedPrompts, savedRoutines>>
    BY <1>9 DEF Book!listPrompts, Book!rows
  <2>2. CASE \E x, y : Book!Answer([op |-> "due", is |-> savedPrompts, promptId |-> x, due |-> y])
    <3>1. PICK x, y : Book!Answer([op |-> "due", is |-> savedPrompts, promptId |-> x, due |-> y])
      BY <2>2
    <3> DEFINE m == [op |-> "due", is |-> savedPrompts, promptId |-> x, due |-> y]
    <3>2. Book!Answer(m) /\ m.op = "due"
      BY <3>1
    <3> HIDE DEF m
    <3> QED BY <1>5, <1>6, <2>1, <3>2
  <2>3. CASE Book!Answer([op |-> "prompts", is |-> savedPrompts])
    <3> DEFINE m == [op |-> "prompts", is |-> savedPrompts]
    <3>1. Book!Answer(m) /\ m.op = "prompts" /\ m.is = savedPrompts
      BY <2>3
    <3> HIDE DEF m
    <3>2. m \in BookAnswer
      BY <1>6, <3>1
    <3>3. \A q \in Prompt : m \in Touches2("prompts", "savedPrompt", "removedPrompt", q) /\ m \in SaysRow("prompts", "savedPrompt", "removedPrompt", q, savedPrompts'[q])
      BY <2>1, <3>1, <3>2 DEF Touches2, SaysRow
    <3>4. \A q \in Routine : m \notin Touches2("routines", "savedRoutine", "removedRoutine", q)
      BY <1>7, <3>1
    <3> QED BY <1>4, <2>1, <3>1, <3>3, <3>4
  <2> QED BY <1>9, <2>2, <2>3 DEF Book!listPrompts
<1>10. CASE Book!listRoutines
  <2>1. UNCHANGED <<savedPrompts, savedRoutines>>
    BY <1>10 DEF Book!listRoutines, Book!rows
  <2> DEFINE m == [op |-> "routines", is |-> savedRoutines]
  <2>2. Book!Answer(m) /\ m.op = "routines" /\ m.is = savedRoutines
    BY <1>10 DEF Book!listRoutines
  <2> HIDE DEF m
  <2>3. m \in BookAnswer
    BY <1>6, <2>2
  <2>4. \A q \in Routine : m \in Touches2("routines", "savedRoutine", "removedRoutine", q) /\ m \in SaysRow("routines", "savedRoutine", "removedRoutine", q, savedRoutines'[q])
    BY <2>1, <2>2, <2>3 DEF Touches2, SaysRow
  <2>5. \A q \in Prompt : m \notin Touches2("prompts", "savedPrompt", "removedPrompt", q)
    BY <1>8, <2>2
  <2> QED BY <1>4, <2>1, <2>2, <2>4, <2>5
<1>11. ASSUME NEW m, NEW i \in Prompt, NEW v, savedPrompts' = [savedPrompts EXCEPT ![i] = v], savedRoutines' = savedRoutines, Book!Answer(m),
              m.id = i, (m.op = "savedPrompt" /\ m.is = v) \/ (m.op = "removedPrompt" /\ v = None)
       PROVE  BookLists'
  <2>1. m \in BookAnswer
    BY <1>6, <1>11
  <2>2. savedPrompts'[i] = v /\ \A q \in Prompt : q # i => savedPrompts'[q] = savedPrompts[q]
    BY <1>2, <1>11
  <2>3. \A q \in Prompt : m \in Touches2("prompts", "savedPrompt", "removedPrompt", q) <=> q = i
    BY <1>11, <2>1 DEF Touches2
  <2>4. m \in SaysRow("prompts", "savedPrompt", "removedPrompt", i, savedPrompts'[i])
    BY <1>11, <2>1, <2>2 DEF SaysRow
  <2>5. \A q \in Routine : m \notin Touches2("routines", "savedRoutine", "removedRoutine", q)
    BY <1>7, <1>11
  <2> QED BY <1>4, <1>11, <2>2, <2>3, <2>4, <2>5
<1>12. ASSUME NEW m, NEW i \in Routine, NEW v, savedRoutines' = [savedRoutines EXCEPT ![i] = v], savedPrompts' = savedPrompts, Book!Answer(m),
              m.id = i, (m.op = "savedRoutine" /\ m.is = v) \/ (m.op = "removedRoutine" /\ v = None)
       PROVE  BookLists'
  <2>1. m \in BookAnswer
    BY <1>6, <1>12
  <2>2. savedRoutines'[i] = v /\ \A q \in Routine : q # i => savedRoutines'[q] = savedRoutines[q]
    BY <1>2, <1>12
  <2>3. \A q \in Routine : m \in Touches2("routines", "savedRoutine", "removedRoutine", q) <=> q = i
    BY <1>12, <2>1 DEF Touches2
  <2>4. m \in SaysRow("routines", "savedRoutine", "removedRoutine", i, savedRoutines'[i])
    BY <1>12, <2>1, <2>2 DEF SaysRow
  <2>5. \A q \in Prompt : m \notin Touches2("prompts", "savedPrompt", "removedPrompt", q)
    BY <1>8, <1>12
  <2> QED BY <1>4, <1>12, <2>2, <2>3, <2>4, <2>5
<1>13. ASSUME NEW f, Book!Answer([op |-> "failed", form |-> f]), UNCHANGED <<savedPrompts, savedRoutines>> PROVE BookLists'
  <2> DEFINE m == [op |-> "failed", form |-> f]
  <2>1. Book!Answer(m) /\ m.op = "failed"
    BY <1>13
  <2> HIDE DEF m
  <2> QED BY <1>5, <1>6, <1>13, <2>1
<1>14. CASE Book!SavePrompt
  <2>1. c.op = "savePrompt" /\ savedRoutines' = savedRoutines
    BY <1>14 DEF Book!SavePrompt, Book!Served, c
  <2>2. CASE savedPrompts' = [savedPrompts EXCEPT ![c.id] = c.is] /\ Book!Answer([op |-> "savedPrompt", id |-> c.id, is |-> c.is])
    <3> DEFINE m == [op |-> "savedPrompt", id |-> c.id, is |-> c.is]
    <3>1. Book!Answer(m) /\ m.op = "savedPrompt" /\ m.id = c.id /\ m.is = c.is
      BY <2>2
    <3> HIDE DEF m
    <3> QED BY <1>3, <1>11, <2>1, <2>2, <3>1
  <2>3. CASE UNCHANGED savedPrompts /\ Book!Answer([op |-> "failed", form |-> "prompt"])
    BY <1>13, <2>1, <2>3
  <2> QED BY <1>14, <2>2, <2>3 DEF Book!SavePrompt, c
<1>15. CASE Book!SaveRoutine
  <2>1. c.op = "saveRoutine" /\ savedPrompts' = savedPrompts
    BY <1>15 DEF Book!SaveRoutine, Book!Served, c
  <2>2. CASE savedRoutines' = [savedRoutines EXCEPT ![c.id] = c.is] /\ Book!Answer([op |-> "savedRoutine", id |-> c.id, is |-> c.is])
    <3> DEFINE m == [op |-> "savedRoutine", id |-> c.id, is |-> c.is]
    <3>1. Book!Answer(m) /\ m.op = "savedRoutine" /\ m.id = c.id /\ m.is = c.is
      BY <2>2
    <3> HIDE DEF m
    <3> QED BY <1>3, <1>12, <2>1, <2>2, <3>1
  <2>3. CASE UNCHANGED savedRoutines /\ Book!Answer([op |-> "failed", form |-> "routine"])
    BY <1>13, <2>1, <2>3
  <2> QED BY <1>15, <2>2, <2>3 DEF Book!SaveRoutine, c
<1>16. CASE Book!deletePrompt
  <2> DEFINE m == [op |-> "removedPrompt", id |-> c.id]
  <2>1. c.op = "removePrompt" /\ savedPrompts' = [savedPrompts EXCEPT ![c.id] = None] /\ savedRoutines' = savedRoutines
        /\ Book!Answer(m) /\ m.op = "removedPrompt" /\ m.id = c.id
    BY <1>16 DEF Book!deletePrompt, Book!Served, c
  <2> HIDE DEF m
  <2> QED BY <1>3, <1>11, <2>1
<1>17. CASE Book!deleteRoutine
  <2> DEFINE m == [op |-> "removedRoutine", id |-> c.id]
  <2>1. c.op = "removeRoutine" /\ savedRoutines' = [savedRoutines EXCEPT ![c.id] = None] /\ savedPrompts' = savedPrompts
        /\ Book!Answer(m) /\ m.op = "removedRoutine" /\ m.id = c.id
    BY <1>17 DEF Book!deleteRoutine, Book!Served, c
  <2> HIDE DEF m
  <2> QED BY <1>3, <1>12, <2>1
<1>18. CASE Book!Fails
  <2>1. UNCHANGED <<savedPrompts, savedRoutines>> /\ \E f : Book!Answer([op |-> "failed", form |-> f])
    BY <1>18 DEF Book!Fails, Book!rows
  <2> QED BY <1>13, <2>1
<1> QED BY <1>9, <1>10, <1>14, <1>15, <1>16, <1>17, <1>18

\* What is on its way to the window is as before, and so are the rows and the lists.
LEMMA ListsKept ==
  ASSUME BookLists, UNCHANGED <<bookAnswers, savedPrompts, savedRoutines, prompts, routines, listsLoaded>>
  PROVE  BookLists'
BY DEF BookLists, ListShown, LastSays, Touches2, SaysRow

\* The window hears an answer a list does not follow.
LEMMA ListUnheard ==
  ASSUME NEW l, NEW s, NEW r, NEW X, NEW a \in Seq(BookAnswer), a # <<>>, NEW m, m = Head(a), NEW is, NEW here, NEW there,
         ListShown(l, s, r, X, a, is, here, there), \A x \in X : m \notin Touches2(l, s, r, x)
  PROVE  ListShown(l, s, r, X, Tail(a), is, here, there)
BY ListHeard DEF Follows

\* The window hears an answer.
LEMMA ListsHeard ==
  ASSUME BookInv, BookLists,
         Book!PromptsArrive \/ Book!RoutinesArrive \/ Book!Refused \/ Book!onTrigger \/ Book!runDue
  PROVE  BookLists'
<1> DEFINE m == Head(bookAnswers)
           Ps(a, is, here) == ListShown("prompts", "savedPrompt", "removedPrompt", Prompt, a, is, here, savedPrompts)
           Rs(a, is, here) == ListShown("routines", "savedRoutine", "removedRoutine", Routine, a, is, here, savedRoutines)
<1>1. bookAnswers # <<>> /\ bookAnswers' = Tail(bookAnswers) /\ UNCHANGED <<savedPrompts, savedRoutines>>
  BY DEF Book!PromptsArrive, Book!RoutinesArrive, Book!Refused, Book!onTrigger, Book!runDue, Book!AnswerIs, Book!rows
<1>2. bookAnswers \in Seq(BookAnswer) /\ m \in BookAnswer
      /\ prompts \in [Prompt -> Body] /\ routines \in [Routine -> Prompt \cup {None}]
  BY <1>1, TailIs DEF BookInv, BookTravel, BookRows
<1>3. Ps(bookAnswers, "prompts" \in listsLoaded, prompts) /\ Rs(bookAnswers, "routines" \in listsLoaded, routines)
  BY DEF BookLists
<1>4. /\ m.op = "savedPrompt" => m.id \in Prompt
      /\ m.op = "savedRoutine" => m.id \in Routine
      /\ m.op = "removedPrompt" => m.id \in Prompt
      /\ m.op = "removedRoutine" => m.id \in Routine
  BY <1>2, BookAnswerIs
<1>5. m.op \notin {"prompts", "savedPrompt", "removedPrompt"} /\ UNCHANGED <<prompts, listsLoaded>>
        => Ps(Tail(bookAnswers), ("prompts" \in listsLoaded)', prompts')
  <2> SUFFICES ASSUME m.op \notin {"prompts", "savedPrompt", "removedPrompt"}, UNCHANGED <<prompts, listsLoaded>>
               PROVE  Ps(Tail(bookAnswers), "prompts" \in listsLoaded, prompts)
    OBVIOUS
  <2>1. \A q \in Prompt : m \notin Touches2("prompts", "savedPrompt", "removedPrompt", q)
    BY DEF Touches2
  <2> QED BY <1>1, <1>2, <1>3, <2>1, ListUnheard
<1>6. m.op \notin {"routines", "savedRoutine", "removedRoutine"} /\ UNCHANGED <<routines, listsLoaded>>
        => Rs(Tail(bookAnswers), ("routines" \in listsLoaded)', routines')
  <2> SUFFICES ASSUME m.op \notin {"routines", "savedRoutine", "removedRoutine"}, UNCHANGED <<routines, listsLoaded>>
               PROVE  Rs(Tail(bookAnswers), "routines" \in listsLoaded, routines)
    OBVIOUS
  <2>1. \A q \in Routine : m \notin Touches2("routines", "savedRoutine", "removedRoutine", q)
    BY DEF Touches2
  <2> QED BY <1>1, <1>2, <1>3, <2>1, ListUnheard
<1>7. Ps(Tail(bookAnswers), ("prompts" \in listsLoaded)', prompts') /\ Rs(Tail(bookAnswers), ("routines" \in listsLoaded)', routines')
        => BookLists'
  BY <1>1 DEF BookLists, ListShown, LastSays, Touches2, SaysRow
<1>8. CASE Book!PromptsArrive
  <2>1. m.op \in {"prompts", "savedPrompt", "removedPrompt"} /\ UNCHANGED routines
        /\ (("routines" \in listsLoaded)' <=> "routines" \in listsLoaded)
    BY <1>8 DEF Book!PromptsArrive, Book!AnswerIs
  <2>2. \A x \in Routine : m \notin Touches2("routines", "savedRoutine", "removedRoutine", x)
    BY <2>1 DEF Touches2
  <2>3. Rs(Tail(bookAnswers), "routines" \in listsLoaded, routines)
    BY <1>1, <1>2, <1>3, <2>2, ListUnheard
  <2>4. ASSUME NEW x \in Prompt
        PROVE  /\ m \in Touches2("prompts", "savedPrompt", "removedPrompt", x)
                    /\ m \in SaysRow("prompts", "savedPrompt", "removedPrompt", x, savedPrompts[x]) => prompts'[x] = savedPrompts[x]
               /\ m \notin Touches2("prompts", "savedPrompt", "removedPrompt", x)
                    => prompts'[x] = prompts[x] /\ (("prompts" \in listsLoaded)' => "prompts" \in listsLoaded)
    BY <1>2, <1>4, <1>8 DEF Book!PromptsArrive, Book!AnswerIs, Touches2, SaysRow
  <2>7. ASSUME NEW as, NEW then,
               \A x \in Prompt : /\ m \in Touches2("prompts", "savedPrompt", "removedPrompt", x) /\ m \in SaysRow("prompts", "savedPrompt", "removedPrompt", x, savedPrompts[x]) => then[x] = savedPrompts[x]
                                 /\ m \notin Touches2("prompts", "savedPrompt", "removedPrompt", x) => then[x] = prompts[x] /\ (as => "prompts" \in listsLoaded)
        PROVE  Ps(Tail(bookAnswers), as, then)
    <3> DEFINE is == "prompts" \in listsLoaded
               S == savedPrompts
    <3>1. ListShown("prompts", "savedPrompt", "removedPrompt", Prompt, bookAnswers, is, prompts, S)
      BY <1>3
    <3>2. Follows(m, "prompts", "savedPrompt", "removedPrompt", Prompt, is, prompts, S, as, then)
      BY <2>7 DEF Follows
    <3>3. bookAnswers \in Seq(BookAnswer) /\ bookAnswers # <<>> /\ m = Head(bookAnswers)
      BY <1>1, <1>2
    <3> HIDE DEF m, is, S
    <3>4. ListShown("prompts", "savedPrompt", "removedPrompt", Prompt, Tail(bookAnswers), as, then, S)
      BY <3>1, <3>2, <3>3, ListHeard
    <3> QED BY <3>4 DEF S
  <2>5. Ps(Tail(bookAnswers), ("prompts" \in listsLoaded)', prompts')
    BY <2>4, <2>7
  <2>6. Rs(Tail(bookAnswers), ("routines" \in listsLoaded)', routines')
    BY <2>1, <2>3 DEF ListShown, LastSays
  <2> QED BY <1>7, <2>5, <2>6
<1>9. CASE Book!RoutinesArrive
  <2>1. m.op \in {"routines", "savedRoutine", "removedRoutine"} /\ UNCHANGED prompts
        /\ (("prompts" \in listsLoaded)' <=> "prompts" \in listsLoaded)
    BY <1>9 DEF Book!RoutinesArrive, Book!AnswerIs
  <2>2. \A x \in Prompt : m \notin Touches2("prompts", "savedPrompt", "removedPrompt", x)
    BY <2>1 DEF Touches2
  <2>3. Ps(Tail(bookAnswers), "prompts" \in listsLoaded, prompts)
    BY <1>1, <1>2, <1>3, <2>2, ListUnheard
  <2>4. ASSUME NEW x \in Routine
        PROVE  /\ m \in Touches2("routines", "savedRoutine", "removedRoutine", x)
                    /\ m \in SaysRow("routines", "savedRoutine", "removedRoutine", x, savedRoutines[x]) => routines'[x] = savedRoutines[x]
               /\ m \notin Touches2("routines", "savedRoutine", "removedRoutine", x)
                    => routines'[x] = routines[x] /\ (("routines" \in listsLoaded)' => "routines" \in listsLoaded)
    BY <1>2, <1>4, <1>9 DEF Book!RoutinesArrive, Book!AnswerIs, Touches2, SaysRow
  <2>7. ASSUME NEW as, NEW then,
               \A x \in Routine : /\ m \in Touches2("routines", "savedRoutine", "removedRoutine", x) /\ m \in SaysRow("routines", "savedRoutine", "removedRoutine", x, savedRoutines[x]) => then[x] = savedRoutines[x]
                                  /\ m \notin Touches2("routines", "savedRoutine", "removedRoutine", x) => then[x] = routines[x] /\ (as => "routines" \in listsLoaded)
        PROVE  Rs(Tail(bookAnswers), as, then)
    <3> DEFINE is == "routines" \in listsLoaded
               S == savedRoutines
    <3>1. ListShown("routines", "savedRoutine", "removedRoutine", Routine, bookAnswers, is, routines, S)
      BY <1>3
    <3>2. Follows(m, "routines", "savedRoutine", "removedRoutine", Routine, is, routines, S, as, then)
      BY <2>7 DEF Follows
    <3>3. bookAnswers \in Seq(BookAnswer) /\ bookAnswers # <<>> /\ m = Head(bookAnswers)
      BY <1>1, <1>2
    <3> HIDE DEF m, is, S
    <3>4. ListShown("routines", "savedRoutine", "removedRoutine", Routine, Tail(bookAnswers), as, then, S)
      BY <3>1, <3>2, <3>3, ListHeard
    <3> QED BY <3>4 DEF S
  <2>5. Rs(Tail(bookAnswers), ("routines" \in listsLoaded)', routines')
    BY <2>4, <2>7
  <2>6. Ps(Tail(bookAnswers), ("prompts" \in listsLoaded)', prompts')
    BY <2>1, <2>3 DEF ListShown, LastSays
  <2> QED BY <1>7, <2>5, <2>6
<1>10. CASE Book!Refused \/ Book!onTrigger \/ Book!runDue
  <2>1. m.op \in {"failed", "trigger", "due"} /\ UNCHANGED <<prompts, routines, listsLoaded>>
    BY <1>10 DEF Book!Refused, Book!onTrigger, Book!runDue, Book!AnswerIs, Book!stores
  <2> QED BY <1>5, <1>6, <1>7, <2>1
<1> QED BY <1>8, <1>9, <1>10

LEMMA NextBookLists == ASSUME BookInv, BookInv', BookLists, Book!BookNext \/ UNCHANGED book PROVE BookLists'
<1>1. CASE UNCHANGED book \/ Book!load \/ Book!openPrompt \/ Book!openRoutine \/ Book!choosePrompt \/ Book!close \/ Book!submitPrompt
           \/ Book!submitRoutine \/ Book!remove \/ Book!runNow \/ Book!openAgent \/ Book!runInAgent
  <2>1. UNCHANGED <<bookAnswers, savedPrompts, savedRoutines, prompts, routines, listsLoaded>>
    BY <1>1 DEF book, Book!load, Book!openPrompt, Book!openRoutine, Book!choosePrompt, Book!close, Book!submitPrompt, Book!submitRoutine,
                Book!remove, Book!runNow, Book!openAgent, Book!runInAgent, Book!rows, Book!stores
  <2> QED BY <2>1, ListsKept
<1>2. CASE Book!Trigger
  <2>1. PICK r \in Routine : bookAnswers' = Append(bookAnswers, [op |-> "trigger", promptId |-> savedRoutines[r]])
    BY <1>2 DEF Book!Trigger
  <2> DEFINE m == [op |-> "trigger", promptId |-> savedRoutines[r]]
  <2>2. m.op = "trigger" /\ bookAnswers' = Append(bookAnswers, m)
    BY <2>1
  <2> HIDE DEF m
  <2>3. UNCHANGED <<savedPrompts, savedRoutines, prompts, routines, listsLoaded>>
    BY <1>2 DEF Book!Trigger, Book!rows, Book!stores
  <2>4. bookAnswers \in Seq(BookAnswer) /\ bookAnswers' \in Seq(BookAnswer)
    BY DEF BookInv, BookTravel
  <2>5. m \in BookAnswer
    BY <2>2, <2>4, LastIsIn
  <2>6. /\ \A q \in Prompt : m \notin Touches2("prompts", "savedPrompt", "removedPrompt", q)
        /\ \A q \in Routine : m \notin Touches2("routines", "savedRoutine", "removedRoutine", q)
    BY <2>2 DEF Touches2
  <2>7. ListShown("prompts", "savedPrompt", "removedPrompt", Prompt, Append(bookAnswers, m), "prompts" \in listsLoaded, prompts, savedPrompts)
    BY <2>4, <2>5, <2>6, ListTold DEF BookLists
  <2>8. ListShown("routines", "savedRoutine", "removedRoutine", Routine, Append(bookAnswers, m), "routines" \in listsLoaded, routines, savedRoutines)
    BY <2>4, <2>5, <2>6, ListTold DEF BookLists
  <2> QED BY <2>2, <2>3, <2>7, <2>8 DEF BookLists, ListShown, LastSays, Touches2, SaysRow
<1> QED BY <1>1, <1>2, ListsAnswered, ListsHeard DEF Book!BookNext

-----------------------------------------------------------------------------
(* The dialog of the groups *)

TreeOfGroups == Folders!TypeOK /\ Folders!ReferencesLive /\ Folders!Forest

\* A new group has no subgroups yet.
LEMMA NewGroupIsALeaf ==
  ASSUME TreeOfGroups, NEW g \in Group, NEW p \in Group \cup {Top}, Folders!createGroup(g, p)
  PROVE  Folders!Forest'
<1> SUFFICES ASSUME NEW S \in SUBSET Group, S # {} PROVE \E x \in S : parent'[x] \notin S
  BY DEF Folders!Forest
<1>1. parent \in [Group -> Group \cup {Top}] /\ g \notin groups /\ p \in groups \cup {Top}
  BY DEF TreeOfGroups, Folders!TypeOK, Folders!createGroup
<1>2. \A x \in Group : parent'[x] = IF x = g THEN p ELSE parent[x]
  BY <1>1 DEF Folders!createGroup
<1>3. p \notin {g} /\ \A x \in Group : parent[x] # g
  BY <1>1, TopAssumption DEF TreeOfGroups, Folders!ReferencesLive
<1>4. CASE S \ {g} = {}
  BY <1>2, <1>3, <1>4
<1>5. CASE S \ {g} # {}
  <2>1. PICK x \in S \ {g} : parent[x] \notin S \ {g}
    BY <1>5 DEF TreeOfGroups, Folders!Forest
  <2> QED BY <2>1, <1>2, <1>3
<1> QED BY <1>4, <1>5

\* Were S a loop after the move, p would be in it, and what S shares with the ancestors of p
\* would have been a loop before.
LEMMA MovedGroupMakesNoLoop ==
  ASSUME TreeOfGroups, NEW g \in Group, NEW p \in Group \cup {Top}, Folders!updateGroup(g, p)
  PROVE  Folders!Forest'
<1> SUFFICES ASSUME NEW S \in SUBSET Group, S # {}, \A x \in S : parent'[x] \in S PROVE FALSE
  BY DEF Folders!Forest
<1>1. parent \in [Group -> Group \cup {Top}]
  BY DEF TreeOfGroups, Folders!TypeOK
<1>2. \A x \in Group : parent'[x] = IF x = g THEN p ELSE parent[x]
  BY <1>1 DEF Folders!updateGroup
<1>3. CASE g \notin S
  <2>1. PICK x \in S : parent[x] \notin S
    BY DEF TreeOfGroups, Folders!Forest
  <2> QED BY <2>1, <1>2, <1>3
<1>4. CASE g \in S
  <2>1. p \in S
    BY <1>2, <1>4
  <2>2. g \notin Folders!Ancestors(p)
    BY <2>1, TopAssumption DEF Folders!updateGroup, Folders!wouldCycle
  <2>3. PICK C \in SUBSET Group : p \in C /\ Folders!Closed(C) /\ g \notin C
    BY <2>2, <1>4 DEF Folders!Ancestors
  <2>4. S \cap C # {}
    BY <2>1, <2>3
  <2>5. PICK x \in S \cap C : parent[x] \notin S \cap C
    BY <2>4 DEF TreeOfGroups, Folders!Forest
  <2>6. parent[x] \in S
    BY <2>3, <2>5, <1>2
  <2>7. parent[x] \in C
    BY <2>3, <2>5, <2>6, TopAssumption DEF Folders!Closed
  <2> QED BY <2>5, <2>6, <2>7
<1> QED BY <1>3, <1>4

\* A host is moved, to no group when it is deleted.
Moves == UNCHANGED <<groups, parent>> /\ \E h, g : g \in groups \cup {Top} /\ member' = [member EXCEPT ![h] = g]

LEMMA GroupsStay ==
  /\ Folders!Init => TreeOfGroups
  /\ TreeOfGroups /\ (Folders!Next \/ Moves \/ UNCHANGED <<groups, parent, member>>) => TreeOfGroups'
<1> USE TopAssumption
<1>1. ASSUME Folders!Init PROVE TreeOfGroups
  <2>1. Folders!TypeOK /\ Folders!ReferencesLive
    BY <1>1 DEF Folders!Init, Folders!TypeOK, Folders!ReferencesLive
  <2>2. \A g \in Group : parent[g] = Top
    BY <1>1 DEF Folders!Init
  <2>3. Folders!Forest
    BY <2>2 DEF Folders!Forest
  <2> QED BY <2>1, <2>3 DEF TreeOfGroups
<1>2. ASSUME TreeOfGroups, NEW g \in Group, NEW p \in Group \cup {Top}, Folders!createGroup(g, p) PROVE TreeOfGroups'
  <2>1. Folders!TypeOK'
    BY <1>2 DEF TreeOfGroups, Folders!TypeOK, Folders!createGroup
  <2>2. Folders!ReferencesLive'
    BY <1>2 DEF TreeOfGroups, Folders!TypeOK, Folders!ReferencesLive, Folders!createGroup
  <2> QED BY <1>2, <2>1, <2>2, NewGroupIsALeaf DEF TreeOfGroups
<1>3. ASSUME TreeOfGroups, NEW g \in Group, NEW p \in Group \cup {Top}, Folders!updateGroup(g, p) PROVE TreeOfGroups'
  <2>1. Folders!TypeOK'
    BY <1>3 DEF TreeOfGroups, Folders!TypeOK, Folders!updateGroup
  <2>2. Folders!ReferencesLive'
    BY <1>3 DEF TreeOfGroups, Folders!TypeOK, Folders!ReferencesLive, Folders!updateGroup
  <2> QED BY <1>3, <2>1, <2>2, MovedGroupMakesNoLoop DEF TreeOfGroups
<1>4. ASSUME TreeOfGroups, NEW g \in Group, Folders!deleteGroup(g) PROVE TreeOfGroups'
  <2>1. Folders!TypeOK'
    BY <1>4 DEF TreeOfGroups, Folders!TypeOK, Folders!deleteGroup
  <2>2. \A x \in Group : parent'[x] = IF x = g \/ parent[x] = g THEN Top ELSE parent[x]
    BY <1>4 DEF Folders!deleteGroup
  <2>3. \A h \in Host : member'[h] = IF member[h] = g THEN Top ELSE member[h]
    BY <1>4 DEF Folders!deleteGroup
  <2>4. groups' = groups \ {g}
    BY <1>4 DEF Folders!deleteGroup
  <2>5. Folders!ReferencesLive'
    BY <1>4, <2>2, <2>3, <2>4 DEF TreeOfGroups, Folders!ReferencesLive
  <2>6. Folders!Forest'
    <3> SUFFICES ASSUME NEW S \in SUBSET Group, S # {} PROVE \E x \in S : parent'[x] \notin S
      BY DEF Folders!Forest
    <3>1. PICK x \in S : parent[x] \notin S
      BY <1>4 DEF TreeOfGroups, Folders!Forest
    <3>2. parent'[x] \in {Top, parent[x]}
      BY <2>2
    <3> QED BY <3>1, <3>2
  <2> QED BY <2>1, <2>5, <2>6 DEF TreeOfGroups
<1>5. ASSUME TreeOfGroups, Moves PROVE TreeOfGroups'
  <2>1. Folders!TypeOK' /\ Folders!ReferencesLive'
    BY <1>5 DEF TreeOfGroups, Folders!TypeOK, Folders!ReferencesLive, Moves
  <2>2. Folders!Forest'
    BY <1>5 DEF TreeOfGroups, Folders!Forest, Moves
  <2> QED BY <2>1, <2>2 DEF TreeOfGroups
<1>7. ASSUME NEW h, NEW g, Folders!setHostGroup(h, g) PROVE Moves
  BY <1>7 DEF Folders!setHostGroup, Moves
<1>6. ASSUME TreeOfGroups, UNCHANGED <<groups, parent, member>> PROVE TreeOfGroups'
  BY <1>6 DEF TreeOfGroups, Folders!TypeOK, Folders!ReferencesLive, Folders!Forest
<1> QED BY <1>1, <1>2, <1>3, <1>4, <1>5, <1>6, <1>7 DEF Folders!Next

\* What is found downwards from g is what finds g upwards.
LEMMA BelowIsUnder ==
  ASSUME TreeOfGroups, NEW g \in groups, NEW p \in groups
  PROVE  p \in Folders!descendantIds(g) <=> g \in Folders!Ancestors(p)
<1>1. groups \subseteq Group
  BY DEF TreeOfGroups, Folders!TypeOK
<1>2. ASSUME p \in Folders!descendantIds(g) PROVE g \in Folders!Ancestors(p)
  <2> DEFINE D == {x \in groups : g \in Folders!Ancestors(x)}
  <2>1. g \in D
    BY <1>1 DEF Folders!Ancestors
  <2>2. ASSUME NEW y \in groups, parent[y] \in D PROVE y \in D
    <3>1. g \in Folders!Ancestors(parent[y]) /\ parent[y] # Top
      BY <2>2, <1>1, TopAssumption
    <3>2. ASSUME NEW C \in SUBSET Group, y \in C, Folders!Closed(C) PROVE g \in C
      <4>1. parent[y] \in C
        BY <3>1, <3>2 DEF Folders!Closed
      <4> QED BY <4>1, <3>1, <3>2 DEF Folders!Ancestors
    <3>3. g \in Folders!Ancestors(y)
      BY <3>2, <1>1 DEF Folders!Ancestors
    <3> QED BY <3>3
  <2>3. D \in SUBSET groups
    OBVIOUS
  <2> HIDE DEF D
  <2>4. p \in D
    BY <1>2, <2>1, <2>2, <2>3 DEF Folders!descendantIds
  <2> QED BY <2>4 DEF D
<1>3. ASSUME g \in Folders!Ancestors(p) PROVE p \in Folders!descendantIds(g)
  <2> SUFFICES ASSUME NEW C \in SUBSET groups, g \in C, \A y \in groups : parent[y] \in C => y \in C, p \notin C
               PROVE  FALSE
    BY DEF Folders!descendantIds
  <2> DEFINE E == groups \ C
  <2>1. Folders!Closed(E)
    BY <1>1 DEF Folders!Closed, TreeOfGroups, Folders!ReferencesLive
  <2>2. p \in E /\ E \in SUBSET Group
    BY <1>1
  <2> HIDE DEF E
  <2>3. g \in E
    BY <1>3, <2>1, <2>2 DEF Folders!Ancestors
  <2> QED BY <2>3 DEF E
<1> QED BY <1>2, <1>3

\* The messages: a delete and the list after it are of no form.
FolderCall ==
       [op : {"create"}, id : {Top}, parent : Group \cup {Top}, inForm : BOOLEAN, fresh : BOOLEAN]
  \cup [op : {"update"}, id : Group, parent : Group \cup {Top}, inForm : BOOLEAN, fresh : BOOLEAN]
  \cup [op : {"delete"}, id : Group, parent : {Top}, inForm : {FALSE}, fresh : BOOLEAN]
  \cup [op : {"list"}, id : {None}, parent : {Top}, inForm : {FALSE}, fresh : BOOLEAN]
FolderAnswer ==
       [op : {"created", "updated"}, id : Group, parent : Group \cup {Top}, inForm : BOOLEAN, fresh : BOOLEAN]
  \cup [op : {"refused"}, id : {None}, parent : {Top}, inForm : BOOLEAN, fresh : BOOLEAN]
  \cup [op : {"deleted"}, id : {None}, parent : {Top}, inForm : {FALSE}, fresh : BOOLEAN]
  \cup [op : {"list"}, id : SUBSET Group, parent : [Group -> Group \cup {Top}], inForm : {FALSE}, fresh : BOOLEAN]

FolderTypes ==
  /\ groupCalls \in Seq(FolderCall) /\ groupAnswers \in Seq(FolderAnswer)
  /\ shownGroups \subseteq Group /\ shownParent \in [Group -> Group \cup {Top}]
  /\ editedGroup \in Group \cup {Top, None} /\ parentId \in Group \cup {Top}
FolderFlags == submitting \in BOOLEAN /\ calmGroups \in BOOLEAN

\* A form that is submitted has its message on its way.
Sent(c, a) == (\E i \in DOMAIN c : c[i].inForm) \/ \E i \in DOMAIN a : a[i].inForm

\* What main accepts of a form of g (Top for a new one) with the parent p.
Accepts(g, p) ==
  /\ p \in groups \cup {Top}
  /\ g # Top => g \in groups /\ ~Folders!wouldCycle(g, p)
FreshCalls ==
  \A i \in DOMAIN groupCalls :
    groupCalls[i].op \in {"create", "update"} /\ groupCalls[i].fresh =>
      i = 1 /\ Accepts(groupCalls[i].id, groupCalls[i].parent)
FreshAnswers == \A i \in DOMAIN groupAnswers : groupAnswers[i].op = "refused" => ~groupAnswers[i].fresh

\* A form that was opened with nothing on its way: not sent yet, and on offer is what main
\* accepts; or sent, and alone on the way.
CalmForm ==
  editedGroup # None /\ calmGroups =>
    \/ Folders!Quiet /\ ~submitting /\ Accepts(editedGroup, parentId)
    \/ /\ submitting /\ Len(groupCalls) = 1 /\ groupAnswers = <<>>
       /\ groupCalls[1].op \in {"create", "update"} /\ groupCalls[1].fresh
    \/ submitting /\ groupCalls = <<>> /\ Len(groupAnswers) = 1 /\ groupAnswers[1].op \in {"created", "updated"}

\* The answers a, applied to what the window shows (s, t), make of it the groups G and their parents P.
Adds(m, g) == (m.op = "created" /\ m.id = g) \/ m.op = "list"
Sets(m, g) == (m.op \in {"created", "updated"} /\ m.id = g) \/ m.op = "list"
HasRow(m, g) == m.op = "created" \/ g \in m.id
ParentIn(m, g) == IF m.op = "list" THEN m.parent[g] ELSE m.parent
Mirror(a, s, t, G, P) ==
  \A g \in Group :
    /\ \A i \in DOMAIN a : Adds(a[i], g) /\ (\A k \in DOMAIN a : k > i => ~Adds(a[k], g)) => (g \in G <=> HasRow(a[i], g))
    /\ (\A i \in DOMAIN a : ~Adds(a[i], g)) => (g \in G <=> g \in s)
    /\ \A i \in DOMAIN a : g \in G /\ Sets(a[i], g) /\ (\A k \in DOMAIN a : k > i => ~Sets(a[k], g)) => P[g] = ParentIn(a[i], g)
    /\ g \in G /\ (\A i \in DOMAIN a : ~Sets(a[i], g)) => P[g] = t[g]

\* Another list is to come.
ToList(c, a) == (\E i \in DOMAIN c : c[i].op = "list") \/ \E i \in DOMAIN a : a[i].op = "deleted"

FolderInv ==
  /\ TreeOfGroups /\ FolderTypes /\ FolderFlags
  /\ submitting => Sent(groupCalls, groupAnswers)
  /\ FreshCalls /\ FreshAnswers /\ CalmForm
  /\ ToList(groupCalls, groupAnswers) \/ Mirror(groupAnswers, shownGroups, shownParent, groups, parent)

LEMMA QuietMirror == FolderInv => Folders!QuietGroupsAreMain
<1> SUFFICES ASSUME FolderInv, Folders!Quiet
             PROVE  shownGroups = groups /\ \A g \in groups : shownParent[g] = parent[g]
  BY DEF Folders!QuietGroupsAreMain
<1>1. groupCalls = <<>> /\ groupAnswers = <<>>
  BY DEF Folders!Quiet
<1>2. Mirror(groupAnswers, shownGroups, shownParent, groups, parent)
  BY <1>1 DEF FolderInv, ToList
<1>3. groups \subseteq Group /\ shownGroups \subseteq Group
  BY DEF FolderInv, TreeOfGroups, Folders!TypeOK, FolderTypes
<1>4. \A g \in Group : (g \in groups <=> g \in shownGroups) /\ (g \in groups => parent[g] = shownParent[g])
  BY <1>1, <1>2 DEF Mirror
<1> QED BY <1>3, <1>4

LEMMA FolderShows == FolderInv => Folders!FreshIsAccepted
<1> SUFFICES ASSUME FolderInv PROVE Folders!FreshIsAccepted
  OBVIOUS
<1>1. \A m \in Folders!Range(groupAnswers) : m.op = "refused" => ~m.fresh
  BY DEF FolderInv, FreshAnswers, Folders!Range
<1>2. submitting => \E m \in Folders!Range(groupCalls) \cup Folders!Range(groupAnswers) : m.inForm
  BY DEF FolderInv, Sent, Folders!Range
<1> QED BY <1>1, <1>2 DEF Folders!FreshIsAccepted

LEMMA MirrorTold ==
  ASSUME NEW T, NEW a \in Seq(T), NEW m \in T, NEW s, NEW t, NEW G, NEW P, Mirror(a, s, t, G, P), NEW H, NEW Q,
         \A g \in Group : /\ Adds(m, g) => (g \in H <=> HasRow(m, g))
                          /\ ~Adds(m, g) => (g \in H <=> g \in G)
                          /\ g \in H /\ Sets(m, g) => Q[g] = ParentIn(m, g)
                          /\ g \in H /\ ~Sets(m, g) => Q[g] = P[g]
  PROVE  Mirror(Append(a, m), s, t, H, Q)
<1> DEFINE p == Append(a, m)
           l == Len(a) + 1
<1>1. DOMAIN p = DOMAIN a \cup {l} /\ p[l] = m /\ \A i \in DOMAIN a : i \in Nat /\ i < l /\ p[i] = a[i]
  BY AppendIs
<1>2. l \in Nat
  OBVIOUS
<1> HIDE DEF p, l
<1> SUFFICES ASSUME NEW g \in Group
             PROVE  /\ \A i \in DOMAIN p : Adds(p[i], g) /\ (\A k \in DOMAIN p : k > i => ~Adds(p[k], g)) => (g \in H <=> HasRow(p[i], g))
                    /\ (\A i \in DOMAIN p : ~Adds(p[i], g)) => (g \in H <=> g \in s)
                    /\ \A i \in DOMAIN p : g \in H /\ Sets(p[i], g) /\ (\A k \in DOMAIN p : k > i => ~Sets(p[k], g)) => Q[g] = ParentIn(p[i], g)
                    /\ g \in H /\ (\A i \in DOMAIN p : ~Sets(p[i], g)) => Q[g] = t[g]
  BY DEF Mirror, p
<1>3. Adds(m, g) => Sets(m, g)
  BY DEF Adds, Sets
<1>4. ASSUME NEW i \in DOMAIN p, Adds(p[i], g), \A k \in DOMAIN p : k > i => ~Adds(p[k], g) PROVE g \in H <=> HasRow(p[i], g)
  <2>1. CASE i = l
    BY <1>1, <1>4, <2>1
  <2>2. CASE i # l
    <3>1. i \in DOMAIN a /\ p[i] = a[i] /\ ~Adds(m, g)
      BY <1>1, <1>4, <2>2
    <3>2. g \in G <=> HasRow(p[i], g)
      BY <1>1, <1>4, <3>1 DEF Mirror
    <3> QED BY <3>1, <3>2
  <2> QED BY <2>1, <2>2
<1>5. (\A i \in DOMAIN p : ~Adds(p[i], g)) => (g \in H <=> g \in s)
  BY <1>1 DEF Mirror
<1>6. ASSUME NEW i \in DOMAIN p, g \in H, Sets(p[i], g), \A k \in DOMAIN p : k > i => ~Sets(p[k], g) PROVE Q[g] = ParentIn(p[i], g)
  <2>1. CASE i = l
    BY <1>1, <1>6, <2>1
  <2>2. CASE i # l
    <3>1. i \in DOMAIN a /\ p[i] = a[i] /\ ~Sets(m, g) /\ g \in G
      BY <1>1, <1>3, <1>6, <2>2
    <3>2. P[g] = ParentIn(p[i], g)
      BY <1>1, <1>6, <3>1 DEF Mirror
    <3> QED BY <1>6, <3>1, <3>2
  <2> QED BY <2>1, <2>2
<1>7. g \in H /\ (\A i \in DOMAIN p : ~Sets(p[i], g)) => Q[g] = t[g]
  BY <1>1, <1>3 DEF Mirror
<1> QED BY <1>4, <1>5, <1>6, <1>7

LEMMA MirrorListed ==
  ASSUME NEW T, NEW a \in Seq(T), NEW m \in T, m.op = "list", NEW s, NEW t
  PROVE  Mirror(Append(a, m), s, t, m.id, m.parent)
<1> DEFINE p == Append(a, m)
           l == Len(a) + 1
<1>1. DOMAIN p = DOMAIN a \cup {l} /\ p[l] = m /\ \A i \in DOMAIN a : i \in Nat /\ i < l /\ p[i] = a[i]
  BY AppendIs
<1> HIDE DEF p, l
<1>2. \A g \in Group : Adds(m, g) /\ Sets(m, g) /\ ParentIn(m, g) = m.parent[g] /\ (HasRow(m, g) <=> g \in m.id)
  BY DEF Adds, Sets, ParentIn, HasRow
<1>3. ASSUME NEW g \in Group, NEW i \in DOMAIN p, (\A k \in DOMAIN p : k > i => ~Adds(p[k], g)) \/ (\A k \in DOMAIN p : k > i => ~Sets(p[k], g))
      PROVE  i = l
  BY <1>1, <1>2, <1>3
<1>4. Mirror(p, s, t, m.id, m.parent)
  BY <1>1, <1>2, <1>3 DEF Mirror
<1> QED BY <1>4 DEF p

LEMMA MirrorHeard ==
  ASSUME NEW T, NEW a \in Seq(T), a # <<>>, NEW m, m = Head(a), NEW s, NEW t, NEW G, NEW P, Mirror(a, s, t, G, P),
         NEW u, NEW v,
         \A g \in Group : /\ Adds(m, g) => (g \in u <=> HasRow(m, g))
                          /\ ~Adds(m, g) => (g \in u <=> g \in s)
                          /\ Sets(m, g) /\ (g \in s \/ Adds(m, g)) => v[g] = ParentIn(m, g)
                          /\ ~Sets(m, g) => v[g] = t[g]
  PROVE  Mirror(Tail(a), u, v, G, P)
<1> DEFINE p == Tail(a)
<1>1. /\ m = a[1] /\ 1 \in DOMAIN a
      /\ \A i \in DOMAIN p : i \in Nat /\ i + 1 \in DOMAIN a /\ p[i] = a[i + 1]
      /\ \A i \in DOMAIN a : i \in Nat /\ (i # 1 => i > 1 /\ i - 1 \in DOMAIN p /\ p[i - 1] = a[i])
  BY TailIs
<1> HIDE DEF p
<1> SUFFICES ASSUME NEW g \in Group
             PROVE  /\ \A i \in DOMAIN p : Adds(p[i], g) /\ (\A k \in DOMAIN p : k > i => ~Adds(p[k], g)) => (g \in G <=> HasRow(p[i], g))
                    /\ (\A i \in DOMAIN p : ~Adds(p[i], g)) => (g \in G <=> g \in u)
                    /\ \A i \in DOMAIN p : g \in G /\ Sets(p[i], g) /\ (\A k \in DOMAIN p : k > i => ~Sets(p[k], g)) => P[g] = ParentIn(p[i], g)
                    /\ g \in G /\ (\A i \in DOMAIN p : ~Sets(p[i], g)) => P[g] = v[g]
  BY DEF Mirror, p
<1>2. \A x : Adds(x, g) => Sets(x, g)
  BY DEF Adds, Sets
<1>3. ASSUME NEW i \in DOMAIN p, NEW k \in DOMAIN a, k > i + 1 PROVE k - 1 \in DOMAIN p /\ p[k - 1] = a[k] /\ k - 1 > i
  BY <1>1, <1>3
<1>4. ASSUME NEW i \in DOMAIN p, Adds(p[i], g), \A k \in DOMAIN p : k > i => ~Adds(p[k], g) PROVE g \in G <=> HasRow(p[i], g)
  <2>1. i + 1 \in DOMAIN a /\ p[i] = a[i + 1]
    BY <1>1
  <2>2. \A k \in DOMAIN a : k > i + 1 => ~Adds(a[k], g)
    BY <1>3, <1>4
  <2> QED BY <1>4, <2>1, <2>2 DEF Mirror
<1>5. ASSUME NEW i \in DOMAIN p, g \in G, Sets(p[i], g), \A k \in DOMAIN p : k > i => ~Sets(p[k], g) PROVE P[g] = ParentIn(p[i], g)
  <2>1. i + 1 \in DOMAIN a /\ p[i] = a[i + 1]
    BY <1>1
  <2>2. \A k \in DOMAIN a : k > i + 1 => ~Sets(a[k], g)
    BY <1>3, <1>5
  <2> QED BY <1>5, <2>1, <2>2 DEF Mirror
<1>6. ASSUME \A i \in DOMAIN p : ~Adds(p[i], g) PROVE g \in G <=> g \in u
  <2>1. \A k \in DOMAIN a : k # 1 => ~Adds(a[k], g)
    BY <1>1, <1>6
  <2>2. CASE Adds(m, g)
    <3>1. \A k \in DOMAIN a : k > 1 => ~Adds(a[k], g)
      BY <2>1
    <3>2. g \in G <=> HasRow(m, g)
      BY <1>1, <2>2, <3>1 DEF Mirror
    <3> QED BY <2>2, <3>2
  <2>3. CASE ~Adds(m, g)
    BY <1>1, <2>1, <2>3 DEF Mirror
  <2> QED BY <2>2, <2>3
<1>7. ASSUME g \in G, \A i \in DOMAIN p : ~Sets(p[i], g) PROVE P[g] = v[g]
  <2>1. \A k \in DOMAIN a : k # 1 => ~Sets(a[k], g)
    BY <1>1, <1>7
  <2>2. CASE Sets(m, g)
    <3>1. \A k \in DOMAIN a : k > 1 => ~Sets(a[k], g)
      BY <2>1
    <3>2. P[g] = ParentIn(m, g)
      BY <1>1, <1>7, <2>2, <3>1 DEF Mirror
    <3>3. ~Adds(m, g) => \A k \in DOMAIN a : ~Adds(a[k], g)
      BY <1>1, <1>2, <2>1
    <3>4. g \in s \/ Adds(m, g)
      BY <1>7, <3>3 DEF Mirror
    <3> QED BY <2>2, <3>2, <3>4
  <2>3. CASE ~Sets(m, g)
    BY <1>1, <1>7, <2>1, <2>3 DEF Mirror
  <2> QED BY <2>2, <2>3
<1> QED BY <1>4, <1>5, <1>6, <1>7

\* The answer of a form that is gone is as it was, but of no form.
LEMMA LeftIs ==
  ASSUME NEW T \in {FolderCall, FolderAnswer}, NEW q \in Seq(T)
  PROVE  /\ Folders!Left(q) \in Seq(T) /\ DOMAIN Folders!Left(q) = DOMAIN q /\ Len(Folders!Left(q)) = Len(q)
         /\ \A i \in DOMAIN q : LET x == Folders!Left(q)[i] IN
              x.op = q[i].op /\ x.id = q[i].id /\ x.parent = q[i].parent /\ x.fresh = q[i].fresh /\ ~x.inForm
<1>1. ASSUME NEW m \in T
      PROVE  /\ [m EXCEPT !.inForm = FALSE] \in T /\ [m EXCEPT !.inForm = FALSE].op = m.op /\ [m EXCEPT !.inForm = FALSE].id = m.id
             /\ [m EXCEPT !.inForm = FALSE].parent = m.parent /\ [m EXCEPT !.inForm = FALSE].fresh = m.fresh /\ ~[m EXCEPT !.inForm = FALSE].inForm
  <2>1. CASE T = FolderCall
    BY <2>1 DEF FolderCall
  <2>2. CASE T = FolderAnswer
    BY <2>2 DEF FolderAnswer
  <2> QED BY <2>1, <2>2
<1>2. \A i \in DOMAIN q : q[i] \in T
  OBVIOUS
<1>3. DOMAIN q = 1 .. Len(q) /\ Len(q) \in Nat
  OBVIOUS
<1> DEFINE w == Folders!Left(q)
<1>4. DOMAIN w = 1 .. Len(q) /\ \A i \in DOMAIN q : w[i] = [q[i] EXCEPT !.inForm = FALSE]
  BY <1>3 DEF Folders!Left
<1>5. w \in [1 .. Len(q) -> T]
  BY <1>1, <1>2, <1>3 DEF Folders!Left
<1> HIDE DEF w
<1>6. w \in Seq(T) /\ Len(w) = Len(q)
  BY <1>3, <1>5
<1>7. \A i \in DOMAIN q : w[i].op = q[i].op /\ w[i].id = q[i].id /\ w[i].parent = q[i].parent /\ w[i].fresh = q[i].fresh /\ ~w[i].inForm
  BY <1>1, <1>2, <1>4
<1> QED BY <1>3, <1>4, <1>6, <1>7 DEF w

LEMMA MirrorLeft ==
  ASSUME NEW a \in Seq(FolderAnswer), NEW s, NEW t, NEW G, NEW P, Mirror(a, s, t, G, P)
  PROVE  Mirror(Folders!Left(a), s, t, G, P)
<1> DEFINE p == Folders!Left(a)
<1>1. DOMAIN p = DOMAIN a /\ \A i \in DOMAIN a : p[i].op = a[i].op /\ p[i].id = a[i].id /\ p[i].parent = a[i].parent
  BY LeftIs
<1> HIDE DEF p
<1>2. \A i \in DOMAIN a : \A g \in Group :
        /\ Adds(p[i], g) <=> Adds(a[i], g)
        /\ Sets(p[i], g) <=> Sets(a[i], g)
        /\ HasRow(p[i], g) <=> HasRow(a[i], g)
        /\ ParentIn(p[i], g) = ParentIn(a[i], g)
  BY <1>1 DEF Adds, Sets, HasRow, ParentIn
<1>3. Mirror(p, s, t, G, P)
  BY <1>1, <1>2 DEF Mirror
<1> QED BY <1>3 DEF p

LEMMA FolderCallIs ==
  ASSUME NEW m \in FolderCall
  PROVE  /\ m.op \in {"create", "update", "delete", "list"}
         /\ m.op = "create" => m.id = Top /\ m.parent \in Group \cup {Top}
         /\ m.op = "update" => m.id \in Group /\ m.parent \in Group \cup {Top}
         /\ m.op = "delete" => m.id \in Group
BY DEF FolderCall

LEMMA FolderCallFlags ==
  ASSUME NEW m \in FolderCall
  PROVE  m.inForm \in BOOLEAN /\ m.fresh \in BOOLEAN /\ (m.op \in {"delete", "list"} => ~m.inForm)
BY DEF FolderCall

LEMMA FolderAnswerIs ==
  ASSUME NEW m \in FolderAnswer
  PROVE  /\ m.op \in {"created", "updated", "refused", "deleted", "list"}
         /\ m.op \in {"created", "updated"} => m.id \in Group /\ m.parent \in Group \cup {Top}
         /\ m.op = "list" => m.id \in SUBSET Group /\ m.parent \in [Group -> Group \cup {Top}]
BY DEF FolderAnswer

LEMMA FolderAnswerFlags ==
  ASSUME NEW m \in FolderAnswer
  PROVE  m.inForm \in BOOLEAN /\ m.fresh \in BOOLEAN /\ (m.op \in {"deleted", "list"} => ~m.inForm)
BY DEF FolderAnswer

\* Main answers the first call m with a.
LEMMA FolderServed ==
  ASSUME FolderInv, TreeOfGroups', groupCalls # <<>>, NEW m, m = Head(groupCalls), NEW a \in FolderAnswer,
         groupCalls' = Tail(groupCalls), groupAnswers' = Append(groupAnswers, a),
         UNCHANGED <<shownGroups, shownParent, editedGroup, parentId, submitting, calmGroups>>,
         a.inForm = m.inForm, a.fresh = m.fresh, a.op = "refused" => ~m.fresh,
         m.op \in {"create", "update"} => a.op \in {"created", "updated", "refused"},
         m.op = "delete" => a.op = "deleted",
         m.op = "list" => a.op = "list" /\ a.id = groups' /\ a.parent = parent',
         m.op \in {"create", "update"} =>
           \A g \in Group : /\ Adds(a, g) => (g \in groups' <=> HasRow(a, g))
                            /\ ~Adds(a, g) => (g \in groups' <=> g \in groups)
                            /\ g \in groups' /\ Sets(a, g) => parent'[g] = ParentIn(a, g)
                            /\ g \in groups' /\ ~Sets(a, g) => parent'[g] = parent[g]
  PROVE  FolderInv'
<1> DEFINE p == Tail(groupCalls)
           q == Append(groupAnswers, a)
           l == Len(groupAnswers) + 1
<1>1. groupCalls \in Seq(FolderCall) /\ groupAnswers \in Seq(FolderAnswer)
  BY DEF FolderInv, FolderTypes
<1>2. /\ p \in Seq(FolderCall) /\ m \in FolderCall /\ m = groupCalls[1] /\ 1 \in DOMAIN groupCalls
      /\ \A i \in DOMAIN p : i \in Nat /\ i + 1 \in DOMAIN groupCalls /\ p[i] = groupCalls[i + 1]
      /\ \A i \in DOMAIN groupCalls : i \in Nat /\ (i # 1 => i > 1 /\ i - 1 \in DOMAIN p /\ p[i - 1] = groupCalls[i])
  BY <1>1, TailIs
<1>3. /\ q \in Seq(FolderAnswer) /\ DOMAIN q = DOMAIN groupAnswers \cup {l} /\ q[l] = a
      /\ \A i \in DOMAIN groupAnswers : q[i] = groupAnswers[i]
  BY <1>1, AppendIs
<1>4. m.op \in {"create", "update", "delete", "list"}
  BY <1>2, FolderCallIs
<1>5. groupCalls' = p /\ groupAnswers' = q
  OBVIOUS
<1>6. Len(groupCalls) = 1 => p = <<>>
  BY <1>1
<1>7. groupAnswers = <<>> => Len(q) = 1 /\ q[1] = a
  BY <1>1, <1>3
<1>8. Len(groupAnswers) # 1 \/ groupCalls # <<>>
  OBVIOUS
<1> HIDE DEF p, q, l
<1>9. FolderTypes' /\ FolderFlags'
  BY <1>2, <1>3, <1>5 DEF FolderInv, FolderTypes, FolderFlags
<1>10. submitting' => Sent(groupCalls', groupAnswers')
  <2> SUFFICES ASSUME submitting PROVE Sent(p, q)
    BY <1>5
  <2>1. CASE \E i \in DOMAIN groupAnswers : groupAnswers[i].inForm
    BY <1>3, <2>1 DEF Sent
  <2>2. CASE \E i \in DOMAIN groupCalls : groupCalls[i].inForm
    <3>1. PICK i \in DOMAIN groupCalls : groupCalls[i].inForm
      BY <2>2
    <3>2. CASE i = 1
      <4>1. l \in DOMAIN q /\ q[l].inForm
        BY <1>2, <1>3, <3>1, <3>2
      <4> QED BY <4>1 DEF Sent
    <3>3. CASE i # 1
      <4>1. i - 1 \in DOMAIN p /\ p[i - 1].inForm
        BY <1>2, <3>1, <3>3
      <4> QED BY <4>1 DEF Sent
    <3> QED BY <3>2, <3>3
  <2> QED BY <2>1, <2>2 DEF FolderInv, Sent
<1>11. FreshCalls'
  <2> SUFFICES ASSUME NEW i \in DOMAIN p, p[i].op \in {"create", "update"}, p[i].fresh PROVE FALSE
    BY <1>5 DEF FreshCalls
  <2>1. i \in Nat /\ i + 1 \in DOMAIN groupCalls /\ p[i] = groupCalls[i + 1]
    BY <1>2
  <2>2. i + 1 = 1
    BY <2>1 DEF FolderInv, FreshCalls
  <2>3. i \in 1 .. Len(p) /\ Len(p) \in Nat
    BY <1>2
  <2> QED BY <2>2, <2>3
<1>12. FreshAnswers'
  BY <1>3, <1>5 DEF FolderInv, FreshAnswers
<1>13. CalmForm'
  <2> SUFFICES ASSUME editedGroup # None, calmGroups
               PROVE  submitting /\ p = <<>> /\ Len(q) = 1 /\ q[1].op \in {"created", "updated"}
    BY <1>5 DEF CalmForm
  <2>1. submitting /\ Len(groupCalls) = 1 /\ groupAnswers = <<>> /\ m.op \in {"create", "update"} /\ m.fresh
    BY <1>2 DEF FolderInv, CalmForm, Folders!Quiet
  <2> QED BY <1>6, <1>7, <2>1
<1>14. ToList(groupCalls', groupAnswers') \/ Mirror(groupAnswers', shownGroups', shownParent', groups', parent')
  <2>1. CASE m.op = "list"
    <3>1. Mirror(q, shownGroups, shownParent, a.id, a.parent)
      BY <1>1, <2>1, MirrorListed DEF q
    <3> QED BY <1>5, <2>1, <3>1
  <2>2. CASE m.op = "delete"
    BY <1>3, <1>5, <2>2 DEF ToList
  <2>3. CASE m.op \in {"create", "update"}
    <3>1. CASE ToList(groupCalls, groupAnswers)
      BY <1>2, <1>3, <1>5, <2>3, <3>1 DEF ToList
    <3>2. CASE Mirror(groupAnswers, shownGroups, shownParent, groups, parent)
      <4> DEFINE H == groups'
                 Q == parent'
      <4>1. \A g \in Group : /\ Adds(a, g) => (g \in H <=> HasRow(a, g))
                             /\ ~Adds(a, g) => (g \in H <=> g \in groups)
                             /\ g \in H /\ Sets(a, g) => Q[g] = ParentIn(a, g)
                             /\ g \in H /\ ~Sets(a, g) => Q[g] = parent[g]
        BY <2>3
      <4> HIDE DEF H, Q
      <4>2. Mirror(q, shownGroups, shownParent, H, Q)
        BY <1>1, <3>2, <4>1, MirrorTold DEF q
      <4> QED BY <1>5, <4>2 DEF H, Q
    <3> QED BY <3>1, <3>2 DEF FolderInv
  <2> QED BY <1>4, <2>1, <2>2, <2>3
<1>15. FolderInv' <=> /\ TreeOfGroups' /\ FolderTypes' /\ FolderFlags'
                      /\ submitting' => Sent(groupCalls', groupAnswers')
                      /\ FreshCalls' /\ FreshAnswers' /\ CalmForm'
                      /\ ToList(groupCalls', groupAnswers') \/ Mirror(groupAnswers', shownGroups', shownParent', groups', parent')
  BY DEF FolderInv
<1> QED BY <1>9, <1>10, <1>11, <1>12, <1>13, <1>14, <1>15

LEMMA FolderMain ==
  ASSUME FolderInv, Folders!Create \/ Folders!Update \/ Folders!Delete \/ Folders!List
  PROVE  FolderInv'
<1> USE TopAssumption, NoneAssumption DEF NoneAssumption, TopAssumption
<1> DEFINE m == Head(groupCalls)
           Replied(op, g, to) == [m EXCEPT !.op = op, !.id = g, !.parent = to]
<1>1. groupCalls # <<>> /\ groupCalls' = Tail(groupCalls)
  BY DEF Folders!Create, Folders!Update, Folders!Delete, Folders!List, Folders!Served
<1>2. UNCHANGED <<shownGroups, shownParent, editedGroup, parentId, submitting, calmGroups>>
  BY DEF Folders!Create, Folders!Update, Folders!Delete, Folders!List, Folders!store, Folders!dialog
<1>3. groupCalls \in Seq(FolderCall) /\ groupAnswers \in Seq(FolderAnswer)
  BY DEF FolderInv, FolderTypes
<1>4. m \in FolderCall /\ m = groupCalls[1] /\ 1 \in DOMAIN groupCalls
  BY <1>1, <1>3, TailIs
<1> HIDE DEF m
<1>5. TreeOfGroups /\ groups \subseteq Group /\ parent \in [Group -> Group \cup {Top}] /\ member \in [Host -> Group \cup {Top}]
  BY DEF FolderInv, TreeOfGroups, Folders!TypeOK
<1>6. \A op, g, to : Folders!Answer(op, g, to) => groupAnswers' = Append(groupAnswers, Replied(op, g, to))
  BY DEF Folders!Answer, m
<1>7. m.inForm \in BOOLEAN /\ m.fresh \in BOOLEAN
  BY <1>4, FolderCallFlags
<1>8. /\ \A op, g, to : Replied(op, g, to).op = op /\ Replied(op, g, to).id = g /\ Replied(op, g, to).parent = to
      /\ \A op, g, to : Replied(op, g, to).inForm = m.inForm /\ Replied(op, g, to).fresh = m.fresh
  BY <1>4 DEF FolderCall
<1> DEFINE All(f, O, I, P) == [op : O, id : I, parent : P, inForm : f, fresh : BOOLEAN]
<1>80. ASSUME NEW f \in {BOOLEAN, {FALSE}}, m.inForm \in f, NEW O, NEW I, NEW P, NEW op \in O, NEW g \in I, NEW to \in P
       PROVE  Replied(op, g, to) \in All(f, O, I, P)
  <2>1. CASE m \in All(BOOLEAN, {"create"}, {Top}, Group \cup {Top})
    BY <1>7, <1>80, <2>1
  <2>2. CASE m \in All(BOOLEAN, {"update"}, Group, Group \cup {Top})
    BY <1>7, <1>80, <2>2
  <2>3. CASE m \in All({FALSE}, {"delete"}, Group, {Top})
    BY <1>7, <1>80, <2>3
  <2>4. CASE m \in All({FALSE}, {"list"}, {None}, {Top})
    BY <1>7, <1>80, <2>4
  <2> QED BY <1>4, <2>1, <2>2, <2>3, <2>4 DEF FolderCall
<1> HIDE DEF Replied
<1>9. ASSUME NEW g \in Group, NEW to \in Group \cup {Top}
      PROVE  Replied("created", g, to) \in FolderAnswer /\ Replied("updated", g, to) \in FolderAnswer
  <2> DEFINE O == {"created", "updated"}
  <2>1. ASSUME NEW op \in O PROVE Replied(op, g, to) \in All(BOOLEAN, O, Group, Group \cup {Top})
    BY <1>7, <1>80
  <2>2. ASSUME NEW op \in O PROVE Replied(op, g, to) \in FolderAnswer
    BY <2>1 DEF FolderAnswer
  <2>3. "created" \in O /\ "updated" \in O
    OBVIOUS
  <2> HIDE DEF O
  <2> QED BY <2>2, <2>3
<1>10. Replied("refused", None, Top) \in FolderAnswer
  <2>1. Replied("refused", None, Top) \in All(BOOLEAN, {"refused"}, {None}, {Top})
    BY <1>7, <1>80
  <2> QED BY <2>1 DEF FolderAnswer
<1>11. m.op \in {"delete", "list"} => Replied("deleted", None, Top) \in FolderAnswer /\ Replied("list", groups, parent) \in FolderAnswer
  <2> SUFFICES ASSUME m.inForm \in {FALSE} PROVE Replied("deleted", None, Top) \in FolderAnswer /\ Replied("list", groups, parent) \in FolderAnswer
    BY <1>4, FolderCallFlags
  <2>1. Replied("deleted", None, Top) \in All({FALSE}, {"deleted"}, {None}, {Top})
    BY <1>80
  <2>2. Replied("list", groups, parent) \in All({FALSE}, {"list"}, SUBSET Group, [Group -> Group \cup {Top}])
    <3> DEFINE I == SUBSET Group
               P == [Group -> Group \cup {Top}]
    <3>1. groups \in I /\ parent \in P /\ "list" \in {"list"} /\ {FALSE} \in {BOOLEAN, {FALSE}}
      BY <1>5
    <3> HIDE DEF I, P, All
    <3>2. Replied("list", groups, parent) \in All({FALSE}, {"list"}, I, P)
      BY <1>80, <3>1
    <3> QED BY <3>2 DEF I, P
  <2> QED BY <2>1, <2>2 DEF FolderAnswer
<1> HIDE DEF All
<1>12. m.op \in {"create", "update"} /\ m.fresh => Accepts(m.id, m.parent)
  BY <1>4 DEF FolderInv, FreshCalls
<1>13. (m.op = "create" => m.id = Top) /\ (m.op = "update" => m.id \in Group) /\ m.parent \in Group \cup {Top}
  <2>1. m.parent \in Group \cup {Top}
    BY <1>4 DEF FolderCall
  <2> QED BY <1>4, <2>1, FolderCallIs
<1>14. \* A refusal changes nothing.
       ASSUME UNCHANGED <<groups, parent, member>>, m.op \in {"create", "update"}, Folders!Answer("refused", None, Top), ~m.fresh
       PROVE  FolderInv'
  <2> DEFINE a == Replied("refused", None, Top)
  <2>1. a \in FolderAnswer /\ a.op = "refused" /\ a.inForm = m.inForm /\ a.fresh = m.fresh /\ groupAnswers' = Append(groupAnswers, a)
    BY <1>6, <1>8, <1>10, <1>14
  <2> HIDE DEF a
  <2>2. \A g : ~Adds(a, g) /\ ~Sets(a, g)
    BY <2>1 DEF Adds, Sets
  <2>3. TreeOfGroups'
    BY <1>5, <1>14, GroupsStay
  <2> QED BY <1>1, <1>2, <1>14, <2>1, <2>2, <2>3, FolderServed DEF m
<1>15. CASE Folders!Create
  <2>1. m.op = "create"
    BY <1>15 DEF Folders!Create, Folders!Served, m
  <2>2. ASSUME NEW g \in Group, Folders!createGroup(g, m.parent), Folders!Answer("created", g, m.parent) PROVE FolderInv'
    <3> DEFINE a == Replied("created", g, m.parent)
    <3>1. a \in FolderAnswer /\ a.op = "created" /\ a.id = g /\ a.parent = m.parent /\ a.inForm = m.inForm /\ a.fresh = m.fresh
          /\ groupAnswers' = Append(groupAnswers, a)
      BY <1>6, <1>8, <1>9, <1>13, <2>2
    <3> HIDE DEF a
    <3>2. groups' = groups \cup {g} /\ parent' = [parent EXCEPT ![g] = m.parent]
      BY <2>2 DEF Folders!createGroup
    <3>3. TreeOfGroups'
      <4>1. Folders!Next
        BY <1>13, <2>2 DEF Folders!Next
      <4> QED BY <1>5, <4>1, GroupsStay
    <3>4. \A x \in Group : /\ Adds(a, x) <=> x = g
                           /\ Sets(a, x) <=> x = g
                           /\ HasRow(a, x) /\ ParentIn(a, x) = m.parent
                           /\ parent'[x] = (IF x = g THEN m.parent ELSE parent[x])
      BY <1>5, <3>1, <3>2 DEF Adds, Sets, HasRow, ParentIn
    <3>5. \A x \in Group : /\ Adds(a, x) => (x \in groups' <=> HasRow(a, x))
                           /\ ~Adds(a, x) => (x \in groups' <=> x \in groups)
                           /\ x \in groups' /\ Sets(a, x) => parent'[x] = ParentIn(a, x)
                           /\ x \in groups' /\ ~Sets(a, x) => parent'[x] = parent[x]
      BY <3>2, <3>4
    <3> QED BY <1>1, <1>2, <2>1, <3>1, <3>3, <3>5, FolderServed DEF m
  <2>3. CASE m.parent \notin groups \cup {Top} /\ UNCHANGED <<groups, parent, member>> /\ Folders!Answer("refused", None, Top)
    <3>1. ~m.fresh
      BY <1>12, <2>1, <2>3 DEF Accepts
    <3> QED BY <1>14, <2>1, <2>3, <3>1
  <2> QED BY <1>15, <2>2, <2>3 DEF Folders!Create, Folders!vars, m
<1>16. CASE Folders!Update
  <2>1. m.op = "update"
    BY <1>16 DEF Folders!Update, Folders!Served, m
  <2>2. ASSUME Folders!updateGroup(m.id, m.parent), Folders!Answer("updated", m.id, m.parent) PROVE FolderInv'
    <3> DEFINE g == m.id
               a == Replied("updated", g, m.parent)
    <3>0. g \in Group
      BY <1>13, <2>1
    <3>1. a \in FolderAnswer /\ a.op = "updated" /\ a.id = g /\ a.parent = m.parent /\ a.inForm = m.inForm /\ a.fresh = m.fresh
          /\ groupAnswers' = Append(groupAnswers, a)
      BY <1>6, <1>8, <1>9, <1>13, <2>2, <3>0
    <3> HIDE DEF a
    <3>2. groups' = groups /\ parent' = [parent EXCEPT ![g] = m.parent]
      BY <2>2 DEF Folders!updateGroup
    <3>3. TreeOfGroups'
      <4>1. Folders!Next
        BY <1>13, <2>2, <3>0 DEF Folders!Next
      <4> QED BY <1>5, <4>1, GroupsStay
    <3>4. \A x \in Group : /\ ~Adds(a, x)
                           /\ Sets(a, x) <=> x = g
                           /\ ParentIn(a, x) = m.parent
                           /\ parent'[x] = (IF x = g THEN m.parent ELSE parent[x])
      BY <1>5, <3>1, <3>2 DEF Adds, Sets, ParentIn
    <3>5. \A x \in Group : /\ Adds(a, x) => (x \in groups' <=> HasRow(a, x))
                           /\ ~Adds(a, x) => (x \in groups' <=> x \in groups)
                           /\ x \in groups' /\ Sets(a, x) => parent'[x] = ParentIn(a, x)
                           /\ x \in groups' /\ ~Sets(a, x) => parent'[x] = parent[x]
      BY <3>2, <3>4
    <3> QED BY <1>1, <1>2, <2>1, <3>1, <3>3, <3>5, FolderServed DEF m
  <2>3. CASE /\ ~(m.id \in groups /\ m.parent \in groups \cup {Top} /\ ~Folders!wouldCycle(m.id, m.parent))
             /\ UNCHANGED <<groups, parent, member>> /\ Folders!Answer("refused", None, Top)
    <3>1. m.id # Top
      BY <1>13, <2>1
    <3>2. ~m.fresh
      BY <1>12, <2>1, <2>3, <3>1 DEF Accepts
    <3> QED BY <1>14, <2>1, <2>3, <3>2
  <2> QED BY <1>16, <2>2, <2>3 DEF Folders!Update, Folders!vars, m
<1>17. CASE Folders!Delete
  <2> DEFINE a == Replied("deleted", None, Top)
  <2>1. m.op = "delete" /\ Folders!Answer("deleted", None, Top)
    BY <1>17 DEF Folders!Delete, Folders!Served, m
  <2>2. a \in FolderAnswer /\ a.op = "deleted" /\ a.inForm = m.inForm /\ a.fresh = m.fresh /\ groupAnswers' = Append(groupAnswers, a)
    BY <1>6, <1>8, <1>11, <2>1
  <2> HIDE DEF a
  <2>3. TreeOfGroups'
    <3>1. CASE m.id \in groups /\ Folders!deleteGroup(m.id)
      <4>1. Folders!Next
        BY <1>5, <3>1 DEF Folders!Next
      <4> QED BY <1>5, <4>1, GroupsStay
    <3>2. CASE UNCHANGED <<groups, parent, member>>
      BY <1>5, <3>2, GroupsStay
    <3> QED BY <1>17, <3>1, <3>2 DEF Folders!Delete, Folders!vars, m
  <2> QED BY <1>1, <1>2, <2>1, <2>2, <2>3, FolderServed DEF m
<1>18. CASE Folders!List
  <2> DEFINE a == Replied("list", groups, parent)
  <2>1. m.op = "list" /\ Folders!Answer("list", groups, parent) /\ UNCHANGED <<groups, parent, member>>
    BY <1>18 DEF Folders!List, Folders!Served, Folders!vars, m
  <2>2. a \in FolderAnswer /\ a.op = "list" /\ a.id = groups /\ a.parent = parent /\ a.inForm = m.inForm /\ a.fresh = m.fresh
        /\ groupAnswers' = Append(groupAnswers, a)
    BY <1>6, <1>8, <1>11, <2>1
  <2> HIDE DEF a
  <2>3. TreeOfGroups'
    BY <1>5, <2>1, GroupsStay
  <2> QED BY <1>1, <1>2, <2>1, <2>2, <2>3, FolderServed DEF m
<1> QED BY <1>15, <1>16, <1>17, <1>18

\* In a forest no group is above its own parent.
LEMMA ParentIsNoLoop ==
  ASSUME TreeOfGroups, NEW g \in groups
  PROVE  Accepts(g, parent[g])
<1> USE TopAssumption
<1>1. g \in Group /\ parent \in [Group -> Group \cup {Top}] /\ parent[g] \in groups \cup {Top} /\ g # Top
  BY DEF TreeOfGroups, Folders!TypeOK, Folders!ReferencesLive
<1>2. ASSUME parent[g] # Top, g \in Folders!Ancestors(parent[g]) PROVE FALSE
  <2> DEFINE S == {x \in Group : g \in Folders!Ancestors(x)}
  <2>1. parent[g] \in S
    BY <1>1, <1>2
  <2>2. ASSUME NEW x \in S PROVE parent[x] \in S
    <3>1. CASE x = g
      BY <2>1, <3>1
    <3>2. CASE x # g
      <4>1. x \in Group /\ g \in Folders!Ancestors(x)
        OBVIOUS
      <4>2. ASSUME NEW C \in SUBSET Group, parent[x] \in C \cup {Top}, Folders!Closed(C) PROVE g \in C
        <5> DEFINE D == C \cup {x}
        <5>1. D \in SUBSET Group /\ x \in D /\ Folders!Closed(D)
          BY <4>1, <4>2 DEF Folders!Closed
        <5> HIDE DEF D
        <5>2. g \in D
          BY <4>1, <5>1 DEF Folders!Ancestors
        <5> QED BY <3>2, <5>2 DEF D
      <4>3. parent[x] # Top
        <5>1. Folders!Closed({}) /\ {} \in SUBSET Group
          BY DEF Folders!Closed
        <5> QED BY <4>2, <5>1
      <4>4. parent[x] \in Group
        BY <1>1, <4>1, <4>3
      <4>5. g \in Folders!Ancestors(parent[x])
        BY <1>1, <4>2 DEF Folders!Ancestors
      <4> QED BY <4>4, <4>5
    <3> QED BY <3>1, <3>2
  <2>3. S \in SUBSET Group
    OBVIOUS
  <2> HIDE DEF S
  <2> QED BY <2>1, <2>2, <2>3 DEF TreeOfGroups, Folders!Forest
<1> QED BY <1>1, <1>2 DEF Accepts, Folders!wouldCycle

LEMMA AcceptsStays ==
  ASSUME UNCHANGED <<groups, parent>>, NEW g, NEW p
  PROVE  Accepts(g, p)' <=> Accepts(g, p)
BY DEF Accepts, Folders!wouldCycle, Folders!Ancestors, Folders!Closed

LEMMA FolderInvIs ==
  FolderInv' <=> /\ TreeOfGroups' /\ FolderTypes' /\ FolderFlags'
                 /\ submitting' => Sent(groupCalls', groupAnswers')
                 /\ FreshCalls' /\ FreshAnswers' /\ CalmForm'
                 /\ ToList(groupCalls', groupAnswers') \/ Mirror(groupAnswers', shownGroups', shownParent', groups', parent')
BY DEF FolderInv

\* The form is gone, and q are the answers that are left.
LEMMA FolderGone ==
  ASSUME FolderInv, UNCHANGED <<groups, parent, member, parentId, calmGroups>>,
         editedGroup' = None, submitting' = FALSE, NEW q \in Seq(FolderAnswer),
         groupCalls' = Folders!Left(groupCalls), groupAnswers' = Folders!Left(q),
         \A i \in DOMAIN q : \E j \in DOMAIN groupAnswers : q[i] = groupAnswers[j],
         ToList(groupCalls, groupAnswers) => ToList(groupCalls, q),
         shownGroups' \subseteq Group, shownParent' \in [Group -> Group \cup {Top}],
         ToList(groupCalls, groupAnswers) \/ Mirror(q, shownGroups', shownParent', groups, parent)
  PROVE  FolderInv'
<1>0. groupCalls \in Seq(FolderCall) /\ groupAnswers \in Seq(FolderAnswer)
  BY DEF FolderInv, FolderTypes
<1> DEFINE c == Folders!Left(groupCalls)
           a == Folders!Left(q)
<1>1. c \in Seq(FolderCall) /\ DOMAIN c = DOMAIN groupCalls
      /\ \A i \in DOMAIN groupCalls : c[i].op = groupCalls[i].op /\ c[i].id = groupCalls[i].id /\ c[i].parent = groupCalls[i].parent
                                      /\ c[i].fresh = groupCalls[i].fresh
  BY <1>0, LeftIs
<1>2. a \in Seq(FolderAnswer) /\ DOMAIN a = DOMAIN q /\ \A i \in DOMAIN q : a[i].op = q[i].op /\ a[i].fresh = q[i].fresh
  BY LeftIs
<1>3. groupCalls' = c /\ groupAnswers' = a
  OBVIOUS
<1>4. \A s, t, G, P : Mirror(q, s, t, G, P) => Mirror(a, s, t, G, P)
  BY MirrorLeft
<1> HIDE DEF c, a
<1>5. TreeOfGroups'
  BY GroupsStay DEF FolderInv
<1>6. FolderTypes'
  BY <1>1, <1>2, <1>3 DEF FolderInv, FolderTypes
<1>7. FolderFlags'
  BY DEF FolderInv, FolderFlags
<1>8. FreshCalls'
  <2>1. ASSUME NEW i \in DOMAIN c, c[i].op \in {"create", "update"} /\ c[i].fresh
        PROVE  i = 1 /\ Accepts(c[i].id, c[i].parent)
    <3>1. i = 1 /\ Accepts(groupCalls[i].id, groupCalls[i].parent)
      BY <1>1, <2>1 DEF FolderInv, FreshCalls
    <3> QED BY <1>1, <3>1
  <2> QED BY <2>1, <1>3 DEF FreshCalls, Accepts, Folders!wouldCycle, Folders!Ancestors, Folders!Closed
<1>9. FreshAnswers'
  BY <1>2, <1>3 DEF FolderInv, FreshAnswers
<1>10. CalmForm'
  BY DEF CalmForm
<1>11. ToList(c, a) \/ Mirror(a, shownGroups', shownParent', groups, parent)
  <2>1. CASE ToList(groupCalls, groupAnswers)
    <3>1. ToList(groupCalls, q)
      BY <2>1
    <3>2. CASE \E i \in DOMAIN groupCalls : groupCalls[i].op = "list"
      BY <1>1, <3>2 DEF ToList
    <3>3. CASE \E i \in DOMAIN q : q[i].op = "deleted"
      BY <1>2, <3>3 DEF ToList
    <3> QED BY <3>1, <3>2, <3>3 DEF ToList
  <2>2. CASE Mirror(q, shownGroups', shownParent', groups, parent)
    BY <1>4, <2>2
  <2> QED BY <2>1, <2>2
<1> QED BY <1>3, <1>5, <1>6, <1>7, <1>8, <1>9, <1>10, <1>11, FolderInvIs

LEMMA FolderCancelled ==
  ASSUME FolderInv, Folders!Cancel
  PROVE  FolderInv'
<1>1. /\ UNCHANGED <<groups, parent, member, parentId, calmGroups, shownGroups, shownParent>>
      /\ editedGroup' = None /\ submitting' = FALSE
      /\ groupCalls' = Folders!Left(groupCalls) /\ groupAnswers' = Folders!Left(groupAnswers)
  BY DEF Folders!Cancel, Folders!Close, Folders!vars, Folders!store
<1>2. groupAnswers \in Seq(FolderAnswer) /\ shownGroups \subseteq Group /\ shownParent \in [Group -> Group \cup {Top}]
  BY DEF FolderInv, FolderTypes
<1>3. ToList(groupCalls, groupAnswers) \/ Mirror(groupAnswers, shownGroups', shownParent', groups, parent)
  BY <1>1 DEF FolderInv
<1>4. shownGroups' \subseteq Group /\ shownParent' \in [Group -> Group \cup {Top}]
  BY <1>1, <1>2
<1>5. \A i \in DOMAIN groupAnswers : \E j \in DOMAIN groupAnswers : groupAnswers[i] = groupAnswers[j]
  OBVIOUS
<1> QED BY <1>1, <1>2, <1>3, <1>4, <1>5, FolderGone

LEMMA FolderHears ==
  ASSUME FolderInv, Folders!Created \/ Folders!Updated
  PROVE  FolderInv'
<1> DEFINE m == Head(groupAnswers)
           q == Tail(groupAnswers)
<1>0. groupCalls \in Seq(FolderCall) /\ groupAnswers \in Seq(FolderAnswer) /\ shownGroups \subseteq Group
      /\ shownParent \in [Group -> Group \cup {Top}]
  BY DEF FolderInv, FolderTypes
<1>1. /\ groupAnswers # <<>> /\ m.op \in {"created", "updated"}
      /\ UNCHANGED <<groups, parent, member, parentId, calmGroups>>
      /\ editedGroup' = None /\ submitting' = FALSE
      /\ groupCalls' = Folders!Left(groupCalls) /\ groupAnswers' = Folders!Left(q)
  BY DEF Folders!Created, Folders!Updated, Folders!First, Folders!Close, Folders!vars
<1>2. /\ m.op = "created" => shownGroups' = shownGroups \cup {m.id} /\ shownParent' = [shownParent EXCEPT ![m.id] = m.parent]
      /\ m.op = "updated" => shownGroups' = shownGroups
                             /\ shownParent' = [shownParent EXCEPT ![m.id] = IF m.id \in shownGroups THEN m.parent ELSE @]
  BY DEF Folders!Created, Folders!Updated, Folders!First
<1>3. /\ q \in Seq(FolderAnswer) /\ m \in FolderAnswer /\ m = groupAnswers[1]
      /\ \A i \in DOMAIN q : i \in Nat /\ i + 1 \in DOMAIN groupAnswers /\ q[i] = groupAnswers[i + 1]
      /\ \A i \in DOMAIN groupAnswers : i \in Nat /\ (i # 1 => i > 1 /\ i - 1 \in DOMAIN q /\ q[i - 1] = groupAnswers[i])
  BY <1>0, <1>1, TailIs
<1>4. m.id \in Group /\ m.parent \in Group \cup {Top}
  BY <1>1, <1>3, FolderAnswerIs
<1>5. \A s, t, G, P, u, v :
        /\ Mirror(groupAnswers, s, t, G, P)
        /\ \A g \in Group : /\ Adds(m, g) => (g \in u <=> HasRow(m, g))
                            /\ ~Adds(m, g) => (g \in u <=> g \in s)
                            /\ Sets(m, g) /\ (g \in s \/ Adds(m, g)) => v[g] = ParentIn(m, g)
                            /\ ~Sets(m, g) => v[g] = t[g]
        => Mirror(q, u, v, G, P)
  BY <1>0, <1>1, MirrorHeard
<1> HIDE DEF m, q
<1>6. shownGroups' \subseteq Group /\ shownParent' \in [Group -> Group \cup {Top}]
  BY <1>0, <1>1, <1>2, <1>4
<1>7. \A x \in Group : /\ (m.op = "created" => (x \in shownGroups' <=> x \in shownGroups \/ x = m.id))
                       /\ (m.op = "updated" => (x \in shownGroups' <=> x \in shownGroups))
                       /\ (x # m.id => shownParent'[x] = shownParent[x])
                       /\ (x = m.id /\ (m.op = "created" \/ x \in shownGroups) => shownParent'[x] = m.parent)
  BY <1>0, <1>1, <1>2, <1>4
<1>8. \A x \in Group : /\ Adds(m, x) <=> (m.op = "created" /\ x = m.id)
                       /\ Sets(m, x) <=> x = m.id
                       /\ ParentIn(m, x) = m.parent
                       /\ m.op = "created" => HasRow(m, x)
  BY <1>1 DEF Adds, Sets, ParentIn, HasRow
<1> DEFINE u == shownGroups'
           v == shownParent'
<1>9. \A g \in Group : /\ Adds(m, g) => (g \in u <=> HasRow(m, g))
                       /\ ~Adds(m, g) => (g \in u <=> g \in shownGroups)
                       /\ Sets(m, g) /\ (g \in shownGroups \/ Adds(m, g)) => v[g] = ParentIn(m, g)
                       /\ ~Sets(m, g) => v[g] = shownParent[g]
  BY <1>1, <1>7, <1>8
<1> HIDE DEF u, v
<1>10. Mirror(groupAnswers, shownGroups, shownParent, groups, parent) => Mirror(q, u, v, groups, parent)
  BY <1>5, <1>9
<1>11. ToList(groupCalls, groupAnswers) => ToList(groupCalls, q)
  BY <1>1, <1>3 DEF ToList
<1>12. ToList(groupCalls, groupAnswers) \/ Mirror(q, shownGroups', shownParent', groups, parent)
  BY <1>10 DEF FolderInv, u, v
<1>13. \A i \in DOMAIN q : \E j \in DOMAIN groupAnswers : q[i] = groupAnswers[j]
  BY <1>3
<1> QED BY <1>1, <1>3, <1>6, <1>11, <1>12, <1>13, FolderGone

\* What stands of the calls while the vault stays as it is.
LEMMA FreshStays ==
  ASSUME FolderInv, UNCHANGED <<groups, parent, groupCalls>>
  PROVE  FreshCalls'
<1>1. FreshCalls
  BY DEF FolderInv
<1> QED BY <1>1 DEF FreshCalls, Accepts, Folders!wouldCycle, Folders!Ancestors, Folders!Closed

\* The answers that leave the form as it is.
LEMMA FolderListens ==
  ASSUME FolderInv, Folders!Refused \/ Folders!Deleted \/ Folders!Listed
  PROVE  FolderInv'
<1> DEFINE m == Head(groupAnswers)
           q == Tail(groupAnswers)
<1>0. groupCalls \in Seq(FolderCall) /\ groupAnswers \in Seq(FolderAnswer) /\ shownGroups \subseteq Group
      /\ shownParent \in [Group -> Group \cup {Top}]
  BY DEF FolderInv, FolderTypes
<1>1. /\ groupAnswers # <<>> /\ m.op \in {"refused", "deleted", "list"} /\ groupAnswers' = q
      /\ UNCHANGED <<groups, parent, member, editedGroup, parentId, calmGroups>>
  BY DEF Folders!Refused, Folders!Deleted, Folders!Listed, Folders!Comes, Folders!First, Folders!vars, Folders!dialog
<1>2. /\ m.op = "refused" => /\ submitting' = (submitting /\ ~m.inForm)
                             /\ UNCHANGED <<shownGroups, shownParent, groupCalls>>
      /\ m.op = "deleted" => /\ groupCalls' = Append(groupCalls, [m EXCEPT !.op = "list"])
                             /\ UNCHANGED <<shownGroups, shownParent, submitting>>
      /\ m.op = "list" => /\ shownGroups' = m.id /\ shownParent' = m.parent
                          /\ UNCHANGED <<submitting, groupCalls>>
  BY DEF Folders!Refused, Folders!Deleted, Folders!Listed, Folders!Comes, Folders!First, Folders!store, Folders!dialog
<1>3. /\ q \in Seq(FolderAnswer) /\ m \in FolderAnswer /\ m = groupAnswers[1] /\ 1 \in DOMAIN groupAnswers
      /\ \A i \in DOMAIN q : i \in Nat /\ i + 1 \in DOMAIN groupAnswers /\ q[i] = groupAnswers[i + 1]
      /\ \A i \in DOMAIN groupAnswers : i \in Nat /\ (i # 1 => i > 1 /\ i - 1 \in DOMAIN q /\ q[i - 1] = groupAnswers[i])
  BY <1>0, <1>1, TailIs
<1>4. m.op = "list" => m.id \in SUBSET Group /\ m.parent \in [Group -> Group \cup {Top}]
  BY <1>3, FolderAnswerIs
<1>5. m.inForm \in BOOLEAN /\ (m.op \in {"deleted", "list"} => ~m.inForm)
  BY <1>3, FolderAnswerFlags
<1>6. m.op = "deleted" => [m EXCEPT !.op = "list"] \in FolderCall /\ [m EXCEPT !.op = "list"].op = "list"
  <2> SUFFICES ASSUME m.op = "deleted"
               PROVE  [m EXCEPT !.op = "list"] \in FolderCall /\ [m EXCEPT !.op = "list"].op = "list"
    OBVIOUS
  <2>1. m \in [op : {"deleted"}, id : {None}, parent : {Top}, inForm : {FALSE}, fresh : BOOLEAN]
    BY <1>3 DEF FolderAnswer
  <2> HIDE DEF m
  <2>2. [m EXCEPT !.op = "list"] \in [op : {"list"}, id : {None}, parent : {Top}, inForm : {FALSE}, fresh : BOOLEAN]
    BY <2>1
  <2> QED BY <2>2 DEF FolderCall
<1>7. \A s, t, G, P, u, v :
        /\ Mirror(groupAnswers, s, t, G, P)
        /\ \A g \in Group : /\ Adds(m, g) => (g \in u <=> HasRow(m, g))
                            /\ ~Adds(m, g) => (g \in u <=> g \in s)
                            /\ Sets(m, g) /\ (g \in s \/ Adds(m, g)) => v[g] = ParentIn(m, g)
                            /\ ~Sets(m, g) => v[g] = t[g]
        => Mirror(q, u, v, G, P)
  BY <1>0, <1>1, MirrorHeard
<1>8. groupAnswers # <<>> => ~Folders!Quiet
  BY DEF Folders!Quiet
<1> DEFINE e == [m EXCEPT !.op = "list"]
           l == Len(groupCalls) + 1
<1>9. m.op = "deleted" => /\ groupCalls' \in Seq(FolderCall) /\ DOMAIN groupCalls' = DOMAIN groupCalls \cup {l}
                          /\ groupCalls'[l].op = "list" /\ \A i \in DOMAIN groupCalls : groupCalls'[i] = groupCalls[i]
  <2> SUFFICES ASSUME m.op = "deleted" PROVE /\ Append(groupCalls, e) \in Seq(FolderCall) /\ DOMAIN Append(groupCalls, e) = DOMAIN groupCalls \cup {l}
                          /\ Append(groupCalls, e)[l].op = "list" /\ \A i \in DOMAIN groupCalls : Append(groupCalls, e)[i] = groupCalls[i]
    BY <1>2
  <2>1. e \in FolderCall /\ e.op = "list"
    BY <1>6
  <2> HIDE DEF e, m
  <2> QED BY <1>0, <2>1, AppendIs
<1> HIDE DEF m, q, e, l
<1>10. TreeOfGroups'
  BY <1>1, GroupsStay DEF FolderInv
<1>11. FolderTypes'
  BY <1>1, <1>2, <1>3, <1>4, <1>9 DEF FolderInv, FolderTypes
<1>12. FolderFlags'
  <2>1. submitting \in BOOLEAN /\ calmGroups \in BOOLEAN
    BY DEF FolderInv, FolderFlags
  <2>2. submitting' \in BOOLEAN
    BY <1>1, <1>2, <2>1
  <2> QED BY <1>1, <2>1, <2>2 DEF FolderFlags
<1>13. submitting' => Sent(groupCalls', q)
  <2> SUFFICES ASSUME submitting' PROVE Sent(groupCalls', q)
    OBVIOUS
  <2>1. submitting /\ ~m.inForm
    BY <1>1, <1>2, <1>5
  <2>2. CASE \E i \in DOMAIN groupCalls : groupCalls[i].inForm
    <3>1. PICK i \in DOMAIN groupCalls : groupCalls[i].inForm
      BY <2>2
    <3>2. i \in DOMAIN groupCalls' /\ groupCalls'[i] = groupCalls[i]
      BY <1>1, <1>2, <1>9
    <3> QED BY <3>1, <3>2 DEF Sent
  <2>3. CASE \E i \in DOMAIN groupAnswers : groupAnswers[i].inForm
    <3>1. PICK i \in DOMAIN groupAnswers : groupAnswers[i].inForm
      BY <2>3
    <3>2. i # 1
      BY <1>3, <2>1, <3>1
    <3>3. i - 1 \in DOMAIN q /\ q[i - 1].inForm
      BY <1>3, <3>1, <3>2
    <3> QED BY <3>3 DEF Sent
  <2> QED BY <2>1, <2>2, <2>3 DEF FolderInv, Sent
<1>14. FreshCalls'
  <2>1. CASE m.op = "deleted"
    <3>1. ASSUME NEW i \in DOMAIN groupCalls', groupCalls'[i].op \in {"create", "update"} /\ groupCalls'[i].fresh
          PROVE  i = 1 /\ Accepts(groupCalls'[i].id, groupCalls'[i].parent)
      <4>1. i \in DOMAIN groupCalls /\ groupCalls'[i] = groupCalls[i]
        BY <1>9, <2>1, <3>1
      <4> QED BY <3>1, <4>1 DEF FolderInv, FreshCalls
    <3> QED BY <1>1, <3>1 DEF FreshCalls, Accepts, Folders!wouldCycle, Folders!Ancestors, Folders!Closed
  <2>2. CASE m.op # "deleted"
    <3>1. UNCHANGED <<groups, parent, groupCalls>>
      BY <1>1, <1>2, <2>2
    <3> QED BY <3>1, FreshStays
  <2> QED BY <2>1, <2>2
<1>15. FreshAnswers'
  BY <1>1, <1>3 DEF FolderInv, FreshAnswers
<1>16. CalmForm'
  BY <1>1, <1>3, <1>8 DEF FolderInv, CalmForm
<1>17. ToList(groupCalls', q) \/ Mirror(q, shownGroups', shownParent', groups, parent)
  <2>1. CASE m.op = "deleted"
    <3>1. l \in DOMAIN groupCalls' /\ groupCalls'[l].op = "list"
      BY <1>9, <2>1
    <3> QED BY <3>1 DEF ToList
  <2>2. CASE m.op # "deleted" /\ ToList(groupCalls, groupAnswers)
    <3>1. CASE \E i \in DOMAIN groupCalls : groupCalls[i].op = "list"
      BY <1>1, <1>2, <2>2, <3>1 DEF ToList
    <3>2. CASE \E i \in DOMAIN groupAnswers : groupAnswers[i].op = "deleted"
      <4>1. PICK i \in DOMAIN groupAnswers : groupAnswers[i].op = "deleted"
        BY <3>2
      <4>2. i - 1 \in DOMAIN q /\ q[i - 1].op = "deleted"
        BY <1>3, <2>2, <4>1
      <4> QED BY <4>2 DEF ToList
    <3> QED BY <2>2, <3>1, <3>2 DEF ToList
  <2>3. CASE m.op # "deleted" /\ Mirror(groupAnswers, shownGroups, shownParent, groups, parent)
    <3> DEFINE u == shownGroups'
               v == shownParent'
    <3>1. m.op = "refused" => /\ \A g \in Group : ~Adds(m, g) /\ ~Sets(m, g)
                              /\ u = shownGroups /\ v = shownParent
      BY <1>2 DEF Adds, Sets
    <3>2. m.op = "list" => /\ \A g \in Group : Adds(m, g) /\ Sets(m, g) /\ ParentIn(m, g) = m.parent[g] /\ (HasRow(m, g) <=> g \in m.id)
                           /\ u = m.id /\ v = m.parent
      BY <1>2 DEF Adds, Sets, ParentIn, HasRow
    <3> HIDE DEF u, v
    <3>3. \A g \in Group : /\ Adds(m, g) => (g \in u <=> HasRow(m, g))
                           /\ ~Adds(m, g) => (g \in u <=> g \in shownGroups)
                           /\ Sets(m, g) /\ (g \in shownGroups \/ Adds(m, g)) => v[g] = ParentIn(m, g)
                           /\ ~Sets(m, g) => v[g] = shownParent[g]
      BY <1>1, <2>3, <3>1, <3>2
    <3>4. Mirror(q, u, v, groups, parent)
      BY <1>7, <2>3, <3>3
    <3> QED BY <3>4 DEF u, v
  <2> QED BY <2>1, <2>2, <2>3 DEF FolderInv
<1> QED BY <1>1, <1>10, <1>11, <1>12, <1>13, <1>14, <1>15, <1>16, <1>17, FolderInvIs

\* With nothing on its way no form is submitted.
LEMMA QuietForm ==
  ASSUME FolderInv, Folders!Quiet
  PROVE  ~submitting /\ groups = shownGroups /\ \A g \in groups : shownParent[g] = parent[g]
<1>1. ~submitting
  BY DEF FolderInv, Sent, Folders!Quiet
<1> QED BY <1>1, QuietMirror DEF Folders!QuietGroupsAreMain

\* The form is opened, or its parent is picked.
LEMMA FolderForm ==
  ASSUME FolderInv, Folders!OpenForm \/ Folders!PickParent
  PROVE  FolderInv'
<1> USE TopAssumption, NoneAssumption DEF NoneAssumption, TopAssumption
<1>0. UNCHANGED <<groups, parent, member, shownGroups, shownParent, submitting, groupCalls, groupAnswers>>
  BY DEF Folders!OpenForm, Folders!PickParent, Folders!vars, Folders!store
<1>1. TreeOfGroups'
  BY <1>0, GroupsStay DEF FolderInv
<1>2. FreshCalls'
  BY <1>0, FreshStays
<1>3. /\ TreeOfGroups /\ FolderTypes /\ groups \subseteq Group /\ shownGroups \subseteq Group
      /\ shownParent \in [Group -> Group \cup {Top}] /\ parent \in [Group -> Group \cup {Top}]
      /\ \A g \in Group : parent[g] \in groups \cup {Top}
  BY DEF FolderInv, FolderTypes, TreeOfGroups, Folders!TypeOK, Folders!ReferencesLive
<1>4. CASE Folders!OpenForm
  <2>1. /\ editedGroup' \in shownGroups \cup {Top} /\ calmGroups' = Folders!Quiet
        /\ parentId' = IF editedGroup' = Top THEN Top ELSE shownParent[editedGroup']
    BY <1>4 DEF Folders!OpenForm
  <2>2. editedGroup' \in Group \cup {Top, None} /\ parentId' \in Group \cup {Top} /\ editedGroup' # None
    BY <1>3, <2>1
  <2>3. calmGroups' \in BOOLEAN
    BY <2>1 DEF Folders!Quiet
  <2>4. CalmForm'
    <3> SUFFICES ASSUME Folders!Quiet PROVE CalmForm'
      BY <2>1 DEF CalmForm
    <3>1. ~submitting /\ groups = shownGroups /\ \A g \in groups : shownParent[g] = parent[g]
      BY QuietForm
    <3>2. Accepts(editedGroup', parentId')
      <4>1. CASE editedGroup' = Top
        BY <2>1, <4>1 DEF Accepts
      <4>2. CASE editedGroup' # Top
        <5>1. editedGroup' \in groups /\ parentId' = parent[editedGroup']
          BY <2>1, <3>1, <4>2
        <5>2. \A g \in groups : Accepts(g, parent[g])
          BY <1>3, ParentIsNoLoop
        <5> QED BY <5>1, <5>2
      <4> QED BY <4>1, <4>2
    <3> QED BY <1>0, <3>1, <3>2 DEF CalmForm, Folders!Quiet, Accepts, Folders!wouldCycle, Folders!Ancestors, Folders!Closed
  <2>5. FolderTypes' /\ FolderFlags'
    BY <1>0, <2>2, <2>3 DEF FolderInv, FolderTypes, FolderFlags
  <2> QED BY <1>0, <1>1, <1>2, <2>4, <2>5, FolderInvIs DEF FolderInv, FreshAnswers
<1>5. CASE Folders!PickParent
  <2>1. editedGroup # None /\ parentId' \in Folders!parentOptions /\ UNCHANGED <<editedGroup, calmGroups>>
    BY <1>5 DEF Folders!PickParent
  <2>2. parentId' \in shownGroups \cup {Top}
    BY <2>1 DEF Folders!parentOptions
  <2>3. CalmForm'
    <3> SUFFICES ASSUME calmGroups PROVE CalmForm'
      BY <2>1 DEF CalmForm
    <3>1. CASE Folders!Quiet /\ ~submitting /\ Accepts(editedGroup, parentId)
      <4>1. groups = shownGroups /\ \A g \in groups : shownParent[g] = parent[g]
        BY <3>1, QuietForm
      <4>2. Accepts(editedGroup, parentId')
        <5>1. parentId' \in groups \cup {Top}
          BY <2>2, <4>1
        <5>2. ASSUME editedGroup # Top, parentId' # Top PROVE parentId' \notin Folders!descendantIds(editedGroup)
          <6>1. parentId' \notin Folders!Window!descendantIds(editedGroup)
            BY <2>1, <5>2 DEF Folders!parentOptions
          <6> QED BY <4>1, <5>1, <5>2, <6>1 DEF Folders!Window!descendantIds, Folders!descendantIds
        <5>3. editedGroup # Top => editedGroup \in groups
          BY <3>1 DEF Accepts
        <5>4. \A g, p \in groups : p \in Folders!descendantIds(g) <=> g \in Folders!Ancestors(p)
          BY <1>3, BelowIsUnder
        <5> QED BY <5>1, <5>2, <5>3, <5>4 DEF Accepts, Folders!wouldCycle
      <4> QED BY <1>0, <2>1, <3>1, <4>2 DEF CalmForm, Folders!Quiet, Accepts, Folders!wouldCycle, Folders!Ancestors, Folders!Closed
    <3>2. CASE submitting
      BY <1>0, <2>1, <3>2 DEF FolderInv, CalmForm
    <3> QED BY <2>1, <3>1, <3>2 DEF FolderInv, CalmForm
  <2>4. FolderTypes' /\ FolderFlags'
    BY <1>0, <1>3, <2>1, <2>2 DEF FolderInv, FolderTypes, FolderFlags
  <2> QED BY <1>0, <1>1, <1>2, <2>3, <2>4, FolderInvIs DEF FolderInv, FreshAnswers
<1> QED BY <1>4, <1>5

\* The window calls, with a message e.
LEMMA FolderCalls ==
  ASSUME FolderInv, Folders!handleSubmit \/ Folders!DeleteRow
  PROVE  FolderInv'
<1> USE TopAssumption, NoneAssumption DEF NoneAssumption, TopAssumption
<1>0. UNCHANGED <<groups, parent, member, shownGroups, shownParent, editedGroup, parentId, calmGroups, groupAnswers>>
  BY DEF Folders!handleSubmit, Folders!DeleteRow, Folders!vars, Folders!store, Folders!dialog
<1> DEFINE fresh == calmGroups /\ Folders!Quiet
           l == Len(groupCalls) + 1
<1>1. fresh \in BOOLEAN
  OBVIOUS
<1>2. PICK e \in FolderCall :
        /\ groupCalls' = Append(groupCalls, e)
        /\ \/ /\ editedGroup # None /\ ~submitting /\ submitting' = TRUE
              /\ e.op = (IF editedGroup = Top THEN "create" ELSE "update")
              /\ e.id = editedGroup /\ e.parent = parentId /\ e.inForm /\ e.fresh = fresh
           \/ editedGroup = None /\ UNCHANGED submitting /\ e.op = "delete"
  <2>1. CASE Folders!handleSubmit
    <3> DEFINE op == IF editedGroup = Top THEN "create" ELSE "update"
               e == [op |-> op, id |-> editedGroup, parent |-> parentId, inForm |-> TRUE, fresh |-> fresh]
    <3>1. /\ editedGroup # None /\ ~submitting /\ submitting' = TRUE
          /\ groupCalls' = Append(groupCalls, e)
      BY <2>1 DEF Folders!handleSubmit, Folders!Call
    <3>2. editedGroup \in Group \cup {Top} /\ parentId \in Group \cup {Top}
      BY <3>1 DEF FolderInv, FolderTypes
    <3> HIDE DEF fresh
    <3>3. TRUE \in BOOLEAN
      OBVIOUS
    <3>4. e \in FolderCall
      BY <1>1, <3>2, <3>3 DEF FolderCall
    <3>5. e.op = op /\ e.id = editedGroup /\ e.parent = parentId /\ e.inForm /\ e.fresh = fresh
      OBVIOUS
    <3> HIDE DEF e
    <3> QED BY <3>1, <3>4, <3>5
  <2>2. CASE Folders!DeleteRow
    <3>1. PICK g \in shownGroups : groupCalls' = Append(groupCalls, [op |-> "delete", id |-> g, parent |-> Top, inForm |-> FALSE, fresh |-> fresh])
      BY <2>2 DEF Folders!DeleteRow, Folders!Call
    <3> DEFINE e == [op |-> "delete", id |-> g, parent |-> Top, inForm |-> FALSE, fresh |-> fresh]
    <3>2. editedGroup = None /\ UNCHANGED submitting /\ g \in Group
      BY <2>2 DEF Folders!DeleteRow, Folders!dialog, FolderInv, FolderTypes
    <3> HIDE DEF fresh
    <3>3. FALSE \in {FALSE}
      OBVIOUS
    <3>4. e \in FolderCall
      BY <1>1, <3>2, <3>3 DEF FolderCall
    <3>5. e.op = "delete" /\ groupCalls' = Append(groupCalls, e)
      BY <3>1
    <3> HIDE DEF e
    <3> QED BY <3>2, <3>4, <3>5
  <2> QED BY <2>1, <2>2
<1>3. groupCalls \in Seq(FolderCall) /\ groupAnswers \in Seq(FolderAnswer)
  BY DEF FolderInv, FolderTypes
<1>4. /\ groupCalls' \in Seq(FolderCall) /\ DOMAIN groupCalls' = DOMAIN groupCalls \cup {l} /\ groupCalls'[l] = e
      /\ \A i \in DOMAIN groupCalls : groupCalls'[i] = groupCalls[i]
  <2>1. /\ Append(groupCalls, e) \in Seq(FolderCall) /\ DOMAIN Append(groupCalls, e) = DOMAIN groupCalls \cup {l} /\ Append(groupCalls, e)[l] = e
        /\ \A i \in DOMAIN groupCalls : Append(groupCalls, e)[i] = groupCalls[i]
    BY <1>3, AppendIs
  <2> QED BY <1>2, <2>1
<1>5. groupCalls = <<>> => l = 1 /\ Len(groupCalls') = 1
  BY <1>2, <1>3
<1>6. Folders!Quiet => groupCalls = <<>> /\ groupAnswers = <<>>
  BY DEF Folders!Quiet
<1> HIDE DEF l
<1>7. editedGroup # None => e.fresh = fresh
  BY <1>2
<1>8. fresh => calmGroups /\ Folders!Quiet
  OBVIOUS
<1>9. calmGroups /\ editedGroup # None /\ ~submitting => fresh /\ Accepts(editedGroup, parentId)
  BY DEF FolderInv, CalmForm
<1> HIDE DEF fresh
<1>10. TreeOfGroups'
  BY <1>0, GroupsStay DEF FolderInv
<1>11. FolderTypes'
  BY <1>0, <1>4 DEF FolderInv, FolderTypes
<1>12. FolderFlags'
  <2>1. submitting' \in BOOLEAN
    BY <1>2 DEF FolderInv, FolderFlags
  <2> QED BY <1>0, <2>1 DEF FolderInv, FolderFlags
<1>13. submitting' => Sent(groupCalls', groupAnswers')
  <2>1. CASE editedGroup = None
    BY <1>0, <1>2, <1>4, <2>1 DEF FolderInv, Sent
  <2>2. CASE editedGroup # None
    <3>1. l \in DOMAIN groupCalls' /\ groupCalls'[l] = e /\ e.inForm
      BY <1>2, <1>4, <2>2
    <3>2. \E i \in DOMAIN groupCalls' : groupCalls'[i].inForm
      BY <3>1
    <3> QED BY <3>2 DEF Sent
  <2> QED BY <2>1, <2>2
<1>14. FreshCalls'
  <2>1. ASSUME NEW i \in DOMAIN groupCalls', groupCalls'[i].op \in {"create", "update"} /\ groupCalls'[i].fresh
        PROVE  i = 1 /\ Accepts(groupCalls'[i].id, groupCalls'[i].parent)
    <3>1. CASE i = l
      <4>1. groupCalls'[i] = e /\ e.op # "delete" /\ e.fresh
        BY <1>4, <2>1, <3>1
      <4>2. editedGroup # None /\ ~submitting /\ fresh /\ e.id = editedGroup /\ e.parent = parentId
        BY <1>2, <1>7, <4>1
      <4>3. l = 1 /\ Accepts(editedGroup, parentId)
        BY <1>5, <1>6, <1>8, <1>9, <4>2
      <4> QED BY <3>1, <4>1, <4>2, <4>3
    <3>2. CASE i # l
      <4>1. i \in DOMAIN groupCalls /\ groupCalls'[i] = groupCalls[i]
        BY <1>4, <3>2
      <4> QED BY <2>1, <4>1 DEF FolderInv, FreshCalls
    <3> QED BY <3>1, <3>2
  <2> QED BY <1>0, <2>1 DEF FreshCalls, Accepts, Folders!wouldCycle, Folders!Ancestors, Folders!Closed
<1>15. FreshAnswers'
  BY <1>0 DEF FolderInv, FreshAnswers
<1>16. CalmForm'
  <2> SUFFICES ASSUME editedGroup # None, calmGroups PROVE CalmForm'
    BY <1>0 DEF CalmForm
  <2>1. ~submitting /\ submitting' = TRUE /\ e.op \in {"create", "update"} /\ e.fresh = fresh
    BY <1>2
  <2>2. fresh /\ groupCalls = <<>> /\ groupAnswers = <<>>
    BY <1>6, <1>8, <1>9, <2>1
  <2>3. l = 1 /\ Len(groupCalls') = 1 /\ groupCalls'[1] = e
    BY <1>4, <1>5, <2>2
  <2> QED BY <1>0, <2>1, <2>2, <2>3 DEF CalmForm
<1>17. ToList(groupCalls', groupAnswers') \/ Mirror(groupAnswers', shownGroups', shownParent', groups, parent)
  BY <1>0, <1>4 DEF FolderInv, ToList
<1> QED BY <1>0, <1>10, <1>11, <1>12, <1>13, <1>14, <1>15, <1>16, <1>17, FolderInvIs

LEMMA DialogStep ==
  ASSUME FolderInv, Folders!DialogNext
  PROVE  FolderInv'
BY FolderMain, FolderHears, FolderListens, FolderForm, FolderCalls, FolderCancelled DEF Folders!DialogNext

\* Out of the dialog the groups come and go, and the dialog is as it was at the start.
NoDialog ==
  /\ TreeOfGroups /\ FolderTypes /\ FolderFlags /\ Folders!Quiet /\ ~submitting
FoldersInv == IF part = "groups" THEN FolderInv ELSE NoDialog

LEMMA InitFolders == Folders!DialogInit => FoldersInv
<1> USE TopAssumption, NoneAssumption DEF NoneAssumption, TopAssumption
<1> SUFFICES ASSUME Folders!DialogInit PROVE FoldersInv
  OBVIOUS
<1>1. /\ groups = {} /\ parent = [g \in Group |-> Top] /\ shownGroups = {} /\ shownParent = [g \in Group |-> Top]
      /\ editedGroup = None /\ parentId = Top /\ submitting = FALSE /\ calmGroups = TRUE
      /\ groupCalls = <<>> /\ groupAnswers = <<>>
  BY DEF Folders!DialogInit, Folders!Init
<1>2. TreeOfGroups
  BY GroupsStay DEF Folders!DialogInit
<1>3. FolderTypes /\ FolderFlags
  <2>1. submitting \in BOOLEAN /\ calmGroups \in BOOLEAN
    BY <1>1
  <2>2. groupCalls \in Seq(FolderCall) /\ groupAnswers \in Seq(FolderAnswer)
    BY <1>1
  <2> QED BY <1>1, <2>1, <2>2 DEF FolderTypes, FolderFlags
<1>4. FreshCalls /\ FreshAnswers /\ CalmForm
  BY <1>1 DEF FreshCalls, FreshAnswers, CalmForm
<1>5. Mirror(groupAnswers, shownGroups, shownParent, groups, parent)
  BY <1>1 DEF Mirror
<1> QED BY <1>1, <1>2, <1>3, <1>4, <1>5 DEF FoldersInv, FolderInv, NoDialog, Folders!Quiet

LEMMA NextFolders ==
  ASSUME FoldersInv, UNCHANGED part,
         \/ part = "groups" /\ (Folders!DialogNext \/ UNCHANGED <<groups, parent, member, folders>>)
         \/ part # "groups" /\ UNCHANGED folders /\ (Folders!Next \/ Moves \/ UNCHANGED <<groups, parent, member>>)
  PROVE  FoldersInv'
<1>1. CASE part = "groups" /\ Folders!DialogNext
  BY <1>1, DialogStep DEF FoldersInv
<1>2. CASE part = "groups" /\ UNCHANGED <<groups, parent, member, folders>>
  <2>1. FolderInv
    BY <1>2 DEF FoldersInv
  <2>2. UNCHANGED <<groups, parent, member, shownGroups, shownParent, editedGroup, parentId, submitting, calmGroups, groupCalls, groupAnswers>>
    BY <1>2 DEF folders
  <2>3. TreeOfGroups'
    BY <2>1, <2>2, GroupsStay DEF FolderInv
  <2>4. FreshCalls'
    BY <2>1, <2>2, FreshStays
  <2>5. FolderTypes' /\ FolderFlags' /\ FreshAnswers'
    BY <2>1, <2>2 DEF FolderInv, FolderTypes, FolderFlags, FreshAnswers
  <2>6. CalmForm'
    BY <2>1, <2>2 DEF FolderInv, CalmForm, Folders!Quiet, Accepts, Folders!wouldCycle, Folders!Ancestors, Folders!Closed
  <2>7. submitting' => Sent(groupCalls', groupAnswers')
    BY <2>1, <2>2 DEF FolderInv
  <2>8. ToList(groupCalls', groupAnswers') \/ Mirror(groupAnswers', shownGroups', shownParent', groups', parent')
    BY <2>1, <2>2 DEF FolderInv
  <2>9. FolderInv'
    BY <2>3, <2>4, <2>5, <2>6, <2>7, <2>8, FolderInvIs
  <2> QED BY <1>2, <2>9 DEF FoldersInv
<1>3. CASE part # "groups" /\ UNCHANGED folders /\ (Folders!Next \/ Moves \/ UNCHANGED <<groups, parent, member>>)
  <2>1. NoDialog
    BY <1>3 DEF FoldersInv
  <2>2. UNCHANGED <<shownGroups, shownParent, editedGroup, parentId, submitting, calmGroups, groupCalls, groupAnswers>>
    BY <1>3 DEF folders
  <2>3. TreeOfGroups'
    BY <1>3, <2>1, GroupsStay DEF NoDialog
  <2>4. NoDialog'
    BY <2>1, <2>2, <2>3 DEF NoDialog, FolderTypes, FolderFlags, Folders!Quiet
  <2> QED BY <1>3, <2>4 DEF FoldersInv
<1> QED BY <1>1, <1>2, <1>3

LEMMA FoldersShow ==
  FoldersInv => /\ Folders!DialogTypeOK /\ Folders!FreshIsAccepted
                /\ part = "groups" => Folders!QuietGroupsAreMain
<1>1. ASSUME FoldersInv PROVE Folders!DialogTypeOK
  BY <1>1 DEF FoldersInv, FolderInv, NoDialog, TreeOfGroups, FolderTypes, FolderFlags, Folders!DialogTypeOK
<1>2. ASSUME NoDialog PROVE Folders!FreshIsAccepted
  BY <1>2 DEF NoDialog, Folders!Quiet, Folders!FreshIsAccepted, Folders!Range
<1> QED BY <1>1, <1>2, FolderShows, QuietMirror DEF FoldersInv

-----------------------------------------------------------------------------
(* The tunnels *)

TunnelRows == [Tunnel -> Panel!Addr \cup {None}]
Statuses == [Tunnel -> {"running", "stopped", "error", None}]
PanelCall ==
       [op : {"list"}, then : {"load", "saved"}, copy : {None}]
  \cup [op : {"list"}, then : {"removed"}, copy : Statuses]
  \cup [op : {"statuses"}]
  \cup [op : {"save"}, new : BOOLEAN, id : Tunnel, listenHost : Panel!Addr]
  \cup [op : {"remove", "stop", "start"}, id : Tunnel]
PanelAnswer ==
       [op : {"list"}, is : TunnelRows, then : {"load", "saved"}, copy : {None}]
  \cup [op : {"list"}, is : TunnelRows, then : {"removed"}, copy : Statuses]
  \cup [op : {"statuses"}, is : [Tunnel -> {"running", None}]]
  \cup [op : {"saved", "refused"}]
  \cup [op : {"removed", "stopped"}, id : Tunnel]
  \cup [op : {"status"}, id : Tunnel, is : {"running", "stopped", "error"}]

\* The messages of load(), of what lists again, of a change.
Opening(m) == m.op = "list" /\ m.then = "load"
Relist(m) == m.op = "list" /\ m.then # "load"
Change(m) == m.op \in {"saved", "removed"}

\* The rows are listed again: asked for, answered, or because a change is still to be heard.
RelistDue(c, a) ==
  \/ \E i \in DOMAIN c : Relist(c[i])
  \/ \E i \in DOMAIN a : Relist(a[i]) \/ Change(a[i])
ShownOrDue(c, a, s, d) == (\A t \in Tunnel : s[t] = None) \/ s = d \/ RelistDue(c, a)

\* A list in the answers is that of the rows d, or a change follows it.
FreshLists(a, d) ==
  \A i \in DOMAIN a : a[i].op = "list" => a[i].is = d \/ \E k \in DOMAIN a : k > i /\ Change(a[k])

\* While load() waits for the statuses nothing but its list and events comes before them, and no
\* list of another's.
LoadIsFirst(c, a) ==
  /\ \A i \in DOMAIN c : c[i].op = "statuses" =>
       /\ \A k \in DOMAIN c : k < i => Opening(c[k])
       /\ \A k \in DOMAIN a : a[k].op = "status" \/ Opening(a[k])
  /\ \A i \in DOMAIN a : a[i].op = "statuses" =>
       \A k \in DOMAIN a : k < i => a[k].op = "status" \/ Opening(a[k])
  /\ (\E i \in DOMAIN c : c[i].op = "statuses") \/ (\E i \in DOMAIN a : a[i].op = "statuses") =>
       (\A i \in DOMAIN c : ~Relist(c[i])) /\ \A i \in DOMAIN a : ~Relist(a[i])

\* The list l that load() holds is that of the rows d, when the statuses come.
LoadHolds(c, a, l, d) ==
  /\ \A i \in DOMAIN c : c[i].op = "statuses" =>
       (\E k \in DOMAIN c : k < i /\ Opening(c[k])) \/ (\E k \in DOMAIN a : Opening(a[k])) \/ l = d
  /\ \A i \in DOMAIN a : a[i].op = "statuses" =>
       \/ \E k \in DOMAIN a : k < i /\ Opening(a[k])
       \/ l \in TunnelRows /\ (l = d \/ \E k \in DOMAIN a : k > i /\ Change(a[k]))

PanelFlow(c, a, d, l, s) ==
  FreshLists(a, d) /\ LoadIsFirst(c, a) /\ LoadHolds(c, a, l, d) /\ ShownOrDue(c, a, s, d)

LEMMA OpKinds ==
  ASSUME NEW m
  PROVE  /\ m.op \notin {"list", "saved", "removed"} => ~Opening(m) /\ ~Relist(m) /\ ~Change(m)
         /\ m.op = "list" => ~Change(m) /\ (Opening(m) \/ Relist(m)) /\ ~(Opening(m) /\ Relist(m))
         /\ m.op \in {"saved", "removed"} => Change(m) /\ ~Opening(m) /\ ~Relist(m)
BY DEF Opening, Relist, Change

\* An event is told.
LEMMA FlowTold ==
  ASSUME NEW T, NEW c, NEW a \in Seq(T), NEW m \in T, NEW d, NEW l, NEW s, PanelFlow(c, a, d, l, s), m.op = "status"
  PROVE  PanelFlow(c, Append(a, m), d, l, s)
<1> DEFINE b == Append(a, m)
           n == Len(a) + 1
<1>1. DOMAIN b = DOMAIN a \cup {n} /\ b[n] = m /\ n \in Nat /\ \A i \in DOMAIN a : i \in Nat /\ i < n /\ b[i] = a[i]
  BY AppendIs
<1> HIDE DEF b, n
<1>2. ~Opening(m) /\ ~Relist(m) /\ ~Change(m) /\ m.op \notin {"list", "statuses"}
  BY OpKinds
<1>3. FreshLists(b, d)
  BY <1>1, <1>2 DEF PanelFlow, FreshLists
<1>4. LoadIsFirst(c, b)
  BY <1>1, <1>2 DEF PanelFlow, LoadIsFirst
<1>5. LoadHolds(c, b, l, d)
  BY <1>1, <1>2 DEF PanelFlow, LoadHolds
<1>6. ShownOrDue(c, b, s, d)
  BY <1>1, <1>2 DEF PanelFlow, ShownOrDue, RelistDue
<1> QED BY <1>3, <1>4, <1>5, <1>6 DEF PanelFlow, b

\* The window asks for something else than a list.
LEMMA FlowAsked ==
  ASSUME NEW T, NEW c \in Seq(T), NEW m \in T, NEW a, NEW d, NEW l, NEW s, PanelFlow(c, a, d, l, s),
         m.op \notin {"list", "statuses"}
  PROVE  PanelFlow(Append(c, m), a, d, l, s)
<1> DEFINE b == Append(c, m)
           n == Len(c) + 1
<1>1. DOMAIN b = DOMAIN c \cup {n} /\ b[n] = m /\ n \in Nat /\ \A i \in DOMAIN c : i \in Nat /\ i < n /\ b[i] = c[i]
  BY AppendIs
<1> HIDE DEF b, n
<1>2. ~Relist(m) /\ m.op \notin {"list", "statuses"}
  BY DEF Relist
<1>4. LoadIsFirst(b, a)
  BY <1>1, <1>2 DEF PanelFlow, LoadIsFirst
<1>5. LoadHolds(b, a, l, d)
  BY <1>1, <1>2 DEF PanelFlow, LoadHolds
<1>6. ShownOrDue(b, a, s, d)
  BY <1>1, <1>2 DEF PanelFlow, ShownOrDue, RelistDue
<1> QED BY <1>4, <1>5, <1>6 DEF PanelFlow, b

\* Main takes a call that is not of a list or of the statuses.
LEMMA FlowTaken ==
  ASSUME NEW T, NEW c \in Seq(T), c # <<>>, NEW a, NEW d, NEW l, NEW s, PanelFlow(c, a, d, l, s),
         Head(c).op \notin {"list", "statuses"}
  PROVE  PanelFlow(Tail(c), a, d, l, s) /\ \A i \in DOMAIN Tail(c) : Tail(c)[i].op # "statuses"
<1> DEFINE b == Tail(c)
           h == Head(c)
<1>1. /\ h = c[1] /\ 1 \in DOMAIN c
      /\ \A i \in DOMAIN b : i \in Nat /\ i + 1 \in DOMAIN c /\ b[i] = c[i + 1]
      /\ \A i \in DOMAIN c : i \in Nat /\ (i # 1 => i > 1 /\ i - 1 \in DOMAIN b /\ b[i - 1] = c[i])
  BY TailIs
<1>2. ~Opening(h) /\ ~Relist(h) /\ h.op # "statuses"
  BY DEF Relist, Opening
<1> HIDE DEF b, h
<1>3. \A i \in DOMAIN c : c[i].op # "statuses"
  <2> SUFFICES ASSUME NEW i \in DOMAIN c, c[i].op = "statuses" PROVE FALSE
    OBVIOUS
  <2>1. i # 1 /\ 1 < i
    BY <1>1, <1>2
  <2>2. Opening(c[1])
    BY <1>1, <2>1 DEF PanelFlow, LoadIsFirst
  <2> QED BY <1>1, <1>2, <2>2
<1>4. \A i \in DOMAIN b : b[i].op # "statuses"
  BY <1>1, <1>3
<1>5. (\A i \in DOMAIN c : ~Relist(c[i])) => \A i \in DOMAIN b : ~Relist(b[i])
  BY <1>1
<1>6. LoadIsFirst(b, a)
  BY <1>4, <1>5 DEF PanelFlow, LoadIsFirst
<1>7. LoadHolds(b, a, l, d)
  BY <1>4 DEF PanelFlow, LoadHolds
<1>8. (\E i \in DOMAIN c : Relist(c[i])) => \E i \in DOMAIN b : Relist(b[i])
  BY <1>1, <1>2
<1>9. ShownOrDue(b, a, s, d)
  BY <1>8 DEF PanelFlow, ShownOrDue, RelistDue
<1> QED BY <1>4, <1>6, <1>7, <1>9 DEF PanelFlow, b

\* And answers: without a change of the rows d, or with one to e.
LEMMA FlowAnswered ==
  ASSUME NEW T, NEW c, NEW a \in Seq(T), NEW m \in T, NEW d, NEW e, NEW l, NEW s, PanelFlow(c, a, d, l, s),
         \A i \in DOMAIN c : c[i].op # "statuses", m.op \notin {"list", "statuses"}, Change(m) \/ e = d
  PROVE  PanelFlow(c, Append(a, m), e, l, s)
<1> DEFINE b == Append(a, m)
           n == Len(a) + 1
<1>1. DOMAIN b = DOMAIN a \cup {n} /\ b[n] = m /\ n \in Nat /\ \A i \in DOMAIN a : i \in Nat /\ i < n /\ b[i] = a[i]
  BY AppendIs
<1> HIDE DEF b, n
<1>2. ~Opening(m) /\ ~Relist(m) /\ m.op \notin {"list", "statuses"}
  BY DEF Opening, Relist
<1>3. FreshLists(b, e)
  BY <1>1, <1>2 DEF PanelFlow, FreshLists
<1>4. LoadIsFirst(c, b)
  BY <1>1, <1>2 DEF PanelFlow, LoadIsFirst
<1>5. LoadHolds(c, b, l, e)
  BY <1>1, <1>2 DEF PanelFlow, LoadHolds
<1>6. ShownOrDue(c, b, s, e)
  BY <1>1, <1>2 DEF PanelFlow, ShownOrDue, RelistDue
<1> QED BY <1>3, <1>4, <1>5, <1>6 DEF PanelFlow, b

\* Main lists its rows.
LEMMA FlowListed ==
  ASSUME NEW T, NEW c \in Seq(T), c # <<>>, NEW S, NEW a \in Seq(S), NEW m \in S, NEW d, NEW l, NEW s, PanelFlow(c, a, d, l, s),
         Head(c).op = "list", m.op = "list", m.then = Head(c).then, m.is = d
  PROVE  PanelFlow(Tail(c), Append(a, m), d, l, s)
<1> DEFINE b == Append(a, m)
           n == Len(a) + 1
           p == Tail(c)
           h == Head(c)
<1>1. DOMAIN b = DOMAIN a \cup {n} /\ b[n] = m /\ n \in Nat /\ \A i \in DOMAIN a : i \in Nat /\ i < n /\ b[i] = a[i]
  BY AppendIs
<1>2. /\ h = c[1] /\ 1 \in DOMAIN c
      /\ \A i \in DOMAIN p : i \in Nat /\ i + 1 \in DOMAIN c /\ p[i] = c[i + 1]
      /\ \A i \in DOMAIN c : i \in Nat /\ (i # 1 => i > 1 /\ i - 1 \in DOMAIN p /\ p[i - 1] = c[i])
  BY TailIs
<1>3. (Opening(m) <=> Opening(h)) /\ (Relist(m) <=> Relist(h)) /\ m.op = "list" /\ h.op = "list" /\ m.is = d
      /\ (Relist(m) <=> ~Opening(m))
  BY DEF Opening, Relist
<1> HIDE DEF b, n, p, h
<1>4. FreshLists(b, d)
  BY <1>1, <1>3 DEF PanelFlow, FreshLists
<1>5. LoadIsFirst(p, b)
  <2>1. LoadIsFirst(c, a)
    BY DEF PanelFlow
  <2>2. ASSUME NEW i \in DOMAIN p, p[i].op = "statuses"
        PROVE  /\ \A k \in DOMAIN p : k < i => Opening(p[k])
               /\ \A k \in DOMAIN b : b[k].op = "status" \/ Opening(b[k])
    <3>1. i + 1 \in DOMAIN c /\ c[i + 1].op = "statuses" /\ i + 1 > 1
      BY <1>2, <2>2
    <3>2. Opening(h) /\ (\A k \in DOMAIN c : k < i + 1 => Opening(c[k])) /\ \A k \in DOMAIN a : a[k].op = "status" \/ Opening(a[k])
      BY <1>2, <2>1, <3>1 DEF LoadIsFirst
    <3> QED BY <1>1, <1>2, <1>3, <3>2
  <2>3. ASSUME NEW i \in DOMAIN b, b[i].op = "statuses", NEW k \in DOMAIN b, k < i PROVE b[k].op = "status" \/ Opening(b[k])
    BY <1>1, <1>3, <2>1, <2>3 DEF LoadIsFirst
  <2>4. ASSUME (\E i \in DOMAIN p : p[i].op = "statuses") \/ (\E i \in DOMAIN b : b[i].op = "statuses")
        PROVE  (\A i \in DOMAIN p : ~Relist(p[i])) /\ \A i \in DOMAIN b : ~Relist(b[i])
    <3>1. (\E i \in DOMAIN c : c[i].op = "statuses") \/ (\E i \in DOMAIN a : a[i].op = "statuses")
      BY <1>1, <1>2, <1>3, <2>4
    <3>2. (\A i \in DOMAIN c : ~Relist(c[i])) /\ \A i \in DOMAIN a : ~Relist(a[i])
      BY <2>1, <3>1 DEF LoadIsFirst
    <3> QED BY <1>1, <1>2, <1>3, <3>2
  <2> QED BY <2>2, <2>3, <2>4 DEF LoadIsFirst
<1>6. LoadHolds(p, b, l, d)
  <2>1. LoadHolds(c, a, l, d)
    BY DEF PanelFlow
  <2>2. ASSUME NEW i \in DOMAIN p, p[i].op = "statuses"
        PROVE  (\E k \in DOMAIN p : k < i /\ Opening(p[k])) \/ (\E k \in DOMAIN b : Opening(b[k])) \/ l = d
    <3>1. i + 1 \in DOMAIN c /\ c[i + 1].op = "statuses"
      BY <1>2, <2>2
    <3>2. (\E k \in DOMAIN c : k < i + 1 /\ Opening(c[k])) \/ (\E k \in DOMAIN a : Opening(a[k])) \/ l = d
      BY <2>1, <3>1 DEF LoadHolds
    <3>3. ASSUME NEW k \in DOMAIN c, k < i + 1, Opening(c[k]) PROVE (\E j \in DOMAIN p : j < i /\ Opening(p[j])) \/ \E j \in DOMAIN b : Opening(b[j])
      <4>1. CASE k = 1
        <5>1. n \in DOMAIN b /\ Opening(b[n])
          BY <1>1, <1>2, <1>3, <3>3, <4>1
        <5> QED BY <5>1
      <4>2. CASE k # 1
        <5>1. k \in Nat /\ i \in Nat /\ k - 1 \in DOMAIN p /\ p[k - 1] = c[k]
          BY <1>2, <4>2
        <5>2. k - 1 < i
          BY <3>3, <5>1
        <5> QED BY <3>3, <5>1, <5>2
      <4> QED BY <4>1, <4>2
    <3> QED BY <1>1, <3>2, <3>3
  <2>3. ASSUME NEW i \in DOMAIN b, b[i].op = "statuses"
        PROVE  \/ \E k \in DOMAIN b : k < i /\ Opening(b[k])
               \/ l \in TunnelRows /\ (l = d \/ \E k \in DOMAIN b : k > i /\ Change(b[k]))
    <3>1. i \in DOMAIN a /\ a[i].op = "statuses"
      BY <1>1, <1>3, <2>3
    <3> QED BY <1>1, <2>1, <3>1 DEF LoadHolds
  <2> QED BY <2>2, <2>3 DEF LoadHolds
<1>7. ShownOrDue(p, b, s, d)
  <2>1. RelistDue(c, a) => RelistDue(p, b)
    BY <1>1, <1>2, <1>3 DEF RelistDue
  <2> QED BY <2>1 DEF PanelFlow, ShownOrDue
<1> QED BY <1>4, <1>5, <1>6, <1>7 DEF PanelFlow, b, p

\* Main gives the statuses.
LEMMA FlowStatuses ==
  ASSUME NEW T, NEW c \in Seq(T), c # <<>>, NEW S, NEW a \in Seq(S), NEW m \in S, NEW d \in TunnelRows, NEW l, NEW s,
         PanelFlow(c, a, d, l, s), Head(c).op = "statuses", m.op = "statuses"
  PROVE  PanelFlow(Tail(c), Append(a, m), d, l, s)
<1> DEFINE b == Append(a, m)
           n == Len(a) + 1
           p == Tail(c)
           h == Head(c)
<1>1. DOMAIN b = DOMAIN a \cup {n} /\ b[n] = m /\ n \in Nat /\ \A i \in DOMAIN a : i \in Nat /\ i < n /\ b[i] = a[i]
  BY AppendIs
<1>2. /\ h = c[1] /\ 1 \in DOMAIN c
      /\ \A i \in DOMAIN p : i \in Nat /\ i > 0 /\ i + 1 \in DOMAIN c /\ p[i] = c[i + 1]
      /\ \A i \in DOMAIN c : i \in Nat /\ (i # 1 => i > 1 /\ i - 1 \in DOMAIN p /\ p[i - 1] = c[i])
  BY TailIs, IndexIs
<1>3. m.op = "statuses" /\ ~Opening(m) /\ ~Relist(m) /\ ~Change(m) /\ ~Opening(h) /\ ~Relist(h) /\ h.op = "statuses"
  BY DEF Opening, Relist, Change
<1> HIDE DEF b, n, p, h
<1>4. (\A k \in DOMAIN a : a[k].op = "status" \/ Opening(a[k])) /\ (\A i \in DOMAIN c : ~Relist(c[i])) /\ (\A i \in DOMAIN a : ~Relist(a[i]))
      /\ ((\E k \in DOMAIN a : Opening(a[k])) \/ l = d)
  <2>1. ~\E k \in DOMAIN c : k < 1 /\ Opening(c[k])
    BY <1>2
  <2>2. \E i \in DOMAIN c : c[i].op = "statuses"
    BY <1>2, <1>3
  <2> QED BY <1>2, <1>3, <2>1, <2>2 DEF PanelFlow, LoadIsFirst, LoadHolds
<1>5. \A i \in DOMAIN p : p[i].op # "statuses"
  <2> SUFFICES ASSUME NEW i \in DOMAIN p, p[i].op = "statuses" PROVE FALSE
    OBVIOUS
  <2>1. i + 1 \in DOMAIN c /\ c[i + 1].op = "statuses" /\ 1 < i + 1
    BY <1>2
  <2>2. Opening(c[1])
    BY <1>2, <2>1 DEF PanelFlow, LoadIsFirst
  <2> QED BY <1>2, <1>3, <2>2
<1>6. FreshLists(b, d)
  BY <1>1, <1>3 DEF PanelFlow, FreshLists
<1>7. \A i \in DOMAIN a : a[i].op # "statuses"
  BY <1>4 DEF Opening
<1>8. LoadIsFirst(p, b)
  <2>1. \A i \in DOMAIN b : b[i].op = "statuses" => \A k \in DOMAIN b : k < i => b[k].op = "status" \/ Opening(b[k])
    BY <1>1, <1>4, <1>7
  <2>2. (\A i \in DOMAIN p : ~Relist(p[i])) /\ \A i \in DOMAIN b : ~Relist(b[i])
    BY <1>1, <1>2, <1>3, <1>4
  <2> QED BY <1>5, <2>1, <2>2 DEF LoadIsFirst
<1>9. LoadHolds(p, b, l, d)
  <2>1. ASSUME NEW i \in DOMAIN b, b[i].op = "statuses"
        PROVE  (\E k \in DOMAIN b : k < i /\ Opening(b[k])) \/ l = d
    <3>1. i = n
      BY <1>1, <1>7, <2>1
    <3> QED BY <1>1, <1>4, <3>1
  <2> QED BY <1>5, <2>1 DEF LoadHolds
<1>10. ShownOrDue(p, b, s, d)
  <2>1. RelistDue(c, a) => RelistDue(p, b)
    BY <1>1, <1>4 DEF RelistDue
  <2> QED BY <2>1 DEF PanelFlow, ShownOrDue
<1> QED BY <1>6, <1>8, <1>9, <1>10 DEF PanelFlow, b, p

\* The window hears an event or an answer that leaves the lists.
LEMMA FlowHeard ==
  ASSUME NEW T, NEW c, NEW a \in Seq(T), a # <<>>, NEW d, NEW l, NEW s, PanelFlow(c, a, d, l, s),
         Head(a).op \notin {"list", "statuses", "saved", "removed"}
  PROVE  PanelFlow(c, Tail(a), d, l, s)
<1> DEFINE p == Tail(a)
           h == Head(a)
<1>1. /\ h = a[1] /\ 1 \in DOMAIN a
      /\ \A i \in DOMAIN p : i \in Nat /\ i > 0 /\ i + 1 \in DOMAIN a /\ p[i] = a[i + 1]
      /\ \A i \in DOMAIN a : i \in Nat /\ (i # 1 => i > 1 /\ i - 1 \in DOMAIN p /\ p[i - 1] = a[i])
  BY TailIs, IndexIs
<1>2. ~Opening(h) /\ ~Relist(h) /\ ~Change(h) /\ h.op \notin {"list", "statuses"}
  BY DEF Opening, Relist, Change
<1> HIDE DEF p, h
<1>3. FreshLists(p, d)
  <2> SUFFICES ASSUME NEW i \in DOMAIN p, p[i].op = "list", p[i].is # d PROVE \E k \in DOMAIN p : k > i /\ Change(p[k])
    BY DEF FreshLists
  <2>1. PICK k \in DOMAIN a : k > i + 1 /\ Change(a[k])
    BY <1>1 DEF PanelFlow, FreshLists
  <2>2. k - 1 \in DOMAIN p /\ p[k - 1] = a[k] /\ k - 1 > i
    BY <1>1, <2>1
  <2> QED BY <2>1, <2>2
<1>4. LoadIsFirst(c, p)
  <2>1. \A i \in DOMAIN c : c[i].op = "statuses" => \A k \in DOMAIN p : p[k].op = "status" \/ Opening(p[k])
    BY <1>1 DEF PanelFlow, LoadIsFirst
  <2>2. ASSUME NEW i \in DOMAIN p, p[i].op = "statuses", NEW k \in DOMAIN p, k < i PROVE p[k].op = "status" \/ Opening(p[k])
    <3>1. i + 1 \in DOMAIN a /\ k + 1 \in DOMAIN a /\ k + 1 < i + 1 /\ p[i] = a[i + 1] /\ p[k] = a[k + 1]
      BY <1>1, <2>2
    <3> QED BY <2>2, <3>1 DEF PanelFlow, LoadIsFirst
  <2>3. (\E i \in DOMAIN p : p[i].op = "statuses") => \E i \in DOMAIN a : a[i].op = "statuses"
    BY <1>1
  <2>4. (\A i \in DOMAIN a : ~Relist(a[i])) => \A i \in DOMAIN p : ~Relist(p[i])
    BY <1>1
  <2> QED BY <2>1, <2>2, <2>3, <2>4 DEF PanelFlow, LoadIsFirst
<1>5. LoadHolds(c, p, l, d)
  <2>1. (\E k \in DOMAIN a : Opening(a[k])) => \E k \in DOMAIN p : Opening(p[k])
    BY <1>1, <1>2
  <2>2. ASSUME NEW i \in DOMAIN p, p[i].op = "statuses"
        PROVE  \/ \E k \in DOMAIN p : k < i /\ Opening(p[k])
               \/ l \in TunnelRows /\ (l = d \/ \E k \in DOMAIN p : k > i /\ Change(p[k]))
    <3>1. i \in Nat /\ i + 1 \in DOMAIN a /\ a[i + 1].op = "statuses"
      BY <1>1, <2>2
    <3>2. \/ \E k \in DOMAIN a : k < i + 1 /\ Opening(a[k])
          \/ l \in TunnelRows /\ (l = d \/ \E k \in DOMAIN a : k > i + 1 /\ Change(a[k]))
      BY <3>1 DEF PanelFlow, LoadHolds
    <3>3. ASSUME NEW k \in DOMAIN a, k # 1 PROVE k - 1 \in DOMAIN p /\ p[k - 1] = a[k] /\ (k < i + 1 => k - 1 < i) /\ (k > i + 1 => k - 1 > i)
      <4>1. k \in Nat /\ k - 1 \in DOMAIN p /\ p[k - 1] = a[k]
        BY <1>1, <3>3
      <4> QED BY <3>1, <4>1
    <3>4. \A k \in DOMAIN a : Opening(a[k]) \/ k > i + 1 => k # 1
      BY <1>1, <1>2, <3>1
    <3>5. (\E k \in DOMAIN a : k < i + 1 /\ Opening(a[k])) => \E k \in DOMAIN p : k < i /\ Opening(p[k])
      BY <3>3, <3>4
    <3>6. (\E k \in DOMAIN a : k > i + 1 /\ Change(a[k])) => \E k \in DOMAIN p : k > i /\ Change(p[k])
      BY <3>3, <3>4
    <3> QED BY <3>2, <3>5, <3>6
  <2> QED BY <2>1, <2>2 DEF PanelFlow, LoadHolds
<1>6. ShownOrDue(c, p, s, d)
  <2>1. RelistDue(c, a) => RelistDue(c, p)
    BY <1>1, <1>2 DEF RelistDue
  <2> QED BY <2>1 DEF PanelFlow, ShownOrDue
<1> QED BY <1>3, <1>4, <1>5, <1>6 DEF PanelFlow, p

\* It hears of a change: nobody loads, and the rows are listed again.
LEMMA FlowChanged ==
  ASSUME NEW S, NEW c \in Seq(S), NEW r \in S, NEW T, NEW a \in Seq(T), a # <<>>, NEW d, NEW l, NEW s, PanelFlow(c, a, d, l, s),
         Change(Head(a)), Relist(r)
  PROVE  PanelFlow(Append(c, r), Tail(a), d, l, s)
<1> DEFINE p == Tail(a)
           h == Head(a)
           b == Append(c, r)
           n == Len(c) + 1
<1>1. /\ h = a[1] /\ 1 \in DOMAIN a
      /\ \A i \in DOMAIN p : i \in Nat /\ i > 0 /\ i + 1 \in DOMAIN a /\ p[i] = a[i + 1]
      /\ \A i \in DOMAIN a : i \in Nat /\ (i # 1 => i > 1 /\ i - 1 \in DOMAIN p /\ p[i - 1] = a[i])
  BY TailIs, IndexIs
<1>2. DOMAIN b = DOMAIN c \cup {n} /\ b[n] = r /\ n \in Nat /\ \A i \in DOMAIN c : i \in Nat /\ i < n /\ b[i] = c[i]
  BY AppendIs
<1>3. Change(h) /\ ~Opening(h) /\ h.op \notin {"status", "list", "statuses"} /\ r.op # "statuses"
  BY DEF Change, Opening, Relist
<1> HIDE DEF p, h, b, n
<1>4. \A i \in DOMAIN b : b[i].op # "statuses"
  BY <1>1, <1>2, <1>3 DEF PanelFlow, LoadIsFirst
<1>5. \A i \in DOMAIN p : p[i].op # "statuses"
  <2> SUFFICES ASSUME NEW i \in DOMAIN p, p[i].op = "statuses" PROVE FALSE
    OBVIOUS
  <2>1. i + 1 \in DOMAIN a /\ a[i + 1].op = "statuses" /\ 1 < i + 1
    BY <1>1
  <2>2. a[1].op = "status" \/ Opening(a[1])
    BY <1>1, <2>1 DEF PanelFlow, LoadIsFirst
  <2> QED BY <1>1, <1>3, <2>2
<1>6. FreshLists(p, d)
  <2> SUFFICES ASSUME NEW i \in DOMAIN p, p[i].op = "list", p[i].is # d PROVE \E k \in DOMAIN p : k > i /\ Change(p[k])
    BY DEF FreshLists
  <2>1. PICK k \in DOMAIN a : k > i + 1 /\ Change(a[k])
    BY <1>1 DEF PanelFlow, FreshLists
  <2>2. k - 1 \in DOMAIN p /\ p[k - 1] = a[k] /\ k - 1 > i
    BY <1>1, <2>1
  <2> QED BY <2>1, <2>2
<1>7. LoadIsFirst(b, p) /\ LoadHolds(b, p, l, d)
  BY <1>4, <1>5 DEF LoadIsFirst, LoadHolds
<1>8. RelistDue(b, p)
  BY <1>2 DEF RelistDue
<1> QED BY <1>6, <1>7, <1>8 DEF PanelFlow, ShownOrDue, b, p

\* It hears a list that is shown at once, or the one that load() holds.
LEMMA FlowRelisted ==
  ASSUME NEW c, NEW T, NEW a \in Seq(T), a # <<>>, NEW d, NEW l, NEW s, PanelFlow(c, a, d, l, s), Head(a).op = "list"
  PROVE  /\ Relist(Head(a)) => PanelFlow(c, Tail(a), d, l, Head(a).is)
         /\ Opening(Head(a)) /\ Head(a).is \in TunnelRows => PanelFlow(c, Tail(a), d, Head(a).is, s)
<1> DEFINE p == Tail(a)
           h == Head(a)
           x == h.is
<1>1. /\ h = a[1] /\ 1 \in DOMAIN a
      /\ \A i \in DOMAIN p : i \in Nat /\ i > 0 /\ i + 1 \in DOMAIN a /\ p[i] = a[i + 1]
      /\ \A i \in DOMAIN a : i \in Nat /\ (i # 1 => i > 1 /\ i - 1 \in DOMAIN p /\ p[i - 1] = a[i])
  BY TailIs, IndexIs
<1>2. h.op = "list" /\ ~Change(h) /\ (Opening(h) \/ Relist(h)) /\ ~(Opening(h) /\ Relist(h))
  BY OpKinds
<1>3. x = h.is
  OBVIOUS
<1> HIDE DEF p, h, x
<1>4. FreshLists(p, d)
  <2> SUFFICES ASSUME NEW i \in DOMAIN p, p[i].op = "list", p[i].is # d PROVE \E k \in DOMAIN p : k > i /\ Change(p[k])
    BY DEF FreshLists
  <2>1. PICK k \in DOMAIN a : k > i + 1 /\ Change(a[k])
    BY <1>1 DEF PanelFlow, FreshLists
  <2>2. k - 1 \in DOMAIN p /\ p[k - 1] = a[k] /\ k - 1 > i
    BY <1>1, <2>1
  <2> QED BY <2>1, <2>2
<1>5. x = d \/ \E k \in DOMAIN p : Change(p[k])
  <2>1. x = d \/ \E k \in DOMAIN a : k > 1 /\ Change(a[k])
    BY <1>1, <1>2, <1>3 DEF PanelFlow, FreshLists
  <2>9. ASSUME NEW k \in DOMAIN a, k > 1, Change(a[k]) PROVE \E j \in DOMAIN p : Change(p[j])
    <3>1. k # 1
      BY <1>1, <2>9
    <3>2. k - 1 \in DOMAIN p /\ p[k - 1] = a[k]
      BY <1>1, <3>1
    <3> QED BY <2>9, <3>2
  <2> QED BY <2>1, <2>9
<1>6. LoadIsFirst(c, p)
  <2>1. \A i \in DOMAIN c : c[i].op = "statuses" => \A k \in DOMAIN p : p[k].op = "status" \/ Opening(p[k])
    BY <1>1 DEF PanelFlow, LoadIsFirst
  <2>2. ASSUME NEW i \in DOMAIN p, p[i].op = "statuses", NEW k \in DOMAIN p, k < i PROVE p[k].op = "status" \/ Opening(p[k])
    <3>1. i + 1 \in DOMAIN a /\ k + 1 \in DOMAIN a /\ k + 1 < i + 1 /\ p[i] = a[i + 1] /\ p[k] = a[k + 1]
      BY <1>1, <2>2
    <3> QED BY <2>2, <3>1 DEF PanelFlow, LoadIsFirst
  <2>3. (\E i \in DOMAIN p : p[i].op = "statuses") => \E i \in DOMAIN a : a[i].op = "statuses"
    BY <1>1
  <2>4. (\A i \in DOMAIN a : ~Relist(a[i])) => \A i \in DOMAIN p : ~Relist(p[i])
    BY <1>1
  <2> QED BY <2>1, <2>2, <2>3, <2>4 DEF PanelFlow, LoadIsFirst
<1>7. CASE Relist(h)
  <2>1. (\A i \in DOMAIN c : c[i].op # "statuses") /\ \A i \in DOMAIN p : p[i].op # "statuses"
    BY <1>1, <1>7 DEF PanelFlow, LoadIsFirst
  <2>2. LoadHolds(c, p, l, d)
    BY <2>1 DEF LoadHolds
  <2>3. ShownOrDue(c, p, x, d)
    BY <1>5 DEF ShownOrDue, RelistDue
  <2>4. PanelFlow(c, p, d, l, x)
    BY <1>4, <1>6, <2>2, <2>3 DEF PanelFlow
  <2> QED BY <1>2, <1>7, <2>4 DEF p, h, x
<1>8. CASE Opening(h) /\ x \in TunnelRows
  <2>1. ASSUME NEW i \in DOMAIN c, c[i].op = "statuses" PROVE x = d
    <3>1. \A k \in DOMAIN p : ~Change(p[k])
      BY <1>1, <2>1 DEF PanelFlow, LoadIsFirst, Change, Opening
    <3> QED BY <1>5, <3>1
  <2>2. ASSUME NEW i \in DOMAIN p, p[i].op = "statuses" PROVE x = d \/ \E k \in DOMAIN p : k > i /\ Change(p[k])
    <3>1. ASSUME NEW k \in DOMAIN p, Change(p[k]) PROVE k > i
      <4>1. ~(k < i)
        BY <1>6, <2>2, <3>1 DEF LoadIsFirst, Change, Opening
      <4>2. k # i
        BY <2>2, <3>1 DEF Change
      <4> QED BY <1>1, <4>1, <4>2
    <3> QED BY <1>5, <3>1
  <2>3. LoadHolds(c, p, x, d)
    BY <1>8, <2>1, <2>2 DEF LoadHolds
  <2>4. RelistDue(c, a) => RelistDue(c, p)
    BY <1>1, <1>2, <1>8 DEF RelistDue
  <2>5. ShownOrDue(c, p, s, d)
    BY <2>4 DEF PanelFlow, ShownOrDue
  <2>6. PanelFlow(c, p, d, x, s)
    BY <1>4, <1>6, <2>3, <2>5 DEF PanelFlow
  <2> QED BY <1>2, <1>8, <2>6 DEF p, h, x
<1> QED BY <1>2, <1>7, <1>8 DEF p, h, x

\* It hears the statuses, and shows what load() held; it starts to load.
LEMMA FlowLoaded ==
  ASSUME NEW c, NEW T, NEW a \in Seq(T), a # <<>>, NEW d, NEW l, NEW s, PanelFlow(c, a, d, l, s), Head(a).op = "statuses"
  PROVE  l \in TunnelRows /\ \A x : PanelFlow(c, Tail(a), d, x, l)
<1> DEFINE p == Tail(a)
           h == Head(a)
<1>1. /\ h = a[1] /\ 1 \in DOMAIN a
      /\ \A i \in DOMAIN p : i \in Nat /\ i > 0 /\ i + 1 \in DOMAIN a /\ p[i] = a[i + 1]
      /\ \A i \in DOMAIN a : i \in Nat /\ (i # 1 => i > 1 /\ i - 1 \in DOMAIN p /\ p[i - 1] = a[i])
  BY TailIs, IndexIs
<1>2. h.op = "statuses" /\ ~Opening(h) /\ ~Change(h) /\ ~Relist(h)
  BY DEF Opening, Change, Relist
<1> HIDE DEF p, h
<1>3. \A i \in DOMAIN c : c[i].op # "statuses"
  BY <1>1, <1>2 DEF PanelFlow, LoadIsFirst
<1>4. \A i \in DOMAIN p : p[i].op # "statuses"
  <2> SUFFICES ASSUME NEW i \in DOMAIN p, p[i].op = "statuses" PROVE FALSE
    OBVIOUS
  <2>1. i + 1 \in DOMAIN a /\ a[i + 1].op = "statuses" /\ 1 < i + 1
    BY <1>1
  <2>2. a[1].op = "status" \/ Opening(a[1])
    BY <1>1, <2>1 DEF PanelFlow, LoadIsFirst
  <2> QED BY <1>1, <1>2, <2>2
<1>5. FreshLists(p, d)
  <2> SUFFICES ASSUME NEW i \in DOMAIN p, p[i].op = "list", p[i].is # d PROVE \E k \in DOMAIN p : k > i /\ Change(p[k])
    BY DEF FreshLists
  <2>1. PICK k \in DOMAIN a : k > i + 1 /\ Change(a[k])
    BY <1>1 DEF PanelFlow, FreshLists
  <2>2. k - 1 \in DOMAIN p /\ p[k - 1] = a[k] /\ k - 1 > i
    BY <1>1, <2>1
  <2> QED BY <2>1, <2>2
<1>6. l \in TunnelRows /\ (l = d \/ \E k \in DOMAIN p : Change(p[k]))
  <2>1. ~\E k \in DOMAIN a : k < 1 /\ Opening(a[k])
    BY <1>1
  <2>2. l \in TunnelRows /\ (l = d \/ \E k \in DOMAIN a : k > 1 /\ Change(a[k]))
    BY <1>1, <1>2, <2>1 DEF PanelFlow, LoadHolds
  <2>9. ASSUME NEW k \in DOMAIN a, k > 1, Change(a[k]) PROVE \E j \in DOMAIN p : Change(p[j])
    <3>1. k # 1
      BY <1>1, <2>9
    <3>2. k - 1 \in DOMAIN p /\ p[k - 1] = a[k]
      BY <1>1, <3>1
    <3> QED BY <2>9, <3>2
  <2> QED BY <2>2, <2>9
<1>7. LoadIsFirst(c, p) /\ \A x : LoadHolds(c, p, x, d)
  BY <1>3, <1>4 DEF LoadIsFirst, LoadHolds
<1>8. ShownOrDue(c, p, l, d)
  BY <1>6 DEF ShownOrDue, RelistDue
<1> QED BY <1>5, <1>6, <1>7, <1>8 DEF PanelFlow, p

LEMMA FlowLoads ==
  ASSUME NEW d, NEW l, NEW s, NEW x, NEW y, Opening(x), y.op = "statuses", PanelFlow(<<>>, <<>>, d, l, s)
  PROVE  PanelFlow(<<x, y>>, <<>>, d, l, s)
<1> DEFINE c == <<x, y>>
<1>1. DOMAIN c = {1, 2} /\ c[1] = x /\ c[2] = y
  OBVIOUS
<1> HIDE DEF c
<1>2. ~Relist(x) /\ ~Relist(y) /\ x.op = "list"
  BY DEF Opening, Relist
<1>3. LoadIsFirst(c, <<>>)
  BY <1>1, <1>2 DEF LoadIsFirst
<1>4. LoadHolds(c, <<>>, l, d)
  BY <1>1, <1>2 DEF LoadHolds
<1>5. FreshLists(<<>>, d)
  BY DEF FreshLists
<1>6. ~RelistDue(<<>>, <<>>)
  BY DEF RelistDue
<1>7. ShownOrDue(c, <<>>, s, d)
  BY <1>6 DEF PanelFlow, ShownOrDue
<1> QED BY <1>3, <1>4, <1>5, <1>7 DEF PanelFlow, c

\* What main told last of the tunnel t.
About(t) == {m \in PanelAnswer : (m.op = "status" /\ m.id = t) \/ m.op = "statuses"}
Runs(t, up) ==
  {m \in PanelAnswer : /\ m.op = "status" /\ m.is = "running" => t \in up
                       /\ m.op = "statuses" /\ m.is[t] = "running" => t \in up}
TellsOf(a, t) == \E i \in DOMAIN a : a[i] \in About(t)
\* The statuses st show as running what runs, but for the lost.
ShowsUp(t, st, up, gone) == t \in gone \/ (st[t] = "running" => t \in up)
StatusTold(a, st, up, gone) == \A t \in Tunnel : LastSays(a, About(t), Runs(t, up), ShowsUp(t, st, up, gone))

\* So do the copies remove() made, unless an event is on its way to say otherwise.
CopyIn(q, i) == i \in DOMAIN q /\ q[i].op = "list" /\ q[i].copy # None
CopyShows(x, a, up, gone) == \A t \in Tunnel : ShowsUp(t, x, up, gone) \/ TellsOf(a, t)
CopiesShow(q, a, up, gone) == \A i : CopyIn(q, i) => CopyShows(q[i].copy, a, up, gone)

StatusFlow(c, a, st, up, gone) ==
  StatusTold(a, st, up, gone) /\ CopiesShow(c, a, up, gone) /\ CopiesShow(a, a, up, gone)

\* What is told of t is told still, when more is.
LEMMA TellsMore ==
  ASSUME NEW a \in Seq(PanelAnswer), NEW m \in PanelAnswer, NEW t
  PROVE  /\ TellsOf(a, t) => TellsOf(Append(a, m), t)
         /\ m \in About(t) => TellsOf(Append(a, m), t)
BY AppendIs DEF TellsOf

\* Main tells what is so of t; the tunnels up may change, but for those it tells of.
LEMMA StatusSaid ==
  ASSUME NEW c, NEW a \in Seq(PanelAnswer), NEW m \in PanelAnswer, NEW st, NEW up, NEW now, NEW gone,
         StatusFlow(c, a, st, up, gone), ~CopyIn(<<m>>, 1),
         \A t \in Tunnel : /\ m \in About(t) => m \in Runs(t, now)
                           /\ m \notin About(t) => (t \in up => t \in now)
  PROVE  StatusFlow(c, Append(a, m), st, now, gone)
<1> DEFINE b == Append(a, m)
           n == Len(a) + 1
<1>1. DOMAIN b = DOMAIN a \cup {n} /\ b[n] = m /\ n \in Nat /\ \A i \in DOMAIN a : i \in Nat /\ i < n /\ b[i] = a[i]
  BY AppendIs
<1>2. \A t : (TellsOf(a, t) => TellsOf(b, t)) /\ (m \in About(t) => TellsOf(b, t))
  BY TellsMore
<1> HIDE DEF b, n
<1>3. ASSUME NEW t \in Tunnel, NEW x, ShowsUp(t, x, up, gone), m \notin About(t) PROVE ShowsUp(t, x, now, gone)
  BY <1>3 DEF ShowsUp
<1>4. StatusTold(b, st, now, gone)
  <2> SUFFICES ASSUME NEW t \in Tunnel PROVE LastSays(b, About(t), Runs(t, now), ShowsUp(t, st, now, gone))
    BY DEF StatusTold
  <2> DEFINE S == About(t)
             W == Runs(t, now)
             x == ShowsUp(t, st, now, gone)
  <2>1. m \in S => m \in W
    OBVIOUS
  <2>2. ASSUME m \notin S PROVE LastSays(a, S, W, x)
    <3>1. LastSays(a, S, Runs(t, up), ShowsUp(t, st, up, gone))
      BY DEF StatusFlow, StatusTold
    <3>2. ShowsUp(t, st, up, gone) => x
      BY <1>3, <2>2
    <3>3. \A y : y \in Runs(t, up) => y \in W
      BY <2>2 DEF Runs
    <3> HIDE DEF S, W, x
    <3> QED BY <3>1, <3>2, <3>3, LastStays
  <2> HIDE DEF S, W, x
  <2>3. LastSays(b, S, W, x)
    BY <2>1, <2>2, LastTold DEF b
  <2> QED BY <2>3 DEF S, W, x
<1>5. ASSUME NEW q, CopiesShow(q, a, up, gone) PROVE CopiesShow(q, b, now, gone)
  <2> SUFFICES ASSUME NEW i, CopyIn(q, i), NEW t \in Tunnel PROVE ShowsUp(t, q[i].copy, now, gone) \/ TellsOf(b, t)
    BY DEF CopiesShow, CopyShows
  <2>1. ShowsUp(t, q[i].copy, up, gone) \/ TellsOf(a, t)
    BY <1>5 DEF CopiesShow, CopyShows
  <2> QED BY <1>2, <1>3, <2>1
<1>6. CopiesShow(b, b, now, gone)
  <2>1. CopiesShow(a, b, now, gone)
    BY <1>5 DEF StatusFlow
  <2>2. ASSUME NEW i, CopyIn(b, i) PROVE CopyIn(a, i) /\ b[i] = a[i]
    BY <1>1, <2>2 DEF CopyIn
  <2> QED BY <2>1, <2>2 DEF CopiesShow
<1>7. CopiesShow(c, b, now, gone)
  BY <1>5 DEF StatusFlow
<1> QED BY <1>4, <1>6, <1>7 DEF StatusFlow, b

\* A call that is of no list is made, is taken.
LEMMA StatusCalled ==
  ASSUME NEW T, NEW c \in Seq(T), NEW a, NEW st, NEW up, NEW gone, StatusFlow(c, a, st, up, gone)
  PROVE  /\ \A m \in T : (m.op # "list" \/ m.copy = None) => StatusFlow(Append(c, m), a, st, up, gone)
         /\ c # <<>> => StatusFlow(Tail(c), a, st, up, gone)
<1>1. ASSUME NEW m \in T, m.op # "list" \/ m.copy = None PROVE StatusFlow(Append(c, m), a, st, up, gone)
  <2>1. ASSUME NEW i, CopyIn(Append(c, m), i) PROVE CopyIn(c, i) /\ Append(c, m)[i] = c[i]
    BY <1>1, <2>1, AppendIs DEF CopyIn
  <2> QED BY <2>1 DEF StatusFlow, CopiesShow
<1>2. ASSUME c # <<>> PROVE StatusFlow(Tail(c), a, st, up, gone)
  <2>1. ASSUME NEW i, CopyIn(Tail(c), i) PROVE CopyIn(c, i + 1) /\ Tail(c)[i] = c[i + 1]
    BY <1>2, <2>1, TailIs DEF CopyIn
  <2> QED BY <2>1 DEF StatusFlow, CopiesShow
<1> QED BY <1>1, <1>2

\* A copy goes along with the list.
LEMMA StatusListed ==
  ASSUME NEW T, NEW c \in Seq(T), c # <<>>, NEW a \in Seq(PanelAnswer), NEW m \in PanelAnswer, NEW st, NEW up, NEW gone,
         StatusFlow(c, a, st, up, gone), Head(c).op = "list", m.op = "list", m.copy = Head(c).copy
  PROVE  StatusFlow(Tail(c), Append(a, m), st, up, gone)
<1> DEFINE b == Append(a, m)
           n == Len(a) + 1
<1>1. DOMAIN b = DOMAIN a \cup {n} /\ b[n] = m /\ n \in Nat /\ \A i \in DOMAIN a : i \in Nat /\ i < n /\ b[i] = a[i]
  BY AppendIs
<1>2. \A t : TellsOf(a, t) => TellsOf(b, t)
  BY TellsMore
<1>3. \A t : m \notin About(t)
  BY DEF About
<1>4. StatusFlow(Tail(c), a, st, up, gone)
  BY StatusCalled
<1>5. Head(c) = c[1] /\ 1 \in DOMAIN c
  BY TailIs
<1> HIDE DEF b, n
<1>6. StatusTold(b, st, up, gone)
  <2> SUFFICES ASSUME NEW t \in Tunnel PROVE LastSays(b, About(t), Runs(t, up), ShowsUp(t, st, up, gone))
    BY DEF StatusTold
  <2>1. LastSays(a, About(t), Runs(t, up), ShowsUp(t, st, up, gone))
    BY DEF StatusFlow, StatusTold
  <2> QED BY <1>3, <2>1, LastTold DEF b
<1>7. ASSUME NEW x, CopyShows(x, a, up, gone) PROVE CopyShows(x, b, up, gone)
  BY <1>2, <1>7 DEF CopyShows
<1>8. CopiesShow(Tail(c), b, up, gone)
  BY <1>4, <1>7 DEF StatusFlow, CopiesShow
<1>9. CopiesShow(b, b, up, gone)
  <2> SUFFICES ASSUME NEW i, CopyIn(b, i) PROVE CopyShows(b[i].copy, a, up, gone)
    BY <1>7 DEF CopiesShow
  <2>1. CASE i = n
    <3>1. CopyIn(c, 1) /\ b[i].copy = c[1].copy
      BY <1>1, <1>5, <2>1 DEF CopyIn
    <3> QED BY <3>1 DEF StatusFlow, CopiesShow
  <2>2. CASE i # n
    <3>1. CopyIn(a, i) /\ b[i] = a[i]
      BY <1>1, <2>2 DEF CopyIn
    <3> QED BY <3>1 DEF StatusFlow, CopiesShow
  <2> QED BY <2>1, <2>2
<1> QED BY <1>6, <1>8, <1>9 DEF StatusFlow, b

LEMMA TailTells ==
  ASSUME NEW a \in Seq(PanelAnswer), a # <<>>
  PROVE  /\ \A t : Head(a) \notin About(t) /\ TellsOf(a, t) => TellsOf(Tail(a), t)
         /\ \A i : CopyIn(Tail(a), i) => CopyIn(a, i + 1) /\ Tail(a)[i] = a[i + 1]
<1> DEFINE p == Tail(a)
           h == Head(a)
<1>1. /\ h = a[1] /\ 1 \in DOMAIN a
      /\ \A i \in DOMAIN p : i \in Nat /\ i + 1 \in DOMAIN a /\ p[i] = a[i + 1]
      /\ \A i \in DOMAIN a : i \in Nat /\ (i # 1 => i > 1 /\ i - 1 \in DOMAIN p /\ p[i - 1] = a[i])
  BY TailIs
<1> HIDE DEF p, h
<1>2. ASSUME NEW t, h \notin About(t), TellsOf(a, t) PROVE TellsOf(p, t)
  BY <1>1, <1>2 DEF TellsOf
<1>3. \A i : CopyIn(p, i) => CopyIn(a, i + 1) /\ p[i] = a[i + 1]
  BY <1>1 DEF CopyIn
<1> QED BY <1>2, <1>3 DEF p, h

\* The window hears what is not about a tunnel, and shows then nothing more as running.
LEMMA StatusLeft ==
  ASSUME NEW c, NEW a \in Seq(PanelAnswer), a # <<>>, NEW st, NEW up, NEW gone, StatusFlow(c, a, st, up, gone),
         \A t : Head(a) \notin About(t), NEW then,
         \A t \in Tunnel : TellsOf(a, t) \/ (ShowsUp(t, st, up, gone) => ShowsUp(t, then, up, gone))
  PROVE  StatusFlow(c, Tail(a), then, up, gone)
<1> DEFINE p == Tail(a)
<1>1. \A t : TellsOf(a, t) => TellsOf(p, t)
  BY TailTells
<1>2. StatusTold(p, then, up, gone)
  <2> SUFFICES ASSUME NEW t \in Tunnel PROVE LastSays(p, About(t), Runs(t, up), ShowsUp(t, then, up, gone))
    BY DEF StatusTold
  <2> DEFINE S == About(t)
             W == Runs(t, up)
             x == ShowsUp(t, st, up, gone)
             y == ShowsUp(t, then, up, gone)
  <2>1. LastSays(a, S, W, x) /\ Head(a) \notin S
    BY DEF StatusFlow, StatusTold
  <2>2. TellsOf(a, t) \/ (x => y)
    OBVIOUS
  <2>3. CASE TellsOf(a, t)
    <3>1. ~\A i \in DOMAIN p : p[i] \notin S
      BY <1>1, <2>3 DEF TellsOf
    <3>2. LastSays(p, S, W, x)
      <4> HIDE DEF x
      <4>1. Head(a) \in S /\ Head(a) \in W => x
        BY <2>1
      <4>2. Head(a) \notin S /\ x => x
        OBVIOUS
      <4> HIDE DEF S, W
      <4> QED BY <2>1, <4>1, <4>2, LastHeard
    <3> QED BY <3>1, <3>2 DEF LastSays
  <2>4. CASE x => y
    <3>1. Head(a) \in S /\ Head(a) \in W => y
      BY <2>1
    <3>2. Head(a) \notin S /\ x => y
      BY <2>4
    <3> HIDE DEF S, W, x, y
    <3>3. LastSays(p, S, W, y)
      BY <2>1, <3>1, <3>2, LastHeard
    <3> QED BY <3>3 DEF S, W, y
  <2> QED BY <2>2, <2>3, <2>4
<1>3. ASSUME NEW x, CopyShows(x, a, up, gone) PROVE CopyShows(x, p, up, gone)
  BY <1>1, <1>3 DEF CopyShows
<1>4. CopiesShow(c, p, up, gone)
  BY <1>3 DEF StatusFlow, CopiesShow
<1>5. CopiesShow(p, p, up, gone)
  <2> SUFFICES ASSUME NEW i, CopyIn(p, i) PROVE CopyShows(p[i].copy, a, up, gone)
    BY <1>3 DEF CopiesShow
  <2>1. CopyIn(a, i + 1) /\ p[i] = a[i + 1]
    BY TailTells
  <2> QED BY <2>1 DEF StatusFlow, CopiesShow
<1> QED BY <1>2, <1>4, <1>5 DEF StatusFlow

\* It hears a list that came with a copy.
LEMMA StatusCopied ==
  ASSUME NEW c, NEW a \in Seq(PanelAnswer), a # <<>>, NEW st, NEW up, NEW gone, StatusFlow(c, a, st, up, gone),
         Head(a).op = "list", Head(a).copy # None
  PROVE  StatusFlow(c, Tail(a), Head(a).copy, up, gone)
<1> DEFINE h == Head(a)
           x == h.copy
<1>1. \A t : h \notin About(t)
  BY DEF About
<1>2. CopyIn(a, 1) /\ a[1] = h
  BY TailIs DEF CopyIn
<1>3. CopyShows(x, a, up, gone)
  BY <1>2 DEF StatusFlow, CopiesShow
<1>4. \A t \in Tunnel : TellsOf(a, t) \/ (ShowsUp(t, st, up, gone) => ShowsUp(t, x, up, gone))
  BY <1>3 DEF CopyShows
<1> HIDE DEF x
<1>5. StatusFlow(c, Tail(a), x, up, gone)
  BY <1>1, <1>4, StatusLeft
<1> QED BY <1>5 DEF x

\* It makes one, of all tunnels but the one that is removed.
LEMMA StatusCopy ==
  ASSUME NEW T, NEW c \in Seq(T), NEW a, NEW st \in Statuses, NEW up, NEW gone, StatusFlow(c, a, st, up, gone),
         NEW e \in Tunnel, NEW m \in T, m.op = "list", m.copy = [st EXCEPT ![e] = None]
  PROVE  StatusFlow(Append(c, m), a, st, up, gone)
<1> DEFINE b == Append(c, m)
           n == Len(c) + 1
           x == [st EXCEPT ![e] = None]
<1>1. DOMAIN b = DOMAIN c \cup {n} /\ b[n] = m /\ \A i \in DOMAIN c : b[i] = c[i]
  BY AppendIs
<1>2. CopyShows(x, a, up, gone)
  <2> SUFFICES ASSUME NEW t \in Tunnel, ~TellsOf(a, t) PROVE ShowsUp(t, x, up, gone)
    BY DEF CopyShows
  <2>1. ShowsUp(t, st, up, gone)
    BY DEF StatusFlow, StatusTold, LastSays, TellsOf
  <2>2. x[t] = "running" => st[t] = "running"
    BY NoStatusAssumption DEF NoStatusAssumption, Statuses
  <2> QED BY <2>1, <2>2 DEF ShowsUp
<1> HIDE DEF b, n, x
<1>3. m.copy = x
  BY DEF x
<1>4. CopiesShow(b, a, up, gone)
  <2> SUFFICES ASSUME NEW i, CopyIn(b, i) PROVE CopyShows(b[i].copy, a, up, gone)
    BY DEF CopiesShow
  <2>1. CASE i = n
    BY <1>1, <1>2, <1>3, <2>1
  <2>2. CASE i # n
    <3>1. CopyIn(c, i) /\ b[i] = c[i]
      BY <1>1, <2>2 DEF CopyIn
    <3> QED BY <3>1 DEF StatusFlow, CopiesShow
  <2> QED BY <2>1, <2>2
<1> QED BY <1>4 DEF StatusFlow, b

\* It hears an event: of a tunnel that is lost from now on, or of none while there is no copy.
LEMMA StatusHeard ==
  ASSUME NEW c, NEW a \in Seq(PanelAnswer), a # <<>>, NEW st \in Statuses, NEW up, NEW gone, StatusFlow(c, a, st, up, gone),
         NEW e \in Tunnel, Head(a).op = "status", Head(a).id = e, NEW now,
         \/ now = gone \cup {e}
         \/ now = gone \ {e} /\ \A i : ~CopyIn(c, i) /\ ~CopyIn(a, i)
  PROVE  StatusFlow(c, Tail(a), [st EXCEPT ![e] = Head(a).is], up, now)
<1> DEFINE p == Tail(a)
           h == Head(a)
           then == [st EXCEPT ![e] = h.is]
<1>1. h \in PanelAnswer /\ h \in About(e) /\ (h \in Runs(e, up) => (h.is = "running" => e \in up)) /\ \A t : t # e => h \notin About(t)
  BY TailIs DEF About, Runs
<1>2. then[e] = h.is /\ \A t \in Tunnel : t # e => then[t] = st[t] /\ (t \in now <=> t \in gone)
  BY DEF Statuses
<1>3. \A t : t # e /\ TellsOf(a, t) => TellsOf(p, t)
  BY <1>1, TailTells
<1>4. \A i : CopyIn(p, i) => CopyIn(a, i + 1) /\ p[i] = a[i + 1]
  BY TailTells
<1> HIDE DEF then
<1>5. StatusTold(p, then, up, now)
  <2> SUFFICES ASSUME NEW t \in Tunnel PROVE LastSays(p, About(t), Runs(t, up), ShowsUp(t, then, up, now))
    BY DEF StatusTold
  <2> DEFINE S == About(t)
             W == Runs(t, up)
             x == ShowsUp(t, st, up, gone)
             y == ShowsUp(t, then, up, now)
  <2>1. LastSays(a, S, W, x)
    BY DEF StatusFlow, StatusTold
  <2>2. h \in S /\ h \in W => y
    BY <1>1, <1>2 DEF ShowsUp
  <2>3. h \notin S /\ x => y
    BY <1>1, <1>2 DEF ShowsUp
  <2> HIDE DEF S, W, x, y
  <2>4. LastSays(p, S, W, y)
    BY <2>1, <2>2, <2>3, LastHeard
  <2> QED BY <2>4 DEF S, W, y
<1>6. ASSUME NEW x, CopyShows(x, a, up, gone), now = gone \cup {e} PROVE CopyShows(x, p, up, now)
  <2> SUFFICES ASSUME NEW t \in Tunnel PROVE ShowsUp(t, x, up, now) \/ TellsOf(p, t)
    BY DEF CopyShows
  <2>1. CASE t = e
    BY <1>6, <2>1 DEF ShowsUp
  <2>2. CASE t # e
    <3>1. ShowsUp(t, x, up, gone) \/ TellsOf(a, t)
      BY <1>6 DEF CopyShows
    <3>2. ShowsUp(t, x, up, gone) => ShowsUp(t, x, up, now)
      BY <1>6 DEF ShowsUp
    <3> QED BY <1>3, <2>2, <3>1, <3>2
  <2> QED BY <2>1, <2>2
<1>7. ASSUME NEW q, NEW i, CopyIn(q, i), CopiesShow(q, a, up, gone), now = gone \cup {e} PROVE CopyShows(q[i].copy, p, up, now)
  BY <1>6, <1>7 DEF CopiesShow
<1>8. CopiesShow(c, p, up, now) /\ CopiesShow(p, p, up, now)
  <2>1. CASE now = gone \cup {e}
    BY <1>4, <1>7, <2>1 DEF StatusFlow, CopiesShow
  <2>2. CASE \A i : ~CopyIn(c, i) /\ ~CopyIn(a, i)
    BY <1>4, <2>2 DEF CopiesShow
  <2> QED BY <2>1, <2>2
<1> QED BY <1>5, <1>8 DEF StatusFlow, then

\* It hears the statuses: of all tunnels, while there is no copy.
LEMMA StatusesHeard ==
  ASSUME NEW c, NEW a \in Seq(PanelAnswer), a # <<>>, NEW st, NEW up, NEW gone, StatusFlow(c, a, st, up, gone),
         Head(a).op = "statuses", \A i : ~CopyIn(c, i) /\ ~CopyIn(a, i)
  PROVE  StatusFlow(c, Tail(a), Head(a).is, up, gone)
<1> DEFINE p == Tail(a)
           h == Head(a)
           then == h.is
<1>1. h \in PanelAnswer /\ \A t : h \in About(t) /\ (h \in Runs(t, up) => (then[t] = "running" => t \in up))
  BY TailIs DEF About, Runs
<1>2. \A i : CopyIn(p, i) => CopyIn(a, i + 1)
  BY TailTells
<1> HIDE DEF then
<1>3. StatusTold(p, then, up, gone)
  <2> SUFFICES ASSUME NEW t \in Tunnel PROVE LastSays(p, About(t), Runs(t, up), ShowsUp(t, then, up, gone))
    BY DEF StatusTold
  <2> DEFINE S == About(t)
             W == Runs(t, up)
             x == ShowsUp(t, st, up, gone)
             y == ShowsUp(t, then, up, gone)
  <2>1. LastSays(a, S, W, x)
    BY DEF StatusFlow, StatusTold
  <2>2. h \in S /\ h \in W => y
    BY <1>1 DEF ShowsUp
  <2>3. h \notin S /\ x => y
    BY <1>1
  <2> HIDE DEF S, W, x, y
  <2>4. LastSays(p, S, W, y)
    BY <2>1, <2>2, <2>3, LastHeard
  <2> QED BY <2>4 DEF S, W, y
<1>4. CopiesShow(c, p, up, gone) /\ CopiesShow(p, p, up, gone)
  BY <1>2 DEF CopiesShow
<1> QED BY <1>3, <1>4 DEF StatusFlow, then

PanelTypes ==
  /\ defs \in TunnelRows /\ saved \in TunnelRows /\ tunnelStatus \in Statuses
  /\ running \subseteq Tunnel /\ starting \in Seq(Tunnel) /\ lost \subseteq Tunnel /\ raced \subseteq Tunnel
  /\ tunnelForm \in [open : BOOLEAN, of : Tunnel \cup {None}, listenHost : Panel!Addr]
PanelTravel == tunnelCalls \in Seq(PanelCall) /\ tunnelAnswers \in Seq(PanelAnswer)
\* What runs or starts has a row, or was removed while it was started.
PanelRuns ==
  /\ \A t \in running : defs[t] # None \/ t \in raced
  /\ \A i \in DOMAIN starting : defs[starting[i]] # None \/ starting[i] \in raced
PanelFlows ==
  /\ PanelFlow(tunnelCalls, tunnelAnswers, defs, listing, saved)
  /\ StatusFlow(tunnelCalls, tunnelAnswers, tunnelStatus, running, lost)
PanelInv == PanelTypes /\ PanelTravel /\ PanelRuns /\ PanelFlows

LEMMA PanelCallIs ==
  ASSUME NEW m \in PanelCall
  PROVE  /\ m.op \in {"list", "statuses", "save", "remove", "stop", "start"}
         /\ m.op = "list" => (m.then \in {"load", "saved"} /\ m.copy = None) \/ (m.then = "removed" /\ m.copy \in Statuses)
         /\ m.op \in {"save", "remove", "stop", "start"} => m.id \in Tunnel
         /\ m.op = "save" => m.listenHost \in Panel!Addr
BY DEF PanelCall

LEMMA PanelAnswerIs ==
  ASSUME NEW m \in PanelAnswer
  PROVE  /\ m.op = "list" => /\ m.is \in TunnelRows
                             /\ (m.then \in {"load", "saved"} /\ m.copy = None) \/ (m.then = "removed" /\ m.copy \in Statuses)
         /\ m.op = "statuses" => m.is \in [Tunnel -> {"running", None}]
         /\ m.op \in {"removed", "stopped", "status"} => m.id \in Tunnel
         /\ m.op = "status" => m.is \in {"running", "stopped", "error"}
BY DEF PanelAnswer

LEMMA PanelIs ==
  ASSUME PanelTypes', PanelTravel', PanelRuns',
         PanelFlow(tunnelCalls', tunnelAnswers', defs', listing', saved'),
         StatusFlow(tunnelCalls', tunnelAnswers', tunnelStatus', running', lost')
  PROVE  PanelInv'
<1>1. PanelFlow(tunnelCalls, tunnelAnswers, defs, listing, saved)'
  BY DEF PanelFlow, FreshLists, LoadIsFirst, LoadHolds, ShownOrDue, RelistDue
<1>2. StatusFlow(tunnelCalls, tunnelAnswers, tunnelStatus, running, lost)'
  BY DEF StatusFlow, StatusTold, CopiesShow, CopyIn, CopyShows, ShowsUp, TellsOf, LastSays, About, Runs
<1> QED BY <1>1, <1>2 DEF PanelInv, PanelFlows

LEMMA PanelShows == ASSUME PanelInv PROVE Panel!QuietPanelIsMain
<1> SUFFICES ASSUME tunnelCalls = <<>>, tunnelAnswers = <<>>, \E t \in Tunnel : saved[t] # None
             PROVE  /\ saved = defs
                    /\ \A t \in Tunnel : tunnelStatus[t] = "running" => t \in running \cup lost
                    /\ \A t \in running : defs[t] # None \/ t \in raced
  BY DEF Panel!QuietPanelIsMain
<1>1. saved = defs
  <2>1. ~RelistDue(<<>>, <<>>)
    BY DEF RelistDue
  <2> QED BY <2>1 DEF PanelInv, PanelFlows, PanelFlow, ShownOrDue
<1>2. \A t \in Tunnel : ShowsUp(t, tunnelStatus, running, lost)
  BY LastSaid DEF PanelInv, PanelFlows, StatusFlow, StatusTold
<1> QED BY <1>1, <1>2 DEF ShowsUp, PanelInv, PanelRuns

LEMMA InitPanel == Panel!PanelInit => PanelInv
<1> SUFFICES ASSUME Panel!PanelInit PROVE PanelInv
  OBVIOUS
<1>1. /\ defs \in [Tunnel -> {"loop", None}] /\ running = {} /\ starting = <<>> /\ tunnelCalls = <<>> /\ tunnelAnswers = <<>>
      /\ saved = [t \in Tunnel |-> None] /\ tunnelStatus = [t \in Tunnel |-> None] /\ tunnelForm = Panel!NoForm /\ lost = {} /\ raced = {}
  BY DEF Panel!PanelInit
<1>2. Panel!NoForm \in [open : BOOLEAN, of : Tunnel \cup {None}, listenHost : Panel!Addr]
  BY DEF Panel!NoForm, Panel!Addr
<1>3. defs \in TunnelRows /\ saved \in TunnelRows /\ tunnelStatus \in Statuses
  BY <1>1 DEF TunnelRows, Statuses, Panel!Addr
<1>4. PanelTypes /\ PanelTravel /\ PanelRuns
  BY <1>1, <1>2, <1>3 DEF PanelTypes, PanelTravel, PanelRuns
<1>5. PanelFlow(<<>>, <<>>, defs, listing, saved)
  BY <1>1 DEF PanelFlow, FreshLists, LoadIsFirst, LoadHolds, ShownOrDue
<1>6. StatusFlow(<<>>, <<>>, tunnelStatus, running, lost)
  <2>1. \A t \in Tunnel : ShowsUp(t, tunnelStatus, running, lost)
    BY <1>1, NoStatusAssumption DEF NoStatusAssumption, ShowsUp
  <2>2. \A i : ~CopyIn(<<>>, i)
    BY DEF CopyIn
  <2> QED BY <2>1, <2>2, NothingSaid DEF StatusFlow, StatusTold, CopiesShow
<1> QED BY <1>1, <1>4, <1>5, <1>6 DEF PanelInv, PanelFlows

\* Main tells an event, takes a call, and answers it.
Flows(c, a, d, l, s, st, up, gone) ==
  c \in Seq(PanelCall) /\ a \in Seq(PanelAnswer) /\ PanelFlow(c, a, d, l, s) /\ StatusFlow(c, a, st, up, gone)

LEMMA MainTells ==
  ASSUME NEW c, NEW a, NEW d, NEW l, NEW s, NEW st, NEW up, NEW gone, Flows(c, a, d, l, s, st, up, gone),
         NEW e \in Tunnel, NEW x \in {"running", "stopped", "error"}, NEW now, x = "running" => e \in now,
         \A t \in Tunnel : t # e /\ t \in up => t \in now
  PROVE  Flows(c, a \o <<Panel!Is(e, x)>>, d, l, s, st, now, gone)
<1> DEFINE m == Panel!Is(e, x)
<1>1. m \in PanelAnswer /\ m.op = "status" /\ m.id = e /\ m.is = x
  BY DEF Panel!Is, PanelAnswer
<1>2. c \in Seq(PanelCall) /\ a \in Seq(PanelAnswer) /\ PanelFlow(c, a, d, l, s) /\ StatusFlow(c, a, st, up, gone)
  BY DEF Flows
<1> HIDE DEF m
<1>3. a \o <<m>> = Append(a, m) /\ Append(a, m) \in Seq(PanelAnswer)
  BY <1>1, <1>2, AppendIs
<1>4. PanelFlow(c, Append(a, m), d, l, s)
  BY <1>1, <1>2, FlowTold
<1>5. ~CopyIn(<<m>>, 1)
  BY <1>1 DEF CopyIn
<1>6. \A t \in Tunnel : /\ m \in About(t) => m \in Runs(t, now)
                        /\ m \notin About(t) => (t \in up => t \in now)
  BY <1>1 DEF About, Runs
<1>7. StatusFlow(c, Append(a, m), st, now, gone)
  BY <1>1, <1>2, <1>5, <1>6, StatusSaid
<1> QED BY <1>2, <1>3, <1>4, <1>7 DEF Flows, m

LEMMA MainTakes ==
  ASSUME NEW c, NEW a, NEW d, NEW l, NEW s, NEW st, NEW up, NEW gone, Flows(c, a, d, l, s, st, up, gone),
         c # <<>>, Head(c).op \notin {"list", "statuses"}
  PROVE  Flows(Tail(c), a, d, l, s, st, up, gone) /\ \A i \in DOMAIN Tail(c) : Tail(c)[i].op # "statuses"
<1>1. c \in Seq(PanelCall) /\ a \in Seq(PanelAnswer) /\ PanelFlow(c, a, d, l, s) /\ StatusFlow(c, a, st, up, gone)
  BY DEF Flows
<1>2. Tail(c) \in Seq(PanelCall)
  BY <1>1, TailIs
<1>3. PanelFlow(Tail(c), a, d, l, s) /\ \A i \in DOMAIN Tail(c) : Tail(c)[i].op # "statuses"
  BY <1>1, FlowTaken
<1>4. StatusFlow(Tail(c), a, st, up, gone)
  BY <1>1, StatusCalled
<1> QED BY <1>1, <1>2, <1>3, <1>4 DEF Flows

LEMMA MainAnswers ==
  ASSUME NEW c, NEW a, NEW d, NEW l, NEW s, NEW st, NEW up, NEW gone, Flows(c, a, d, l, s, st, up, gone),
         \A i \in DOMAIN c : c[i].op # "statuses", NEW m \in PanelAnswer, m.op \in {"saved", "refused", "removed", "stopped"},
         NEW e, Change(m) \/ e = d
  PROVE  Flows(c, a \o <<m>>, e, l, s, st, up, gone)
<1>1. c \in Seq(PanelCall) /\ a \in Seq(PanelAnswer) /\ PanelFlow(c, a, d, l, s) /\ StatusFlow(c, a, st, up, gone)
  BY DEF Flows
<1>2. a \o <<m>> = Append(a, m) /\ Append(a, m) \in Seq(PanelAnswer)
  BY <1>1, AppendIs
<1>3. PanelFlow(c, Append(a, m), e, l, s)
  BY <1>1, FlowAnswered
<1>4. ~CopyIn(<<m>>, 1) /\ \A t \in Tunnel : m \notin About(t)
  BY DEF CopyIn, About
<1>5. StatusFlow(c, Append(a, m), st, up, gone)
  BY <1>1, <1>4, StatusSaid
<1> QED BY <1>1, <1>2, <1>3, <1>5 DEF Flows

\* Main's handlers and what it tells of its own.
LEMMA PanelMain ==
  ASSUME PanelInv, Panel!listTunnels \/ Panel!HandleStatus \/ Panel!SaveTunnel \/ Panel!DeleteTunnel \/ Panel!HandleStop
                   \/ Panel!HandleStart \/ Panel!StartEnds \/ Panel!GoesDown \/ Panel!Refresh
  PROVE  PanelInv'
<1> DEFINE c == tunnelCalls
           a == tunnelAnswers
           h == Head(tunnelCalls)
           F(x, y, z, w) == Flows(x, y, z, listing, saved, tunnelStatus, w, lost)
<1>1. PanelTypes /\ PanelRuns /\ c \in Seq(PanelCall) /\ a \in Seq(PanelAnswer) /\ F(c, a, defs, running)
      /\ PanelFlow(c, a, defs, listing, saved) /\ StatusFlow(c, a, tunnelStatus, running, lost)
  BY DEF PanelInv, PanelTravel, PanelFlows, Flows
<1>2. UNCHANGED <<saved, tunnelStatus, listing, tunnelForm, lost>>
  BY DEF Panel!listTunnels, Panel!HandleStatus, Panel!SaveTunnel, Panel!DeleteTunnel, Panel!HandleStop, Panel!HandleStart,
         Panel!StartEnds, Panel!GoesDown, Panel!Refresh, Panel!storeVars
<1>3. ASSUME c # <<>> PROVE h \in PanelCall /\ Tail(c) \in Seq(PanelCall)
  BY <1>1, <1>3, TailIs
<1>4. defs \in TunnelRows /\ running \subseteq Tunnel /\ starting \in Seq(Tunnel) /\ raced \subseteq Tunnel
  BY <1>1 DEF PanelTypes
<1>5. ASSUME F(tunnelCalls', tunnelAnswers', defs', running'), defs' \in TunnelRows, running' \subseteq Tunnel, starting' \in Seq(Tunnel),
             raced' \subseteq Tunnel, PanelRuns'
      PROVE  PanelInv'
  <2>1. PanelTypes'
    BY <1>1, <1>2, <1>5 DEF PanelTypes, TunnelRows, Statuses, Panel!Addr
  <2>2. PanelTravel' /\ PanelFlow(tunnelCalls', tunnelAnswers', defs', listing', saved')
        /\ StatusFlow(tunnelCalls', tunnelAnswers', tunnelStatus', running', lost')
    BY <1>2, <1>5 DEF Flows, PanelTravel
  <2> QED BY <1>5, <2>1, <2>2, PanelIs
<1>6. ASSUME F(tunnelCalls', tunnelAnswers', defs, running'), running' \subseteq running, UNCHANGED <<defs, starting, raced>>
      PROVE  PanelInv'
  <2>1. PanelRuns'
    BY <1>1, <1>6 DEF PanelRuns
  <2> QED BY <1>4, <1>5, <1>6, <2>1
<1> HIDE DEF F, h
<1>7. CASE Panel!listTunnels
  <2> DEFINE m == [op |-> "list", is |-> defs, then |-> h.then, copy |-> h.copy]
  <2>1. c # <<>> /\ h.op = "list" /\ tunnelCalls' = Tail(c) /\ tunnelAnswers' = a \o <<m>> /\ UNCHANGED <<defs, running, starting, raced>>
    BY <1>7 DEF Panel!listTunnels, Panel!Served, Panel!Tells, Panel!mainVars, h
  <2>2. m.op = "list" /\ m.is = defs /\ m.then = h.then /\ m.copy = h.copy
    OBVIOUS
  <2>3. m \in PanelAnswer
    <3>1. h \in PanelCall
      BY <1>3, <2>1
    <3>2. (h.then \in {"load", "saved"} /\ h.copy = None) \/ (h.then = "removed" /\ h.copy \in Statuses)
      BY <2>1, <3>1, PanelCallIs
    <3> QED BY <1>4, <3>2 DEF PanelAnswer
  <2> HIDE DEF m
  <2>4. a \o <<m>> = Append(a, m) /\ Append(a, m) \in Seq(PanelAnswer)
    BY <1>1, <2>3, AppendIs
  <2>5. PanelFlow(Tail(c), Append(a, m), defs, listing, saved)
    BY <1>1, <2>1, <2>2, <2>3, FlowListed DEF h
  <2>6. StatusFlow(Tail(c), Append(a, m), tunnelStatus, running, lost)
    BY <1>1, <2>1, <2>2, <2>3, StatusListed DEF h
  <2>7. F(tunnelCalls', tunnelAnswers', defs, running')
    BY <1>3, <2>1, <2>4, <2>5, <2>6 DEF F, Flows
  <2> QED BY <1>6, <2>1, <2>7
<1>8. CASE Panel!HandleStatus
  <2> DEFINE x == [t \in Tunnel |-> IF t \in running THEN "running" ELSE None]
             m == [op |-> "statuses", is |-> x]
  <2>1. c # <<>> /\ h.op = "statuses" /\ tunnelCalls' = Tail(c) /\ tunnelAnswers' = a \o <<m>> /\ UNCHANGED <<defs, running, starting, raced>>
    BY <1>8 DEF Panel!HandleStatus, Panel!Served, Panel!Tells, Panel!mainVars, h
  <2>2. x \in [Tunnel -> {"running", None}] /\ \A t \in Tunnel : x[t] = "running" => t \in running
    BY NoStatusAssumption DEF NoStatusAssumption
  <2> HIDE DEF x
  <2>3. m \in PanelAnswer /\ m.op = "statuses" /\ m.is = x
    BY <2>2 DEF PanelAnswer
  <2> HIDE DEF m
  <2>4. a \o <<m>> = Append(a, m) /\ Append(a, m) \in Seq(PanelAnswer)
    BY <1>1, <2>3, AppendIs
  <2>5. PanelFlow(Tail(c), Append(a, m), defs, listing, saved)
    BY <1>1, <1>4, <2>1, <2>3, FlowStatuses DEF h
  <2>6. ~CopyIn(<<m>>, 1) /\ \A t \in Tunnel : m \in About(t) /\ m \in Runs(t, running)
    BY <2>2, <2>3 DEF CopyIn, About, Runs
  <2>7. StatusFlow(Tail(c), a, tunnelStatus, running, lost)
    BY <1>1, <2>1, StatusCalled
  <2>8. StatusFlow(Tail(c), Append(a, m), tunnelStatus, running, lost)
    BY <1>1, <2>3, <2>6, <2>7, StatusSaid
  <2>9. F(tunnelCalls', tunnelAnswers', defs, running')
    BY <1>3, <2>1, <2>4, <2>5, <2>8 DEF F, Flows
  <2> QED BY <1>6, <2>1, <2>9

\* The other calls are taken first.
<1>9. ASSUME c # <<>>, h.op \notin {"list", "statuses"}
      PROVE  F(Tail(c), a, defs, running) /\ \A i \in DOMAIN Tail(c) : Tail(c)[i].op # "statuses"
  BY <1>1, <1>9, MainTakes DEF F, h
<1>10. ASSUME NEW b, NEW up, F(Tail(c), b, defs, up), \A i \in DOMAIN Tail(c) : Tail(c)[i].op # "statuses",
              NEW m \in PanelAnswer, m.op \in {"saved", "refused", "removed", "stopped"}, NEW e, Change(m) \/ e = defs
       PROVE  F(Tail(c), b \o <<m>>, e, up)
  BY <1>10, MainAnswers DEF F
<1>11. ASSUME NEW p, NEW b, NEW e, NEW up, F(p, b, e, up), NEW t \in Tunnel, NEW x \in {"running", "stopped", "error"}, NEW now,
              x = "running" => t \in now, \A u \in Tunnel : u # t /\ u \in up => u \in now
       PROVE  F(p, b \o <<Panel!Is(t, x)>>, e, now)
  BY <1>11, MainTells DEF F
\* A tunnel that runs goes down as it is told.
<1>12. ASSUME NEW p, NEW e, F(p, a, e, running), NEW t \in Tunnel
       PROVE  F(p, a \o Panel!Stopped(t), e, running \ {t})
  <2>1. CASE t \in running
    <3>1. Panel!Stopped(t) = <<Panel!Is(t, "stopped")>>
      BY <2>1 DEF Panel!Stopped
    <3>2. F(p, a \o <<Panel!Is(t, "stopped")>>, e, running \ {t})
      BY <1>11, <1>12
    <3> QED BY <3>1, <3>2
  <2>2. CASE t \notin running
    <3>1. a \o Panel!Stopped(t) = a /\ running \ {t} = running
      BY <1>1, <2>2 DEF Panel!Stopped
    <3> QED BY <1>12, <3>1
  <2> QED BY <2>1, <2>2
<1>13. ASSUME NEW t, NEW m \in PanelAnswer PROVE a \o (Panel!Stopped(t) \o <<m>>) = (a \o Panel!Stopped(t)) \o <<m>>
  <2> DEFINE x == Panel!Is(t, "stopped")
             T == PanelAnswer \cup {x}
  <2>1. Panel!Stopped(t) = <<x>> \/ Panel!Stopped(t) = <<>>
    BY DEF Panel!Stopped
  <2>2. x \in T /\ a \in Seq(T) /\ <<m>> \in Seq(T)
    BY <1>1
  <2> HIDE DEF x, T
  <2>3. <<x>> \in Seq(T) /\ <<>> \in Seq(T)
    BY <2>2
  <2>4. Panel!Stopped(t) \in Seq(T)
    BY <2>1, <2>3
  <2> QED BY <2>2, <2>4, ConcatAssociative
<1>14. CASE Panel!SaveTunnel
  <2>1. c # <<>> /\ h.op = "save" /\ tunnelCalls' = Tail(c) /\ UNCHANGED <<running, starting, raced>>
    BY <1>14 DEF Panel!SaveTunnel, Panel!Served, h
  <2>2. h.id \in Tunnel /\ h.listenHost \in Panel!Addr
    BY <1>3, <2>1, PanelCallIs
  <2>3. CASE defs' = [defs EXCEPT ![h.id] = h.listenHost] /\ tunnelAnswers' = a \o <<[op |-> "saved"]>>
    <3> DEFINE m == [op |-> "saved"]
    <3>1. m \in PanelAnswer /\ m.op = "saved"
      BY DEF PanelAnswer
    <3> HIDE DEF m
    <3>2. Change(m)
      BY <3>1 DEF Change
    <3>3. F(Tail(c), a \o <<m>>, defs', running)
      BY <1>9, <1>10, <2>1, <3>1, <3>2
    <3>4. F(tunnelCalls', tunnelAnswers', defs', running')
      BY <2>1, <2>3, <3>3 DEF m
    <3>5. defs' \in TunnelRows /\ \A t \in Tunnel : defs[t] # None => defs'[t] # None
      BY <1>4, <2>2, <2>3, NoStatusAssumption DEF NoStatusAssumption, TunnelRows, Panel!Addr
    <3>6. PanelRuns'
      BY <1>1, <1>4, <2>1, <3>5 DEF PanelRuns
    <3> QED BY <1>4, <1>5, <2>1, <3>4, <3>5, <3>6
  <2>4. CASE defs' = defs /\ tunnelAnswers' = a \o <<[op |-> "refused"]>>
    <3> DEFINE m == [op |-> "refused"]
    <3>1. m \in PanelAnswer /\ m.op = "refused"
      BY DEF PanelAnswer
    <3> HIDE DEF m
    <3>2. F(Tail(c), a \o <<m>>, defs, running)
      BY <1>9, <1>10, <2>1, <3>1
    <3>3. F(tunnelCalls', tunnelAnswers', defs, running')
      BY <2>1, <2>4, <3>2 DEF m
    <3> QED BY <1>6, <2>1, <2>4, <3>3
  <2> QED BY <1>14, <2>3, <2>4 DEF Panel!SaveTunnel, Panel!Tells, h
<1>15. CASE Panel!DeleteTunnel
  <2> DEFINE t == h.id
             m == [op |-> "removed", id |-> t]
  <2>1. c # <<>> /\ h.op = "remove" /\ tunnelCalls' = Tail(c) /\ UNCHANGED starting
        /\ running' = running \ {t} /\ defs' = [defs EXCEPT ![t] = None] /\ tunnelAnswers' = a \o (Panel!Stopped(t) \o <<m>>)
        /\ raced' = IF t \in Panel!ToSet(starting) THEN raced \cup {t} ELSE raced
    BY <1>15 DEF Panel!DeleteTunnel, Panel!Served, Panel!StopIn, Panel!Tells, h
  <2>2. t \in Tunnel
    BY <1>3, <2>1, PanelCallIs
  <2>3. m \in PanelAnswer /\ m.op = "removed"
    BY <2>2 DEF PanelAnswer
  <2> HIDE DEF t, m
  <2>4. Change(m)
    BY <2>3 DEF Change
  <2>5. F(Tail(c), a \o Panel!Stopped(t), defs, running \ {t})
    BY <1>9, <1>12, <2>1, <2>2
  <2>6. F(Tail(c), (a \o Panel!Stopped(t)) \o <<m>>, defs', running \ {t})
    BY <1>9, <1>10, <2>1, <2>3, <2>4, <2>5
  <2>7. F(tunnelCalls', tunnelAnswers', defs', running')
    BY <1>13, <2>1, <2>3, <2>6
  <2>8. defs' \in TunnelRows /\ (\A u \in Tunnel : u # t => defs'[u] = defs[u]) /\ raced \subseteq raced' /\ raced' \subseteq Tunnel
    BY <1>4, <2>1, <2>2 DEF TunnelRows
  <2>9. \A i \in DOMAIN starting : starting[i] = t => t \in raced'
    BY <2>1 DEF Panel!ToSet
  <2>10. PanelRuns'
    BY <1>1, <1>4, <2>1, <2>8, <2>9 DEF PanelRuns
  <2> QED BY <1>4, <1>5, <2>1, <2>7, <2>8, <2>10
<1>16. CASE Panel!HandleStop
  <2> DEFINE t == h.id
             m == [op |-> "stopped", id |-> t]
  <2>1. c # <<>> /\ h.op = "stop" /\ tunnelCalls' = Tail(c) /\ UNCHANGED <<defs, starting, raced>>
        /\ running' = running \ {t} /\ tunnelAnswers' = a \o (Panel!Stopped(t) \o <<m>>)
    BY <1>16 DEF Panel!HandleStop, Panel!Served, Panel!StopIn, Panel!Tells, h
  <2>2. t \in Tunnel
    BY <1>3, <2>1, PanelCallIs
  <2>3. m \in PanelAnswer /\ m.op = "stopped"
    BY <2>2 DEF PanelAnswer
  <2> HIDE DEF t, m
  <2>4. F(Tail(c), a \o Panel!Stopped(t), defs, running \ {t})
    BY <1>9, <1>12, <2>1, <2>2
  <2>5. F(Tail(c), (a \o Panel!Stopped(t)) \o <<m>>, defs, running \ {t})
    BY <1>9, <1>10, <2>1, <2>3, <2>4
  <2>6. F(tunnelCalls', tunnelAnswers', defs, running')
    BY <1>13, <2>1, <2>3, <2>5
  <2> QED BY <1>6, <2>1, <2>6
<1>17. CASE Panel!HandleStart
  <2> DEFINE t == h.id
  <2>1. c # <<>> /\ h.op = "start" /\ tunnelCalls' = Tail(c) /\ UNCHANGED <<defs, running>>
    BY <1>17 DEF Panel!HandleStart, Panel!Served, h
  <2>2. t \in Tunnel
    BY <1>3, <2>1, PanelCallIs
  <2>3. \/ t \in running /\ tunnelAnswers' = a \o <<Panel!Is(t, "running")>> /\ UNCHANGED <<starting, raced>>
        \/ tunnelAnswers' = a \o <<Panel!Is(t, "error")>> /\ UNCHANGED <<starting, raced>>
        \/ /\ defs[t] # None /\ tunnelAnswers' = a /\ starting' = Append(starting, t)
           /\ raced' = IF t \in Panel!ToSet(starting) THEN raced \cup {t} ELSE raced
    BY <1>17 DEF Panel!HandleStart, Panel!Tells, h
  <2> HIDE DEF t
  <2>4. CASE t \in running /\ tunnelAnswers' = a \o <<Panel!Is(t, "running")>> /\ UNCHANGED <<starting, raced>>
    <3>1. F(Tail(c), a \o <<Panel!Is(t, "running")>>, defs, running)
      BY <1>9, <1>11, <2>1, <2>2, <2>4
    <3> QED BY <1>6, <2>1, <2>4, <3>1
  <2>5. CASE tunnelAnswers' = a \o <<Panel!Is(t, "error")>> /\ UNCHANGED <<starting, raced>>
    <3>1. F(Tail(c), a \o <<Panel!Is(t, "error")>>, defs, running)
      BY <1>9, <1>11, <2>1, <2>2, <2>5
    <3> QED BY <1>6, <2>1, <2>5, <3>1
  <2>6. CASE /\ defs[t] # None /\ tunnelAnswers' = a /\ starting' = Append(starting, t)
             /\ raced' = IF t \in Panel!ToSet(starting) THEN raced \cup {t} ELSE raced
    <3>1. F(tunnelCalls', tunnelAnswers', defs', running')
      BY <1>9, <2>1, <2>6
    <3>2. /\ starting' \in Seq(Tunnel) /\ raced \subseteq raced' /\ raced' \subseteq Tunnel
          /\ \A i \in DOMAIN starting' : (i \in DOMAIN starting /\ starting'[i] = starting[i]) \/ starting'[i] = t
      BY <1>4, <2>2, <2>6, AppendIs
    <3>3. PanelRuns'
      BY <1>1, <2>1, <2>6, <3>2 DEF PanelRuns
    <3> QED BY <1>4, <1>5, <2>1, <3>1, <3>2, <3>3
  <2> QED BY <2>3, <2>4, <2>5, <2>6
<1>18. CASE Panel!StartEnds
  <2>1. PICK i \in DOMAIN starting :
          /\ starting' = Panel!RemoveAt(starting, i)
          /\ \/ running' = running \cup {starting[i]}
                /\ tunnelAnswers' = a \o <<Panel!Is(starting[i], "running"), Panel!Is(starting[i], "running")>>
             \/ running' = running /\ tunnelAnswers' = a \o <<Panel!Is(starting[i], "error")>>
    BY <1>18 DEF Panel!StartEnds, Panel!Tells
  <2> DEFINE t == starting[i]
  <2>2. t \in Tunnel /\ (defs[t] # None \/ t \in raced) /\ UNCHANGED <<defs, tunnelCalls, raced>>
    BY <1>1, <1>4, <1>18 DEF PanelRuns, Panel!StartEnds
  <2>3. starting' \in Seq(Tunnel) /\ \A j \in DOMAIN starting' : \E k \in DOMAIN starting : starting'[j] = starting[k]
    <3> DEFINE p == SubSeq(starting, 1, i - 1)
               q == SubSeq(starting, i + 1, Len(starting))
               n == Len(starting)
    <3>1. n \in Nat /\ i \in 1 .. n /\ starting' = p \o q
      BY <1>4, <2>1 DEF Panel!RemoveAt
    <3>2. p \in Seq(Tunnel) /\ Len(p) = i - 1 /\ \A j \in 1 .. i - 1 : p[j] = starting[j]
      BY <1>4, <3>1
    <3>3. q \in Seq(Tunnel) /\ Len(q) = n - i /\ \A j \in 1 .. n - i : q[j] = starting[i + j]
      <4>1. n - (i + 1) + 1 = n - i /\ n - i \in Nat /\ i + 1 \in 1 .. n + 1
        BY <3>1
      <4>2. q \in Seq(Tunnel) /\ Len(q) = n - i
        BY <1>4, <3>1, <4>1
      <4>3. ASSUME NEW j \in 1 .. n - i PROVE q[j] = starting[i + j]
        <5>1. q[j] = starting[(i + 1) + j - 1]
          <6>1. i + 1 \in Int /\ n \in Int /\ n - (i + 1) + 1 = n - i
            BY <3>1
          <6>2. ASSUME NEW k \in i + 1 .. n PROVE starting[k] \in Tunnel
            <7>1. k \in 1 .. n
              BY <3>1, <6>2
            <7> QED BY <1>4, <7>1
          <6> QED BY <6>1, <6>2, SubSeqProperties DEF q
        <5> QED BY <3>1, <5>1
      <4> QED BY <4>2, <4>3
    <3> HIDE DEF p, q
    <3>4. /\ p \o q \in Seq(Tunnel) /\ DOMAIN (p \o q) = 1 .. n - 1
          /\ \A j \in 1 .. n - 1 : (p \o q)[j] = IF j < i THEN p[j] ELSE q[j - (i - 1)]
      <4>1. Len(p) + Len(q) = n - 1
        BY <3>1, <3>2, <3>3
      <4>2. p \o q \in Seq(Tunnel) /\ Len(p \o q) = n - 1
        BY <3>2, <3>3, <4>1, ConcatProperties
      <4>3. \A j \in 1 .. n - 1 : (p \o q)[j] = IF j <= Len(p) THEN p[j] ELSE q[j - Len(p)]
        BY <3>2, <3>3, <4>1, ConcatProperties
      <4>4. \A j \in 1 .. n - 1 : j <= i - 1 <=> j < i
        BY <3>1
      <4> QED BY <3>1, <3>2, <4>2, <4>3, <4>4
    <3>5. ASSUME NEW j \in 1 .. n - 1 PROVE \E k \in DOMAIN starting : (p \o q)[j] = starting[k]
      <4>1. CASE j < i
        <5>1. j \in 1 .. i - 1 /\ j \in DOMAIN starting
          BY <1>4, <3>1, <4>1
        <5> QED BY <3>2, <3>4, <4>1, <5>1
      <4>2. CASE ~(j < i)
        <5>1. j - (i - 1) \in 1 .. n - i /\ j + 1 \in DOMAIN starting /\ i + (j - (i - 1)) = j + 1
          BY <1>4, <3>1, <4>2
        <5> QED BY <3>3, <3>4, <4>2, <5>1
      <4> QED BY <4>1, <4>2
    <3> QED BY <3>1, <3>4, <3>5
  <2> HIDE DEF t
  <2>4. F(tunnelCalls', tunnelAnswers', defs', running') /\ running' \subseteq running \cup {t}
    <3>1. CASE running' = running \cup {t} /\ tunnelAnswers' = a \o <<Panel!Is(t, "running"), Panel!Is(t, "running")>>
      <4> DEFINE m == Panel!Is(t, "running")
                 b == a \o <<m>>
      <4>1. m \in PanelAnswer
        BY <2>2 DEF Panel!Is, PanelAnswer
      <4>2. F(c, b, defs, running \cup {t})
        BY <1>1, <1>11, <2>2
      <4>3. F(c, b \o <<m>>, defs, running \cup {t})
        BY <1>11, <2>2, <4>2
      <4> HIDE DEF m
      <4>4. b \o <<m>> = a \o <<m, m>>
        BY <1>1, <4>1
      <4> QED BY <2>2, <3>1, <4>3, <4>4 DEF m
    <3>2. CASE running' = running /\ tunnelAnswers' = a \o <<Panel!Is(t, "error")>>
      <4>1. F(c, a \o <<Panel!Is(t, "error")>>, defs, running)
        BY <1>1, <1>11, <2>2
      <4> QED BY <2>2, <3>2, <4>1
    <3> QED BY <2>1, <3>1, <3>2 DEF t
  <2>5. PanelRuns'
    BY <1>1, <2>2, <2>3, <2>4 DEF PanelRuns
  <2> QED BY <1>4, <1>5, <2>2, <2>3, <2>4, <2>5
<1>19. CASE Panel!GoesDown
  <2>1. PICK t \in running : running' = running \ {t} /\ tunnelAnswers' = a \o <<Panel!Is(t, "error")>>
    BY <1>19 DEF Panel!GoesDown, Panel!StopIn, Panel!Tells
  <2>2. UNCHANGED <<defs, starting, tunnelCalls, raced>> /\ t \in Tunnel
    BY <1>4, <1>19 DEF Panel!GoesDown
  <2>3. F(c, a \o <<Panel!Is(t, "error")>>, defs, running \ {t})
    BY <1>1, <1>11, <2>2
  <2> QED BY <1>6, <2>1, <2>2, <2>3
<1>20. CASE Panel!Refresh
  <2>1. PICK t \in running : tunnelAnswers' = a \o <<Panel!Is(t, "running")>>
    BY <1>20 DEF Panel!Refresh, Panel!Tells
  <2>2. UNCHANGED <<defs, running, starting, tunnelCalls, raced>> /\ t \in Tunnel
    BY <1>4, <1>20 DEF Panel!Refresh, Panel!mainVars
  <2>3. F(c, a \o <<Panel!Is(t, "running")>>, defs, running)
    BY <1>1, <1>11, <2>1, <2>2
  <2> QED BY <1>6, <2>1, <2>2, <2>3
<1> QED BY <1>7, <1>8, <1>14, <1>15, <1>16, <1>17, <1>18, <1>19, <1>20

\* What the store hears, in the order it was told.
LEMMA PanelHears ==
  ASSUME PanelInv, Panel!applyStatus \/ Panel!Listed \/ Panel!Loaded \/ Panel!Saved \/ Panel!Refused \/ Panel!Removed
                   \/ Panel!StopAnswered
  PROVE  PanelInv'
<1> DEFINE c == tunnelCalls
           a == tunnelAnswers
           h == Head(tunnelAnswers)
           p == Tail(tunnelAnswers)
<1>1. PanelTypes /\ PanelRuns /\ c \in Seq(PanelCall) /\ a \in Seq(PanelAnswer)
      /\ PanelFlow(c, a, defs, listing, saved) /\ StatusFlow(c, a, tunnelStatus, running, lost)
  BY DEF PanelInv, PanelTravel, PanelFlows
<1>2. UNCHANGED <<defs, running, starting, raced>> /\ a # <<>> /\ tunnelAnswers' = p
  BY DEF Panel!applyStatus, Panel!Listed, Panel!Loaded, Panel!Saved, Panel!Refused, Panel!Removed, Panel!StopAnswered,
         Panel!Comes, Panel!mainVars
<1>3. h \in PanelAnswer /\ p \in Seq(PanelAnswer)
  BY <1>1, <1>2, TailIs
<1>4. saved \in TunnelRows /\ tunnelStatus \in Statuses /\ lost \subseteq Tunnel
      /\ tunnelForm \in [open : BOOLEAN, of : Tunnel \cup {None}, listenHost : Panel!Addr]
  BY <1>1 DEF PanelTypes
<1>5. Panel!NoForm \in [open : BOOLEAN, of : Tunnel \cup {None}, listenHost : Panel!Addr]
  BY DEF Panel!NoForm, Panel!Addr
<1>6. ASSUME saved' \in TunnelRows, tunnelStatus' \in Statuses, lost' \subseteq Tunnel, tunnelForm' = tunnelForm \/ tunnelForm' = Panel!NoForm,
             tunnelCalls' \in Seq(PanelCall), PanelFlow(tunnelCalls', p, defs, listing', saved'),
             StatusFlow(tunnelCalls', p, tunnelStatus', running, lost')
      PROVE  PanelInv'
  <2>1. PanelTypes'
    BY <1>1, <1>2, <1>4, <1>5, <1>6 DEF PanelTypes, TunnelRows, Statuses, Panel!Addr
  <2>2. PanelTravel' /\ PanelRuns'
    BY <1>1, <1>2, <1>3, <1>6 DEF PanelTravel, PanelRuns
  <2> QED BY <1>2, <1>6, <2>1, <2>2, PanelIs
<1> HIDE DEF h, p
<1>7. CASE Panel!applyStatus
  <2> DEFINE e == h.id
  <2>1. /\ h.op = "status" /\ tunnelStatus' = [tunnelStatus EXCEPT ![e] = h.is]
        /\ lost' = IF Panel!Copies # {} THEN lost \cup {e} ELSE lost \ {e}
        /\ UNCHANGED <<tunnelCalls, saved, listing, tunnelForm>>
    BY <1>7 DEF Panel!applyStatus, Panel!Comes, h
  <2>2. e \in Tunnel /\ h.is \in {"running", "stopped", "error"}
    BY <1>3, <2>1, PanelAnswerIs
  <2> HIDE DEF e
  <2>3. tunnelStatus' \in Statuses /\ lost' \subseteq Tunnel
    BY <1>4, <2>1, <2>2 DEF Statuses
  <2>4. PanelFlow(c, p, defs, listing, saved)
    BY <1>1, <1>2, <2>1, FlowHeard DEF h, p
  <2>5. ASSUME Panel!Copies = {}, NEW i PROVE ~CopyIn(c, i) /\ ~CopyIn(a, i)
    <3>1. \A m \in Panel!ToSet(c) \cup Panel!ToSet(a) : m.op = "list" => m.copy = None
      BY <2>5 DEF Panel!Copies
    <3>2. (\A k \in DOMAIN c : c[k] \in Panel!ToSet(c)) /\ \A k \in DOMAIN a : a[k] \in Panel!ToSet(a)
      BY DEF Panel!ToSet
    <3> QED BY <3>1, <3>2 DEF CopyIn
  <2>6. \/ lost' = lost \cup {e}
        \/ lost' = lost \ {e} /\ \A i : ~CopyIn(c, i) /\ ~CopyIn(a, i)
    BY <2>1, <2>5
  <2>7. StatusFlow(c, p, tunnelStatus', running, lost')
    BY <1>1, <1>2, <1>4, <2>1, <2>2, <2>6, StatusHeard DEF h, p, e
  <2> QED BY <1>1, <1>4, <1>6, <2>1, <2>3, <2>4, <2>7
<1>8. CASE Panel!Listed
  <2>1. h.op = "list" /\ UNCHANGED <<tunnelCalls, lost>>
        /\ \/ h.then = "load" /\ listing' = h.is /\ UNCHANGED <<saved, tunnelStatus, tunnelForm>>
           \/ /\ h.then # "load" /\ saved' = h.is /\ UNCHANGED listing
              /\ tunnelStatus' = IF h.then = "removed" THEN h.copy ELSE tunnelStatus
              /\ tunnelForm' = IF h.then = "saved" THEN Panel!NoForm ELSE tunnelForm
    BY <1>8 DEF Panel!Listed, Panel!Comes, h
  <2>2. h.is \in TunnelRows /\ ((h.then \in {"load", "saved"} /\ h.copy = None) \/ (h.then = "removed" /\ h.copy \in Statuses))
    BY <1>3, <2>1, PanelAnswerIs
  <2>3. /\ Relist(h) => PanelFlow(c, p, defs, listing, h.is)
        /\ Opening(h) => PanelFlow(c, p, defs, h.is, saved)
    BY <1>1, <1>2, <2>1, <2>2, FlowRelisted DEF h, p
  <2>4. \A t : h \notin About(t)
    BY <2>1 DEF About
  <2>5. StatusFlow(c, p, tunnelStatus, running, lost)
    BY <1>1, <1>2, <2>4, StatusLeft DEF h, p
  <2>6. CASE h.then = "load"
    <3>1. PanelFlow(c, p, defs, listing', saved)
      BY <2>1, <2>3, <2>6 DEF Opening
    <3> QED BY <1>1, <1>4, <1>6, <2>1, <2>5, <2>6, <3>1
  <2>7. CASE h.then # "load"
    <3>1. PanelFlow(c, p, defs, listing', saved') /\ saved' \in TunnelRows
      BY <2>1, <2>2, <2>3, <2>7 DEF Relist
    <3>2. tunnelStatus' \in Statuses /\ StatusFlow(c, p, tunnelStatus', running, lost)
      <4>1. CASE h.then = "removed"
        <5>1. h.copy \in Statuses /\ h.copy # None
          BY <2>2, <4>1, NoStatusAssumption DEF NoStatusAssumption, Statuses
        <5>2. StatusFlow(c, p, h.copy, running, lost)
          BY <1>1, <1>2, <2>1, <5>1, StatusCopied DEF h, p
        <5> QED BY <2>1, <4>1, <5>1, <5>2
      <4>2. CASE h.then # "removed"
        BY <1>4, <2>1, <2>5, <2>7, <4>2
      <4> QED BY <4>1, <4>2
    <3> QED BY <1>1, <1>4, <1>6, <2>1, <2>7, <3>1, <3>2
  <2> QED BY <2>6, <2>7
<1>9. CASE Panel!Loaded
  <2>1. h.op = "statuses" /\ saved' = listing /\ tunnelStatus' = h.is /\ UNCHANGED <<tunnelCalls, tunnelForm, lost>>
    BY <1>9 DEF Panel!Loaded, Panel!Comes, h
  <2>2. h.is \in Statuses
    <3>1. h.is \in [Tunnel -> {"running", None}]
      BY <1>3, <2>1, PanelAnswerIs
    <3> QED BY <3>1 DEF Statuses
  <2>3. listing \in TunnelRows /\ PanelFlow(c, p, defs, listing', listing)
    BY <1>1, <1>2, <2>1, FlowLoaded DEF h, p

\* While load() waits nobody else has a list on its way.
  <2>4. \A i : ~CopyIn(c, i) /\ ~CopyIn(a, i)
    <3>1. (\A i \in DOMAIN c : ~Relist(c[i])) /\ \A i \in DOMAIN a : ~Relist(a[i])
      <4>1. h = a[1] /\ 1 \in DOMAIN a
        BY <1>1, <1>2, TailIs DEF h
      <4> QED BY <1>1, <2>1, <4>1 DEF PanelFlow, LoadIsFirst
    <3>2. ASSUME NEW i, CopyIn(c, i) PROVE FALSE
      <4>1. i \in DOMAIN c /\ c[i] \in PanelCall /\ c[i].op = "list" /\ c[i].copy # None
        BY <1>1, <3>2 DEF CopyIn
      <4>2. c[i].then = "removed"
        BY <4>1, PanelCallIs
      <4> QED BY <3>1, <4>1, <4>2 DEF Relist
    <3>3. ASSUME NEW i, CopyIn(a, i) PROVE FALSE
      <4>1. i \in DOMAIN a /\ a[i] \in PanelAnswer /\ a[i].op = "list" /\ a[i].copy # None
        BY <1>1, <3>3 DEF CopyIn
      <4>2. a[i].then = "removed"
        BY <4>1, PanelAnswerIs
      <4> QED BY <3>1, <4>1, <4>2 DEF Relist
    <3> QED BY <3>2, <3>3
  <2>5. StatusFlow(c, p, tunnelStatus', running, lost)
    BY <1>1, <1>2, <2>1, <2>4, StatusesHeard DEF h, p
  <2> QED BY <1>1, <1>4, <1>6, <2>1, <2>2, <2>3, <2>5
<1>10. CASE Panel!Saved
  <2> DEFINE r == [op |-> "list", then |-> "saved", copy |-> None]
  <2>1. h.op = "saved" /\ tunnelCalls' = Append(c, r) /\ UNCHANGED <<saved, tunnelStatus, listing, tunnelForm, lost>>
    BY <1>10 DEF Panel!Saved, Panel!Comes, Panel!ListNext, Panel!storeVars, h
  <2>2. r \in PanelCall /\ r.op = "list" /\ r.copy = None /\ Relist(r)
    BY DEF PanelCall, Relist
  <2> HIDE DEF r
  <2>3. Append(c, r) \in Seq(PanelCall)
    BY <1>1, <2>2, AppendIs
  <2>4. Change(h) /\ \A t : h \notin About(t)
    BY <2>1 DEF Change, About
  <2>5. PanelFlow(Append(c, r), p, defs, listing, saved)
    BY <1>1, <1>2, <2>2, <2>4, FlowChanged DEF h, p
  <2>6. StatusFlow(c, p, tunnelStatus, running, lost)
    BY <1>1, <1>2, <2>4, StatusLeft DEF h, p
  <2>7. StatusFlow(Append(c, r), p, tunnelStatus, running, lost)
    BY <1>1, <2>2, <2>6, StatusCalled
  <2> QED BY <1>4, <1>6, <2>1, <2>3, <2>5, <2>7
<1>11. CASE Panel!Refused
  <2>1. h.op = "refused" /\ UNCHANGED <<tunnelCalls, saved, tunnelStatus, listing, tunnelForm, lost>>
    BY <1>11 DEF Panel!Refused, Panel!Comes, Panel!storeVars, h
  <2>2. PanelFlow(c, p, defs, listing, saved)
    BY <1>1, <1>2, <2>1, FlowHeard DEF h, p
  <2>3. \A t : h \notin About(t)
    BY <2>1 DEF About
  <2>4. StatusFlow(c, p, tunnelStatus, running, lost)
    BY <1>1, <1>2, <2>3, StatusLeft DEF h, p
  <2> QED BY <1>1, <1>4, <1>6, <2>1, <2>2, <2>4
<1>12. CASE Panel!Removed
  <2> DEFINE e == h.id
             x == [tunnelStatus EXCEPT ![e] = None]
             r == [op |-> "list", then |-> "removed", copy |-> x]
  <2>1. h.op = "removed" /\ tunnelCalls' = Append(c, r) /\ UNCHANGED <<saved, tunnelStatus, listing, tunnelForm, lost>>
    BY <1>12 DEF Panel!Removed, Panel!Comes, Panel!ListNext, Panel!storeVars, h
  <2>2. e \in Tunnel
    BY <1>3, <2>1, PanelAnswerIs
  <2>3. x \in Statuses
    BY <1>4, <2>2 DEF Statuses
  <2>4. r.op = "list" /\ r.copy = x /\ r.then = "removed"
    OBVIOUS
  <2>5. r \in PanelCall /\ Relist(r)
    BY <2>3 DEF PanelCall, Relist
  <2> HIDE DEF r
  <2>6. Append(c, r) \in Seq(PanelCall)
    BY <1>1, <2>5, AppendIs
  <2>7. Change(h) /\ \A t : h \notin About(t)
    BY <2>1 DEF Change, About
  <2>8. PanelFlow(Append(c, r), p, defs, listing, saved)
    BY <1>1, <1>2, <2>5, <2>7, FlowChanged DEF h, p
  <2>9. StatusFlow(c, p, tunnelStatus, running, lost)
    BY <1>1, <1>2, <2>7, StatusLeft DEF h, p
  <2>10. StatusFlow(Append(c, r), p, tunnelStatus, running, lost)
    <3>1. r.copy = [tunnelStatus EXCEPT ![e] = None]
      BY <2>4
    <3> HIDE DEF e, x
    <3> QED BY <1>1, <1>4, <2>2, <2>4, <2>5, <2>9, <3>1, StatusCopy
  <2> QED BY <1>4, <1>6, <2>1, <2>6, <2>8, <2>10
<1>13. CASE Panel!StopAnswered
  <2> DEFINE e == h.id
  <2>1. h.op = "stopped" /\ UNCHANGED <<tunnelCalls, saved, listing, tunnelForm, lost>>
        /\ tunnelStatus' = [tunnelStatus EXCEPT ![e] = IF tunnelStatus[e] = "running" THEN "stopped" ELSE tunnelStatus[e]]
    BY <1>13 DEF Panel!StopAnswered, Panel!Comes, h
  <2>2. e \in Tunnel
    BY <1>3, <2>1, PanelAnswerIs
  <2> HIDE DEF e
  <2>3. tunnelStatus[e] \in {"running", "stopped", "error", None}
    BY <1>4, <2>2 DEF Statuses
  <2>4. tunnelStatus' \in Statuses /\ \A t \in Tunnel : tunnelStatus'[t] = "running" => tunnelStatus[t] = "running"
    BY <1>4, <2>1, <2>2, <2>3 DEF Statuses
  <2>5. PanelFlow(c, p, defs, listing, saved)
    BY <1>1, <1>2, <2>1, FlowHeard DEF h, p
  <2>6. \A t : h \notin About(t)
    BY <2>1 DEF About
  <2>7. \A t \in Tunnel : ShowsUp(t, tunnelStatus, running, lost) => ShowsUp(t, tunnelStatus', running, lost)
    BY <2>4 DEF ShowsUp
  <2>8. StatusFlow(c, p, tunnelStatus', running, lost)
    BY <1>1, <1>2, <2>6, <2>7, StatusLeft DEF h, p
  <2> QED BY <1>1, <1>4, <1>6, <2>1, <2>4, <2>5, <2>8
<1> QED BY <1>7, <1>8, <1>9, <1>10, <1>11, <1>12, <1>13

\* What the user does in the panel and its dialog.
LEMMA PanelAsks ==
  ASSUME PanelInv, Panel!load \/ Panel!rowButtons \/ Panel!openForm \/ Panel!editForm \/ Panel!handleSave
  PROVE  PanelInv'
<1> DEFINE c == tunnelCalls
           a == tunnelAnswers
           form0 == [open : BOOLEAN, of : Tunnel \cup {None}, listenHost : Panel!Addr]
<1>1. PanelTypes /\ PanelRuns /\ c \in Seq(PanelCall) /\ a \in Seq(PanelAnswer)
      /\ PanelFlow(c, a, defs, listing, saved) /\ StatusFlow(c, a, tunnelStatus, running, lost)
  BY DEF PanelInv, PanelTravel, PanelFlows
<1>2. UNCHANGED <<defs, running, starting, raced, lost, saved, tunnelStatus, listing, tunnelAnswers>>
  BY DEF Panel!load, Panel!rowButtons, Panel!openForm, Panel!editForm, Panel!handleSave, Panel!mainVars, Panel!storeVars
<1>3. saved \in TunnelRows /\ tunnelForm \in form0
  BY <1>1 DEF PanelTypes
<1>4. ASSUME tunnelForm' \in form0, tunnelCalls' \in Seq(PanelCall), PanelFlow(tunnelCalls', a, defs, listing, saved),
             StatusFlow(tunnelCalls', a, tunnelStatus, running, lost)
      PROVE  PanelInv'
  <2>1. PanelTypes'
    BY <1>1, <1>2, <1>4 DEF PanelTypes, TunnelRows, Statuses, Panel!Addr
  <2>2. PanelTravel' /\ PanelRuns'
    BY <1>1, <1>2, <1>4 DEF PanelTravel, PanelRuns
  <2> QED BY <1>2, <1>4, <2>1, <2>2, PanelIs
<1>5. ASSUME NEW m \in PanelCall, m.op \notin {"list", "statuses"}, tunnelCalls' = Append(c, m), UNCHANGED tunnelForm
      PROVE  PanelInv'
  <2>1. PanelFlow(Append(c, m), a, defs, listing, saved)
    BY <1>1, <1>5, FlowAsked
  <2>2. StatusFlow(Append(c, m), a, tunnelStatus, running, lost)
    BY <1>1, <1>5, StatusCalled
  <2>3. Append(c, m) \in Seq(PanelCall)
    BY <1>1, AppendIs
  <2> QED BY <1>3, <1>4, <1>5, <2>1, <2>2, <2>3
<1> HIDE DEF form0
<1>6. CASE Panel!load
  <2> DEFINE x == [op |-> "list", then |-> "load", copy |-> None]
             y == [op |-> "statuses"]
  <2>1. c = <<>> /\ a = <<>> /\ tunnelCalls' = <<x, y>> /\ UNCHANGED tunnelForm
    BY <1>6 DEF Panel!load
  <2>2. x \in PanelCall /\ y \in PanelCall /\ Opening(x) /\ y.op = "statuses" /\ x.copy = None
    BY DEF PanelCall, Opening
  <2> HIDE DEF x, y
  <2>3. <<x, y>> \in Seq(PanelCall)
    BY <2>2
  <2>4. PanelFlow(<<x, y>>, <<>>, defs, listing, saved)
    BY <1>1, <2>1, <2>2, FlowLoads
  <2>5. \A i : ~CopyIn(<<x, y>>, i)
    BY <2>2 DEF CopyIn
  <2>6. StatusFlow(<<x, y>>, a, tunnelStatus, running, lost)
    BY <1>1, <2>5 DEF StatusFlow, CopiesShow
  <2> QED BY <1>3, <1>4, <2>1, <2>3, <2>4, <2>6
<1>7. CASE Panel!rowButtons
  <2>1. PICK t \in Tunnel : \/ tunnelCalls' = Append(c, [op |-> IF tunnelStatus[t] = "running" THEN "stop" ELSE "start", id |-> t])
                            \/ tunnelCalls' = Append(c, [op |-> "remove", id |-> t])
    BY <1>7 DEF Panel!rowButtons, Panel!Call
  <2>2. UNCHANGED tunnelForm
    BY <1>7 DEF Panel!rowButtons
  <2>3. PICK o \in {"remove", "stop", "start"} : tunnelCalls' = Append(c, [op |-> o, id |-> t])
    BY <2>1
  <2> DEFINE m == [op |-> o, id |-> t]
  <2>4. m \in PanelCall /\ m.op \notin {"list", "statuses"}
    BY DEF PanelCall
  <2> HIDE DEF m
  <2> QED BY <1>5, <2>2, <2>3, <2>4 DEF m
<1>8. CASE Panel!openForm
  <2>2. PICK u \in Tunnel \cup {None} :
          /\ u # None => saved[u] # None
          /\ tunnelForm' = [open |-> TRUE, of |-> u, listenHost |-> IF u = None THEN "loop" ELSE saved[u]]
    BY <1>8 DEF Panel!openForm
  <2>3. (IF u = None THEN "loop" ELSE saved[u]) \in Panel!Addr
    BY <1>3, <2>2 DEF TunnelRows, Panel!Addr
  <2>4. TRUE \in BOOLEAN
    OBVIOUS
  <2>5. tunnelForm' \in form0
    BY <2>2, <2>3, <2>4 DEF form0
  <2>6. UNCHANGED tunnelCalls
    BY <1>8 DEF Panel!openForm
  <2> QED BY <1>1, <1>4, <2>5, <2>6
<1>9. CASE Panel!editForm
  <2>1. PICK x \in Panel!Addr : tunnelForm' \in {[tunnelForm EXCEPT !.listenHost = x], Panel!NoForm}
    BY <1>9 DEF Panel!editForm
  <2>2. tunnelForm' \in form0
    <3>1. Panel!NoForm \in form0
      BY DEF Panel!NoForm, Panel!Addr, form0
    <3>2. [tunnelForm EXCEPT !.listenHost = x] \in form0
      BY <1>3 DEF form0
    <3> QED BY <2>1, <3>1, <3>2
  <2>3. UNCHANGED tunnelCalls
    BY <1>9 DEF Panel!editForm
  <2> QED BY <1>1, <1>4, <2>2, <2>3
<1>10. CASE Panel!handleSave
  <2> DEFINE new0 == tunnelForm.of = None
             address == tunnelForm.listenHost
  <2>1. tunnelForm.open /\ address \in Panel!Addr /\ new0 \in BOOLEAN
    BY <1>3, <1>10 DEF form0, Panel!handleSave
  <2>2. PICK t \in (IF new0 THEN Tunnel \ Panel!Taken ELSE {tunnelForm.of}) :
          tunnelCalls' = Append(c, [op |-> "save", new |-> new0, id |-> t, listenHost |-> address])
    BY <1>10 DEF Panel!handleSave, Panel!Call
  <2>3. t \in Tunnel
    BY <1>3, <2>2 DEF form0
  <2>4. UNCHANGED tunnelForm
    BY <1>10 DEF Panel!handleSave
  <2> HIDE DEF new0, address
  <2> DEFINE m == [op |-> "save", new |-> new0, id |-> t, listenHost |-> address]
  <2>5. m \in PanelCall /\ m.op = "save"
    BY <2>1, <2>3 DEF PanelCall
  <2> HIDE DEF m
  <2> QED BY <1>5, <2>2, <2>4, <2>5 DEF m
<1> QED BY <1>6, <1>7, <1>8, <1>9, <1>10

LEMMA NextPanel == ASSUME PanelInv, Panel!PanelNext \/ UNCHANGED panel PROVE PanelInv'
<1>1. CASE UNCHANGED panel
  BY <1>1 DEF panel, PanelInv, PanelTypes, PanelTravel, PanelRuns, PanelFlows, PanelFlow, FreshLists, LoadIsFirst, LoadHolds,
              ShownOrDue, RelistDue, StatusFlow, StatusTold, CopiesShow, CopyIn, CopyShows, ShowsUp, TellsOf, LastSays
<1> QED BY <1>1, PanelMain, PanelHears, PanelAsks DEF Panel!PanelNext

-----------------------------------------------------------------------------
(* The rows of the list of hosts *)

LEMMA AllNumbers == ASSUME NEW B \in SUBSET Nat, 0 \in B, \A n \in B : n + 1 \in B PROVE B = Nat
<1> SUFFICES ASSUME Nat \ B # {} PROVE FALSE
  OBVIOUS
<1>1. PICK d \in Nat \ B : \A j \in Nat \ B : d <= j
  BY OneIsFirst
<1>2. d # 0 /\ d - 1 \in Nat /\ ~(d <= d - 1) /\ (d - 1) + 1 = d
  BY <1>1
<1>3. d - 1 \in B
  BY <1>1, <1>2
<1>4. (d - 1) + 1 \in B
  BY <1>3
<1> QED BY <1>1, <1>2, <1>4

LEMMA CountIs == \A S : List!Cardinality(S) = Cardinality(S)
BY DEF List!Cardinality, Cardinality

\* The depths of the tree.
Roots == {g \in groups : List!effectiveParent(g) = Top}
Under(S) == {g \in groups : List!effectiveParent(g) \in S}
Depth == List!Cardinality(Group)
IsTree(h, m) == h = [n \in 0 .. m |-> IF n = 0 THEN Roots ELSE Under(h[n - 1])]

LEMMA TreesAreThere == \A m \in Nat : \E h : IsTree(h, m)
<1> DEFINE B == {m \in Nat : \E h : IsTree(h, m)}
<1>1. 0 \in B
  <2> DEFINE h == [n \in 0 .. 0 |-> Roots]
  <2>1. IsTree(h, 0)
    BY DEF IsTree
  <2> QED BY <2>1
<1>2. ASSUME NEW m \in B PROVE m + 1 \in B
  <2>1. PICK h : IsTree(h, m)
    OBVIOUS
  <2> DEFINE k == [n \in 0 .. (m + 1) |-> IF n <= m THEN h[n] ELSE Under(h[m])]
  <2>2. ASSUME NEW n \in 0 .. (m + 1) PROVE k[n] = IF n = 0 THEN Roots ELSE Under(k[n - 1])
    <3>1. m \in Nat
      OBVIOUS
    <3>2. CASE n <= m
      <4>1. n \in 0 .. m /\ k[n] = h[n]
        BY <3>1, <3>2
      <4>2. h[n] = IF n = 0 THEN Roots ELSE Under(h[n - 1])
        BY <2>1, <4>1 DEF IsTree
      <4>3. n # 0 => k[n - 1] = h[n - 1]
        BY <3>1, <3>2
      <4> HIDE DEF k
      <4> QED BY <4>1, <4>2, <4>3
    <3>3. CASE n = m + 1
      <4>1. n # 0 /\ n - 1 = m /\ ~(n <= m)
        BY <3>1, <3>3
      <4>2. k[n] = Under(h[m]) /\ k[n - 1] = h[m]
        BY <3>1, <3>3, <4>1
      <4> HIDE DEF k
      <4> QED BY <4>1, <4>2
    <3> QED BY <3>1, <3>2, <3>3
  <2>3. k = [n \in 0 .. (m + 1) |-> k[n]]
    OBVIOUS
  <2> HIDE DEF k
  <2>4. IsTree(k, m + 1)
    BY <2>2, <2>3 DEF IsTree
  <2> QED BY <2>4
<1> HIDE DEF B
<1>3. B \in SUBSET Nat
  BY DEF B
<1>4. B = Nat
  BY <1>1, <1>2, <1>3, AllNumbers
<1> QED BY <1>4 DEF B

LEMMA TreeIs == IsTree(List!buildGroupTree, Depth) /\ Depth \in Nat
<1>1. Depth \in Nat
  BY FiniteAssumption, FS_CardinalityType, CountIs DEF Depth
<1>2. \E h : IsTree(h, Depth)
  BY <1>1, TreesAreThere
<1>3. List!buildGroupTree = CHOOSE h : IsTree(h, Depth)
  BY DEF List!buildGroupTree, IsTree, Roots, Under, Depth
<1> QED BY <1>1, <1>2, <1>3

\* A group of the tree is at one depth: what is above it is at the depth before, and a tree of as
\* many depths as there are groups, and one more, has an empty one.
LEMMA EachIsInTree ==
  ASSUME TreeOfGroups
  PROVE  \A g \in groups : \E n \in 0 .. Depth : g \in List!buildGroupTree[n]
<1> DEFINE N == Depth
           L == List!buildGroupTree
<1>1. N \in Nat /\ \A n \in 0 .. N : L[n] = IF n = 0 THEN Roots ELSE Under(L[n - 1])
  <2>1. N \in Nat /\ L = [n \in 0 .. N |-> IF n = 0 THEN Roots ELSE Under(L[n - 1])]
    BY TreeIs DEF IsTree
  <2> HIDE DEF L, N
  <2> QED BY <2>1
<1> HIDE DEF L, N
<1>2. \A n \in 0 .. N : L[n] \subseteq groups
  BY <1>1 DEF Roots, Under
<1>3. groups \subseteq Group /\ \A g \in Group : List!effectiveParent(g) = parent[g] /\ parent[g] \in groups \cup {Top}
  BY DEF TreeOfGroups, Folders!TypeOK, Folders!ReferencesLive, List!effectiveParent
<1>4. ASSUME NEW n \in Nat, NEW m \in Nat, n < m, m <= N, NEW g, g \in L[n], g \in L[m] PROVE FALSE
  <2> DEFINE B == {k \in Nat : \A i \in Nat : \A x : i > k /\ i <= N /\ x \in L[i] => x \notin L[k]}
  <2>1. 0 \in B
    <3> SUFFICES ASSUME NEW i \in Nat, NEW x, i > 0, i <= N, x \in L[i], x \in L[0] PROVE FALSE
      OBVIOUS
    <3>1. i \in 0 .. N /\ i - 1 \in 0 .. N /\ 0 \in 0 .. N /\ i # 0
      BY <1>1
    <3>2. x \in Roots /\ x \in Under(L[i - 1])
      BY <1>1, <3>1
    <3>3. Top \in groups
      BY <1>2, <3>1, <3>2 DEF Roots, Under
    <3> QED BY <1>3, <3>3, TopAssumption
  <2>2. ASSUME NEW k \in B PROVE k + 1 \in B
    <3> SUFFICES ASSUME NEW i \in Nat, NEW x, i > k + 1, i <= N, x \in L[i], x \in L[k + 1] PROVE FALSE
      OBVIOUS
    <3>1. i \in 0 .. N /\ k + 1 \in 0 .. N /\ i # 0 /\ k + 1 # 0 /\ (k + 1) - 1 = k /\ i - 1 \in Nat
      BY <1>1
    <3>2. x \in Under(L[i - 1]) /\ x \in Under(L[k])
      BY <1>1, <3>1
    <3>3. List!effectiveParent(x) \in L[i - 1] /\ List!effectiveParent(x) \in L[k]
      BY <3>2 DEF Under
    <3> QED BY <1>1, <3>1, <3>3
  <2> HIDE DEF B
  <2>3. B \in SUBSET Nat
    BY DEF B
  <2>4. B = Nat
    BY <2>1, <2>2, <2>3, AllNumbers
  <2> QED BY <1>4, <2>4 DEF B
<1>5. L[N] = {}
  <2> SUFFICES ASSUME NEW z, z \in L[N] PROVE FALSE
    OBVIOUS
  <2>1. \A n \in 0 .. N : L[n] # {}
    <3> DEFINE B == {k \in Nat : k <= N => L[N - k] # {}}
    <3>1. 0 \in B
      BY <1>1
    <3>2. ASSUME NEW k \in B PROVE k + 1 \in B
      <4> SUFFICES ASSUME k + 1 <= N PROVE L[N - (k + 1)] # {}
        OBVIOUS
      <4>1. k <= N /\ N - k \in 0 .. N /\ N - k # 0 /\ (N - k) - 1 = N - (k + 1)
        BY <1>1
      <4>2. PICK x : x \in L[N - k]
        BY <4>1
      <4>3. L[N - k] = Under(L[N - (k + 1)])
        BY <1>1, <4>1
      <4> QED BY <4>2, <4>3 DEF Under
    <3> HIDE DEF B
    <3>3. B \in SUBSET Nat
      BY DEF B
    <3>4. B = Nat
      BY <3>1, <3>2, <3>3, AllNumbers
    <3>5. ASSUME NEW n \in 0 .. N PROVE L[n] # {}
      <4>1. N - n \in Nat /\ N - n <= N /\ N - (N - n) = n
        BY <1>1
      <4>2. N - n \in B
        BY <3>4, <4>1
      <4> QED BY <4>1, <4>2 DEF B
    <3> QED BY <3>5
  <2> DEFINE pick == [n \in 0 .. N |-> CHOOSE x : x \in L[n]]
  <2>2. \A n \in 0 .. N : pick[n] \in L[n]
    BY <2>1
  <2> HIDE DEF pick
  <2>3. \A n \in 0 .. N : pick[n] \in Group
    BY <1>2, <1>3, <2>2
  <2>4. pick \in [0 .. N -> Group]
    BY <2>3 DEF pick
  <2>5. IsFiniteSet(0 .. N) /\ Cardinality(0 .. N) = N + 1
    BY <1>1, FS_Interval
  <2>6. IsFiniteSet(Group) /\ Cardinality(Group) < Cardinality(0 .. N)
    BY <1>1, <2>5, FiniteAssumption, CountIs DEF N, Depth
  <2>7. PICK n \in 0 .. N, m \in 0 .. N : n # m /\ pick[n] = pick[m]
    BY <2>4, <2>5, <2>6, FS_PigeonHole
  <2>8. n \in Nat /\ m \in Nat /\ n <= N /\ m <= N /\ (n < m \/ m < n)
    BY <1>1, <2>7
  <2> QED BY <1>4, <2>2, <2>7, <2>8
<1>6. ASSUME NEW g \in groups PROVE \E n \in 0 .. N : g \in L[n]
  <2> DEFINE U == {x \in groups : \A n \in 0 .. N : x \notin L[n]}
  <2> SUFFICES ASSUME U # {} PROVE FALSE
    OBVIOUS
  <2>1. U \in SUBSET Group
    BY <1>3
  <2>2. PICK x \in U : parent[x] \notin U
    BY <2>1 DEF TreeOfGroups, Folders!Forest
  <2>3. x \in groups /\ x \in Group /\ List!effectiveParent(x) = parent[x] /\ parent[x] \in groups \cup {Top}
    BY <1>3
  <2>4. CASE parent[x] = Top
    <3>1. 0 \in 0 .. N /\ L[0] = Roots
      BY <1>1
    <3>2. x \in Roots
      BY <2>3, <2>4 DEF Roots
    <3> QED BY <3>1, <3>2
  <2>5. CASE parent[x] \in groups
    <3>1. PICK n \in 0 .. N : parent[x] \in L[n]
      BY <2>2, <2>5
    <3>2. n < N
      BY <1>1, <1>5, <3>1
    <3>3. n + 1 \in 0 .. N /\ n + 1 # 0 /\ (n + 1) - 1 = n
      BY <1>1, <3>2
    <3>5. x \in Under(L[n])
      BY <2>3, <3>1 DEF Under
    <3>4. x \in L[n + 1]
      BY <1>1, <3>3, <3>5
    <3> QED BY <3>3, <3>4
  <2> QED BY <2>3, <2>4, <2>5
<1> QED BY <1>6 DEF L, N

\* Above a group is it and what is above its parent; what is below it is below what is above.
LEMMA AboveIs ==
  ASSUME TreeOfGroups, NEW g \in groups, NEW a \in groups
  PROVE  /\ g \in List!descendantIds(a) <=> g = a \/ parent[g] \in List!descendantIds(a)
         /\ g \in List!descendantIds(a) => List!descendantIds(g) \subseteq List!descendantIds(a)
<1> DEFINE D == List!descendantIds(a)
           Whole(C) == \A y \in groups : parent[y] \in C => y \in C
<1>1. D \subseteq groups /\ \A x \in groups : x \in D <=> \A C \in SUBSET groups : a \in C /\ Whole(C) => x \in C
  BY DEF List!descendantIds
<1>2. a \in D /\ Whole(D)
  <2>1. ASSUME NEW y \in groups, parent[y] \in D, NEW C \in SUBSET groups, a \in C, Whole(C) PROVE y \in C
    <3>1. parent[y] \in C
      BY <1>1, <2>1
    <3> QED BY <2>1, <3>1
  <2> QED BY <1>1, <2>1
<1>3. ASSUME g \in D, g # a PROVE parent[g] \in D
  <2> DEFINE C == {x \in D : x = a \/ parent[x] \in D}
  <2>1. C \in SUBSET groups /\ a \in C
    BY <1>1, <1>2
  <2>2. ASSUME NEW y \in groups, parent[y] \in C PROVE y \in C
    BY <1>2, <2>2
  <2>3. g \in C
    <3>1. Whole(C)
      BY <2>2
    <3> HIDE DEF C, D, Whole
    <3> QED BY <1>1, <1>3, <2>1, <3>1
  <2> QED BY <1>3, <2>3
<1>4. ASSUME g \in D, NEW x \in List!descendantIds(g) PROVE x \in D
  <2>1. D \in SUBSET groups /\ Whole(D)
    BY <1>1, <1>2
  <2> HIDE DEF D
  <2> QED BY <1>4, <2>1 DEF List!descendantIds
<1> QED BY <1>2, <1>3, <1>4

LEMMA OnItself == ASSUME NEW g \in groups PROVE g \in List!descendantIds(g)
BY DEF List!descendantIds

\* A search keeps a branch with a match in it.
Found(g) == List!filtering => \E x \in List!descendantIds(g) : List!hostsOf(x) # {}
LEMMA FoundIs ==
  ASSUME hosts \subseteq Host, NEW g
  PROVE  (List!filtering => List!subtreeCount(g) > 0) <=> Found(g)
<1> DEFINE U == UNION {List!hostsOf(x) : x \in List!descendantIds(g)}
<1>1. U \subseteq Host
  BY DEF List!hostsOf, List!visible
<1>2. List!subtreeCount(g) = Cardinality(U)
  BY CountIs DEF List!subtreeCount
<1>3. U # {} <=> \E x \in List!descendantIds(g) : List!hostsOf(x) # {}
  OBVIOUS
<1> HIDE DEF U
<1>4. IsFiniteSet(U) /\ Cardinality(U) \in Nat /\ (Cardinality(U) = 0 <=> U = {})
  BY <1>1, FiniteAssumption, FS_Subset, FS_CardinalityType, FS_EmptySet
<1>5. Cardinality(U) > 0 <=> U # {}
  BY <1>4
<1> QED BY <1>2, <1>3, <1>5 DEF Found

\* The rows of groups by depth.
DrawnAt(h, n) ==
  {g \in List!buildGroupTree[n] :
     /\ n > 0 => List!effectiveParent(g) \in h[n - 1] /\ ~List!isCollapsed(List!effectiveParent(g))
     /\ List!filtering => List!subtreeCount(g) > 0}
IsDrawn(h, m) == h = [n \in 0 .. m |-> DrawnAt(h, n)]

LEMMA DrawingsAreThere == \A m \in Nat : \E h : IsDrawn(h, m)
<1> DEFINE B == {m \in Nat : \E h : IsDrawn(h, m)}
<1>0. ASSUME NEW h, NEW k, NEW n \in Nat, n > 0 => h[n - 1] = k[n - 1] PROVE DrawnAt(h, n) = DrawnAt(k, n)
  BY <1>0 DEF DrawnAt
<1>1. 0 \in B
  <2> DEFINE d == DrawnAt(<<>>, 0)
             h == [n \in 0 .. 0 |-> d]
  <2> HIDE DEF d
  <2>1. \A n \in 0 .. 0 : n = 0 /\ h[n] = d
    OBVIOUS
  <2>2. DrawnAt(h, 0) = d
    <3> HIDE DEF h
    <3> QED BY <1>0 DEF d
  <2>3. h = [n \in 0 .. 0 |-> DrawnAt(h, n)]
    <3>1. \A n \in 0 .. 0 : DrawnAt(h, n) = d
      <4> HIDE DEF h
      <4> QED BY <2>2
    <3> DEFINE e(n) == DrawnAt(h, n)
    <3>2. \A n \in 0 .. 0 : e(n) = d
      BY <3>1
    <3> HIDE DEF e
    <3>3. h = [n \in 0 .. 0 |-> e(n)]
      BY <3>2
    <3> QED BY <3>3 DEF e
  <2> HIDE DEF h
  <2> QED BY <2>3 DEF IsDrawn
<1>2. ASSUME NEW m \in B PROVE m + 1 \in B
  <2>1. PICK h : IsDrawn(h, m)
    OBVIOUS
  <2> DEFINE k == [n \in 0 .. (m + 1) |-> IF n <= m THEN h[n] ELSE DrawnAt(h, n)]
  <2>2. ASSUME NEW n \in 0 .. (m + 1) PROVE k[n] = DrawnAt(k, n)
    <3>1. m \in Nat /\ n \in Nat
      OBVIOUS
    <3>2. n > 0 => k[n - 1] = h[n - 1]
      BY <3>1
    <3>3. k[n] = DrawnAt(h, n)
      <4>1. CASE n <= m
        <5>1. n \in 0 .. m /\ k[n] = h[n]
          BY <3>1, <4>1
        <5> HIDE DEF k
        <5> QED BY <2>1, <5>1 DEF IsDrawn
      <4>2. CASE ~(n <= m)
        BY <3>1, <4>2
      <4> QED BY <4>1, <4>2
    <3> HIDE DEF k
    <3> QED BY <1>0, <3>1, <3>2, <3>3
  <2>3. k = [n \in 0 .. (m + 1) |-> k[n]]
    OBVIOUS
  <2> HIDE DEF k
  <2>4. IsDrawn(k, m + 1)
    BY <2>2, <2>3 DEF IsDrawn
  <2> QED BY <2>4
<1> HIDE DEF B
<1>3. B \in SUBSET Nat
  BY DEF B
<1>4. B = Nat
  BY <1>1, <1>2, <1>3, AllNumbers
<1> QED BY <1>4 DEF B

LEMMA DrawnIs == \E h : IsDrawn(h, Depth) /\ List!Drawn = UNION {h[n] : n \in 0 .. Depth}
<1> DEFINE h == CHOOSE k : IsDrawn(k, Depth)
<1>1. IsDrawn(h, Depth)
  BY DrawingsAreThere, TreeIs
<1>2. List!Drawn = UNION {h[n] : n \in DOMAIN h}
  BY DEF List!Drawn, IsDrawn, DrawnAt, Depth
<1> HIDE DEF h
<1>3. DOMAIN h = 0 .. Depth
  BY <1>1 DEF IsDrawn
<1> QED BY <1>1, <1>2, <1>3

\* A group is drawn and open, if nothing above it is closed and it has a match.
LEMMA OpenRow ==
  ASSUME TreeOfGroups, hosts \subseteq Host, NEW g \in groups
  PROVE  g \in List!Drawn /\ ~List!isCollapsed(g)
         <=> Found(g) /\ \A a \in groups : g \in List!descendantIds(a) => ~List!isCollapsed(a)
<1>1. PICK h : IsDrawn(h, Depth) /\ List!Drawn = UNION {h[n] : n \in 0 .. Depth}
  BY DrawnIs
<1> DEFINE N == Depth
           L == List!buildGroupTree
           Open(x) == \A a \in groups : x \in List!descendantIds(a) => ~List!isCollapsed(a)
<1>2. N \in Nat /\ \A n \in 0 .. N : L[n] = IF n = 0 THEN Roots ELSE Under(L[n - 1])
  <2>1. N \in Nat /\ L = [n \in 0 .. N |-> IF n = 0 THEN Roots ELSE Under(L[n - 1])]
    BY TreeIs DEF IsTree
  <2> HIDE DEF L, N
  <2> QED BY <2>1
<1>3. \A n \in 0 .. N : h[n] = DrawnAt(h, n)
  BY <1>1 DEF IsDrawn
<1>4. groups \subseteq Group /\ \A x \in groups : List!effectiveParent(x) = parent[x] /\ parent[x] \in groups \cup {Top}
  BY DEF TreeOfGroups, Folders!TypeOK, Folders!ReferencesLive, List!effectiveParent
<1> HIDE DEF N, Open
<1>5. ASSUME NEW n \in 0 .. N, NEW x \in L[n], x \in groups
      PROVE  x \in h[n] <=> /\ n > 0 => parent[x] \in h[n - 1] /\ ~List!isCollapsed(parent[x])
                            /\ Found(x)
  BY <1>3, <1>4, <1>5, FoundIs DEF DrawnAt
<1> HIDE DEF L
<1>6. \A n \in 0 .. N : L[n] \subseteq groups
  BY <1>2 DEF Roots, Under
<1>7. ASSUME NEW x \in groups PROVE Open(x) <=> ~List!isCollapsed(x) /\ (parent[x] \in groups => Open(parent[x]))
  <2>1. Top \notin groups
    BY <1>4, TopAssumption
  <2>2. \A a \in groups : x \in List!descendantIds(a) <=> x = a \/ parent[x] \in List!descendantIds(a)
    BY <1>7, AboveIs
  <2>3. \A a \in groups : parent[x] \in List!descendantIds(a) => parent[x] \in groups
    BY DEF List!descendantIds
  <2> QED BY <2>2, <2>3 DEF Open
<1>8. \A n \in Nat : n <= N => \A x \in L[n] : x \in h[n] /\ ~List!isCollapsed(x) <=> Found(x) /\ Open(x)
  <2> DEFINE B == {n \in Nat : n <= N => \A x \in L[n] : x \in h[n] /\ ~List!isCollapsed(x) <=> Found(x) /\ Open(x)}
  <2>1. 0 \in B
    <3> SUFFICES ASSUME NEW x \in L[0] PROVE x \in h[0] /\ ~List!isCollapsed(x) <=> Found(x) /\ Open(x)
      OBVIOUS
    <3>1. 0 \in 0 .. N /\ x \in groups /\ x \in Roots
      BY <1>2, <1>6
    <3>2. parent[x] = Top /\ Top \notin groups
      BY <1>4, <3>1, TopAssumption DEF Roots
    <3>3. x \in h[0] <=> Found(x)
      BY <1>5, <3>1
    <3> QED BY <1>7, <3>1, <3>2, <3>3
  <2>2. ASSUME NEW n \in B PROVE n + 1 \in B
    <3> SUFFICES ASSUME n + 1 <= N, NEW x \in L[n + 1] PROVE x \in h[n + 1] /\ ~List!isCollapsed(x) <=> Found(x) /\ Open(x)
      OBVIOUS
    <3>1. n \in Nat /\ n <= N /\ n + 1 \in 0 .. N /\ n \in 0 .. N /\ n + 1 # 0 /\ (n + 1) - 1 = n /\ n + 1 > 0
      BY <1>2
    <3>2. x \in groups /\ x \in Under(L[n])
      BY <1>2, <1>6, <3>1
    <3>3. parent[x] \in L[n] /\ parent[x] \in groups
      BY <1>4, <1>6, <3>1, <3>2 DEF Under
    <3>4. x \in h[n + 1] <=> parent[x] \in h[n] /\ ~List!isCollapsed(parent[x]) /\ Found(x)
      BY <1>5, <3>1, <3>2
    <3>5. parent[x] \in h[n] /\ ~List!isCollapsed(parent[x]) <=> Found(parent[x]) /\ Open(parent[x])
      BY <3>1, <3>3
    <3>6. Found(x) => Found(parent[x])
      <4>1. parent[x] \in List!descendantIds(parent[x])
        BY <3>3, OnItself
      <4>2. List!descendantIds(x) \subseteq List!descendantIds(parent[x])
        BY <3>2, <3>3, <4>1, AboveIs
      <4> QED BY <4>2 DEF Found
    <3> QED BY <1>7, <3>2, <3>3, <3>4, <3>5, <3>6
  <2> HIDE DEF B
  <2>3. B \in SUBSET Nat
    BY DEF B
  <2>4. B = Nat
    BY <2>1, <2>2, <2>3, AllNumbers
  <2> QED BY <2>4 DEF B
<1>9. ASSUME g \in List!Drawn, ~List!isCollapsed(g) PROVE Found(g) /\ Open(g)
  <2>1. PICK n \in 0 .. N : g \in h[n]
    BY <1>1, <1>9 DEF N
  <2>2. g \in L[n]
    BY <1>3, <2>1 DEF DrawnAt, L
  <2>3. n \in Nat /\ n <= N
    BY <1>2
  <2> QED BY <1>8, <1>9, <2>1, <2>2, <2>3
<1>10. ASSUME Found(g), Open(g) PROVE g \in List!Drawn /\ ~List!isCollapsed(g)
  <2>1. PICK n \in 0 .. N : g \in L[n]
    BY EachIsInTree DEF L, N
  <2>2. n \in Nat /\ n <= N
    BY <1>2
  <2>3. g \in h[n] /\ ~List!isCollapsed(g)
    BY <1>8, <1>10, <2>1, <2>2
  <2> QED BY <1>1, <2>1, <2>3 DEF N
<1> QED BY <1>9, <1>10 DEF Open

\* Each visible host has its one row, unless a section around it is closed.
LEMMA MatchesShow == ASSUME TreeOfGroups, hosts \subseteq Host PROVE List!MatchesAreListed
<1> SUFFICES ASSUME NEW h \in List!visible
             PROVE  Cardinality({row \in List!hostRows : row[2] = h}) =
                      IF ~List!filtering /\ (List!Enclosing(h) \cup (IF List!Enclosing(h) = {} THEN {Top} ELSE {})) \cap collapsed # {}
                      THEN 0 ELSE 1
  BY CountIs DEF List!MatchesAreListed
<1> DEFINE m == member[h]
           R == {row \in List!hostRows : row[2] = h}
           E == List!Enclosing(h)
           closed == ~List!filtering /\ (E \cup (IF E = {} THEN {Top} ELSE {})) \cap collapsed # {}
<1>1. h \in Host /\ m \in groups \cup {Top} /\ Top \notin groups
  BY TopAssumption DEF List!visible, TreeOfGroups, Folders!ReferencesLive, Folders!TypeOK
<1>2. E = {g \in groups : m \in List!descendantIds(g)}
  BY DEF List!Enclosing
<1>3. \A x : List!isCollapsed(x) <=> ~List!filtering /\ x \in collapsed
  BY DEF List!isCollapsed
<1>4. (closed => R = {}) /\ (~closed => R = {<<m, h>>} \/ R = {<<Top, h>>})
  <2>1. CASE m = Top
    <3>1. \A g \in groups : m \notin List!descendantIds(g)
      BY <1>1, <2>1 DEF List!descendantIds
    <3>2. E = {}
      BY <1>2, <3>1
    <3>3. closed <=> List!isCollapsed(Top)
      BY <1>3, <3>2
    <3>4. \A row \in List!hostRows : row[2] = h => row = <<Top, h>> /\ ~List!isCollapsed(Top)
      BY <1>1, <2>1 DEF List!hostRows, List!Drawn
    <3>5. ~List!isCollapsed(Top) => <<Top, h>> \in List!hostRows
      BY <1>1, <2>1 DEF List!hostRows
    <3> HIDE DEF closed
    <3> QED BY <3>3, <3>4, <3>5
  <2>2. CASE m \in groups
    <3>1. m \in E
      BY <1>2, <2>2, OnItself
    <3>2. closed <=> \E a \in groups : m \in List!descendantIds(a) /\ List!isCollapsed(a)
      BY <1>2, <1>3, <3>1
    <3>3. Found(m)
      <4>1. h \in List!hostsOf(m)
        BY DEF List!hostsOf
      <4> QED BY <2>2, <4>1, OnItself DEF Found
    <3>4. m \in List!Drawn /\ ~List!isCollapsed(m) <=> ~closed
      BY <2>2, <3>2, <3>3, OpenRow
    <3>5. <<m, h>> \in List!hostRows <=> m \in List!Drawn /\ ~List!isCollapsed(m)
      BY <1>1, <2>2 DEF List!hostRows
    <3>6. \A row \in List!hostRows : row[2] = h => row = <<m, h>>
      BY <2>2 DEF List!hostRows
    <3> HIDE DEF closed, m
    <3> QED BY <3>4, <3>5, <3>6
  <2> QED BY <1>1, <2>1, <2>2
<1>5. Cardinality(R) = IF closed THEN 0 ELSE 1
  <2>1. Cardinality({}) = 0 /\ Cardinality({<<m, h>>}) = 1 /\ Cardinality({<<Top, h>>}) = 1
    BY FS_EmptySet, FS_Singleton
  <2> HIDE DEF R, closed
  <2> QED BY <1>4, <2>1
<1> QED BY <1>5

-----------------------------------------------------------------------------
(* The window *)

\* Each part of the window takes its steps, and is let alone by those of the others.
LEMMA PartSteps ==
  ASSUME [WindowNext]_all
  PROVE  /\ UNCHANGED part /\ [Next]_vars
         /\ (part = "tabs" /\ Store!Next) \/ (part = "strip" /\ Strip!StripNext) \/ UNCHANGED store
         /\ Sftp!Next \/ UNCHANGED sftp
         /\ Shells!Next \/ UNCHANGED shellTab
         /\ Vnc!VncNext \/ UNCHANGED vncTab
         /\ Rdp!RdpNext \/ UNCHANGED rdpTab
         /\ Upd!Next \/ UNCHANGED upd
         /\ Output!Next \/ UNCHANGED output
         /\ Jobs!Next \/ UNCHANGED jobTab
         /\ Book!BookNext \/ UNCHANGED book
         /\ Drawer!Next \/ UNCHANGED drawer
         /\ Prefs!SettingsNext \/ UNCHANGED prefs
         /\ Panel!PanelNext \/ UNCHANGED panel
<1>1. CASE UNCHANGED all
  <2>1. UNCHANGED <<part, vars, store, sftp, shellTab, vncTab, rdpTab, upd, output, jobTab, book, drawer, prefs, panel>>
    BY <1>1 DEF all
  <2> QED BY <2>1
<1>2. CASE WindowNext
  <2>1. /\ UNCHANGED part
        /\ Keep("terminal", vars) /\ (part \in {"tabs", "strip"} \/ UNCHANGED store)
        /\ Keep("sftp", sftp) /\ Keep("updates", upd) /\ Keep("output", output) /\ Keep("shell", shellTab)
        /\ Keep("automation", jobTab) /\ Keep("book", book) /\ Keep("vnc", vncTab) /\ Keep("rdp", rdpTab)
        /\ Keep("transfers", drawer) /\ Keep("settings", prefs) /\ Keep("tunnels", panel)
    BY <1>2 DEF WindowNext
  <2>2. /\ part = "terminal" => Next
        /\ part = "tabs" => Store!Next
        /\ part = "strip" => Strip!StripNext
        /\ part = "sftp" => Sftp!Next
        /\ part = "updates" => Upd!Next
        /\ part = "output" => Output!Next
        /\ part = "shell" => Shells!Next
        /\ part = "automation" => Jobs!Next
        /\ part = "book" => Book!BookNext
        /\ part = "vnc" => Vnc!VncNext
        /\ part = "rdp" => Rdp!RdpNext
        /\ part = "transfers" => Drawer!Next
        /\ part = "settings" => Prefs!SettingsNext
        /\ part = "tunnels" => Panel!PanelNext
    BY <1>2 DEF WindowNext, TerminalStep, TabsStep, SftpStep, DrawerStep, ListStep, UpdStep, OutputStep, ShellStep,
                JobsStep, PrefsStep, StripStep, BookStep, VncStep, RdpStep, PanelStep, FoldersStep
  <2> QED BY <2>1, <2>2 DEF Keep
<1> QED BY <1>1, <1>2

\* The groups change with the list of hosts or with their dialog.
LEMMA GroupSteps ==
  ASSUME [WindowNext]_all
  PROVE  \/ part = "groups" /\ (Folders!DialogNext \/ UNCHANGED <<groups, parent, member, folders>>)
         \/ part # "groups" /\ UNCHANGED folders /\ (Folders!Next \/ Moves \/ UNCHANGED <<groups, parent, member>>)
<1>1. CASE UNCHANGED all
  <2>1. UNCHANGED <<list, folders>>
    BY <1>1 DEF all
  <2>2. UNCHANGED <<groups, parent, member, folders>>
    BY <2>1 DEF list
  <2> QED BY <2>2
<1>2. CASE WindowNext /\ part = "groups"
  <2>1. FoldersStep
    BY <1>2 DEF WindowNext, TerminalStep, TabsStep, SftpStep, DrawerStep, ListStep, UpdStep, OutputStep, ShellStep,
                JobsStep, PrefsStep, StripStep, BookStep, VncStep, RdpStep, PanelStep
  <2> QED BY <1>2, <2>1 DEF FoldersStep
<1>3. CASE WindowNext /\ part # "groups"
  <2>1. UNCHANGED folders
    BY <1>3 DEF WindowNext, Keep
  <2>2. CASE part = "hosts"
    <3>1. List!ListNext
      BY <1>3, <2>2 DEF WindowNext, TerminalStep, TabsStep, SftpStep, DrawerStep, ListStep, UpdStep, OutputStep, ShellStep,
                        JobsStep, PrefsStep, StripStep, BookStep, VncStep, RdpStep, PanelStep, FoldersStep
    <3>2. List!Next \/ Moves \/ UNCHANGED <<groups, parent, member>>
      <4>1. List!GroupStep => List!Next
        BY DEF List!GroupStep
      <4>2. ASSUME NEW h, NEW g, List!setHostGroup(h, g) PROVE Moves
        BY <4>2 DEF List!setHostGroup, Moves
      <4>3. ASSUME NEW h, List!confirmDelete(h) PROVE Moves
        BY <4>3 DEF List!confirmDelete, Moves
      <4>4. ASSUME NEW key, List!dropOnGroup(key) PROVE Moves
        BY <4>2, <4>4 DEF List!dropOnGroup
      <4>5. ASSUME NEW x, List!dragEnd \/ List!setQuery(x) \/ List!toggleGroup(x) \/ List!dragStart(x) \/ List!onDelete(x)
            PROVE  UNCHANGED <<groups, parent, member>>
        BY <4>5 DEF List!dragEnd, List!setQuery, List!toggleGroup, List!dragStart, List!onDelete, List!vars
      <4> QED BY <3>1, <4>1, <4>3, <4>4, <4>5 DEF List!ListNext
    <3>3. List!Next => Folders!Next
      BY DEF List!Next, Folders!Next, List!createGroup, Folders!createGroup, List!updateGroup, Folders!updateGroup,
             List!deleteGroup, Folders!deleteGroup, List!setHostGroup, Folders!setHostGroup,
             List!wouldCycle, Folders!wouldCycle, List!Ancestors, Folders!Ancestors, List!Closed, Folders!Closed
    <3> QED BY <1>3, <2>1, <3>2, <3>3
  <2>3. CASE part # "hosts"
    <3>1. UNCHANGED list
      BY <1>3, <2>3 DEF WindowNext
    <3>2. UNCHANGED <<groups, parent, member>>
      BY <3>1 DEF list
    <3> QED BY <1>3, <2>1, <3>2
  <2> QED BY <2>2, <2>3
<1> QED BY <1>1, <1>2, <1>3

\* Hosts are deleted, and none made.
LEMMA HostSteps == ASSUME [WindowNext]_all PROVE hosts' \subseteq hosts
<1>1. CASE UNCHANGED all
  <2>1. UNCHANGED list
    BY <1>1 DEF all
  <2> QED BY <2>1 DEF list
<1>2. CASE WindowNext /\ part = "groups"
  <2>1. FoldersStep
    BY <1>2 DEF WindowNext, TerminalStep, TabsStep, SftpStep, DrawerStep, ListStep, UpdStep, OutputStep, ShellStep,
                JobsStep, PrefsStep, StripStep, BookStep, VncStep, RdpStep, PanelStep
  <2> QED BY <2>1 DEF FoldersStep
<1>3. CASE WindowNext /\ part = "hosts"
  <2>1. List!ListNext
    BY <1>3 DEF WindowNext, TerminalStep, TabsStep, SftpStep, DrawerStep, ListStep, UpdStep, OutputStep, ShellStep,
                JobsStep, PrefsStep, StripStep, BookStep, VncStep, RdpStep, PanelStep, FoldersStep
  <2>2. ASSUME NEW h, List!confirmDelete(h) PROVE hosts' \subseteq hosts
    BY <2>2 DEF List!confirmDelete
  <2>3. ASSUME NEW x, \/ List!GroupStep \/ List!dragEnd \/ List!setQuery(x) \/ List!toggleGroup(x) \/ List!dropOnGroup(x)
                      \/ List!dragStart(x) \/ List!onDelete(x)
        PROVE  UNCHANGED hosts
    BY <2>3 DEF List!GroupStep, List!dragEnd, List!setQuery, List!toggleGroup, List!dropOnGroup, List!dragStart, List!onDelete
  <2> QED BY <2>1, <2>2, <2>3 DEF List!ListNext
<1>4. CASE WindowNext /\ part \notin {"hosts", "groups"}
  <2>1. UNCHANGED list
    BY <1>4 DEF WindowNext
  <2> QED BY <2>1 DEF list
<1> QED BY <1>1, <1>2, <1>3, <1>4

\* The parts that hold whatever the user is quick to do, and those of who lets an attempt end.
PartsInv == ShellInv /\ VncInv /\ RdpInv /\ UpdInv /\ OutInv /\ JobsInv /\ BookInv /\ FoldersInv
PatientInv == SshTabInv /\ SftpInv

LEMMA PartsStart == WindowInit => TabsInv /\ PartsInv /\ PatientInv
<1> SUFFICES ASSUME WindowInit PROVE TabsInv /\ PartsInv /\ PatientInv
  OBVIOUS
<1>1. Init /\ Store!Init /\ Sftp!Init /\ Upd!Init /\ Output!Init /\ Shells!Init /\ Jobs!Init /\ Book!BookInit
      /\ Vnc!VncInit /\ Rdp!RdpInit /\ Folders!DialogInit
  BY DEF WindowInit
<1>2. TabsInv
  BY <1>1, InitTabs
<1>3. SshTabInv
  BY <1>1, InitSshTab
<1>4. SftpInv
  BY <1>1, InitSftp
<1>5. ShellInv /\ VncInv /\ RdpInv
  BY <1>1, InitShell, InitVnc, InitRdp
<1>6. UpdInv /\ OutInv /\ JobsInv /\ BookInv /\ FoldersInv
  BY <1>1, InitUpd, InitOut, InitJobs, InitBook, InitFolders
<1> QED BY <1>2, <1>3, <1>4, <1>5, <1>6 DEF PartsInv, PatientInv

\* What each list has, or is on its way to it
ListsInv ==
  /\ UpdMore /\ DrawerInv /\ PrefsInv /\ BookLists /\ JobLists /\ PanelInv /\ hosts \subseteq Host

LEMMA ListsStart == WindowInit => ListsInv
<1> SUFFICES ASSUME WindowInit PROVE ListsInv
  OBVIOUS
<1>1. Upd!Init /\ Drawer!Init /\ Prefs!SettingsInit /\ Book!BookInit /\ Jobs!Init /\ Panel!PanelInit /\ List!ListInit
  BY DEF WindowInit
<1>2. UpdMore /\ DrawerInv /\ PrefsInv
  BY <1>1, InitUpdMore, InitDrawer, InitPrefs
<1>3. BookLists /\ JobLists /\ PanelInv
  BY <1>1, InitBookLists, InitJobLists, InitPanel
<1>4. hosts \subseteq Host
  BY <1>1 DEF List!ListInit
<1> QED BY <1>2, <1>3, <1>4 DEF ListsInv

LEMMA ListsStay == ASSUME PartsInv, PartsInv', ListsInv, [WindowNext]_all PROVE ListsInv'
<1>1. /\ Upd!Next \/ UNCHANGED upd
      /\ Drawer!Next \/ UNCHANGED drawer
      /\ Prefs!SettingsNext \/ UNCHANGED prefs
      /\ Book!BookNext \/ UNCHANGED book
      /\ Jobs!Next \/ UNCHANGED jobTab
      /\ Panel!PanelNext \/ UNCHANGED panel
  BY PartSteps
<1>2. BookInv /\ BookInv' /\ JobsInv /\ JobsInv'
  BY DEF PartsInv
<1>3. UpdMore'
  BY <1>1, NextUpdMore DEF ListsInv
<1>4. DrawerInv'
  BY <1>1, NextDrawer DEF ListsInv
<1>5. PrefsInv'
  BY <1>1, NextPrefs DEF ListsInv
<1>6. BookLists'
  BY <1>1, <1>2, NextBookLists DEF ListsInv
<1>7. JobLists'
  BY <1>1, <1>2, NextJobLists DEF ListsInv
<1>8. PanelInv'
  BY <1>1, NextPanel DEF ListsInv
<1>9. hosts' \subseteq Host
  BY HostSteps DEF ListsInv
<1> QED BY <1>3, <1>4, <1>5, <1>6, <1>7, <1>8, <1>9 DEF ListsInv

LEMMA StripStays == TabsInv /\ [WindowNext]_all => TabsInv'
BY PartSteps, NextTabs

LEMMA PartsStay == PartsInv /\ [WindowNext]_all => PartsInv'
<1> SUFFICES ASSUME PartsInv, [WindowNext]_all PROVE PartsInv'
  OBVIOUS
<1>1. ShellInv'
  BY PartSteps, NextShell DEF PartsInv
<1>2. VncInv'
  BY PartSteps, NextVnc DEF PartsInv
<1>3. RdpInv'
  BY PartSteps, NextRdp DEF PartsInv
<1>4. UpdInv'
  BY PartSteps, NextUpd DEF PartsInv
<1>5. OutInv'
  BY PartSteps, NextOut DEF PartsInv
<1>6. JobsInv'
  BY PartSteps, NextJobs DEF PartsInv
<1>7. BookInv'
  BY PartSteps, NextBook DEF PartsInv
<1>8. FoldersInv'
  <2>1. UNCHANGED part
    BY PartSteps
  <2> QED BY <2>1, GroupSteps, NextFolders DEF PartsInv
<1> QED BY <1>1, <1>2, <1>3, <1>4, <1>5, <1>6, <1>7, <1>8 DEF PartsInv

LEMMA PatientStay == ASSUME ~Hasty PROVE PatientInv /\ [WindowNext]_all => PatientInv'
<1> SUFFICES ASSUME PatientInv, [WindowNext]_all PROVE PatientInv'
  OBVIOUS
<1>1. SshTabInv'
  BY PartSteps, NextSshTab DEF PatientInv
<1>2. SftpInv'
  BY PartSteps, NextSftp DEF PatientInv
<1> QED BY <1>1, <1>2 DEF PatientInv

\* However tabs are opened, pinned, reopened, moved, split, swapped and closed: no tab is twice in
\* the strip, both panes show open tabs and, split, two of them (useTabsStore).
THEOREM WindowPanesAreRight == WindowSpec => []PanesAreRight
<1>1. WindowInit => TabsInv
  BY PartsStart
<1>2. TabsInv /\ [WindowNext]_all => TabsInv'
  BY StripStays
<1>3. TabsInv => PanesAreRight
  BY PanesShow
<1> QED BY <1>1, <1>2, <1>3, PTL DEF WindowSpec

\* Of the shell, VNC and RDP tabs: no order of effects, answers, reconnects and closings leaves a
\* shell or a desktop that nobody holds; a tab shows connected of one that is up, and does not
\* show connecting for ever; the command of a saved host is typed once.
THEOREM DesktopsAndShellsAreHeld ==
  WindowSpec => [](/\ Shells!ShellsAreHeld /\ Shells!ConnectedHasShell /\ Shells!CommandTypedOnce
                   /\ Vnc!RfbIsHeld /\ Vnc!NeverSpins /\ Vnc!ConnectedIsUp
                   /\ Rdp!RdpIsHeld /\ Rdp!RdpShowsItsSession)
<1> DEFINE P == /\ Shells!ShellsAreHeld /\ Shells!ConnectedHasShell /\ Shells!CommandTypedOnce
                /\ Vnc!RfbIsHeld /\ Vnc!NeverSpins /\ Vnc!ConnectedIsUp
                /\ Rdp!RdpIsHeld /\ Rdp!RdpShowsItsSession
<1>1. WindowInit => PartsInv
  BY PartsStart
<1>2. PartsInv /\ [WindowNext]_all => PartsInv'
  BY PartsStay
<1>3. PartsInv => P
  BY DEF PartsInv, ShellInv, ShellHook, Command, VncInv, RdpInv
<1>4. WindowSpec => []P
  <2> HIDE DEF P
  <2> QED BY <1>1, <1>2, <1>3, PTL DEF WindowSpec
<1> QED BY <1>4

\* A session that a terminal, an SFTP or a shell tab has asked for is held by it or on its way to be
\* held or closed, and a desktop is the one its tab holds: of a user who reconnects once the
\* attempt before has been answered (useSshSession, useSftpSession, useLocalSession, VncTab, RdpTab).
THEOREM WindowSessionsAreHeld == ASSUME ~Hasty PROVE WindowSpec => []TabSessionsAreHeld
<1>1. WindowInit => PartsInv /\ PatientInv
  BY PartsStart
<1>2. PartsInv /\ PatientInv /\ [WindowNext]_all => PartsInv' /\ PatientInv'
  BY PartsStay, PatientStay
<1>3. PartsInv /\ PatientInv => TabSessionsAreHeld
  BY SshTabShows, SftpShows DEF PartsInv, PatientInv, ShellInv, VncInv, RdpInv, TabSessionsAreHeld
<1> QED BY <1>1, <1>2, <1>3, PTL DEF WindowSpec

\* Of the same user: what a tab shows as open is what it holds, an action of the SFTP browser is on
\* the row it was asked for and the browser shows the directory it names, a terminal shows each
\* chunk of its session once (TerminalPane), and a form is disabled for a call that is answered
\* (AutomationTab, PromptsDialog, RoutinesDialog, GroupsDialog).
THEOREM WindowShowsWhatItHolds == ASSUME ~Hasty PROVE WindowSpec => []TabsShowWhatTheyHold
<1>1. WindowInit => PartsInv /\ PatientInv
  BY PartsStart
<1>2. PartsInv /\ PatientInv /\ [WindowNext]_all => PartsInv' /\ PatientInv'
  BY PartsStay, PatientStay
<1>3. PartsInv /\ PatientInv => TabsShowWhatTheyHold
  <2> SUFFICES ASSUME PartsInv, PatientInv PROVE TabsShowWhatTheyHold
    OBVIOUS
  <2>1. ShownIsOpen /\ Sftp!ActsOnItsRow /\ Sftp!ShowsItsPath
    BY SshTabShows, SftpShows DEF PatientInv
  <2>2. Output!EachByteOnce /\ Jobs!BusyIsAnswered
    BY OutputIsShown, JobsShow DEF PartsInv
  <2>3. Book!BusyFormIsAnswered /\ Folders!FreshIsAccepted
    BY BookShows, FoldersShow DEF PartsInv
  <2>4. Shells!ConnectedHasShell /\ Vnc!NeverSpins /\ Vnc!ConnectedIsUp /\ Rdp!RdpShowsItsSession
    BY DEF PartsInv, ShellInv, ShellHook, VncInv, RdpInv
  <2> QED BY <2>1, <2>2, <2>3, <2>4 DEF TabsShowWhatTheyHold
<1> QED BY <1>1, <1>2, <1>3, PTL DEF WindowSpec

\* Of the same user: no reconnect is planned for a tab whose connection nobody wants, no command is
\* typed twice, no result is shown and no update left that nobody asked for; a saved job is what
\* was last saved, and a routine that is due runs with its prompt as it is saved.
THEOREM WindowDoesNothingUnasked == ASSUME ~Hasty PROVE WindowSpec => []NothingUnasked
<1>1. WindowInit => PartsInv /\ PatientInv
  BY PartsStart
<1>2. PartsInv /\ PatientInv /\ [WindowNext]_all => PartsInv' /\ PatientInv'
  BY PartsStay, PatientStay
<1>3. PartsInv /\ PatientInv => NothingUnasked
  <2> SUFFICES ASSUME PartsInv, PatientInv PROVE NothingUnasked
    OBVIOUS
  <2>1. RetryIsWanted
    BY SshTabShows DEF PatientInv
  <2>2. Shells!CommandTypedOnce /\ Upd!NoDialogUnasked /\ Upd!StagedWasAsked
    BY DEF PartsInv, ShellInv, Command, UpdInv
  <2>3. Jobs!JobsAreAsSaved /\ Book!DueRunsTheSavedPrompt
    BY JobsShow, BookShows DEF PartsInv
  <2> QED BY <2>1, <2>2, <2>3 DEF NothingUnasked
<1> QED BY <1>1, <1>2, <1>3, PTL DEF WindowSpec

\* However main's answers and events cross the user's calls: with nothing on its way the drawer has
\* every transfer, the banner the update, the automation tab every job and the panels every
\* prompt, routine, tunnel and group as main has them; a restart keeps the settings, and the window
\* has them; and whatever groups are nested, collapsed and searched, the list of hosts has each match
\* in one row (useTransfersStore, HostList, updater, AutomationTab, settings, the dialogs).
THEOREM WindowListsShowMain == WindowSpec => []ListsShowMain
<1> DEFINE I == PartsInv /\ ListsInv
<1>1. WindowInit => I
  BY PartsStart, ListsStart
<1>2. I /\ [WindowNext]_all => I'
  <2> SUFFICES ASSUME PartsInv, ListsInv, [WindowNext]_all PROVE I'
    OBVIOUS
  <2>1. PartsInv'
    BY PartsStay
  <2> QED BY <2>1, ListsStay
<1>3. I => ListsShowMain
  <2> SUFFICES ASSUME PartsInv, ListsInv PROVE ListsShowMain
    OBVIOUS
  <2>1. Drawer!DrawerIsMain /\ Upd!WindowMirrors
    BY DrawerShows, UpdShows DEF ListsInv
  <2>2. TreeOfGroups
    BY DEF PartsInv, FoldersInv, FolderInv, NoDialog
  <2>3. List!MatchesAreListed
    BY <2>2, MatchesShow DEF ListsInv
  <2>4. Jobs!QuietTabIsVault
    BY JobListsShow DEF ListsInv
  <2>5. Prefs!WindowHasSettings /\ Prefs!RestartKeepsSettings
    BY PrefsShow DEF ListsInv
  <2>6. Book!QuietBookIsMain
    BY BookListsShow DEF ListsInv, PartsInv
  <2>7. Panel!QuietPanelIsMain
    BY PanelShows DEF ListsInv
  <2>8. part = "groups" => Folders!QuietGroupsAreMain
    BY FoldersShow DEF PartsInv
  <2> QED BY <2>1, <2>3, <2>4, <2>5, <2>6, <2>7, <2>8 DEF ListsShowMain
<1>4. WindowSpec => []ListsShowMain
  <2> HIDE DEF I
  <2> QED BY <1>1, <1>2, <1>3, PTL DEF WindowSpec
<1> QED BY <1>4
====
