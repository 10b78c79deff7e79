-------------------------- MODULE EventGatesProofs --------------------------
(***************************************************************************)
(* The safety of the gates of gate.go for any number of goroutines, events *)
(* and gate objects, and that they implement one FIFO line per event.      *)
(***************************************************************************)
EXTENDS EventGates, FiniteSetTheorems, TLAPS

\* A goroutine on its way holds the gate that the map has for its key.
HeldInv ==
  \A p \in Procs :
    IF at[p] = "out" THEN gt[p] = Nil /\ key[p] = Nil
                     ELSE key[p] \in Keys /\ gt[p] \in Gates /\ m[key[p]] = gt[p]

\* Two keys never share a gate.
OneKey == \A k, l \in Keys : m[k] # Nil /\ m[k] = m[l] => k = l

\* Reference counts are exact, and nobody's gate is unlinked.
Counts ==
  \A k \in Keys : m[k] # Nil =>
    refs[m[k]] = Cardinality(Pointing(m[k])) /\ Pointing(m[k]) # {}

\* A slot is taken by exactly one goroutine inside.
Owners ==
  /\ \A p \in Procs : at[p] = "inside" => slot[gt[p]]
  /\ \A p, q \in Procs : at[p] = "inside" /\ at[q] = "inside" /\ gt[p] = gt[q] => p = q
  /\ \A g \in Gates : slot[g] => \E p \in Procs : at[p] = "inside" /\ gt[p] = g

\* The queue of a gate holds goroutines that are blocked on it, each once, and
\* only while the slot is taken.
Queues ==
  \A g \in Gates :
    /\ \A i \in 1..Len(queue[g]) : at[queue[g][i]] = "blocked" /\ gt[queue[g][i]] = g
    /\ \A i, j \in 1..Len(queue[g]) : queue[g][i] = queue[g][j] => i = j
    /\ queue[g] # <<>> => slot[g]

GatesInv == GatesTypeOK /\ HeldInv /\ OneKey /\ Counts /\ Owners /\ Queues

-----------------------------------------------------------------------------
(***************************************************************************)
(* Lists.  SequenceTheorems has some of these facts too: stated here, they *)
(* keep small the context that every obligation carries.                   *)
(***************************************************************************)
\* The empty list, and the length of any other.
LEMMA ListEmpty ==
  ASSUME NEW S
  PROVE  /\ <<>> \in Seq(S) /\ Len(<<>>) = 0
         /\ \A s \in Seq(S) : s # <<>> => Len(s) \in Nat \ {0}
  OBVIOUS

\* The length and the domain of a list.
LEMMA ListLen ==
  ASSUME NEW S, NEW s \in Seq(S)
  PROVE  Len(s) \in Nat /\ s \in [1..Len(s) -> S] /\ DOMAIN s = 1..Len(s)
  OBVIOUS

\* The elements of a list.
LEMMA ListElement ==
  ASSUME NEW S, NEW s \in Seq(S), NEW i \in 1..Len(s)
  PROVE  s[i] \in S
  OBVIOUS

\* A part of a list.
LEMMA ListPart ==
  ASSUME NEW S, NEW s, NEW a \in Int, NEW b \in Int, \A i \in a..b : s[i] \in S
  PROVE  /\ SubSeq(s, a, b) \in Seq(S)
         /\ Len(SubSeq(s, a, b)) = IF a <= b THEN b - a + 1 ELSE 0
         /\ \A i \in 1..(b - a + 1) : SubSeq(s, a, b)[i] = s[a + i - 1]
  OBVIOUS

\* A list with one more element.
LEMMA ListAppend ==
  ASSUME NEW S, NEW s \in Seq(S), NEW x \in S
  PROVE  /\ Append(s, x) \in Seq(S)
         /\ Len(Append(s, x)) = Len(s) + 1
         /\ \A i \in 1..Len(s) : Append(s, x)[i] = s[i]
         /\ Append(s, x)[Len(s) + 1] = x
  OBVIOUS

\* The elements of two lists in a row.
LEMMA ListJoin ==
  ASSUME NEW S, NEW s \in Seq(S), NEW t \in Seq(S)
  PROVE  /\ s \o t \in Seq(S) /\ Len(s \o t) = Len(s) + Len(t)
         /\ \A j \in 1..Len(s) : (s \o t)[j] = s[j]
         /\ \A j \in (Len(s) + 1)..(Len(s) + Len(t)) : (s \o t)[j] = t[j - Len(s)]
  OBVIOUS

\* A list without its i-th element.
LEMMA ListRemove ==
  ASSUME NEW S, NEW s \in Seq(S), NEW i \in 1..Len(s)
  PROVE  /\ Without(s, i) \in Seq(S)
         /\ Len(Without(s, i)) = Len(s) - 1
         /\ \A j \in 1..(Len(s) - 1) : Without(s, i)[j] = IF j < i THEN s[j] ELSE s[j + 1]
<1> DEFINE a == SubSeq(s, 1, i - 1)
           b == SubSeq(s, i + 1, Len(s))
<1>1. /\ a \in Seq(S) /\ Len(a) = i - 1
      /\ \A j \in 1..(i - 1) : a[j] = s[j]
  <2>1. \A j \in 1..(i - 1) : s[j] \in S
    OBVIOUS
  <2> QED
    BY <2>1, ListPart, i - 1 \in Int, 1 \in Int
<1>2. /\ b \in Seq(S) /\ Len(b) = Len(s) - i
      /\ \A j \in 1..(Len(s) - i) : b[j] = s[i + j]
  <2>1. \A j \in (i + 1)..Len(s) : s[j] \in S
    OBVIOUS
  <2> QED
    BY <2>1, ListPart
<1>3. Without(s, i) = a \o b
  BY DEF Without
<1> HIDE DEF a, b
<1>4. /\ a \o b \in Seq(S) /\ Len(a \o b) = Len(s) - 1
      /\ \A j \in 1..(i - 1) : (a \o b)[j] = a[j]
      /\ \A j \in i..(Len(s) - 1) : (a \o b)[j] = b[j - i + 1]
  <2>1. (i - 1) + (Len(s) - i) = Len(s) - 1
    OBVIOUS
  <2>2. \A j \in i..(Len(s) - 1) : j - (i - 1) = j - i + 1 /\ j \in ((i - 1) + 1)..(Len(s) - 1)
    OBVIOUS
  <2>3. /\ a \o b \in Seq(S) /\ Len(a \o b) = Len(a) + Len(b)
        /\ \A j \in 1..Len(a) : (a \o b)[j] = a[j]
        /\ \A j \in (Len(a) + 1)..(Len(a) + Len(b)) : (a \o b)[j] = b[j - Len(a)]
    BY <1>1, <1>2, ListJoin, ZenonT(60)
  <2> QED
    BY <1>1, <1>2, <2>1, <2>2, <2>3, SMTT(30)
<1>5. \A j \in i..(Len(s) - 1) : b[j - i + 1] = s[j + 1]
  <2> TAKE j \in i..(Len(s) - 1)
  <2>1. j - i + 1 \in 1..(Len(s) - i) /\ i + (j - i + 1) = j + 1
    OBVIOUS
  <2> QED
    BY <1>2, <2>1
<1> QED
  BY <1>1, <1>3, <1>4, <1>5

\* A list without its first element.
LEMMA ListTail ==
  ASSUME NEW S, NEW s \in Seq(S), s # <<>>
  PROVE  /\ Head(s) = s[1] /\ Head(s) \in S
         /\ Tail(s) \in Seq(S) /\ Len(Tail(s)) = Len(s) - 1
         /\ \A j \in 1..(Len(s) - 1) : Tail(s)[j] = s[j + 1]
  OBVIOUS

\* The goroutines that hold a gate are finitely many.
LEMMA PointingFinite ==
  ASSUME NEW g
  PROVE  IsFiniteSet(Pointing(g)) /\ IsFiniteSet(Pointing(g))'
  BY GateAssumption, FS_Subset DEF Pointing

-----------------------------------------------------------------------------
\* Nobody holds a gate before the first request.
LEMMA GatesInit == InitGates => GatesInv
<1> SUFFICES ASSUME InitGates PROVE GatesInv
  OBVIOUS
<1>1. GatesTypeOK
  BY ListEmpty DEF InitGates, GatesTypeOK, Stages
<1>2. HeldInv /\ OneKey /\ Counts /\ Owners
  BY DEF InitGates, HeldInv, OneKey, Counts, Owners
<1>3. Queues
  BY ListEmpty DEF InitGates, Queues
<1> QED
  BY <1>1, <1>2, <1>3 DEF GatesInv

-----------------------------------------------------------------------------
\* A goroutine that finds the gate of its event counts one more reference.
LEMMA EnterFound ==
  ASSUME GatesInv, NEW p \in Procs, NEW k \in Keys, Enter(p, k), m[k] # Nil
  PROVE  GatesInv'
<1> DEFINE g == m[k]
<1>1. /\ g \in Gates /\ at[p] = "out" /\ gt[p] = Nil
      /\ m' = m /\ slot' = slot /\ queue' = queue
      /\ refs' = [refs EXCEPT ![g] = @ + 1]
      /\ gt' = [gt EXCEPT ![p] = g]
      /\ key' = [key EXCEPT ![p] = k]
      /\ at' = [at EXCEPT ![p] = "select"]
  BY DEF Enter, Counted, GatesInv, GatesTypeOK, HeldInv
<1>2. GatesTypeOK /\ Nil \notin Gates
  BY GateAssumption DEF GatesInv
<1> HIDE DEF g
<1>3. GatesTypeOK'
  BY <1>1, <1>2 DEF GatesTypeOK, Stages
<1>4. HeldInv'
  <2>1. m'[k] = g
    BY <1>1 DEF g
  <2> QED
    BY <1>1, <1>2, <2>1 DEF HeldInv, GatesInv, GatesTypeOK
<1>5. OneKey'
  BY <1>1 DEF OneKey, GatesInv
<1>6. Counts'
  <2> SUFFICES ASSUME NEW l \in Keys, m[l] # Nil
               PROVE  refs'[m[l]] = Cardinality(Pointing(m[l])') /\ Pointing(m[l])' # {}
    BY <1>1 DEF Counts, Pointing
  <2>1. m[l] \in Gates /\ refs[m[l]] = Cardinality(Pointing(m[l])) /\ Pointing(m[l]) # {}
    BY <1>2 DEF GatesInv, GatesTypeOK, Counts
  <2>2. CASE m[l] = g
    <3>1. Pointing(m[l])' = Pointing(m[l]) \cup {p} /\ p \notin Pointing(m[l])
      BY <1>1, <1>2, <2>2, <2>1 DEF Pointing, GatesTypeOK
    <3>2. Cardinality(Pointing(m[l]) \cup {p}) = Cardinality(Pointing(m[l])) + 1
      BY <3>1, PointingFinite, FS_AddElement, Zenon
    <3>3. refs'[m[l]] = refs[m[l]] + 1
      BY <1>1, <1>2, <2>1, <2>2 DEF GatesTypeOK
    <3> QED
      BY <2>1, <3>1, <3>2, <3>3
  <2>3. CASE m[l] # g
    <3>1. Pointing(m[l])' = Pointing(m[l])
      BY <1>1, <1>2, <2>3, <2>1 DEF Pointing, GatesTypeOK
    <3>2. refs'[m[l]] = refs[m[l]]
      BY <1>1, <1>2, <2>1, <2>3 DEF GatesTypeOK
    <3> QED
      BY <2>1, <3>1, <3>2
  <2> QED
    BY <2>2, <2>3
<1>7. Owners'
  <2>1. Owners
    BY DEF GatesInv
  <2>2. \A q \in Procs : at'[q] = "inside" => at[q] = "inside" /\ gt'[q] = gt[q] /\ q # p
    BY <1>1, <1>2 DEF GatesTypeOK
  <2>3. \A q \in Procs : at[q] = "inside" => at'[q] = "inside" /\ gt'[q] = gt[q]
    BY <1>1, <1>2 DEF GatesTypeOK
  <2> QED
    BY <1>1, <2>1, <2>2, <2>3 DEF Owners
<1>8. Queues'
  <2>1. \A q \in Procs : at[q] = "blocked" => at'[q] = "blocked" /\ gt'[q] = gt[q]
    BY <1>1, <1>2 DEF GatesTypeOK
  <2>2. \A h \in Gates : \A i \in 1..Len(queue[h]) : queue[h][i] \in Procs
    BY <1>2, ListElement DEF GatesTypeOK
  <2> QED
    BY <1>1, <2>1, <2>2 DEF Queues, GatesInv
<1> QED
  BY <1>3, <1>4, <1>5, <1>6, <1>7, <1>8 DEF GatesInv

\* A goroutine that finds none makes a new gate, which nobody else holds.
LEMMA EnterNew ==
  ASSUME GatesInv, NEW p \in Procs, NEW k \in Keys, Enter(p, k), m[k] = Nil
  PROVE  GatesInv'
<1>1. PICK g \in Fresh :
      /\ m' = [m EXCEPT ![k] = g]
      /\ refs' = [refs EXCEPT ![g] = 1]
      /\ slot' = [slot EXCEPT ![g] = FALSE]
      /\ queue' = [queue EXCEPT ![g] = <<>>]
      /\ gt' = [gt EXCEPT ![p] = g]
  BY DEF Enter
<1>2. /\ g \in Gates
      /\ \A l \in Keys : m[l] # g
      /\ \A q \in Procs : gt[q] # g
  BY DEF Fresh
<1>3. /\ at[p] = "out" /\ gt[p] = Nil
      /\ key' = [key EXCEPT ![p] = k]
      /\ at' = [at EXCEPT ![p] = "select"]
  BY DEF Enter, GatesInv, HeldInv
<1>4. GatesTypeOK /\ Nil \notin Gates
  BY GateAssumption DEF GatesInv
<1>5. GatesTypeOK'
  BY <1>1, <1>2, <1>3, <1>4, ListEmpty DEF GatesTypeOK, Stages
<1>6. HeldInv'
  <2> SUFFICES ASSUME NEW q \in Procs
               PROVE  IF at'[q] = "out" THEN gt'[q] = Nil /\ key'[q] = Nil
                      ELSE key'[q] \in Keys /\ gt'[q] \in Gates /\ m'[key'[q]] = gt'[q]
    BY DEF HeldInv
  <2>1. CASE q = p
    BY <1>1, <1>2, <1>3, <1>4, <2>1 DEF GatesTypeOK
  <2>2. CASE q # p
    <3>1. at'[q] = at[q] /\ key'[q] = key[q] /\ gt'[q] = gt[q]
      BY <1>1, <1>3, <1>4, <2>2 DEF GatesTypeOK
    <3>2. at[q] # "out" => key[q] # k
      BY <1>4 DEF GatesInv, HeldInv
    <3>3. at[q] # "out" => m'[key[q]] = m[key[q]]
      BY <1>1, <1>4, <3>2 DEF GatesTypeOK, GatesInv, HeldInv
    <3> QED
      BY <3>1, <3>3 DEF GatesInv, HeldInv
  <2> QED
    BY <2>1, <2>2
<1>7. OneKey'
  BY <1>1, <1>2, <1>4 DEF OneKey, GatesInv, GatesTypeOK
<1>8. Counts'
  <2> SUFFICES ASSUME NEW l \in Keys, m'[l] # Nil
               PROVE  /\ refs'[m'[l]] = Cardinality({q \in Procs : gt'[q] = m'[l]})
                      /\ {q \in Procs : gt'[q] = m'[l]} # {}
    BY DEF Counts, Pointing
  <2>1. CASE l = k
    <3>1. m'[l] = g /\ refs'[g] = 1
      BY <1>1, <1>2, <1>4, <2>1 DEF GatesTypeOK
    <3>2. {q \in Procs : gt'[q] = g} = {p}
      BY <1>1, <1>2, <1>4 DEF GatesTypeOK
    <3>3. Cardinality({p}) = 1
      BY FS_Singleton
    <3> QED
      BY <3>1, <3>2, <3>3
  <2>2. CASE l # k
    <3>1. m'[l] = m[l] /\ m[l] \in Gates /\ m[l] # g
      BY <1>1, <1>2, <1>4, <2>2 DEF GatesTypeOK
    <3>2. refs'[m[l]] = refs[m[l]]
      BY <1>1, <1>4, <3>1 DEF GatesTypeOK
    <3>3. {q \in Procs : gt'[q] = m[l]} = {q \in Procs : gt[q] = m[l]}
      BY <1>1, <1>3, <1>4, <3>1 DEF GatesTypeOK
    <3>4. /\ refs[m[l]] = Cardinality({q \in Procs : gt[q] = m[l]})
          /\ {q \in Procs : gt[q] = m[l]} # {}
      BY <3>1, <1>4 DEF Pointing, GatesInv, Counts
    <3> QED
      BY <3>1, <3>2, <3>3, <3>4
  <2> QED
    BY <2>1, <2>2
<1>9. Owners'
  <2>1. Owners
    BY DEF GatesInv
  <2>2. \A q \in Procs : at'[q] = "inside" <=> at[q] = "inside"
    BY <1>3, <1>4 DEF GatesTypeOK
  <2>3. \A q \in Procs : at[q] = "inside" => gt'[q] = gt[q] /\ gt[q] \in Gates /\ gt[q] # g
    BY <1>1, <1>2, <1>3, <1>4 DEF GatesTypeOK, GatesInv, HeldInv
  <2>4. \A h \in Gates : slot'[h] <=> slot[h] /\ h # g
    BY <1>1, <1>2, <1>4 DEF GatesTypeOK
  <2> QED
    BY <2>1, <2>2, <2>3, <2>4 DEF Owners
<1>10. Queues'
  <2>1. \A q \in Procs : at[q] = "blocked" => at'[q] = "blocked" /\ gt'[q] = gt[q]
    BY <1>1, <1>3, <1>4 DEF GatesTypeOK
  <2>2. \A h \in Gates : \A i \in 1..Len(queue[h]) : queue[h][i] \in Procs
    BY <1>4, ListElement DEF GatesTypeOK
  <2>3. \A h \in Gates : h # g => queue'[h] = queue[h] /\ slot'[h] = slot[h]
    BY <1>1, <1>4 DEF GatesTypeOK
  <2>4. queue'[g] = <<>> /\ Len(queue'[g]) = 0
    BY <1>1, <1>2, <1>4, ListEmpty DEF GatesTypeOK
  <2> SUFFICES ASSUME NEW h \in Gates
               PROVE  /\ \A i \in 1..Len(queue'[h]) : at'[queue'[h][i]] = "blocked" /\ gt'[queue'[h][i]] = h
                      /\ \A i, j \in 1..Len(queue'[h]) : queue'[h][i] = queue'[h][j] => i = j
                      /\ queue'[h] # <<>> => slot'[h]
    BY DEF Queues
  <2>5. CASE h = g
    BY <2>4, <2>5
  <2>6. CASE h # g
    BY <2>1, <2>2, <2>3, <2>6 DEF Queues, GatesInv
  <2> QED
    BY <2>5, <2>6
<1> QED
  BY <1>5, <1>6, <1>7, <1>8, <1>9, <1>10 DEF GatesInv

\* A step that leaves the gate pointers, the map and the counts alone.
LEMMA SameHolders ==
  ASSUME GatesInv, m' = m, refs' = refs, key' = key, gt' = gt,
         \A q \in Procs : at'[q] = "out" <=> at[q] = "out"
  PROVE  HeldInv' /\ OneKey' /\ Counts'
<1>1. HeldInv'
  BY DEF GatesInv, HeldInv
<1>2. OneKey'
  BY DEF GatesInv, OneKey
<1>3. Counts'
  BY DEF GatesInv, Counts, Pointing
<1> QED
  BY <1>1, <1>2, <1>3

\* The members of the queues are goroutines.
LEMMA QueueMembers ==
  ASSUME GatesInv
  PROVE  \A g \in Gates : \A i \in 1..Len(queue[g]) : queue[g][i] \in Procs
  BY ListElement DEF GatesInv, GatesTypeOK

\* A send goes into the free slot, or to the end of the queue.
LEMMA SendKeeps ==
  ASSUME GatesInv, NEW p \in Procs, Send(p)
  PROVE  GatesInv'
<1> DEFINE g == gt[p]
<1>1. /\ at[p] = "select" /\ g \in Gates
      /\ m' = m /\ refs' = refs /\ key' = key /\ gt' = gt
  BY DEF Send, GatesInv, HeldInv
<1>2. \/ /\ ~slot[g] /\ queue' = queue
         /\ slot' = [slot EXCEPT ![g] = TRUE]
         /\ at' = [at EXCEPT ![p] = "inside"]
      \/ /\ slot[g] /\ slot' = slot
         /\ queue' = [queue EXCEPT ![g] = Append(@, p)]
         /\ at' = [at EXCEPT ![p] = "blocked"]
  BY DEF Send, Block
<1> HIDE DEF g
<1>3. GatesTypeOK /\ Owners /\ Queues
  BY DEF GatesInv
<1>4. GatesTypeOK'
  <2>1. queue[g] \in Seq(Procs)
    BY <1>1, <1>3 DEF GatesTypeOK
  <2>2. Append(queue[g], p) \in Seq(Procs)
    BY <2>1, ListAppend
  <2>3. queue' \in [Gates -> Seq(Procs)]
    BY <1>2, <1>3, <2>2, Zenon DEF GatesTypeOK
  <2>4. at' \in [Procs -> Stages] /\ slot' \in [Gates -> BOOLEAN]
    BY <1>2, <1>3, Zenon DEF GatesTypeOK, Stages
  <2> QED
    BY <1>1, <1>3, <2>3, <2>4 DEF GatesTypeOK
<1>5. HeldInv' /\ OneKey' /\ Counts'
  <2>1. \A q \in Procs : at'[q] = "out" <=> at[q] = "out"
    BY <1>1, <1>2, <1>3 DEF GatesTypeOK
  <2> QED
    BY <1>1, <2>1, SameHolders
<1>6. CASE /\ ~slot[g] /\ queue' = queue
           /\ slot' = [slot EXCEPT ![g] = TRUE]
           /\ at' = [at EXCEPT ![p] = "inside"]
  <2>1. \A q \in Procs : q # p => at'[q] = at[q]
    BY <1>3, <1>6 DEF GatesTypeOK
  <2>2. at'[p] = "inside" /\ slot'[g]
    BY <1>1, <1>3, <1>6 DEF GatesTypeOK
  <2>3. \A h \in Gates : h # g => slot'[h] = slot[h]
    BY <1>3, <1>6 DEF GatesTypeOK
  <2>4. \A q \in Procs : at[q] = "inside" => gt[q] # g /\ gt[q] \in Gates
    BY <1>3, <1>6 DEF Owners, GatesInv, HeldInv
  <2>5. Owners'
    BY <1>1, <1>3, <2>1, <2>2, <2>3, <2>4 DEF Owners, g
  <2>6. \A q \in Procs : at[q] = "blocked" => at'[q] = "blocked"
    BY <1>1, <2>1
  <2>7. \A h \in Gates : slot[h] => slot'[h]
    BY <2>2, <2>3
  <2>8. Queues'
    BY <1>1, <1>3, <1>6, <2>6, <2>7, QueueMembers DEF Queues
  <2> QED
    BY <1>4, <1>5, <2>5, <2>8 DEF GatesInv
<1>7. CASE /\ slot[g] /\ slot' = slot
           /\ queue' = [queue EXCEPT ![g] = Append(@, p)]
           /\ at' = [at EXCEPT ![p] = "blocked"]
  <2>1. \A q \in Procs : q # p => at'[q] = at[q]
    BY <1>3, <1>7 DEF GatesTypeOK
  <2>2. at'[p] = "blocked"
    BY <1>3, <1>7 DEF GatesTypeOK
  <2>3. Owners'
    BY <1>1, <1>3, <1>7, <2>1, <2>2 DEF Owners
  <2>4. queue[g] \in Seq(Procs) /\ queue'[g] = Append(queue[g], p)
    BY <1>1, <1>3, <1>7 DEF GatesTypeOK
  <2>5. /\ Len(queue[g]) \in Nat /\ Len(queue'[g]) = Len(queue[g]) + 1
        /\ \A i \in 1..Len(queue[g]) : queue'[g][i] = queue[g][i]
        /\ queue'[g][Len(queue[g]) + 1] = p
    BY <2>4, ListAppend, ListLen
  <2>6. \A i \in 1..Len(queue[g]) : queue[g][i] # p /\ queue[g][i] \in Procs
    BY <1>1, <1>3, QueueMembers DEF Queues
  <2>7. \A h \in Gates : h # g => queue'[h] = queue[h]
    BY <1>3, <1>7 DEF GatesTypeOK
  <2> SUFFICES ASSUME NEW h \in Gates
               PROVE  /\ \A i \in 1..Len(queue'[h]) : at'[queue'[h][i]] = "blocked" /\ gt'[queue'[h][i]] = h
                      /\ \A i, j \in 1..Len(queue'[h]) : queue'[h][i] = queue'[h][j] => i = j
                      /\ queue'[h] # <<>> => slot'[h]
    BY <1>4, <1>5, <2>3 DEF Queues, GatesInv
  <2>8. CASE h # g
    <3>1. \A i \in 1..Len(queue[h]) : at'[queue[h][i]] = "blocked"
      BY <1>1, <1>3, <2>1, QueueMembers DEF Queues
    <3> QED
      BY <1>1, <1>3, <1>7, <2>7, <2>8, <3>1 DEF Queues
  <2>9. CASE h = g
    <3>1. \A i \in 1..Len(queue'[g]) : i = Len(queue[g]) + 1 \/ i \in 1..Len(queue[g])
      BY <2>5
    <3>2. \A i \in 1..Len(queue[g]) : at'[queue[g][i]] = "blocked" /\ gt[queue[g][i]] = g
      BY <1>1, <1>3, <2>1, <2>6 DEF Queues
    <3>3. \A i \in 1..Len(queue'[g]) : at'[queue'[g][i]] = "blocked" /\ gt'[queue'[g][i]] = g
      BY <1>1, <2>2, <2>5, <3>1, <3>2, ZenonT(60) DEF g
    <3>4. \A i, j \in 1..Len(queue[g]) : queue[g][i] = queue[g][j] => i = j
      BY <1>1, <1>3 DEF Queues
    <3>5. \A i, j \in 1..Len(queue'[g]) : queue'[g][i] = queue'[g][j] => i = j
      BY <2>5, <2>6, <3>1, <3>4, Zenon
    <3> QED
      BY <1>7, <2>9, <3>3, <3>5
  <2> QED
    BY <2>8, <2>9
<1> QED
  BY <1>2, <1>6, <1>7

\* A goroutine whose time is up leaves the queue.
LEMMA TimeOutKeeps ==
  ASSUME GatesInv, NEW p \in Procs, TimeOut(p)
  PROVE  GatesInv'
<1> DEFINE g == gt[p]
<1>1. /\ at[p] \in {"select", "blocked"} /\ g \in Gates
      /\ m' = m /\ refs' = refs /\ key' = key /\ gt' = gt /\ slot' = slot
      /\ at' = [at EXCEPT ![p] = "timedOut"]
  BY DEF TimeOut, GatesInv, HeldInv
<1>2. \/ at[p] = "select" /\ queue' = queue
      \/ \E i \in DOMAIN queue[g] :
           queue[g][i] = p /\ queue' = [queue EXCEPT ![g] = Without(@, i)]
  BY DEF TimeOut
<1> HIDE DEF g
<1>3. GatesTypeOK /\ Owners /\ Queues
  BY DEF GatesInv
<1>4. \A q \in Procs : q # p => at'[q] = at[q]
  BY <1>1, <1>3 DEF GatesTypeOK
<1>5. at'[p] = "timedOut"
  BY <1>1, <1>3 DEF GatesTypeOK
<1>6. HeldInv' /\ OneKey' /\ Counts'
  <2>1. \A q \in Procs : at'[q] = "out" <=> at[q] = "out"
    BY <1>1, <1>4, <1>5
  <2> QED
    BY <1>1, <2>1, SameHolders
<1>7. Owners'
  BY <1>1, <1>3, <1>4, <1>5 DEF Owners
<1>8. CASE at[p] = "select" /\ queue' = queue
  <2>1. GatesTypeOK'
    BY <1>1, <1>3, <1>8 DEF GatesTypeOK, Stages
  <2>2. Queues'
    BY <1>1, <1>3, <1>4, <1>8, QueueMembers DEF Queues
  <2> QED
    BY <1>6, <1>7, <2>1, <2>2 DEF GatesInv
<1>9. CASE \E i \in DOMAIN queue[g] :
             queue[g][i] = p /\ queue' = [queue EXCEPT ![g] = Without(@, i)]
  <2>1. queue[g] \in Seq(Procs) /\ DOMAIN queue[g] = 1..Len(queue[g]) /\ Len(queue[g]) \in Nat
    BY <1>1, <1>3, ListLen DEF GatesTypeOK
  <2>2. PICK n \in 1..Len(queue[g]) :
             queue[g][n] = p /\ queue' = [queue EXCEPT ![g] = Without(@, n)]
    BY <1>9, <2>1, Zenon
  <2>3. queue'[g] = Without(queue[g], n)
    BY <1>1, <1>3, <2>2 DEF GatesTypeOK
  <2>4. /\ queue'[g] \in Seq(Procs) /\ Len(queue'[g]) = Len(queue[g]) - 1
        /\ \A j \in 1..(Len(queue[g]) - 1) :
             queue'[g][j] = IF j < n THEN queue[g][j] ELSE queue[g][j + 1]
    BY <2>1, <2>2, <2>3, ListRemove, ZenonT(60)
  <2>5. \A h \in Gates : h # g => queue'[h] = queue[h]
    BY <1>3, <2>2 DEF GatesTypeOK
  <2>6. GatesTypeOK'
    <3>1. queue' \in [Gates -> Seq(Procs)]
      BY <1>3, <2>2, <2>3, <2>4 DEF GatesTypeOK
    <3> QED
      BY <1>1, <1>3, <3>1 DEF GatesTypeOK, Stages
  <2> SUFFICES ASSUME NEW h \in Gates
               PROVE  /\ \A i \in 1..Len(queue'[h]) : at'[queue'[h][i]] = "blocked" /\ gt'[queue'[h][i]] = h
                      /\ \A i, j \in 1..Len(queue'[h]) : queue'[h][i] = queue'[h][j] => i = j
                      /\ queue'[h] # <<>> => slot'[h]
    BY <1>6, <1>7, <2>6, SMTT(30) DEF Queues, GatesInv
  <2>7. CASE h # g
    <3>1. \A i \in 1..Len(queue[h]) : queue[h][i] # p /\ queue[h][i] \in Procs
      BY <1>3, <2>7, QueueMembers DEF Queues, g
    <3> QED
      BY <1>1, <1>3, <1>4, <2>5, <2>7, <3>1 DEF Queues
  <2>8. CASE h = g
    <3> DEFINE Old(j) == IF j < n THEN j ELSE j + 1
    <3>1. \A j \in 1..Len(queue'[g]) : Old(j) \in 1..Len(queue[g]) /\ Old(j) # n
      BY <2>1, <2>4
    <3>2. \A j \in 1..Len(queue'[g]) : queue'[g][j] = queue[g][Old(j)]
      BY <2>1, <2>4
    <3>3. \A i, j \in 1..Len(queue'[g]) : Old(i) = Old(j) => i = j
      BY <2>1, <2>4
    <3> HIDE DEF Old
    <3>4. \A i, j \in 1..Len(queue[g]) : queue[g][i] = queue[g][j] => i = j
      BY <1>1, <1>3 DEF Queues
    <3>5. \A j \in 1..Len(queue'[g]) : queue'[g][j] # p /\ queue'[g][j] \in Procs
      BY <1>1, <2>2, <3>1, <3>2, <3>4, QueueMembers, ZenonT(60)
    <3>6. \A j \in 1..Len(queue'[g]) : at[queue'[g][j]] = "blocked" /\ gt[queue'[g][j]] = g
      BY <1>1, <1>3, <3>1, <3>2 DEF Queues
    <3>7. \A i, j \in 1..Len(queue'[g]) : queue'[g][i] = queue'[g][j] => i = j
      BY <3>1, <3>2, <3>3, <3>4, Zenon
    <3>8. queue[g] # <<>>
      BY <2>2, ListEmpty
    <3> QED
      BY <1>1, <1>3, <1>4, <2>8, <3>5, <3>6, <3>7, <3>8, SMTT(30) DEF Queues
  <2> QED
    BY <2>7, <2>8
<1> QED
  BY <1>2, <1>8, <1>9

\* Whoever leaves hands the slot to the oldest one in the queue.
LEMMA LeaveKeeps ==
  ASSUME GatesInv, NEW p \in Procs, Leave(p)
  PROVE  GatesInv'
<1> DEFINE g == gt[p]
<1>1. /\ at[p] = "inside" /\ g \in Gates /\ slot[g]
      /\ m' = m /\ refs' = refs /\ key' = key /\ gt' = gt
  BY DEF Leave, GatesInv, HeldInv
<1>2. GatesTypeOK /\ Owners /\ Queues
  BY DEF GatesInv
<1>3. CASE queue[g] = <<>>
  <2>1. /\ slot' = [slot EXCEPT ![g] = FALSE]
        /\ queue' = [queue EXCEPT ![g] = @]
        /\ at' = [q \in Procs |-> IF q = p THEN "leaving" ELSE at[q]]
    BY <1>3, Zenon DEF Leave, Woken
  <2> HIDE DEF g
  <2>2. queue' = queue
    BY <1>2, <2>1 DEF GatesTypeOK
  <2>3. \A q \in Procs : at'[q] = IF q = p THEN "leaving" ELSE at[q]
    BY <2>1
  <2>4. at' \in [Procs -> Stages]
    BY <1>2, <2>1 DEF GatesTypeOK, Stages
  <2>5. GatesTypeOK'
    BY <1>1, <1>2, <2>1, <2>2, <2>4, SMTT(30) DEF GatesTypeOK
  <2>6. HeldInv' /\ OneKey' /\ Counts'
    BY <1>1, <2>3, SameHolders
  <2>7. \A h \in Gates : slot'[h] <=> slot[h] /\ h # g
    BY <1>1, <1>2, <2>1 DEF GatesTypeOK
  <2>8. \A q \in Procs : at[q] = "inside" => gt[q] \in Gates
    BY DEF GatesInv, HeldInv
  <2>9. Owners'
    BY <1>1, <1>2, <2>3, <2>7, <2>8 DEF Owners, g
  <2>10. Queues'
    BY <1>1, <1>2, <1>3, <2>2, <2>3, <2>7, QueueMembers, SMTT(30) DEF Queues
  <2> QED
    BY <2>5, <2>6, <2>9, <2>10 DEF GatesInv
<1>4. CASE queue[g] # <<>>
  <2> DEFINE w == Head(queue[g])
  <2>1. Woken(queue[g]) = {w}
    BY <1>4 DEF Woken
  <2>2. /\ slot' = [slot EXCEPT ![g] = TRUE]
        /\ queue' = [queue EXCEPT ![g] = Tail(@)]
        /\ at' = [q \in Procs |-> IF q = p THEN "leaving"
                                  ELSE IF q = w THEN "inside" ELSE at[q]]
    BY <2>1, ZenonT(60) DEF Leave
  <2> HIDE DEF g
  <2>3. queue[g] \in Seq(Procs) /\ Len(queue[g]) \in Nat \ {0}
    BY <1>1, <1>2, <1>4, ListEmpty DEF GatesTypeOK
  <2>4. /\ w = queue[g][1] /\ w \in Procs
        /\ Tail(queue[g]) \in Seq(Procs) /\ Len(Tail(queue[g])) = Len(queue[g]) - 1
        /\ \A j \in 1..(Len(queue[g]) - 1) : Tail(queue[g])[j] = queue[g][j + 1]
    BY <1>4, <2>3, ListTail
  <2>5. at[w] = "blocked" /\ gt[w] = g /\ w # p
    BY <1>1, <1>2, <2>3, <2>4 DEF Queues
  <2> HIDE DEF w
  <2>6. queue'[g] = Tail(queue[g]) /\ \A h \in Gates : h # g => queue'[h] = queue[h]
    BY <1>1, <1>2, <2>2 DEF GatesTypeOK
  <2>7. \A q \in Procs : at'[q] = IF q = p THEN "leaving" ELSE IF q = w THEN "inside" ELSE at[q]
    BY <2>2
  <2>8. slot' = slot
    BY <1>1, <1>2, <2>2 DEF GatesTypeOK
  <2>9. GatesTypeOK'
    <3>1. queue' \in [Gates -> Seq(Procs)]
      BY <1>2, <2>2, <2>4, Zenon DEF GatesTypeOK
    <3>2. at' \in [Procs -> Stages]
      BY <1>2, <2>2 DEF GatesTypeOK, Stages
    <3> QED
      BY <1>1, <1>2, <2>8, <3>1, <3>2, SMTT(30) DEF GatesTypeOK
  <2>10. HeldInv' /\ OneKey' /\ Counts'
    BY <1>1, <2>5, <2>7, SameHolders
  <2>11. Owners'
    <3>1. \A q \in Procs : at'[q] = "inside" <=> q = w \/ (at[q] = "inside" /\ q # p)
      BY <2>5, <2>7
    <3>2. \A q \in Procs : at[q] = "inside" /\ gt[q] = g => q = p
      BY <1>1, <1>2, SMTT(30) DEF Owners, g
    <3> QED
      BY <1>1, <1>2, <2>4, <2>5, <2>8, <3>1, <3>2 DEF Owners
  <2> SUFFICES ASSUME NEW h \in Gates
               PROVE  /\ \A i \in 1..Len(queue'[h]) : at'[queue'[h][i]] = "blocked" /\ gt'[queue'[h][i]] = h
                      /\ \A i, j \in 1..Len(queue'[h]) : queue'[h][i] = queue'[h][j] => i = j
                      /\ queue'[h] # <<>> => slot'[h]
    BY <2>9, <2>10, <2>11 DEF Queues, GatesInv
  <2>12. CASE h # g
    <3>1. \A i \in 1..Len(queue[h]) : /\ queue[h][i] # p /\ queue[h][i] # w
                                      /\ queue[h][i] \in Procs
      BY <1>1, <1>2, <2>5, <2>12, QueueMembers DEF Queues
    <3> QED
      BY <1>1, <1>2, <2>6, <2>7, <2>8, <2>12, <3>1, SMTT(30) DEF Queues
  <2>13. CASE h = g
    <3>1. \A j \in 1..Len(queue'[g]) : /\ j + 1 \in 1..Len(queue[g]) /\ j + 1 # 1
                                       /\ queue'[g][j] = queue[g][j + 1]
      BY <2>3, <2>4, <2>6
    <3>2. \A i, j \in 1..Len(queue[g]) : queue[g][i] = queue[g][j] => i = j
      BY <1>1, <1>2 DEF Queues
    <3>3. 1 \in 1..Len(queue[g])
      BY <2>3
    <3>4. \A j \in 1..Len(queue'[g]) : queue'[g][j] \in Procs /\ queue'[g][j] # w
      BY <1>1, <2>4, <3>1, <3>2, <3>3, QueueMembers, ZenonT(60)
    <3>5. \A j \in 1..Len(queue'[g]) : at[queue'[g][j]] = "blocked" /\ gt[queue'[g][j]] = g
      BY <1>1, <1>2, <3>1, SMTT(30) DEF Queues
    <3>6. \A i, j \in 1..Len(queue'[g]) : i + 1 = j + 1 => i = j
      BY <2>3, <2>4, <2>6
    <3>7. \A i, j \in 1..Len(queue'[g]) : queue'[g][i] = queue'[g][j] => i = j
      BY <3>1, <3>2, <3>6, SMTT(30)
    <3> QED
      BY <1>1, <2>7, <2>8, <2>13, <3>4, <3>5, <3>7, SMTT(30)
  <2> QED
    BY <2>12, <2>13
<1> QED
  BY <1>3, <1>4

\* A goroutine that releases forgets its reference, and with the last one the
\* map forgets the gate.
LEMMA ReleaseKeeps ==
  ASSUME GatesInv, NEW p \in Procs, release(p)
  PROVE  GatesInv'
<1> DEFINE g == gt[p]
           k == key[p]
<1>1. /\ at[p] \in {"leaving", "timedOut"}
      /\ g \in Gates /\ k \in Keys /\ m[k] = g
      /\ slot' = slot /\ queue' = queue
      /\ refs' = [refs EXCEPT ![g] = @ - 1]
      /\ m' = IF refs[g] = 1 THEN [m EXCEPT ![k] = Nil] ELSE m
      /\ at' = [at EXCEPT ![p] = "out"]
      /\ gt' = [gt EXCEPT ![p] = Nil]
      /\ key' = [key EXCEPT ![p] = Nil]
  BY DEF release, Unlink, GatesInv, HeldInv
<1>2. GatesTypeOK /\ OneKey /\ Counts /\ Owners /\ Queues /\ Nil \notin Gates
  BY GateAssumption DEF GatesInv
<1>3. p \in Pointing(g)
  BY DEF Pointing
<1> HIDE DEF g, k
<1>4. refs[g] = Cardinality(Pointing(g)) /\ IsFiniteSet(Pointing(g)) /\ refs[g] \in Nat
  BY <1>1, <1>2, PointingFinite DEF Counts, GatesTypeOK
<1>5. refs[g] # 0
  BY <1>3, <1>4, FS_EmptySet
<1>6. refs[g] = 1 => Pointing(g) = {p}
  <2>1. refs[g] = 1 => \E x : Pointing(g) = {x}
    BY <1>4, FS_Singleton, Zenon
  <2> QED
    BY <1>3, <2>1, Zenon
<1>7. GatesTypeOK'
  <2>1. refs' \in [Gates -> Nat]
    BY <1>1, <1>2, <1>4, <1>5 DEF GatesTypeOK
  <2>2. m' \in [Keys -> Gates \cup {Nil}]
    BY <1>1, <1>2 DEF GatesTypeOK
  <2>3. at' \in [Procs -> Stages]
    BY <1>1, <1>2 DEF GatesTypeOK, Stages
  <2> QED
    BY <1>1, <1>2, <2>1, <2>2, <2>3 DEF GatesTypeOK
<1>8. \A q \in Procs : q # p => at'[q] = at[q] /\ key'[q] = key[q] /\ gt'[q] = gt[q]
  BY <1>1, <1>2 DEF GatesTypeOK
<1>9. at'[p] = "out" /\ key'[p] = Nil /\ gt'[p] = Nil
  BY <1>1, <1>2 DEF GatesTypeOK
<1>10. \A l \in Keys : l # k \/ refs[g] # 1 => m'[l] = m[l]
  BY <1>1, <1>2 DEF GatesTypeOK
<1>11. refs[g] = 1 => m'[k] = Nil
  BY <1>1, <1>2 DEF GatesTypeOK
<1>12. HeldInv'
  <2> SUFFICES ASSUME NEW q \in Procs
               PROVE  IF at'[q] = "out" THEN gt'[q] = Nil /\ key'[q] = Nil
                      ELSE key'[q] \in Keys /\ gt'[q] \in Gates /\ m'[key'[q]] = gt'[q]
    BY DEF HeldInv
  <2>1. CASE q = p
    BY <1>9, <2>1
  <2>2. CASE q # p
    <3>1. IF at[q] = "out" THEN gt[q] = Nil /\ key[q] = Nil
          ELSE key[q] \in Keys /\ gt[q] \in Gates /\ m[key[q]] = gt[q]
      BY DEF GatesInv, HeldInv
    <3>2. at[q] # "out" /\ refs[g] = 1 => key[q] # k
      BY <1>1, <1>6, <2>2, <3>1 DEF Pointing
    <3> QED
      BY <1>8, <1>10, <2>2, <3>1, <3>2
  <2> QED
    BY <2>1, <2>2
<1>13. \A l \in Keys : m'[l] # Nil => m'[l] = m[l]
  BY <1>10, <1>11
<1>14. OneKey'
  BY <1>2, <1>13 DEF OneKey
<1>15. Counts'
  <2> SUFFICES ASSUME NEW l \in Keys, m'[l] # Nil
               PROVE  /\ refs'[m'[l]] = Cardinality({q \in Procs : gt'[q] = m'[l]})
                      /\ {q \in Procs : gt'[q] = m'[l]} # {}
    BY DEF Counts, Pointing
  <2>1. m'[l] = m[l] /\ m[l] \in Gates
    BY <1>2, <1>13 DEF GatesTypeOK
  <2>2. CASE m[l] = g
    <3>1. l = k
      BY <1>1, <1>2, <2>2 DEF OneKey
    <3>2. refs[g] # 1
      BY <1>11, <3>1
    <3>3. {q \in Procs : gt'[q] = g} = Pointing(g) \ {p}
      BY <1>1, <1>2, <1>8, <1>9 DEF Pointing
    <3>4. Cardinality(Pointing(g) \ {p}) = refs[g] - 1
      BY <1>3, <1>4, FS_RemoveElement, ZenonT(60)
    <3>5. Pointing(g) \ {p} # {}
      <4>1. Cardinality(Pointing(g) \ {p}) # 0
        BY <1>4, <3>2, <3>4
      <4> QED
        BY <4>1, FS_EmptySet, Zenon
    <3>6. refs'[g] = refs[g] - 1
      BY <1>1, <1>2 DEF GatesTypeOK
    <3> QED
      BY <2>1, <2>2, <3>3, <3>4, <3>5, <3>6
  <2>3. CASE m[l] # g
    <3>1. {q \in Procs : gt'[q] = m[l]} = Pointing(m[l])
      BY <1>2, <1>8, <1>9, <2>1, <2>3, SMTT(30) DEF Pointing, g
    <3>2. refs'[m[l]] = refs[m[l]]
      BY <1>1, <1>2, <2>1, <2>3 DEF GatesTypeOK
    <3>3. refs[m[l]] = Cardinality(Pointing(m[l])) /\ Pointing(m[l]) # {}
      BY <1>2, <2>1, SMTT(30) DEF Counts
    <3> QED
      BY <2>1, <3>1, <3>2, <3>3
  <2> QED
    BY <2>2, <2>3
<1>16. Owners'
  BY <1>1, <1>2, <1>8, <1>9, SMTT(30) DEF Owners
<1>17. Queues'
  <2>1. \A q \in Procs : at[q] = "blocked" => at'[q] = "blocked" /\ gt'[q] = gt[q]
    BY <1>1, <1>8
  <2> QED
    BY <1>1, <1>2, <2>1, QueueMembers DEF Queues
<1> QED
  BY <1>7, <1>12, <1>14, <1>15, <1>16, <1>17 DEF GatesInv

-----------------------------------------------------------------------------
\* Every step of a goroutine keeps the invariant.
LEMMA GatesNext ==
  ASSUME GatesInv, [NextGates]_gateVars
  PROVE  GatesInv'
<1>1. CASE UNCHANGED gateVars
  <2>1. GatesTypeOK'
    BY <1>1 DEF gateVars, GatesInv, GatesTypeOK
  <2>2. HeldInv' /\ OneKey' /\ Counts'
    BY <1>1, SameHolders DEF gateVars
  <2>3. Owners'
    BY <1>1 DEF gateVars, GatesInv, Owners
  <2>4. Queues'
    BY <1>1 DEF gateVars, GatesInv, Queues
  <2> QED
    BY <2>1, <2>2, <2>3, <2>4 DEF GatesInv
<1>2. CASE NextGates
  <2>1. PICK p \in Procs : (\E k \in Keys : Enter(p, k))
                           \/ Send(p) \/ TimeOut(p) \/ Leave(p) \/ release(p)
    BY <1>2 DEF NextGates
  <2>2. ASSUME NEW k \in Keys, Enter(p, k) PROVE GatesInv'
    BY <2>2, EnterFound, EnterNew
  <2> QED
    BY <2>1, <2>2, SendKeeps, TimeOutKeeps, LeaveKeeps, ReleaseKeeps
<1> QED
  BY <1>1, <1>2

\* The invariant holds in every state of the gates.
THEOREM GatesSafe == SpecGates => []GatesInv
<1>1. GatesInv /\ [NextGates]_gateVars => GatesInv'
  BY GatesNext
<1> QED
  BY <1>1, GatesInit, PTL DEF SpecGates

\* At most one goroutine is past the gate of an event, for any number of
\* requests, although release deletes gates that enter makes anew.
THEOREM OneInsideHolds == SpecGates => []OneInside
<1>1. GatesInv => OneInside
  BY DEF GatesInv, HeldInv, Owners, OneInside
<1> QED
  BY <1>1, GatesSafe, PTL

\* The map of gate.go holds exactly the gates in use, with exact counts: enter
\* and release never lose a gate that somebody holds, nor keep an idle one.
THEOREM GatesInUseHolds == SpecGates => []GatesInUse
<1>1. GatesInv => GatesInUse
  <2> SUFFICES ASSUME GatesInv PROVE GatesInUse
    OBVIOUS
  <2>1. \A p \in Procs : at[p] # "out" => m[key[p]] = gt[p]
    BY DEF GatesInv, HeldInv
  <2> SUFFICES ASSUME NEW k \in Keys, m[k] # Nil
               PROVE  refs[m[k]] = Cardinality(Pointing(m[k])) /\ refs[m[k]] > 0
    BY <2>1 DEF GatesInUse
  <2>2. refs[m[k]] = Cardinality(Pointing(m[k])) /\ Pointing(m[k]) # {}
    BY DEF GatesInv, Counts
  <2>3. IsFiniteSet(Pointing(m[k]))
    BY PointingFinite
  <2>4. Cardinality(Pointing(m[k])) \in Nat /\ Cardinality(Pointing(m[k])) # 0
    BY <2>2, <2>3, FS_CardinalityType, FS_EmptySet, SMTT(30)
  <2> QED
    BY <2>2, <2>4
<1> QED
  BY <1>1, GatesSafe, PTL

\* The slot is taken exactly while somebody is inside, and nobody waits for a
\* free one: the receive of leave never blocks and no wake-up is lost.
THEOREM SlotIsOwnedHolds == SpecGates => []SlotIsOwned
<1>1. GatesInv => SlotIsOwned
  <2> SUFFICES ASSUME GatesInv, NEW k \in Keys, m[k] # Nil
               PROVE  /\ slot[m[k]] <=> Inside(k) # {}
                      /\ queue[m[k]] # <<>> => slot[m[k]]
    BY DEF SlotIsOwned
  <2>1. m[k] \in Gates /\ slot[m[k]] \in BOOLEAN
    BY DEF GatesInv, GatesTypeOK
  <2>2. \A p \in Procs : at[p] = "inside" => (gt[p] = m[k] <=> key[p] = k)
    BY DEF GatesInv, HeldInv, OneKey
  <2>3. slot[m[k]] => \E p \in Procs : at[p] = "inside" /\ key[p] = k
    BY <2>1, <2>2 DEF GatesInv, Owners
  <2>4. \A p \in Procs : at[p] = "inside" /\ key[p] = k => slot[m[k]]
    BY <2>2 DEF GatesInv, Owners
  <2>5. Inside(k) # {} <=> \E p \in Procs : at[p] = "inside" /\ key[p] = k
    BY DEF Inside
  <2>6. queue[m[k]] # <<>> => slot[m[k]]
    BY <2>1 DEF GatesInv, Queues
  <2> QED
    BY <2>3, <2>4, <2>5, <2>6
<1> QED
  BY <1>1, GatesSafe, PTL

-----------------------------------------------------------------------------
(***************************************************************************)
(* The gates implement the lines of FifoLine.                              *)
(***************************************************************************)

\* The lines of all events.
Lines == [k \in Keys |-> Line(k)]

\* An event whose slot is free has no line; else the line is the goroutine
\* inside and the queue of the gate.
LineInv ==
  /\ \A k \in Keys : (m[k] = Nil \/ ~slot[m[k]]) => Line(k) = <<>>
  /\ \A p \in Procs : at[p] = "inside" => Line(key[p]) = <<p>> \o queue[gt[p]]

-----------------------------------------------------------------------------
\* One element before a list.
LEMMA ListFirst ==
  ASSUME NEW S, NEW w \in S, NEW s \in Seq(S)
  PROVE  /\ <<w>> \o s \in Seq(S) /\ Len(<<w>> \o s) = Len(s) + 1
         /\ (<<w>> \o s)[1] = w
         /\ \A j \in 1..Len(s) : (<<w>> \o s)[j + 1] = s[j]
         /\ \A j \in 2..(Len(s) + 1) : (<<w>> \o s)[j] = s[j - 1]
<1>1. <<w>> \in Seq(S) /\ Len(<<w>>) = 1 /\ <<w>>[1] = w
  OBVIOUS
<1>2. Len(s) \in Nat
  BY ListLen
<1> DEFINE a == <<w>>
<1> HIDE DEF a
<1>3. /\ a \o s \in Seq(S) /\ Len(a \o s) = 1 + Len(s)
      /\ \A j \in 1..1 : (a \o s)[j] = a[j]
      /\ \A j \in (1 + 1)..(1 + Len(s)) : (a \o s)[j] = s[j - 1]
  <2>1. a \in Seq(S) /\ Len(a) = 1
    BY <1>1 DEF a
  <2>2. /\ a \o s \in Seq(S) /\ Len(a \o s) = Len(a) + Len(s)
        /\ \A j \in 1..Len(a) : (a \o s)[j] = a[j]
        /\ \A j \in (Len(a) + 1)..(Len(a) + Len(s)) : (a \o s)[j] = s[j - Len(a)]
    BY <2>1, ListJoin, ZenonT(60)
  <2> QED
    BY <2>1, <2>2
<1>4. \A j \in 1..Len(s) : j + 1 \in (1 + 1)..(1 + Len(s)) /\ (j + 1) - 1 = j
  BY <1>2
<1>5. \A j \in 1..Len(s) : (a \o s)[j + 1] = s[j]
  BY <1>3, <1>4
<1>6. 1 \in 1..1 /\ 1 + 1 = 2 /\ 1 + Len(s) = Len(s) + 1
  BY <1>2
<1>7. a[1] = w
  BY <1>1 DEF a
<1> QED
  BY <1>3, <1>5, <1>6, <1>7 DEF a

\* Lists of the same length with the same elements are equal.
LEMMA ListEqual ==
  ASSUME NEW S, NEW s \in Seq(S), NEW t \in Seq(S), Len(s) = Len(t),
         \A j \in 1..Len(s) : s[j] = t[j]
  PROVE  s = t
<1>1. s \in [1..Len(s) -> S] /\ t \in [1..Len(s) -> S]
  BY ListLen
<1> QED
  BY <1>1

\* To append to a list does not depend on the element before it.
LEMMA ListFirstAppend ==
  ASSUME NEW S, NEW w \in S, NEW x \in S, NEW s \in Seq(S)
  PROVE  <<w>> \o Append(s, x) = Append(<<w>> \o s, x)
  OBVIOUS

\* The rest of a list is what stands behind its first element.
LEMMA ListFirstTail ==
  ASSUME NEW S, NEW w \in S, NEW s \in Seq(S)
  PROVE  Tail(<<w>> \o s) = s /\ <<w>> \o s # <<>>
  OBVIOUS

\* A list is its first element and the rest.
LEMMA ListHeadTail ==
  ASSUME NEW S, NEW s \in Seq(S), s # <<>>
  PROVE  <<Head(s)>> \o Tail(s) = s
  OBVIOUS

\* To remove from a list does not depend on the element before it.
LEMMA ListFirstWithout ==
  ASSUME NEW S, NEW w \in S, NEW s \in Seq(S), NEW i \in 1..Len(s)
  PROVE  <<w>> \o Without(s, i) = Without(<<w>> \o s, i + 1)
<1> DEFINE t == <<w>> \o s
           u == Without(s, i)
           v == Without(t, i + 1)
<1>1. Len(s) \in Nat
  BY ListLen
<1>2. /\ t \in Seq(S) /\ Len(t) = Len(s) + 1 /\ t[1] = w
      /\ \A j \in 1..Len(s) : t[j + 1] = s[j]
  BY ListFirst
<1>3. /\ u \in Seq(S) /\ Len(u) = Len(s) - 1
      /\ \A j \in 1..(Len(s) - 1) : u[j] = IF j < i THEN s[j] ELSE s[j + 1]
  BY ListRemove
<1> HIDE DEF t, u
<1>4. i + 1 \in 1..Len(t) /\ Len(t) - 1 = Len(s)
  BY <1>1, <1>2
<1>5. /\ v \in Seq(S) /\ Len(v) = Len(s)
      /\ \A j \in 1..Len(s) : v[j] = IF j < i + 1 THEN t[j] ELSE t[j + 1]
  <2>1. /\ v \in Seq(S) /\ Len(v) = Len(t) - 1
        /\ \A j \in 1..(Len(t) - 1) : v[j] = IF j < i + 1 THEN t[j] ELSE t[j + 1]
    BY <1>2, <1>4, ListRemove, Zenon
  <2> QED
    BY <1>4, <2>1, SMTT(30)
<1>6. /\ <<w>> \o u \in Seq(S) /\ Len(<<w>> \o u) = Len(u) + 1
      /\ (<<w>> \o u)[1] = w
      /\ \A j \in 2..(Len(u) + 1) : (<<w>> \o u)[j] = u[j - 1]
  BY <1>3, ListFirst
<1> HIDE DEF v
<1>7. \A j \in 1..Len(s) : (<<w>> \o u)[j] = v[j]
  <2> SUFFICES ASSUME NEW j \in 1..Len(s) PROVE (<<w>> \o u)[j] = v[j]
    BY Zenon
  <2>1. CASE j = 1
    BY <1>1, <1>2, <1>5, <1>6, <2>1
  <2>2. CASE j # 1
    <3>1. j \in 2..(Len(u) + 1) /\ j - 1 \in 1..(Len(s) - 1) /\ (j - 1) + 1 = j
      BY <1>1, <1>3, <2>2
    <3>2. (<<w>> \o u)[j] = IF j - 1 < i THEN s[j - 1] ELSE s[j]
      BY <1>3, <1>6, <3>1
    <3>3. v[j] = IF j < i + 1 THEN t[j] ELSE t[j + 1]
      BY <1>5
    <3>4. t[j + 1] = s[j] /\ t[j] = s[j - 1]
      <4>1. j - 1 \in 1..Len(s)
        BY <1>1, <3>1
      <4>2. t[(j - 1) + 1] = s[j - 1]
        BY <1>2, <4>1, SMTT(30)
      <4> QED
        BY <1>2, <3>1, <4>2
    <3>5. j - 1 < i <=> j < i + 1
      BY <1>1
    <3> QED
      BY <3>2, <3>3, <3>4, <3>5, Zenon
  <2> QED
    BY <2>1, <2>2, Zenon
<1>8. Len(<<w>> \o u) = Len(s) /\ Len(<<w>> \o u) = Len(v)
  BY <1>1, <1>3, <1>5, <1>6
<1> QED
  BY <1>5, <1>6, <1>7, <1>8, ListEqual, Zenon DEF t, u, v

-----------------------------------------------------------------------------
\* The invariant gives the lines their shape.
LEMMA GatesLines == GatesInv => LineInv
<1> SUFFICES ASSUME GatesInv PROVE LineInv
  OBVIOUS
<1>1. GatesTypeOK /\ HeldInv /\ OneKey /\ Owners /\ Queues /\ Nil \notin Gates
  BY GateAssumption DEF GatesInv
<1>2. ASSUME NEW k \in Keys, m[k] = Nil \/ ~slot[m[k]] PROVE Line(k) = <<>>
  <2>1. CASE m[k] = Nil
    BY <2>1 DEF Line
  <2>2. CASE m[k] # Nil
    <3>1. m[k] \in Gates /\ ~slot[m[k]]
      BY <1>1, <1>2, <2>2 DEF GatesTypeOK
    <3>2. Inside(k) = {}
      BY <1>1, <3>1 DEF Inside, HeldInv, Owners
    <3>3. queue[m[k]] = <<>>
      BY <1>1, <3>1 DEF Queues
    <3> QED
      BY <2>2, <3>2, <3>3 DEF Line
  <2> QED
    BY <2>1, <2>2
<1>3. ASSUME NEW p \in Procs, at[p] = "inside" PROVE Line(key[p]) = <<p>> \o queue[gt[p]]
  <2>1. key[p] \in Keys /\ m[key[p]] = gt[p] /\ gt[p] # Nil
    BY <1>1, <1>3 DEF HeldInv
  <2>2. Inside(key[p]) = {p}
    BY <1>1, <1>3, <2>1 DEF Inside, HeldInv, Owners
  <2>3. (CHOOSE q \in {p} : TRUE) = p
    OBVIOUS
  <2> QED
    BY <2>1, <2>2, <2>3 DEF Line
<1> QED
  BY <1>2, <1>3 DEF LineInv

\* It does so after a step as well.
LEMMA GatesLinesNext == GatesInv' => LineInv'
  BY GatesLines, PTL

\* A line is empty, or somebody inside is its first one.
LEMMA LineOf ==
  ASSUME GatesInv, NEW k \in Keys, Line(k) # <<>>
  PROVE  /\ m[k] \in Gates /\ slot[m[k]]
         /\ \E w \in Procs : at[w] = "inside" /\ gt[w] = m[k] /\ Line(k) = <<w>> \o queue[m[k]]
<1>1. m[k] \in Gates /\ slot[m[k]]
  BY GatesLines DEF LineInv, GatesInv, GatesTypeOK
<1>2. PICK w \in Procs : at[w] = "inside" /\ gt[w] = m[k]
  BY <1>1 DEF GatesInv, Owners
<1>3. key[w] = k
  BY <1>1, <1>2, GateAssumption DEF GatesInv, HeldInv, OneKey
<1> QED
  BY <1>1, <1>2, <1>3, GatesLines, SMTT(30) DEF LineInv

\* A step that leaves a gate alone leaves its line alone.
LEMMA SameLine ==
  ASSUME GatesInv, GatesInv', NEW l \in Keys, m[l] # Nil, m'[l] = m[l],
         slot'[m[l]] <=> slot[m[l]], queue'[m[l]] = queue[m[l]],
         \A q \in Procs : at[q] = "inside" /\ gt[q] = m[l] => at'[q] = "inside" /\ gt'[q] = m[l]
  PROVE  Line(l)' = Line(l)
<1>1. LineInv /\ LineInv'
  BY GatesLines, GatesLinesNext
<1>2. CASE ~slot[m[l]]
  BY <1>1, <1>2 DEF LineInv
<1>3. CASE slot[m[l]]
  <2>1. m[l] \in Gates
    BY DEF GatesInv, GatesTypeOK
  <2>2. PICK q \in Procs : at[q] = "inside" /\ gt[q] = m[l]
    BY <1>3, <2>1 DEF GatesInv, Owners
  <2>3. at'[q] = "inside" /\ gt'[q] = m[l]
    BY <2>2
  <2>4. key[q] = l
    BY <2>2 DEF GatesInv, HeldInv, OneKey
  <2>5. key'[q] = l
    BY <2>3 DEF GatesInv, HeldInv, OneKey
  <2>6. Line(l) = <<q>> \o queue[m[l]]
    BY <1>1, <2>2, <2>4, SMTT(30) DEF LineInv
  <2>7. Line(l)' = <<q>> \o queue'[m[l]]
    BY <1>1, <2>3, <2>5, Zenon DEF LineInv
  <2> QED
    BY <2>6, <2>7
<1> QED
  BY <1>2, <1>3

\* A step changes one line.
LEMMA LineStep ==
  ASSUME NEW k \in Keys, NEW new, Line(k)' = new, \A l \in Keys : l # k => Line(l)' = Line(l)
  PROVE  Lines[k] = Line(k) /\ Lines' = [Lines EXCEPT ![k] = new]
  BY Zenon DEF Lines

\* A step changes no line.
LEMMA NoLineStep ==
  ASSUME \A l \in Keys : Line(l)' = Line(l)
  PROVE  Lines' = Lines
  BY DEF Lines

\* A goroutine in front of the select is in no line.
LEMMA NotInLine ==
  ASSUME GatesInv, NEW p \in Procs, at[p] = "select"
  PROVE  \A k \in Keys : \A i \in 1..Len(Lines[k]) : Lines[k][i] # p
<1> SUFFICES ASSUME NEW k \in Keys, NEW i \in 1..Len(Line(k)) PROVE Line(k)[i] # p
  BY DEF Lines
<1>1. Line(k) # <<>>
  BY ListEmpty
<1>2. PICK w \in Procs : at[w] = "inside" /\ Line(k) = <<w>> \o queue[m[k]]
  BY <1>1, LineOf, Zenon
<1>3. m[k] \in Gates /\ queue[m[k]] \in Seq(Procs) /\ Len(queue[m[k]]) \in Nat
  BY <1>1, LineOf, ListLen DEF GatesInv, GatesTypeOK
<1>4. /\ Len(Line(k)) = Len(queue[m[k]]) + 1 /\ Line(k)[1] = w
      /\ \A j \in 2..(Len(queue[m[k]]) + 1) : Line(k)[j] = queue[m[k]][j - 1]
  BY <1>2, <1>3, ListFirst
<1>5. CASE i = 1
  BY <1>2, <1>4, <1>5
<1>6. CASE i # 1
  <2>1. i \in 2..(Len(queue[m[k]]) + 1) /\ i - 1 \in 1..Len(queue[m[k]])
    BY <1>3, <1>4, <1>6
  <2>2. at[queue[m[k]][i - 1]] = "blocked"
    BY <1>3, <2>1 DEF GatesInv, Queues
  <2> QED
    BY <1>4, <2>1, <2>2
<1> QED
  BY <1>5, <1>6

-----------------------------------------------------------------------------
\* To enter is not yet to stand in line.
LEMMA EnterLine ==
  ASSUME GatesInv, GatesInv', NEW p \in Procs, NEW k \in Keys, Enter(p, k)
  PROVE  Lines' = Lines
<1>1. /\ at[p] = "out" /\ gt[p] = Nil
      /\ at' = [at EXCEPT ![p] = "select"]
  BY DEF Enter, GatesInv, HeldInv
<1>2. GatesTypeOK /\ Nil \notin Gates /\ LineInv /\ LineInv'
  BY GateAssumption, GatesLines, GatesLinesNext DEF GatesInv
<1>3. gt' \in [Procs -> Gates \cup {Nil}] /\ \A q \in Procs : q # p => gt'[q] = gt[q]
  BY <1>2 DEF Enter, GatesTypeOK, GatesInv
<1>4. \A q \in Procs : at[q] = "inside" => at'[q] = "inside" /\ gt'[q] = gt[q]
  BY <1>1, <1>2, <1>3 DEF GatesTypeOK
<1> SUFFICES ASSUME NEW l \in Keys PROVE Line(l)' = Line(l)
  BY NoLineStep
<1>5. CASE m[k] # Nil
  <2>1. m' = m /\ slot' = slot /\ queue' = queue
    BY <1>5 DEF Enter
  <2>2. CASE m[l] = Nil
    BY <1>2, <2>1, <2>2 DEF LineInv
  <2>3. CASE m[l] # Nil
    BY <1>4, <2>1, <2>3, SameLine
  <2> QED
    BY <2>2, <2>3
<1>6. CASE m[k] = Nil
  <2>1. PICK g \in Fresh : /\ m' = [m EXCEPT ![k] = g]
                           /\ slot' = [slot EXCEPT ![g] = FALSE]
                           /\ queue' = [queue EXCEPT ![g] = <<>>]
    BY <1>6 DEF Enter
  <2>2. g \in Gates /\ m[l] # g
    BY DEF Fresh
  <2>3. CASE l = k
    <3>1. m'[l] = g /\ ~slot'[g]
      BY <1>2, <2>1, <2>2, <2>3 DEF GatesTypeOK
    <3>2. Line(l)' = <<>>
      BY <1>2, <3>1 DEF LineInv
    <3>3. Line(l) = <<>>
      BY <1>2, <1>6, <2>3 DEF LineInv
    <3> QED
      BY <3>2, <3>3
  <2>4. CASE l # k
    <3>1. m'[l] = m[l]
      BY <1>2, <2>1, <2>4 DEF GatesTypeOK
    <3>2. CASE m[l] = Nil
      BY <1>2, <3>1, <3>2 DEF LineInv
    <3>3. CASE m[l] # Nil
      <4>1. m[l] \in Gates
        BY <1>2, <3>3 DEF GatesTypeOK
      <4>2. slot'[m[l]] = slot[m[l]] /\ queue'[m[l]] = queue[m[l]]
        BY <1>2, <2>1, <2>2, <4>1 DEF GatesTypeOK
      <4> QED
        BY <1>4, <3>1, <3>3, <4>2, SameLine
    <3> QED
      BY <3>2, <3>3
  <2> QED
    BY <2>3, <2>4
<1> QED
  BY <1>5, <1>6

\* A step that touches one gate touches the line of one event.
LEMMA OtherLines ==
  ASSUME GatesInv, GatesInv', NEW k \in Keys, m[k] # Nil, m' = m, gt' = gt,
         \A h \in Gates : h # m[k] => slot'[h] = slot[h] /\ queue'[h] = queue[h],
         \A q \in Procs : gt[q] # m[k] => at'[q] = at[q]
  PROVE  \A l \in Keys : l # k => Line(l)' = Line(l)
<1> SUFFICES ASSUME NEW l \in Keys, l # k PROVE Line(l)' = Line(l)
  BY SMTT(30)
<1>1. CASE m[l] = Nil
  BY <1>1, GatesLines, GatesLinesNext DEF LineInv
<1>2. CASE m[l] # Nil
  <2>1. m[l] \in Gates /\ m[l] # m[k]
    BY <1>2 DEF GatesInv, GatesTypeOK, OneKey
  <2>2. \A q \in Procs : gt[q] = m[l] => at'[q] = at[q]
    BY <2>1
  <2>3. slot'[m[l]] = slot[m[l]] /\ queue'[m[l]] = queue[m[l]]
    BY <2>1
  <2> QED
    BY <1>2, <2>2, <2>3, SameLine
<1> QED
  BY <1>1, <1>2, SMTT(30)

\* A send joins the line at its end.
LEMMA SendLine ==
  ASSUME GatesInv, GatesInv', NEW p \in Procs, Send(p)
  PROVE  \E k \in Keys : Fifo!Join(p, k)
<1> PICK g \in Gates, k \in Keys : gt[p] = g /\ key[p] = k /\ m[k] = g
  BY DEF Send, GatesInv, HeldInv
<1>1. at[p] = "select" /\ m' = m /\ key' = key /\ gt' = gt
  BY DEF Send
<1>2. \/ /\ ~slot[g] /\ queue' = queue
         /\ slot' = [slot EXCEPT ![g] = TRUE]
         /\ at' = [at EXCEPT ![p] = "inside"]
      \/ /\ slot[g] /\ slot' = slot
         /\ queue' = [queue EXCEPT ![g] = Append(@, p)]
         /\ at' = [at EXCEPT ![p] = "blocked"]
  BY SMTT(30) DEF Send, Block
<1>3. GatesTypeOK /\ g # Nil /\ LineInv /\ LineInv'
  BY <1>1, GateAssumption, GatesLines, GatesLinesNext DEF GatesInv
<1>4. queue[g] \in Seq(Procs)
  BY <1>1, <1>3 DEF GatesTypeOK
<1>5. \A q \in Procs : q # p => at'[q] = at[q]
  BY <1>2, <1>3 DEF GatesTypeOK
<1>6. \A h \in Gates : h # g => slot'[h] = slot[h] /\ queue'[h] = queue[h]
  BY <1>2, <1>3 DEF GatesTypeOK
<1>7. \A l \in Keys : l # k => Line(l)' = Line(l)
  <2>1. m[k] # Nil /\ \A h \in Gates : h # m[k] => slot'[h] = slot[h] /\ queue'[h] = queue[h]
    BY <1>3, <1>6
  <2>2. \A q \in Procs : gt[q] # m[k] => at'[q] = at[q]
    BY <1>5
  <2> QED
    BY <1>1, <2>1, <2>2, OtherLines, Zenon
<1>8. Line(k)' = Append(Line(k), p)
  <2>1. CASE ~slot[g] /\ queue' = queue /\ at' = [at EXCEPT ![p] = "inside"]
    <3>1. Line(k) = <<>> /\ queue[g] = <<>>
      BY <1>1, <1>3, <2>1 DEF LineInv, GatesInv, Queues
    <3>2. at'[p] = "inside"
      BY <1>3, <2>1 DEF GatesTypeOK
    <3>3. Line(k)' = <<p>> \o queue'[g]
      BY <1>1, <1>3, <3>2, SMTT(30) DEF LineInv
    <3>4. <<p>> \o <<>> = Append(<<>>, p)
      OBVIOUS
    <3> QED
      BY <2>1, <3>1, <3>3, <3>4, ZenonT(60)
  <2>2. CASE /\ slot[g] /\ queue' = [queue EXCEPT ![g] = Append(@, p)]
             /\ at' = [at EXCEPT ![p] = "blocked"]
    <3>1. PICK w \in Procs : at[w] = "inside" /\ gt[w] = g
      BY <1>1, <2>2, SMTT(30) DEF GatesInv, Owners
    <3>2. key[w] = k
      BY <1>1, <1>3, <3>1 DEF GatesInv, HeldInv, OneKey
    <3>3. at'[w] = "inside"
      BY <1>1, <1>5, <3>1, SMTT(30)
    <3>4. Line(k) = <<w>> \o queue[g]
      <4>1. Line(key[w]) = <<w>> \o queue[gt[w]]
        BY <1>3, <3>1, Zenon DEF LineInv
      <4> QED
        BY <3>1, <3>2, <4>1
    <3>5. Line(k)' = <<w>> \o queue'[g]
      <4>1. (Line(key[w]) = <<w>> \o queue[gt[w]])'
        BY <1>3, <3>3, Zenon DEF LineInv
      <4> QED
        BY <1>1, <3>1, <3>2, <4>1
    <3>6. queue'[g] = Append(queue[g], p)
      BY <1>1, <1>3, <2>2 DEF GatesTypeOK
    <3>7. <<w>> \o Append(queue[g], p) = Append(<<w>> \o queue[g], p)
      BY <1>4, ListFirstAppend
    <3> QED
      BY <3>4, <3>5, <3>6, <3>7, SMTT(30)
  <2> QED
    BY <1>2, <2>1, <2>2
<1>9. Lines[k] = Line(k) /\ Lines' = [Lines EXCEPT ![k] = Append(Line(k), p)]
  BY <1>1, <1>7, <1>8, LineStep, SMTT(30)
<1>10. Lines' = [Lines EXCEPT ![k] = Append(@, p)]
  BY <1>9
<1>11. \A l \in Keys : \A i \in 1..Len(Lines[l]) : Lines[l][i] # p
  BY <1>1, NotInLine, SMTT(30)
<1>12. Fifo!Join(p, k)
  BY <1>10, <1>11 DEF Fifo!Join, Fifo!InLine, Lines
<1> QED
  BY <1>1, <1>12, SMTT(30)

\* A time-out before the send changes no line; a blocked sender gives up.
LEMMA TimeOutLine ==
  ASSUME GatesInv, GatesInv', NEW p \in Procs, TimeOut(p)
  PROVE  Lines' = Lines \/ \E k \in Keys : Fifo!GiveUp(k)
<1> PICK g \in Gates, k \in Keys : gt[p] = g /\ key[p] = k /\ m[k] = g
  BY DEF TimeOut, GatesInv, HeldInv
<1>1. /\ at[p] \in {"select", "blocked"}
      /\ m' = m /\ key' = key /\ gt' = gt /\ slot' = slot
      /\ at' = [at EXCEPT ![p] = "timedOut"]
  BY DEF TimeOut
<1>2. \/ queue' = queue
      \/ \E i \in DOMAIN queue[g] :
           queue[g][i] = p /\ queue' = [queue EXCEPT ![g] = Without(@, i)]
  BY DEF TimeOut
<1>3. GatesTypeOK /\ g # Nil /\ LineInv /\ LineInv'
  BY GateAssumption, GatesLines, GatesLinesNext DEF GatesInv
<1>4. \A q \in Procs : q # p => at'[q] = at[q]
  BY <1>1, <1>3 DEF GatesTypeOK
<1>5. \A h \in Gates : h # g => slot'[h] = slot[h] /\ queue'[h] = queue[h]
  BY <1>1, <1>2, <1>3 DEF GatesTypeOK
<1>6. \A l \in Keys : l # k => Line(l)' = Line(l)
  BY <1>1, <1>3, <1>4, <1>5, OtherLines
<1>7. CASE queue' = queue
  <2>1. \A q \in Procs : at[q] = "inside" => at'[q] = "inside"
    BY <1>1, <1>4
  <2>2. Line(k)' = Line(k)
    BY <1>1, <1>3, <1>7, <2>1, SameLine, SMTT(30)
  <2> QED
    BY <1>6, <2>2, NoLineStep
<1>8. CASE \E i \in DOMAIN queue[g] :
             queue[g][i] = p /\ queue' = [queue EXCEPT ![g] = Without(@, i)]
  <2>1. queue[g] \in Seq(Procs) /\ DOMAIN queue[g] = 1..Len(queue[g]) /\ Len(queue[g]) \in Nat
    BY <1>3, ListLen DEF GatesTypeOK
  <2>2. PICK n \in 1..Len(queue[g]) : queue' = [queue EXCEPT ![g] = Without(@, n)]
    BY <1>8, <2>1, Zenon
  <2>3. queue'[g] = Without(queue[g], n)
    BY <1>3, <2>2 DEF GatesTypeOK
  <2>4. slot[g]
    <3>1. queue[g] # <<>>
      BY <2>2, ListEmpty
    <3> QED
      BY <3>1 DEF GatesInv, Queues
  <2>5. PICK w \in Procs : at[w] = "inside" /\ gt[w] = g
    BY <2>4 DEF GatesInv, Owners
  <2>6. key[w] = k /\ at'[w] = "inside"
    BY <1>1, <1>3, <1>4, <2>5, SMTT(30) DEF GatesInv, HeldInv, OneKey
  <2>7. Line(k) = <<w>> \o queue[g]
    BY <1>3, <2>5, <2>6, SMTT(30) DEF LineInv
  <2>8. Line(k)' = <<w>> \o queue'[g]
    BY <1>1, <1>3, <2>5, <2>6, Zenon DEF LineInv
  <2>9. <<w>> \o Without(queue[g], n) = Without(<<w>> \o queue[g], n + 1)
    <3>1. \A s \in Seq(Procs) : \A i \in 1..Len(s) :
            <<w>> \o Without(s, i) = Without(<<w>> \o s, i + 1)
      BY <2>5, ListFirstWithout, ZenonT(60)
    <3> QED
      BY <2>1, <2>2, <3>1, Zenon
  <2>10. Line(k)' = Without(Line(k), n + 1)
    BY <2>3, <2>7, <2>8, <2>9, ZenonT(60)
  <2>11. Lines[k] = Line(k) /\ Lines' = [Lines EXCEPT ![k] = Without(Line(k), n + 1)]
    BY <1>6, <2>10, LineStep
  <2>12. n + 1 \in 2..Len(Line(k))
    <3>1. Len(Line(k)) = Len(queue[g]) + 1
      BY <2>1, <2>7, ListFirst
    <3> QED
      BY <2>1, <3>1
  <2>13. n + 1 \in 2..Len(Lines[k]) /\ Lines' = [Lines EXCEPT ![k] = Without(@, n + 1)]
    BY <2>11, <2>12
  <2>14. \A s, i : Fifo!Without(s, i) = Without(s, i)
    BY DEF Without, Fifo!Without
  <2>15. Lines' = [Lines EXCEPT ![k] = Fifo!Without(@, n + 1)]
    BY <2>13, <2>14, Zenon
  <2>16. Fifo!GiveUp(k)
    BY <2>13, <2>15, Zenon DEF Fifo!GiveUp, Lines
  <2> QED
    BY <2>16
<1> QED
  BY <1>2, <1>7, <1>8, SMTT(30)

\* Whoever leaves was the first of the line, and the second is next.
LEMMA LeaveLine ==
  ASSUME GatesInv, GatesInv', NEW p \in Procs, Leave(p)
  PROVE  \E k \in Keys : Fifo!Depart(k)
<1> PICK g \in Gates, k \in Keys : gt[p] = g /\ key[p] = k /\ m[k] = g
  BY DEF Leave, GatesInv, HeldInv
<1>1. at[p] = "inside" /\ m' = m /\ key' = key /\ gt' = gt
  BY DEF Leave
<1>2. /\ slot' = [slot EXCEPT ![g] = Woken(queue[g]) # {}]
      /\ queue' = [queue EXCEPT ![g] = IF Woken(queue[g]) = {} THEN @ ELSE Tail(@)]
      /\ at' = [q \in Procs |-> IF q = p THEN "leaving"
                                ELSE IF q \in Woken(queue[g]) THEN "inside" ELSE at[q]]
  BY DEF Leave
<1>3. GatesTypeOK /\ g # Nil /\ LineInv /\ LineInv'
  BY GateAssumption, GatesLines, GatesLinesNext DEF GatesInv
<1>4. queue[g] \in Seq(Procs)
  BY <1>3 DEF GatesTypeOK
<1>5. \A q \in Woken(queue[g]) : q \in Procs /\ gt[q] = g
  <2>1. CASE queue[g] = <<>>
    BY <2>1 DEF Woken
  <2>2. CASE queue[g] # <<>>
    <3>1. Head(queue[g]) = queue[g][1] /\ Head(queue[g]) \in Procs /\ 1 \in 1..Len(queue[g])
      BY <1>4, <2>2, ListTail, ListEmpty, SMTT(30)
    <3>2. gt[queue[g][1]] = g
      BY <3>1 DEF GatesInv, Queues
    <3> QED
      BY <2>2, <3>1, <3>2 DEF Woken
  <2> QED
    BY <2>1, <2>2
<1>6. \A h \in Gates : h # g => slot'[h] = slot[h] /\ queue'[h] = queue[h]
  BY <1>2, <1>3 DEF GatesTypeOK
<1>7. \A q \in Procs : gt[q] # g => at'[q] = at[q]
  BY <1>2, <1>5, SMTT(30)
<1>8. \A l \in Keys : l # k => Line(l)' = Line(l)
  <2>1. m[k] # Nil /\ \A h \in Gates : h # m[k] => slot'[h] = slot[h] /\ queue'[h] = queue[h]
    BY <1>3, <1>6
  <2>2. \A q \in Procs : gt[q] # m[k] => at'[q] = at[q]
    BY <1>7
  <2> QED
    BY <1>1, <2>1, <2>2, OtherLines, Zenon
<1>9. Line(k) = <<p>> \o queue[g]
  BY <1>1, <1>3 DEF LineInv
<1>10. Tail(Line(k)) = queue[g] /\ Line(k) # <<>>
  BY <1>4, <1>9, ListFirstTail
<1>11. Line(k)' = queue[g]
  <2>1. CASE queue[g] = <<>>
    <3>1. Woken(queue[g]) = {}
      BY <2>1 DEF Woken
    <3>2. ~slot'[g]
      BY <1>2, <1>3, <3>1, ZenonT(60) DEF GatesTypeOK
    <3>3. Line(k)' = <<>>
      BY <1>1, <1>3, <3>2 DEF LineInv
    <3> QED
      BY <2>1, <3>3
  <2>2. CASE queue[g] # <<>>
    <3>1. PICK w : w = Head(queue[g])
      OBVIOUS
    <3>2. Woken(queue[g]) = {w}
      BY <2>2, <3>1 DEF Woken
    <3>3. w \in Procs /\ gt[w] = g
      BY <1>5, <3>2
    <3>4. w # p
      <4>1. at[w] = "blocked"
        <5>1. w = queue[g][1] /\ 1 \in 1..Len(queue[g])
          BY <1>4, <2>2, <3>1, ListTail, ListEmpty, SMTT(30)
        <5> QED
          BY <5>1 DEF GatesInv, Queues
      <4> QED
        BY <1>1, <4>1
    <3>5. at'[w] = "inside"
      BY <1>2, <3>2, <3>3, <3>4, SMTT(30)
    <3>6. queue'[g] = Tail(queue[g])
      BY <1>2, <1>3, <3>2, SMTT(30) DEF GatesTypeOK
    <3>7. key[w] = k
      <4>1. at[w] # "out"
        BY <1>3, <3>3, SMTT(30) DEF GatesInv, HeldInv
      <4> QED
        BY <1>3, <3>3, <4>1, SMTT(30) DEF GatesInv, HeldInv, OneKey
    <3>8. Line(k)' = <<w>> \o queue'[g]
      BY <1>1, <1>3, <3>3, <3>5, <3>7, SMTT(30) DEF LineInv
    <3>9. <<Head(queue[g])>> \o Tail(queue[g]) = queue[g]
      BY <1>4, <2>2, ListHeadTail
    <3> QED
      BY <3>1, <3>6, <3>8, <3>9
  <2> QED
    BY <2>1, <2>2
<1>12. Line(k)' = Tail(Line(k))
  BY <1>10, <1>11
<1>13. Lines[k] = Line(k) /\ Lines' = [Lines EXCEPT ![k] = Tail(Line(k))]
  BY <1>8, <1>12, LineStep
<1>14. Lines[k] # <<>> /\ Lines' = [Lines EXCEPT ![k] = Tail(@)]
  BY <1>10, <1>13
<1>15. Fifo!Depart(k)
  BY <1>14 DEF Fifo!Depart, Lines
<1> QED
  BY <1>15

\* Whoever releases stands in no line any more.
LEMMA ReleaseLine ==
  ASSUME GatesInv, GatesInv', NEW p \in Procs, release(p)
  PROVE  Lines' = Lines
<1> PICK g \in Gates, k \in Keys : gt[p] = g /\ key[p] = k /\ m[k] = g
  BY DEF release, GatesInv, HeldInv
<1>1. /\ at[p] \in {"leaving", "timedOut"}
      /\ slot' = slot /\ queue' = queue
      /\ m' = IF refs[g] = 1 THEN [m EXCEPT ![k] = Nil] ELSE m
      /\ at' = [at EXCEPT ![p] = "out"]
      /\ gt' = [gt EXCEPT ![p] = Nil]
  BY DEF release, Unlink
<1>2. GatesTypeOK /\ g # Nil /\ LineInv /\ LineInv'
  BY GateAssumption, GatesLines, GatesLinesNext DEF GatesInv
<1>3. \A q \in Procs : at[q] = "inside" => at'[q] = "inside" /\ gt'[q] = gt[q] /\ q # p
  BY <1>1, <1>2 DEF GatesTypeOK
<1> SUFFICES ASSUME NEW l \in Keys PROVE Line(l)' = Line(l)
  BY NoLineStep
<1>4. CASE m'[l] = m[l]
  <2>1. CASE m[l] = Nil
    BY <1>2, <1>4, <2>1, SMTT(30) DEF LineInv
  <2>2. CASE m[l] # Nil
    BY <1>1, <1>3, <1>4, <2>2, SameLine, SMTT(30)
  <2> QED
    BY <2>1, <2>2
<1>5. CASE m'[l] # m[l]
  <2>1. l = k /\ refs[g] = 1 /\ m'[l] = Nil
    BY <1>1, <1>2, <1>5, SMTT(30) DEF GatesTypeOK
  <2>2. \A q \in Procs : gt[q] = g => q = p
    <3>1. refs[g] = Cardinality(Pointing(g)) /\ p \in Pointing(g)
      BY <1>2 DEF GatesInv, Counts, Pointing
    <3>2. \E x : Pointing(g) = {x}
      BY <2>1, <3>1, PointingFinite, FS_Singleton, ZenonT(60)
    <3> QED
      BY <3>1, <3>2 DEF Pointing
  <2>3. ~slot[g]
    BY <1>1, <2>2, SMTT(30) DEF GatesInv, Owners
  <2>4. Line(l) = <<>>
    BY <1>2, <2>1, <2>3 DEF LineInv
  <2>5. Line(l)' = <<>>
    BY <1>2, <2>1 DEF LineInv
  <2> QED
    BY <2>4, <2>5
<1> QED
  BY <1>4, <1>5

-----------------------------------------------------------------------------
\* The gates of gate.go serve the requests for an event one at a time in the
\* order in which their sends block, whatever gives up in between.
THEOREM GatesAreLines == SpecGates => FirstComeFirstServed
<1>1. InitGates => Fifo!Init
  <2> SUFFICES ASSUME InitGates PROVE Fifo!Init
    OBVIOUS
  <2>1. \A k \in Keys : Line(k) = <<>>
    BY DEF InitGates, Line
  <2> QED
    BY <2>1 DEF Fifo!Init
<1>2. GatesInv /\ GatesInv' /\ [NextGates]_gateVars => [Fifo!Next]_Lines
  <2> SUFFICES ASSUME GatesInv, GatesInv', [NextGates]_gateVars PROVE [Fifo!Next]_Lines
    OBVIOUS
  <2>1. CASE UNCHANGED gateVars
    BY <2>1 DEF gateVars, Lines, Line, Inside
  <2>2. CASE NextGates
    <3>1. PICK p \in Procs : (\E k \in Keys : Enter(p, k))
                             \/ Send(p) \/ TimeOut(p) \/ Leave(p) \/ release(p)
      BY <2>2 DEF NextGates
    <3>2. CASE \E k \in Keys : Enter(p, k)
      BY <3>2, EnterLine
    <3>3. CASE Send(p)
      BY <3>3, SendLine DEF Fifo!Next
    <3>4. CASE TimeOut(p)
      BY <3>4, TimeOutLine DEF Fifo!Next
    <3>5. CASE Leave(p)
      BY <3>5, LeaveLine DEF Fifo!Next
    <3>6. CASE release(p)
      BY <3>6, ReleaseLine
    <3> QED
      BY <3>1, <3>2, <3>3, <3>4, <3>5, <3>6, SMTT(30)
  <2> QED
    BY <2>1, <2>2
<1>3. GatesInv /\ GatesInv' /\ [NextGates]_gateVars => [Fifo!Next]_[k \in Keys |-> Line(k)]
  BY <1>2 DEF Lines
<1> QED
  BY <1>1, <1>3, GatesSafe, PTL DEF SpecGates, FirstComeFirstServed, Fifo!Spec
=============================================================================
