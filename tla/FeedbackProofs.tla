--------------------------- MODULE FeedbackProofs ---------------------------
(***************************************************************************)
(* Proofs about the two loops over the feedback list of a codec, for a     *)
(* list of any length: RemoveFeedbackRemb, which takes entries out of the  *)
(* array it walks through, and the loop of CreateProducer that leaves nack *)
(* out for audio.                                                          *)
(*                                                                         *)
(* A loop is a recursive function of the number of its passes, which is a  *)
(* CHOOSE to the prover: that there is such a function at all is shown for *)
(* loops in general, by induction on the passes.                           *)
(***************************************************************************)
EXTENDS MediaParameters, TLAPS, SequenceTheorems,
        WellFoundedInduction, NaturalsInduction

\* A set that has 0, and with each number below n the next one, has all of 0..n.
LEMMA InductionTo ==
    ASSUME NEW n \in Nat, NEW T, 0 \in T, \A k \in 1..n : k - 1 \in T => k \in T
    PROVE  \A k \in 0..n : k \in T
<1> DEFINE S == (0..n) \ T
<1> SUFFICES ASSUME S # {} PROVE FALSE
  OBVIOUS
<1>1. PICK x \in S : \A y \in S : <<y, x>> \notin OpToRel(<, Nat)
  <2>1. S \subseteq Nat
    OBVIOUS
  <2> QED
    BY <2>1, NatLessThanWellFounded, WFMin
<1>2. x \in 1..n /\ x - 1 \in 0..n /\ x - 1 \in Nat /\ x \in Nat /\ x - 1 < x
  OBVIOUS
<1>3. x - 1 \notin S
  BY <1>1, <1>2 DEF OpToRel
<1> QED
  BY <1>2, <1>3

\* The courses a loop of n passes can take over the states S.
Courses(n, S, first, step) ==
    {g \in [0..n -> S] : g[0] = first /\ \A k \in 1..n : g[k] = step[k][g[k - 1]]}

\* Every loop has a course.
LEMMA CourseExists ==
    ASSUME NEW n \in Nat, NEW S, NEW first \in S, NEW step \in [1..n -> [S -> S]]
    PROVE  Courses(n, S, first, step) # {}
<1> DEFINE Upto(g, k) == g[0] = first /\ \A j \in 1..k : g[j] = step[j][g[j - 1]]
           T == {k \in 0..n : \E g \in [0..k -> S] : Upto(g, k)}
<1>1. 0 \in T
  <2> DEFINE g == [j \in 0..0 |-> first]
  <2>1. g \in [0..0 -> S] /\ Upto(g, 0)
    OBVIOUS
  <2> HIDE DEF g
  <2> QED
    BY <2>1
<1>2. ASSUME NEW k \in 1..n, k - 1 \in T PROVE k \in T
  <2>1. PICK g \in [0..(k - 1) -> S] : Upto(g, k - 1)
    BY <1>2
  <2> DEFINE h == [j \in 0..k |-> IF j = k THEN step[k][g[k - 1]] ELSE g[j]]
  <2>2. g[k - 1] \in S /\ step[k] \in [S -> S]
    OBVIOUS
  <2>3. h \in [0..k -> S]
    BY <2>2
  <2>4. h[0] = first
    BY <2>1
  <2>5. ASSUME NEW j \in 1..k PROVE h[j] = step[j][h[j - 1]]
    <3>1. CASE j = k
      BY <3>1
    <3>2. CASE j # k
      <4>1. j \in 1..(k - 1) /\ j - 1 \in 0..k /\ j - 1 # k
        BY <3>2
      <4> QED
        BY <2>1, <3>2, <4>1
    <3> QED
      BY <3>1, <3>2
  <2> HIDE DEF h
  <2> QED
    BY <2>3, <2>4, <2>5
<1> HIDE DEF T
<1>3. \A k \in 0..n : k \in T
  BY <1>1, <1>2, InductionTo
<1>4. n \in T
  BY <1>3
<1> QED
  BY <1>4 DEF T, Courses

-----------------------------------------------------------------------------
(* RemoveFeedbackRemb.                                                      *)

\* The states of its loop over a list of m entries
LoopStates(m) == [a : [1..m -> STRING], n : 0..m, i : 1..(m + 1)]

\* A pass stays within the array.
LEMMA PassStates ==
    ASSUME NEW m \in Nat, NEW s \in LoopStates(m)
    PROVE  RemovalPass(s) \in LoopStates(m)
<1>1. /\ s.a \in [1..m -> STRING] /\ s.n \in 0..m /\ s.i \in 1..(m + 1)
      /\ s = [a |-> s.a, n |-> s.n, i |-> s.i]
  BY DEF LoopStates
<1>2. CASE s.i > s.n
  BY <1>2 DEF RemovalPass
<1>3. CASE s.i <= s.n /\ s.a[s.i] = "goog-remb"
  <2> DEFINE b == [j \in DOMAIN s.a |-> IF j \in s.i..(s.n - 1) THEN s.a[j + 1] ELSE s.a[j]]
  <2>1. b \in [1..m -> STRING]
    <3>1. \A j \in 1..m : j \in s.i..(s.n - 1) => j + 1 \in 1..m
      BY <1>1
    <3> QED
      BY <1>1, <3>1
  <2>2. RemovalPass(s) = [a |-> b, n |-> s.n - 1, i |-> s.i]
    <3>1. RemovalPass(s) = DropEntry(s)
      BY <1>1, <1>3 DEF RemovalPass
    <3>2. DropEntry(s) = [[s EXCEPT !.a = b] EXCEPT !.n = s.n - 1]
      BY <1>1 DEF DropEntry
    <3> HIDE DEF b
    <3> QED
      BY <1>1, <3>1, <3>2
  <2>3. s.n - 1 \in 0..m
    BY <1>1, <1>3
  <2> HIDE DEF b
  <2> QED
    BY <1>1, <2>1, <2>2, <2>3 DEF LoopStates
<1>4. CASE s.i <= s.n /\ s.a[s.i] # "goog-remb"
  <2>1. RemovalPass(s) = [a |-> s.a, n |-> s.n, i |-> s.i + 1]
    BY <1>1, <1>4 DEF RemovalPass
  <2>2. s.i + 1 \in 1..(m + 1)
    BY <1>1, <1>4
  <2> QED
    BY <1>1, <2>1, <2>2 DEF LoopStates
<1> QED
  BY <1>1, <1>2, <1>3, <1>4

\* The course of the loop.
LEMMA PassesExist ==
    ASSUME NEW m \in Nat, NEW first \in LoopStates(m)
    PROVE  \E g \in [0..m -> LoopStates(m)] :
              g[0] = first /\ \A k \in 1..m : g[k] = RemovalPass(g[k - 1])
<1> DEFINE S == LoopStates(m)
           step == [k \in 1..m |-> [s \in S |-> RemovalPass(s)]]
<1>1. step \in [1..m -> [S -> S]]
  BY PassStates
<1>2. \A k \in 1..m : \A s \in S : step[k][s] = RemovalPass(s)
  OBVIOUS
<1> HIDE DEF step
<1>3. PICK g : g \in Courses(m, S, first, step)
  BY <1>1, CourseExists
<1>4. \A k \in 1..m : g[k - 1] \in S
  BY <1>3 DEF Courses
<1> QED
  BY <1>2, <1>3, <1>4 DEF Courses

\* RemoveFeedbackRemb returns the array that the last pass has left.
LEMMA RemovalCourse ==
    ASSUME NEW list \in Seq(STRING)
    PROVE  \E g \in [0..Len(list) -> LoopStates(Len(list))] :
              /\ g[0] = [a |-> list, n |-> Len(list), i |-> 1]
              /\ \A k \in 1..Len(list) : g[k] = RemovalPass(g[k - 1])
              /\ RemoveFeedbackRemb(list) = g[Len(list)].a
<1> DEFINE m == Len(list)
           base == [a |-> list, n |-> m, i |-> 1]
           Equation(f) == f = [k \in 0..m |-> IF k = 0 THEN base ELSE RemovalPass(f[k - 1])]
           F == CHOOSE f : f = [k \in 0..Len(list) |->
                    IF k = 0 THEN [a |-> list, n |-> Len(list), i |-> 1]
                    ELSE RemovalPass(f[k - 1])]
<1>1. m \in Nat /\ base \in LoopStates(m)
  BY DEF LoopStates
<1>2. RemoveFeedbackRemb(list) = F[Len(list)].a
  BY DEF RemoveFeedbackRemb
<1>3. PICK g \in [0..m -> LoopStates(m)] :
        g[0] = base /\ \A k \in 1..m : g[k] = RemovalPass(g[k - 1])
  BY <1>1, PassesExist
<1>4. Equation(g)
  <2> HIDE DEF base, m
  <2> QED
    BY <1>1, <1>3
<1>5. Equation(F)
  BY <1>4
<1> HIDE DEF F
<1>6. F[0] = base /\ \A k \in 1..m : F[k] = RemovalPass(F[k - 1])
  <2> HIDE DEF base, m
  <2> QED
    BY <1>1, <1>5
<1>7. F \in [0..m -> LoopStates(m)]
  <2> DEFINE T == {k \in 0..m : F[k] \in LoopStates(m)}
  <2>1. 0 \in T
    BY <1>1, <1>6
  <2>2. ASSUME NEW k \in 1..m, k - 1 \in T PROVE k \in T
    BY <1>1, <1>6, <2>2, PassStates
  <2>3. \A k \in 0..m : k \in T
    <3> HIDE DEF T
    <3> QED
      BY <1>1, <2>1, <2>2, InductionTo
  <2>4. \A k \in 0..m : F[k] \in LoopStates(m)
    BY <2>3
  <2> HIDE DEF base, m
  <2> QED
    BY <1>5, <2>4
<1> QED
  BY <1>2, <1>6, <1>7

\* After k passes in state s the loop has looked at the first k entries of the
\* list: what it kept of them is before s.i, what it has yet to look at is from
\* s.i to s.n, and behind that are copies of the list's last entry.
AfterPasses(list, k, s) ==
    LET removed == Len(list) - s.n IN
    /\ s.i + removed = k + 1
    /\ \A j \in 1..(s.i - 1) : s.a[j] # "goog-remb"
    /\ \A j \in s.i..s.n : s.a[j] = list[j + removed]
    /\ \A j \in (s.n + 1)..Len(list) : s.a[j] = list[Len(list)]
    /\ \A e \in 1..k : list[e] # "goog-remb" => \E j \in 1..(s.i - 1) : s.a[j] = list[e]

\* A pass that has something to look at goes one entry on.
LEMMA PassGoesOn ==
    ASSUME NEW list \in Seq(STRING), NEW s \in LoopStates(Len(list)),
           NEW k \in 1..Len(list), AfterPasses(list, k - 1, s)
    PROVE  AfterPasses(list, k, RemovalPass(s))
<1> DEFINE m == Len(list)
           t == RemovalPass(s)
<1>1. /\ s.a \in [1..m -> STRING] /\ s.n \in 0..m /\ s.i \in 1..(m + 1) /\ m \in Nat
      /\ s = [a |-> s.a, n |-> s.n, i |-> s.i]
  BY DEF LoopStates
<1>2. /\ s.i + (m - s.n) = k /\ s.i \in 1..s.n
      /\ \A j \in 1..(s.i - 1) : s.a[j] # "goog-remb"
      /\ \A j \in s.i..s.n : s.a[j] = list[j + (m - s.n)]
      /\ \A j \in (s.n + 1)..m : s.a[j] = list[m]
      /\ \A e \in 1..(k - 1) :
            list[e] # "goog-remb" => \E j \in 1..(s.i - 1) : s.a[j] = list[e]
  BY <1>1 DEF AfterPasses
<1>3. s.a[s.i] = list[k] /\ s.a[s.n] = list[m]
  <2>1. s.i \in s.i..s.n /\ s.n \in s.i..s.n /\ s.n + (m - s.n) = m
    BY <1>1, <1>2
  <2>2. s.a[s.i] = list[s.i + (m - s.n)] /\ s.a[s.n] = list[s.n + (m - s.n)]
    BY <1>2, <2>1
  <2> QED
    BY <1>2, <2>1, <2>2
<1>4. CASE s.a[s.i] = "goog-remb"
  <2>1. PICK b : b = [j \in 1..m |-> IF j \in s.i..(s.n - 1) THEN s.a[j + 1] ELSE s.a[j]]
    OBVIOUS
  <2>2. t.a = b /\ t.n = s.n - 1 /\ t.i = s.i
    <3>1. t = DropEntry(s)
      BY <1>1, <1>2, <1>4 DEF RemovalPass
    <3>2. DOMAIN s.a = 1..m
      BY <1>1
    <3>3. DropEntry(s) = [[s EXCEPT !.a = b] EXCEPT !.n = s.n - 1]
      BY <1>1, <2>1, <3>2 DEF DropEntry
    <3> QED
      BY <1>1, <3>1, <3>3
  <2> HIDE DEF t
  <2>3. t.i + (m - t.n) = k + 1
    BY <1>1, <1>2, <2>2
  <2>4. \A j \in 1..(t.i - 1) : t.a[j] = s.a[j]
    BY <1>1, <1>2, <2>1, <2>2
  <2>5. \A j \in t.i..t.n : t.a[j] = list[j + (m - t.n)]
    <3> SUFFICES ASSUME NEW j \in t.i..t.n PROVE t.a[j] = list[j + (m - t.n)]
      OBVIOUS
    <3>1. j \in s.i..(s.n - 1) /\ j \in 1..m /\ j + 1 \in s.i..s.n
      BY <1>1, <1>2, <2>2
    <3>2. t.a[j] = s.a[j + 1]
      BY <2>1, <2>2, <3>1
    <3>3. (j + 1) + (m - s.n) = j + (m - t.n)
      BY <1>1, <2>2, <3>1
    <3> QED
      BY <1>2, <3>1, <3>2, <3>3
  <2>6. \A j \in (t.n + 1)..m : t.a[j] = list[m]
    <3> SUFFICES ASSUME NEW j \in (t.n + 1)..m PROVE t.a[j] = list[m]
      OBVIOUS
    <3>1. j \in 1..m /\ j \notin s.i..(s.n - 1) /\ (j = s.n \/ j \in (s.n + 1)..m)
      BY <1>1, <1>2, <2>2
    <3>2. t.a[j] = s.a[j]
      BY <2>1, <2>2, <3>1
    <3> QED
      BY <1>2, <1>3, <3>1, <3>2
  <2>7. \A e \in 1..k : list[e] # "goog-remb" => e \in 1..(k - 1)
    <3>1. list[k] = "goog-remb"
      BY <1>3, <1>4
    <3>2. \A e \in 1..k : e = k \/ e \in 1..(k - 1)
      OBVIOUS
    <3> QED
      BY <3>1, <3>2
  <2>8. t.i = s.i
    BY <2>2
  <2>9. \A j \in 1..(t.i - 1) : t.a[j] # "goog-remb"
    BY <1>2, <2>4, <2>8
  <2>10. \A e \in 1..k : list[e] # "goog-remb" => \E j \in 1..(t.i - 1) : t.a[j] = list[e]
    BY <1>2, <2>4, <2>7, <2>8
  <2> HIDE DEF m
  <2> QED
    BY <2>3, <2>5, <2>6, <2>9, <2>10 DEF AfterPasses, t, m
<1>5. CASE s.a[s.i] # "goog-remb"
  <2>1. t.a = s.a /\ t.n = s.n /\ t.i = s.i + 1
    BY <1>1, <1>2, <1>5 DEF RemovalPass
  <2> HIDE DEF t
  <2>2. t.i + (m - t.n) = k + 1
    BY <1>1, <1>2, <2>1
  <2>3. \A j \in 1..(t.i - 1) : t.a[j] # "goog-remb"
    <3>1. \A j \in 1..(t.i - 1) : j = s.i \/ j \in 1..(s.i - 1)
      BY <1>1, <2>1
    <3> QED
      BY <1>2, <1>5, <2>1, <3>1
  <2>4. \A j \in t.i..t.n : t.a[j] = list[j + (m - t.n)]
    <3>1. \A j \in t.i..t.n : j \in s.i..s.n
      BY <1>1, <2>1
    <3> QED
      BY <1>2, <2>1, <3>1
  <2>5. \A j \in (t.n + 1)..m : t.a[j] = list[m]
    BY <1>2, <2>1
  <2>6. ASSUME NEW e \in 1..k, list[e] # "goog-remb"
        PROVE  \E j \in 1..(t.i - 1) : t.a[j] = list[e]
    <3>1. CASE e = k
      <4>1. s.i \in 1..(t.i - 1)
        BY <1>1, <2>1
      <4> QED
        BY <1>3, <2>1, <3>1, <4>1
    <3>2. CASE e # k
      <4>1. e \in 1..(k - 1)
        BY <3>2
      <4>2. PICK j \in 1..(s.i - 1) : s.a[j] = list[e]
        BY <1>2, <2>6, <4>1
      <4>3. j \in 1..(t.i - 1)
        BY <1>1, <2>1
      <4> QED
        BY <2>1, <4>2, <4>3
    <3> QED
      BY <3>1, <3>2
  <2> QED
    BY <2>2, <2>3, <2>4, <2>5, <2>6 DEF AfterPasses, t
<1> QED
  BY <1>4, <1>5

\* What RemoveFeedbackRemb makes of a list: it keeps the length, every entry that
\* is not goog-remb is still there, and goog-remb is only if it was the last one.
LEMMA RembIsRemoved ==
    ASSUME NEW list \in Seq(STRING)
    PROVE  /\ RemoveFeedbackRemb(list) \in Seq(STRING)
           /\ Len(RemoveFeedbackRemb(list)) = Len(list)
           /\ ToSet(list) \ {"goog-remb"} \subseteq ToSet(RemoveFeedbackRemb(list))
           /\ "goog-remb" \in ToSet(RemoveFeedbackRemb(list)) => Last(list) = "goog-remb"
<1> DEFINE m == Len(list)
           c == RemoveFeedbackRemb(list)
<1>1. PICK g \in [0..m -> LoopStates(m)] :
        /\ g[0] = [a |-> list, n |-> m, i |-> 1]
        /\ \A k \in 1..m : g[k] = RemovalPass(g[k - 1])
        /\ c = g[m].a
  BY RemovalCourse
<1>2. m \in Nat /\ DOMAIN list = 1..m
  OBVIOUS
<1>3. AfterPasses(list, m, g[m])
  <2> DEFINE T == {k \in 0..m : AfterPasses(list, k, g[k])}
  <2>1. 0 \in T
    <3>1. g[0].a = list /\ g[0].n = m /\ g[0].i = 1
      BY <1>1
    <3>2. AfterPasses(list, 0, g[0])
      BY <1>2, <3>1 DEF AfterPasses
    <3> QED
      BY <1>2, <3>2
  <2>2. ASSUME NEW k \in 1..m, k - 1 \in T PROVE k \in T
    <3>1. g[k - 1] \in LoopStates(m) /\ AfterPasses(list, k - 1, g[k - 1])
      BY <2>2
    <3>2. AfterPasses(list, k, RemovalPass(g[k - 1]))
      BY <3>1, PassGoesOn
    <3>3. g[k] = RemovalPass(g[k - 1])
      BY <1>1
    <3> QED
      BY <3>2, <3>3
  <2>3. \A k \in 0..m : k \in T
    <3> HIDE DEF T, m
    <3> QED
      BY <1>2, <2>1, <2>2, InductionTo
  <2> QED
    BY <1>2, <2>3
<1>4. g[m] \in LoopStates(m)
  BY <1>2
<1>5. /\ c \in [1..m -> STRING] /\ g[m].n \in 0..m /\ g[m].i = g[m].n + 1
      /\ \A j \in 1..g[m].n : c[j] # "goog-remb"
      /\ \A j \in (g[m].n + 1)..m : c[j] = list[m]
      /\ \A e \in 1..m : list[e] # "goog-remb" => \E j \in 1..g[m].n : c[j] = list[e]
  <2>1. g[m].a = c /\ g[m].a \in [1..m -> STRING] /\ g[m].n \in 0..m /\ g[m].i \in 1..(m + 1)
    BY <1>1, <1>4 DEF LoopStates
  <2>2. g[m].i = g[m].n + 1 /\ g[m].i - 1 = g[m].n
    <3>1. g[m].i + (m - g[m].n) = m + 1
      BY <1>3 DEF AfterPasses
    <3> HIDE DEF m
    <3> QED
      BY <1>2, <2>1, <3>1
  <2> HIDE DEF c, m
  <2> QED
    BY <1>3, <2>1, <2>2 DEF AfterPasses, m
<1> HIDE DEF c
<1>6. c \in Seq(STRING) /\ Len(c) = m /\ DOMAIN c = 1..m
  BY <1>2, <1>5
<1>7. ToSet(list) \ {"goog-remb"} \subseteq ToSet(c)
  <2> SUFFICES ASSUME NEW e \in 1..m, list[e] # "goog-remb" PROVE list[e] \in ToSet(c)
    BY <1>2 DEF ToSet
  <2>1. PICK j \in 1..g[m].n : c[j] = list[e]
    BY <1>5
  <2>2. j \in DOMAIN c
    BY <1>5, <1>6
  <2> QED
    BY <2>1, <2>2 DEF ToSet
<1>8. "goog-remb" \in ToSet(c) => Last(list) = "goog-remb"
  <2> SUFFICES ASSUME NEW j \in 1..m, c[j] = "goog-remb" PROVE list[m] = "goog-remb"
    BY <1>6 DEF ToSet, Last
  <2>1. j \in (g[m].n + 1)..m
    BY <1>2, <1>5
  <2> QED
    BY <1>5, <2>1
<1> QED
  BY <1>6, <1>7, <1>8 DEF c

-----------------------------------------------------------------------------
(* The loop of CreateProducer.                                              *)

\* What a pass of CreateProducer's loop over the feedback adds.
KeptWith(kind, s, f) == IF kind = "audio" /\ f = "nack" THEN s ELSE Append(s, f)

\* DeclaredFeedback returns what the last pass of that loop has left.
LEMMA DeclaredCourse ==
    ASSUME NEW kind, NEW list \in Seq(STRING)
    PROVE  \E g \in [0..Len(list) -> Seq(STRING)] :
              /\ g[0] = <<>>
              /\ \A k \in 1..Len(list) : g[k] = KeptWith(kind, g[k - 1], list[k])
              /\ DeclaredFeedback(kind, list) = g[Len(list)]
<1> DEFINE m == Len(list)
           S == Seq(STRING)
           step == [k \in 1..m |-> [s \in S |-> KeptWith(kind, s, list[k])]]
           Equation(f) == f = [k \in 0..m |->
                            IF k = 0 THEN <<>> ELSE KeptWith(kind, f[k - 1], list[k])]
           F == CHOOSE f : f = [k \in 0..Len(list) |->
                    IF k = 0 THEN <<>>
                    ELSE IF kind = "audio" /\ list[k] = "nack" THEN f[k - 1]
                    ELSE Append(f[k - 1], list[k])]
<1>1. m \in Nat /\ <<>> \in S
  OBVIOUS
<1>2. \A k \in 1..m : \A s \in S : KeptWith(kind, s, list[k]) \in S
  <2> SUFFICES ASSUME NEW k \in 1..m, NEW s \in S PROVE KeptWith(kind, s, list[k]) \in S
    OBVIOUS
  <2>1. list[k] \in STRING
    BY ElementOfSeq
  <2>2. Append(s, list[k]) \in Seq(STRING)
    BY <2>1, AppendProperties
  <2> QED
    BY <2>2 DEF KeptWith
<1>3. DeclaredFeedback(kind, list) = F[Len(list)]
  BY DEF DeclaredFeedback
<1>4. step \in [1..m -> [S -> S]]
  <2> HIDE DEF S, m
  <2> QED
    BY <1>2
<1>5. \A k \in 1..m : \A s \in S : step[k][s] = KeptWith(kind, s, list[k])
  OBVIOUS
<1>6. PICK g : g \in Courses(m, S, <<>>, step)
  <2> HIDE DEF m, S, step
  <2> QED
    BY <1>1, <1>4, CourseExists
<1> HIDE DEF step
<1>7. g \in [0..m -> S] /\ g[0] = <<>> /\ \A k \in 1..m : g[k] = KeptWith(kind, g[k - 1], list[k])
  <2> HIDE DEF S, m
  <2>1. g \in [0..m -> S] /\ g[0] = <<>> /\ \A k \in 1..m : g[k] = step[k][g[k - 1]]
    BY <1>6 DEF Courses
  <2>2. \A k \in 1..m : g[k - 1] \in S
    BY <1>1, <2>1
  <2> QED
    BY <1>5, <2>1, <2>2
<1>8. Equation(g)
  <2> HIDE DEF S, m
  <2> QED
    BY <1>1, <1>7
<1>9. Equation(F)
  BY <1>8 DEF KeptWith
<1> HIDE DEF F
<1>10. F[0] = <<>> /\ \A k \in 1..m : F[k] = KeptWith(kind, F[k - 1], list[k])
  <2> HIDE DEF m
  <2> QED
    BY <1>1, <1>9
<1>11. F \in [0..m -> S]
  <2> DEFINE T == {k \in 0..m : F[k] \in S}
  <2>1. 0 \in T
    <3> HIDE DEF S, m
    <3> QED
      BY <1>1, <1>10
  <2>2. ASSUME NEW k \in 1..m, k - 1 \in T PROVE k \in T
    <3> HIDE DEF S
    <3> QED
      BY <1>2, <1>10, <2>2
  <2>3. \A k \in 0..m : k \in T
    <3> HIDE DEF T, m
    <3> QED
      BY <1>1, <2>1, <2>2, InductionTo
  <2>4. \A k \in 0..m : F[k] \in S
    BY <2>3
  <2> HIDE DEF m, S
  <2> QED
    BY <1>9, <2>4
<1> QED
  BY <1>3, <1>10, <1>11

\* The entries of a list that is one longer.
LEMMA AppendToSet ==
    ASSUME NEW S, NEW s \in Seq(S), NEW f \in S
    PROVE  ToSet(Append(s, f)) = ToSet(s) \cup {f}
<1>1. PICK t \in Seq(S) :
        /\ t = Append(s, f) /\ Len(t) = Len(s) + 1
        /\ \A i \in 1..Len(s) : t[i] = s[i]
        /\ t[Len(s) + 1] = f
  BY AppendProperties
<1>2. /\ Len(s) \in Nat /\ DOMAIN s = 1..Len(s) /\ DOMAIN t = 1..(Len(s) + 1)
      /\ \A i \in 1..(Len(s) + 1) : i = Len(s) + 1 \/ i \in 1..Len(s)
      /\ Len(s) + 1 \in DOMAIN t /\ 1..Len(s) \subseteq DOMAIN t
  BY <1>1
<1>3. ToSet(t) = ToSet(s) \cup {f}
  BY <1>1, <1>2 DEF ToSet
<1> QED
  BY <1>1, <1>3

\* What is declared of a list is in it, and only nack is left out, for audio.
LEMMA OnlyNackIsLeftOut ==
    ASSUME NEW kind, NEW list \in Seq(STRING)
    PROVE  /\ ToSet(DeclaredFeedback(kind, list)) \subseteq ToSet(list)
           /\ ToSet(list) \ (IF kind = "audio" THEN {"nack"} ELSE {})
                \subseteq ToSet(DeclaredFeedback(kind, list))
<1> DEFINE m == Len(list)
           out == IF kind = "audio" THEN {"nack"} ELSE {}
<1>1. PICK g \in [0..m -> Seq(STRING)] :
        /\ g[0] = <<>>
        /\ \A k \in 1..m : g[k] = KeptWith(kind, g[k - 1], list[k])
        /\ DeclaredFeedback(kind, list) = g[m]
  BY DeclaredCourse
<1> DEFINE T == {k \in 0..m :
        /\ ToSet(g[k]) \subseteq ToSet(list)
        /\ \A e \in 1..k : list[e] \notin out => list[e] \in ToSet(g[k])}
<1>2. m \in Nat /\ DOMAIN list = 1..m
  OBVIOUS
<1>3. 0 \in T
  BY <1>1, <1>2 DEF ToSet
<1>4. ASSUME NEW k \in 1..m, k - 1 \in T PROVE k \in T
  <2>1. g[k - 1] \in Seq(STRING) /\ list[k] \in STRING /\ list[k] \in ToSet(list)
    <3>1. list[k] \in STRING
      BY ElementOfSeq
    <3>2. k \in DOMAIN list
      BY <1>2
    <3> QED
      BY <3>1, <3>2 DEF ToSet
  <2>2. (g[k] = g[k - 1] /\ list[k] \in out) \/ g[k] = Append(g[k - 1], list[k])
    BY <1>1 DEF KeptWith
  <2>3. ToSet(Append(g[k - 1], list[k])) = ToSet(g[k - 1]) \cup {list[k]}
    BY <2>1, AppendToSet
  <2>4. \A e \in 1..k : e = k \/ e \in 1..(k - 1)
    OBVIOUS
  <2>5. ToSet(g[k - 1]) \subseteq ToSet(list)
        /\ \A e \in 1..(k - 1) : list[e] \notin out => list[e] \in ToSet(g[k - 1])
    BY <1>4
  <2>6. ToSet(g[k]) \subseteq ToSet(list)
    <3> HIDE DEF T, m
    <3>1. CASE g[k] = g[k - 1]
      BY <2>5, <3>1
    <3>2. CASE g[k] = Append(g[k - 1], list[k])
      BY <2>1, <2>3, <2>5, <3>2
    <3> QED
      BY <2>2, <3>1, <3>2
  <2>7. \A e \in 1..k : list[e] \notin out => list[e] \in ToSet(g[k])
    BY <2>2, <2>3, <2>4, <2>5
  <2> HIDE DEF m
  <2> QED
    BY <1>2, <2>6, <2>7
<1>5. \A k \in 0..m : k \in T
  <2> HIDE DEF T, m
  <2> QED
    BY <1>2, <1>3, <1>4, InductionTo
<1>6. m \in T
  BY <1>2, <1>5
<1>7. ToSet(g[m]) \subseteq ToSet(list)
      /\ \A e \in 1..m : list[e] \notin out => list[e] \in ToSet(g[m])
  BY <1>6
<1>8. ToSet(list) = {list[e] : e \in 1..m}
  BY <1>2 DEF ToSet
<1> HIDE DEF m, T, out
<1> QED
  BY <1>1, <1>7, <1>8 DEF out
=============================================================================
