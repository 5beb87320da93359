--------------------------- MODULE FilteringProofs ---------------------------
(***************************************************************************)
(* Lemmas about sequences and what Filtering keeps of them, for any        *)
(* sequence and any sets.                                                  *)
(***************************************************************************)
EXTENDS Filtering, Integers, Sequences, WellFoundedInduction, TLAPS

(***************************************************************************)
(* What Only and Without pick, by induction on the length: by the least    *)
(* number that would not be reached.                                       *)
(***************************************************************************)
LEMMA LeastNumber ==
    ASSUME NEW T, T \subseteq Nat, T # {}
    PROVE  \E x \in T : \A y \in T : x <= y
<1>1. \E x \in T : \A y \in T : ~(<<y, x>> \in OpToRel(<, Nat))
    BY NatLessThanWellFounded, WFMin, Zenon
<1>2. \A x \in Nat, y \in Nat : y < x => <<y, x>> \in OpToRel(<, Nat)
    BY DEF OpToRel
<1>3. PICK x \in T : \A y \in T : ~(<<y, x>> \in OpToRel(<, Nat))
    BY <1>1
<1>4. \A y \in T : ~(y < x)
    BY <1>2, <1>3
<1>5. \A y \in T : x <= y
    BY <1>4
<1> QED
    BY <1>5

(* What holds of 0 and passes from each number to the next holds up to n.  *)
LEMMA UpTo ==
    ASSUME NEW n \in Nat, NEW T, 0 \in T, \A i \in 1 .. n : i - 1 \in T => i \in T
    PROVE  \A i \in 0 .. n : i \in T
<1> DEFINE Missed == (0 .. n) \ T
<1> SUFFICES ASSUME Missed # {} PROVE FALSE
    OBVIOUS
<1>1. Missed \subseteq Nat
    OBVIOUS
<1> HIDE DEF Missed
<1>2. PICK x \in Missed : \A y \in Missed : x <= y
    BY <1>1, LeastNumber
<1>3. x \in 1 .. n /\ x - 1 \in 0 .. n /\ ~(x <= x - 1)
    BY <1>2 DEF Missed
<1>4. x - 1 \in T
    BY <1>2, <1>3 DEF Missed
<1> QED
    BY <1>2, <1>3, <1>4 DEF Missed

(* The recursion of Only has a solution.                                   *)
IsPicked(g, n, s, S) ==
    g = [i \in 0 .. n |->
            IF i = 0 THEN <<>> ELSE IF s[i] \in S THEN Append(g[i - 1], s[i]) ELSE g[i - 1]]

LEMMA PickedExists ==
    ASSUME NEW T, NEW s \in Seq(T), NEW S
    PROVE  \E g : IsPicked(g, Len(s), s, S)
<1> DEFINE N == {n \in 0 .. Len(s) : \E g : IsPicked(g, n, s, S)}
<1>0. Len(s) \in Nat
    OBVIOUS
<1>1. 0 \in N
    <2>1. IsPicked([i \in 0 .. 0 |-> <<>>], 0, s, S)
        BY DEF IsPicked
    <2> QED
        BY <1>0, <2>1
<1>2. ASSUME NEW n \in 1 .. Len(s), n - 1 \in N PROVE n \in N
    <2>1. PICK g : IsPicked(g, n - 1, s, S)
        BY <1>2
    <2> DEFINE h == [i \in 0 .. n |->
                        IF i < n THEN g[i]
                        ELSE IF s[n] \in S THEN Append(g[n - 1], s[n]) ELSE g[n - 1]]
    <2>2. \A i \in 0 .. n - 1 : g[i] = IF i = 0 THEN <<>>
                     ELSE IF s[i] \in S THEN Append(g[i - 1], s[i]) ELSE g[i - 1]
        BY <2>1 DEF IsPicked
    <2>3. \A i \in 0 .. n : h[i] = IF i = 0 THEN <<>>
                     ELSE IF s[i] \in S THEN Append(h[i - 1], s[i]) ELSE h[i - 1]
        BY <1>0, <2>2
    <2>4. IsPicked(h, n, s, S)
        BY <2>3 DEF IsPicked
    <2> QED
        BY <2>4
<1> HIDE DEF N
<1>3. Len(s) \in N
    <2>1. \A n \in 1 .. Len(s) : n - 1 \in N => n \in N
        BY <1>2
    <2>2. \A i \in 0 .. Len(s) : i \in N
        BY <1>0, <1>1, <2>1, UpTo, SMTT(60)
    <2> QED
        BY <1>0, <2>2
<1> QED
    BY <1>3 DEF N

LEMMA OnlyIsPicked ==
    ASSUME NEW T, NEW s \in Seq(T), NEW S
    PROVE  \E g : IsPicked(g, Len(s), s, S) /\ Only(s, S) = g[Len(s)]
<1> DEFINE g == CHOOSE f : IsPicked(f, Len(s), s, S)
<1>1. IsPicked(g, Len(s), s, S)
    BY PickedExists
<1>2. Only(s, S) = g[Len(s)]
    BY DEF Only, IsPicked
<1> QED
    BY <1>1, <1>2

Unfolds(g, n, s, S) ==
    /\ g[0] = <<>>
    /\ \A i \in 1 .. n : s[i] \notin S => g[i] = g[i - 1]
    /\ \A i \in 1 .. n : s[i] \in S => g[i] = Append(g[i - 1], s[i])

LEMMA PickedUnfolds ==
    ASSUME NEW n \in Nat, NEW s, NEW S, NEW g, IsPicked(g, n, s, S)
    PROVE  Unfolds(g, n, s, S)
<1>1. \A i \in 0 .. n : g[i] = IF i = 0 THEN <<>>
                 ELSE IF s[i] \in S THEN Append(g[i - 1], s[i]) ELSE g[i - 1]
    BY DEF IsPicked
<1>2. ASSUME NEW i \in 1 .. n PROVE i \in 0 .. n /\ i # 0
    OBVIOUS
<1>3. 0 \in 0 .. n
    OBVIOUS
<1> QED
    BY <1>1, <1>2, <1>3, Zenon DEF Unfolds

LEMMA MembersOfAppend ==
    ASSUME NEW S, NEW s \in Seq(S), NEW x \in S
    PROVE  Append(s, x) \in Seq(S) /\ Members(Append(s, x)) = Members(s) \cup {x}
<1>1. Append(s, x) \in Seq(S) /\ Len(Append(s, x)) = Len(s) + 1
    OBVIOUS
<1>2. \A i \in 1 .. Len(s) : Append(s, x)[i] = s[i]
    OBVIOUS
<1>3. Append(s, x)[Len(s) + 1] = x
    OBVIOUS
<1>4. Len(s) \in Nat
    OBVIOUS
<1>5. 1 .. (Len(s) + 1) = (1 .. Len(s)) \cup {Len(s) + 1}
    BY <1>4
<1> QED
    BY <1>1, <1>2, <1>3, <1>5 DEF Members

(* A member of M stands at one position of the sequence at most.           *)
Once(s, M) == \A i, j \in 1 .. Len(s) : s[i] = s[j] /\ s[i] \in M => i = j

LEMMA OnceAppended ==
    ASSUME NEW T, NEW s \in Seq(T), NEW M, NEW x \in T, Once(s, M),
           x \notin M \/ x \notin Members(s)
    PROVE  Once(Append(s, x), M)
<1>1. Len(s) \in Nat /\ Len(Append(s, x)) = Len(s) + 1
    OBVIOUS
<1>2. \A i \in 1 .. Len(s) : Append(s, x)[i] = s[i] /\ s[i] \in Members(s)
    BY DEF Members
<1>3. Append(s, x)[Len(s) + 1] = x
    OBVIOUS
<1> QED
    BY <1>1, <1>2, <1>3 DEF Once

LEMMA OnlyPicks ==
    ASSUME NEW T, NEW s \in Seq(T), NEW S
    PROVE  /\ Only(s, S) \in Seq(T \cap S)
           /\ Members(Only(s, S)) = Members(s) \cap S
           /\ \A M : Once(s, M) => Once(Only(s, S), M)
<1> SUFFICES ASSUME NEW M
             PROVE  /\ Only(s, S) \in Seq(T \cap S)
                    /\ Members(Only(s, S)) = Members(s) \cap S
                    /\ Once(s, M) => Once(Only(s, S), M)
    OBVIOUS
<1>1. PICK g : IsPicked(g, Len(s), s, S) /\ Only(s, S) = g[Len(s)]
    BY OnlyIsPicked
<1>2. Len(s) \in Nat /\ \A i \in 1 .. Len(s) : s[i] \in T
    OBVIOUS
<1>3. /\ g[0] = <<>>
      /\ \A i \in 1 .. Len(s) : s[i] \notin S => g[i] = g[i - 1]
      /\ \A i \in 1 .. Len(s) : s[i] \in S => g[i] = Append(g[i - 1], s[i])
    <2>1. \A i \in 0 .. Len(s) : g[i] = IF i = 0 THEN <<>>
                     ELSE IF s[i] \in S THEN Append(g[i - 1], s[i]) ELSE g[i - 1]
        BY <1>1 DEF IsPicked
    <2>2. ASSUME NEW i \in 1 .. Len(s) PROVE i \in 0 .. Len(s) /\ i # 0
        BY <1>2
    <2>3. 0 \in 0 .. Len(s)
        BY <1>2
    <2> QED
        BY <2>1, <2>2, <2>3, Zenon
<1> DEFINE Upto(i) == {s[k] : k \in 1 .. i}
           N == {i \in 0 .. Len(s) : /\ g[i] \in Seq(T \cap S)
                                     /\ Members(g[i]) = Upto(i) \cap S
                                     /\ Once(s, M) => Once(g[i], M)}
<1>4. 0 \in N
    <2>1. g[0] = <<>> /\ <<>> \in Seq(T \cap S) /\ Members(<<>>) = {} /\ Upto(0) = {}
        BY <1>2, <1>3 DEF Members
    <2>2. Once(g[0], M)
        BY <2>1 DEF Once
    <2>3. 0 \in 0 .. Len(s)
        BY <1>2
    <2> QED
        BY <2>1, <2>2, <2>3
<1>5. ASSUME NEW i \in 1 .. Len(s), i - 1 \in N PROVE i \in N
    <2>1. g[i - 1] \in Seq(T \cap S) /\ Members(g[i - 1]) = Upto(i - 1) \cap S
          /\ (Once(s, M) => Once(g[i - 1], M))
        BY <1>5
    <2>2. i \in 0 .. Len(s) /\ Upto(i) = Upto(i - 1) \cup {s[i]}
        <3>1. 1 .. i = (1 .. (i - 1)) \cup {i}
            BY <1>2
        <3> QED
            BY <1>2, <3>1
    <2>3. CASE s[i] \notin S
        <3>1. g[i] = g[i - 1]
            BY <1>3, <2>3
        <3> QED
            BY <2>1, <2>2, <2>3, <3>1
    <2>4. CASE s[i] \in S
        <3>0. s[i] \in T \cap S
            BY <1>2, <2>4
        <3>1. g[i] = Append(g[i - 1], s[i])
            BY <1>3, <2>4
        <3> DEFINE p == g[i - 1]
        <3>2. p \in Seq(T \cap S) /\ (Once(s, M) => Once(p, M)) /\ Members(p) = Upto(i - 1) \cap S
            BY <2>1
        <3> HIDE DEF p, Upto, N
        <3>3. Append(p, s[i]) \in Seq(T \cap S)
              /\ Members(Append(p, s[i])) = Members(p) \cup {s[i]}
            BY <3>0, <3>2, MembersOfAppend
        <3>4. ASSUME Once(s, M), s[i] \in M PROVE s[i] \notin Upto(i - 1)
            BY <1>2, <3>4 DEF Once, Upto
        <3>5. Once(s, M) => Once(Append(p, s[i]), M)
            BY <3>0, <3>2, <3>4, OnceAppended
        <3>6. g[i] = Append(p, s[i])
            BY <3>1 DEF p
        <3> QED
            BY <2>2, <2>4, <3>2, <3>3, <3>5, <3>6 DEF N
    <2> QED
        BY <2>3, <2>4
<1> HIDE DEF N, Upto
<1>6. \A i \in 0 .. Len(s) : i \in N
    BY <1>2, <1>4, <1>5, UpTo
<1>7. Len(s) \in N
    BY <1>2, <1>6
<1> QED
    BY <1>1, <1>7 DEF N, Upto, Members

LEMMA WithoutDrops ==
    ASSUME NEW T, NEW s \in Seq(T), NEW S
    PROVE  /\ Without(s, S) \in Seq(T \ S)
           /\ Members(Without(s, S)) = Members(s) \ S
           /\ \A M : Once(s, M) => Once(Without(s, S), M)
<1> SUFFICES ASSUME NEW M
             PROVE  /\ Without(s, S) \in Seq(T \ S)
                    /\ Members(Without(s, S)) = Members(s) \ S
                    /\ Once(s, M) => Once(Without(s, S), M)
    OBVIOUS
<1> DEFINE B == Members(s) \ S
           w == Only(s, B)
<1>1. T \cap B \subseteq T \ S /\ Members(s) \cap B = B /\ Without(s, S) = w
    BY DEF Without
<1> HIDE DEF B
<1>2. w \in Seq(T \cap B) /\ Members(w) = Members(s) \cap B /\ (Once(s, M) => Once(w, M))
    BY OnlyPicks
<1>3. \A X, Y : X \subseteq Y => Seq(X) \subseteq Seq(Y)
    OBVIOUS
<1> HIDE DEF w
<1>4. w \in Seq(T \ S)
    BY <1>1, <1>2, <1>3
<1> QED
    BY <1>1, <1>2, <1>4 DEF B

LEMMA Cut ==
    ASSUME NEW T, NEW s \in Seq(T), NEW n \in 1 .. Len(s)
    PROVE  LET a == SubSeq(s, 1, n)
               b == SubSeq(s, n + 1, Len(s))
           IN  /\ a \in Seq(T) /\ b \in Seq(T)
               /\ Len(a) = n /\ \A i \in 1 .. n : a[i] = s[i]
               /\ Members(s) = Members(a) \cup Members(b)
               /\ \A M : Once(s, M) => /\ Once(a, M) /\ Once(b, M)
                                        /\ Members(a) \cap Members(b) \cap M = {}
<1> DEFINE a == SubSeq(s, 1, n)
           b == SubSeq(s, n + 1, Len(s))
<1>0. Len(s) \in Nat /\ n \in Nat /\ n >= 1 /\ n <= Len(s)
    OBVIOUS
<1>1. a \in Seq(T) /\ Len(a) = n /\ \A i \in 1 .. n : a[i] = s[i]
    BY <1>0
<1>2. b \in Seq(T) /\ Len(b) = Len(s) - n /\ \A i \in 1 .. (Len(s) - n) : b[i] = s[n + i]
    <2>1. CASE n = Len(s)
        BY <1>0, <2>1
    <2>2. CASE n # Len(s)
        BY <1>0, <2>2
    <2> QED
        BY <2>1, <2>2
<1> HIDE DEF a, b
<1>3. \A i \in 1 .. Len(s) : i \in 1 .. n \/ (i - n \in 1 .. (Len(s) - n) /\ n + (i - n) = i)
    BY <1>0
<1>4. \A i \in 1 .. n : i \in 1 .. Len(s)
    BY <1>0
<1>5. \A i \in 1 .. (Len(s) - n) : n + i \in 1 .. Len(s) /\ n + i \notin 1 .. n
    BY <1>0
<1>6. Members(a) = {s[i] : i \in 1 .. n}
    BY <1>1 DEF Members
<1>7. Members(b) = {s[n + i] : i \in 1 .. (Len(s) - n)}
    BY <1>2 DEF Members
<1>8. Members(s) = Members(a) \cup Members(b)
    <2>1. Members(a) \subseteq Members(s) /\ Members(b) \subseteq Members(s)
        BY <1>4, <1>5, <1>6, <1>7 DEF Members
    <2>2. ASSUME NEW i \in 1 .. Len(s) PROVE s[i] \in Members(a) \cup Members(b)
        <3>1. CASE i \in 1 .. n
            BY <1>6, <3>1
        <3>2. CASE i \notin 1 .. n
            <4>1. i - n \in 1 .. (Len(s) - n) /\ s[n + (i - n)] = s[i]
                BY <1>3, <3>2
            <4> QED
                BY <1>7, <4>1
        <3> QED
            BY <3>1, <3>2
    <2> QED
        BY <2>1, <2>2 DEF Members
<1>9. ASSUME NEW M, Once(s, M)
      PROVE  Once(a, M) /\ Once(b, M) /\ Members(a) \cap Members(b) \cap M = {}
    <2>1. Once(a, M)
        BY <1>1, <1>4, <1>9 DEF Once
    <2>2. Once(b, M)
        <3>1. \A i, j \in 1 .. (Len(s) - n) : n + i = n + j => i = j
            BY <1>0
        <3> QED
            BY <1>2, <1>5, <1>9, <3>1, ZenonT(60) DEF Once
    <2>3. Members(a) \cap Members(b) \cap M = {}
        BY <1>4, <1>5, <1>6, <1>7, <1>9 DEF Once
    <2> QED
        BY <2>1, <2>2, <2>3
<1> QED
    BY <1>1, <1>2, <1>8, <1>9 DEF a, b

LEMMA HeadAndTail ==
    ASSUME NEW T, NEW s \in Seq(T), s # <<>>
    PROVE  /\ Head(s) \in T /\ Tail(s) \in Seq(T)
           /\ Members(s) = {Head(s)} \cup Members(Tail(s))
           /\ \A M : Once(s, M) =>
                     Once(Tail(s), M) /\ (Head(s) \notin M \/ Head(s) \notin Members(Tail(s)))
<1> DEFINE t == Tail(s)
<1>0. Len(s) \in Nat /\ Len(s) >= 1 /\ Head(s) = s[1] /\ s[1] \in T
    OBVIOUS
<1>1. t \in Seq(T) /\ Len(t) = Len(s) - 1 /\ \A i \in 1 .. (Len(s) - 1) : t[i] = s[i + 1]
    BY <1>0
<1> HIDE DEF t
<1>2. \A i \in 1 .. Len(s) : i = 1 \/ (i - 1 \in 1 .. (Len(s) - 1) /\ (i - 1) + 1 = i)
    BY <1>0
<1>3. 1 \in 1 .. Len(s) /\ \A i \in 1 .. (Len(s) - 1) : i + 1 \in 1 .. Len(s) /\ i + 1 # 1
    BY <1>0
<1>4. Members(t) = {s[i + 1] : i \in 1 .. (Len(s) - 1)}
    BY <1>1 DEF Members
<1>5. Members(s) = {s[1]} \cup Members(t)
    BY <1>2, <1>3, <1>4 DEF Members
<1>6. ASSUME NEW M, Once(s, M) PROVE Once(t, M) /\ (s[1] \notin M \/ s[1] \notin Members(t))
    <2>1. \A i, j \in 1 .. (Len(s) - 1) : i + 1 = j + 1 => i = j
        BY <1>0
    <2>2. Once(t, M)
        BY <1>1, <1>3, <1>6, <2>1 DEF Once
    <2>3. s[1] \notin M \/ s[1] \notin Members(t)
        BY <1>3, <1>4, <1>6 DEF Once
    <2> QED
        BY <2>2, <2>3
<1> QED
    BY <1>0, <1>1, <1>5, <1>6 DEF t

LEMMA Joined ==
    ASSUME NEW T, NEW s \in Seq(T), NEW t \in Seq(T)
    PROVE  /\ s \o t \in Seq(T)
           /\ Members(s \o t) = Members(s) \cup Members(t)
           /\ \A M : Once(s, M) /\ Once(t, M) /\ Members(s) \cap Members(t) \cap M = {}
                        => Once(s \o t, M)
<1> DEFINE c == s \o t
<1>0. Len(s) \in Nat /\ Len(t) \in Nat
    OBVIOUS
<1>1. c \in Seq(T) /\ Len(c) = Len(s) + Len(t)
    OBVIOUS
<1>2. (\A i \in 1 .. Len(s) : c[i] = s[i]) /\ (\A i \in 1 .. Len(t) : c[Len(s) + i] = t[i])
    OBVIOUS
<1> HIDE DEF c
<1>3. \A i \in 1 .. (Len(s) + Len(t)) :
          i \in 1 .. Len(s) \/ (i - Len(s) \in 1 .. Len(t) /\ Len(s) + (i - Len(s)) = i)
    BY <1>0
<1>4. /\ \A i \in 1 .. Len(s) : i \in 1 .. (Len(s) + Len(t))
      /\ \A i \in 1 .. Len(t) : Len(s) + i \in 1 .. (Len(s) + Len(t))
    BY <1>0
<1>5. /\ \A i \in 1 .. Len(c) : i \in 1 .. Len(s) => c[i] \in Members(s)
      /\ \A i \in 1 .. Len(c) : i \notin 1 .. Len(s) => c[i] \in Members(t)
    <2>1. ASSUME NEW i \in 1 .. Len(c), i \notin 1 .. Len(s) PROVE c[i] \in Members(t)
        <3>1. i - Len(s) \in 1 .. Len(t) /\ c[Len(s) + (i - Len(s))] = c[i]
            BY <1>1, <1>3, <2>1
        <3>2. c[i] = t[i - Len(s)]
            BY <1>2, <3>1
        <3> QED
            BY <3>1, <3>2 DEF Members
    <2> QED
        BY <1>2, <2>1 DEF Members
<1>6. Members(c) = Members(s) \cup Members(t)
    <2>1. Members(c) \subseteq Members(s) \cup Members(t)
        BY <1>5 DEF Members
    <2>2. Members(s) \subseteq Members(c) /\ Members(t) \subseteq Members(c)
        BY <1>1, <1>2, <1>4 DEF Members
    <2> QED
        BY <2>1, <2>2
<1>7. ASSUME NEW M, Once(s, M), Once(t, M), Members(s) \cap Members(t) \cap M = {}
      PROVE  Once(c, M)
    <2> SUFFICES ASSUME NEW i \in 1 .. Len(c), NEW j \in 1 .. Len(c), c[i] = c[j],
                        c[i] \in M
                 PROVE  i = j
        BY DEF Once
    <2> USE <1>1
    <2>1. CASE i \in 1 .. Len(s) /\ j \in 1 .. Len(s)
        BY <1>2, <1>7, <2>1 DEF Once
    <2>2. CASE i \notin 1 .. Len(s) /\ j \notin 1 .. Len(s)
        <3>1. /\ i - Len(s) \in 1 .. Len(t) /\ c[i] = t[i - Len(s)]
              /\ j - Len(s) \in 1 .. Len(t) /\ c[j] = t[j - Len(s)]
            BY <1>2, <1>3, <2>2
        <3>2. i - Len(s) = j - Len(s)
            BY <1>7, <3>1 DEF Once
        <3> QED
            BY <1>0, <3>2
    <2>3. CASE i \in 1 .. Len(s) /\ j \notin 1 .. Len(s)
        BY <1>5, <1>7, <2>3
    <2>4. CASE i \notin 1 .. Len(s) /\ j \in 1 .. Len(s)
        BY <1>5, <1>7, <2>4
    <2> QED
        BY <2>1, <2>2, <2>3, <2>4
<1> QED
    BY <1>1, <1>6, <1>7 DEF c

(***************************************************************************)
(* Only distributes over the operations on sequences.                      *)
(***************************************************************************)
LEMMA OnlyOfAppend ==
    ASSUME NEW T, NEW s \in Seq(T), NEW x \in T, NEW S
    PROVE  /\ x \in S => Only(Append(s, x), S) = Append(Only(s, S), x)
           /\ x \notin S => Only(Append(s, x), S) = Only(s, S)
<1> DEFINE e == Append(s, x)
<1>0. /\ Len(s) \in Nat /\ e \in Seq(T) /\ Len(e) = Len(s) + 1 /\ e[Len(s) + 1] = x
      /\ \A i \in 1 .. Len(s) : e[i] = s[i]
    OBVIOUS
<1> HIDE DEF e
<1>1. PICK g : IsPicked(g, Len(s), s, S) /\ Only(s, S) = g[Len(s)]
    BY OnlyIsPicked
<1>2. PICK h : IsPicked(h, Len(e), e, S) /\ Only(e, S) = h[Len(e)]
    BY <1>0, OnlyIsPicked
<1>3. Unfolds(g, Len(s), s, S) /\ Unfolds(h, Len(s) + 1, e, S)
    BY <1>0, <1>1, <1>2, PickedUnfolds
<1> DEFINE N == {i \in 0 .. Len(s) : g[i] = h[i]}
<1>4. 0 \in N
    BY <1>0, <1>3 DEF Unfolds
<1>5. ASSUME NEW i \in 1 .. Len(s), i - 1 \in N PROVE i \in N
    <2>1. i \in 1 .. (Len(s) + 1) /\ i \in 0 .. Len(s) /\ e[i] = s[i] /\ g[i - 1] = h[i - 1]
        BY <1>0, <1>5
    <2>2. CASE s[i] \in S
        BY <1>3, <2>1, <2>2 DEF Unfolds
    <2>3. CASE s[i] \notin S
        BY <1>3, <2>1, <2>3 DEF Unfolds
    <2> QED
        BY <2>2, <2>3
<1> HIDE DEF N
<1>6. \A i \in 0 .. Len(s) : i \in N
    BY <1>0, <1>4, <1>5, UpTo
<1>7. g[Len(s)] = h[Len(s)]
    <2>1. Len(s) \in 0 .. Len(s)
        BY <1>0
    <2> QED
        BY <1>6, <2>1 DEF N
<1>8. Len(s) + 1 \in 1 .. (Len(s) + 1) /\ (Len(s) + 1) - 1 = Len(s)
    BY <1>0
<1>9. /\ x \in S => h[Len(s) + 1] = Append(h[Len(s)], x)
      /\ x \notin S => h[Len(s) + 1] = h[Len(s)]
    BY <1>0, <1>3, <1>8 DEF Unfolds
<1> QED
    BY <1>0, <1>1, <1>2, <1>7, <1>9 DEF e

LEMMA OnlyOfEmpty == \A S : Only(<<>>, S) = <<>>
<1> SUFFICES ASSUME NEW S PROVE Only(<<>>, S) = <<>>
    OBVIOUS
<1>1. <<>> \in Seq({}) /\ Len(<<>>) = 0
    OBVIOUS
<1>2. PICK g : IsPicked(g, Len(<<>>), <<>>, S) /\ Only(<<>>, S) = g[Len(<<>>)]
    BY <1>1, OnlyIsPicked
<1>3. Unfolds(g, 0, <<>>, S)
    BY <1>1, <1>2, PickedUnfolds
<1> QED
    BY <1>1, <1>2, <1>3 DEF Unfolds

LEMMA AppendJoined ==
    ASSUME NEW T, NEW a \in Seq(T), NEW b \in Seq(T), NEW x \in T
    PROVE  Append(a \o b, x) = a \o Append(b, x)
<1> DEFINE l == Append(a \o b, x)
           r == a \o Append(b, x)
<1>1. l \in Seq(T) /\ r \in Seq(T)
    OBVIOUS
<1>2. Len(a) \in Nat /\ Len(b) \in Nat
    OBVIOUS
<1>3. Len(l) = Len(a) + Len(b) + 1 /\ Len(r) = Len(a) + Len(b) + 1
    OBVIOUS
<1>4. ASSUME NEW k \in 1 .. (Len(a) + Len(b) + 1) PROVE l[k] = r[k]
    <2>1. CASE k \in 1 .. Len(a)
        BY <1>2, <2>1
    <2>2. CASE k \in Len(a) + 1 .. Len(a) + Len(b)
        BY <1>2, <2>2
    <2>3. CASE k = Len(a) + Len(b) + 1
        BY <1>2, <2>3
    <2> QED
        BY <1>2, <2>1, <2>2, <2>3
<1> HIDE DEF l, r
<1>5. l = r
    BY <1>1, <1>2, <1>3, <1>4
<1> QED
    BY <1>5 DEF l, r

LEMMA OnlyOfJoined ==
    ASSUME NEW T, NEW s \in Seq(T), NEW t \in Seq(T), NEW S
    PROVE  Only(s \o t, S) = Only(s, S) \o Only(t, S)
<1> DEFINE upto(i) == SubSeq(t, 1, i)
           N == {i \in 0 .. Len(t) : Only(s \o upto(i), S) = Only(s, S) \o Only(upto(i), S)}
<1>0. Len(t) \in Nat
    OBVIOUS
<1>1. 0 \in N
    <2>1. Only(s, S) \in Seq(T \cap S)
        BY OnlyPicks
    <2>2. upto(0) = <<>> /\ s \o <<>> = s /\ Only(s, S) \o <<>> = Only(s, S)
        BY <1>0, <2>1
    <2>3. 0 \in 0 .. Len(t)
        BY <1>0
    <2> QED
        BY <2>2, <2>3, OnlyOfEmpty
<1>2. ASSUME NEW i \in 1 .. Len(t), i - 1 \in N PROVE i \in N
    <2> DEFINE u == upto(i - 1)
               x == t[i]
    <2>1. u \in Seq(T) /\ x \in T /\ i \in 0 .. Len(t) /\ upto(i) = Append(u, x)
        BY <1>0
    <2>2. Only(s \o u, S) = Only(s, S) \o Only(u, S)
        BY <1>2
    <2> HIDE DEF u, upto, x
    <2>3. Only(s \o Append(u, x), S) = Only(s, S) \o Only(Append(u, x), S)
        <3> DEFINE su == s \o u
                   a == Only(s, S)
                   b == Only(u, S)
        <3>1. su \in Seq(T)
            BY <2>1
        <3>2. s \o Append(u, x) = Append(su, x)
            BY <2>1, AppendJoined
        <3>3. a \in Seq(T \cap S) /\ b \in Seq(T \cap S)
            BY <2>1, OnlyPicks
        <3>4. Only(su, S) = a \o b
            BY <2>2
        <3> HIDE DEF su, a, b
        <3>5. CASE x \in S
            <4>1. Only(Append(su, x), S) = Append(Only(su, S), x)
                BY <2>1, <3>1, <3>5, OnlyOfAppend
            <4>2. Only(Append(u, x), S) = Append(b, x)
                BY <2>1, <3>5, OnlyOfAppend DEF b
            <4>3. Append(a \o b, x) = a \o Append(b, x)
                <5> DEFINE C == T \cap S
                           l == Append(a \o b, x)
                           r == a \o Append(b, x)
                <5>1. a \in Seq(C) /\ b \in Seq(C) /\ x \in C
                    BY <2>1, <3>3, <3>5
                <5> HIDE DEF C
                <5>2. l \in Seq(C) /\ r \in Seq(C)
                    BY <5>1
                <5>3. Len(a) \in Nat /\ Len(b) \in Nat
                    BY <5>1
                <5>4. Len(l) = Len(a) + Len(b) + 1 /\ Len(r) = Len(a) + Len(b) + 1
                    BY <5>1
                <5>5. ASSUME NEW k \in 1 .. (Len(a) + Len(b) + 1) PROVE l[k] = r[k]
                    <6>1. CASE k \in 1 .. Len(a)
                        BY <5>1, <5>3, <6>1
                    <6>2. CASE k \in Len(a) + 1 .. Len(a) + Len(b)
                        BY <5>1, <5>3, <6>2
                    <6>3. CASE k = Len(a) + Len(b) + 1
                        BY <5>1, <5>3, <6>3
                    <6> QED
                        BY <5>3, <6>1, <6>2, <6>3
                <5> HIDE DEF l, r
                <5>6. l = r
                    BY <5>2, <5>3, <5>4, <5>5
                <5> QED
                    BY <5>6 DEF l, r
            <4> QED
                BY <3>2, <3>4, <4>1, <4>2, <4>3 DEF a
        <3>6. CASE x \notin S
            <4>1. Only(Append(su, x), S) = Only(su, S)
                BY <2>1, <3>1, <3>6, OnlyOfAppend
            <4>2. Only(Append(u, x), S) = b
                BY <2>1, <3>6, OnlyOfAppend DEF b
            <4> QED
                BY <3>2, <3>4, <4>1, <4>2 DEF a
        <3> QED
            BY <3>5, <3>6
    <2> QED
        BY <2>1, <2>3
<1> HIDE DEF N
<1>3. \A i \in 0 .. Len(t) : i \in N
    BY <1>0, <1>1, <1>2, UpTo
<1>4. upto(Len(t)) = t /\ Len(t) \in 0 .. Len(t)
    BY <1>0
<1> QED
    BY <1>3, <1>4 DEF N

LEMMA OnlyOfHead ==
    ASSUME NEW T, NEW s \in Seq(T), s # <<>>, NEW S
    PROVE  /\ Head(s) \in S => Only(s, S) = <<Head(s)>> \o Only(Tail(s), S)
           /\ Head(s) \notin S => Only(s, S) = Only(Tail(s), S)
<1> DEFINE x == Head(s)
           t == Tail(s)
           none == <<>>
           one == <<x>>
<1>1. /\ x \in T /\ t \in Seq(T) /\ none \in Seq(T) /\ one \in Seq(T)
      /\ Append(none, x) = one /\ s = one \o t
    OBVIOUS
<1> HIDE DEF x, t, one
<1>2. Only(one \o t, S) = Only(one, S) \o Only(t, S)
    BY <1>1, OnlyOfJoined
<1>3. Only(none, S) = none
    BY OnlyOfEmpty
<1> HIDE DEF none
<1>4. /\ x \in S => Only(one, S) = one
      /\ x \notin S => Only(one, S) = none
    <2>1. /\ x \in S => Only(Append(none, x), S) = Append(Only(none, S), x)
          /\ x \notin S => Only(Append(none, x), S) = Only(none, S)
        BY <1>1, OnlyOfAppend, Zenon
    <2> QED
        BY <1>1, <1>3, <2>1
<1>5. Only(t, S) \in Seq(T \cap S)
    BY <1>1, OnlyPicks
<1>6. none \o Only(t, S) = Only(t, S)
    BY <1>5 DEF none
<1> QED
    BY <1>1, <1>2, <1>4, <1>6 DEF x, t, one
==============================================================================
