---------------------------- MODULE CiRemoteProofs ----------------------------
(***************************************************************************)
(* Theorems about a remote runner's report, for every run, frame size and  *)
(* number of breaks: what the main host's logs and outputs hold, and what  *)
(* an acknowledgement means.                                               *)
(***************************************************************************)
EXTENDS CiRemote, TLAPS, SequenceTheorems, WellFoundedInduction

-----------------------------------------------------------------------------
(* Numbers and sequences. *)

(* Every non-empty set of numbers has a least one. *)
LEMMA Least ==
  ASSUME NEW T \in SUBSET Nat, T # {}
  PROVE  \E n \in T : \A m \in T : n <= m
<1> DEFINE R == OpToRel(<, Nat)
<1>1. IsWellFoundedOn(R, Nat)
  BY NatLessThanWellFounded
<1>2. PICK n \in T : \A m \in T : ~ (<<m, n>> \in R)
  BY <1>1, WFMin
<1>3. ASSUME NEW m \in T
      PROVE  n <= m
  <2>1. m \in Nat /\ n \in Nat
    OBVIOUS
  <2>2. <<m, n>> \in Nat \X Nat /\ <<m, n>>[1] = m /\ <<m, n>>[2] = n
    BY <2>1
  <2>3. ~ (m < n)
    BY <1>2, <2>2 DEF OpToRel
  <2> HIDE DEF R
  <2> QED BY <2>1, <2>3
<1> QED BY <1>3

(* Induction: a set of numbers that holds 0, and with a number the next    *)
(* one, holds all.                                                         *)
LEMMA AllNumbers ==
  ASSUME NEW S, 0 \in S, \A n \in Nat : n \in S => n + 1 \in S
  PROVE  Nat \subseteq S
<1> SUFFICES ASSUME Nat \ S # {} PROVE FALSE
  OBVIOUS
<1>1. PICK n \in Nat \ S : \A m \in Nat \ S : n <= m
  BY Least
<1>2. n # 0 /\ n - 1 \in Nat /\ n - 1 \in S
  BY <1>1
<1> QED BY <1>1, <1>2

(* The recursive function in FlattenSeq exists: it holds the concatenation *)
(* of the first sequences, for each number of them.                        *)
LEMMA Flattening ==
  ASSUME NEW T, NEW ss \in Seq(Seq(T)), Len(ss) # 0
  PROVE  \E f : /\ f = [i \in 1 .. Len(ss) |-> IF i = 1 THEN ss[i] ELSE f[i - 1] \o ss[i]]
                /\ FlattenSeq(ss) = f[Len(ss)]
<1> DEFINE g(n, f) == [i \in 1 .. n |-> IF i = 1 THEN ss[i] ELSE f[i - 1] \o ss[i]]
           S == {n \in Nat : \E f : f = g(n, f)}
<1>1. 0 \in S
  <2>1. [i \in 1 .. 0 |-> {}] = g(0, [i \in 1 .. 0 |-> {}])
    OBVIOUS
  <2> QED BY <2>1
<1>2. ASSUME NEW n \in Nat, n \in S
      PROVE  n + 1 \in S
  <2>1. PICK f : f = g(n, f)
    BY <1>2
  <2>2. \A i \in 1 .. n : f[i] = IF i = 1 THEN ss[i] ELSE f[i - 1] \o ss[i]
    BY <2>1
  <2> DEFINE h == g(n + 1, f)
  <2>3. \A i \in 1 .. n + 1 : h[i] = IF i = 1 THEN ss[i] ELSE f[i - 1] \o ss[i]
    OBVIOUS
  <2>4. \A i \in 1 .. n : h[i] = f[i]
    BY <2>2, <2>3
  <2>5. \A i \in 1 .. n + 1 : i # 1 => i - 1 \in 1 .. n
    OBVIOUS
  <2>6. \A i \in 1 .. n + 1 : (IF i = 1 THEN ss[i] ELSE h[i - 1] \o ss[i])
                              = (IF i = 1 THEN ss[i] ELSE f[i - 1] \o ss[i])
    <3> HIDE DEF h
    <3> QED BY <2>4, <2>5
  <2>7. g(n + 1, h) = h
    BY <2>6, Zenon
  <2>8. n + 1 \in Nat
    OBVIOUS
  <2> HIDE DEF h, g
  <2> QED BY <2>7, <2>8, Zenon
<1>3. Len(ss) \in S
  <2> HIDE DEF S
  <2> QED BY <1>1, <1>2, AllNumbers
<1>4. \E f : f = g(Len(ss), f)
  BY <1>3
<1> DEFINE fl == CHOOSE f : f = g(Len(ss), f)
<1>5. fl = g(Len(ss), fl)
  BY <1>4, Zenon
<1>6. FlattenSeq(ss) = fl[Len(ss)]
  BY Zenon DEF FlattenSeq
<1> QED BY <1>5, <1>6, Zenon


(* Sequences one after the other: where each element comes from, and that  *)
(* what was before it in its sequence is before it.                        *)
Flat(F, ss, n, T) ==
  /\ F \in Seq(T)
  /\ \A k \in 1 .. Len(F) : \E i \in 1 .. n : \E j \in 1 .. Len(ss[i]) :
       /\ F[k] = ss[i][j]
       /\ j > 1 => \E m \in 1 .. k - 1 : F[m] = ss[i][j - 1]
  /\ \A i \in 1 .. n : \A j \in 1 .. Len(ss[i]) : \E k \in 1 .. Len(F) : F[k] = ss[i][j]

LEMMA FlatMore ==
  ASSUME NEW T, NEW ss, NEW n \in Nat, NEW F, Flat(F, ss, n, T), ss[n + 1] \in Seq(T)
  PROVE  Flat(F \o ss[n + 1], ss, n + 1, T)
<1> DEFINE s == ss[n + 1]
           G == F \o s
<1>1. /\ F \in Seq(T) /\ s \in Seq(T) /\ G \in Seq(T)
      /\ Len(F) \in Nat /\ Len(s) \in Nat /\ Len(G) = Len(F) + Len(s)
      /\ \A k \in 1 .. Len(F) : G[k] = F[k]
      /\ \A j \in 1 .. Len(s) : G[Len(F) + j] = s[j]
  BY ConcatProperties, LenProperties DEF Flat
<1> HIDE DEF G
<1>2. ASSUME NEW k \in 1 .. Len(G)
      PROVE  \E i \in 1 .. n + 1 : \E j \in 1 .. Len(ss[i]) :
               /\ G[k] = ss[i][j]
               /\ j > 1 => \E m \in 1 .. k - 1 : G[m] = ss[i][j - 1]
  <2>1. CASE k <= Len(F)
    <3>b. k \in 1 .. Len(F)
      BY <1>1, <2>1
    <3>a. PICK i \in 1 .. n : \E j \in 1 .. Len(ss[i]) :
            /\ F[k] = ss[i][j]
            /\ j > 1 => \E m \in 1 .. k - 1 : F[m] = ss[i][j - 1]
      BY <3>b DEF Flat
    <3>1. PICK j \in 1 .. Len(ss[i]) :
            /\ F[k] = ss[i][j]
            /\ j > 1 => \E m \in 1 .. k - 1 : F[m] = ss[i][j - 1]
      BY <3>a
    <3>2. j > 1 => \E m \in 1 .. k - 1 : G[m] = ss[i][j - 1]
      BY <1>1, <2>1, <3>1
    <3>3. i \in 1 .. n + 1 /\ G[k] = ss[i][j]
      BY <1>1, <2>1, <3>1
    <3> QED BY <3>2, <3>3
  <2>2. CASE k > Len(F)
    <3>1. PICK j \in 1 .. Len(s) : k = Len(F) + j
      <4>1. k - Len(F) \in 1 .. Len(s) /\ k = Len(F) + (k - Len(F))
        BY <1>1, <2>2
      <4> QED BY <4>1
    <3>2. j > 1 => k - 1 \in 1 .. k - 1 /\ j - 1 \in 1 .. Len(s) /\ k - 1 = Len(F) + (j - 1)
      BY <1>1, <3>1
    <3>3. G[k] = s[j] /\ (j > 1 => G[k - 1] = s[j - 1])
      BY <1>1, <3>1, <3>2
    <3>4. n + 1 \in 1 .. n + 1
      OBVIOUS
    <3> QED BY <3>2, <3>3, <3>4
  <2> QED BY <2>1, <2>2, <1>1
<1>3. ASSUME NEW i \in 1 .. n + 1, NEW j \in 1 .. Len(ss[i])
      PROVE  \E k \in 1 .. Len(G) : G[k] = ss[i][j]
  <2>1. CASE i \in 1 .. n
    <3>1. PICK k \in 1 .. Len(F) : F[k] = ss[i][j]
      BY <2>1 DEF Flat
    <3> QED BY <3>1, <1>1
  <2>2. CASE i = n + 1
    <3>1. Len(F) + j \in 1 .. Len(G) /\ G[Len(F) + j] = ss[i][j]
      BY <2>2, <1>1
    <3> QED BY <3>1
  <2> QED BY <2>1, <2>2
<1>4. Flat(G, ss, n + 1, T)
  BY <1>1, <1>2, <1>3 DEF Flat
<1> QED BY <1>4 DEF G

LEMMA FlattenBlocks ==
  ASSUME NEW T, NEW ss \in Seq(Seq(T))
  PROVE  Flat(FlattenSeq(ss), ss, Len(ss), T)
<1>1. CASE Len(ss) = 0
  <2>1. FlattenSeq(ss) = ss /\ ss = <<>>
    BY <1>1, EmptySeq DEF FlattenSeq
  <2> QED BY <2>1, <1>1 DEF Flat
<1>2. CASE Len(ss) # 0
  <2>1. PICK f : /\ f = [i \in 1 .. Len(ss) |-> IF i = 1 THEN ss[i] ELSE f[i - 1] \o ss[i]]
                 /\ FlattenSeq(ss) = f[Len(ss)]
    BY <1>2, Flattening
  <2>a. \A i \in 1 .. Len(ss) : f[i] = IF i = 1 THEN ss[i] ELSE f[i - 1] \o ss[i]
    BY <2>1, Zenon
  <2>b. \A i \in 1 .. Len(ss) : ss[i] \in Seq(T)
    OBVIOUS
  <2>2. \A i \in 1 .. Len(ss) : /\ f[i] = IF i = 1 THEN ss[i] ELSE f[i - 1] \o ss[i]
                                /\ ss[i] \in Seq(T)
    BY <2>a, <2>b
  <2>3. Len(ss) \in Nat /\ Len(ss) >= 1
    BY <1>2
  <2> DEFINE S == {n \in Nat : n + 1 <= Len(ss) => Flat(f[n + 1], ss, n + 1, T)}
  <2>4. 0 \in S
    <3>1. /\ f[1] = ss[1] /\ ss[1] \in Seq(T)
      BY <2>2, <2>3
    <3>2. ASSUME NEW k \in 1 .. Len(ss[1])
          PROVE  \E i \in 1 .. 1 : \E j \in 1 .. Len(ss[i]) :
                   /\ ss[1][k] = ss[i][j]
                   /\ j > 1 => \E m \in 1 .. k - 1 : ss[1][m] = ss[i][j - 1]
      <4>1. k > 1 => k - 1 \in 1 .. k - 1
        BY <3>1
      <4>2. 1 \in 1 .. 1
        OBVIOUS
      <4> QED BY <4>1, <4>2
    <3>3. \A i \in 1 .. 1 : i = 1
      OBVIOUS
    <3>4. Flat(f[1], ss, 1, T)
      BY <3>1, <3>2, <3>3 DEF Flat
    <3> QED BY <3>4
  <2>5. ASSUME NEW n \in Nat, n \in S
        PROVE  n + 1 \in S
    <3>1. SUFFICES ASSUME n + 2 <= Len(ss)
                   PROVE  Flat(f[n + 2], ss, n + 2, T)
      OBVIOUS
    <3>2. /\ n + 2 \in 1 .. Len(ss) /\ n + 2 # 1 /\ n + 2 - 1 = n + 1
          /\ (n + 1) + 1 = n + 2 /\ n + 1 \in Nat
      BY <3>1, <2>3
    <3>3. f[n + 2] = f[n + 1] \o ss[n + 2] /\ ss[n + 2] \in Seq(T)
      <4>1. PICK m : m = n + 2
        OBVIOUS
      <4>2. m \in 1 .. Len(ss) /\ m # 1 /\ m - 1 = n + 1
        BY <4>1, <3>2
      <4>3. f[m] = f[m - 1] \o ss[m]
        BY <4>2, <2>a, Zenon
      <4>4. f[m] = f[n + 1] \o ss[m] /\ ss[m] \in Seq(T)
        BY <4>2, <4>3, <2>b
      <4> QED BY <4>1, <4>4
    <3>4. Flat(f[n + 1], ss, n + 1, T)
      BY <2>5, <3>1, <2>3
    <3>5. Flat(f[n + 1] \o ss[(n + 1) + 1], ss, (n + 1) + 1, T)
      <4>1. ss[(n + 1) + 1] \in Seq(T)
        BY <3>2, <3>3
      <4> HIDE DEF S
      <4> QED BY <3>4, <3>2, <4>1, FlatMore
    <3> QED BY <3>2, <3>3, <3>5
  <2>6. Len(ss) - 1 \in S
    <3>1. Len(ss) - 1 \in Nat
      BY <2>3
    <3> HIDE DEF S
    <3> QED BY <3>1, <2>4, <2>5, AllNumbers
  <2>7. (Len(ss) - 1) + 1 = Len(ss) /\ Len(ss) - 1 \in Nat
    BY <2>3
  <2>8. Flat(f[Len(ss)], ss, Len(ss), T)
    BY <2>6, <2>7
  <2> QED BY <2>1, <2>8
<1> QED BY <1>1, <1>2

(* The frames of a log follow one another, from the first unit to the last *)
(* one.                                                                    *)
(* c is the log frames of units from + 1 .. to of step i: each starts where *)
(* the one before ends.                                                    *)
Chained(c, i, from, to) ==
  /\ c \in Seq(Frames) /\ Len(c) \in Nat
  /\ \A n \in 1 .. Len(c) :
       c[n].kind = "log" /\ c[n].step = i /\ c[n].at + c[n].len <= to
  /\ from < to => /\ Len(c) >= 1
                  /\ c[1].at = from
                  /\ c[1].len = Smaller(Frame, to - from)
                  /\ c[Len(c)].at + c[Len(c)].len = to
  /\ from >= to => c = <<>>
Links(c) ==
  \A n \in 1 .. Len(c) :
    n > 1 => n - 1 \in 1 .. Len(c) /\ c[n].at = c[n - 1].at + c[n - 1].len

LEMMA CutFacts ==
  ASSUME NEW i \in Nat, NEW from \in Nat, NEW to \in Nat
  PROVE  Chained(Cut(i, from, to), i, from, to)
<1>0. PICK c : c = Cut(i, from, to)
  OBVIOUS
<1>a. Frame \in Nat /\ Frame >= 1
  BY RemoteAssumption
<1> DEFINE d == to - from
           N == (d + Frame - 1) \div Frame
<1>b. d \in Int /\ N \in Int
  BY <1>a
<1>1. Frame * N <= d + Frame - 1 /\ d + Frame - 1 < Frame * N + Frame
  BY <1>a
<1>2. d <= 0 => N <= 0
  <2>1. N >= 1 => Frame * N >= Frame
    BY <1>a, <1>b
  <2> QED BY <2>1, <1>1, <1>a, <1>b
<1>3. d > 0 => N >= 1
  <2>1. N <= 0 => Frame * N <= 0
    BY <1>a, <1>b
  <2> QED BY <2>1, <1>1, <1>a, <1>b
<1>4. ASSUME NEW n \in 1 .. N
      PROVE  /\ (n - 1) * Frame \in Nat /\ (n - 1) * Frame < d
             /\ n < N => n * Frame < d
             /\ n = N => n * Frame >= d
             /\ (n - 1) * Frame + Frame = n * Frame
  <2>1. (n - 1) * Frame + Frame = n * Frame /\ (n - 1) * Frame \in Nat
    BY <1>a, <1>b
  <2>2. n * Frame <= N * Frame
    BY <1>a, <1>b
  <2>3. n < N => n * Frame + Frame <= N * Frame
    <3>1. n < N => (n + 1) * Frame <= N * Frame
      BY <1>a, <1>b
    <3>2. (n + 1) * Frame = n * Frame + Frame
      BY <1>a, <1>b
    <3> QED BY <3>1, <3>2
  <2>4. N * Frame = Frame * N /\ N * Frame \in Int /\ n * Frame \in Int
    BY <1>a, <1>b
  <2> QED BY <2>1, <2>2, <2>3, <2>4, <1>1, <1>a, <1>b
<1>5. DOMAIN c = 1 .. N /\ c = [n \in 1 .. N |->
        FrameOf("log", i, from + (n - 1) * Frame,
                Smaller(Frame, to - (from + (n - 1) * Frame)))]
  BY <1>0 DEF Cut
<1>6. \A n \in 1 .. N : /\ c[n].kind = "log" /\ c[n].step = i
                        /\ c[n].at = from + (n - 1) * Frame
                        /\ c[n].len = Smaller(Frame, to - (from + (n - 1) * Frame))
                        /\ c[n] = FrameOf("log", i, from + (n - 1) * Frame,
                                     Smaller(Frame, to - (from + (n - 1) * Frame)))
  BY <1>5 DEF FrameOf
<1> HIDE DEF N
<1>7. ASSUME NEW n \in 1 .. N
      PROVE  /\ c[n] \in Frames
             /\ c[n].kind = "log" /\ c[n].step = i /\ c[n].at + c[n].len <= to
             /\ n = 1 => c[n].at = from /\ c[n].len = Smaller(Frame, to - from)
             /\ n = N => c[n].at + c[n].len = to
  <2>a. n \in Int /\ n >= 1 /\ n <= N
    BY <1>b
  <2>1. /\ c[n].kind = "log" /\ c[n].step = i
        /\ c[n].at = from + (n - 1) * Frame
        /\ c[n].len = Smaller(Frame, to - c[n].at)
    BY <1>6
  <2>2. c[n].at \in Nat /\ c[n].at < to
    BY <2>1, <1>4
  <2>3. c[n].len \in Nat /\ c[n].at + c[n].len <= to
    BY <2>1, <2>2, <1>a DEF Smaller
  <2>4. c[n] \in Frames
    <3>1. c[n] = FrameOf("log", i, c[n].at, c[n].len)
      BY <1>6, <2>1
    <3> QED BY <3>1, <2>2, <2>3 DEF FrameOf, Frames, Kinds
  <2>5. n = 1 => c[n].at = from
    <3>1. (1 - 1) * Frame = 0
      BY <1>a
    <3> QED BY <3>1, <2>1
  <2>7. n = N => c[n].at + c[n].len = to
    <3>1. n = N => (n - 1) * Frame + Frame >= d /\ (n - 1) * Frame \in Nat
      BY <1>4
    <3> QED BY <3>1, <2>1, <2>2, <1>a DEF Smaller
  <2> QED BY <2>1, <2>3, <2>4, <2>5, <2>7
<1>8. from >= to => c = <<>>
  <2>1. from >= to => N <= 0
    BY <1>2
  <2>2. N <= 0 => 1 .. N = {}
    BY <1>b
  <2>3. N <= 0 => c = <<>>
    BY <2>2, <1>5
  <2> QED BY <2>1, <2>3
<1>9. from < to => N >= 1
  BY <1>3
<1>10. c \in Seq(Frames) /\ Len(c) \in Nat /\ (N >= 0 => Len(c) = N) /\ (N < 0 => Len(c) = 0)
  <2>1. CASE N >= 0
    <3>1. N \in Nat
      BY <2>1, <1>b
    <3>2. c = [n \in 1 .. N |-> c[n]] /\ \A n \in 1 .. N : c[n] \in Frames
      BY <1>5, <1>7
    <3>3. c \in Seq(Frames)
      BY <3>1, <3>2
    <3> QED BY <3>1, <3>3, <1>5, LenProperties
  <2>2. CASE N < 0
    <3>1. 1 .. N = {}
      BY <2>2, <1>b
    <3>2. c = <<>>
      BY <3>1, <1>5
    <3> QED BY <3>2, <2>2, <1>b
  <2> QED BY <2>1, <2>2, <1>b
<1>11. 1 .. Len(c) = 1 .. N
  BY <1>10, <1>b
<1>12. from < to => N >= 1 /\ N = Len(c) /\ 1 \in 1 .. N /\ N \in 1 .. N
  BY <1>9, <1>10, <1>b
<1> HIDE DEF d
<1>13. Chained(c, i, from, to)
  BY <1>7, <1>8, <1>10, <1>11, <1>12 DEF Chained
<1> QED BY <1>0, <1>13

LEMMA CutChain ==
  ASSUME NEW i \in Nat, NEW from \in Nat, NEW to \in Nat
  PROVE  Links(Cut(i, from, to))
<1>0. PICK c : c = Cut(i, from, to)
  OBVIOUS
<1>e. c \in Seq(Frames) /\ Len(c) \in Nat
  BY <1>0, CutFacts DEF Chained
<1> SUFFICES ASSUME NEW n \in 1 .. Len(c), n > 1
             PROVE  n - 1 \in 1 .. Len(c) /\ c[n].at = c[n - 1].at + c[n - 1].len
  BY <1>0 DEF Links
<1>a. Frame \in Nat /\ Frame >= 1
  BY RemoteAssumption
<1> DEFINE d == to - from
           N == (d + Frame - 1) \div Frame
<1>b. d \in Int /\ N \in Int /\ Frame * N < d + Frame
  BY <1>a
<1>c. DOMAIN c = 1 .. N /\ c = [m \in 1 .. N |->
        FrameOf("log", i, from + (m - 1) * Frame,
                Smaller(Frame, to - (from + (m - 1) * Frame)))]
  BY <1>0 DEF Cut
<1>1. \A m \in 1 .. N : /\ c[m].at = from + (m - 1) * Frame
                        /\ c[m].len = Smaller(Frame, to - (from + (m - 1) * Frame))
  BY <1>c DEF FrameOf
<1> HIDE DEF N
<1>2. n \in 1 .. N /\ n \in Int /\ n > 1
  <2>2. DOMAIN c = 1 .. Len(c) /\ Len(c) \in Nat
    BY <1>e, LenProperties
  <2>3. n \in DOMAIN c /\ n > 1
    BY <2>2
  <2>4. n \in 1 .. N
    BY <2>3, <1>c
  <2> QED BY <2>3, <2>4, <1>b
<1>3. n - 1 \in 1 .. N /\ n - 1 \in Int
  BY <1>2, <1>b
<1>4. /\ c[n].at = from + (n - 1) * Frame
      /\ c[n - 1].at = from + ((n - 1) - 1) * Frame
      /\ c[n - 1].len = Smaller(Frame, to - (from + ((n - 1) - 1) * Frame))
  BY <1>1, <1>2, <1>3
<1>5. ((n - 1) - 1) * Frame + Frame = (n - 1) * Frame /\ ((n - 1) - 1) * Frame \in Int
  BY <1>a, <1>3
<1>6. (n - 1) * Frame < d
  <2>1. (n - 1) * Frame + Frame = n * Frame /\ n * Frame <= N * Frame
    BY <1>a, <1>b, <1>2
  <2>2. N * Frame = Frame * N /\ N * Frame \in Int /\ n * Frame \in Int /\ (n - 1) * Frame \in Int
    BY <1>a, <1>b, <1>2
  <2> QED BY <2>1, <2>2, <1>a, <1>b
<1>7. c[n - 1].len = Frame
  BY <1>4, <1>5, <1>6, <1>a, <1>3 DEF Smaller
<1>8. n - 1 \in 1 .. Len(c)
  <2>1. Len(c) \in Nat /\ n \in 1 .. Len(c)
    BY <1>e
  <2> QED BY <2>1, <1>3
<1>9. c[n].at = c[n - 1].at + c[n - 1].len
  <2>1. PICK y : y = ((n - 1) - 1) * Frame
    OBVIOUS
  <2>2. PICK z : z = (n - 1) * Frame
    OBVIOUS
  <2>3. y \in Int /\ z = y + Frame /\ c[n].at = from + z /\ c[n - 1].at = from + y
    BY <2>1, <2>2, <1>4, <1>5
  <2> HIDE DEF d
  <2> QED BY <2>3, <1>7, <1>a
<1> QED BY <1>8, <1>9


-----------------------------------------------------------------------------
(* Frames. *)

(* The frame f has unit u of step i, or one after it. *)
Carries(f, i, u) == f.kind = "log" /\ f.step = i /\ u <= f.at + f.len

(* Unit u of step i is among the first `base`, or in one of the frames     *)
(* before the n-th.                                                        *)
Reaches(F, n, i, base, u) == u <= base \/ \E m \in 1 .. n - 1 : Carries(F[m], i, u)

(* The frames F of the logs of `steps`, of which base[i] units are held,   *)
(* leave no gap, and the end of a step comes after all of its log.         *)
Feeds(F, base, steps) ==
  \A n \in 1 .. Len(F) :
    /\ F[n].kind = "log" => Reaches(F, n, F[n].step, base[F[n].step], F[n].at)
    /\ F[n].kind = "step-end" =>
         Reaches(F, n, F[n].step, base[F[n].step], steps[F[n].step].size)

(* A frame that is under way is of a step of the run: what it carries was  *)
(* written, what it ends has ended.                                        *)
FrameFits(f, steps) ==
  /\ f.kind \in {"log", "step-start", "step-end"} => f.step \in 1 .. Len(steps)
  /\ f.kind = "log" => f.at + f.len <= steps[f.step].size
  /\ f.kind = "step-end" => steps[f.step].ended

SentOf(steps) == [i \in 1 .. Len(steps) |-> steps[i].sent]
AckedOf(steps) == [i \in 1 .. Len(steps) |-> steps[i].acked]

(* What a step's fields are. *)
LEMMA StepFields ==
  ASSUME NEW steps \in Seq(StepLog)
  PROVE  /\ Len(steps) \in Nat /\ DOMAIN steps = 1 .. Len(steps)
         /\ \A i \in 1 .. Len(steps) :
              /\ steps[i] \in StepLog
              /\ steps[i].size \in Nat /\ steps[i].sent \in Nat /\ steps[i].acked \in Nat
              /\ steps[i].ended \in BOOLEAN
<1>1. Len(steps) \in Nat /\ DOMAIN steps = 1 .. Len(steps)
  BY LenProperties
<1>2. \A i \in 1 .. Len(steps) : steps[i] \in StepLog
  OBVIOUS
<1>3. \A s \in StepLog : s.size \in Nat /\ s.sent \in Nat /\ s.acked \in Nat /\ s.ended \in BOOLEAN
  BY DEF StepLog
<1> QED BY <1>1, <1>2, <1>3

LEMMA FrameFields ==
  ASSUME NEW F \in Seq(Frames)
  PROVE  /\ Len(F) \in Nat
         /\ \A n \in 1 .. Len(F) : /\ F[n] \in Frames /\ F[n].kind \in Kinds
                                   /\ F[n].step \in Nat /\ F[n].at \in Nat /\ F[n].len \in Nat
<1>1. Len(F) \in Nat /\ \A n \in 1 .. Len(F) : F[n] \in Frames
  BY LenProperties
<1>2. \A f \in Frames : f.kind \in Kinds /\ f.step \in Nat /\ f.at \in Nat /\ f.len \in Nat
  BY DEF Frames
<1> QED BY <1>1, <1>2

(* Blocks of frames, one per step, made into one sequence.                 *)
LEMMA FlattenFrames ==
  ASSUME NEW ss \in Seq(Seq(Frames))
  PROVE  LET F == FlattenSeq(ss) IN
           /\ F \in Seq(Frames)
           /\ \A n \in 1 .. Len(F) : \E i \in 1 .. Len(ss) : \E j \in 1 .. Len(ss[i]) :
                /\ F[n] = ss[i][j]
                /\ j > 1 => \E m \in 1 .. n - 1 : F[m] = ss[i][j - 1]
           /\ \A i \in 1 .. Len(ss) : \A j \in 1 .. Len(ss[i]) :
                \E n \in 1 .. Len(F) : F[n] = ss[i][j]
  BY FlattenBlocks DEF Flat

(* What flush() sends follows what was sent before. *)
LEMMA PendingFacts ==
  ASSUME NEW steps \in Seq(StepLog), NEW force \in BOOLEAN
  PROVE  LET F == Pending(steps, force) IN
           /\ F \in Seq(Frames)
           /\ \A n \in 1 .. Len(F) : F[n].kind = "log" /\ FrameFits(F[n], steps)
           /\ Feeds(F, SentOf(steps), steps)
           /\ \A i \in 1 .. Len(steps) :
                Reaches(F, Len(F) + 1, i, steps[i].sent, Flushed(steps, force)[i].sent)
<1> DEFINE ss == [i \in DOMAIN steps |->
                    LET s == steps[i]
                    IN IF force THEN Cut(i, s.sent, s.size) ELSE CutFirst(i, s.sent, s.size)]
           F == FlattenSeq(ss)
<1>a. /\ Len(steps) \in Nat /\ DOMAIN steps = 1 .. Len(steps)
      /\ \A i \in 1 .. Len(steps) : steps[i].size \in Nat /\ steps[i].sent \in Nat
      /\ Frame \in Nat /\ Frame >= 1
  BY StepFields, RemoteAssumption
<1>1. Pending(steps, force) = F
  BY DEF Pending
<1>2. ASSUME NEW i \in 1 .. Len(steps)
      PROVE  /\ ss[i] \in Seq(Frames)
             /\ \A j \in 1 .. Len(ss[i]) :
                  /\ ss[i][j].kind = "log" /\ ss[i][j].step = i
                  /\ ss[i][j].at + ss[i][j].len <= steps[i].size
                  /\ j = 1 => ss[i][j].at = steps[i].sent
             /\ Links(ss[i])
             /\ \/ Flushed(steps, force)[i].sent <= steps[i].sent
                \/ \E j \in 1 .. Len(ss[i]) :
                     Flushed(steps, force)[i].sent <= ss[i][j].at + ss[i][j].len
  <2>c. PICK c : c = Cut(i, steps[i].sent, steps[i].size)
    OBVIOUS
  <2>1. Chained(c, i, steps[i].sent, steps[i].size) /\ Links(c)
    <3>1. i \in Nat /\ steps[i].sent \in Nat /\ steps[i].size \in Nat
      BY <1>a
    <3> QED BY <3>1, <2>c, CutFacts, CutChain
  <2>2. Flushed(steps, force)[i].sent =
          IF force THEN Larger(steps[i].sent, steps[i].size)
          ELSE Larger(steps[i].sent, Smaller(steps[i].sent + Frame, steps[i].size))
    BY <1>a, StepFields DEF Flushed, StepLog
  <2>3. CASE steps[i].sent >= steps[i].size
    <3>1. c = <<>>
      BY <2>3, <2>1 DEF Chained
    <3>2. ss[i] = <<>>
      <4>1. SubSeq(c, 1, 0) = <<>>
        BY <3>1
      <4> QED BY <3>1, <4>1, <2>3, <1>a, <2>c DEF CutFirst
    <3>3. Flushed(steps, force)[i].sent <= steps[i].sent
      BY <2>3, <2>2, <1>a DEF Larger, Smaller
    <3> HIDE DEF ss
    <3> QED BY <3>2, <3>3 DEF Links
  <2>4. CASE steps[i].sent < steps[i].size
    <3>1. /\ c \in Seq(Frames) /\ Len(c) \in Nat /\ Len(c) >= 1
          /\ c[1].at = steps[i].sent
          /\ c[1].len = Smaller(Frame, steps[i].size - steps[i].sent)
          /\ c[Len(c)].at + c[Len(c)].len = steps[i].size
          /\ \A n \in 1 .. Len(c) :
               c[n].kind = "log" /\ c[n].step = i /\ c[n].at + c[n].len <= steps[i].size
      BY <2>4, <2>1 DEF Chained
    <3>2. CASE force
      <4>1. ss[i] = c
        BY <3>2, <1>a, <2>c
      <4>2. Len(c) \in 1 .. Len(c)
        BY <3>1
      <4>3. Flushed(steps, force)[i].sent = steps[i].size
        <5>1. Flushed(steps, force)[i].sent = Larger(steps[i].sent, steps[i].size)
          BY <3>2, <2>2
        <5> QED BY <5>1, <2>4, <1>a DEF Larger
      <4>4. Flushed(steps, force)[i].sent <= c[Len(c)].at + c[Len(c)].len
        BY <4>3, <3>1, <1>a
      <4> HIDE DEF ss
      <4>5. \E j \in 1 .. Len(ss[i]) :
              Flushed(steps, force)[i].sent <= ss[i][j].at + ss[i][j].len
        BY <4>1, <4>2, <4>4
      <4> QED BY <4>1, <4>5, <3>1, <2>1
    <3>3. CASE ~force
      <4>1. ss[i] = SubSeq(c, 1, 1)
        BY <3>3, <2>4, <1>a, <2>c DEF CutFirst
      <4> HIDE DEF ss
      <4>2. ss[i] \in Seq(Frames) /\ Len(ss[i]) = 1 /\ ss[i][1] = c[1] /\ 1 \in 1 .. Len(c)
        BY <4>1, <3>1
      <4>3. Flushed(steps, force)[i].sent <= c[1].at + c[1].len
        BY <3>3, <2>2, <2>4, <3>1, <1>a DEF Larger, Smaller
      <4>4. \A j \in 1 .. Len(ss[i]) : j = 1
        BY <4>2
      <4>5. /\ 1 \in 1 .. Len(ss[i])
            /\ Flushed(steps, force)[i].sent <= ss[i][1].at + ss[i][1].len
        BY <4>2, <4>3
      <4>6. Links(ss[i])
        BY <4>4 DEF Links
      <4> QED BY <4>2, <4>4, <4>5, <4>6, <3>1
    <3> QED BY <3>2, <3>3
  <2>5. steps[i].sent >= steps[i].size \/ steps[i].sent < steps[i].size
    BY <1>a
  <2> QED BY <2>3, <2>4, <2>5
<1>3. ss \in Seq(Seq(Frames)) /\ Len(ss) = Len(steps)
  <2>1. ss = [i \in 1 .. Len(steps) |-> ss[i]]
    BY <1>a
  <2> HIDE DEF ss
  <2> QED BY <2>1, <1>2, <1>a
<1> HIDE DEF ss
<1>4. /\ F \in Seq(Frames)
      /\ \A n \in 1 .. Len(F) : \E i \in 1 .. Len(ss) : \E j \in 1 .. Len(ss[i]) :
           /\ F[n] = ss[i][j]
           /\ j > 1 => \E m \in 1 .. n - 1 : F[m] = ss[i][j - 1]
      /\ \A i \in 1 .. Len(ss) : \A j \in 1 .. Len(ss[i]) :
           \E n \in 1 .. Len(F) : F[n] = ss[i][j]
  BY <1>3, FlattenFrames
<1> HIDE DEF F
<1>5. ASSUME NEW n \in 1 .. Len(F)
      PROVE  /\ F[n].kind = "log" /\ FrameFits(F[n], steps)
             /\ Reaches(F, n, F[n].step, SentOf(steps)[F[n].step], F[n].at)
  <2>1. PICK i \in 1 .. Len(ss) : \E j \in 1 .. Len(ss[i]) :
           /\ F[n] = ss[i][j]
           /\ j > 1 => \E m \in 1 .. n - 1 : F[m] = ss[i][j - 1]
    BY <1>4
  <2>a. i \in 1 .. Len(steps)
    BY <1>3
  <2>2. PICK j \in 1 .. Len(ss[i]) :
           /\ F[n] = ss[i][j]
           /\ j > 1 => \E m \in 1 .. n - 1 : F[m] = ss[i][j - 1]
    BY <2>1
  <2>3. /\ F[n].kind = "log" /\ F[n].step = i /\ F[n].at + F[n].len <= steps[i].size
        /\ j = 1 => F[n].at = steps[i].sent
        /\ j > 1 => /\ j - 1 \in 1 .. Len(ss[i])
                    /\ F[n].at = ss[i][j - 1].at + ss[i][j - 1].len
                    /\ ss[i][j - 1].kind = "log" /\ ss[i][j - 1].step = i
    BY <2>2, <2>a, <1>2 DEF Links
  <2>4. F[n].at \in Nat
    BY <1>4, FrameFields
  <2>5. j > 1 => \E m \in 1 .. n - 1 : Carries(F[m], i, F[n].at)
    <3>1. SUFFICES ASSUME j > 1
                   PROVE  \E m \in 1 .. n - 1 : Carries(F[m], i, F[n].at)
      OBVIOUS
    <3>2. PICK m \in 1 .. n - 1 : F[m] = ss[i][j - 1]
      BY <3>1, <2>2
    <3> QED BY <3>1, <3>2, <2>3, <2>4 DEF Carries
  <2>6. j = 1 \/ j > 1
    <3>1. Len(ss[i]) \in Nat
      BY <2>a, <1>2
    <3> QED BY <3>1
  <2> QED BY <2>3, <2>4, <2>5, <2>6, <2>a, <1>a DEF FrameFits, Reaches, SentOf
<1>6. ASSUME NEW i \in 1 .. Len(steps)
      PROVE  Reaches(F, Len(F) + 1, i, steps[i].sent, Flushed(steps, force)[i].sent)
  <2>1. CASE \E j \in 1 .. Len(ss[i]) : Flushed(steps, force)[i].sent <= ss[i][j].at + ss[i][j].len
    <3>1. PICK j \in 1 .. Len(ss[i]) : Flushed(steps, force)[i].sent <= ss[i][j].at + ss[i][j].len
      BY <2>1
    <3>2. PICK n \in 1 .. Len(F) : F[n] = ss[i][j]
      BY <1>3, <1>4
    <3>3. Carries(F[n], i, Flushed(steps, force)[i].sent)
      BY <3>1, <3>2, <1>2 DEF Carries
    <3>4. n \in 1 .. (Len(F) + 1) - 1
      BY <1>4, LenProperties
    <3> QED BY <3>3, <3>4 DEF Reaches
  <2> QED BY <2>1, <1>2 DEF Reaches
<1> QED BY <1>1, <1>4, <1>5, <1>6 DEF Feeds

-----------------------------------------------------------------------------
(* Types. *)

SinkSet == [pc : Places, steps : Seq(StepLog), conn : Nat, lost : BOOLEAN,
            output : {"none", "declared", "noted"},
            attempts : 0 .. MaxAttempts,
            result : {"none", "ok", "lost", "error"}]
UploadSet == [offset : Nat, failures : 0 .. MaxFailures + 1, req : Nat,
              probe : BOOLEAN]
HostSet == [log : [Steps -> Seq(Nat)], steps : 0 .. Len(Sizes),
            status : Statuses, meta : BOOLEAN, part : Seq(Nat),
            stored : SUBSET Seq(Nat)]

(* What sendPut needs of an upload, and why failures stay bounded. *)
UploadFits ==
  /\ puts = <<>> => upload.offset = 0
  /\ sink.pc \in {"steps", "upload"} => upload.failures <= MaxFailures

(* The parts of the type invariant, each of one variable or two.           *)
SinkTyped == sink \in SinkSet /\ Len(sink.steps) <= Len(Sizes)
UploadTyped == upload \in UploadSet /\ upload.req \in 0 .. Len(puts)
LinkTyped ==
  /\ link \in Seq(Link)
  /\ sink.conn \in 0 .. Len(link)
  /\ sink.conn > 0 => link[sink.conn].open
HostTyped == host \in HostSet
CountTyped == claim \in BOOLEAN /\ breaks \in 0 .. MaxBreaks /\ reports \in 0 .. MaxReports
PutsTyped == puts \in Seq(Put)
Typed == SinkTyped /\ UploadTyped /\ LinkTyped /\ HostTyped /\ CountTyped /\ PutsTyped

LEMMA TypeParts == TypeOK <=> Typed
  BY DEF TypeOK, Typed, SinkTyped, UploadTyped, LinkTyped, HostTyped, CountTyped,
         PutsTyped, SinkSet, UploadSet, HostSet

LEMMA ConstantFacts ==
  /\ Len(Sizes) \in Nat /\ Len(Sizes) >= 1 /\ Steps = 1 .. Len(Sizes)
  /\ \A i \in Steps : Sizes[i] \in Nat
  /\ Total \in Nat /\ MaxBreaks \in Nat /\ MaxReports \in Nat /\ MaxFailures \in Nat
  /\ Frame \in Nat /\ Frame >= 1 /\ Chunk \in Nat /\ Chunk >= 1
  /\ MaxAttempts \in Nat /\ MaxAttempts >= 1
<1>1. Sizes \in Seq(Nat) /\ Sizes # <<>>
  BY RemoteAssumption
<1>2. Len(Sizes) \in Nat /\ Steps = 1 .. Len(Sizes) /\ Len(Sizes) # 0
  BY <1>1, LenProperties, EmptySeq DEF Steps
<1>3. \A i \in Steps : Sizes[i] \in Nat
  BY <1>1, <1>2
<1> QED BY <1>2, <1>3, RemoteAssumption

(* The fields of a stream's record. *)
LEMMA LinkFields ==
  ASSUME NEW l \in Link
  PROVE  /\ l.up \in Seq(Frames) /\ l.down \in Seq(Replies)
         /\ l.open \in BOOLEAN /\ l.alive \in BOOLEAN
         /\ l.steps \in Nat /\ l.status \in Statuses
  BY DEF Link

(* The streams after one of them was replaced. *)
LEMMA LinkReplaced ==
  ASSUME NEW ls \in Seq(Link), NEW k \in 1 .. Len(ls), NEW l \in Link
  PROVE  LET n == [ls EXCEPT ![k] = l] IN
           /\ n \in Seq(Link) /\ Len(n) = Len(ls)
           /\ n[k] = l
           /\ \A j \in 1 .. Len(ls) : j # k => n[j] = ls[j]
  BY ExceptSeq

LEMMA GoneIsLink == Gone \in Link /\ Gone.up = <<>> /\ Gone.down = <<>> /\ Gone.steps = 0
                    /\ Gone.alive = FALSE /\ Gone.open = FALSE
<1>1. <<>> \in Seq(Frames) /\ <<>> \in Seq(Replies)
  OBVIOUS
<1> QED BY <1>1 DEF Gone, Link, Statuses

(* A stream the runner closed: nothing goes down in it any more, or it is  *)
(* gone.                                                                   *)
Shut(l) == IF l.alive THEN [l EXCEPT !.open = FALSE, !.down = <<>>] ELSE Gone

LEMMA ShutFacts ==
  ASSUME NEW l \in Link
  PROVE  /\ Shut(l) \in Link
         /\ Shut(l).up = l.up \/ Shut(l).up = <<>>
         /\ Shut(l).alive => l.alive /\ Shut(l).up = l.up
         /\ Shut(l).down = <<>>
         /\ Shut(l).steps = l.steps \/ Shut(l).steps = 0
<1>1. <<>> \in Seq(Replies)
  OBVIOUS
<1>2. CASE l.alive
  <2>1. Shut(l) = [l EXCEPT !.open = FALSE, !.down = <<>>]
    BY <1>2 DEF Shut
  <2> QED BY <2>1, <1>1, <1>2 DEF Link
<1>3. CASE ~l.alive
  <2>1. Shut(l) = Gone
    BY <1>3 DEF Shut
  <2> QED BY <2>1, GoneIsLink
<1> QED BY <1>2, <1>3

LEMMA ClosedFacts ==
  ASSUME LinkTyped
  PROVE  /\ Closed \in Seq(Link) /\ Len(Closed) = Len(link)
         /\ \A k \in 1 .. Len(link) : Closed[k] = link[k] \/ Closed[k] = Shut(link[k])
<1>1. CASE Connected
  <2>1. sink.conn \in 1 .. Len(link)
    BY <1>1 DEF LinkTyped, Connected
  <2>2. Closed = [link EXCEPT ![sink.conn] = Shut(link[sink.conn])]
    BY <1>1 DEF Closed, Shut
  <2>3. Shut(link[sink.conn]) \in Link
    BY <2>1, ShutFacts DEF LinkTyped
  <2> QED BY <2>1, <2>2, <2>3, LinkReplaced DEF LinkTyped
<1>2. CASE ~Connected
  BY <1>2 DEF Closed, LinkTyped
<1> QED BY <1>1, <1>2

LEMMA PutFacts ==
  ASSUME LinkTyped, NEW F \in Seq(Frames)
  PROVE  /\ Put_(F) \in Seq(Link) /\ Len(Put_(F)) = Len(link)
         /\ \A k \in 1 .. Len(link) : k # sink.conn => Put_(F)[k] = link[k]
         /\ sink.conn > 0 =>
              /\ sink.conn \in 1 .. Len(link)
              /\ Put_(F)[sink.conn] = [link[sink.conn] EXCEPT !.up = @ \o F]
              /\ Put_(F)[sink.conn].up = link[sink.conn].up \o F
              /\ Put_(F)[sink.conn].open
              /\ Put_(F)[sink.conn].alive = link[sink.conn].alive
              /\ Put_(F)[sink.conn].steps = link[sink.conn].steps
              /\ Put_(F)[sink.conn].down = link[sink.conn].down
<1>1. CASE Connected
  <2>1. sink.conn \in 1 .. Len(link) /\ link[sink.conn] \in Link /\ link[sink.conn].open
    BY <1>1 DEF LinkTyped, Connected
  <2> DEFINE l == [link[sink.conn] EXCEPT !.up = @ \o F]
  <2>2. link[sink.conn].up \o F \in Seq(Frames)
    BY <2>1, LinkFields, ConcatProperties
  <2>3. /\ l \in Link /\ l.up = link[sink.conn].up \o F /\ l.open = link[sink.conn].open
        /\ l.alive = link[sink.conn].alive /\ l.steps = link[sink.conn].steps
        /\ l.down = link[sink.conn].down
    BY <2>1, <2>2 DEF Link
  <2>4. Put_(F) = [link EXCEPT ![sink.conn] = l]
    BY <1>1 DEF Put_
  <2>5. link \in Seq(Link)
    BY DEF LinkTyped
  <2> HIDE DEF l
  <2>6. /\ Put_(F) \in Seq(Link) /\ Len(Put_(F)) = Len(link)
        /\ Put_(F)[sink.conn] = l
        /\ \A j \in 1 .. Len(link) : j # sink.conn => Put_(F)[j] = link[j]
    BY <2>1, <2>3, <2>4, <2>5, LinkReplaced
  <2> QED BY <2>1, <2>3, <2>6 DEF l
<1>2. CASE ~Connected
  BY <1>2 DEF Put_, Connected, LinkTyped
<1> QED BY <1>1, <1>2

-----------------------------------------------------------------------------
(* Frames one after the other. *)

LEMMA ReachesFirst ==
  ASSUME NEW A \in Seq(Frames), NEW B \in Seq(Frames), NEW i, NEW base \in Nat, NEW u \in Nat,
         NEW n \in 1 .. Len(A) + 1, NEW m \in Nat, n <= m, Reaches(A, n, i, base, u)
  PROVE  Reaches(A \o B, m, i, base, u)
<1>1. \A k \in 1 .. n - 1 : k \in 1 .. m - 1 /\ (A \o B)[k] = A[k]
  BY ConcatProperties, LenProperties
<1> QED BY <1>1 DEF Reaches

LEMMA ReachesAfter ==
  ASSUME NEW A \in Seq(Frames), NEW B \in Seq(Frames), NEW i,
         NEW base \in Nat, NEW mid \in Nat, NEW u \in Nat,
         NEW n \in 1 .. Len(B) + 1,
         Reaches(A, Len(A) + 1, i, base, mid), Reaches(B, n, i, mid, u)
  PROVE  Reaches(A \o B, Len(A) + n, i, base, u)
<1>1. Len(A) \in Nat /\ Len(B) \in Nat
  BY LenProperties
<1>2. CASE u <= mid
  <2>1. Reaches(A, Len(A) + 1, i, base, u)
    <3>1. CASE mid <= base
      BY <1>2, <3>1 DEF Reaches
    <3>2. CASE ~(mid <= base)
      <4>1. PICK m \in 1 .. (Len(A) + 1) - 1 : Carries(A[m], i, mid)
        BY <3>2 DEF Reaches
      <4>2. A[m].at \in Nat /\ A[m].len \in Nat
        <5>1. m \in 1 .. Len(A)
          BY <4>1, <1>1
        <5> QED BY <5>1, FrameFields
      <4>3. Carries(A[m], i, u)
        BY <4>1, <4>2, <1>2 DEF Carries
      <4> QED BY <4>3 DEF Reaches
    <3> QED BY <3>1, <3>2
  <2>2. Len(A) + 1 \in 1 .. Len(A) + 1 /\ Len(A) + n \in Nat /\ Len(A) + 1 <= Len(A) + n
    BY <1>1
  <2> QED BY <2>1, <2>2, ReachesFirst
<1>3. CASE ~(u <= mid)
  <2>1. PICK m \in 1 .. n - 1 : Carries(B[m], i, u)
    BY <1>3 DEF Reaches
  <2>2. m \in 1 .. Len(B) /\ Len(A) + m \in 1 .. (Len(A) + n) - 1
    BY <1>1, <2>1
  <2>3. (A \o B)[Len(A) + m] = B[m]
    BY <2>2, ConcatProperties
  <2> QED BY <2>1, <2>2, <2>3 DEF Reaches
<1> QED BY <1>2, <1>3

LEMMA FrameConcat ==
  ASSUME NEW A \in Seq(Frames), NEW B \in Seq(Frames)
  PROVE  /\ A \o B \in Seq(Frames) /\ Len(A \o B) = Len(A) + Len(B)
         /\ \A n \in 1 .. Len(A) + Len(B) :
              \/ n \in 1 .. Len(A) /\ (A \o B)[n] = A[n]
              \/ \E m \in 1 .. Len(B) : n = Len(A) + m /\ (A \o B)[n] = B[m]
<1>1. /\ A \o B \in Seq(Frames) /\ Len(A \o B) = Len(A) + Len(B)
      /\ Len(A) \in Nat /\ Len(B) \in Nat
      /\ \A n \in 1 .. Len(A) : (A \o B)[n] = A[n]
      /\ \A m \in 1 .. Len(B) : (A \o B)[Len(A) + m] = B[m]
  BY ConcatProperties, LenProperties
<1>2. ASSUME NEW n \in 1 .. Len(A) + Len(B)
      PROVE  \/ n \in 1 .. Len(A) /\ (A \o B)[n] = A[n]
             \/ \E m \in 1 .. Len(B) : n = Len(A) + m /\ (A \o B)[n] = B[m]
  <2>1. CASE n <= Len(A)
    BY <2>1, <1>1
  <2>2. CASE n > Len(A)
    <3>1. n - Len(A) \in 1 .. Len(B) /\ n = Len(A) + (n - Len(A))
      BY <2>2, <1>1
    <3> QED BY <3>1, <1>1
  <2> QED BY <2>1, <2>2, <1>1
<1> QED BY <1>1, <1>2

(* What fits goes on fitting one after the other. *)
Fitting(F, steps) == \A n \in 1 .. Len(F) : FrameFits(F[n], steps)

LEMMA FittingConcat ==
  ASSUME NEW A \in Seq(Frames), NEW B \in Seq(Frames), NEW steps,
         Fitting(A, steps), Fitting(B, steps)
  PROVE  Fitting(A \o B, steps)
  BY FrameConcat DEF Fitting

(* A log goes on where the frames before leave it. *)
LEMMA FeedsConcat ==
  ASSUME NEW A \in Seq(Frames), NEW B \in Seq(Frames), NEW steps \in Seq(StepLog),
         NEW base, NEW mid,
         \A i \in 1 .. Len(steps) : base[i] \in Nat /\ mid[i] \in Nat,
         Fitting(A, steps), Fitting(B, steps),
         Feeds(A, base, steps), Feeds(B, mid, steps),
         \A i \in 1 .. Len(steps) : Reaches(A, Len(A) + 1, i, base[i], mid[i])
  PROVE  Feeds(A \o B, base, steps)
<1>1. Len(A) \in Nat /\ Len(B) \in Nat /\ Len(A \o B) = Len(A) + Len(B)
  BY FrameConcat, LenProperties
<1>2. ASSUME NEW n \in 1 .. Len(A \o B), NEW u \in Nat, NEW i \in 1 .. Len(steps),
             \A k \in 1 .. Len(A) : n = k => Reaches(A, k, i, base[i], u),
             \A m \in 1 .. Len(B) : n = Len(A) + m => Reaches(B, m, i, mid[i], u)
      PROVE  Reaches(A \o B, n, i, base[i], u)
  <2>a. base[i] \in Nat /\ mid[i] \in Nat /\ Reaches(A, Len(A) + 1, i, base[i], mid[i])
    OBVIOUS
  <2>1. CASE n \in 1 .. Len(A)
    <3>1. Reaches(A, n, i, base[i], u)
      BY <2>1, <1>2
    <3>2. n \in 1 .. Len(A) + 1 /\ n \in Nat /\ n <= n
      BY <2>1, <1>1
    <3> QED BY <3>1, <3>2, <2>a, ReachesFirst
  <2>2. CASE n \notin 1 .. Len(A)
    <3>1. PICK m \in 1 .. Len(B) : n = Len(A) + m
      <4>1. n - Len(A) \in 1 .. Len(B) /\ n = Len(A) + (n - Len(A))
        BY <2>2, <1>1
      <4> QED BY <4>1
    <3>2. Reaches(B, m, i, mid[i], u) /\ m \in 1 .. Len(B) + 1
      BY <3>1, <1>2, <1>1
    <3>3. Reaches(A \o B, Len(A) + m, i, base[i], u)
      BY <3>2, <2>a, ReachesAfter
    <3> QED BY <3>1, <3>3
  <2> QED BY <2>1, <2>2
<1>3. ASSUME NEW n \in 1 .. Len(A \o B), (A \o B)[n].kind = "log"
      PROVE  Reaches(A \o B, n, (A \o B)[n].step, base[(A \o B)[n].step], (A \o B)[n].at)
  <2>1. PICK f : f = (A \o B)[n]
    OBVIOUS
  <2>2. f.kind = "log" /\ f.step \in 1 .. Len(steps) /\ f.at \in Nat
    <3>1. Fitting(A \o B, steps) /\ A \o B \in Seq(Frames)
      BY FittingConcat, FrameConcat
    <3>2. FrameFits(f, steps) /\ f.at \in Nat
      BY <2>1, <3>1, FrameFields DEF Fitting
    <3> QED BY <3>2, <2>1, <1>3 DEF FrameFits
  <2>3. \A k \in 1 .. Len(A) : n = k => Reaches(A, k, f.step, base[f.step], f.at)
    <3>1. SUFFICES ASSUME n \in 1 .. Len(A) PROVE Reaches(A, n, f.step, base[f.step], f.at)
      OBVIOUS
    <3>2. A[n] = f
      BY <3>1, <2>1, ConcatProperties
    <3> QED BY <3>1, <3>2, <2>2 DEF Feeds
  <2>4. \A m \in 1 .. Len(B) : n = Len(A) + m => Reaches(B, m, f.step, mid[f.step], f.at)
    <3>1. SUFFICES ASSUME NEW m \in 1 .. Len(B), n = Len(A) + m
                   PROVE  Reaches(B, m, f.step, mid[f.step], f.at)
      OBVIOUS
    <3>2. B[m] = f
      BY <3>1, <2>1, ConcatProperties
    <3> QED BY <3>2, <2>2 DEF Feeds
  <2>5. Reaches(A \o B, n, f.step, base[f.step], f.at)
    BY <2>2, <2>3, <2>4, <1>2
  <2> QED BY <2>5, <2>1
<1>4. ASSUME NEW n \in 1 .. Len(A \o B), (A \o B)[n].kind = "step-end"
      PROVE  Reaches(A \o B, n, (A \o B)[n].step, base[(A \o B)[n].step],
                     steps[(A \o B)[n].step].size)
  <2>1. PICK f : f = (A \o B)[n]
    OBVIOUS
  <2>2. f.kind = "step-end" /\ f.step \in 1 .. Len(steps) /\ steps[f.step].size \in Nat
    <3>1. Fitting(A \o B, steps)
      BY FittingConcat
    <3>2. FrameFits(f, steps)
      BY <2>1, <3>1 DEF Fitting
    <3>3. f.kind = "step-end" /\ f.step \in 1 .. Len(steps)
      BY <3>2, <2>1, <1>4 DEF FrameFits
    <3> QED BY <3>3, StepFields
  <2> DEFINE u == steps[f.step].size
  <2>3. \A k \in 1 .. Len(A) : n = k => Reaches(A, k, f.step, base[f.step], u)
    <3>1. SUFFICES ASSUME n \in 1 .. Len(A) PROVE Reaches(A, n, f.step, base[f.step], u)
      OBVIOUS
    <3>2. A[n] = f
      BY <3>1, <2>1, ConcatProperties
    <3> QED BY <3>1, <3>2, <2>2 DEF Feeds
  <2>4. \A m \in 1 .. Len(B) : n = Len(A) + m => Reaches(B, m, f.step, mid[f.step], u)
    <3>1. SUFFICES ASSUME NEW m \in 1 .. Len(B), n = Len(A) + m
                   PROVE  Reaches(B, m, f.step, mid[f.step], u)
      OBVIOUS
    <3>2. B[m] = f
      BY <3>1, <2>1, ConcatProperties
    <3> QED BY <3>2, <2>2 DEF Feeds
  <2>5. Reaches(A \o B, n, f.step, base[f.step], u)
    <3> HIDE DEF u
    <3>1. u \in Nat
      BY <2>2 DEF u
    <3> QED BY <2>2, <2>3, <2>4, <1>2, <3>1
  <2> QED BY <2>5, <2>1
<1> QED BY <1>3, <1>4 DEF Feeds

(* The first frame is taken: what it carried is held then. *)
LEMMA ReachesTail ==
  ASSUME NEW F \in Seq(Frames), F # <<>>, NEW n \in 1 .. Len(F), NEW i,
         NEW base \in Nat, NEW held \in Nat, NEW u \in Nat, base <= held,
         F[1].kind = "log" /\ F[1].step = i => F[1].at + F[1].len <= held,
         Reaches(F, n + 1, i, base, u)
  PROVE  Reaches(Tail(F), n, i, held, u)
<1>1. /\ Len(F) \in Nat /\ Len(F) >= 1 /\ Len(Tail(F)) = Len(F) - 1
      /\ \A m \in 1 .. Len(F) - 1 : Tail(F)[m] = F[m + 1]
  BY LenProperties, EmptySeq, HeadTailProperties
<1>2. CASE u <= base
  BY <1>2 DEF Reaches
<1>3. CASE ~(u <= base)
  <2>1. PICK m \in 1 .. (n + 1) - 1 : Carries(F[m], i, u)
    BY <1>3 DEF Reaches
  <2>2. m \in 1 .. Len(F)
    BY <2>1, <1>1
  <2>3. CASE m = 1
    <3>1. F[1].at \in Nat /\ F[1].len \in Nat
      BY <2>2, <2>3, FrameFields
    <3>2. u <= held
      BY <2>1, <2>3, <3>1 DEF Carries
    <3> QED BY <3>2 DEF Reaches
  <2>4. CASE m # 1
    <3>1. m - 1 \in 1 .. n - 1 /\ m - 1 \in 1 .. Len(F) - 1 /\ (m - 1) + 1 = m
      BY <2>1, <2>2, <2>4, <1>1
    <3>2. Tail(F)[m - 1] = F[m]
      BY <3>1, <1>1
    <3> QED BY <2>1, <3>1, <3>2 DEF Reaches
  <2> QED BY <2>3, <2>4
<1> QED BY <1>2, <1>3

LEMMA FeedsTail ==
  ASSUME NEW F \in Seq(Frames), F # <<>>, NEW steps \in Seq(StepLog),
         NEW base, NEW held,
         \A i \in 1 .. Len(steps) : base[i] \in Nat /\ held[i] \in Nat /\ base[i] <= held[i],
         F[1].kind = "log" => F[1].at + F[1].len <= held[F[1].step],
         Fitting(F, steps), Feeds(F, base, steps)
  PROVE  /\ Tail(F) \in Seq(Frames) /\ Fitting(Tail(F), steps)
         /\ Feeds(Tail(F), held, steps)
         /\ \A i \in 1 .. Len(steps) : \A u \in Nat :
              Reaches(F, Len(F) + 1, i, base[i], u)
                => Reaches(Tail(F), Len(Tail(F)) + 1, i, held[i], u)
<1>1. /\ Tail(F) \in Seq(Frames)
      /\ Len(F) \in Nat /\ Len(F) >= 1 /\ Len(Tail(F)) = Len(F) - 1
      /\ \A m \in 1 .. Len(F) - 1 : Tail(F)[m] = F[m + 1]
  BY LenProperties, EmptySeq, HeadTailProperties
<1>2. ASSUME NEW n \in 1 .. Len(F), NEW i \in 1 .. Len(steps), NEW u \in Nat,
             Reaches(F, n + 1, i, base[i], u)
      PROVE  Reaches(Tail(F), n, i, held[i], u)
  <2>1. base[i] \in Nat /\ held[i] \in Nat /\ base[i] <= held[i]
    OBVIOUS
  <2>2. F[1].kind = "log" /\ F[1].step = i => F[1].at + F[1].len <= held[i]
    OBVIOUS
  <2> QED BY <1>2, <2>1, <2>2, ReachesTail
<1>3. ASSUME NEW n \in 1 .. Len(Tail(F))
      PROVE  /\ FrameFits(Tail(F)[n], steps)
             /\ Tail(F)[n].kind = "log" =>
                  Reaches(Tail(F), n, Tail(F)[n].step, held[Tail(F)[n].step], Tail(F)[n].at)
             /\ Tail(F)[n].kind = "step-end" =>
                  Reaches(Tail(F), n, Tail(F)[n].step, held[Tail(F)[n].step],
                          steps[Tail(F)[n].step].size)
  <2>1. PICK f : f = Tail(F)[n]
    OBVIOUS
  <2>2. n \in 1 .. Len(F) /\ n + 1 \in 1 .. Len(F) /\ n \in 1 .. Len(F) - 1
    BY <1>1
  <2>3. F[n + 1] = f
    BY <2>1, <2>2, <1>1
  <2>4. FrameFits(f, steps) /\ f.at \in Nat
    BY <2>2, <2>3, FrameFields DEF Fitting
  <2>5. f.kind = "log" => Reaches(Tail(F), n, f.step, held[f.step], f.at)
    <3>1. SUFFICES ASSUME f.kind = "log" PROVE Reaches(Tail(F), n, f.step, held[f.step], f.at)
      OBVIOUS
    <3>2. f.step \in 1 .. Len(steps)
      BY <3>1, <2>4 DEF FrameFits
    <3>3. Reaches(F, n + 1, f.step, base[f.step], f.at)
      BY <3>1, <2>2, <2>3 DEF Feeds
    <3> QED BY <3>2, <3>3, <2>2, <2>4, <1>2
  <2>6. f.kind = "step-end" => Reaches(Tail(F), n, f.step, held[f.step], steps[f.step].size)
    <3>1. SUFFICES ASSUME f.kind = "step-end"
                   PROVE  Reaches(Tail(F), n, f.step, held[f.step], steps[f.step].size)
      OBVIOUS
    <3>2. f.step \in 1 .. Len(steps) /\ steps[f.step].size \in Nat
      <4>1. f.step \in 1 .. Len(steps)
        BY <3>1, <2>4 DEF FrameFits
      <4> QED BY <4>1, StepFields
    <3>3. Reaches(F, n + 1, f.step, base[f.step], steps[f.step].size)
      BY <3>1, <2>2, <2>3 DEF Feeds
    <3> QED BY <3>2, <3>3, <2>2, <1>2
  <2> QED BY <2>1, <2>4, <2>5, <2>6
<1>4. ASSUME NEW i \in 1 .. Len(steps), NEW u \in Nat, Reaches(F, Len(F) + 1, i, base[i], u)
      PROVE  Reaches(Tail(F), Len(Tail(F)) + 1, i, held[i], u)
  <2>1. Len(F) \in 1 .. Len(F) /\ Len(Tail(F)) + 1 = Len(F)
    BY <1>1
  <2> QED BY <1>4, <2>1, <1>2
<1> QED BY <1>1, <1>3, <1>4 DEF Fitting, Feeds

(* Steps later in the run: what has ended stays as it is.                  *)
Later(steps, later) ==
  /\ Len(steps) <= Len(later)
  /\ \A i \in 1 .. Len(steps) :
       /\ steps[i].size <= later[i].size
       /\ steps[i].ended => later[i].ended /\ later[i].size = steps[i].size

LEMMA FeedsLater ==
  ASSUME NEW F \in Seq(Frames), NEW steps \in Seq(StepLog), NEW later \in Seq(StepLog),
         NEW base, NEW held,
         \A i \in 1 .. Len(steps) : base[i] \in Nat /\ held[i] \in Nat /\ base[i] <= held[i],
         Later(steps, later), Fitting(F, steps)
  PROVE  /\ Fitting(F, later)
         /\ Feeds(F, base, steps) => Feeds(F, held, later)
<1>1. Len(steps) \in Nat /\ Len(later) \in Nat /\ 1 .. Len(steps) \subseteq 1 .. Len(later)
  BY LenProperties DEF Later
<1>2. ASSUME NEW n \in 1 .. Len(F)
      PROVE  /\ FrameFits(F[n], later)
             /\ Feeds(F, base, steps) =>
                  /\ F[n].kind = "log" => Reaches(F, n, F[n].step, held[F[n].step], F[n].at)
                  /\ F[n].kind = "step-end" =>
                       Reaches(F, n, F[n].step, held[F[n].step], later[F[n].step].size)
  <2>1. PICK f : f = F[n]
    OBVIOUS
  <2>2. FrameFits(f, steps) /\ f.at \in Nat /\ f.len \in Nat
    BY <2>1, FrameFields DEF Fitting
  <2>3. FrameFits(f, later)
    <3>1. f.kind \in {"log", "step-start", "step-end"} => f.step \in 1 .. Len(steps)
      BY <2>2 DEF FrameFits
    <3>2. f.kind = "log" => f.at + f.len <= later[f.step].size
      <4>1. SUFFICES ASSUME f.kind = "log" PROVE f.at + f.len <= later[f.step].size
        OBVIOUS
      <4>2. f.step \in 1 .. Len(steps) /\ f.at + f.len <= steps[f.step].size
        BY <4>1, <2>2 DEF FrameFits
      <4>3. steps[f.step].size \in Nat /\ later[f.step].size \in Nat
        BY <4>2, <1>1, StepFields
      <4> QED BY <4>2, <4>3, <2>2 DEF Later
    <3>3. f.kind = "step-end" => later[f.step].ended
      BY <2>2 DEF FrameFits, Later
    <3> QED BY <3>1, <3>2, <3>3, <1>1 DEF FrameFits
  <2>4. ASSUME NEW i \in 1 .. Len(steps), NEW u \in Nat, Reaches(F, n, i, base[i], u)
        PROVE  Reaches(F, n, i, held[i], u)
    BY <2>4 DEF Reaches
  <2>5. ASSUME Feeds(F, base, steps), f.kind = "log"
        PROVE  Reaches(F, n, f.step, held[f.step], f.at)
    <3>1. f.step \in 1 .. Len(steps) /\ Reaches(F, n, f.step, base[f.step], f.at)
      BY <2>5, <2>1, <2>2 DEF FrameFits, Feeds
    <3> QED BY <3>1, <2>2, <2>4
  <2>6. ASSUME Feeds(F, base, steps), f.kind = "step-end"
        PROVE  Reaches(F, n, f.step, held[f.step], later[f.step].size)
    <3>1. /\ f.step \in 1 .. Len(steps) /\ steps[f.step].ended
          /\ Reaches(F, n, f.step, base[f.step], steps[f.step].size)
      BY <2>6, <2>1, <2>2 DEF FrameFits, Feeds
    <3>2. later[f.step].size = steps[f.step].size /\ steps[f.step].size \in Nat
      BY <3>1, StepFields DEF Later
    <3> QED BY <3>1, <3>2, <2>4
  <2> QED BY <2>1, <2>3, <2>5, <2>6
<1>3. Fitting(F, later)
  BY <1>2 DEF Fitting
<1>4. Feeds(F, base, steps) => Feeds(F, held, later)
  BY <1>2 DEF Feeds
<1> QED BY <1>3, <1>4

(* What a new stream begins with of one step: its start, the log that is   *)
(* not acknowledged, and its end.                                          *)
Block(i, s) ==
  <<FrameOf("step-start", i, 0, 0)>>
    \o Cut(i, s.acked, s.size)
    \o (IF s.ended THEN <<FrameOf("step-end", i, 0, 0)>> ELSE <<>>)

(* What such a block b says: its log goes on where the acknowledged one     *)
(* ends, and its end comes after all of the log.                           *)
Tells(b, i, s) ==
  /\ b \in Seq(Frames)
  /\ \A j \in 1 .. Len(b) :
       /\ b[j].step = i /\ b[j].kind \in {"step-start", "log", "step-end"}
       /\ b[j].kind = "log" =>
            /\ b[j].at + b[j].len <= s.size
            /\ b[j].at <= s.acked \/ (j > 1 /\ Carries(b[j - 1], i, b[j].at))
       /\ b[j].kind = "step-end" =>
            /\ s.ended
            /\ s.size <= s.acked \/ (j > 1 /\ Carries(b[j - 1], i, s.size))
  /\ s.size <= s.acked \/ \E j \in 1 .. Len(b) : Carries(b[j], i, s.size)

LEMMA BlockFacts ==
  ASSUME NEW i \in Nat, NEW s \in StepLog
  PROVE  Tells(Block(i, s), i, s)
<1>b. PICK b : b = Block(i, s)
  OBVIOUS
<1>a. s.size \in Nat /\ s.acked \in Nat /\ s.ended \in BOOLEAN
  BY DEF StepLog
<1>c. PICK c : c = Cut(i, s.acked, s.size)
  OBVIOUS
<1>1. Chained(c, i, s.acked, s.size) /\ Links(c)
  BY <1>a, <1>c, CutFacts, CutChain
<1> DEFINE first == FrameOf("step-start", i, 0, 0)
           last == FrameOf("step-end", i, 0, 0)
           e == IF s.ended THEN <<last>> ELSE <<>>
<1>2. /\ first \in Frames /\ first.kind = "step-start" /\ first.step = i
      /\ last \in Frames /\ last.kind = "step-end" /\ last.step = i
  BY DEF FrameOf, Frames, Kinds
<1> HIDE DEF first, last
<1>3. /\ c \in Seq(Frames) /\ Len(c) \in Nat
      /\ \A n \in 1 .. Len(c) :
           /\ c[n].kind = "log" /\ c[n].step = i /\ c[n].at + c[n].len <= s.size
           /\ c[n].at \in Nat /\ c[n].len \in Nat
  BY <1>1, FrameFields DEF Chained
<1>4. e \in Seq(Frames) /\ Len(e) \in Nat /\ Len(e) <= 1
      /\ (Len(e) = 1 => e[1] = last /\ s.ended)
  BY <1>2, <1>a
<1> HIDE DEF e
<1> DEFINE h == <<first>> \o c
<1>5. /\ h \in Seq(Frames) /\ Len(h) = 1 + Len(c)
      /\ h[1] = first /\ \A n \in 1 .. Len(c) : h[1 + n] = c[n]
  BY <1>2, <1>3, ConcatProperties
<1> HIDE DEF h
<1>6. b = h \o e
  BY <1>b, <1>c DEF Block, h, e, first, last
<1>7. /\ b \in Seq(Frames) /\ Len(b) = 1 + Len(c) + Len(e) /\ Len(b) \in Nat
      /\ \A n \in 1 .. 1 + Len(c) : b[n] = h[n]
      /\ Len(e) = 1 => b[2 + Len(c)] = last
  <2>1. /\ b \in Seq(Frames) /\ Len(b) = Len(h) + Len(e)
        /\ \A n \in 1 .. Len(h) : b[n] = h[n]
        /\ \A n \in 1 .. Len(e) : b[Len(h) + n] = e[n]
    BY <1>4, <1>5, <1>6, ConcatProperties
  <2>2. Len(e) = 1 => b[Len(h) + 1] = last
    BY <2>1, <1>4
  <2>3. Len(h) + 1 = 2 + Len(c)
    BY <1>5, <1>3
  <2> QED BY <2>1, <2>2, <2>3, <1>5, <1>3, <1>4
<1>8. \A n \in 1 .. Len(c) : 1 + n \in 1 .. Len(b) /\ b[1 + n] = c[n]
  <2> SUFFICES ASSUME NEW n \in 1 .. Len(c)
               PROVE  1 + n \in 1 .. Len(b) /\ b[1 + n] = c[n]
    OBVIOUS
  <2>1. 1 + n \in 1 .. 1 + Len(c) /\ h[1 + n] = c[n]
    BY <1>3, <1>5
  <2>2. b[1 + n] = h[1 + n]
    BY <2>1, <1>7
  <2>3. 1 + n \in 1 .. Len(b)
    BY <2>1, <1>7, <1>4, <1>3
  <2> QED BY <2>1, <2>2, <2>3
<1>9. b[1] = first /\ 1 \in 1 .. Len(b)
  BY <1>7, <1>5, <1>3, <1>4
<1>10. ASSUME NEW j \in 1 .. Len(b)
       PROVE  \/ j = 1
              \/ \E n \in 1 .. Len(c) : j = 1 + n
              \/ j = 2 + Len(c) /\ Len(e) = 1
  <2>1. CASE j > 1 /\ j <= 1 + Len(c)
    <3>1. j - 1 \in 1 .. Len(c) /\ j = 1 + (j - 1)
      BY <2>1, <1>3
    <3> QED BY <3>1
  <2>2. PICK m : m = Len(e)
    OBVIOUS
  <2>3. j <= 1 + Len(c) + m /\ j >= 1 /\ j \in Int /\ m \in Nat /\ m <= 1
    BY <1>7, <1>4, <2>2
  <2>4. j = 1 \/ (j > 1 /\ j <= 1 + Len(c)) \/ (j = 2 + Len(c) /\ m = 1)
    BY <2>3, <1>3
  <2> QED BY <2>1, <2>2, <2>4
<1>11. s.size <= s.acked \/ (Len(c) \in 1 .. Len(c) /\ c[Len(c)].at + c[Len(c)].len = s.size
                             /\ Carries(c[Len(c)], i, s.size))
  <2>1. SUFFICES ASSUME s.acked < s.size
                 PROVE  /\ Len(c) \in 1 .. Len(c) /\ c[Len(c)].at + c[Len(c)].len = s.size
                        /\ Carries(c[Len(c)], i, s.size)
    BY <1>a
  <2>2. Len(c) >= 1 /\ c[Len(c)].at + c[Len(c)].len = s.size
    BY <2>1, <1>1 DEF Chained
  <2>3. Len(c) \in 1 .. Len(c)
    BY <2>2, <1>3
  <2> QED BY <2>2, <2>3, <1>3, <1>a DEF Carries
<1>12. ASSUME NEW n \in 1 .. Len(c)
       PROVE  \/ c[n].at <= s.acked
              \/ n > 1 /\ n - 1 \in 1 .. Len(c) /\ Carries(c[n - 1], i, c[n].at)
  <2>1. CASE n = 1
    <3>1. s.acked < s.size
      BY <1>1, <1>a, <2>1, <1>3 DEF Chained
    <3> QED BY <3>1, <1>1, <1>a, <2>1 DEF Chained
  <2>2. CASE n > 1
    <3>1. n - 1 \in 1 .. Len(c) /\ c[n].at = c[n - 1].at + c[n - 1].len
      BY <2>2, <1>1 DEF Links
    <3> QED BY <2>2, <3>1, <1>3 DEF Carries
  <2> QED BY <2>1, <2>2, <1>3
<1>13. ASSUME NEW j \in 1 .. Len(b)
       PROVE  /\ b[j].step = i /\ b[j].kind \in {"step-start", "log", "step-end"}
              /\ b[j].kind = "log" =>
                   /\ b[j].at + b[j].len <= s.size
                   /\ \/ b[j].at <= s.acked
                      \/ /\ j > 1 /\ j - 1 \in 1 .. Len(b)
                         /\ Carries(b[j - 1], i, b[j].at)
              /\ b[j].kind = "step-end" =>
                   /\ s.ended
                   /\ \/ s.size <= s.acked
                      \/ /\ j > 1 /\ j - 1 \in 1 .. Len(b)
                         /\ Carries(b[j - 1], i, s.size)
  <2>1. CASE j = 1
    BY <2>1, <1>9, <1>2
  <2>2. CASE \E n \in 1 .. Len(c) : j = 1 + n
    <3>1. PICK n \in 1 .. Len(c) : j = 1 + n
      BY <2>2
    <3>2. b[j] = c[n] /\ j > 1
      BY <3>1, <1>8
    <3>3. CASE c[n].at <= s.acked
      BY <3>2, <3>3, <1>3
    <3>4. CASE n > 1 /\ n - 1 \in 1 .. Len(c) /\ Carries(c[n - 1], i, c[n].at)
      <4>1. j - 1 = 1 + (n - 1) /\ j - 1 \in 1 .. Len(b)
        BY <3>1, <3>4, <1>8
      <4>2. b[j - 1] = c[n - 1]
        BY <4>1, <3>4, <1>8
      <4> QED BY <4>1, <4>2, <3>2, <3>4, <1>3
    <3> QED BY <3>3, <3>4, <1>12
  <2>3. CASE j = 2 + Len(c) /\ Len(e) = 1
    <3>1. b[j] = last /\ s.ended
      BY <2>3, <1>7, <1>4
    <3>2. CASE s.size <= s.acked
      BY <3>1, <3>2, <1>2
    <3>3. CASE ~(s.size <= s.acked)
      <4>1. Len(c) \in 1 .. Len(c) /\ Carries(c[Len(c)], i, s.size)
        BY <3>3, <1>11
      <4>2. j - 1 = 1 + Len(c) /\ j > 1
        BY <2>3, <1>3
      <4>3. j - 1 \in 1 .. Len(b) /\ b[j - 1] = c[Len(c)]
        BY <4>1, <4>2, <1>8
      <4> QED BY <4>1, <4>2, <4>3, <3>1, <1>2
    <3> QED BY <3>2, <3>3
  <2> QED BY <2>1, <2>2, <2>3, <1>10
<1>14. s.size <= s.acked \/ \E j \in 1 .. Len(b) : Carries(b[j], i, s.size)
  BY <1>11, <1>8
<1>15. Tells(b, i, s)
  BY <1>7, <1>13, <1>14 DEF Tells
<1> QED BY <1>b, <1>15

(* What connect() sends first follows what is acknowledged. *)
LEMMA ResendFacts ==
  ASSUME NEW steps \in Seq(StepLog)
  PROVE  LET F == ResendOf(steps) IN
           /\ F \in Seq(Frames)
           /\ Fitting(F, steps)
           /\ Feeds(F, AckedOf(steps), steps)
           /\ \A i \in 1 .. Len(steps) :
                Reaches(F, Len(F) + 1, i, steps[i].acked, steps[i].size)
<1> DEFINE ss == [i \in DOMAIN steps |-> Block(i, steps[i])]
           B == FlattenSeq(ss)
           A == <<FrameOf("started", 0, 0, 0)>>
           C == IF reports > 0 THEN <<FrameOf("progress", 0, 0, 0)>> ELSE <<>>
<1>a. /\ Len(steps) \in Nat /\ DOMAIN steps = 1 .. Len(steps)
      /\ \A i \in 1 .. Len(steps) :
           /\ steps[i] \in StepLog /\ steps[i].size \in Nat /\ steps[i].acked \in Nat
           /\ AckedOf(steps)[i] = steps[i].acked
  BY StepFields DEF AckedOf
<1>1. ResendOf(steps) = A \o B \o C
  BY DEF ResendOf, Block
<1>2. /\ A \in Seq(Frames) /\ Fitting(A, steps) /\ Feeds(A, AckedOf(steps), steps)
      /\ C \in Seq(Frames) /\ Fitting(C, steps) /\ Feeds(C, AckedOf(steps), steps)
  <2>1. \A kind \in {"started", "progress"} :
          /\ FrameOf(kind, 0, 0, 0) \in Frames
          /\ FrameOf(kind, 0, 0, 0).kind = kind
    BY DEF FrameOf, Frames, Kinds
  <2>2. ASSUME NEW f \in Frames, f.kind \in {"started", "progress"}
        PROVE  /\ <<f>> \in Seq(Frames) /\ Fitting(<<f>>, steps)
               /\ Feeds(<<f>>, AckedOf(steps), steps)
    BY <2>2 DEF Fitting, FrameFits, Feeds
  <2>3. <<>> \in Seq(Frames) /\ Fitting(<<>>, steps) /\ Feeds(<<>>, AckedOf(steps), steps)
    BY DEF Fitting, Feeds
  <2>4. A \in Seq(Frames) /\ Fitting(A, steps) /\ Feeds(A, AckedOf(steps), steps)
    BY <2>1, <2>2
  <2>5. CASE reports > 0
    <3>1. C = <<FrameOf("progress", 0, 0, 0)>>
      BY <2>5
    <3> QED BY <2>1, <2>2, <2>4, <3>1
  <2>6. CASE ~(reports > 0)
    <3>1. C = <<>>
      BY <2>6
    <3> QED BY <2>3, <2>4, <3>1
  <2> QED BY <2>5, <2>6
<1> HIDE DEF A, C
<1>b. \A i \in 1 .. Len(steps) : ss[i] = Block(i, steps[i])
  BY <1>a
<1>3. ASSUME NEW i \in 1 .. Len(steps)
      PROVE  ss[i] \in Seq(Frames) /\ Tells(ss[i], i, steps[i])
  <2>1. i \in Nat /\ steps[i] \in StepLog /\ ss[i] = Block(i, steps[i])
    BY <1>a, <1>b
  <2> HIDE DEF ss
  <2>2. Tells(ss[i], i, steps[i])
    BY <2>1, BlockFacts
  <2> QED BY <2>2 DEF Tells
<1>4. ss \in Seq(Seq(Frames)) /\ Len(ss) = Len(steps)
  <2>1. ss = [i \in 1 .. Len(steps) |-> ss[i]]
    BY <1>a
  <2> HIDE DEF ss
  <2> QED BY <2>1, <1>3, <1>a
<1> HIDE DEF ss
<1>5. /\ B \in Seq(Frames)
      /\ \A n \in 1 .. Len(B) : \E i \in 1 .. Len(ss) : \E j \in 1 .. Len(ss[i]) :
           /\ B[n] = ss[i][j]
           /\ j > 1 => \E m \in 1 .. n - 1 : B[m] = ss[i][j - 1]
      /\ \A i \in 1 .. Len(ss) : \A j \in 1 .. Len(ss[i]) :
           \E n \in 1 .. Len(B) : B[n] = ss[i][j]
  BY <1>4, FlattenFrames
<1> HIDE DEF B
<1>6. ASSUME NEW n \in 1 .. Len(B)
      PROVE  /\ FrameFits(B[n], steps)
             /\ B[n].kind = "log" =>
                  Reaches(B, n, B[n].step, AckedOf(steps)[B[n].step], B[n].at)
             /\ B[n].kind = "step-end" =>
                  Reaches(B, n, B[n].step, AckedOf(steps)[B[n].step], steps[B[n].step].size)
  <2>1. PICK i \in 1 .. Len(ss) : \E j \in 1 .. Len(ss[i]) :
           /\ B[n] = ss[i][j]
           /\ j > 1 => \E m \in 1 .. n - 1 : B[m] = ss[i][j - 1]
    BY <1>5
  <2>a. i \in 1 .. Len(steps) /\ AckedOf(steps)[i] = steps[i].acked
    BY <1>4, <1>a
  <2>2. PICK j \in 1 .. Len(ss[i]) :
           /\ B[n] = ss[i][j]
           /\ j > 1 => \E m \in 1 .. n - 1 : B[m] = ss[i][j - 1]
    BY <2>1
  <2>3. /\ B[n].step = i /\ B[n].kind \in {"step-start", "log", "step-end"}
        /\ B[n].kind = "log" =>
             /\ B[n].at + B[n].len <= steps[i].size
             /\ B[n].at <= steps[i].acked \/ (j > 1 /\ Carries(ss[i][j - 1], i, B[n].at))
        /\ B[n].kind = "step-end" =>
             /\ steps[i].ended
             /\ steps[i].size <= steps[i].acked \/ (j > 1 /\ Carries(ss[i][j - 1], i, steps[i].size))
    BY <2>2, <2>a, <1>3 DEF Tells
  <2>4. ASSUME NEW u, j > 1, Carries(ss[i][j - 1], i, u)
        PROVE  \E m \in 1 .. n - 1 : Carries(B[m], i, u)
    <3>1. PICK m \in 1 .. n - 1 : B[m] = ss[i][j - 1]
      BY <2>4, <2>2
    <3> QED BY <3>1, <2>4
  <2>5. FrameFits(B[n], steps)
    BY <2>3, <2>a DEF FrameFits
  <2>6. B[n].kind = "log" => Reaches(B, n, i, steps[i].acked, B[n].at)
    BY <2>3, <2>4 DEF Reaches
  <2>7. B[n].kind = "step-end" => Reaches(B, n, i, steps[i].acked, steps[i].size)
    BY <2>3, <2>4 DEF Reaches
  <2> QED BY <2>3, <2>5, <2>6, <2>7, <2>a
<1>7. Fitting(B, steps) /\ Feeds(B, AckedOf(steps), steps)
  BY <1>6 DEF Fitting, Feeds
<1>8. ASSUME NEW i \in 1 .. Len(steps)
      PROVE  Reaches(B, Len(B) + 1, i, steps[i].acked, steps[i].size)
  <2>1. CASE \E j \in 1 .. Len(ss[i]) : Carries(ss[i][j], i, steps[i].size)
    <3>1. PICK j \in 1 .. Len(ss[i]) : Carries(ss[i][j], i, steps[i].size)
      BY <2>1
    <3>2. PICK n \in 1 .. Len(B) : B[n] = ss[i][j]
      BY <1>4, <1>5
    <3>3. n \in 1 .. (Len(B) + 1) - 1
      BY <1>5, LenProperties
    <3> QED BY <3>1, <3>2, <3>3 DEF Reaches
  <2> QED BY <2>1, <1>3 DEF Reaches, Tells
<1>9. ASSUME NEW i \in 1 .. Len(steps), NEW F \in Seq(Frames)
      PROVE  Reaches(F, Len(F) + 1, i, AckedOf(steps)[i], AckedOf(steps)[i])
  BY <1>a DEF Reaches
<1>c. \A i \in 1 .. Len(steps) : AckedOf(steps)[i] \in Nat
  BY <1>a
<1>10. /\ A \o B \in Seq(Frames) /\ Fitting(A \o B, steps)
       /\ Feeds(A \o B, AckedOf(steps), steps)
  <2>1. Feeds(A \o B, AckedOf(steps), steps)
    BY <1>2, <1>5, <1>7, <1>9, <1>c, FeedsConcat
  <2> QED BY <2>1, <1>2, <1>5, <1>7, FittingConcat, FrameConcat
<1>11. /\ (A \o B) \o C \in Seq(Frames) /\ Fitting((A \o B) \o C, steps)
       /\ Feeds((A \o B) \o C, AckedOf(steps), steps)
  <2>1. Feeds((A \o B) \o C, AckedOf(steps), steps)
    BY <1>2, <1>10, <1>9, <1>c, FeedsConcat
  <2> QED BY <2>1, <1>2, <1>10, FittingConcat, FrameConcat
<1>12. ASSUME NEW i \in 1 .. Len(steps)
       PROVE  Reaches((A \o B) \o C, Len((A \o B) \o C) + 1, i, steps[i].acked, steps[i].size)
  <2>a. steps[i].acked \in Nat /\ steps[i].size \in Nat
    BY <1>a
  <2>1. Reaches(A, Len(A) + 1, i, steps[i].acked, steps[i].acked)
    BY <2>a DEF Reaches
  <2>2. Len(B) + 1 \in 1 .. Len(B) + 1 /\ Len(A) + (Len(B) + 1) = Len(A \o B) + 1
    BY <1>2, <1>5, FrameConcat, LenProperties
  <2>3. Reaches(A \o B, Len(A) + (Len(B) + 1), i, steps[i].acked, steps[i].size)
    BY <1>2, <1>5, <1>8, <2>a, <2>1, <2>2, ReachesAfter
  <2>4. Reaches(A \o B, Len(A \o B) + 1, i, steps[i].acked, steps[i].size)
    BY <2>2, <2>3
  <2>5. /\ Len(A \o B) + 1 \in 1 .. Len(A \o B) + 1
        /\ Len((A \o B) \o C) + 1 \in Nat
        /\ Len(A \o B) + 1 <= Len((A \o B) \o C) + 1
    <3>1. Len((A \o B) \o C) = Len(A \o B) + Len(C)
      BY <1>10, <1>2, FrameConcat
    <3>2. Len(A \o B) \in Nat /\ Len(C) \in Nat
      BY <1>10, <1>2, LenProperties
    <3> QED BY <3>1, <3>2
  <2> QED BY <1>10, <1>2, <2>a, <2>4, <2>5, ReachesFirst
<1> QED BY <1>1, <1>11, <1>12

-----------------------------------------------------------------------------
(* The inductive invariant. *)

HeldOf(log) == [i \in Steps |-> Len(log[i])]
Complete(i, steps, held) ==
  i \in 1 .. Len(steps) /\ steps[i].ended /\ held[i] = steps[i].size

(* A log on the main host is a beginning of what its step wrote.           *)
LogFits(log, steps) ==
  \A i \in Steps :
    /\ log[i] = Units(0, Len(log[i]))
    /\ log[i] # <<>> => i \in 1 .. Len(steps) /\ Len(log[i]) <= steps[i].size

(* Whatever the claim is: a stream carries what its steps wrote, and a     *)
(* session counts no step that did not start.                              *)
LinkFits(l, steps) == Fitting(l.up, steps) /\ l.steps <= Len(steps)

(* While the claim stands: a session has counted only complete steps, what *)
(* goes up in it goes on where the held log ends, and what goes down is    *)
(* true.                                                                   *)
LinkHolds(l, steps, held) ==
  /\ \A i \in 1 .. l.steps : Complete(i, steps, held)
  /\ l.alive => Feeds(l.up, held, steps)
  /\ \A n \in 1 .. Len(l.down) :
       l.down[n].kind \in {"ack", "held"} =>
         /\ l.down[n].step \in 1 .. Len(steps)
         /\ l.down[n].at <= held[l.down[n].step]

(* What the runner has sent of each log is held, or under way in l.        *)
Sends(l, steps, held) ==
  \A i \in 1 .. Len(steps) : Reaches(l.up, Len(l.up) + 1, i, held[i], steps[i].sent)

AllComplete(n, steps, held) == \A i \in 1 .. n : Complete(i, steps, held)
AllAcked(steps, held) == \A i \in 1 .. Len(steps) : steps[i].acked <= held[i]

Fits ==
  /\ LogFits(host.log, sink.steps)
  /\ host.steps <= Len(sink.steps)
  /\ \A k \in 1 .. Len(link) : LinkFits(link[k], sink.steps)
  /\ host.stored \subseteq {Whole}
Holds ==
  claim =>
    /\ AllComplete(host.steps, sink.steps, HeldOf(host.log))
    /\ AllAcked(sink.steps, HeldOf(host.log))
    /\ \A k \in 1 .. Len(link) : LinkHolds(link[k], sink.steps, HeldOf(host.log))
    /\ sink.conn > 0 /\ link[sink.conn].alive =>
         Sends(link[sink.conn], sink.steps, HeldOf(host.log))

RemoteInv == Typed /\ UploadFits /\ Fits /\ Holds

(* The steps, as SinkTyped and HostTyped tell of them. *)
LEMMA SinkFields ==
  ASSUME SinkTyped
  PROVE  /\ sink.pc \in Places /\ sink.steps \in Seq(StepLog) /\ sink.conn \in Nat
         /\ sink.lost \in BOOLEAN /\ sink.attempts \in 0 .. MaxAttempts
         /\ Len(sink.steps) \in Nat /\ Len(sink.steps) <= Len(Sizes)
         /\ 1 .. Len(sink.steps) \subseteq Steps
         /\ DOMAIN sink.steps = 1 .. Len(sink.steps)
         /\ sink.output \in {"none", "declared", "noted"}
         /\ sink.result \in {"none", "ok", "lost", "error"}
<1>1. sink \in SinkSet /\ Len(sink.steps) <= Len(Sizes)
  BY DEF SinkTyped
<1>2. /\ sink.pc \in Places /\ sink.steps \in Seq(StepLog) /\ sink.conn \in Nat
      /\ sink.lost \in BOOLEAN /\ sink.attempts \in 0 .. MaxAttempts
      /\ sink.output \in {"none", "declared", "noted"}
      /\ sink.result \in {"none", "ok", "lost", "error"}
  BY <1>1 DEF SinkSet
<1>3. DOMAIN sink.steps = 1 .. Len(sink.steps) /\ Len(sink.steps) \in Nat
  BY <1>2, StepFields
<1> QED BY <1>1, <1>2, <1>3, ConstantFacts

LEMMA HostFields ==
  ASSUME HostTyped
  PROVE  /\ host.log \in [Steps -> Seq(Nat)] /\ host.steps \in 0 .. Len(Sizes)
         /\ host.status \in Statuses /\ host.meta \in BOOLEAN
         /\ host.part \in Seq(Nat) /\ host.stored \in SUBSET Seq(Nat)
         /\ \A i \in Steps : /\ host.log[i] \in Seq(Nat) /\ Len(host.log[i]) \in Nat
                             /\ HeldOf(host.log)[i] = Len(host.log[i])
                             /\ HeldOf(host.log)[i] \in Nat
<1>1. /\ host.log \in [Steps -> Seq(Nat)] /\ host.steps \in 0 .. Len(Sizes)
      /\ host.status \in Statuses /\ host.meta \in BOOLEAN
      /\ host.part \in Seq(Nat) /\ host.stored \in SUBSET Seq(Nat)
  BY DEF HostTyped, HostSet
<1>2. \A i \in Steps : host.log[i] \in Seq(Nat)
  BY <1>1
<1>3. \A i \in Steps : Len(host.log[i]) \in Nat
  BY <1>2, LenProperties
<1> QED BY <1>1, <1>2, <1>3 DEF HeldOf

LEMMA LinksTyped ==
  ASSUME LinkTyped
  PROVE  /\ link \in Seq(Link) /\ Len(link) \in Nat /\ DOMAIN link = 1 .. Len(link)
         /\ sink.conn \in 0 .. Len(link)
         /\ \A k \in 1 .. Len(link) :
              /\ link[k] \in Link
              /\ link[k].up \in Seq(Frames) /\ link[k].down \in Seq(Replies)
              /\ link[k].open \in BOOLEAN /\ link[k].alive \in BOOLEAN
              /\ link[k].steps \in Nat /\ link[k].status \in Statuses
<1>1. link \in Seq(Link) /\ sink.conn \in 0 .. Len(link)
  BY DEF LinkTyped
<1>2. Len(link) \in Nat /\ DOMAIN link = 1 .. Len(link)
  BY <1>1, LenProperties
<1>3. \A k \in 1 .. Len(link) : link[k] \in Link
  BY <1>1
<1> QED BY <1>1, <1>2, <1>3, LinkFields

(* An update of one field keeps the type of the record.                    *)
LEMMA SinkKept ==
  ASSUME NEW s \in SinkSet
  PROVE  /\ \A x \in Places : [s EXCEPT !.pc = x] \in SinkSet
         /\ \A x \in Seq(StepLog) : [s EXCEPT !.steps = x] \in SinkSet
         /\ \A x \in Seq(StepLog), c \in Nat : [s EXCEPT !.steps = x, !.conn = c] \in SinkSet
         /\ \A c \in Nat : [s EXCEPT !.conn = c] \in SinkSet
         /\ \A x \in Places, c \in Nat : [s EXCEPT !.pc = x, !.conn = c] \in SinkSet
         /\ [s EXCEPT !.lost = TRUE] \in SinkSet
         /\ \A x \in Places, r \in {"none", "ok", "lost", "error"} :
              [s EXCEPT !.pc = x, !.result = r] \in SinkSet
         /\ \A x \in Places, r \in {"none", "ok", "lost", "error"}, c \in Nat :
              [s EXCEPT !.pc = x, !.result = r, !.conn = c] \in SinkSet
         /\ \A x \in Places, o \in {"none", "declared", "noted"} :
              /\ [s EXCEPT !.pc = x, !.output = o] \in SinkSet
              /\ [s EXCEPT !.pc = x, !.output = o, !.lost = TRUE] \in SinkSet
         /\ \A a \in 0 .. MaxAttempts : [s EXCEPT !.attempts = a] \in SinkSet
  BY Zenon DEF SinkSet

LEMMA HostKept ==
  ASSUME NEW h \in HostSet
  PROVE  /\ \A n \in 0 .. Len(Sizes), x \in Statuses :
              [h EXCEPT !.steps = n, !.status = x] \in HostSet
         /\ \A l \in [Steps -> Seq(Nat)] : [h EXCEPT !.log = l] \in HostSet
         /\ \A p \in Seq(Nat), m \in BOOLEAN : [h EXCEPT !.meta = m, !.part = p] \in HostSet
         /\ \A p \in Seq(Nat) : [h EXCEPT !.part = p] \in HostSet
         /\ \A S \in SUBSET Seq(Nat), n \in 0 .. Len(Sizes) :
              [h EXCEPT !.stored = S, !.part = <<>>, !.meta = FALSE, !.status = "Done",
                        !.steps = n] \in HostSet
<1>1. "Done" \in Statuses /\ <<>> \in Seq(Nat)
  BY DEF Statuses
<1> QED BY <1>1 DEF HostSet

LEMMA ResetIsHost == Reset \in HostSet
<1>1. /\ <<>> \in Seq(Nat) /\ "Pending" \in Statuses /\ 0 \in 0 .. Len(Sizes)
      /\ [i \in Steps |-> <<>>] \in [Steps -> Seq(Nat)]
  BY ConstantFacts DEF Statuses
<1> QED BY <1>1 DEF Reset, HostSet

-----------------------------------------------------------------------------
(* What steps of the runner and of the host keep. *)

(* A held log is no longer than what its step wrote. *)
LEMMA LogBound ==
  ASSUME NEW log \in [Steps -> Seq(Nat)], NEW steps \in Seq(StepLog),
         1 .. Len(steps) \subseteq Steps, LogFits(log, steps)
  PROVE  \A i \in 1 .. Len(steps) : HeldOf(log)[i] \in Nat /\ HeldOf(log)[i] <= steps[i].size
<1> SUFFICES ASSUME NEW i \in 1 .. Len(steps)
             PROVE  HeldOf(log)[i] \in Nat /\ HeldOf(log)[i] <= steps[i].size
  OBVIOUS
<1>1. i \in Steps /\ log[i] \in Seq(Nat) /\ steps[i].size \in Nat
  BY StepFields
<1>2. HeldOf(log)[i] = Len(log[i]) /\ Len(log[i]) \in Nat
  BY <1>1, LenProperties DEF HeldOf
<1>3. log[i] = <<>> => Len(log[i]) = 0
  OBVIOUS
<1> QED BY <1>1, <1>2, <1>3 DEF LogFits

LEMMA CompleteLater ==
  ASSUME NEW steps \in Seq(StepLog), NEW later \in Seq(StepLog), Later(steps, later),
         NEW held, NEW held2,
         \A i \in 1 .. Len(later) : held2[i] \in Nat /\ held2[i] <= later[i].size,
         \A i \in 1 .. Len(steps) : held[i] \in Nat /\ held[i] <= held2[i],
         NEW i, Complete(i, steps, held)
  PROVE  Complete(i, later, held2)
<1>1. i \in 1 .. Len(steps) /\ steps[i].ended /\ held[i] = steps[i].size
  BY DEF Complete
<1>2. i \in 1 .. Len(later)
  BY <1>1, LenProperties DEF Later
<1>3. later[i].ended /\ later[i].size = steps[i].size /\ steps[i].size \in Nat
  BY <1>1, StepFields DEF Later
<1> QED BY <1>1, <1>2, <1>3 DEF Complete

LEMMA LinkLater ==
  ASSUME NEW steps \in Seq(StepLog), NEW later \in Seq(StepLog), Later(steps, later),
         NEW held, NEW held2,
         \A i \in 1 .. Len(later) : held2[i] \in Nat /\ held2[i] <= later[i].size,
         \A i \in 1 .. Len(steps) : held[i] \in Nat /\ held[i] <= held2[i],
         NEW l \in Link, LinkFits(l, steps)
  PROVE  /\ LinkFits(l, later)
         /\ LinkHolds(l, steps, held) => LinkHolds(l, later, held2)
<1>a. Len(steps) \in Nat /\ Len(later) \in Nat /\ Len(steps) <= Len(later)
      /\ 1 .. Len(steps) \subseteq 1 .. Len(later)
  BY LenProperties DEF Later
<1>b. l.up \in Seq(Frames) /\ l.steps \in Nat /\ l.down \in Seq(Replies)
  BY LinkFields
<1>c. Fitting(l.up, steps) /\ l.steps <= Len(steps)
  BY DEF LinkFits
<1>d. \A i \in 1 .. Len(steps) : held[i] \in Nat /\ held2[i] \in Nat /\ held[i] <= held2[i]
  BY <1>a
<1>1. Fitting(l.up, later) /\ (Feeds(l.up, held, steps) => Feeds(l.up, held2, later))
  BY <1>b, <1>c, <1>d, FeedsLater
<1>2. LinkFits(l, later)
  BY <1>1, <1>a, <1>b, <1>c DEF LinkFits
<1>3. ASSUME LinkHolds(l, steps, held)
      PROVE  LinkHolds(l, later, held2)
  <2>1. \A i \in 1 .. l.steps : Complete(i, later, held2)
    BY <1>3, CompleteLater DEF LinkHolds
  <2>2. l.alive => Feeds(l.up, held2, later)
    BY <1>1, <1>3 DEF LinkHolds
  <2>3. ASSUME NEW n \in 1 .. Len(l.down), l.down[n].kind \in {"ack", "held"}
        PROVE  l.down[n].step \in 1 .. Len(later) /\ l.down[n].at <= held2[l.down[n].step]
    <3>1. PICK i : i = l.down[n].step
      OBVIOUS
    <3>2. i \in 1 .. Len(steps) /\ l.down[n].at <= held[i]
      BY <2>3, <3>1, <1>3 DEF LinkHolds
    <3>3. l.down[n].at \in Nat
      <4>1. l.down[n] \in Replies
        BY <1>b
      <4> QED BY <4>1 DEF Replies
    <3>4. l.down[n].at <= held2[i]
      BY <3>2, <3>3, <1>d
    <3> QED BY <3>1, <3>2, <3>4, <1>a
  <2> QED BY <2>1, <2>2, <2>3 DEF LinkHolds
<1> QED BY <1>2, <1>3

(* What neither the streams nor the logs take part in. *)
Aside == sink'.steps = sink.steps /\ sink'.conn = sink.conn /\ link' = link

LEMMA AsideKeeps ==
  ASSUME RemoteInv, Aside, host'.log = host.log, host'.steps = host.steps,
         host'.stored = host.stored, claim' => claim
  PROVE  Fits' /\ Holds'
<1>1. HeldOf(host.log)' = HeldOf(host.log)
  BY DEF HeldOf
<1>2. Fits'
  BY DEF RemoteInv, Fits, Aside
<1>3. Holds'
  BY <1>1 DEF RemoteInv, Holds, Aside
<1> QED BY <1>2, <1>3

(* The claim ends, with the run's files reset or its record written.       *)
LEMMA ClaimEnds ==
  ASSUME RemoteInv, sink'.steps = sink.steps,
         \A k \in 1 .. Len(link') : LinkFits(link[k], sink.steps)',
         LogFits(host.log, sink.steps)', host'.steps <= Len(sink.steps),
         host'.stored \subseteq {Whole}, ~claim'
  PROVE  Fits' /\ Holds'
  BY DEF Fits, Holds, Whole, Units

(* A stream closed by the runner holds what it did. *)
LEMMA ShutKeeps ==
  ASSUME NEW l \in Link, NEW steps \in Seq(StepLog), NEW held
  PROVE  /\ LinkFits(l, steps) => LinkFits(Shut(l), steps)
         /\ LinkHolds(l, steps, held) => LinkHolds(Shut(l), steps, held)
<1>1. /\ Shut(l) \in Link
      /\ Shut(l).up = l.up \/ Shut(l).up = <<>>
      /\ Shut(l).alive => l.alive /\ Shut(l).up = l.up
      /\ Shut(l).down = <<>>
      /\ Shut(l).steps = l.steps \/ Shut(l).steps = 0
  BY ShutFacts
<1>2. Len(steps) \in Nat
  BY LenProperties
<1>3. Fitting(<<>>, steps)
  BY DEF Fitting
<1>4. LinkFits(l, steps) => LinkFits(Shut(l), steps)
  BY <1>1, <1>2, <1>3 DEF LinkFits
<1>5. LinkHolds(l, steps, held) => LinkHolds(Shut(l), steps, held)
  BY <1>1 DEF LinkHolds
<1> QED BY <1>4, <1>5

LEMMA ClosingKeeps ==
  ASSUME RemoteInv, sink'.steps = sink.steps, sink'.conn = 0, link' = Closed,
         host' = host, claim' = claim
  PROVE  Fits' /\ Holds'
<1>a. LinkTyped /\ SinkTyped
  BY DEF RemoteInv, Typed
<1>1. /\ Closed \in Seq(Link) /\ Len(Closed) = Len(link)
      /\ \A k \in 1 .. Len(link) : Closed[k] = link[k] \/ Closed[k] = Shut(link[k])
  BY <1>a, ClosedFacts
<1>2. sink.steps \in Seq(StepLog) /\ \A k \in 1 .. Len(link) : link[k] \in Link
  BY <1>a, SinkFields, LinksTyped
<1>3. \A k \in 1 .. Len(link) :
        /\ LinkFits(link[k], sink.steps) => LinkFits(Closed[k], sink.steps)
        /\ LinkHolds(link[k], sink.steps, HeldOf(host.log))
             => LinkHolds(Closed[k], sink.steps, HeldOf(host.log))
  BY <1>1, <1>2, ShutKeeps
<1>4. HeldOf(host.log)' = HeldOf(host.log)
  BY DEF HeldOf
<1>5. Fits'
  BY <1>1, <1>3 DEF RemoteInv, Fits
<1>6. Holds'
  <2>1. ~(sink'.conn > 0)
    OBVIOUS
  <2> QED BY <1>1, <1>3, <1>4, <2>1 DEF RemoteInv, Holds
<1> QED BY <1>5, <1>6

(* Nothing written changes nothing. *)
LEMMA PutNothing ==
  ASSUME LinkTyped
  PROVE  Put_(<<>>) = link
<1>1. CASE Connected
  <2>1. sink.conn \in 1 .. Len(link) /\ link[sink.conn] \in Link
        /\ link[sink.conn].up \in Seq(Frames) /\ link \in Seq(Link)
    BY <1>1, LinksTyped DEF Connected
  <2>2. link[sink.conn].up \o <<>> = link[sink.conn].up
    BY <2>1, ConcatEmptySeq
  <2>3. [link[sink.conn] EXCEPT !.up = @ \o <<>>] = link[sink.conn]
    BY <2>1, <2>2 DEF Link
  <2>4. Put_(<<>>) = [link EXCEPT ![sink.conn] = link[sink.conn]]
    BY <1>1, <2>3 DEF Put_
  <2>5. link = [k \in DOMAIN link |-> link[k]]
    BY <2>1
  <2> QED BY <2>4, <2>5
<1>2. CASE ~Connected
  BY <1>2 DEF Put_
<1> QED BY <1>1, <1>2

(* The units of each log that were sent before; of a new step, none.       *)
Before(steps, later) ==
  [i \in 1 .. Len(later) |-> IF i \in 1 .. Len(steps) THEN steps[i].sent ELSE 0]

(* The runner goes on with its steps and writes the frames F: they follow  *)
(* what was sent before.                                                   *)
LEMMA WritingKeeps ==
  ASSUME RemoteInv, NEW later \in Seq(StepLog), NEW F \in Seq(Frames),
         sink'.steps = later, sink'.conn = sink.conn, link' = Put_(F),
         host' = host, claim' = claim,
         Len(later) <= Len(Sizes), Later(sink.steps, later),
         \A i \in 1 .. Len(sink.steps) : later[i].acked = sink.steps[i].acked,
         \A i \in 1 .. Len(later) :
           i \notin 1 .. Len(sink.steps) => later[i].acked = 0,
         Connected =>
           /\ Fitting(F, later)
           /\ Feeds(F, Before(sink.steps, later), later)
           /\ \A i \in 1 .. Len(later) :
                Reaches(F, Len(F) + 1, i, Before(sink.steps, later)[i], later[i].sent)
  PROVE  Fits' /\ Holds'
<1> DEFINE held == HeldOf(host.log)
           mid == Before(sink.steps, later)
<1>a. LinkTyped /\ SinkTyped /\ HostTyped /\ Fits /\ Holds
  BY DEF RemoteInv, Typed
<1>b. /\ sink.steps \in Seq(StepLog) /\ Len(sink.steps) \in Nat /\ Len(later) \in Nat
      /\ 1 .. Len(sink.steps) \subseteq 1 .. Len(later) /\ 1 .. Len(later) \subseteq Steps
      /\ Len(sink.steps) <= Len(later)
  BY <1>a, SinkFields, LenProperties, ConstantFacts DEF Later
<1>c. \A i \in 1 .. Len(later) : held[i] \in Nat /\ mid[i] \in Nat
  BY <1>a, <1>b, HostFields, StepFields DEF Before
<1>d. /\ \A i \in 1 .. Len(sink.steps) :
           /\ sink.steps[i].size \in Nat /\ sink.steps[i].sent \in Nat
           /\ later[i].size \in Nat /\ sink.steps[i].size <= later[i].size
           /\ mid[i] = sink.steps[i].sent
      /\ \A i \in 1 .. Len(later) : later[i].size \in Nat /\ later[i].sent \in Nat
  BY <1>b, StepFields DEF Later, Before
<1>e. \A k \in 1 .. Len(link) : link[k] \in Link
  BY <1>a, LinksTyped
<1>1. LogFits(host.log, later)
  <2>1. ASSUME NEW i \in Steps, host.log[i] # <<>>
        PROVE  i \in 1 .. Len(later) /\ Len(host.log[i]) <= later[i].size
    <3>1. i \in 1 .. Len(sink.steps) /\ Len(host.log[i]) <= sink.steps[i].size
      BY <2>1, <1>a DEF Fits, LogFits
    <3>2. Len(host.log[i]) \in Nat
      BY <1>a, HostFields
    <3> QED BY <3>1, <3>2, <1>b, <1>d
  <2> QED BY <2>1, <1>a DEF Fits, LogFits
<1>2. \A i \in 1 .. Len(later) : held[i] \in Nat /\ held[i] <= later[i].size
  BY <1>1, <1>a, <1>b, LogBound, HostFields
<1>3. \A i \in 1 .. Len(sink.steps) : held[i] \in Nat /\ held[i] <= held[i]
  BY <1>b, <1>c
<1> HIDE DEF held, mid
<1>4. ASSUME NEW k \in 1 .. Len(link)
      PROVE  /\ LinkFits(link[k], later)
             /\ LinkHolds(link[k], sink.steps, held) => LinkHolds(link[k], later, held)
  <2>1. link[k] \in Link /\ LinkFits(link[k], sink.steps)
    BY <1>a, <1>e DEF Fits
  <2> QED BY <2>1, <1>b, <1>2, <1>3, LinkLater
<1>5. /\ Put_(F) \in Seq(Link) /\ Len(Put_(F)) = Len(link)
      /\ \A k \in 1 .. Len(link) : k # sink.conn => Put_(F)[k] = link[k]
      /\ sink.conn > 0 =>
           /\ sink.conn \in 1 .. Len(link)
           /\ Put_(F)[sink.conn].up = link[sink.conn].up \o F
           /\ Put_(F)[sink.conn].alive = link[sink.conn].alive
           /\ Put_(F)[sink.conn].steps = link[sink.conn].steps
           /\ Put_(F)[sink.conn].down = link[sink.conn].down
  BY <1>a, PutFacts
<1>6. sink.conn \in Nat
  BY <1>a, SinkFields
<1>7. ASSUME sink.conn > 0
      PROVE  LinkFits(Put_(F)[sink.conn], later)
  <2>1. LinkFits(link[sink.conn], later) /\ link[sink.conn].up \in Seq(Frames)
    BY <1>4, <1>5, <1>7, <1>e, LinkFields
  <2>2. Fitting(F, later)
    BY <1>7 DEF Connected
  <2>3. Fitting(link[sink.conn].up \o F, later)
    BY <2>1, <2>2, FittingConcat DEF LinkFits
  <2> QED BY <2>1, <2>3, <1>5, <1>7 DEF LinkFits
<1>8. Fits'
  <2>1. ASSUME NEW k \in 1 .. Len(link')
        PROVE  LinkFits(link'[k], later)
    <3>1. k \in 1 .. Len(link) /\ link'[k] = Put_(F)[k]
      BY <1>5
    <3>2. CASE k = sink.conn
      BY <3>1, <3>2, <1>7
    <3>3. CASE k # sink.conn
      BY <3>1, <3>3, <1>4, <1>5
    <3> QED BY <3>2, <3>3
  <2>2. host.steps <= Len(later)
    <3>1. host.steps <= Len(sink.steps) /\ host.steps \in Nat
      BY <1>a, HostFields, ConstantFacts DEF Fits
    <3> QED BY <3>1, <1>b
  <2> QED BY <1>1, <2>1, <2>2, <1>a DEF Fits, Whole, Units
<1>9. ASSUME claim
      PROVE  /\ AllComplete(host.steps, later, held)
             /\ AllAcked(later, held)
             /\ \A k \in 1 .. Len(link) : LinkHolds(Put_(F)[k], later, held)
             /\ sink.conn > 0 /\ Put_(F)[sink.conn].alive => Sends(Put_(F)[sink.conn], later, held)
  <2>1. /\ AllComplete(host.steps, sink.steps, held)
        /\ AllAcked(sink.steps, held)
        /\ \A k \in 1 .. Len(link) : LinkHolds(link[k], sink.steps, held)
        /\ sink.conn > 0 /\ link[sink.conn].alive => Sends(link[sink.conn], sink.steps, held)
    BY <1>9, <1>a DEF Holds, held
  <2>2. AllComplete(host.steps, later, held)
    BY <2>1, <1>b, <1>2, <1>3, CompleteLater DEF AllComplete
  <2>3. AllAcked(later, held)
    BY <2>1, <1>c DEF AllAcked, held
  <2>4. ASSUME sink.conn > 0, link[sink.conn].alive
        PROVE  /\ Feeds(link[sink.conn].up \o F, held, later)
               /\ Sends(Put_(F)[sink.conn], later, held)
    <3> DEFINE u == link[sink.conn].up
    <3>1. /\ u \in Seq(Frames) /\ Fitting(u, later) /\ sink.conn \in 1 .. Len(link)
          /\ LinkHolds(link[sink.conn], later, held)
      BY <2>1, <2>4, <1>4, <1>5, <1>e, LinkFields DEF LinkFits
    <3>2. Feeds(u, held, later)
      BY <3>1, <2>4 DEF LinkHolds
    <3>3. /\ Fitting(F, later) /\ Feeds(F, mid, later)
          /\ \A i \in 1 .. Len(later) : Reaches(F, Len(F) + 1, i, mid[i], later[i].sent)
      BY <2>4 DEF Connected, mid
    <3>4. ASSUME NEW i \in 1 .. Len(later)
          PROVE  Reaches(u, Len(u) + 1, i, held[i], mid[i])
      <4>1. CASE i \in 1 .. Len(sink.steps)
        BY <4>1, <2>1, <2>4, <1>d DEF Sends
      <4>2. CASE i \notin 1 .. Len(sink.steps)
        <5>1. mid[i] = 0 /\ held[i] \in Nat
          BY <4>2, <1>c DEF mid, Before
        <5> QED BY <5>1 DEF Reaches
      <4> QED BY <4>1, <4>2
    <3> HIDE DEF u
    <3>5. Feeds(u \o F, held, later)
      BY <3>1, <3>2, <3>3, <3>4, <1>c, FeedsConcat
    <3>6. Len(F) + 1 \in 1 .. Len(F) + 1 /\ Len(u) + (Len(F) + 1) = Len(u \o F) + 1
      BY <3>1, FrameConcat, LenProperties
    <3>7. ASSUME NEW i \in 1 .. Len(later)
          PROVE  Reaches(u \o F, Len(u \o F) + 1, i, held[i], later[i].sent)
      <4>1. held[i] \in Nat /\ mid[i] \in Nat /\ later[i].sent \in Nat
        BY <1>c, <1>d
      <4>2. Reaches(u \o F, Len(u) + (Len(F) + 1), i, held[i], later[i].sent)
        BY <4>1, <3>1, <3>3, <3>4, <3>6, ReachesAfter
      <4> QED BY <4>2, <3>6
    <3> QED BY <3>5, <3>7, <1>5, <2>4 DEF Sends, u
  <2>5. ASSUME NEW k \in 1 .. Len(link)
        PROVE  LinkHolds(Put_(F)[k], later, held)
    <3>1. LinkHolds(link[k], later, held)
      BY <2>1, <1>4
    <3>2. CASE k # sink.conn
      BY <3>1, <3>2, <1>5
    <3>3. CASE k = sink.conn
      <4>1. sink.conn > 0
        BY <3>3
      <4>2. Put_(F)[k].alive => Feeds(Put_(F)[k].up, held, later)
        BY <3>3, <4>1, <2>4, <1>5
      <4> QED BY <3>1, <3>3, <4>1, <4>2, <1>5 DEF LinkHolds
    <3> QED BY <3>2, <3>3
  <2> QED BY <2>2, <2>3, <2>4, <2>5, <1>5
<1>10. Holds'
  <2>1. HeldOf(host.log)' = held
    BY DEF HeldOf, held
  <2>2. Len(link') = Len(link)
    BY <1>5
  <2> QED BY <1>9, <2>1, <2>2 DEF Holds
<1> QED BY <1>8, <1>10

LEMMA WritingTyped ==
  ASSUME RemoteInv, NEW later \in Seq(StepLog), Len(later) <= Len(Sizes),
         sink' = [sink EXCEPT !.steps = later],
         NEW F \in Seq(Frames), link' = Put_(F)
  PROVE  SinkTyped' /\ LinkTyped'
<1>1. LinkTyped /\ sink \in SinkSet
  BY DEF RemoteInv, Typed, SinkTyped
<1>2. sink' \in SinkSet /\ sink'.steps = later /\ sink'.conn = sink.conn
  <2>1. sink' \in SinkSet
    BY <1>1, SinkKept, Zenon
  <2> QED BY <2>1, <1>1 DEF SinkSet
<1>3. SinkTyped'
  BY <1>2 DEF SinkTyped, SinkSet, Places
<1>4. /\ Put_(F) \in Seq(Link) /\ Len(Put_(F)) = Len(link)
      /\ sink.conn > 0 => Put_(F)[sink.conn].open
  BY <1>1, PutFacts
<1>5. LinkTyped'
  BY <1>1, <1>2, <1>4 DEF LinkTyped
<1> QED BY <1>3, <1>5

-----------------------------------------------------------------------------
(* The runner's steps, one by one. *)

LEMMA FlushedFacts ==
  ASSUME NEW steps \in Seq(StepLog), NEW force \in BOOLEAN
  PROVE  /\ Flushed(steps, force) \in Seq(StepLog)
         /\ Len(Flushed(steps, force)) = Len(steps)
         /\ \A i \in 1 .. Len(steps) :
              /\ Flushed(steps, force)[i].size = steps[i].size
              /\ Flushed(steps, force)[i].acked = steps[i].acked
              /\ Flushed(steps, force)[i].ended = steps[i].ended
              /\ force => steps[i].size <= Flushed(steps, force)[i].sent
<1> DEFINE F == Flushed(steps, force)
<1>a. /\ Len(steps) \in Nat /\ DOMAIN steps = 1 .. Len(steps)
      /\ \A i \in 1 .. Len(steps) :
           steps[i] \in StepLog /\ steps[i].size \in Nat /\ steps[i].sent \in Nat
      /\ Frame \in Nat
  BY StepFields, ConstantFacts
<1>1. F = [i \in 1 .. Len(steps) |-> F[i]]
  BY <1>a DEF Flushed
<1>2. ASSUME NEW i \in 1 .. Len(steps)
      PROVE  /\ F[i] \in StepLog /\ F[i].size = steps[i].size /\ F[i].acked = steps[i].acked
             /\ F[i].ended = steps[i].ended
             /\ force => steps[i].size <= F[i].sent
  <2>1. F[i] = [steps[i] EXCEPT !.sent =
          IF force THEN Larger(@, steps[i].size)
          ELSE Larger(@, Smaller(@ + Frame, steps[i].size))]
    BY <1>a DEF Flushed
  <2>2. PICK v : v = IF force THEN Larger(steps[i].sent, steps[i].size)
                     ELSE Larger(steps[i].sent, Smaller(steps[i].sent + Frame, steps[i].size))
    OBVIOUS
  <2>3. v \in Nat /\ (force => steps[i].size <= v)
    BY <2>2, <1>a DEF Larger, Smaller
  <2>4. F[i] = [steps[i] EXCEPT !.sent = v]
    BY <2>1, <2>2
  <2> HIDE DEF F
  <2> QED BY <2>3, <2>4, <1>a DEF StepLog
<1> HIDE DEF F
<1>3. F \in Seq(StepLog) /\ Len(F) = Len(steps)
  BY <1>1, <1>2, <1>a
<1> QED BY <1>2, <1>3 DEF F

(* flush() and what it leaves of the steps, after what was sent before.    *)
LEMMA FlushFeeds ==
  ASSUME NEW steps \in Seq(StepLog), NEW force \in BOOLEAN,
         NEW base, \A i \in 1 .. Len(steps) : base[i] = steps[i].sent
  PROVE  LET F == Pending(steps, force)
             later == Flushed(steps, force)
         IN /\ F \in Seq(Frames)
            /\ Fitting(F, later)
            /\ Feeds(F, base, later)
            /\ \A i \in 1 .. Len(steps) :
                 Reaches(F, Len(F) + 1, i, base[i], later[i].sent)
<1>0. PICK F : F = Pending(steps, force)
  OBVIOUS
<1>00. PICK later : later = Flushed(steps, force)
  OBVIOUS
<1>1. /\ F \in Seq(Frames)
      /\ \A n \in 1 .. Len(F) : FrameFits(F[n], steps)
      /\ Feeds(F, SentOf(steps), steps)
      /\ \A i \in 1 .. Len(steps) : Reaches(F, Len(F) + 1, i, steps[i].sent, later[i].sent)
  BY <1>0, <1>00, PendingFacts
<1>2. /\ later \in Seq(StepLog) /\ Len(later) = Len(steps) /\ Len(steps) \in Nat
      /\ \A i \in 1 .. Len(steps) :
           later[i].size = steps[i].size /\ later[i].ended = steps[i].ended
      /\ \A i \in 1 .. Len(steps) : steps[i].size \in Nat /\ steps[i].sent \in Nat
  BY <1>00, FlushedFacts, StepFields
<1>3. Later(steps, later)
  BY <1>2 DEF Later
<1>4. Fitting(F, steps)
  BY <1>1 DEF Fitting
<1>5. \A i \in 1 .. Len(steps) :
        SentOf(steps)[i] \in Nat /\ base[i] \in Nat /\ SentOf(steps)[i] <= base[i]
  BY <1>2 DEF SentOf
<1>6. Fitting(F, later) /\ Feeds(F, base, later)
  BY <1>1, <1>2, <1>3, <1>4, <1>5, FeedsLater
<1> QED BY <1>0, <1>00, <1>1, <1>6

LEMMA FlushKeeps ==
  ASSUME RemoteInv, flush
  PROVE  Fits' /\ Holds' /\ SinkTyped' /\ LinkTyped'
<1>0. PICK force \in BOOLEAN :
        /\ link' = Put_(Pending(sink.steps, force))
        /\ sink' = [sink EXCEPT !.steps = Flushed(@, force)]
        /\ host' = host /\ claim' = claim /\ Connected
  BY DEF flush
<1>1. PICK F : F = Pending(sink.steps, force)
  OBVIOUS
<1>2. PICK later : later = Flushed(sink.steps, force)
  OBVIOUS
<1>a. /\ sink.steps \in Seq(StepLog) /\ Len(sink.steps) <= Len(Sizes) /\ sink \in SinkSet
      /\ Len(sink.steps) \in Nat
  BY SinkFields DEF RemoteInv, Typed, SinkTyped
<1>3. sink'.steps = later /\ sink'.conn = sink.conn
  BY <1>0, <1>2, <1>a DEF SinkSet
<1>4. /\ later \in Seq(StepLog) /\ Len(later) = Len(sink.steps)
      /\ \A i \in 1 .. Len(sink.steps) :
           /\ later[i].size = sink.steps[i].size /\ later[i].acked = sink.steps[i].acked
           /\ later[i].ended = sink.steps[i].ended
           /\ sink.steps[i].size \in Nat
  BY <1>2, <1>a, FlushedFacts, StepFields
<1>5. Later(sink.steps, later)
  BY <1>4, <1>a DEF Later
<1>6. \A i \in 1 .. Len(sink.steps) : Before(sink.steps, later)[i] = sink.steps[i].sent
  BY <1>4 DEF Before
<1>7. /\ F \in Seq(Frames) /\ Fitting(F, later)
      /\ Feeds(F, Before(sink.steps, later), later)
      /\ \A i \in 1 .. Len(sink.steps) :
           Reaches(F, Len(F) + 1, i, Before(sink.steps, later)[i], later[i].sent)
  BY <1>1, <1>2, <1>6, <1>a, FlushFeeds
<1>8. link' = Put_(F) /\ host' = host /\ claim' = claim
  BY <1>0, <1>1
<1>k. Fits' /\ Holds'
  BY <1>3, <1>4, <1>5, <1>7, <1>8, <1>a, WritingKeeps
<1>s. sink' = [sink EXCEPT !.steps = later]
  BY <1>0, <1>2
<1>t. SinkTyped' /\ LinkTyped'
  BY <1>s, <1>3, <1>4, <1>5, <1>7, <1>8, <1>a, WritingTyped
<1> QED BY <1>k, <1>t

(* A frame without a log or an end, after anything. *)
LEMMA PlainFrame ==
  ASSUME NEW kind \in {"step-start", "progress"}, NEW i \in Nat, NEW steps,
         kind = "step-start" => i \in 1 .. Len(steps), NEW base
  PROVE  /\ <<FrameOf(kind, i, 0, 0)>> \in Seq(Frames)
         /\ Fitting(<<FrameOf(kind, i, 0, 0)>>, steps)
         /\ Feeds(<<FrameOf(kind, i, 0, 0)>>, base, steps)
<1>1. PICK f : f = FrameOf(kind, i, 0, 0)
  OBVIOUS
<1>2. f \in Frames /\ f.kind = kind /\ f.step = i
  BY <1>1 DEF FrameOf, Frames, Kinds
<1>3. /\ <<f>> \in Seq(Frames) /\ Fitting(<<f>>, steps) /\ Feeds(<<f>>, base, steps)
  BY <1>2 DEF Fitting, Feeds, FrameFits
<1> QED BY <1>1, <1>3

LEMMA ProgressKeeps ==
  ASSUME RemoteInv, progress
  PROVE  Fits' /\ Holds' /\ SinkTyped' /\ LinkTyped'
<1>0. link' = Put_(<<FrameOf("progress", 0, 0, 0)>>) /\ sink' = sink /\ host' = host /\ claim' = claim
  BY DEF progress
<1>1. PICK F : F = <<FrameOf("progress", 0, 0, 0)>>
  OBVIOUS
<1>2. PICK later : later = sink.steps
  OBVIOUS
<1>a. /\ later \in Seq(StepLog) /\ Len(later) <= Len(Sizes) /\ Len(later) \in Nat
      /\ \A i \in 1 .. Len(later) : later[i].size \in Nat /\ later[i].sent \in Nat
  BY <1>2, SinkFields, StepFields DEF RemoteInv, Typed
<1>3. F \in Seq(Frames) /\ Fitting(F, later) /\ Feeds(F, Before(sink.steps, later), later)
  BY <1>1, PlainFrame
<1>4. \A i \in 1 .. Len(later) :
        Reaches(F, Len(F) + 1, i, Before(sink.steps, later)[i], later[i].sent)
  BY <1>2, <1>a DEF Reaches, Before
<1>5. Later(sink.steps, later)
  BY <1>2, <1>a DEF Later
<1>6. /\ sink'.steps = later /\ sink'.conn = sink.conn /\ link' = Put_(F)
      /\ host' = host /\ claim' = claim
      /\ \A i \in 1 .. Len(sink.steps) : later[i].acked = sink.steps[i].acked
      /\ \A i \in 1 .. Len(later) : i \notin 1 .. Len(sink.steps) => later[i].acked = 0
  BY <1>0, <1>1, <1>2
<1>k. Fits' /\ Holds'
  BY <1>3, <1>4, <1>5, <1>6, <1>a, WritingKeeps
<1>s. sink' = [sink EXCEPT !.steps = later]
  <2>1. sink \in SinkSet
    BY DEF RemoteInv, Typed, SinkTyped
  <2> QED BY <2>1, <1>0, <1>2 DEF SinkSet
<1>t. SinkTyped' /\ LinkTyped'
  BY <1>s, <1>3, <1>4, <1>5, <1>6, <1>a, WritingTyped
<1> QED BY <1>k, <1>t

LEMMA AppendLogKeeps ==
  ASSUME RemoteInv, appendLog
  PROVE  Fits' /\ Holds' /\ SinkTyped' /\ LinkTyped'
<1>a. /\ sink.steps \in Seq(StepLog) /\ Len(sink.steps) <= Len(Sizes) /\ sink \in SinkSet
      /\ Len(sink.steps) \in Nat /\ DOMAIN sink.steps = 1 .. Len(sink.steps)
      /\ \A i \in 1 .. Len(sink.steps) :
           /\ sink.steps[i] \in StepLog /\ sink.steps[i].size \in Nat
           /\ sink.steps[i].sent \in Nat
  BY SinkFields, StepFields DEF RemoteInv, Typed, SinkTyped
<1>0. /\ Here \in 1 .. Len(sink.steps) /\ ~sink.steps[Here].ended
      /\ sink' = [sink EXCEPT !.steps[Here].size = @ + 1]
      /\ link' = link /\ host' = host /\ claim' = claim
  BY <1>a DEF appendLog, InStep, Here
<1>1. PICK s : s = [sink.steps[Here] EXCEPT !.size = @ + 1]
  OBVIOUS
<1>2. PICK later : later = [sink.steps EXCEPT ![Here] = s]
  OBVIOUS
<1>3. /\ s \in StepLog /\ s.size = sink.steps[Here].size + 1 /\ s.sent = sink.steps[Here].sent
      /\ s.acked = sink.steps[Here].acked /\ s.ended = sink.steps[Here].ended
  <2>1. PICK x : x = sink.steps[Here]
    OBVIOUS
  <2>2. x \in StepLog /\ x.size + 1 \in Nat /\ s = [x EXCEPT !.size = x.size + 1]
    BY <2>1, <1>0, <1>1, <1>a
  <2> QED BY <2>1, <2>2 DEF StepLog
<1>4. /\ later \in Seq(StepLog) /\ Len(later) = Len(sink.steps) /\ later[Here] = s
      /\ \A j \in 1 .. Len(sink.steps) : j # Here => later[j] = sink.steps[j]
  BY <1>0, <1>2, <1>3, <1>a, ExceptSeq
<1>5. sink'.steps = later /\ sink'.conn = sink.conn
  BY <1>0, <1>1, <1>2, <1>a DEF SinkSet
<1>6. \A i \in 1 .. Len(sink.steps) :
        /\ later[i].sent = sink.steps[i].sent /\ later[i].acked = sink.steps[i].acked
        /\ sink.steps[i].size <= later[i].size
        /\ sink.steps[i].ended => later[i].ended /\ later[i].size = sink.steps[i].size
  BY <1>0, <1>3, <1>4, <1>a
<1>7. Later(sink.steps, later)
  BY <1>4, <1>6, <1>a DEF Later
<1>8. link' = Put_(<<>>)
  BY <1>0, PutNothing DEF RemoteInv, Typed
<1>9. PICK F : F = <<>>
  OBVIOUS
<1>10. F \in Seq(Frames) /\ Fitting(F, later) /\ Feeds(F, Before(sink.steps, later), later)
  BY <1>9 DEF Fitting, Feeds
<1>11. \A i \in 1 .. Len(later) :
         Reaches(F, Len(F) + 1, i, Before(sink.steps, later)[i], later[i].sent)
  BY <1>4, <1>6, <1>a DEF Reaches, Before
<1>12. \A i \in 1 .. Len(later) : i \notin 1 .. Len(sink.steps) => later[i].acked = 0
  BY <1>4
<1>13. link' = Put_(F) /\ host' = host /\ claim' = claim /\ Len(later) <= Len(Sizes)
  BY <1>0, <1>4, <1>8, <1>9, <1>a
<1>14. \A i \in 1 .. Len(sink.steps) : later[i].acked = sink.steps[i].acked
  BY <1>6
<1>k. Fits' /\ Holds'
  BY <1>4, <1>5, <1>14, <1>7, <1>10, <1>11, <1>12, <1>13, WritingKeeps
<1>s. sink' = [sink EXCEPT !.steps = later]
  BY <1>0, <1>1, <1>2
<1>t. SinkTyped' /\ LinkTyped'
  BY <1>s, <1>4, <1>5, <1>14, <1>7, <1>10, <1>11, <1>12, <1>13, WritingTyped
<1> QED BY <1>k, <1>t

LEMMA StepStartedKeeps ==
  ASSUME RemoteInv, stepStarted
  PROVE  Fits' /\ Holds' /\ SinkTyped' /\ LinkTyped'
<1>a. /\ sink.steps \in Seq(StepLog) /\ Len(sink.steps) <= Len(Sizes) /\ sink \in SinkSet
      /\ Len(sink.steps) \in Nat /\ Len(Sizes) \in Nat
      /\ \A i \in 1 .. Len(sink.steps) :
           /\ sink.steps[i] \in StepLog /\ sink.steps[i].size \in Nat
           /\ sink.steps[i].sent \in Nat
  BY SinkFields, StepFields, ConstantFacts DEF RemoteInv, Typed, SinkTyped
<1>0. /\ Len(sink.steps) < Len(Sizes)
      /\ sink' = [sink EXCEPT !.steps = Append(@, NewStep)]
      /\ link' = Put_(<<FrameOf("step-start", Len(sink.steps) + 1, 0, 0)>>)
      /\ host' = host /\ claim' = claim
  BY DEF stepStarted, Here
<1>1. PICK new : new = NewStep
  OBVIOUS
<1>2. new \in StepLog /\ new.size = 0 /\ new.sent = 0 /\ new.acked = 0
  BY <1>1 DEF NewStep, StepLog
<1>3. PICK later : later = Append(sink.steps, new)
  OBVIOUS
<1>4. /\ later \in Seq(StepLog) /\ Len(later) = Len(sink.steps) + 1
      /\ later[Len(sink.steps) + 1] = new
      /\ \A j \in 1 .. Len(sink.steps) : later[j] = sink.steps[j]
  BY <1>2, <1>3, <1>a, AppendProperties
<1>5. sink'.steps = later /\ sink'.conn = sink.conn
  BY <1>0, <1>1, <1>3, <1>a DEF SinkSet
<1>6. Later(sink.steps, later) /\ Len(later) <= Len(Sizes)
  BY <1>4, <1>a, <1>0 DEF Later
<1>7. ASSUME NEW i \in 1 .. Len(later)
      PROVE  \/ i \in 1 .. Len(sink.steps) /\ later[i] = sink.steps[i]
             \/ i \notin 1 .. Len(sink.steps) /\ later[i] = new
  <2>1. i \in 1 .. Len(sink.steps) \/ i = Len(sink.steps) + 1
    BY <1>4, <1>a
  <2> QED BY <2>1, <1>4, <1>a
<1>8. PICK F : F = <<FrameOf("step-start", Len(sink.steps) + 1, 0, 0)>>
  OBVIOUS
<1>9. F \in Seq(Frames) /\ Fitting(F, later) /\ Feeds(F, Before(sink.steps, later), later)
  <2>1. Len(sink.steps) + 1 \in Nat /\ Len(sink.steps) + 1 \in 1 .. Len(later)
    BY <1>4, <1>a
  <2> QED BY <2>1, <1>8, PlainFrame
<1>10. ASSUME NEW i \in 1 .. Len(later)
       PROVE  Reaches(F, Len(F) + 1, i, Before(sink.steps, later)[i], later[i].sent)
  <2>1. Before(sink.steps, later)[i] = later[i].sent /\ later[i].sent \in Nat
    BY <1>7, <1>2, <1>a DEF Before
  <2> QED BY <2>1 DEF Reaches
<1>11. \A i \in 1 .. Len(later) : i \notin 1 .. Len(sink.steps) => later[i].acked = 0
  BY <1>7, <1>2
<1>12. \A i \in 1 .. Len(sink.steps) : later[i].acked = sink.steps[i].acked
  BY <1>4
<1>13. link' = Put_(F) /\ host' = host /\ claim' = claim
  BY <1>0, <1>8
<1>k. Fits' /\ Holds'
  BY <1>4, <1>5, <1>6, <1>9, <1>10, <1>11, <1>12, <1>13, WritingKeeps
<1>s. sink' = [sink EXCEPT !.steps = later]
  BY <1>0, <1>1, <1>3
<1>t. SinkTyped' /\ LinkTyped'
  BY <1>s, <1>4, <1>5, <1>6, <1>9, <1>10, <1>11, <1>12, <1>13, WritingTyped
<1> QED BY <1>k, <1>t

LEMMA StepFinishedKeeps ==
  ASSUME RemoteInv, stepFinished
  PROVE  Fits' /\ Holds' /\ SinkTyped' /\ LinkTyped'
<1>a. /\ sink.steps \in Seq(StepLog) /\ Len(sink.steps) <= Len(Sizes) /\ sink \in SinkSet
      /\ Len(sink.steps) \in Nat /\ DOMAIN sink.steps = 1 .. Len(sink.steps)
      /\ \A i \in 1 .. Len(sink.steps) :
           /\ sink.steps[i] \in StepLog /\ sink.steps[i].size \in Nat
           /\ sink.steps[i].sent \in Nat
  BY SinkFields, StepFields DEF RemoteInv, Typed, SinkTyped
<1>1. PICK i : i = Here
  OBVIOUS
<1>2. PICK s : s = [sink.steps[i] EXCEPT !.ended = TRUE]
  OBVIOUS
<1>3. PICK ended : ended = [sink.steps EXCEPT ![i] = s]
  OBVIOUS
<1>0. /\ i \in 1 .. Len(sink.steps) /\ ~sink.steps[i].ended
      /\ sink' = [sink EXCEPT !.steps = IF Connected THEN Flushed(ended, TRUE) ELSE ended]
      /\ link' = Put_(Pending(ended, TRUE) \o <<FrameOf("step-end", i, 0, 0)>>)
      /\ host' = host /\ claim' = claim
  BY <1>a, <1>1, <1>2, <1>3 DEF stepFinished, InStep, Here
<1>4. /\ s \in StepLog /\ s.size = sink.steps[i].size /\ s.sent = sink.steps[i].sent
      /\ s.acked = sink.steps[i].acked /\ s.ended = TRUE
  <2>1. PICK x : x = sink.steps[i]
    OBVIOUS
  <2>2. x \in StepLog /\ s = [x EXCEPT !.ended = TRUE]
    BY <2>1, <1>0, <1>2, <1>a
  <2> QED BY <2>1, <2>2 DEF StepLog
<1>5. /\ ended \in Seq(StepLog) /\ Len(ended) = Len(sink.steps) /\ ended[i] = s
      /\ \A j \in 1 .. Len(sink.steps) : j # i => ended[j] = sink.steps[j]
  BY <1>0, <1>3, <1>4, <1>a, ExceptSeq
<1>6. \A j \in 1 .. Len(sink.steps) :
        /\ ended[j].sent = sink.steps[j].sent /\ ended[j].acked = sink.steps[j].acked
        /\ ended[j].size = sink.steps[j].size
        /\ sink.steps[j].ended => ended[j].ended
  BY <1>0, <1>4, <1>5
<1>7. PICK later : later = IF Connected THEN Flushed(ended, TRUE) ELSE ended
  OBVIOUS
<1>8. sink'.steps = later /\ sink'.conn = sink.conn
  BY <1>0, <1>7, <1>a DEF SinkSet
<1>9. /\ later \in Seq(StepLog) /\ Len(later) = Len(sink.steps)
      /\ \A j \in 1 .. Len(sink.steps) :
           /\ later[j].size = ended[j].size /\ later[j].acked = ended[j].acked
           /\ later[j].ended = ended[j].ended
           /\ Connected => ended[j].size <= later[j].sent
  <2>1. CASE Connected
    <3>1. later = Flushed(ended, TRUE)
      BY <2>1, <1>7
    <3> QED BY <3>1, <1>5, FlushedFacts, ZenonT(40)
  <2>2. CASE ~Connected
    <3>1. later = ended
      BY <2>2, <1>7
    <3> QED BY <3>1, <2>2, <1>5
  <2> QED BY <2>1, <2>2
<1>10. Later(sink.steps, later)
  BY <1>6, <1>9, <1>a DEF Later
<1>11. PICK A : A = Pending(ended, TRUE)
  OBVIOUS
<1>12. PICK f : f = FrameOf("step-end", i, 0, 0)
  OBVIOUS
<1>13. f \in Frames /\ f.kind = "step-end" /\ f.step = i /\ <<f>> \in Seq(Frames)
  <2>1. i \in Nat
    BY <1>0
  <2> QED BY <2>1, <1>12 DEF FrameOf, Frames, Kinds
<1>14. A \in Seq(Frames) /\ A \o <<f>> \in Seq(Frames) /\ Len(A \o <<f>>) = Len(A) + 1 /\ Len(A) \in Nat
  <2>1. A \in Seq(Frames)
    BY <1>5, <1>11, PendingFacts
  <2> QED BY <2>1, <1>13, FrameConcat, LenProperties
<1>b. PICK base : base = Before(sink.steps, later)
  OBVIOUS
<1>15. \A j \in 1 .. Len(ended) : base[j] = ended[j].sent /\ base[j] \in Nat
  BY <1>b, <1>5, <1>6, <1>9, <1>a DEF Before
<1>16. ASSUME Connected
       PROVE  /\ Fitting(A \o <<f>>, later)
              /\ Feeds(A \o <<f>>, base, later)
              /\ \A j \in 1 .. Len(later) :
                   Reaches(A \o <<f>>, Len(A \o <<f>>) + 1, j, base[j], later[j].sent)
  <2>1. later = Flushed(ended, TRUE) /\ Len(later) = Len(ended)
    BY <1>16, <1>7, <1>9, <1>5
  <2>2. /\ Fitting(A, later) /\ Feeds(A, base, later)
        /\ \A j \in 1 .. Len(ended) : Reaches(A, Len(A) + 1, j, base[j], later[j].sent)
    BY <2>1, <1>5, <1>11, <1>15, FlushFeeds
  <2>3. \A j \in 1 .. Len(later) : later[j].sent \in Nat /\ later[j].size \in Nat
    BY <1>9, StepFields
  <2>4. /\ Fitting(<<f>>, later) /\ Feeds(<<f>>, SentOf(later), later)
    <3>1. i \in 1 .. Len(later) /\ later[i].ended /\ later[i].size <= later[i].sent
      BY <1>0, <1>4, <1>5, <1>9, <1>16
    <3>2. FrameFits(f, later)
      BY <3>1, <1>13 DEF FrameFits
    <3>3. SentOf(later)[i] = later[i].sent
      BY <3>1 DEF SentOf
    <3>4. Reaches(<<f>>, 1, i, SentOf(later)[i], later[i].size)
      BY <3>1, <3>3 DEF Reaches
    <3> QED BY <3>2, <3>4, <1>13 DEF Fitting, Feeds
  <2>5. \A j \in 1 .. Len(later) :
          /\ base[j] \in Nat /\ SentOf(later)[j] \in Nat
          /\ SentOf(later)[j] = later[j].sent
    BY <2>1, <2>3, <1>15 DEF SentOf
  <2>6. \A j \in 1 .. Len(later) : Reaches(A, Len(A) + 1, j, base[j], SentOf(later)[j])
    BY <2>1, <2>2, <2>5
  <2>7. Feeds(A \o <<f>>, base, later)
    BY <2>2, <2>4, <2>5, <2>6, <1>9, <1>13, <1>14, FeedsConcat
  <2>8. Fitting(A \o <<f>>, later)
    BY <2>2, <2>4, <1>13, <1>14, FittingConcat
  <2>9. ASSUME NEW j \in 1 .. Len(later)
        PROVE  Reaches(A \o <<f>>, Len(A \o <<f>>) + 1, j, base[j], later[j].sent)
    <3>1. Reaches(A, Len(A) + 1, j, base[j], later[j].sent)
      BY <2>1, <2>2
    <3>2. /\ Len(A) + 1 \in 1 .. Len(A) + 1 /\ Len(A \o <<f>>) + 1 \in Nat
          /\ Len(A) + 1 <= Len(A \o <<f>>) + 1
      BY <1>14
    <3>3. base[j] \in Nat /\ later[j].sent \in Nat
      BY <2>3, <2>5
    <3> QED BY <3>1, <3>2, <3>3, <1>13, <1>14, ReachesFirst
  <2> QED BY <2>7, <2>8, <2>9
<1>17. PICK F : F = A \o <<f>>
  OBVIOUS
<1>18. link' = Put_(F) /\ host' = host /\ claim' = claim
  BY <1>0, <1>11, <1>12, <1>17
<1>19. Connected =>
         /\ Fitting(F, later)
         /\ Feeds(F, Before(sink.steps, later), later)
         /\ \A j \in 1 .. Len(later) :
              Reaches(F, Len(F) + 1, j, Before(sink.steps, later)[j], later[j].sent)
  BY <1>16, <1>17, <1>b
<1>20. /\ \A j \in 1 .. Len(sink.steps) : later[j].acked = sink.steps[j].acked
       /\ \A j \in 1 .. Len(later) : j \notin 1 .. Len(sink.steps) => later[j].acked = 0
       /\ Len(later) <= Len(Sizes) /\ F \in Seq(Frames)
  BY <1>6, <1>9, <1>14, <1>17, <1>a
<1>k. Fits' /\ Holds'
  BY <1>8, <1>9, <1>10, <1>18, <1>19, <1>20, WritingKeeps
<1>s. sink' = [sink EXCEPT !.steps = later]
  BY <1>0, <1>7
<1>t. SinkTyped' /\ LinkTyped'
  BY <1>s, <1>8, <1>9, <1>10, <1>18, <1>19, <1>20, WritingTyped
<1> QED BY <1>k, <1>t

(* A reply is taken, in order; what it acknowledges is held. *)
LEMMA HandleReplyKeeps ==
  ASSUME RemoteInv, handleReply
  PROVE  Fits' /\ Holds' /\ SinkTyped' /\ LinkTyped'
<1> DEFINE k == sink.conn
           held == HeldOf(host.log)
<1>a. /\ sink.steps \in Seq(StepLog) /\ sink \in SinkSet
      /\ Len(sink.steps) \in Nat /\ DOMAIN sink.steps = 1 .. Len(sink.steps)
      /\ \A i \in 1 .. Len(sink.steps) :
           /\ sink.steps[i] \in StepLog /\ sink.steps[i].size \in Nat
           /\ sink.steps[i].sent \in Nat /\ sink.steps[i].acked \in Nat
      /\ \A i \in 1 .. Len(sink.steps) : held[i] \in Nat
  BY SinkFields, StepFields, HostFields DEF RemoteInv, Typed, SinkTyped
<1>b. LinkTyped /\ Fits /\ Holds
  BY DEF RemoteInv, Typed
<1>c. /\ k \in 1 .. Len(link) /\ link[k] \in Link /\ link \in Seq(Link)
      /\ link[k].down \in Seq(Replies) /\ link[k].down # <<>>
      /\ \A j \in 1 .. Len(link) : link[j] \in Link
  BY <1>b, LinksTyped DEF handleReply, Connected
<1>1. PICK r : r = Head(link[k].down)
  OBVIOUS
<1>2. /\ r \in Replies /\ r = link[k].down[1] /\ 1 \in 1 .. Len(link[k].down)
      /\ Tail(link[k].down) \in Seq(Replies)
      /\ Len(Tail(link[k].down)) = Len(link[k].down) - 1 /\ Len(link[k].down) \in Nat
      /\ \A n \in 1 .. Len(link[k].down) - 1 : Tail(link[k].down)[n] = link[k].down[n + 1]
  BY <1>1, <1>c, HeadTailProperties, LenProperties, EmptySeq
<1>3. PICK l : l = [link[k] EXCEPT !.down = Tail(@)]
  OBVIOUS
<1>4. /\ l \in Link /\ l.up = link[k].up /\ l.alive = link[k].alive /\ l.steps = link[k].steps
      /\ l.down = Tail(link[k].down)
  BY <1>2, <1>3, <1>c DEF Link
<1>5. PICK rest : rest = [link EXCEPT ![k] = l]
  OBVIOUS
<1>6. /\ rest \in Seq(Link) /\ Len(rest) = Len(link) /\ rest[k] = l
      /\ \A j \in 1 .. Len(link) : j # k => rest[j] = link[j]
  BY <1>4, <1>5, <1>c, LinkReplaced
<1>7. /\ host' = host /\ claim' = claim
      /\ \/ /\ r.kind \in {"ack", "held"}
            /\ sink' = [sink EXCEPT !.steps[r.step] = Answered(@, r)]
            /\ link' = rest
         \/ /\ r.kind = "lease-lost"
            /\ sink' = [sink EXCEPT !.lost = TRUE]
            /\ link' = rest
         \/ /\ r.kind = "error"
            /\ sink' = [sink EXCEPT !.conn = 0]
            /\ link' = Closed
  BY <1>1, <1>2, <1>3, <1>5 DEF handleReply, Replies
<1>d. LinkHolds(link[k], sink.steps, held) => LinkHolds(l, sink.steps, held)
  <2>1. SUFFICES ASSUME LinkHolds(link[k], sink.steps, held),
                        NEW n \in 1 .. Len(l.down), l.down[n].kind \in {"ack", "held"}
                 PROVE  /\ l.down[n].step \in 1 .. Len(sink.steps)
                        /\ l.down[n].at <= held[l.down[n].step]
    BY <1>4 DEF LinkHolds
  <2>2. n + 1 \in 1 .. Len(link[k].down) /\ l.down[n] = link[k].down[n + 1]
    BY <1>2, <1>4
  <2> QED BY <2>1, <2>2 DEF LinkHolds
<1>e. LinkFits(link[k], sink.steps) => LinkFits(l, sink.steps)
  BY <1>4 DEF LinkFits
(* The steps after the reply: acknowledged is what is held, sent no more   *)
(* than before.                                                            *)
<1>8. ASSUME NEW later \in Seq(StepLog), sink'.steps = later, sink'.conn = k, link' = rest,
             Len(later) = Len(sink.steps), Later(sink.steps, later),
             \A i \in 1 .. Len(later) : later[i].sent \in Nat /\ later[i].sent <= sink.steps[i].sent,
             \A i \in 1 .. Len(later) : later[i].size = sink.steps[i].size,
             claim => AllAcked(later, held)
      PROVE  Fits' /\ Holds' /\ LinkTyped'
  <2>1. /\ LogFits(host.log, later)
        /\ \A i \in 1 .. Len(later) : held[i] \in Nat /\ held[i] <= later[i].size
    <3>1. LogFits(host.log, later)
      BY <1>b, <1>8 DEF Fits, LogFits
    <3>2. 1 .. Len(later) \subseteq Steps /\ host.log \in [Steps -> Seq(Nat)]
      BY <1>8, SinkFields, HostFields DEF RemoteInv, Typed
    <3> QED BY <3>1, <3>2, <1>8, LogBound
  <2>2. \A i \in 1 .. Len(sink.steps) : held[i] \in Nat /\ held[i] <= held[i]
    BY <1>a
  <2>3. HeldOf(host.log)' = held
    BY <1>7 DEF HeldOf
  <2> HIDE DEF held
  <2>4. ASSUME NEW j \in 1 .. Len(link)
        PROVE  /\ LinkFits(rest[j], later)
               /\ claim => LinkHolds(rest[j], later, held)
    <3>1. /\ rest[j] \in Link /\ LinkFits(rest[j], sink.steps)
          /\ claim => LinkHolds(rest[j], sink.steps, held)
      <4>1. LinkFits(link[j], sink.steps) /\ (claim => LinkHolds(link[j], sink.steps, held))
        BY <1>b DEF Fits, Holds, held
      <4> QED BY <4>1, <1>4, <1>6, <1>c, <1>d, <1>e
    <3> QED BY <3>1, <2>1, <2>2, <1>8, <1>a, LinkLater
  <2>5. Fits'
    <3>1. host.steps <= Len(later)
      BY <1>b, <1>8 DEF Fits
    <3> QED BY <3>1, <2>1, <2>4, <1>6, <1>7, <1>8, <1>b DEF Fits, Whole, Units
  <2>6. ASSUME claim
        PROVE  AllComplete(host.steps, later, held)
    <3>1. AllComplete(host.steps, sink.steps, held)
      BY <2>6, <1>b DEF Holds, held
    <3> QED BY <3>1, <2>1, <2>2, <1>8, <1>a, CompleteLater DEF AllComplete
  <2>7. ASSUME claim, k > 0, l.alive
        PROVE  Sends(l, later, held)
    <3>1. Sends(link[k], sink.steps, held)
      BY <2>7, <1>4, <1>b DEF Holds, held
    <3>2. ASSUME NEW i \in 1 .. Len(later)
          PROVE  Reaches(l.up, Len(l.up) + 1, i, held[i], later[i].sent)
      <4>1. Reaches(l.up, Len(l.up) + 1, i, held[i], sink.steps[i].sent)
        BY <3>1, <1>4, <1>8 DEF Sends
      <4>2. /\ later[i].sent \in Nat /\ later[i].sent <= sink.steps[i].sent
            /\ sink.steps[i].sent \in Nat /\ held[i] \in Nat /\ l.up \in Seq(Frames)
        BY <1>8, <1>a, <2>1, <1>4, LinkFields
      <4>3. CASE sink.steps[i].sent <= held[i]
        BY <4>2, <4>3 DEF Reaches
      <4>4. CASE ~(sink.steps[i].sent <= held[i])
        <5>1. PICK m \in 1 .. (Len(l.up) + 1) - 1 : Carries(l.up[m], i, sink.steps[i].sent)
          BY <4>1, <4>4 DEF Reaches
        <5>2. m \in 1 .. Len(l.up)
          BY <5>1, <4>2, LenProperties
        <5>3. l.up[m].at \in Nat /\ l.up[m].len \in Nat
          BY <5>2, <4>2, FrameFields
        <5>4. Carries(l.up[m], i, later[i].sent)
          BY <5>1, <5>3, <4>2, SMTT(30) DEF Carries
        <5> QED BY <5>4 DEF Reaches
      <4> QED BY <4>3, <4>4
    <3> QED BY <3>2 DEF Sends
  <2>8. Holds'
    BY <2>3, <2>4, <2>6, <2>7, <1>6, <1>7, <1>8 DEF Holds, held
  <2>9. LinkTyped'
    <3>1. l.open = link[k].open
      BY <1>3, <1>c DEF Link
    <3>2. k > 0 => link[k].open
      BY <1>b DEF LinkTyped
    <3> QED BY <3>1, <3>2, <1>6, <1>8, <1>c DEF LinkTyped
  <2> QED BY <2>5, <2>8, <2>9
<1> HIDE DEF held
<1>s. \A s \in SinkSet : Len(s.steps) <= Len(Sizes) /\ sink' = s => SinkTyped'
  BY DEF SinkTyped, SinkSet, Places
<1>9. CASE r.kind \in {"ack", "held"} /\ sink' = [sink EXCEPT !.steps[r.step] = Answered(@, r)] /\ link' = rest
  <2>1. PICK i : i = r.step
    OBVIOUS
  <2>2. PICK later : later = [sink.steps EXCEPT ![i] = Answered(sink.steps[i], r)]
    OBVIOUS
  <2>3. sink'.steps = later /\ sink'.conn = k
    BY <1>9, <2>1, <2>2, <1>a DEF SinkSet
  <2>6. later \in Seq(StepLog) /\ Len(later) = Len(sink.steps) => SinkTyped'
    <3>1. sink' = [sink EXCEPT !.steps = later]
      BY <1>9, <2>1, <2>2
    <3>2. Len(sink.steps) <= Len(Sizes)
      BY SinkFields DEF RemoteInv, Typed
    <3>3. ASSUME later \in Seq(StepLog), Len(later) = Len(sink.steps)
          PROVE  SinkTyped'
      <4>1. sink' \in SinkSet
        BY <3>1, <3>3, <1>a, SinkKept, Zenon
      <4> QED BY <4>1, <3>2, <3>3, <2>3, <1>s
    <3> QED BY <3>3
  <2>4. CASE i \in 1 .. Len(sink.steps)
    <3>1. PICK s : s = Answered(sink.steps[i], r)
      OBVIOUS
    <3>2. /\ s \in StepLog /\ s.size = sink.steps[i].size /\ s.ended = sink.steps[i].ended
          /\ s.sent \in Nat /\ s.sent <= sink.steps[i].sent
          /\ s.acked = Larger(sink.steps[i].acked, r.at)
      <4>1. PICK x : x = sink.steps[i]
        OBVIOUS
      <4>2. x \in StepLog /\ x.sent \in Nat /\ x.acked \in Nat /\ r.at \in Nat
        BY <4>1, <2>4, <1>a, <1>2 DEF Replies
      <4>3. PICK a : a = Larger(x.acked, r.at)
        OBVIOUS
      <4>4. PICK t : t = IF r.kind = "held" THEN Smaller(x.sent, r.at) ELSE x.sent
        OBVIOUS
      <4>5. a \in Nat /\ t \in Nat /\ t <= x.sent
        BY <4>2, <4>3, <4>4 DEF Larger, Smaller
      <4>6. s = [x EXCEPT !.acked = a, !.sent = t]
        BY <3>1, <4>1, <4>3, <4>4 DEF Answered
      <4> QED BY <4>1, <4>2, <4>3, <4>5, <4>6 DEF StepLog
    <3>3. /\ later \in Seq(StepLog) /\ Len(later) = Len(sink.steps) /\ later[i] = s
          /\ \A j \in 1 .. Len(sink.steps) : j # i => later[j] = sink.steps[j]
      BY <2>2, <2>4, <3>1, <3>2, <1>a, ExceptSeq
    <3>4. \A j \in 1 .. Len(later) :
            /\ later[j].sent \in Nat /\ later[j].sent <= sink.steps[j].sent
            /\ later[j].size = sink.steps[j].size /\ later[j].ended = sink.steps[j].ended
      BY <3>2, <3>3, <1>a
    <3>5. Later(sink.steps, later)
      BY <3>3, <3>4, <1>a DEF Later
    <3>6. ASSUME claim
          PROVE  AllAcked(later, held)
      <4>1. LinkHolds(link[k], sink.steps, held) /\ AllAcked(sink.steps, held)
        BY <3>6, <1>b, <1>c DEF Holds, held
      <4>2. r.at <= held[i]
        BY <4>1, <1>2, <1>9, <2>1 DEF LinkHolds
      <4>3. s.acked <= held[i]
        BY <4>1, <4>2, <3>2, <2>4 DEF AllAcked, Larger
      <4> QED BY <4>1, <4>3, <3>3 DEF AllAcked
    <3>7. Fits' /\ Holds' /\ LinkTyped'
      BY <1>8, <1>9, <2>3, <3>3, <3>4, <3>5, <3>6
    <3> QED BY <3>3, <3>7, <2>6
  <2>5. CASE i \notin 1 .. Len(sink.steps)
    <3>1. later = sink.steps
      <4>1. sink.steps = [j \in DOMAIN sink.steps |-> sink.steps[j]]
        BY <1>a
      <4> QED BY <2>2, <2>5, <4>1, <1>a
    <3>2. Later(sink.steps, later)
      BY <3>1, <1>a DEF Later
    <3>3. claim => AllAcked(later, held)
      BY <3>1, <1>b DEF Holds, held
    <3>4. \A j \in 1 .. Len(later) :
            /\ later[j].sent \in Nat /\ later[j].sent <= sink.steps[j].sent
            /\ later[j].size = sink.steps[j].size
      BY <3>1, <1>a
    <3>5. Fits' /\ Holds' /\ LinkTyped'
      BY <1>8, <1>9, <2>3, <3>1, <3>2, <3>3, <3>4, <1>a
    <3> QED BY <3>1, <3>5, <2>6, <1>a
  <2> QED BY <2>4, <2>5
<1>10. CASE r.kind = "lease-lost" /\ sink' = [sink EXCEPT !.lost = TRUE] /\ link' = rest
  <2>1. PICK later : later = sink.steps
    OBVIOUS
  <2>2. sink'.steps = later /\ sink'.conn = k
    BY <1>10, <2>1, <1>a DEF SinkSet
  <2>3. Later(sink.steps, later)
    BY <2>1, <1>a DEF Later
  <2>4. claim => AllAcked(later, held)
    BY <2>1, <1>b DEF Holds, held
  <2>5. \A j \in 1 .. Len(later) :
          /\ later[j].sent \in Nat /\ later[j].sent <= sink.steps[j].sent
          /\ later[j].size = sink.steps[j].size
    BY <2>1, <1>a
  <2>6. Fits' /\ Holds' /\ LinkTyped'
    BY <1>8, <1>10, <2>1, <2>2, <2>3, <2>4, <2>5, <1>a
  <2>7. SinkTyped'
    <3>1. sink' \in SinkSet
      BY <1>10, <1>a, SinkKept, Zenon
    <3>2. Len(sink.steps) <= Len(Sizes)
      BY SinkFields DEF RemoteInv, Typed
    <3> QED BY <3>1, <3>2, <2>1, <2>2, <1>s
  <2> QED BY <2>6, <2>7
<1>11. CASE r.kind = "error" /\ sink' = [sink EXCEPT !.conn = 0] /\ link' = Closed
  <2>1. sink'.steps = sink.steps /\ sink'.conn = 0
    BY <1>11, <1>a DEF SinkSet
  <2>2. Fits' /\ Holds'
    BY <2>1, <1>7, <1>11, ClosingKeeps
  <2>3. LinkTyped'
    BY <2>1, <1>11, <1>b, ClosedFacts, LenProperties DEF LinkTyped
  <2>4. SinkTyped'
    <3>1. sink' \in SinkSet
      BY <1>11, <1>a, SinkKept, Zenon
    <3>2. Len(sink.steps) <= Len(Sizes)
      BY SinkFields DEF RemoteInv, Typed
    <3> QED BY <3>1, <3>2, <2>1, <1>s
  <2> QED BY <2>2, <2>3, <2>4
<1> QED BY <1>7, <1>9, <1>10, <1>11

LEMMA GreetedFacts ==
  ASSUME RemoteInv
  PROVE  /\ Greeted(sink.steps) \in Seq(StepLog)
         /\ Len(Greeted(sink.steps)) = Len(sink.steps)
         /\ \A i \in 1 .. Len(sink.steps) :
              /\ Greeted(sink.steps)[i].size = sink.steps[i].size
              /\ Greeted(sink.steps)[i].ended = sink.steps[i].ended
              /\ Greeted(sink.steps)[i].sent =
                   Larger(Greeted(sink.steps)[i].acked, sink.steps[i].size)
              /\ \/ Greeted(sink.steps)[i].acked = sink.steps[i].acked
                 \/ Greeted(sink.steps)[i].acked = HeldOf(host.log)[i]
<1> DEFINE G == Greeted(sink.steps)
<1>a. /\ sink.steps \in Seq(StepLog)
      /\ Len(sink.steps) \in Nat /\ DOMAIN sink.steps = 1 .. Len(sink.steps)
      /\ \A i \in 1 .. Len(sink.steps) :
           /\ sink.steps[i] \in StepLog /\ sink.steps[i].size \in Nat
           /\ sink.steps[i].acked \in Nat
           /\ Len(host.log[i]) \in Nat /\ HeldOf(host.log)[i] = Len(host.log[i])
  BY SinkFields, StepFields, HostFields DEF RemoteInv, Typed
<1>1. ASSUME NEW i \in 1 .. Len(sink.steps)
      PROVE  /\ G[i] \in StepLog /\ G[i].size = sink.steps[i].size
             /\ G[i].ended = sink.steps[i].ended
             /\ G[i].sent = Larger(G[i].acked, sink.steps[i].size)
             /\ \/ G[i].acked = sink.steps[i].acked
                \/ G[i].acked = HeldOf(host.log)[i]
  <2>1. PICK a : a = IF i <= host.steps + 1 THEN Larger(sink.steps[i].acked, Len(host.log[i]))
                     ELSE sink.steps[i].acked
    OBVIOUS
  <2>2. PICK t : t = Larger(a, sink.steps[i].size)
    OBVIOUS
  <2>3. G[i] = [sink.steps[i] EXCEPT !.acked = a, !.sent = t]
    BY <2>1, <2>2, <1>a DEF Greeted
  <2>4. a \in Nat /\ (a = sink.steps[i].acked \/ a = HeldOf(host.log)[i])
    BY <2>1, <1>a DEF Larger
  <2>5. t \in Nat
    BY <2>2, <2>4, <1>a DEF Larger
  <2>6. PICK x : x = sink.steps[i]
    OBVIOUS
  <2>7. x \in StepLog /\ G[i] = [x EXCEPT !.acked = a, !.sent = t]
    BY <2>3, <2>6, <1>a
  <2> HIDE DEF G
  <2>8. /\ G[i] \in StepLog /\ G[i].size = x.size /\ G[i].ended = x.ended
        /\ G[i].acked = a /\ G[i].sent = t
    BY <2>4, <2>5, <2>7 DEF StepLog
  <2> QED BY <2>2, <2>4, <2>6, <2>8
<1>2. G = [i \in 1 .. Len(sink.steps) |-> G[i]]
  BY <1>a, Zenon DEF Greeted
<1> HIDE DEF G
<1>3. G \in Seq(StepLog) /\ Len(G) = Len(sink.steps)
  <2>1. \A i \in 1 .. Len(sink.steps) : G[i] \in StepLog
    BY <1>1
  <2>2. Len(sink.steps) \in Nat
    BY <1>a
  <2> QED BY <2>1, <2>2, <1>2
<1> QED BY <1>1, <1>3 DEF G

(* A new stream begins where the host's logs end. *)
LEMMA ConnectKeeps ==
  ASSUME RemoteInv, connect
  PROVE  Fits' /\ Holds' /\ SinkTyped' /\ LinkTyped'
<1>b. LinkTyped /\ Fits /\ Holds /\ sink \in SinkSet
  BY DEF RemoteInv, Typed, SinkTyped
<1>1. CASE ~claim
  <2>1. Aside /\ host' = host /\ claim' = claim
    BY <1>1, <1>b DEF connect, Aside, SinkSet
  <2>2. Fits' /\ Holds'
    BY <2>1, AsideKeeps
  <2>3. sink' = [sink EXCEPT !.lost = TRUE]
    BY <1>1 DEF connect
  <2>4. sink' \in SinkSet
    BY <2>3, <1>b, SinkKept, Zenon
  <2>5. SinkTyped'
    BY <2>1, <2>4 DEF Aside, RemoteInv, Typed, SinkTyped, SinkSet, Places
  <2>6. LinkTyped'
    BY <2>1, <1>b DEF Aside, LinkTyped
  <2> QED BY <2>2, <2>5, <2>6
<1>2. CASE claim
  <2> DEFINE held == HeldOf(host.log)
  <2>1. PICK later : later = Greeted(sink.steps)
    OBVIOUS
  <2>2. PICK F : F = ResendOf(later)
    OBVIOUS
  <2>3. PICK l : l = [up |-> F, down |-> <<>>, open |-> TRUE, alive |-> TRUE,
                      steps |-> host.steps, status |-> host.status]
    OBVIOUS
  <2>4. /\ link' = Append(link, l) /\ host' = host /\ claim' = claim
        /\ sink' = [sink EXCEPT !.steps = later, !.conn = Len(link) + 1]
    BY <1>2, <2>1, <2>2, <2>3 DEF connect
  <2>5. sink'.steps = later /\ sink'.conn = Len(link) + 1
    BY <2>4, <1>b DEF SinkSet
  <2>a. /\ sink.steps \in Seq(StepLog) /\ Len(sink.steps) \in Nat
        /\ 1 .. Len(sink.steps) \subseteq Steps
        /\ \A i \in 1 .. Len(sink.steps) :
             /\ sink.steps[i].size \in Nat /\ sink.steps[i].acked \in Nat /\ held[i] \in Nat
        /\ host.log \in [Steps -> Seq(Nat)] /\ host.steps \in Nat /\ host.status \in Statuses
    BY SinkFields, StepFields, HostFields, ConstantFacts DEF RemoteInv, Typed
  <2>6. /\ later \in Seq(StepLog) /\ Len(later) = Len(sink.steps)
        /\ \A i \in 1 .. Len(sink.steps) :
             /\ later[i].size = sink.steps[i].size
             /\ later[i].ended = sink.steps[i].ended
             /\ later[i].sent = Larger(later[i].acked, sink.steps[i].size)
             /\ later[i].acked = sink.steps[i].acked \/ later[i].acked = held[i]
    BY <2>1, GreetedFacts
  <2>7. Later(sink.steps, later)
    <3>1. \A i \in 1 .. Len(sink.steps) :
            /\ sink.steps[i].size \in Nat
            /\ later[i].size = sink.steps[i].size /\ later[i].ended = sink.steps[i].ended
      BY <2>6, <2>a
    <3>2. Len(later) = Len(sink.steps) /\ Len(sink.steps) \in Nat
      BY <2>6, <2>a
    <3> QED BY <3>1, <3>2 DEF Later
  <2>8. /\ AllComplete(host.steps, sink.steps, held)
        /\ AllAcked(sink.steps, held)
        /\ \A k \in 1 .. Len(link) : LinkHolds(link[k], sink.steps, held)
    BY <1>2, <1>b DEF Holds
  <2>9. \A i \in 1 .. Len(later) :
          /\ later[i].acked \in Nat /\ later[i].acked <= held[i]
          /\ later[i].sent \in Nat /\ later[i].size \in Nat /\ held[i] \in Nat
    <3>1. /\ later \in Seq(StepLog) /\ Len(later) = Len(sink.steps)
          /\ \A i \in 1 .. Len(later) :
               later[i].acked = sink.steps[i].acked \/ later[i].acked = held[i]
      BY <2>6
    <3>2. \A i \in 1 .. Len(later) :
            later[i].acked \in Nat /\ later[i].sent \in Nat /\ later[i].size \in Nat
      BY <3>1, StepFields
    <3>3. \A i \in 1 .. Len(later) : sink.steps[i].acked <= held[i] /\ held[i] \in Nat
      BY <2>8, <2>a, <3>1 DEF AllAcked
    <3> HIDE DEF held
    <3> QED BY <3>1, <3>2, <3>3
  <2>10. /\ LogFits(host.log, later)
         /\ \A i \in 1 .. Len(later) : held[i] \in Nat /\ held[i] <= later[i].size
    <3>1. LogFits(host.log, later)
      BY <2>6, <1>b DEF Fits, LogFits
    <3> QED BY <3>1, <2>6, <2>a, LogBound
  <2>11. /\ F \in Seq(Frames) /\ Fitting(F, later) /\ Feeds(F, AckedOf(later), later)
         /\ \A i \in 1 .. Len(later) :
              Reaches(F, Len(F) + 1, i, later[i].acked, later[i].size)
    BY <2>2, <2>6, ResendFacts
  <2>b. \A i \in 1 .. Len(sink.steps) : held[i] \in Nat /\ held[i] <= held[i]
    BY <2>a
  <2>c. HeldOf(host.log)' = held
    BY <2>4 DEF HeldOf
  <2> HIDE DEF held
  <2>12. Feeds(F, held, later)
    <3>1. Later(later, later)
      BY <2>6, <2>a, StepFields DEF Later
    <3>2. \A i \in 1 .. Len(later) :
            AckedOf(later)[i] \in Nat /\ held[i] \in Nat /\ AckedOf(later)[i] <= held[i]
      BY <2>9 DEF AckedOf
    <3> QED BY <3>1, <3>2, <2>11, <2>6, FeedsLater
  <2>13. /\ l \in Link /\ l.up = F /\ l.down = <<>> /\ l.steps = host.steps
    <3>1. <<>> \in Seq(Replies)
      OBVIOUS
    <3> QED BY <3>1, <2>3, <2>11, <2>a DEF Link
  <2>14. host.steps <= Len(later) /\ AllComplete(host.steps, later, held)
    <3>1. host.steps <= Len(later)
      BY <1>b, <2>6 DEF Fits
    <3> QED BY <3>1, <2>6, <2>7, <2>8, <2>10, <2>a, <2>b, CompleteLater DEF AllComplete
  <2>15. LinkFits(l, later) /\ LinkHolds(l, later, held)
    BY <2>11, <2>12, <2>13, <2>14 DEF LinkFits, LinkHolds, AllComplete
  <2>16. Sends(l, later, held)
    <3>1. ASSUME NEW i \in 1 .. Len(later)
          PROVE  Reaches(F, Len(F) + 1, i, held[i], later[i].sent)
      <4>1. Reaches(F, Len(F) + 1, i, later[i].acked, later[i].size)
        BY <2>11
      <4>2. later[i].sent = Larger(later[i].acked, later[i].size)
        BY <2>6
      <4>3. \/ later[i].sent <= held[i]
            \/ later[i].sent = later[i].size /\ ~(later[i].size <= later[i].acked)
        BY <4>2, <2>9 DEF Larger
      <4> QED BY <4>1, <4>3 DEF Reaches
    <3> QED BY <3>1, <2>13 DEF Sends
  <2>17. /\ link \in Seq(Link) /\ Len(link) \in Nat
         /\ Len(link') = Len(link) + 1 /\ link'[Len(link) + 1] = l
         /\ \A k \in 1 .. Len(link) : link'[k] = link[k] /\ link[k] \in Link
    BY <2>4, <2>13, <1>b, LinksTyped, AppendProperties
  <2>18. ASSUME NEW k \in 1 .. Len(link')
         PROVE  LinkFits(link'[k], later) /\ LinkHolds(link'[k], later, held)
    <3>1. CASE k = Len(link) + 1
      BY <3>1, <2>15, <2>17
    <3>2. CASE k # Len(link) + 1
      <4>1. k \in 1 .. Len(link)
        BY <3>2, <2>17
      <4>2. link[k] \in Link /\ LinkFits(link[k], sink.steps) /\ LinkHolds(link[k], sink.steps, held)
        BY <4>1, <2>8, <2>17, <1>b DEF Fits
      <4>3. LinkFits(link[k], later) /\ LinkHolds(link[k], later, held)
        <5>1. sink.steps \in Seq(StepLog) /\ later \in Seq(StepLog)
          BY <2>6, <2>a
        <5>2. \A i \in 1 .. Len(later) : held[i] \in Nat /\ held[i] <= later[i].size
          BY <2>10
        <5> QED BY <4>2, <5>1, <5>2, <2>7, <2>b, LinkLater
      <4> QED BY <4>1, <4>3, <2>17
    <3> QED BY <3>1, <3>2
  <2>19. Fits'
    BY <2>4, <2>5, <2>10, <2>14, <2>18, <1>b DEF Fits, Whole, Units
  <2>20. AllAcked(later, held)
    BY <2>9 DEF AllAcked
  <2>21. Holds'
    BY <2>4, <2>5, <2>14, <2>16, <2>17, <2>18, <2>20, <2>c DEF Holds
  <2>22. SinkTyped'
    <3>1. Len(link) + 1 \in Nat
      BY <2>17
    <3>2. sink' \in SinkSet
      BY <2>4, <2>6, <3>1, <1>b, SinkKept, Zenon
    <3>3. Len(sink.steps) <= Len(Sizes)
      BY SinkFields DEF RemoteInv, Typed
    <3> QED BY <3>2, <3>3, <2>5, <2>6 DEF SinkTyped, SinkSet, Places
  <2>23. LinkTyped'
    <3>1. l.open = TRUE
      BY <2>3
    <3>2. link' \in Seq(Link)
      BY <2>4, <2>13, <2>17, AppendProperties
    <3> QED BY <3>1, <3>2, <2>5, <2>17 DEF LinkTyped
  <2> QED BY <2>19, <2>21, <2>22, <2>23
<1> QED BY <1>1, <1>2

-----------------------------------------------------------------------------
(* The host's sessions. *)

(* What is told of the logs in these replies is held. *)
Truthful(down, steps, held) ==
  \A n \in 1 .. Len(down) :
    down[n].kind \in {"ack", "held"} =>
      down[n].step \in 1 .. Len(steps) /\ down[n].at <= held[down[n].step]

LEMMA HoldsParts ==
  ASSUME NEW l, NEW steps, NEW held
  PROVE  LinkHolds(l, steps, held) <=>
           /\ \A i \in 1 .. l.steps : Complete(i, steps, held)
           /\ l.alive => Feeds(l.up, held, steps)
           /\ Truthful(l.down, steps, held)
  BY DEF LinkHolds, Truthful

LEMMA TruthfulAppend ==
  ASSUME NEW down \in Seq(Replies), NEW r \in Replies, NEW steps, NEW held,
         Truthful(down, steps, held),
         r.kind \in {"ack", "held"} => r.step \in 1 .. Len(steps) /\ r.at <= held[r.step]
  PROVE  Truthful(Append(down, r), steps, held)
<1>1. /\ Len(Append(down, r)) = Len(down) + 1 /\ Len(down) \in Nat
      /\ Append(down, r)[Len(down) + 1] = r
      /\ \A n \in 1 .. Len(down) : Append(down, r)[n] = down[n]
  BY AppendProperties, LenProperties
<1>2. ASSUME NEW n \in 1 .. Len(Append(down, r))
      PROVE  n \in 1 .. Len(down) \/ n = Len(down) + 1
  BY <1>1
<1> QED BY <1>1, <1>2 DEF Truthful

(* One stream changes, and with it perhaps the files of the run.           *)
LEMMA SessionKeeps ==
  ASSUME RemoteInv, NEW k \in 1 .. Len(link), NEW l \in Link,
         Len(link') = Len(link), link'[k] = l,
         \A j \in 1 .. Len(link) : j # k => link'[j] = link[j],
         sink' = sink, claim' = claim, host'.stored = host.stored,
         host'.log \in [Steps -> Seq(Nat)], LogFits(host'.log, sink.steps),
         \A i \in 1 .. Len(sink.steps) : HeldOf(host.log)[i] <= HeldOf(host'.log)[i],
         host'.steps \in Nat, host'.steps <= Len(sink.steps),
         LinkFits(l, sink.steps),
         claim => /\ LinkHolds(l, sink.steps, HeldOf(host'.log))
                  /\ AllComplete(host'.steps, sink.steps, HeldOf(host'.log))
                  /\ l.alive /\ k = sink.conn => Sends(l, sink.steps, HeldOf(host'.log))
  PROVE  Fits' /\ Holds'
<1>0. PICK held : held = HeldOf(host.log)
  OBVIOUS
<1>00. PICK held2 : held2 = HeldOf(host'.log)
  OBVIOUS
<1>b. LinkTyped /\ Fits /\ Holds
  BY DEF RemoteInv, Typed
<1>a. /\ sink.steps \in Seq(StepLog) /\ Len(sink.steps) \in Nat
      /\ 1 .. Len(sink.steps) \subseteq Steps
      /\ \A i \in 1 .. Len(sink.steps) : sink.steps[i].size \in Nat /\ sink.steps[i].sent \in Nat
      /\ \A i \in 1 .. Len(sink.steps) : held[i] \in Nat
  BY <1>0, SinkFields, StepFields, HostFields DEF RemoteInv, Typed
<1>1. \A i \in 1 .. Len(sink.steps) : held2[i] \in Nat /\ held2[i] <= sink.steps[i].size
  BY <1>00, <1>a, LogBound
<1>2. \A i \in 1 .. Len(sink.steps) : held[i] \in Nat /\ held[i] <= held2[i]
  BY <1>a, <1>0, <1>00
<1>3. Later(sink.steps, sink.steps)
  BY <1>a DEF Later
<1>4. HeldOf(host.log)' = held2
  BY <1>00 DEF HeldOf
<1>5. Fits'
  <2>1. ASSUME NEW j \in 1 .. Len(link')
        PROVE  LinkFits(link'[j], sink.steps)
    BY <1>b DEF Fits
  <2> QED BY <2>1, <1>b DEF Fits, Whole, Units
<1>6. ASSUME claim, NEW j \in 1 .. Len(link), j # k
      PROVE  /\ LinkHolds(link[j], sink.steps, held2)
             /\ link[j].alive /\ j = sink.conn => Sends(link[j], sink.steps, held2)
  <2>1. /\ LinkFits(link[j], sink.steps) /\ link[j] \in Link
        /\ LinkHolds(link[j], sink.steps, held)
    BY <1>6, <1>b, <1>0, LinksTyped DEF Fits, Holds
  <2>2. LinkHolds(link[j], sink.steps, held2)
    BY <2>1, <1>1, <1>2, <1>3, <1>a, LinkLater
  <2>3. ASSUME link[j].alive, j = sink.conn
        PROVE  Sends(link[j], sink.steps, held2)
    <3>1. Sends(link[j], sink.steps, held)
      BY <2>3, <1>6, <1>b, <1>0 DEF Holds
    <3>2. ASSUME NEW i \in 1 .. Len(sink.steps)
          PROVE  Reaches(link[j].up, Len(link[j].up) + 1, i, held2[i], sink.steps[i].sent)
      <4>1. Reaches(link[j].up, Len(link[j].up) + 1, i, held[i], sink.steps[i].sent)
        BY <3>1 DEF Sends
      <4>2. CASE sink.steps[i].sent <= held[i]
        <5>1. held[i] <= held2[i] /\ held[i] \in Nat /\ held2[i] \in Nat
              /\ sink.steps[i].sent \in Nat
          BY <1>1, <1>2, <1>a
        <5>2. sink.steps[i].sent <= held2[i]
          BY <4>2, <5>1
        <5> QED BY <5>2 DEF Reaches
      <4>3. CASE ~(sink.steps[i].sent <= held[i])
        BY <4>1, <4>3 DEF Reaches
      <4> QED BY <4>2, <4>3
    <3> QED BY <3>2 DEF Sends
  <2> QED BY <2>2, <2>3
<1>7. ASSUME claim
      PROVE  AllAcked(sink.steps, held2)
  <2>1. AllAcked(sink.steps, held)
    BY <1>7, <1>b, <1>0 DEF Holds
  <2>2. \A i \in 1 .. Len(sink.steps) : sink.steps[i].acked \in Nat
    BY <1>a, StepFields
  <2> QED BY <2>1, <2>2, <1>1, <1>2 DEF AllAcked
<1>8. sink.conn \in 0 .. Len(link) /\ Len(link) \in Nat
  BY <1>b, LinksTyped
<1>9. Holds'
  <2>1. SUFFICES ASSUME claim
                 PROVE  /\ AllComplete(host'.steps, sink.steps, held2)
                        /\ AllAcked(sink.steps, held2)
                        /\ \A j \in 1 .. Len(link') : LinkHolds(link'[j], sink.steps, held2)
                        /\ sink.conn > 0 /\ link'[sink.conn].alive =>
                             Sends(link'[sink.conn], sink.steps, held2)
    BY <1>4 DEF Holds
  <2>2. \A j \in 1 .. Len(link') : LinkHolds(link'[j], sink.steps, held2)
    BY <2>1, <1>6, <1>00
  <2>3. sink.conn > 0 /\ link'[sink.conn].alive => Sends(link'[sink.conn], sink.steps, held2)
    <3>1. SUFFICES ASSUME sink.conn > 0, link'[sink.conn].alive
                   PROVE  Sends(link'[sink.conn], sink.steps, held2)
      OBVIOUS
    <3>2. sink.conn \in 1 .. Len(link)
      BY <3>1, <1>8
    <3>3. CASE sink.conn = k
      BY <3>1, <3>3, <2>1, <1>00
    <3>4. CASE sink.conn # k
      BY <3>1, <3>2, <3>4, <2>1, <1>6
    <3> QED BY <3>3, <3>4
  <2> QED BY <2>1, <2>2, <2>3, <1>7, <1>00
<1> QED BY <1>5, <1>9

(* A session that ended: nothing goes up in its stream any more.           *)
LEMMA SessionEnds ==
  ASSUME RemoteInv, NEW k \in 1 .. Len(link), NEW l \in Link,
         Len(link') = Len(link), link'[k] = l,
         \A j \in 1 .. Len(link) : j # k => link'[j] = link[j],
         sink' = sink, claim' = claim, host' = host,
         l.up = <<>>, l.alive = FALSE, l.steps \in {0, link[k].steps},
         claim => Truthful(l.down, sink.steps, HeldOf(host.log))
  PROVE  Fits' /\ Holds'
<1>b. LinkTyped /\ Fits /\ Holds
  BY DEF RemoteInv, Typed
<1>a. /\ Len(sink.steps) \in Nat /\ host.steps \in Nat
      /\ host.log \in [Steps -> Seq(Nat)]
      /\ \A i \in 1 .. Len(sink.steps) : HeldOf(host.log)[i] \in Nat
  BY SinkFields, HostFields, ConstantFacts DEF RemoteInv, Typed
<1>1. LinkFits(l, sink.steps)
  <2>1. LinkFits(link[k], sink.steps)
    BY <1>b DEF Fits
  <2> QED BY <2>1, <1>a DEF LinkFits, Fitting
<1>2. ASSUME claim
      PROVE  LinkHolds(l, sink.steps, HeldOf(host.log)) /\ AllComplete(host.steps, sink.steps, HeldOf(host.log))
  <2>1. LinkHolds(link[k], sink.steps, HeldOf(host.log))
    BY <1>2, <1>b DEF Holds
  <2>2. \A i \in 1 .. l.steps : Complete(i, sink.steps, HeldOf(host.log))
    BY <2>1, HoldsParts
  <2>3. LinkHolds(l, sink.steps, HeldOf(host.log))
    BY <2>2, <1>2, HoldsParts
  <2> QED BY <2>3, <1>2, <1>b DEF Holds
<1>3. /\ LogFits(host.log, sink.steps) /\ host.steps <= Len(sink.steps)
      /\ \A i \in 1 .. Len(sink.steps) : HeldOf(host.log)[i] <= HeldOf(host.log)[i]
  BY <1>a, <1>b DEF Fits
<1>4. /\ host'.stored = host.stored /\ host'.log = host.log /\ host'.steps = host.steps
  OBVIOUS
<1>5. PICK h : h = host'.log
  OBVIOUS
<1>6. /\ h = host.log /\ host'.log \in [Steps -> Seq(Nat)] /\ LogFits(host'.log, sink.steps)
      /\ \A i \in 1 .. Len(sink.steps) : HeldOf(host.log)[i] <= HeldOf(host'.log)[i]
      /\ host'.steps \in Nat /\ host'.steps <= Len(sink.steps)
      /\ claim => /\ LinkHolds(l, sink.steps, HeldOf(host'.log))
                  /\ AllComplete(host'.steps, sink.steps, HeldOf(host'.log))
  BY <1>2, <1>3, <1>4, <1>5, <1>a
<1>7. claim => (l.alive /\ k = sink.conn => Sends(l, sink.steps, HeldOf(host'.log)))
  OBVIOUS
<1> QED BY <1>1, <1>4, <1>6, <1>7, SessionKeeps

(* A reply goes down, unless the runner has closed its end. *)
LEMMA SayFacts ==
  ASSUME NEW ls \in Seq(Link), NEW k \in 1 .. Len(ls), NEW r \in Replies
  PROVE  LET n == Say(k, ls, r) IN
           /\ n \in Seq(Link) /\ Len(n) = Len(ls) /\ n[k] \in Link
           /\ n[k].up = ls[k].up /\ n[k].alive = ls[k].alive /\ n[k].steps = ls[k].steps
           /\ n[k].open = ls[k].open
           /\ n[k].down = ls[k].down \/ n[k].down = Append(ls[k].down, r)
           /\ \A j \in 1 .. Len(ls) : j # k => n[j] = ls[j]
<1>1. PICK l : l = ls[k]
  OBVIOUS
<1>2. l \in Link /\ l.down \in Seq(Replies)
  BY <1>1, LinkFields
<1>3. PICK d : d = IF l.open THEN Append(l.down, r) ELSE l.down
  OBVIOUS
<1>4. d \in Seq(Replies) /\ (d = l.down \/ d = Append(l.down, r))
  BY <1>2, <1>3, AppendProperties
<1>5. PICK new : new = [l EXCEPT !.down = d]
  OBVIOUS
<1>6. /\ new \in Link /\ new.up = l.up /\ new.alive = l.alive /\ new.steps = l.steps
      /\ new.down = d /\ new.open = l.open
  BY <1>2, <1>4, <1>5 DEF Link
<1>7. Say(k, ls, r) = [ls EXCEPT ![k] = new]
  BY <1>1, <1>3, <1>5 DEF Say
<1>8. PICK n : n = Say(k, ls, r)
  OBVIOUS
<1>9. /\ n \in Seq(Link) /\ Len(n) = Len(ls) /\ n[k] = new
      /\ \A j \in 1 .. Len(ls) : j # k => n[j] = ls[j]
  BY <1>6, <1>7, <1>8, LinkReplaced
<1> QED BY <1>1, <1>4, <1>6, <1>8, <1>9

(* The first frame of a stream is taken. *)
LEMMA TakenFacts ==
  ASSUME LinkTyped, NEW k \in 1 .. Len(link), link[k].up # <<>>
  PROVE  /\ Taken(k) \in Seq(Link) /\ Len(Taken(k)) = Len(link) /\ Taken(k)[k] \in Link
         /\ Taken(k)[k].up = Tail(link[k].up) /\ Taken(k)[k].down = link[k].down
         /\ Taken(k)[k].alive = link[k].alive /\ Taken(k)[k].steps = link[k].steps
         /\ Taken(k)[k].open = link[k].open
         /\ \A j \in 1 .. Len(link) : j # k => Taken(k)[j] = link[j]
<1>1. PICK l : l = link[k]
  OBVIOUS
<1>2. l \in Link /\ l.up \in Seq(Frames) /\ Tail(l.up) \in Seq(Frames) /\ link \in Seq(Link)
  BY <1>1, LinksTyped, HeadTailProperties
<1>3. PICK new : new = [l EXCEPT !.up = Tail(@)]
  OBVIOUS
<1>4. /\ new \in Link /\ new.up = Tail(l.up) /\ new.alive = l.alive /\ new.steps = l.steps
      /\ new.down = l.down /\ new.open = l.open
  BY <1>2, <1>3 DEF Link
<1>5. PICK n : n = Taken(k)
  OBVIOUS
<1>6. n = [link EXCEPT ![k] = new]
  BY <1>1, <1>3, <1>5 DEF Taken
<1>7. /\ n \in Seq(Link) /\ Len(n) = Len(link) /\ n[k] = new
      /\ \A j \in 1 .. Len(link) : j # k => n[j] = link[j]
  BY <1>2, <1>4, <1>6, LinkReplaced
<1> QED BY <1>1, <1>4, <1>5, <1>7

(* A session ends: its stream is closed and empty. *)
Dead(ls, k) == [ls EXCEPT ![k].alive = FALSE, ![k].up = <<>>]

LEMMA DeadFacts ==
  ASSUME NEW ls \in Seq(Link), NEW k \in 1 .. Len(ls)
  PROVE  LET n == Dead(ls, k) IN
           /\ n \in Seq(Link) /\ Len(n) = Len(ls) /\ n[k] \in Link
           /\ n[k].up = <<>> /\ n[k].alive = FALSE /\ n[k].steps = ls[k].steps
           /\ n[k].down = ls[k].down /\ n[k].open = ls[k].open
           /\ \A j \in 1 .. Len(ls) : j # k => n[j] = ls[j]
<1>1. PICK l : l = ls[k]
  OBVIOUS
<1>2. l \in Link /\ <<>> \in Seq(Frames)
  BY <1>1
<1>3. PICK new : new = [l EXCEPT !.alive = FALSE, !.up = <<>>]
  OBVIOUS
<1>4. /\ new \in Link /\ new.up = <<>> /\ new.alive = FALSE /\ new.steps = l.steps
      /\ new.down = l.down /\ new.open = l.open
  BY <1>2, <1>3 DEF Link
<1>5. PICK n : n = Dead(ls, k)
  OBVIOUS
<1>6. n = [ls EXCEPT ![k] = new]
  BY <1>1, <1>3, <1>5 DEF Dead
<1>7. /\ n \in Seq(Link) /\ Len(n) = Len(ls) /\ n[k] = new
      /\ \A j \in 1 .. Len(ls) : j # k => n[j] = ls[j]
  BY <1>4, <1>6, LinkReplaced
<1> QED BY <1>1, <1>4, <1>5, <1>7

LEMMA CheckKeeps ==
  ASSUME RemoteInv, NEW k \in DOMAIN link, check(k)
  PROVE  /\ Fits' /\ Holds'
         /\ link' \in Seq(Link) /\ Len(link') = Len(link)
         /\ \A j \in 1 .. Len(link) : link[j].open => link'[j].open
<1>b. LinkTyped /\ Fits /\ Holds
  BY DEF RemoteInv, Typed
<1>a. k \in 1 .. Len(link) /\ link \in Seq(Link) /\ link[k] \in Link /\ link[k].down \in Seq(Replies)
  BY <1>b, LinksTyped
<1>0. sink' = sink /\ host' = host /\ claim' = claim
  BY DEF check
<1>1. CASE link[k].open
  <2>1. PICK r : r = Reply("lease-lost", 0, 0)
    OBVIOUS
  <2>2. r \in Replies /\ r.kind = "lease-lost"
    BY <2>1 DEF Reply, Replies
  <2>3. PICK n : n = Say(k, link, r)
    OBVIOUS
  <2>4. /\ n \in Seq(Link) /\ Len(n) = Len(link) /\ n[k].steps = link[k].steps
        /\ n[k].down = link[k].down \/ n[k].down = Append(link[k].down, r)
        /\ n[k].open = link[k].open
        /\ \A j \in 1 .. Len(link) : j # k => n[j] = link[j]
    BY <2>2, <2>3, <1>a, SayFacts
  <2>5. link' = [n EXCEPT ![k].alive = FALSE, ![k].up = <<>>]
    BY <1>1, <2>1, <2>3 DEF check
  <2>6. /\ link' \in Seq(Link) /\ Len(link') = Len(link) /\ link'[k] \in Link
        /\ link'[k].up = <<>> /\ link'[k].alive = FALSE /\ link'[k].steps = link[k].steps
        /\ link'[k].down = n[k].down /\ link'[k].open = link[k].open
        /\ \A j \in 1 .. Len(link) : j # k => link'[j] = link[j]
    <3>1. k \in 1 .. Len(n)
      BY <2>4, <1>a
    <3>2. PICK m : m = Dead(n, k)
      OBVIOUS
    <3>3. /\ m \in Seq(Link) /\ Len(m) = Len(n) /\ m[k] \in Link
          /\ m[k].up = <<>> /\ m[k].alive = FALSE /\ m[k].steps = n[k].steps
          /\ m[k].down = n[k].down /\ m[k].open = n[k].open
          /\ \A j \in 1 .. Len(n) : j # k => m[j] = n[j]
      BY <2>4, <3>1, <3>2, DeadFacts
    <3>4. link' = m
      BY <2>5, <3>2 DEF Dead
    <3> QED BY <2>4, <3>3, <3>4
  <2>7. ASSUME claim
        PROVE  Truthful(link'[k].down, sink.steps, HeldOf(host.log))
    <3>1. Truthful(link[k].down, sink.steps, HeldOf(host.log))
      BY <2>7, <1>a, <1>b, HoldsParts DEF Holds
    <3>2. Truthful(Append(link[k].down, r), sink.steps, HeldOf(host.log))
      BY <3>1, <2>2, <1>a, TruthfulAppend
    <3> QED BY <3>1, <3>2, <2>4, <2>6
  <2>8. Fits' /\ Holds'
    BY <1>0, <1>a, <2>6, <2>7, SessionEnds
  <2> QED BY <2>6, <2>8, <1>1, <1>a
<1>2. CASE ~link[k].open
  <2>1. link' = [link EXCEPT ![k] = Gone]
    BY <1>2 DEF check
  <2>2. /\ link' \in Seq(Link) /\ Len(link') = Len(link) /\ link'[k] = Gone
        /\ \A j \in 1 .. Len(link) : j # k => link'[j] = link[j]
    BY <2>1, <1>a, GoneIsLink, LinkReplaced
  <2>3. Truthful(Gone.down, sink.steps, HeldOf(host.log))
    BY GoneIsLink DEF Truthful
  <2>4. Fits' /\ Holds'
    BY <1>0, <1>a, <2>2, <2>3, GoneIsLink, SessionEnds
  <2> QED BY <2>2, <2>4, <1>2, <1>a
<1> QED BY <1>1, <1>2

(* A frame that is not of a log. *)
LEMMA StreamFrameKeeps ==
  ASSUME RemoteInv, NEW k \in 1 .. Len(link), link[k].alive, link[k].up # <<>>,
         NEW f, f = Head(link[k].up), f.kind # "log", StreamFrame(k, f),
         sink' = sink, claim' = claim
  PROVE  /\ Fits' /\ Holds'
         /\ link' \in Seq(Link) /\ Len(link') = Len(link)
         /\ \A j \in 1 .. Len(link) : link[j].open => link'[j].open
         /\ host' \in HostSet
<1>0. PICK held : held = HeldOf(host.log)
  OBVIOUS
<1>b. LinkTyped /\ Fits /\ Holds /\ host \in HostSet
  BY DEF RemoteInv, Typed, HostTyped
<1>a. /\ sink.steps \in Seq(StepLog) /\ Len(sink.steps) \in Nat /\ Len(sink.steps) <= Len(Sizes)
      /\ 1 .. Len(sink.steps) \subseteq Steps /\ Len(Sizes) \in Nat
      /\ host.log \in [Steps -> Seq(Nat)] /\ host.steps \in Nat
      /\ \A i \in 1 .. Len(sink.steps) : /\ held[i] \in Nat /\ sink.steps[i].size \in Nat
                                         /\ held[i] <= sink.steps[i].size
      /\ LogFits(host.log, sink.steps)
  <2>1. /\ sink.steps \in Seq(StepLog) /\ Len(sink.steps) \in Nat /\ Len(sink.steps) <= Len(Sizes)
        /\ 1 .. Len(sink.steps) \subseteq Steps /\ Len(Sizes) \in Nat
        /\ host.log \in [Steps -> Seq(Nat)] /\ host.steps \in Nat
        /\ LogFits(host.log, sink.steps)
    BY SinkFields, HostFields, ConstantFacts DEF RemoteInv, Typed, Fits
  <2>2. \A i \in 1 .. Len(sink.steps) : held[i] \in Nat /\ held[i] <= sink.steps[i].size
    BY <2>1, <1>0, LogBound
  <2> QED BY <2>1, <2>2, StepFields
<1>1. PICK l : l = link[k]
  OBVIOUS
<1>2. /\ l \in Link /\ l.up \in Seq(Frames) /\ l.up # <<>> /\ l.steps \in Nat /\ link \in Seq(Link)
      /\ l.down \in Seq(Replies) /\ l.status \in Statuses
      /\ LinkFits(l, sink.steps) /\ (claim => LinkHolds(l, sink.steps, held))
  BY <1>0, <1>1, <1>b, LinksTyped DEF Fits, Holds
<1>3. /\ f = l.up[1] /\ 1 \in 1 .. Len(l.up) /\ f \in Frames /\ f.step \in Nat /\ Tail(l.up) \in Seq(Frames)
      /\ FrameFits(f, sink.steps)
  <2>1. 1 \in 1 .. Len(l.up) /\ f = l.up[1]
    BY <1>1, <1>2, EmptySeq, LenProperties, HeadTailProperties
  <2> QED BY <2>1, <1>2, FrameFields, HeadTailProperties DEF LinkFits, Fitting
<1>4. PICK copy : copy = CASE f.kind = "started" -> [l EXCEPT !.status = "Running"]
                           [] f.kind = "step-start" /\ f.step = l.steps + 1
                                -> [l EXCEPT !.status = "Running"]
                           [] f.kind = "step-end" /\ f.step = l.steps + 1
                                -> [l EXCEPT !.steps = @ + 1]
                           [] OTHER -> l
  OBVIOUS
<1>5. /\ copy \in Link /\ copy.up = l.up /\ copy.down = l.down /\ copy.open = l.open
      /\ copy.alive = l.alive
      /\ \/ copy.steps = l.steps
         \/ /\ f.kind = "step-end" /\ f.step = l.steps + 1
            /\ copy.steps = l.steps + 1
  <2>1. CASE f.kind = "step-end" /\ f.step = l.steps + 1
    <3>1. copy = [l EXCEPT !.steps = l.steps + 1]
      BY <2>1, <1>4
    <3>2. l.steps + 1 \in Nat
      BY <1>2
    <3> QED BY <3>1, <3>2, <2>1, <1>2 DEF Link
  <2>2. CASE ~(f.kind = "step-end" /\ f.step = l.steps + 1)
    <3>1. copy = l \/ copy = [l EXCEPT !.status = "Running"]
      BY <2>2, <1>4
    <3>2. "Running" \in Statuses
      BY DEF Statuses
    <3> QED BY <3>1, <3>2, <1>2 DEF Link
  <2> QED BY <2>1, <2>2
<1>6. PICK new : new = [copy EXCEPT !.up = Tail(@)]
  OBVIOUS
<1>7. /\ new \in Link /\ new.up = Tail(l.up) /\ new.down = l.down /\ new.open = l.open
      /\ new.alive = l.alive /\ new.steps = copy.steps
  BY <1>3, <1>5, <1>6 DEF Link
<1>8. link' = [link EXCEPT ![k] = new]
  BY <1>1, <1>4, <1>6 DEF StreamFrame
<1>9. /\ link' \in Seq(Link) /\ Len(link') = Len(link) /\ link'[k] = new
      /\ \A j \in 1 .. Len(link) : j # k => link'[j] = link[j]
  BY <1>2, <1>7, <1>8, LinkReplaced
<1>10. host' = host \/ host' = [host EXCEPT !.steps = copy.steps, !.status = copy.status]
  BY <1>1, <1>4 DEF StreamFrame, Stored
<1>11. /\ copy.steps <= Len(sink.steps) /\ copy.steps \in Nat /\ copy.status \in Statuses
  <2>1. l.steps <= Len(sink.steps)
    BY <1>2 DEF LinkFits
  <2>2. f.kind = "step-end" => f.step \in 1 .. Len(sink.steps)
    BY <1>3 DEF FrameFits
  <2> QED BY <2>1, <2>2, <1>2, <1>5, LinkFields
<1>12. /\ host' \in HostSet /\ host'.log = host.log /\ host'.stored = host.stored
       /\ host'.steps = host.steps \/ host'.steps = copy.steps
  <2>1. CASE host' = host
    BY <2>1, <1>b
  <2>2. CASE host' = [host EXCEPT !.steps = copy.steps, !.status = copy.status]
    <3>1. copy.steps \in 0 .. Len(Sizes)
      BY <1>11, <1>a
    <3> QED BY <2>2, <3>1, <1>11, <1>b DEF HostSet
  <2> QED BY <2>1, <2>2, <1>10
<1>13. Fitting(Tail(l.up), sink.steps)
       /\ (Feeds(l.up, held, sink.steps) => Feeds(Tail(l.up), held, sink.steps))
       /\ (Feeds(l.up, held, sink.steps) =>
             \A i \in 1 .. Len(sink.steps) : \A u \in Nat :
               Reaches(l.up, Len(l.up) + 1, i, held[i], u)
                 => Reaches(Tail(l.up), Len(Tail(l.up)) + 1, i, held[i], u))
  <2>1. Fitting(l.up, sink.steps)
    BY <1>2 DEF LinkFits
  <2>2. Fitting(Tail(l.up), sink.steps)
    <3>1. \A m \in 1 .. Len(Tail(l.up)) : m + 1 \in 1 .. Len(l.up) /\ Tail(l.up)[m] = l.up[m + 1]
      BY <1>2, HeadTailProperties, LenProperties
    <3> QED BY <3>1, <2>1 DEF Fitting
  <2>3. \A i \in 1 .. Len(sink.steps) : held[i] \in Nat /\ held[i] \in Nat /\ held[i] <= held[i]
    BY <1>a
  <2>4. l.up[1].kind = "log" => l.up[1].at + l.up[1].len <= held[l.up[1].step]
    BY <1>3
  <2>5. ASSUME Feeds(l.up, held, sink.steps)
        PROVE  /\ Feeds(Tail(l.up), held, sink.steps)
               /\ \A i \in 1 .. Len(sink.steps) : \A u \in Nat :
                    Reaches(l.up, Len(l.up) + 1, i, held[i], u)
                      => Reaches(Tail(l.up), Len(Tail(l.up)) + 1, i, held[i], u)
    BY <2>1, <2>3, <2>4, <2>5, <1>2, <1>a, FeedsTail
  <2> QED BY <2>2, <2>5
<1>14. ASSUME claim, NEW i \in 1 .. copy.steps
       PROVE  Complete(i, sink.steps, held)
  <2>1. CASE i \in 1 .. l.steps
    BY <2>1, <1>2, <1>14 DEF LinkHolds
  <2>2. CASE i \notin 1 .. l.steps
    <3>1. f.kind = "step-end" /\ f.step = l.steps + 1 /\ i = f.step
      <4>1. copy.steps # l.steps
        BY <2>2
      <4>2. f.kind = "step-end" /\ f.step = l.steps + 1 /\ copy.steps = l.steps + 1
        BY <4>1, <1>5
      <4>3. l.steps \in Nat /\ i \in 1 .. l.steps + 1
        BY <4>2, <1>2
      <4>4. i = l.steps + 1
        BY <4>3, <2>2
      <4> QED BY <4>2, <4>4
    <3>2. i \in 1 .. Len(sink.steps) /\ sink.steps[i].ended
      BY <3>1, <1>3 DEF FrameFits
    <3>3. Feeds(l.up, held, sink.steps)
      BY <1>1, <1>2, <1>14 DEF LinkHolds
    <3>4. Reaches(l.up, 1, i, held[i], sink.steps[i].size)
      BY <3>1, <3>3, <1>3 DEF Feeds
    <3>5. sink.steps[i].size <= held[i]
      BY <3>4 DEF Reaches
    <3> QED BY <3>2, <3>5, <1>a DEF Complete
  <2> QED BY <2>1, <2>2
<1>15. LinkFits(new, sink.steps)
  BY <1>7, <1>11, <1>13 DEF LinkFits
<1>16. ASSUME claim
       PROVE  /\ LinkHolds(new, sink.steps, held)
              /\ AllComplete(host'.steps, sink.steps, held)
              /\ new.alive /\ k = sink.conn => Sends(new, sink.steps, held)
  <2>1. LinkHolds(l, sink.steps, held) /\ AllComplete(host.steps, sink.steps, held)
    BY <1>16, <1>2, <1>b, <1>0 DEF Holds
  <2>2. LinkHolds(new, sink.steps, held)
    BY <2>1, <1>7, <1>13, <1>14, <1>16, HoldsParts
  <2>3. AllComplete(host'.steps, sink.steps, held)
    BY <2>1, <1>12, <1>14, <1>16 DEF AllComplete
  <2>4. ASSUME new.alive, k = sink.conn
        PROVE  Sends(new, sink.steps, held)
    <3>1. Sends(l, sink.steps, held)
      BY <2>4, <1>1, <1>7, <1>16, <1>b, <1>0 DEF Holds
    <3>2. Feeds(l.up, held, sink.steps)
      BY <2>1, <2>4, <1>7, HoldsParts
    <3>3. \A i \in 1 .. Len(sink.steps) : sink.steps[i].sent \in Nat
      BY <1>a, StepFields
    <3> QED BY <3>1, <3>2, <3>3, <1>7, <1>13 DEF Sends
  <2> QED BY <2>2, <2>3, <2>4
<1>17. /\ host'.log \in [Steps -> Seq(Nat)] /\ LogFits(host'.log, sink.steps)
       /\ \A i \in 1 .. Len(sink.steps) : HeldOf(host.log)[i] <= HeldOf(host'.log)[i]
       /\ host'.steps \in Nat /\ host'.steps <= Len(sink.steps)
       /\ host'.stored = host.stored /\ HeldOf(host'.log) = held
  <2>1. host.steps <= Len(sink.steps)
    BY <1>b DEF Fits
  <2>2. \A i \in 1 .. Len(sink.steps) : held[i] <= held[i]
    BY <1>a
  <2> QED BY <2>1, <2>2, <1>11, <1>12, <1>a, <1>0
<1>18. Fits' /\ Holds'
  <2>1. claim => /\ LinkHolds(new, sink.steps, HeldOf(host'.log))
                 /\ AllComplete(host'.steps, sink.steps, HeldOf(host'.log))
                 /\ new.alive /\ k = sink.conn => Sends(new, sink.steps, HeldOf(host'.log))
    BY <1>16, <1>17
  <2> QED BY <2>1, <1>7, <1>9, <1>15, <1>17, SessionKeeps
<1>19. \A j \in 1 .. Len(link) : link[j].open => link'[j].open
  BY <1>1, <1>7, <1>9
<1> QED BY <1>9, <1>12, <1>18, <1>19

LEMMA UnitsFacts ==
  ASSUME NEW m \in Nat, NEW n \in Nat
  PROVE  /\ Units(m, n) \in Seq(Nat) /\ Len(Units(m, n)) = n
         /\ \A j \in 1 .. n : Units(m, n)[j] = m + j
  BY DEF Units

(* The held log and a frame that starts in it or where it ends.            *)
LEMMA UnitsJoin ==
  ASSUME NEW h \in Nat, NEW e \in Nat, h <= e
  PROVE  /\ Units(0, h) \o Units(h, e - h) = Units(0, e)
         /\ Units(0, e) \in Seq(Nat) /\ Len(Units(0, e)) = e
<1>1. e - h \in Nat
  OBVIOUS
<1>3. PICK a : a = Units(0, h)
  OBVIOUS
<1>4. PICK b : b = Units(h, e - h)
  OBVIOUS
<1>5. PICK c : c = Units(0, e)
  OBVIOUS
<1>6. /\ a \in Seq(Nat) /\ Len(a) = h /\ \A j \in 1 .. h : a[j] = 0 + j
      /\ b \in Seq(Nat) /\ Len(b) = e - h /\ \A j \in 1 .. e - h : b[j] = h + j
      /\ c \in Seq(Nat) /\ Len(c) = e /\ \A j \in 1 .. e : c[j] = 0 + j
  BY <1>1, <1>3, <1>4, <1>5, UnitsFacts
<1>7. /\ a \o b \in Seq(Nat) /\ Len(a \o b) = h + (e - h)
      /\ \A j \in 1 .. h : (a \o b)[j] = a[j]
      /\ \A j \in 1 .. e - h : (a \o b)[h + j] = b[j]
  <2>1. a \in Seq(Nat) /\ b \in Seq(Nat)
    BY <1>6
  <2>2. /\ a \o b \in Seq(Nat) /\ Len(a \o b) = Len(a) + Len(b)
        /\ \A j \in 1 .. Len(a) : (a \o b)[j] = a[j]
        /\ \A j \in 1 .. Len(b) : (a \o b)[Len(a) + j] = b[j]
    BY <2>1, ConcatProperties
  <2>3. Len(a) = h /\ Len(b) = e - h
    BY <1>6
  <2> QED BY <2>2, <2>3
<1>8. ASSUME NEW j \in 1 .. e
      PROVE  (a \o b)[j] = c[j]
  <2>1. CASE j <= h
    BY <2>1, <1>6, <1>7
  <2>2. CASE j > h
    <3>1. j - h \in 1 .. e - h /\ h + (j - h) = j
      BY <2>2
    <3>2. (a \o b)[h + (j - h)] = b[j - h] /\ b[j - h] = h + (j - h)
      BY <3>1, <1>6, <1>7
    <3>3. h + (j - h) = j /\ 0 + j = j
      OBVIOUS
    <3> QED BY <3>1, <3>2, <3>3, <1>6
  <2>3. j <= h \/ j > h
    OBVIOUS
  <2> QED BY <2>1, <2>2, <2>3, Zenon
<1>9. a \o b = c
  <2>1. Len(a \o b) = Len(c)
    BY <1>6, <1>7
  <2> QED BY <2>1, <1>6, <1>7, <1>8, SeqEqual
<1> QED BY <1>3, <1>4, <1>5, <1>6, <1>9

(* A frame of a log. *)
LEMMA StreamLogKeeps ==
  ASSUME RemoteInv, NEW k \in 1 .. Len(link), link[k].alive, link[k].up # <<>>,
         NEW f, f = Head(link[k].up), f.kind = "log", StreamLog(k, f),
         sink' = sink, claim' = claim
  PROVE  /\ Fits' /\ Holds'
         /\ link' \in Seq(Link) /\ Len(link') = Len(link)
         /\ \A j \in 1 .. Len(link) : link[j].open => link'[j].open
         /\ host' \in HostSet
<1>0. PICK held : held = HeldOf(host.log)
  OBVIOUS
<1>b. LinkTyped /\ Fits /\ Holds /\ host \in HostSet
  BY DEF RemoteInv, Typed, HostTyped
<1>a. /\ sink.steps \in Seq(StepLog) /\ Len(sink.steps) \in Nat
      /\ 1 .. Len(sink.steps) \subseteq Steps
      /\ host.log \in [Steps -> Seq(Nat)] /\ host.steps \in Nat
      /\ LogFits(host.log, sink.steps) /\ host.steps <= Len(sink.steps)
      /\ \A i \in Steps : Len(host.log[i]) \in Nat /\ held[i] = Len(host.log[i])
  BY <1>0, SinkFields, HostFields, ConstantFacts DEF RemoteInv, Typed, Fits
<1>c. \A i \in 1 .. Len(sink.steps) : /\ held[i] \in Nat /\ sink.steps[i].size \in Nat
                                      /\ held[i] <= sink.steps[i].size
  BY <1>a, <1>0, LogBound, StepFields
<1>1. PICK l : l = link[k]
  OBVIOUS
<1>2. /\ l \in Link /\ l.up \in Seq(Frames) /\ l.up # <<>> /\ l.steps \in Nat /\ link \in Seq(Link)
      /\ l.down \in Seq(Replies)
      /\ LinkFits(l, sink.steps) /\ (claim => LinkHolds(l, sink.steps, held))
  BY <1>0, <1>1, <1>b, LinksTyped DEF Fits, Holds
<1>3. PICK i : i = f.step
  OBVIOUS
<1>4. PICK e : e = f.at + f.len
  OBVIOUS
<1>5. /\ f = l.up[1] /\ 1 \in 1 .. Len(l.up) /\ i \in 1 .. Len(sink.steps) /\ i \in Steps
      /\ f.at \in Nat /\ f.len \in Nat /\ e \in Nat /\ e <= sink.steps[i].size
      /\ claim => f.at <= held[i]
  <2>1. 1 \in 1 .. Len(l.up) /\ f = l.up[1]
    BY <1>1, <1>2, EmptySeq, LenProperties, HeadTailProperties
  <2>2. FrameFits(f, sink.steps) /\ f.at \in Nat /\ f.len \in Nat
    BY <2>1, <1>2, FrameFields DEF LinkFits, Fitting
  <2>3. i \in 1 .. Len(sink.steps) /\ e <= sink.steps[i].size /\ e \in Nat
    BY <2>2, <1>3, <1>4 DEF FrameFits
  <2>4. claim => f.at <= held[i]
    <3>1. SUFFICES ASSUME claim PROVE f.at <= held[i]
      OBVIOUS
    <3>2. Feeds(l.up, held, sink.steps)
      BY <3>1, <1>1, <1>2 DEF LinkHolds
    <3>3. Reaches(l.up, 1, i, held[i], f.at)
      BY <3>2, <2>1, <1>3 DEF Feeds
    <3> QED BY <3>3 DEF Reaches
  <2> QED BY <2>1, <2>2, <2>3, <2>4, <1>a
<1>t. PICK t : t = Taken(k)
  OBVIOUS
<1>6. /\ t \in Seq(Link) /\ Len(t) = Len(link) /\ t[k] \in Link
      /\ t[k].up = Tail(l.up) /\ t[k].down = l.down
      /\ t[k].alive = l.alive /\ t[k].steps = l.steps /\ t[k].open = l.open
      /\ \A j \in 1 .. Len(link) : j # k => t[j] = link[j]
  BY <1>t, <1>1, <1>2, <1>b, TakenFacts
<1>k. k \in 1 .. Len(t)
  BY <1>6
<1>7. CASE i > link[k].steps + 1
  <2>1. PICK r : r = Reply("error", 0, 0)
    OBVIOUS
  <2>2. r \in Replies /\ r.kind = "error"
    BY <2>1 DEF Reply, Replies
  <2>3. PICK n : n = Say(k, t, r)
    OBVIOUS
  <2>4. /\ n \in Seq(Link) /\ Len(n) = Len(t) /\ n[k].steps = t[k].steps
        /\ n[k].down = t[k].down \/ n[k].down = Append(t[k].down, r)
        /\ n[k].open = t[k].open
        /\ \A j \in 1 .. Len(t) : j # k => n[j] = t[j]
    BY <2>2, <2>3, <1>6, <1>k, SayFacts, ZenonT(40)
  <2>5. link' = [n EXCEPT ![k].alive = FALSE, ![k].up = <<>>] /\ host' = host
    BY <1>7, <2>1, <2>3, <1>3, <1>t, Zenon DEF StreamLog
  <2>6. /\ link' \in Seq(Link) /\ Len(link') = Len(link) /\ link'[k] \in Link
        /\ link'[k].up = <<>> /\ link'[k].alive = FALSE /\ link'[k].steps = link[k].steps
        /\ link'[k].down = n[k].down /\ link'[k].open = link[k].open
        /\ \A j \in 1 .. Len(link) : j # k => link'[j] = link[j]
    <3>1. k \in 1 .. Len(n)
      BY <2>4, <1>k
    <3>2. PICK m : m = Dead(n, k)
      OBVIOUS
    <3>3. /\ m \in Seq(Link) /\ Len(m) = Len(n) /\ m[k] \in Link
          /\ m[k].up = <<>> /\ m[k].alive = FALSE /\ m[k].steps = n[k].steps
          /\ m[k].down = n[k].down /\ m[k].open = n[k].open
          /\ \A j \in 1 .. Len(n) : j # k => m[j] = n[j]
      BY <2>4, <3>1, <3>2, DeadFacts
    <3>4. link' = m
      BY <2>5, <3>2 DEF Dead
    <3> QED BY <2>4, <3>3, <3>4, <1>6, <1>1
  <2>7. ASSUME claim
        PROVE  Truthful(link'[k].down, sink.steps, held)
    <3>1. Truthful(l.down, sink.steps, held)
      BY <2>7, <1>2, HoldsParts
    <3>2. Truthful(Append(l.down, r), sink.steps, held)
      BY <3>1, <2>2, <1>2, TruthfulAppend
    <3> QED BY <3>1, <3>2, <2>4, <2>6, <1>6
  <2>8. Fits' /\ Holds'
    BY <2>5, <2>6, <2>7, <1>0, SessionEnds
  <2>9. \A j \in 1 .. Len(link) : link[j].open => link'[j].open
    BY <2>6
  <2> QED BY <2>5, <2>6, <2>8, <2>9, <1>b
(* Otherwise the log is held up to h afterwards, and a reply says so.      *)
<1>8. ASSUME NEW h \in Nat, held[i] <= h, h <= sink.steps[i].size,
             claim => e <= h,
             host'.log = [host.log EXCEPT ![i] = Units(0, h)],
             host'.steps = host.steps, host'.stored = host.stored, host' \in HostSet,
             NEW r \in Replies, r.step = i, r.at <= h, link' = Say(k, t, r)
      PROVE  /\ Fits' /\ Holds'
             /\ link' \in Seq(Link) /\ Len(link') = Len(link)
             /\ \A j \in 1 .. Len(link) : link[j].open => link'[j].open
  <2>1. PICK log : log = host'.log
    OBVIOUS
  <2>2. PICK held2 : held2 = HeldOf(log)
    OBVIOUS
  <2>3. Units(0, h) \in Seq(Nat) /\ Len(Units(0, h)) = h
    BY UnitsFacts
  <2>4. /\ log \in [Steps -> Seq(Nat)]
        /\ log[i] = Units(0, h) /\ \A j \in Steps : j # i => log[j] = host.log[j]
    BY <2>1, <2>3, <1>5, <1>8, <1>a
  <2>5. LogFits(log, sink.steps)
    <3>1. ASSUME NEW j \in Steps
          PROVE  /\ log[j] = Units(0, Len(log[j]))
                 /\ log[j] # <<>> => j \in 1 .. Len(sink.steps) /\ Len(log[j]) <= sink.steps[j].size
      <4>1. CASE j = i
        BY <4>1, <2>3, <2>4, <1>5, <1>8
      <4>2. CASE j # i
        BY <4>2, <2>4, <1>a DEF LogFits
      <4> QED BY <4>1, <4>2
    <3> QED BY <3>1 DEF LogFits
  <2>6. /\ held2[i] = h
        /\ \A j \in 1 .. Len(sink.steps) : j # i => held2[j] = held[j]
    BY <2>2, <2>3, <2>4, <1>5, <1>a DEF HeldOf
  <2>7. \A j \in 1 .. Len(sink.steps) :
          held[j] \in Nat /\ held2[j] \in Nat /\ held[j] <= held2[j]
    BY <2>6, <1>c, <1>8
  <2>8. /\ link' \in Seq(Link) /\ Len(link') = Len(link) /\ link'[k] \in Link
        /\ link'[k].up = Tail(l.up) /\ link'[k].alive = l.alive /\ link'[k].steps = l.steps
        /\ link'[k].open = l.open
        /\ link'[k].down = l.down \/ link'[k].down = Append(l.down, r)
        /\ \A j \in 1 .. Len(link) : j # k => link'[j] = link[j]
    <3>1. PICK n : n = Say(k, t, r)
      OBVIOUS
    <3>2. /\ n \in Seq(Link) /\ Len(n) = Len(t) /\ n[k] \in Link
          /\ n[k].up = t[k].up /\ n[k].alive = t[k].alive /\ n[k].steps = t[k].steps
          /\ n[k].open = t[k].open
          /\ n[k].down = t[k].down \/ n[k].down = Append(t[k].down, r)
          /\ \A j \in 1 .. Len(t) : j # k => n[j] = t[j]
      BY <3>1, <1>6, <1>k, SayFacts
    <3>3. link' = n
      BY <1>8, <3>1
    <3> QED BY <3>2, <3>3, <1>6
  <2>9. PICK new : new = link'[k]
    OBVIOUS
  <2>10. Fitting(l.up, sink.steps) /\ l.steps <= Len(sink.steps)
    BY <1>2 DEF LinkFits
  <2>11. LinkFits(new, sink.steps)
    <3>1. \A m \in 1 .. Len(Tail(l.up)) : m + 1 \in 1 .. Len(l.up) /\ Tail(l.up)[m] = l.up[m + 1]
      BY <1>2, HeadTailProperties, LenProperties
    <3>2. Fitting(Tail(l.up), sink.steps)
      BY <3>1, <2>10 DEF Fitting
    <3> QED BY <3>2, <2>8, <2>9, <2>10 DEF LinkFits
  <2>12. ASSUME claim
         PROVE  /\ LinkHolds(new, sink.steps, held2)
                /\ AllComplete(host.steps, sink.steps, held2)
                /\ new.alive /\ k = sink.conn => Sends(new, sink.steps, held2)
    <3>1. /\ \A j \in 1 .. l.steps : Complete(j, sink.steps, held)
          /\ Feeds(l.up, held, sink.steps) /\ Truthful(l.down, sink.steps, held)
          /\ AllComplete(host.steps, sink.steps, held)
      BY <2>12, <1>0, <1>1, <1>2, <1>b, HoldsParts DEF Holds
    <3>2. ASSUME NEW j, Complete(j, sink.steps, held)
          PROVE  Complete(j, sink.steps, held2)
      <4>1. j \in 1 .. Len(sink.steps) /\ held[j] = sink.steps[j].size /\ sink.steps[j].ended
        BY <3>2 DEF Complete
      <4>2. held2[j] = sink.steps[j].size
        BY <4>1, <2>6, <1>8, <1>c, <1>5
      <4> QED BY <4>1, <4>2 DEF Complete
    <3>3. l.up[1].kind = "log" => l.up[1].at + l.up[1].len <= held2[l.up[1].step]
      BY <2>6, <2>12, <1>8, <1>3, <1>4, <1>5
    <3>4. /\ Feeds(Tail(l.up), held2, sink.steps)
          /\ \A j \in 1 .. Len(sink.steps) : \A u \in Nat :
               Reaches(l.up, Len(l.up) + 1, j, held[j], u)
                 => Reaches(Tail(l.up), Len(Tail(l.up)) + 1, j, held2[j], u)
      BY <3>1, <3>3, <2>7, <2>10, <1>2, <1>a, FeedsTail
    <3>5. Truthful(l.down, sink.steps, held2)
      <4>1. ASSUME NEW n \in 1 .. Len(l.down), l.down[n].kind \in {"ack", "held"}
            PROVE  l.down[n].step \in 1 .. Len(sink.steps) /\ l.down[n].at <= held2[l.down[n].step]
        <5>1. l.down[n] \in Replies
          BY <1>2
        <5>2. l.down[n].at \in Nat
          BY <5>1 DEF Replies
        <5>3. PICK j : j = l.down[n].step
          OBVIOUS
        <5>4. j \in 1 .. Len(sink.steps) /\ l.down[n].at <= held[j]
          BY <5>3, <4>1, <3>1 DEF Truthful
        <5>5. l.down[n].at <= held2[j]
          BY <5>2, <5>4, <2>7
        <5> QED BY <5>3, <5>4, <5>5
      <4> QED BY <4>1 DEF Truthful
    <3>6. Truthful(Append(l.down, r), sink.steps, held2)
      <4>1. r.step \in 1 .. Len(sink.steps) /\ r.at <= held2[r.step]
        BY <1>8, <1>5, <2>6
      <4> QED BY <4>1, <3>5, <1>2, TruthfulAppend
    <3>7. Truthful(new.down, sink.steps, held2)
      BY <3>5, <3>6, <2>8, <2>9
    <3>8. LinkHolds(new, sink.steps, held2)
      BY <3>1, <3>2, <3>4, <3>7, <2>8, <2>9, HoldsParts
    <3>9. AllComplete(host.steps, sink.steps, held2)
      BY <3>1, <3>2 DEF AllComplete
    <3>10. ASSUME new.alive, k = sink.conn
           PROVE  Sends(new, sink.steps, held2)
      <4>1. Sends(l, sink.steps, held)
        <5>1. sink.conn > 0 /\ link[sink.conn].alive
          BY <3>10
        <5> QED BY <5>1, <3>10, <2>12, <1>0, <1>1, <1>b DEF Holds
      <4>2. \A j \in 1 .. Len(sink.steps) : sink.steps[j].sent \in Nat
        BY <1>a, StepFields
      <4> QED BY <4>1, <4>2, <3>4, <2>8, <2>9 DEF Sends
    <3> QED BY <3>8, <3>9, <3>10
  <2>13. Fits' /\ Holds'
    <3>1. /\ new \in Link /\ Len(link') = Len(link) /\ link'[k] = new
          /\ \A j \in 1 .. Len(link) : j # k => link'[j] = link[j]
      BY <2>8, <2>9
    <3>2. /\ host'.log \in [Steps -> Seq(Nat)] /\ LogFits(host'.log, sink.steps)
          /\ \A j \in 1 .. Len(sink.steps) : HeldOf(host.log)[j] <= HeldOf(host'.log)[j]
          /\ host'.steps \in Nat /\ host'.steps <= Len(sink.steps) /\ host'.stored = host.stored
      BY <2>1, <2>2, <2>4, <2>5, <2>7, <1>0, <1>8, <1>a
    <3>3. claim => /\ LinkHolds(new, sink.steps, HeldOf(host'.log))
                   /\ AllComplete(host'.steps, sink.steps, HeldOf(host'.log))
                   /\ new.alive /\ k = sink.conn => Sends(new, sink.steps, HeldOf(host'.log))
      BY <2>12, <2>1, <2>2, <1>8
    <3> QED BY <3>1, <3>2, <3>3, <2>11, SessionKeeps
  <2>14. \A j \in 1 .. Len(link) : link[j].open => link'[j].open
    BY <2>8, <1>1
  <2> QED BY <2>8, <2>13, <2>14
<1>9. CASE ~(i > link[k].steps + 1) /\ f.at > held[i]
  <2>1. PICK r : r = Reply("held", i, held[i])
    OBVIOUS
  <2>2. r \in Replies /\ r.step = i /\ r.at = held[i]
    <3>1. i \in Nat /\ held[i] \in Nat
      BY <1>5, <1>c
    <3> QED BY <2>1, <3>1 DEF Reply, Replies
  <2>3. link' = Say(k, t, r) /\ host' = host
    BY <1>9, <2>1, <1>3, <1>5, <1>a, <1>t, Zenon DEF StreamLog
  <2>4. held[i] \in Nat /\ held[i] <= held[i] /\ held[i] <= sink.steps[i].size /\ r.at <= held[i]
    BY <2>2, <1>5, <1>c
  <2>5. ~claim
    BY <1>9, <1>5, <1>c
  <2>6. host'.log = [host.log EXCEPT ![i] = Units(0, held[i])]
    <3>1. host.log[i] = Units(0, held[i])
      BY <1>5, <1>a DEF LogFits
    <3> QED BY <3>1, <2>3, <1>a
  <2>7. host'.steps = host.steps /\ host'.stored = host.stored /\ host' \in HostSet
    BY <2>3, <1>b
  <2> QED BY <1>8, <2>2, <2>3, <2>4, <2>5, <2>6, <2>7
<1>10. CASE ~(i > link[k].steps + 1) /\ ~(f.at > held[i])
  <2>1. PICK h : h = Larger(held[i], e)
    OBVIOUS
  <2>2. /\ h \in Nat /\ held[i] <= h /\ e <= h /\ h <= sink.steps[i].size /\ h <= h
        /\ held[i] \in Nat
    BY <2>1, <1>5, <1>c DEF Larger
  <2>3. PICK r : r = Reply("ack", i, h)
    OBVIOUS
  <2>4. r \in Replies /\ r.step = i /\ r.at = h
    <3>1. i \in Nat
      BY <1>5
    <3> QED BY <2>2, <2>3, <3>1 DEF Reply, Replies
  <2>5. /\ link' = Say(k, t, r)
        /\ host' = IF held[i] - f.at < f.len
                     THEN [host EXCEPT !.log[i] =
                             @ \o Units(f.at + (held[i] - f.at), f.len - (held[i] - f.at))]
                   ELSE host
    BY <1>10, <2>1, <2>3, <1>3, <1>4, <1>5, <1>a, <1>t, Zenon DEF StreamLog
  <2>6. host.log[i] = Units(0, held[i])
    BY <1>5, <1>a DEF LogFits
  <2>7. host' = [host EXCEPT !.log[i] = Units(0, h)]
    <3>1. CASE held[i] - f.at < f.len
      <4>1. f.at + (held[i] - f.at) = held[i] /\ f.len - (held[i] - f.at) = e - held[i]
            /\ h = e /\ held[i] <= e /\ e \in Nat
        <5>1. PICK x : x = held[i]
          OBVIOUS
        <5>2. PICK y : y = f.at
          OBVIOUS
        <5>3. PICK z : z = f.len
          OBVIOUS
        <5>4. x \in Nat /\ y \in Nat /\ z \in Nat /\ e = y + z /\ x - y < z /\ h = Larger(x, e)
          BY <5>1, <5>2, <5>3, <3>1, <2>1, <2>2, <1>4, <1>5
        <5>5. y + (x - y) = x /\ z - (x - y) = e - x /\ h = e /\ x <= e /\ e \in Nat
          BY <5>4 DEF Larger
        <5> QED BY <5>1, <5>2, <5>3, <5>5
      <4>2. host.log[i] \o Units(held[i], e - held[i]) = Units(0, h)
        <5>1. PICK x : x = held[i]
          OBVIOUS
        <5>2. x \in Nat /\ e \in Nat /\ x <= e
          BY <5>1, <4>1, <2>2
        <5>3. Units(0, x) \o Units(x, e - x) = Units(0, e)
          BY <5>2, UnitsJoin
        <5> QED BY <5>1, <5>3, <4>1, <2>6
      <4>3. host' = [host EXCEPT !.log[i] = host.log[i] \o Units(held[i], e - held[i])]
        BY <3>1, <4>1, <2>5, <1>b, <1>a, <1>5 DEF HostSet
      <4> QED BY <4>2, <4>3
    <3>2. CASE ~(held[i] - f.at < f.len)
      <4>1. h = held[i]
        BY <3>2, <2>1, <2>2, <1>4, <1>5, SMTT(30) DEF Larger
      <4>2. host' = host /\ host.log[i] = Units(0, h)
        BY <3>2, <4>1, <2>5, <2>6
      <4>3. host = [host EXCEPT !.log[i] = host.log[i]]
        <5>1. [host.log EXCEPT ![i] = host.log[i]] = host.log
          BY <1>a
        <5> QED BY <5>1, <1>b DEF HostSet
      <4> QED BY <4>2, <4>3
    <3> QED BY <3>1, <3>2
  <2>8. /\ host'.log = [host.log EXCEPT ![i] = Units(0, h)]
        /\ host'.steps = host.steps /\ host'.stored = host.stored /\ host' \in HostSet
    <3>1. PICK log : log = [host.log EXCEPT ![i] = Units(0, h)]
      OBVIOUS
    <3>2. log \in [Steps -> Seq(Nat)]
      <4>1. Units(0, h) \in Seq(Nat)
        BY <2>2, UnitsFacts
      <4> QED BY <3>1, <4>1, <1>a
    <3>3. host' = [host EXCEPT !.log = log]
      BY <2>7, <3>1
    <3> QED BY <3>1, <3>2, <3>3, <1>b DEF HostSet
  <2>9. r.at <= h /\ (claim => e <= h)
    BY <2>2, <2>4
  <2> QED BY <1>8, <2>2, <2>4, <2>5, <2>8, <2>9
<1> QED BY <1>7, <1>9, <1>10

LEMMA ConsumeKeeps ==
  ASSUME RemoteInv, NEW k \in DOMAIN link, consume(k)
  PROVE  /\ Fits' /\ Holds'
         /\ link' \in Seq(Link) /\ Len(link') = Len(link)
         /\ \A j \in 1 .. Len(link) : link[j].open => link'[j].open
         /\ host' \in HostSet
<1>1. k \in 1 .. Len(link)
  BY LinksTyped DEF RemoteInv, Typed
<1>2. PICK f : f = Head(link[k].up)
  OBVIOUS
<1>3. /\ link[k].alive /\ link[k].up # <<>> /\ sink' = sink /\ claim' = claim
      /\ IF f.kind = "log" THEN StreamLog(k, f) ELSE StreamFrame(k, f)
  BY <1>2 DEF consume
<1>4. CASE f.kind = "log"
  BY <1>1, <1>2, <1>3, <1>4, StreamLogKeeps
<1>5. CASE f.kind # "log"
  BY <1>1, <1>2, <1>3, <1>5, StreamFrameKeeps
<1> QED BY <1>4, <1>5

-----------------------------------------------------------------------------
(* Every step keeps the invariant. *)

(* What a step leaves alone stays typed. *)
LEMMA UploadAlone ==
  ASSUME RemoteInv, upload' = upload, puts' = puts,
         sink'.pc \in {"steps", "upload"} => sink.pc \in {"steps", "upload"}
  PROVE  UploadTyped' /\ PutsTyped' /\ UploadFits'
  BY DEF RemoteInv, Typed, UploadTyped, UploadSet, PutsTyped, Put, UploadFits

LEMMA HostAlone ==
  ASSUME RemoteInv, host' = host
  PROVE  HostTyped'
  BY DEF RemoteInv, Typed, HostTyped, HostSet, Steps, Statuses

LEMMA CountsAlone ==
  ASSUME RemoteInv, claim' = claim \/ claim' = FALSE, breaks' = breaks, reports' = reports
  PROVE  CountTyped'
  BY DEF RemoteInv, Typed, CountTyped

(* The runner's end of its stream, where the runner does not open or close *)
(* it.                                                                     *)
LEMMA LinksAlone ==
  ASSUME RemoteInv, sink'.conn = sink.conn, link' \in Seq(Link), Len(link') = Len(link),
         \A j \in 1 .. Len(link) : link[j].open => link'[j].open
  PROVE  LinkTyped'
<1>1. sink.conn \in 0 .. Len(link) /\ (sink.conn > 0 => link[sink.conn].open) /\ Len(link) \in Nat
  BY LinksTyped DEF RemoteInv, Typed, LinkTyped
<1> QED BY <1>1 DEF LinkTyped

LEMMA SinkStays ==
  ASSUME RemoteInv, sink' \in SinkSet, sink'.steps = sink.steps
  PROVE  SinkTyped'
  BY DEF RemoteInv, Typed, SinkTyped, SinkSet, Places

LEMMA StreamSteps ==
  ASSUME RemoteInv,
         \/ stepStarted \/ appendLog \/ stepFinished \/ connect \/ flush \/ handleReply
         \/ progress
  PROVE  RemoteInv'
<1>a. sink \in SinkSet
  BY DEF RemoteInv, Typed, SinkTyped
<1>1. Fits' /\ Holds' /\ SinkTyped' /\ LinkTyped'
  BY StepStartedKeeps, AppendLogKeeps, StepFinishedKeeps, ConnectKeeps, FlushKeeps,
     HandleReplyKeeps, ProgressKeeps
<1>2. upload' = upload /\ puts' = puts /\ host' = host /\ claim' = claim /\ breaks' = breaks
  BY DEF stepStarted, appendLog, stepFinished, connect, flush, handleReply, progress
<1>3. sink'.pc = sink.pc
  <2>1. CASE stepStarted
    BY <2>1, <1>a DEF stepStarted, SinkSet
  <2>2. CASE appendLog
    BY <2>2, <1>a DEF appendLog, SinkSet
  <2>3. CASE stepFinished
    BY <2>3, <1>a DEF stepFinished, SinkSet
  <2>4. CASE connect
    <3>1. CASE claim
      BY <2>4, <3>1, <1>a DEF connect, SinkSet
    <3>2. CASE ~claim
      BY <2>4, <3>2, <1>a DEF connect, SinkSet
    <3> QED BY <3>1, <3>2
  <2>5. CASE flush
    BY <2>5, <1>a DEF flush, SinkSet
  <2>6. CASE handleReply
    <3>1. PICK r : r = Head(link[sink.conn].down)
      OBVIOUS
    <3>2. link[sink.conn].down \in Seq(Replies) /\ link[sink.conn].down # <<>>
      <4>1. LinkTyped /\ sink.conn > 0 /\ link[sink.conn].down # <<>>
        BY <2>6 DEF handleReply, Connected, RemoteInv, Typed
      <4>2. sink.conn \in 1 .. Len(link)
        BY <4>1, LinksTyped
      <4> QED BY <4>1, <4>2, LinksTyped
    <3>3. r \in Replies
      BY <3>1, <3>2, HeadTailProperties
    <3>4. \/ sink' = [sink EXCEPT !.steps[r.step] = Answered(@, r)]
          \/ sink' = [sink EXCEPT !.lost = TRUE]
          \/ sink' = [sink EXCEPT !.conn = 0]
      BY <2>6, <3>1, <3>3 DEF handleReply, Replies
    <3> QED BY <3>4, <1>a DEF SinkSet
  <2>7. CASE progress
    BY <2>7 DEF progress
  <2> QED BY <2>1, <2>2, <2>3, <2>4, <2>5, <2>6, <2>7
<1>4. UploadTyped' /\ PutsTyped' /\ UploadFits'
  BY <1>2, <1>3, UploadAlone
<1>5. HostTyped'
  BY <1>2, HostAlone
<1>6. CountTyped'
  <2>1. CASE progress
    BY <2>1, ConstantFacts DEF progress, RemoteInv, Typed, CountTyped
  <2>2. CASE ~progress
    <3>1. reports' = reports
      BY <2>2 DEF stepStarted, appendLog, stepFinished, connect, flush, handleReply
    <3> QED BY <3>1, <1>2, CountsAlone
  <2> QED BY <2>1, <2>2
<1> QED BY <1>1, <1>4, <1>5, <1>6 DEF RemoteInv, Typed

(* The runner closes its stream, or it breaks. *)
LEMMA ResetKeeps ==
  ASSUME RemoteInv, sink'.steps = sink.steps, host' = Reset, ~claim',
         Len(link') = Len(link),
         \A k \in 1 .. Len(link) : LinkFits(link'[k], sink.steps)
  PROVE  Fits' /\ Holds'
<1>1. /\ \A i \in Steps : host'.log[i] = <<>>
      /\ host'.steps = 0 /\ host'.stored = {}
  BY DEF Reset
<1>2. Units(0, 0) = <<>> /\ Len(<<>>) = 0
  BY DEF Units
<1>3. LogFits(host'.log, sink.steps)
  BY <1>1, <1>2 DEF LogFits
<1>4. Len(sink.steps) \in Nat
  BY SinkFields DEF RemoteInv, Typed
<1>5. Fits'
  BY <1>1, <1>3, <1>4 DEF Fits
<1> QED BY <1>5 DEF Holds

LEMMA ClosingSteps ==
  ASSUME RemoteInv,
         \/ disconnect \/ leaseLost
         \/ \E late \in BOOLEAN : finishWaits(late)
         \/ \E arrives \in BOOLEAN : interrupted(arrives)
  PROVE  RemoteInv'
<1>a. sink \in SinkSet /\ LinkTyped /\ CountTyped
  BY DEF RemoteInv, Typed, SinkTyped
<1>1. /\ sink' \in SinkSet /\ sink'.steps = sink.steps /\ sink'.conn = 0 /\ link' = Closed
      /\ sink'.pc \in {"steps", "upload"} => sink.pc \in {"steps", "upload"}
      /\ upload' = upload /\ puts' = puts /\ reports' = reports
  <2>1. CASE disconnect
    <3>1. sink' = [sink EXCEPT !.conn = 0]
      BY <2>1 DEF disconnect
    <3>2. sink' \in SinkSet
      BY <3>1, <1>a, SinkKept, Zenon
    <3> QED BY <2>1, <3>1, <3>2, <1>a DEF disconnect, SinkSet
  <2>2. CASE leaseLost
    <3>1. sink' = [sink EXCEPT !.pc = "done", !.result = "lost", !.conn = 0]
      BY <2>2 DEF leaseLost
    <3>2. sink' \in SinkSet
      <4>1. "done" \in Places
        BY DEF Places
      <4> QED BY <3>1, <4>1, <1>a, SinkKept, Zenon
    <3> QED BY <2>2, <3>1, <3>2, <1>a DEF leaseLost, SinkSet
  <2>3. ASSUME NEW late \in BOOLEAN, finishWaits(late)
        PROVE  /\ sink' \in SinkSet /\ sink'.steps = sink.steps /\ sink'.conn = 0 /\ link' = Closed
               /\ sink'.pc \in {"steps", "upload"} => sink.pc \in {"steps", "upload"}
               /\ upload' = upload /\ puts' = puts /\ reports' = reports
    <3>1. sink' = [sink EXCEPT !.pc = "finish", !.conn = 0]
      BY <2>3 DEF finishWaits
    <3>2. sink' \in SinkSet
      <4>1. "finish" \in Places
        BY DEF Places
      <4> QED BY <3>1, <4>1, <1>a, SinkKept, Zenon
    <3> QED BY <2>3, <3>1, <3>2, <1>a DEF finishWaits, SinkSet
  <2>4. ASSUME NEW arrives \in BOOLEAN, interrupted(arrives)
        PROVE  /\ sink' \in SinkSet /\ sink'.steps = sink.steps /\ sink'.conn = 0 /\ link' = Closed
               /\ sink'.pc \in {"steps", "upload"} => sink.pc \in {"steps", "upload"}
               /\ upload' = upload /\ puts' = puts /\ reports' = reports
    <3>1. sink' = [sink EXCEPT !.pc = "done", !.result = "error", !.conn = 0]
      BY <2>4 DEF interrupted
    <3>2. sink' \in SinkSet
      <4>1. "done" \in Places
        BY DEF Places
      <4> QED BY <3>1, <4>1, <1>a, SinkKept, Zenon
    <3> QED BY <2>4, <3>1, <3>2, <1>a DEF interrupted, SinkSet
  <2> QED BY <2>1, <2>2, <2>3, <2>4
<1>2. \/ host' = host /\ claim' = claim
      \/ host' = Reset /\ claim' = FALSE
  BY DEF disconnect, leaseLost, finishWaits, interrupted
<1>3. breaks' = breaks \/ (breaks < MaxBreaks /\ breaks' = breaks + 1)
  BY DEF disconnect, leaseLost, finishWaits, interrupted
<1>4. Fits' /\ Holds'
  <2>1. CASE host' = host /\ claim' = claim
    BY <2>1, <1>1, ClosingKeeps
  <2>2. CASE host' = Reset /\ claim' = FALSE
    <3>1. /\ Len(Closed) = Len(link)
          /\ \A k \in 1 .. Len(link) : Closed[k] = link[k] \/ Closed[k] = Shut(link[k])
      BY <1>a, ClosedFacts
    <3>2. \A k \in 1 .. Len(link) : link[k] \in Link /\ LinkFits(link[k], sink.steps)
      BY <1>a, LinksTyped DEF RemoteInv, Fits
    <3>3. sink.steps \in Seq(StepLog)
      BY SinkFields DEF RemoteInv, Typed
    <3>4. \A k \in 1 .. Len(link) : LinkFits(Shut(link[k]), sink.steps)
      BY <3>2, <3>3, ShutKeeps
    <3>5. \A k \in 1 .. Len(link) : LinkFits(Closed[k], sink.steps)
      BY <3>1, <3>2, <3>4
    <3> QED BY <2>2, <3>1, <3>5, <1>1, ResetKeeps
  <2> QED BY <2>1, <2>2, <1>2
<1>5. SinkTyped'
  BY <1>1, SinkStays
<1>6. LinkTyped'
  BY <1>1, <1>a, ClosedFacts, LenProperties DEF LinkTyped
<1>7. HostTyped'
  <2>1. CASE host' = host
    BY <2>1, HostAlone
  <2>2. CASE host' = Reset
    BY <2>2, ResetIsHost DEF HostTyped, HostSet, Steps, Statuses
  <2> QED BY <2>1, <2>2, <1>2
<1>8. UploadTyped' /\ PutsTyped' /\ UploadFits'
  BY <1>1, UploadAlone
<1>9. CountTyped'
  <2>1. breaks' \in 0 .. MaxBreaks
    <3>1. breaks \in 0 .. MaxBreaks /\ MaxBreaks \in Nat
      BY <1>a, ConstantFacts DEF CountTyped
    <3> QED BY <3>1, <1>3
  <2>2. claim' \in BOOLEAN
    BY <1>2, <1>a DEF CountTyped
  <2>3. reports' \in 0 .. MaxReports
    BY <1>1, <1>a DEF CountTyped
  <2> QED BY <2>1, <2>2, <2>3 DEF CountTyped
<1> QED BY <1>4, <1>5, <1>6, <1>7, <1>8, <1>9 DEF RemoteInv, Typed

LEMMA HostSteps ==
  ASSUME RemoteInv, \/ \E k \in DOMAIN link : consume(k) \/ check(k)
                    \/ requeue
  PROVE  RemoteInv'
<1>a. sink \in SinkSet /\ LinkTyped /\ CountTyped
  BY DEF RemoteInv, Typed, SinkTyped
<1>1. /\ sink' = sink /\ upload' = upload /\ puts' = puts /\ breaks' = breaks /\ reports' = reports
      /\ claim' = claim \/ claim' = FALSE
  BY DEF consume, check, requeue
<1>2. /\ Fits' /\ Holds'
      /\ link' \in Seq(Link) /\ Len(link') = Len(link)
      /\ \A j \in 1 .. Len(link) : link[j].open => link'[j].open
      /\ host' \in HostSet
  <2>1. ASSUME NEW k \in DOMAIN link, consume(k)
        PROVE  /\ Fits' /\ Holds'
               /\ link' \in Seq(Link) /\ Len(link') = Len(link)
               /\ \A j \in 1 .. Len(link) : link[j].open => link'[j].open
               /\ host' \in HostSet
    BY <2>1, ConsumeKeeps
  <2>2. ASSUME NEW k \in DOMAIN link, check(k)
        PROVE  /\ Fits' /\ Holds'
               /\ link' \in Seq(Link) /\ Len(link') = Len(link)
               /\ \A j \in 1 .. Len(link) : link[j].open => link'[j].open
               /\ host' \in HostSet
    <3>1. host' = host /\ host \in HostSet
      BY <2>2 DEF check, RemoteInv, Typed, HostTyped
    <3> QED BY <2>2, <3>1, CheckKeeps
  <2>3. CASE requeue
    <3>1. link' = link /\ host' = Reset /\ claim' = FALSE
      BY <2>3 DEF requeue
    <3>2. \A k \in 1 .. Len(link) : LinkFits(link[k], sink.steps)
      BY DEF RemoteInv, Fits
    <3>3. Fits' /\ Holds'
      BY <3>1, <3>2, <1>1, ResetKeeps
    <3> QED BY <3>1, <3>3, <1>a, ResetIsHost, LinksTyped
  <2> QED BY <2>1, <2>2, <2>3
<1>3. SinkTyped'
  BY <1>1, <1>a, SinkStays
<1>4. LinkTyped'
  BY <1>1, <1>2, LinksAlone
<1>5. HostTyped'
  BY <1>2 DEF HostTyped, HostSet, Steps, Statuses
<1>6. UploadTyped' /\ PutsTyped' /\ UploadFits'
  BY <1>1, UploadAlone
<1>7. CountTyped'
  BY <1>1, CountsAlone
<1> QED BY <1>2, <1>3, <1>4, <1>5, <1>6, <1>7 DEF RemoteInv, Typed

-----------------------------------------------------------------------------
(* The upload, the finish and the put handlers: the logs, the streams and  *)
(* the steps stand aside.                                                  *)

LEMMA AsideTyped ==
  ASSUME RemoteInv, Aside, sink' \in SinkSet
  PROVE  SinkTyped' /\ LinkTyped'
<1>1. SinkTyped'
  BY SinkStays DEF Aside
<1>2. LinkTyped'
  <2>1. link' = link /\ sink'.conn = sink.conn /\ LinkTyped
    BY DEF Aside, RemoteInv, Typed
  <2> QED BY <2>1 DEF LinkTyped
<1> QED BY <1>1, <1>2

(* An update of one put, or one more.                                      *)
LEMMA PutsKept ==
  ASSUME PutsTyped, NEW p \in Put
  PROVE  /\ \A n \in DOMAIN puts : /\ [puts EXCEPT ![n] = p] \in Seq(Put)
                                   /\ Len([puts EXCEPT ![n] = p]) = Len(puts)
         /\ Append(puts, p) \in Seq(Put)
         /\ Len(Append(puts, p)) = Len(puts) + 1
<1>1. puts \in Seq(Put) /\ DOMAIN puts = 1 .. Len(puts) /\ Len(puts) \in Nat
  BY LenProperties DEF PutsTyped
<1>2. Append(puts, p) \in Seq(Put) /\ Len(Append(puts, p)) = Len(puts) + 1
  BY <1>1, AppendProperties
<1>3. ASSUME NEW n \in DOMAIN puts
      PROVE  /\ [puts EXCEPT ![n] = p] \in Seq(Put)
             /\ Len([puts EXCEPT ![n] = p]) = Len(puts)
  BY <1>1, ExceptSeq
<1> QED BY <1>2, <1>3

LEMMA PutFields ==
  ASSUME PutsTyped
  PROVE  /\ puts \in Seq(Put) /\ Len(puts) \in Nat /\ DOMAIN puts = 1 .. Len(puts)
         /\ puts = <<>> <=> Len(puts) = 0
         /\ \A n \in DOMAIN puts : puts[n] \in Put
         /\ Over \in Put
<1>1. puts \in Seq(Put)
  BY DEF PutsTyped
<1>2. Len(puts) \in Nat /\ DOMAIN puts = 1 .. Len(puts) /\ (puts = <<>> <=> Len(puts) = 0)
  BY <1>1, LenProperties, EmptySeq
<1>3. \A n \in DOMAIN puts : puts[n] \in Put
  BY <1>1, <1>2
<1>4. Over \in Put
  BY DEF Over, Put
<1> QED BY <1>1, <1>2, <1>3, <1>4

(* A request that came to nothing leaves the count of failures in bounds:  *)
(* past MaxFailures the upload is over.                                    *)
LEMMA GiveUpFacts ==
  ASSUME RemoteInv, sink.pc = "upload"
  PROVE  /\ GiveUp(upload) \in UploadSet /\ GiveUp(upload).req = 0
         /\ GiveUp(upload).offset = upload.offset
         /\ Noted \in SinkSet /\ Noted.pc = "flush"
         /\ Noted.steps = sink.steps /\ Noted.conn = sink.conn
         /\ [Noted EXCEPT !.lost = TRUE] \in SinkSet
         /\ [Noted EXCEPT !.lost = TRUE].pc = "flush"
         /\ [Noted EXCEPT !.lost = TRUE].steps = sink.steps
         /\ [Noted EXCEPT !.lost = TRUE].conn = sink.conn
<1>1. upload \in UploadSet /\ upload.failures <= MaxFailures /\ sink \in SinkSet
  BY DEF RemoteInv, Typed, UploadTyped, UploadFits, SinkTyped
<1>2. MaxFailures \in Nat
  BY ConstantFacts
<1>3. GiveUp(upload) \in UploadSet /\ GiveUp(upload).req = 0 /\ GiveUp(upload).offset = upload.offset
  <2>1. CASE upload.probe
    BY <2>1, <1>1, <1>2 DEF GiveUp, UploadSet
  <2>2. CASE ~upload.probe
    <3>1. upload.failures + 1 \in 0 .. MaxFailures + 1
      BY <1>1, <1>2 DEF UploadSet
    <3> QED BY <2>2, <3>1, <1>1 DEF GiveUp, UploadSet
  <2> QED BY <2>1, <2>2
<1>4. /\ Noted \in SinkSet /\ Noted.pc = "flush"
      /\ Noted.steps = sink.steps /\ Noted.conn = sink.conn
  BY <1>1 DEF Noted, SinkSet, Places
<1>5. /\ [Noted EXCEPT !.lost = TRUE] \in SinkSet
      /\ [Noted EXCEPT !.lost = TRUE].pc = "flush"
      /\ [Noted EXCEPT !.lost = TRUE].steps = sink.steps
      /\ [Noted EXCEPT !.lost = TRUE].conn = sink.conn
  BY <1>4 DEF SinkSet
<1> QED BY <1>3, <1>4, <1>5

LEMMA SendPutKeeps ==
  ASSUME RemoteInv, sendPut
  PROVE  RemoteInv'
<1>a. /\ sink' = sink /\ link' = link /\ host' = host /\ claim' = claim
      /\ breaks' = breaks /\ reports' = reports
      /\ upload' = [upload EXCEPT !.req = Len(puts) + 1]
      /\ upload.offset < Total \/ puts = <<>> \/ upload.probe
  BY DEF sendPut
<1>b. sink \in SinkSet /\ upload \in UploadSet /\ PutsTyped /\ UploadFits
  BY DEF RemoteInv, Typed, SinkTyped, UploadTyped
<1>c. Total \in Nat /\ Chunk \in Nat
  BY ConstantFacts
<1>1. PICK off : off = IF upload.probe THEN 0 ELSE upload.offset
  OBVIOUS
<1>2. PICK len : len = IF upload.probe THEN 0 ELSE Smaller(Chunk, Total - off)
  OBVIOUS
<1>3. PICK p : p = [off |-> off, len |-> len, at |-> "sent", reply |-> "none", held |-> 0]
  OBVIOUS
<1>4. puts' = Append(puts, p)
  BY <1>1, <1>2, <1>3 DEF sendPut
<1>5. p \in Put
  <2>1. off \in Nat
    BY <1>1, <1>b DEF UploadSet
  <2>2. len \in Nat
    <3>1. CASE upload.probe
      BY <3>1, <1>2
    <3>2. CASE ~upload.probe
      <4>1. off = upload.offset /\ (off < Total \/ off = 0)
        BY <3>2, <1>1, <1>a, <1>b DEF UploadFits
      <4> QED BY <4>1, <3>2, <1>2, <1>c, <2>1 DEF Smaller
    <3> QED BY <3>1, <3>2
  <2> QED BY <2>1, <2>2, <1>3 DEF Put
<1>6. puts' \in Seq(Put) /\ Len(puts') = Len(puts) + 1 /\ Len(puts) \in Nat
  BY <1>4, <1>5, <1>b, PutsKept, PutFields
<1>7. PutsTyped' /\ puts' # <<>>
  BY <1>6, EmptySeq DEF PutsTyped
<1>8. UploadTyped' /\ UploadFits'
  <2>1. upload' \in UploadSet /\ upload'.req = Len(puts') /\ upload'.failures = upload.failures
    BY <1>a, <1>b, <1>6 DEF UploadSet
  <2>2. UploadTyped'
    BY <2>1, <1>6 DEF UploadTyped, UploadSet
  <2> QED BY <2>1, <2>2, <1>7, <1>a, <1>b DEF UploadFits
<1>9. Aside
  BY <1>a DEF Aside
<1>10. Fits' /\ Holds' /\ SinkTyped' /\ LinkTyped' /\ HostTyped' /\ CountTyped'
  BY <1>9, <1>a, <1>b, AsideKeeps, AsideTyped, HostAlone, CountsAlone
<1> QED BY <1>7, <1>8, <1>10 DEF RemoteInv, Typed


(* A step of the upload on the runner's side: at most one put changes, and *)
(* no request is awaited after it.                                         *)
LEMMA UploadSteps ==
  ASSUME RemoteInv, sink' \in SinkSet, Aside, host' = host, claim' = claim,
         reports' = reports, breaks' \in 0 .. MaxBreaks,
         upload' \in UploadSet, upload'.req = 0 \/ upload' = upload,
         puts' \in Seq(Put), Len(puts') = Len(puts), UploadFits'
  PROVE  RemoteInv'
<1>1. UploadTyped'
  <2>1. upload.req \in 0 .. Len(puts) /\ Len(puts) \in Nat
    BY PutFields DEF RemoteInv, Typed, UploadTyped
  <2>2. upload'.req \in 0 .. Len(puts')
    BY <2>1
  <2> QED BY <2>2 DEF UploadTyped, UploadSet
<1>2. CountTyped'
  BY DEF RemoteInv, Typed, CountTyped
<1>3. Fits' /\ Holds' /\ SinkTyped' /\ LinkTyped' /\ HostTyped'
  BY AsideKeeps, AsideTyped, HostAlone
<1>4. PutsTyped'
  BY DEF PutsTyped
<1> QED BY <1>1, <1>2, <1>3, <1>4 DEF RemoteInv, Typed

LEMMA PutReplyKeeps ==
  ASSUME RemoteInv, putReply
  PROVE  RemoteInv'
<1>a. sink \in SinkSet /\ upload \in UploadSet /\ PutsTyped /\ UploadFits /\ CountTyped
  BY DEF RemoteInv, Typed, SinkTyped, UploadTyped
<1>b. /\ upload.req > 0 /\ sink.pc = "upload"
      /\ puts' = [puts EXCEPT ![upload.req] = Over]
      /\ link' = link /\ host' = host /\ claim' = claim /\ breaks' = breaks /\ reports' = reports
  BY DEF putReply, Awaited
<1>c. upload.req \in 1 .. Len(puts) /\ upload.failures <= MaxFailures
  <2>1. upload.req \in 0 .. Len(puts)
    BY DEF RemoteInv, Typed, UploadTyped
  <2>2. Len(puts) \in Nat
    BY <1>a, PutFields
  <2> QED BY <2>1, <2>2, <1>a, <1>b DEF UploadFits
<1>1. /\ puts' \in Seq(Put) /\ Len(puts') = Len(puts) /\ puts' # <<>>
      /\ puts[upload.req] \in Put
  <2>1. /\ Over \in Put /\ upload.req \in DOMAIN puts /\ Len(puts) # 0
        /\ puts[upload.req] \in Put
    BY <1>a, <1>c, PutFields
  <2>2. puts' \in Seq(Put) /\ Len(puts') = Len(puts)
    BY <2>1, <1>a, <1>b, PutsKept
  <2> QED BY <2>1, <2>2, EmptySeq
<1>2. PICK p : p = puts[upload.req]
  OBVIOUS
<1>3. p \in Put
  BY <1>1, <1>2
<1>4. CASE p.reply = "ok"
  <2>1. /\ upload' = [upload EXCEPT !.offset = p.held, !.req = 0,
                        !.failures = IF upload.probe THEN @ ELSE 0, !.probe = FALSE]
        /\ sink' = sink
    BY <1>4, <1>2 DEF putReply, Awaited
  <2>2. /\ upload' \in UploadSet /\ upload'.req = 0
        /\ upload'.failures <= MaxFailures
    <3>1. MaxFailures \in Nat /\ p.held \in Nat
      BY ConstantFacts, <1>3 DEF Put
    <3>2. PICK m : m = IF upload.probe THEN upload.failures ELSE 0
      OBVIOUS
    <3>3. m \in 0 .. MaxFailures + 1 /\ m <= MaxFailures
      BY <3>1, <3>2, <1>a, <1>c DEF UploadSet
    <3>4. upload' = [upload EXCEPT !.offset = p.held, !.req = 0, !.failures = m, !.probe = FALSE]
      BY <2>1, <3>2, <1>a DEF UploadSet
    <3> QED BY <3>1, <3>3, <3>4, <1>a DEF UploadSet
  <2>3. Aside /\ UploadFits' /\ breaks' \in 0 .. MaxBreaks
    BY <2>1, <2>2, <1>1, <1>b, <1>a DEF Aside, UploadFits, CountTyped
  <2> QED BY <2>1, <2>2, <2>3, <1>1, <1>b, <1>a, UploadSteps
<1>5. CASE p.reply # "ok"
  <2>1. \/ /\ upload' = [upload EXCEPT !.req = 0]
           /\ sink' = [Noted EXCEPT !.lost = TRUE]
        \/ /\ upload' = GiveUp(upload)
           /\ sink' = IF upload'.failures > MaxFailures THEN Noted ELSE sink
    BY <1>5, <1>2 DEF putReply, Awaited
  <2>2. CASE /\ upload' = [upload EXCEPT !.req = 0]
             /\ sink' = [Noted EXCEPT !.lost = TRUE]
    <3>1. upload' \in UploadSet /\ upload'.req = 0
      BY <2>2, <1>a DEF UploadSet
    <3>2. /\ sink' \in SinkSet /\ sink'.pc = "flush"
          /\ sink'.steps = sink.steps /\ sink'.conn = sink.conn
      BY <2>2, <1>b, GiveUpFacts
    <3>3. Aside /\ UploadFits' /\ breaks' \in 0 .. MaxBreaks
      BY <3>2, <1>1, <1>b, <1>a DEF Aside, UploadFits, CountTyped
    <3> QED BY <3>1, <3>2, <3>3, <1>1, <1>b, UploadSteps
  <2>3. CASE /\ upload' = GiveUp(upload)
             /\ sink' = IF upload'.failures > MaxFailures THEN Noted ELSE sink
    <3>1. upload' \in UploadSet /\ upload'.req = 0
      BY <2>3, <1>b, GiveUpFacts
    <3>2. /\ sink' \in SinkSet
          /\ sink'.steps = sink.steps /\ sink'.conn = sink.conn
          /\ sink'.pc = "flush" \/ ~(upload'.failures > MaxFailures)
      BY <2>3, <1>a, <1>b, GiveUpFacts
    <3>3. sink'.pc = "flush" \/ upload'.failures <= MaxFailures
      <4>1. upload'.failures \in Nat /\ MaxFailures \in Nat
        BY <3>1, ConstantFacts DEF UploadSet
      <4> QED BY <3>2, <4>1
    <3>4. Aside /\ UploadFits' /\ breaks' \in 0 .. MaxBreaks
      BY <3>2, <3>3, <1>1, <1>b, <1>a DEF Aside, UploadFits, CountTyped
    <3> QED BY <3>1, <3>2, <3>4, <1>1, <1>b, UploadSteps
  <2> QED BY <2>1, <2>2, <2>3
<1> QED BY <1>4, <1>5

LEMMA PutFailsKeeps ==
  ASSUME RemoteInv, putFails
  PROVE  RemoteInv'
<1>a. sink \in SinkSet /\ upload \in UploadSet /\ PutsTyped /\ UploadFits /\ CountTyped
  BY DEF RemoteInv, Typed, SinkTyped, UploadTyped
<1>b. /\ upload.req > 0 /\ sink.pc = "upload"
      /\ breaks < MaxBreaks /\ breaks' = breaks + 1
      /\ upload' = GiveUp(upload)
      /\ sink' = IF upload'.failures > MaxFailures THEN Noted ELSE sink
      /\ puts' = [puts EXCEPT ![upload.req] = IF @.at = "answered" THEN Over ELSE @]
      /\ link' = link /\ host' = host /\ claim' = claim /\ reports' = reports
  BY DEF putFails, Awaited
<1>c. upload.req \in 1 .. Len(puts)
  <2>1. upload.req \in 0 .. Len(puts)
    BY DEF RemoteInv, Typed, UploadTyped
  <2>2. Len(puts) \in Nat
    BY <1>a, PutFields
  <2> QED BY <2>1, <2>2, <1>b
<1>1. puts' \in Seq(Put) /\ Len(puts') = Len(puts) /\ puts' # <<>>
  <2>1. /\ Over \in Put /\ upload.req \in DOMAIN puts /\ Len(puts) # 0
        /\ puts[upload.req] \in Put
    BY <1>a, <1>c, PutFields
  <2>2. PICK p : p = IF puts[upload.req].at = "answered" THEN Over ELSE puts[upload.req]
    OBVIOUS
  <2>3. p \in Put /\ puts' = [puts EXCEPT ![upload.req] = p]
    BY <2>1, <2>2, <1>b
  <2>4. puts' \in Seq(Put) /\ Len(puts') = Len(puts)
    BY <2>1, <2>3, <1>a, PutsKept
  <2> QED BY <2>1, <2>4, EmptySeq
<1>2. upload' \in UploadSet /\ upload'.req = 0
  BY <1>b, GiveUpFacts
<1>3. /\ sink' \in SinkSet
      /\ sink'.steps = sink.steps /\ sink'.conn = sink.conn
      /\ sink'.pc = "flush" \/ ~(upload'.failures > MaxFailures)
  BY <1>a, <1>b, GiveUpFacts
<1>4. sink'.pc = "flush" \/ upload'.failures <= MaxFailures
  <2>1. upload'.failures \in Nat /\ MaxFailures \in Nat
    BY <1>2, ConstantFacts DEF UploadSet
  <2> QED BY <1>3, <2>1
<1>5. breaks' \in 0 .. MaxBreaks
  <2>1. breaks \in 0 .. MaxBreaks /\ MaxBreaks \in Nat
    BY <1>a, ConstantFacts DEF CountTyped
  <2> QED BY <2>1, <1>b
<1>6. Aside /\ UploadFits'
  BY <1>3, <1>4, <1>1, <1>b DEF Aside, UploadFits
<1> QED BY <1>1, <1>2, <1>3, <1>5, <1>6, <1>b, UploadSteps

(* The steps are over, the upload is over, and a finish that did not       *)
(* arrive: only the runner's place changes.                                *)
LEMMA PlaceSteps ==
  ASSUME RemoteInv, stepsOver \/ uploadOver \/ finishFails
  PROVE  RemoteInv'
<1>a. sink \in SinkSet /\ PutsTyped /\ UploadTyped /\ UploadFits /\ CountTyped
  BY DEF RemoteInv, Typed, SinkTyped
<1>1. /\ upload' = upload /\ puts' = puts /\ link' = link /\ host' = host
      /\ claim' = claim /\ breaks' = breaks /\ reports' = reports
  BY DEF stepsOver, uploadOver, finishFails
<1>2. /\ sink' \in SinkSet /\ sink'.steps = sink.steps /\ sink'.conn = sink.conn
      /\ sink'.pc \in {"steps", "upload"} => sink.pc \in {"steps", "upload"}
  <2>1. CASE stepsOver
    <3>1. PICK x : x = IF Here = Len(Sizes) THEN "upload" ELSE "flush"
      OBVIOUS
    <3>2. x \in Places /\ sink' = [sink EXCEPT !.pc = x] /\ sink.pc = "steps"
      BY <3>1, <2>1 DEF stepsOver, Places
    <3>3. sink' \in SinkSet
      BY <3>2, <1>a, SinkKept, Zenon
    <3>4. sink'.steps = sink.steps /\ sink'.conn = sink.conn
      BY <3>2, <1>a DEF SinkSet
    <3> QED BY <3>2, <3>3, <3>4
  <2>2. CASE uploadOver
    <3>1. sink' = [sink EXCEPT !.pc = "flush", !.output = "declared"]
      BY <2>2 DEF uploadOver
    <3> QED BY <3>1, <1>a DEF SinkSet, Places
  <2>3. CASE finishFails
    <3>1. MaxAttempts \in Nat /\ sink.attempts \in 0 .. MaxAttempts
      BY <1>a, ConstantFacts DEF SinkSet
    <3>2. CASE /\ sink.attempts < MaxAttempts
               /\ sink' = [sink EXCEPT !.attempts = @ + 1]
      <4>1. sink.attempts + 1 \in 0 .. MaxAttempts
        BY <3>1, <3>2
      <4> QED BY <4>1, <3>2, <1>a DEF SinkSet
    <3>3. CASE sink' = [sink EXCEPT !.pc = "done", !.result = "error"]
      BY <3>3, <1>a DEF SinkSet, Places
    <3> QED BY <2>3, <3>2, <3>3 DEF finishFails
  <2> QED BY <2>1, <2>2, <2>3
<1>3. Aside /\ UploadFits' /\ breaks' \in 0 .. MaxBreaks
  BY <1>1, <1>2, <1>a DEF Aside, UploadFits, CountTyped
<1>4. upload' \in UploadSet /\ puts' \in Seq(Put) /\ Len(puts') = Len(puts)
  BY <1>1, <1>a DEF UploadTyped, PutsTyped
<1> QED BY <1>1, <1>2, <1>3, <1>4, UploadSteps


(* The finish on the main host: the record is written, the output is taken *)
(* or left, and the claim ends with it.                                    *)
LEMMA FinishKeeps ==
  ASSUME RemoteInv, NEW answered \in BOOLEAN, finish(answered)
  PROVE  RemoteInv'
<1>a. /\ sink \in SinkSet /\ host \in HostSet /\ PutsTyped /\ UploadTyped /\ UploadFits
      /\ CountTyped /\ Fits /\ SinkTyped
  BY DEF RemoteInv, Typed, SinkTyped, HostTyped
<1>b. /\ upload' = upload /\ puts' = puts /\ link' = link
      /\ breaks' = breaks /\ reports' = reports
      /\ sink.pc = "finish" /\ sink.attempts < MaxAttempts
  BY DEF finish
<1>1. /\ sink' \in SinkSet /\ sink'.steps = sink.steps /\ sink'.conn = sink.conn
      /\ sink'.pc \notin {"steps", "upload"}
  <2>1. CASE sink' = [sink EXCEPT !.attempts = @ + 1]
    <3>1. sink.attempts + 1 \in 0 .. MaxAttempts
      BY <1>a, <1>b, ConstantFacts DEF SinkSet
    <3> QED BY <2>1, <3>1, <1>a, <1>b DEF SinkSet
  <2>2. CASE sink' = [sink EXCEPT !.pc = "done", !.result = "ok"]
    BY <2>2, <1>a DEF SinkSet, Places
  <2>3. CASE sink' = [sink EXCEPT !.lost = TRUE]
    BY <2>3, <1>a, <1>b DEF SinkSet
  <2> QED BY <2>1, <2>2, <2>3 DEF finish
<1>2. Aside
  BY <1>1, <1>b DEF Aside
<1>3. CASE claim
  <2>1. /\ host' = [host EXCEPT !.stored = takeStaged, !.part = <<>>, !.meta = FALSE,
                                !.status = "Done", !.steps = Len(sink.steps)]
        /\ claim' = FALSE
    BY <1>3 DEF finish
  <2>2. PICK S : S = takeStaged
    OBVIOUS
  <2>3. S \subseteq {Whole}
    BY <2>2 DEF takeStaged
  <2>4. S \in SUBSET Seq(Nat)
    <3>1. Whole \in Seq(Nat)
      BY ConstantFacts, UnitsFacts DEF Whole
    <3> QED BY <2>3, <3>1
  <2>5. PICK n : n = Len(sink.steps)
    OBVIOUS
  <2>6. n \in 0 .. Len(Sizes)
    BY <2>5, <1>a, SinkFields, ConstantFacts
  <2>7. host' \in HostSet
    BY <2>1, <2>2, <2>4, <2>5, <2>6, <1>a, HostKept
  <2>8. host'.log = host.log /\ host'.steps = n /\ host'.stored = S
    BY <2>1, <2>2, <2>5, <1>a DEF HostSet
  <2>9. Whole' = Whole
    BY DEF Whole, Units
  <2>10. Fits'
    <3>1. LogFits(host'.log, sink'.steps)
      BY <2>8, <1>1, <1>a DEF Fits
    <3>2. host'.steps <= Len(sink'.steps)
      BY <2>8, <2>5, <2>6, <1>1, ConstantFacts
    <3>3. \A k \in 1 .. Len(link') : LinkFits(link'[k], sink'.steps)
      BY <1>1, <1>b, <1>a DEF Fits
    <3> QED BY <3>1, <3>2, <3>3, <2>3, <2>8 DEF Fits
  <2>11. Holds'
    BY <2>1 DEF Holds
  <2>12. HostTyped' /\ claim' = FALSE
    BY <2>1, <2>7 DEF HostTyped, HostSet, Steps, Statuses
  <2> QED BY <2>10, <2>11, <2>12, <1>1, <1>2, <1>b, AsideTyped, UploadAlone, CountsAlone
          DEF RemoteInv, Typed
<1>4. CASE ~claim
  <2>1. host' = host /\ claim' = claim
    BY <1>4 DEF finish
  <2> QED BY <2>1, <1>1, <1>2, <1>b, AsideKeeps, AsideTyped, HostAlone, UploadAlone, CountsAlone
          DEF RemoteInv, Typed
<1> QED BY <1>3, <1>4

LEMMA PutSome ==
  ASSUME PutsTyped, NEW n \in DOMAIN puts
  PROVE  Len(puts) # 0
<1>1. DOMAIN puts = 1 .. Len(puts) /\ Len(puts) \in Nat
  BY PutFields
<1>2. n \in 1 .. Len(puts)
  BY <1>1
<1> QED BY <1>1, <1>2

(* The handlers of put requests.                                           *)
LEMMA PutHandlers ==
  ASSUME RemoteInv, sink' = sink, upload' = upload, link' = link, claim' = claim,
         breaks' = breaks, reports' = reports,
         host' = host \/ \E m \in BOOLEAN, q \in Seq(Nat) :
                           host' = [host EXCEPT !.meta = m, !.part = q],
         NEW n \in DOMAIN puts, NEW p \in Put, puts' = [puts EXCEPT ![n] = p]
  PROVE  RemoteInv'
<1>a. /\ sink \in SinkSet /\ host \in HostSet /\ PutsTyped /\ UploadTyped /\ UploadFits
      /\ CountTyped
  BY DEF RemoteInv, Typed, SinkTyped, HostTyped
<1>1. puts' \in Seq(Put) /\ Len(puts') = Len(puts)
  BY <1>a, PutsKept
<1>2. puts' # <<>>
  <2>1. Len(puts) # 0
    BY <1>a, PutFields, PutSome
  <2> QED BY <2>1, <1>1, EmptySeq
<1>3. PutsTyped' /\ UploadTyped' /\ UploadFits'
  <2>1. upload' \in UploadSet /\ upload'.req \in 0 .. Len(puts')
    BY <1>1, <1>a DEF UploadTyped
  <2> QED BY <2>1, <1>1, <1>2, <1>a DEF PutsTyped, UploadTyped, UploadSet, UploadFits
<1>4. /\ host' \in HostSet /\ host'.log = host.log /\ host'.steps = host.steps
      /\ host'.stored = host.stored
  <2>1. host' \in HostSet
    BY <1>a, HostKept, ZenonT(40)
  <2>2. /\ host'.log = host.log /\ host'.steps = host.steps
        /\ host'.stored = host.stored
    BY <1>a DEF HostSet
  <2> QED BY <2>1, <2>2
<1>5. Aside
  BY DEF Aside
<1>6. HostTyped'
  BY <1>4 DEF HostTyped, HostSet, Steps, Statuses
<1> QED BY <1>3, <1>4, <1>5, <1>6, <1>a, AsideKeeps, AsideTyped, CountsAlone
        DEF RemoteInv, Typed

(* A put that is answered, or given up. *)
SaidPut(n, r, held) ==
  IF upload.req = n
    THEN [puts[n] EXCEPT !.at = "answered", !.reply = r, !.held = held]
  ELSE Over

LEMMA PutSaidFacts ==
  ASSUME PutsTyped, NEW n \in DOMAIN puts, NEW held \in Nat,
         NEW r \in {"ok", "refused", "lease-lost"}
  PROVE  /\ Say_(n, r, held) = [puts EXCEPT ![n] = SaidPut(n, r, held)]
         /\ SaidPut(n, r, held) \in Put
<1>1. puts[n] \in Put /\ Over \in Put
  BY PutFields
<1>2. SaidPut(n, r, held) \in Put
  BY <1>1 DEF SaidPut, Put
<1>3. Say_(n, r, held) = [puts EXCEPT ![n] = SaidPut(n, r, held)]
  BY DEF Say_, SaidPut
<1> QED BY <1>2, <1>3

LEMMA PutWritesKeeps ==
  ASSUME RemoteInv, NEW n \in DOMAIN puts, putWrites(n)
  PROVE  RemoteInv'
<1>a. /\ host \in HostSet /\ PutsTyped
      /\ sink' = sink /\ upload' = upload /\ link' = link /\ claim' = claim
      /\ breaks' = breaks /\ reports' = reports
  BY DEF RemoteInv, Typed, HostTyped, putWrites
<1>1. PICK p : p = puts[n]
  OBVIOUS
<1>2. p \in Put /\ p.off \in Nat /\ p.len \in Nat /\ p.held \in Nat
  <2>1. p \in Put
    BY <1>1, <1>a, PutFields
  <2> QED BY <2>1 DEF Put
<1>3. CASE host.meta
  <2>1. /\ host' = [host EXCEPT !.part = @ \o Units(p.off, p.len)]
        /\ puts' = Say_(n, "ok", p.held + p.len)
    BY <1>3, <1>1 DEF putWrites
  <2>2. PICK q : q = host.part \o Units(p.off, p.len)
    OBVIOUS
  <2>3. q \in Seq(Nat)
    <3>1. host.part \in Seq(Nat) /\ Units(p.off, p.len) \in Seq(Nat)
      BY <1>a, <1>2, UnitsFacts DEF HostSet
    <3> QED BY <2>2, <3>1, ConcatProperties
  <2>4. host' = [host EXCEPT !.meta = TRUE, !.part = q]
    BY <2>1, <2>2, <1>3, <1>a DEF HostSet
  <2>5. PICK h : h = p.held + p.len
    OBVIOUS
  <2>6. h \in Nat /\ puts' = Say_(n, "ok", h)
    BY <2>1, <2>5, <1>2
  <2>7. PICK r \in Put : puts' = [puts EXCEPT ![n] = r]
    BY <2>6, <1>a, PutSaidFacts
  <2>8. \E m \in BOOLEAN, s \in Seq(Nat) : host' = [host EXCEPT !.meta = m, !.part = s]
    BY <2>3, <2>4
  <2> QED BY <2>7, <2>8, <1>a, PutHandlers
<1>4. CASE ~host.meta
  <2>1. host' = host /\ puts' = Say_(n, "refused", 0)
    BY <1>4, <1>1 DEF putWrites
  <2> QED BY <2>1, <1>a, PutSaidFacts, PutHandlers
<1> QED BY <1>3, <1>4

LEMMA PutLooksKeeps ==
  ASSUME RemoteInv, NEW n \in DOMAIN puts, NEW len \in 0 .. puts[n].len, putLooks(n, len)
  PROVE  RemoteInv'
<1>a. /\ host \in HostSet /\ PutsTyped
      /\ sink' = sink /\ upload' = upload /\ link' = link /\ claim' = claim
      /\ breaks' = breaks /\ reports' = reports
  BY DEF RemoteInv, Typed, HostTyped, putLooks
<1>1. PICK p : p = puts[n]
  OBVIOUS
<1>2. p \in Put /\ len \in Nat
  <2>1. p \in Put
    BY <1>1, <1>a, PutFields
  <2>2. puts[n].len \in Nat
    BY <2>1, <1>1 DEF Put
  <2> QED BY <2>1, <2>2
<1>3. CASE ~claim
  <2>1. host' = host /\ puts' = Say_(n, "lease-lost", 0)
    BY <1>3 DEF putLooks
  <2> QED BY <2>1, <1>a, PutSaidFacts, PutHandlers
<1>4. CASE claim /\ ~host.meta /\ p.off # 0
  <2>1. host' = host /\ puts' = Say_(n, "refused", 0)
    BY <1>4, <1>1 DEF putLooks
  <2> QED BY <2>1, <1>a, PutSaidFacts, PutHandlers
<1>5. CASE claim /\ ~(~host.meta /\ p.off # 0)
  <2>1. PICK has : has = IF host.meta THEN Len(host.part) ELSE 0
    OBVIOUS
  <2>2. has \in Nat
    BY <2>1, <1>a, LenProperties DEF HostSet
  <2>3. /\ host' = IF host.meta THEN host ELSE [host EXCEPT !.meta = TRUE, !.part = <<>>]
        /\ puts' = IF p.off < has \/ (p.off = has /\ len = 0) THEN Say_(n, "ok", has)
                   ELSE IF p.off > has THEN Say_(n, "refused", 0)
                   ELSE [puts EXCEPT ![n].at = "write", ![n].len = len, ![n].held = has]
    BY <1>5, <1>1, <2>1 DEF putLooks
  <2>4. \/ host' = host
        \/ \E m \in BOOLEAN, q \in Seq(Nat) : host' = [host EXCEPT !.meta = m, !.part = q]
    <3>1. <<>> \in Seq(Nat)
      OBVIOUS
    <3> QED BY <2>3, <3>1
  <2>5. \E r \in Put : puts' = [puts EXCEPT ![n] = r]
    <3>1. CASE puts' = Say_(n, "ok", has)
      BY <3>1, <2>2, <1>a, PutSaidFacts
    <3>2. CASE puts' = Say_(n, "refused", 0)
      BY <3>2, <1>a, PutSaidFacts
    <3>3. CASE puts' = [puts EXCEPT ![n].at = "write", ![n].len = len, ![n].held = has]
      <4>1. PICK r : r = [p EXCEPT !.at = "write", !.len = len, !.held = has]
        OBVIOUS
      <4>2. r \in Put
        BY <4>1, <1>2, <2>2 DEF Put
      <4>3. puts' = [puts EXCEPT ![n] = r]
        BY <4>1, <3>3, <1>1
      <4> QED BY <4>2, <4>3
    <3> QED BY <2>3, <3>1, <3>2, <3>3
  <2> QED BY <2>4, <2>5, <1>a, PutHandlers
<1> QED BY <1>3, <1>4, <1>5


LEMMA PutSteps ==
  ASSUME RemoteInv, \E n \in DOMAIN puts :
                      putWrites(n) \/ \E len \in 0 .. puts[n].len : putLooks(n, len)
  PROVE  RemoteInv'
  BY PutWritesKeeps, PutLooksKeeps

-----------------------------------------------------------------------------
(* The invariant holds, and with it the theorems. *)

LEMMA RemoteInit == Init => RemoteInv
<1> SUFFICES ASSUME Init PROVE RemoteInv
  OBVIOUS
<1>1. SinkTyped /\ sink.steps = <<>> /\ Len(sink.steps) = 0 /\ sink.conn = 0
      /\ sink.pc = "steps"
  BY ConstantFacts DEF Init, SinkTyped, SinkSet, Places
<1>2. UploadTyped /\ PutsTyped /\ UploadFits
  BY ConstantFacts DEF Init, UploadTyped, UploadSet, PutsTyped, UploadFits
<1>3. LinkTyped /\ Len(link) = 0
  BY <1>1 DEF Init, LinkTyped
<1>4. HostTyped
  BY ResetIsHost DEF Init, HostTyped
<1>5. CountTyped
  BY ConstantFacts DEF Init, CountTyped
<1>6. /\ \A i \in Steps : host.log[i] = <<>>
      /\ host.steps = 0 /\ host.stored = {}
  BY DEF Init, Reset
<1>7. Fits
  <2>1. Units(0, 0) = <<>> /\ Len(<<>>) = 0
    BY DEF Units
  <2>2. LogFits(host.log, sink.steps)
    BY <1>6, <2>1 DEF LogFits
  <2> QED BY <2>2, <1>1, <1>3, <1>6 DEF Fits
<1>8. Holds
  BY <1>1, <1>3, <1>6 DEF Holds, AllComplete, AllAcked
<1> QED BY <1>1, <1>2, <1>3, <1>4, <1>5, <1>7, <1>8 DEF RemoteInv, Typed

LEMMA RemoteStays == RemoteInv /\ vars' = vars => RemoteInv'
<1> SUFFICES ASSUME RemoteInv, vars' = vars PROVE RemoteInv'
  OBVIOUS
<1>1. /\ sink' = sink /\ upload' = upload /\ link' = link /\ puts' = puts
      /\ host' = host /\ claim' = claim /\ breaks' = breaks /\ reports' = reports
  BY DEF vars
<1>2. sink \in SinkSet /\ upload \in UploadSet /\ PutsTyped /\ UploadFits /\ CountTyped
  BY DEF RemoteInv, Typed, SinkTyped, UploadTyped
<1>3. Aside /\ UploadFits' /\ breaks' \in 0 .. MaxBreaks
  BY <1>1, <1>2 DEF Aside, UploadFits, CountTyped
<1> QED BY <1>1, <1>2, <1>3, UploadSteps DEF PutsTyped

LEMMA RemoteStep == RemoteInv /\ [Next]_vars => RemoteInv'
<1> SUFFICES ASSUME RemoteInv, [Next]_vars PROVE RemoteInv'
  OBVIOUS
<1>1. CASE Runner
  <2>1. CASE \/ stepStarted \/ appendLog \/ stepFinished \/ connect \/ flush \/ handleReply
             \/ progress
    BY <2>1, StreamSteps
  <2>2. CASE \/ disconnect \/ leaseLost
             \/ \E late \in BOOLEAN : finishWaits(late)
             \/ \E arrives \in BOOLEAN : interrupted(arrives)
    BY <2>2, ClosingSteps
  <2>3. CASE sendPut
    BY <2>3, SendPutKeeps
  <2>4. CASE putReply
    BY <2>4, PutReplyKeeps
  <2>5. CASE putFails
    BY <2>5, PutFailsKeeps
  <2>6. CASE stepsOver \/ uploadOver \/ finishFails
    BY <2>6, PlaceSteps
  <2>7. CASE \E answered \in BOOLEAN : finish(answered)
    BY <2>7, FinishKeeps
  <2> QED BY <1>1, <2>1, <2>2, <2>3, <2>4, <2>5, <2>6, <2>7 DEF Runner
<1>2. CASE Host
  <2>1. CASE (\E k \in DOMAIN link : consume(k) \/ check(k)) \/ requeue
    BY <2>1, HostSteps
  <2>2. CASE \E n \in DOMAIN puts :
               putWrites(n) \/ \E len \in 0 .. puts[n].len : putLooks(n, len)
    BY <2>2, PutSteps
  <2> QED BY <1>2, <2>1, <2>2 DEF Host
<1>3. CASE vars' = vars
  BY <1>3, RemoteStays
<1> QED BY <1>1, <1>2, <1>3 DEF Next

LEMMA RemoteInvariant == Spec => []RemoteInv
  BY RemoteInit, RemoteStep, PTL DEF Spec

(* Every variable of the runner's report stays in its type: among them the *)
(* offsets of the chunks upload() sends, which a reply of the main host    *)
(* sets, and the open end of the stream the runner writes to.              *)
THEOREM TypeCorrect == Spec => []TypeOK
<1>1. RemoteInv => TypeOK
  BY TypeParts DEF RemoteInv
<1> QED BY <1>1, RemoteInvariant, PTL

(* appendCiRunLog and appendLog of the stream sessions: a log on the main  *)
(* host is what the step wrote, without gaps or duplicates, and a step is  *)
(* recorded only when it ended and its log is complete, for any number of  *)
(* steps, streams, breaks and requeues, whatever the frame size is and     *)
(* whatever sessions of broken streams go on beside the new one.           *)
THEOREM LogsAreWhole == Spec => []LogIsWhole
<1>1. ASSUME RemoteInv PROVE LogIsWhole
  <2>1. LogFits(host.log, sink.steps)
    BY <1>1 DEF RemoteInv, Fits
  <2>2. ASSUME NEW i \in Steps
        PROVE  /\ host.log[i] = Units(0, Len(host.log[i]))
               /\ host.log[i] # <<>> => Len(host.log[i]) <= sink.steps[i].size
    BY <2>1 DEF LogFits
  <2>3. ASSUME claim, NEW i \in 1 .. host.steps
        PROVE  sink.steps[i].ended /\ Len(host.log[i]) = sink.steps[i].size
    <3>1. Complete(i, sink.steps, HeldOf(host.log))
      BY <1>1, <2>3 DEF RemoteInv, Holds, AllComplete
    <3>2. i \in Steps
      BY <1>1, <3>1, SinkFields DEF RemoteInv, Typed, Complete
    <3> QED BY <3>1, <3>2 DEF Complete, HeldOf
  <2> QED BY <2>2, <2>3 DEF LogIsWhole
<1>2. RemoteInv => LogIsWhole
  BY <1>1
<1> QED BY <1>2, RemoteInvariant, PTL

(* handleReply and the greeting of connect(): while the claim stands, what *)
(* the runner takes for acknowledged, and so never sends again, is on the  *)
(* main host.                                                              *)
THEOREM AcksAreTrue == Spec => []AckedIsHeld
<1>1. ASSUME RemoteInv PROVE AckedIsHeld
  <2> SUFFICES ASSUME claim, NEW i \in DOMAIN sink.steps
               PROVE  sink.steps[i].acked <= Len(host.log[i])
    BY DEF AckedIsHeld
  <2>1. i \in 1 .. Len(sink.steps) /\ i \in Steps
    BY <1>1, SinkFields DEF RemoteInv, Typed
  <2>2. sink.steps[i].acked <= HeldOf(host.log)[i]
    BY <1>1, <2>1 DEF RemoteInv, Holds, AllAcked
  <2> QED BY <2>1, <2>2 DEF HeldOf
<1>2. RemoteInv => AckedIsHeld
  BY <1>1
<1> QED BY <1>2, RemoteInvariant, PTL

(* takeStaged: an output is stored only as the whole file, although chunks *)
(* are cut short, repeated and appended by handlers that hold no lock.     *)
THEOREM OutputsAreWhole == Spec => []StoredIsWhole
<1>1. RemoteInv => StoredIsWhole
  BY DEF RemoteInv, Fits, StoredIsWhole
<1> QED BY <1>1, RemoteInvariant, PTL

=============================================================================
