---------------------------- MODULE LogStreamProofs ----------------------------
(***************************************************************************)
(* Theorems about LogStream, for any clients, capacity, lengths and sizes  *)
(* of chunks and answers.                                                  *)
(*                                                                         *)
(* What a copy of the text yields is defined by recursion over the lines.  *)
(* The first part shows what such a function is, by an explicit function   *)
(* that satisfies its equation and an induction that says it is the only   *)
(* one; the second part is about the stream.                               *)
(***************************************************************************)
EXTENDS LogStream, SequenceTheorems, WellFoundedInduction, TLAPS

Lower == {pair \in Nat \X Nat : pair[1] < pair[2]}

LEMMA LowerIsWellFounded == IsWellFoundedOn(Lower, Nat)
BY NatLessThanWellFounded, Zenon DEF OpToRel, Lower

\* Induction over the numbers, for a set instead of a predicate.
LEMMA Induction ==
  ASSUME NEW S, 0 \in S, \A n \in Nat : n \in S => n + 1 \in S
  PROVE  Nat \subseteq S
<1> DEFINE T == Nat \ S
<1> SUFFICES ASSUME T # {} PROVE FALSE
  OBVIOUS
<1>1. PICK x \in T : \A y \in T : <<y, x>> \notin Lower
  <2>1. T \subseteq Nat
    OBVIOUS
  <2> HIDE DEF T
  <2> QED
    BY <2>1, LowerIsWellFounded, WFMin
<1>2. x \in Nat /\ x # 0 /\ x \notin S
  OBVIOUS
<1>3. x - 1 \in Nat /\ x - 1 + 1 = x
  BY <1>2
<1>4. x - 1 \in T
  BY <1>2, <1>3
<1>5. <<x - 1, x>> \in Lower
  BY <1>2, <1>3 DEF Lower
<1> QED
  BY <1>1, <1>4, <1>5
-------------------------------------------------------------------------------
(* Pieces of the log.                                                      *)

LEMMA LeastIs ==
  ASSUME NEW a \in Nat, NEW b \in Nat
  PROVE  /\ Least(a, b) \in Nat /\ Surplus(a, b) \in Nat
         /\ Least(a, b) <= a /\ Least(a, b) <= b /\ Least(a, b) \in {a, b}
         /\ a > b => Surplus(a, b) = a - b
         /\ a <= b => Surplus(a, b) = 0 /\ Least(a, b) = a
         /\ b <= a => Least(a, b) = b
BY DEF Least, Surplus

LEMMA NumbersAre ==
  ASSUME NEW first \in Nat \ {0}, NEW count \in Nat
  PROVE  /\ Numbers(first, count) \in Seq(Nat)
         /\ Len(Numbers(first, count)) = count
         /\ \A i \in 1 .. count : Numbers(first, count)[i] = first + i - 1
         /\ count = 0 <=> Numbers(first, count) = <<>>
<1>1. \A i \in 1 .. count : first + i - 1 \in Nat
  OBVIOUS
<1>2. Numbers(first, count) \in [1 .. count -> Nat]
  BY <1>1 DEF Numbers
<1>3. Numbers(first, count) \in Seq(Nat) /\ Len(Numbers(first, count)) = count
  BY <1>2
<1> QED
  BY <1>3, EmptySeq DEF Numbers

LEMMA NumbersJoin ==
  ASSUME NEW first \in Nat \ {0}, NEW count \in Nat, NEW more \in Nat
  PROVE  Numbers(first, count) \o Numbers(first + count, more) = Numbers(first, count + more)
<1> DEFINE a == Numbers(first, count)
           b == Numbers(first + count, more)
           c == Numbers(first, count + more)
<1>1. /\ a \in Seq(Nat) /\ Len(a) = count /\ \A i \in 1 .. count : a[i] = first + i - 1
      /\ b \in Seq(Nat) /\ Len(b) = more /\ \A i \in 1 .. more : b[i] = first + count + i - 1
      /\ c \in Seq(Nat) /\ Len(c) = count + more /\ \A i \in 1 .. count + more : c[i] = first + i - 1
  <2>1. first + count \in Nat \ {0} /\ count + more \in Nat
    OBVIOUS
  <2>2. /\ a \in Seq(Nat) /\ Len(a) = count /\ \A i \in 1 .. count : a[i] = first + i - 1
    BY NumbersAre
  <2>3. /\ b \in Seq(Nat) /\ Len(b) = more /\ \A i \in 1 .. more : b[i] = (first + count) + i - 1
    BY <2>1, NumbersAre
  <2>4. /\ c \in Seq(Nat) /\ Len(c) = count + more /\ \A i \in 1 .. count + more : c[i] = first + i - 1
    BY <2>1, NumbersAre
  <2> QED
    BY <2>2, <2>3, <2>4
<1> HIDE DEF a, b, c
<1>2. /\ a \o b \in Seq(Nat) /\ Len(a \o b) = count + more
      /\ \A i \in 1 .. count + more : (a \o b)[i] = IF i <= count THEN a[i] ELSE b[i - count]
  BY <1>1, ConcatProperties
<1>3. ASSUME NEW i \in 1 .. count + more
      PROVE  (a \o b)[i] = c[i]
  <2>1. CASE i <= count
    <3>1. i \in 1 .. count
      BY <2>1
    <3> QED
      BY <1>1, <1>2, <2>1, <3>1
  <2>2. CASE i > count
    <3>1. i - count \in 1 .. more /\ ~(i <= count)
      BY <2>2
    <3>2. b[i - count] = first + count + (i - count) - 1
      BY <1>1, <3>1
    <3>3. (a \o b)[i] = b[i - count] /\ c[i] = first + i - 1
      BY <1>1, <1>2, <3>1
    <3>4. first + count + (i - count) - 1 = first + i - 1
      OBVIOUS
    <3> QED
      BY <3>2, <3>3, <3>4
  <2>3. i <= count \/ i > count
    OBVIOUS
  <2> QED
    BY <2>1, <2>2, <2>3
<1>4. a \o b = c
  BY <1>1, <1>2, <1>3, SeqEqual
<1> QED
  BY <1>4 DEF a, b, c

LEMMA NumbersAppend ==
  ASSUME NEW first \in Nat \ {0}, NEW count \in Nat
  PROVE  Append(Numbers(first, count), first + count) = Numbers(first, count + 1)
<1> DEFINE a == Numbers(first, count)
           c == Numbers(first, count + 1)
<1>1. /\ a \in Seq(Nat) /\ Len(a) = count /\ \A i \in 1 .. count : a[i] = first + i - 1
      /\ c \in Seq(Nat) /\ Len(c) = count + 1 /\ \A i \in 1 .. count + 1 : c[i] = first + i - 1
  <2>1. count + 1 \in Nat
    OBVIOUS
  <2>2. /\ a \in Seq(Nat) /\ Len(a) = count /\ \A i \in 1 .. count : a[i] = first + i - 1
    BY NumbersAre
  <2>3. /\ c \in Seq(Nat) /\ Len(c) = count + 1 /\ \A i \in 1 .. count + 1 : c[i] = first + i - 1
    BY <2>1, NumbersAre
  <2> QED
    BY <2>2, <2>3
<1> HIDE DEF a, c
<1>2. /\ Append(a, first + count) \in Seq(Nat) /\ Len(Append(a, first + count)) = count + 1
      /\ \A i \in 1 .. count : Append(a, first + count)[i] = a[i]
      /\ Append(a, first + count)[count + 1] = first + count
  BY <1>1, AppendProperties
<1>3. \A i \in 1 .. count + 1 : Append(a, first + count)[i] = c[i]
  BY <1>1, <1>2
<1>4. Append(a, first + count) = c
  BY <1>1, <1>2, <1>3, SeqEqual
<1> QED
  BY <1>4 DEF a, c
-------------------------------------------------------------------------------
(* The text of the ring.                                                   *)

Lines == [first : Bytes, last : Bytes]

Ring ==
  /\ lines \in Seq(Lines)
  /\ \A i \in DOMAIN lines : lines[i].first <= lines[i].last
  /\ \A i \in 2 .. Len(lines) : lines[i].first = lines[i - 1].last + 2

LEMMA LinesAre ==
  ASSUME Ring
  PROVE  /\ Len(lines) \in Nat /\ DOMAIN lines = 1 .. Len(lines)
         /\ lines = <<>> <=> Len(lines) = 0
         /\ MaxText \in Nat \ {0}
         /\ \A i \in 1 .. Len(lines) :
              /\ lines[i] \in Lines
              /\ lines[i].first \in Nat \ {0} /\ lines[i].last \in Nat \ {0}
              /\ lines[i].first <= lines[i].last /\ lines[i].last <= MaxText
              /\ Count(lines[i]) \in Nat \ {0}
         /\ \A i \in 2 .. Len(lines) : lines[i].first = lines[i - 1].last + 2
<1>1. /\ Len(lines) \in Nat /\ DOMAIN lines = 1 .. Len(lines)
      /\ \A i \in 1 .. Len(lines) : lines[i] \in Lines
  BY LenProperties, ElementOfSeq DEF Ring
<1>2. lines = <<>> <=> Len(lines) = 0
  BY EmptySeq DEF Ring
<1>3. MaxText \in Nat \ {0}
  BY LogAssumption
<1>4. ASSUME NEW i \in 1 .. Len(lines)
      PROVE  /\ lines[i].first \in Nat \ {0} /\ lines[i].last \in Nat \ {0}
             /\ lines[i].first <= lines[i].last /\ lines[i].last <= MaxText
             /\ Count(lines[i]) \in Nat \ {0}
  <2>1. lines[i].first \in Bytes /\ lines[i].last \in Bytes /\ lines[i].first <= lines[i].last
    BY <1>1 DEF Lines, Ring
  <2> QED
    BY <1>3, <2>1 DEF Bytes, Count
<1> QED
  BY <1>1, <1>2, <1>3, <1>4 DEF Ring

\* Where the text of a line begins, from the numbers of its bytes.
Begins(i) ==
  IF i <= Len(lines) THEN lines[i].first - 1 - Base ELSE IF lines = <<>> THEN 0 ELSE End + 1 - Base

LEMMA BeginsIs ==
  ASSUME Ring, NEW i \in 1 .. Len(lines) + 1
  PROVE  Begins(i) = IF i = 1 THEN 0 ELSE Begins(i - 1) + Count(lines[i - 1]) + 1
<1>0. Len(lines) \in Nat
  BY LinesAre
<1>1. CASE i = 1
  <2>1. CASE lines = <<>>
    <3>1. ~(i <= Len(lines))
      BY <1>1, <2>1, LinesAre
    <3> QED
      BY <1>1, <2>1, <3>1 DEF Begins
  <2>2. CASE lines # <<>>
    <3>1. Len(lines) >= 1 /\ 1 \in 1 .. Len(lines)
      BY <1>0, <2>2, LinesAre
    <3>2. lines[1].first \in Nat
      BY <3>1, LinesAre
    <3>3. Base = lines[1].first - 1
      BY <2>2 DEF Base
    <3> QED
      BY <1>1, <3>1, <3>2, <3>3 DEF Begins
  <2> QED
    BY <2>1, <2>2
<1>2. CASE i # 1
  <2>1. i - 1 \in 1 .. Len(lines) /\ lines # <<>>
    BY <1>0, <1>2, LinesAre
  <2>2. /\ lines[i - 1].first \in Nat /\ lines[i - 1].last \in Nat
        /\ lines[1].first \in Nat
    <3>1. 1 \in 1 .. Len(lines)
      BY <1>0, <2>1
    <3> QED
      BY <2>1, <3>1, LinesAre
  <2>3. Base \in Int
    BY <2>1, <2>2 DEF Base
  <2>4. Begins(i - 1) + Count(lines[i - 1]) + 1 = lines[i - 1].last + 1 - Base
    <3>1. Begins(i - 1) = lines[i - 1].first - 1 - Base
      BY <2>1 DEF Begins
    <3>2. Count(lines[i - 1]) = lines[i - 1].last + 1 - lines[i - 1].first
      BY DEF Count
    <3>3. \A a, b \in Nat, c \in Int : (a - 1 - c) + (b + 1 - a) + 1 = b + 1 - c
      OBVIOUS
    <3> QED
      BY <2>2, <2>3, <3>1, <3>2, <3>3
  <2>5. CASE i <= Len(lines)
    <3>1. lines[i].first = lines[i - 1].last + 2
      BY <1>0, <1>2, <2>5, LinesAre
    <3>2. Begins(i) = lines[i].first - 1 - Base
      BY <2>5 DEF Begins
    <3> QED
      BY <1>2, <2>2, <2>3, <2>4, <3>1, <3>2
  <2>6. CASE i = Len(lines) + 1
    <3>1. ~(i <= Len(lines)) /\ i - 1 = Len(lines)
      BY <1>0, <2>6
    <3>2. Begins(i) = End + 1 - Base /\ End = lines[i - 1].last
      BY <2>1, <3>1 DEF Begins, End, Last
    <3> QED
      BY <1>2, <2>4, <3>2
  <2>7. i <= Len(lines) \/ i = Len(lines) + 1
    BY <1>0
  <2> QED
    BY <2>5, <2>6, <2>7
<1> QED
  BY <1>1, <1>2

\* The equation of offsetOf holds: some function satisfies it.
LEMMA OffsetEquation ==
  ASSUME Ring
  PROVE  \A i \in 1 .. Len(lines) + 1 :
           offsetOf[i] = IF i = 1 THEN 0 ELSE offsetOf[i - 1] + Count(lines[i - 1]) + 1
<1> DEFINE begins == [i \in 1 .. Len(lines) + 1 |-> Begins(i)]
<1>1. begins = [i \in 1 .. Len(lines) + 1 |->
                  IF i = 1 THEN 0 ELSE begins[i - 1] + Count(lines[i - 1]) + 1]
  <2>1. ASSUME NEW i \in 1 .. Len(lines) + 1
        PROVE  Begins(i) = IF i = 1 THEN 0 ELSE begins[i - 1] + Count(lines[i - 1]) + 1
    <3>1. CASE i = 1
      BY <3>1, BeginsIs
    <3>2. CASE i # 1
      <4>1. i - 1 \in 1 .. Len(lines) + 1
        BY <3>2, LinesAre
      <4>2. begins[i - 1] = Begins(i - 1)
        BY <4>1
      <4> HIDE DEF begins
      <4> QED
        BY <3>2, <4>2, BeginsIs
    <3> QED
      BY <3>1, <3>2
  <2> QED
    BY <2>1
<1> HIDE DEF begins
<1>2. \E f : f = [i \in 1 .. Len(lines) + 1 |->
                    IF i = 1 THEN 0 ELSE f[i - 1] + Count(lines[i - 1]) + 1]
  BY <1>1
<1>3. offsetOf = [i \in 1 .. Len(lines) + 1 |->
                    IF i = 1 THEN 0 ELSE offsetOf[i - 1] + Count(lines[i - 1]) + 1]
  BY <1>2, Zenon DEF offsetOf
<1> QED
  BY <1>3, Zenon

LEMMA OffsetIs ==
  ASSUME Ring, NEW i \in 1 .. Len(lines) + 1
  PROVE  offsetOf[i] \in Nat /\ offsetOf[i] = Begins(i)
<1> DEFINE Good == {n \in Nat : n <= Len(lines) =>
                      offsetOf[n + 1] \in Nat /\ offsetOf[n + 1] = Begins(n + 1)}
<1>0. Len(lines) \in Nat
  BY LinesAre
<1>1. 0 \in Good
  <2>1. 1 \in 1 .. Len(lines) + 1
    BY <1>0
  <2>2. offsetOf[1] = 0 /\ Begins(1) = 0
    BY <2>1, OffsetEquation, BeginsIs
  <2> QED
    BY <2>2
<1>2. ASSUME NEW n \in Nat, n \in Good
      PROVE  n + 1 \in Good
  <2> SUFFICES ASSUME n + 1 <= Len(lines)
               PROVE  offsetOf[n + 1 + 1] \in Nat /\ offsetOf[n + 1 + 1] = Begins(n + 1 + 1)
    OBVIOUS
  <2>1. offsetOf[n + 1] \in Nat /\ offsetOf[n + 1] = Begins(n + 1)
    BY <1>0, <1>2
  <2>2. /\ n + 2 \in 1 .. Len(lines) + 1 /\ n + 2 # 1 /\ n + 2 - 1 = n + 1 /\ n + 1 + 1 = n + 2
        /\ n + 1 \in 1 .. Len(lines)
    BY <1>0
  <2> HIDE DEF Good
  <2>3. offsetOf[n + 2] = offsetOf[n + 1] + Count(lines[n + 1]) + 1
    BY <2>2, OffsetEquation
  <2>4. Begins(n + 2) = Begins(n + 1) + Count(lines[n + 1]) + 1
    BY <2>2, BeginsIs
  <2>5. Count(lines[n + 1]) \in Nat
    BY <2>2, LinesAre
  <2> QED
    BY <2>1, <2>2, <2>3, <2>4, <2>5
<1>3. Nat \subseteq Good
  <2> HIDE DEF Good
  <2> QED
    BY <1>1, <1>2, Induction
<1>4. i - 1 \in Nat /\ i - 1 <= Len(lines) /\ i - 1 + 1 = i
  BY <1>0
<1> QED
  BY <1>3, <1>4

\* flattenedSize() is the size of that part of everything logged.
LEMMA RingIs ==
  ASSUME Ring
  PROVE  /\ Base \in Nat /\ End \in Nat /\ Base <= End /\ End <= MaxText
         /\ lines # <<>> => Base < End
         /\ lines = <<>> => Base = 0 /\ End = 0
         /\ Size = End - Base /\ Size \in Nat
<1>1. CASE lines = <<>>
  BY <1>1, LogAssumption DEF Base, End, Size
<1>2. CASE lines # <<>>
  <2> DEFINE n == Len(lines)
  <2>1. n \in Nat /\ 1 \in 1 .. n /\ n \in 1 .. n
    BY <1>2, LinesAre
  <2>2. /\ lines[1].first \in Nat \ {0} /\ lines[n].first \in Nat /\ lines[n].last \in Nat
        /\ lines[n].first <= lines[n].last /\ lines[n].last <= MaxText
    BY <2>1, LinesAre
  <2>3. Base = lines[1].first - 1 /\ End = lines[n].last
    BY <1>2 DEF Base, End, Last
  <2>4. /\ offsetOf[n] \in Nat /\ offsetOf[n] = Begins(n)
        /\ offsetOf[n + 1] \in Nat /\ offsetOf[n + 1] = Begins(n + 1)
    BY <2>1, OffsetIs
  <2>5. Begins(n) = lines[n].first - 1 - Base
    BY <2>1 DEF Begins
  <2>6. Begins(n + 1) = End + 1 - Base
    BY <1>2, <2>1 DEF Begins
  <2>7. Size = offsetOf[n + 1] - 1
    BY <1>2 DEF Size
  <2> HIDE DEF n
  <2>8. Base \in Nat /\ End \in Nat /\ Base < End /\ End <= MaxText
    BY <2>2, <2>3, <2>4, <2>5
  <2> QED
    BY <1>2, <2>4, <2>6, <2>7, <2>8
<1> QED
  BY <1>1, <1>2
-------------------------------------------------------------------------------
(* copyAsText().                                                           *)

\* How much of the text the first i lines make, with the newline after the last of them.
Reach(i) == IF i = Len(lines) THEN Size ELSE Begins(i + 1)

\* What they contribute to a copy.
Part(offset, most, i) == Numbers(Base + offset + 1, Least(most, Surplus(Reach(i), offset)))

\* What line i adds to a copy, as in Copies.
Extend(offset, most, i, before) ==
  LET line  == lines[i]
      end   == offsetOf[i] + Count(line)
      start == Surplus(offset, offsetOf[i])
      room  == most - Len(before)
      text  == IF offset < end
               THEN before \o Numbers(line.first + start, Least(Count(line) - start, room))
               ELSE before
  IN IF i < Len(lines) /\ Len(text) < most /\ offset <= end
     THEN Append(text, line.last + 1) ELSE text

LEMMA LineIs ==
  ASSUME Ring, NEW i \in 1 .. Len(lines)
  PROVE  /\ offsetOf[i] \in Nat /\ Count(lines[i]) \in Nat \ {0}
         /\ lines[i].first = Base + offsetOf[i] + 1
         /\ lines[i].last = Base + offsetOf[i] + Count(lines[i])
         /\ Reach(i - 1) = offsetOf[i]
         /\ i < Len(lines) => Reach(i) = offsetOf[i] + Count(lines[i]) + 1
         /\ i = Len(lines) => Reach(i) = offsetOf[i] + Count(lines[i])
<1>0. Len(lines) \in Nat /\ lines # <<>>
  BY LinesAre
<1>1. /\ lines[i].first \in Nat /\ lines[i].last \in Nat /\ Count(lines[i]) \in Nat \ {0}
      /\ Base \in Nat
  BY LinesAre, RingIs
<1>2. i \in 1 .. Len(lines) + 1 /\ i + 1 \in 1 .. Len(lines) + 1 /\ i + 1 # 1 /\ i + 1 - 1 = i
  BY <1>0
<1>3. offsetOf[i] \in Nat /\ offsetOf[i] = Begins(i) /\ offsetOf[i + 1] = Begins(i + 1)
  BY <1>2, OffsetIs
<1>4. offsetOf[i + 1] = offsetOf[i] + Count(lines[i]) + 1
  BY <1>2, OffsetEquation
<1>5. lines[i].first = Base + offsetOf[i] + 1
  <2>1. Begins(i) = lines[i].first - 1 - Base
    BY DEF Begins
  <2> QED
    BY <1>1, <1>3, <2>1
<1>6. lines[i].last = Base + offsetOf[i] + Count(lines[i])
  <2>1. Count(lines[i]) = lines[i].last + 1 - lines[i].first
    BY DEF Count
  <2> QED
    BY <1>1, <1>3, <1>5, <2>1
<1>7. Reach(i - 1) = offsetOf[i]
  <2>1. i - 1 # Len(lines) /\ i - 1 + 1 = i
    BY <1>0
  <2> QED
    BY <1>3, <2>1 DEF Reach
<1>8. i < Len(lines) => Reach(i) = offsetOf[i] + Count(lines[i]) + 1
  BY <1>0, <1>3, <1>4 DEF Reach
<1>9. ASSUME i = Len(lines)
      PROVE  Reach(i) = offsetOf[i] + Count(lines[i])
  <2>1. Size = offsetOf[i + 1] - 1
    BY <1>0, <1>9 DEF Size
  <2>2. Reach(i) = Size
    BY <1>9 DEF Reach
  <2> QED
    BY <1>1, <1>3, <1>4, <2>1, <2>2
<1> QED
  BY <1>1, <1>3, <1>5, <1>6, <1>7, <1>8, <1>9

LEMMA PartExtends ==
  ASSUME Ring, NEW offset \in Nat, NEW most \in Nat, NEW i \in 1 .. Len(lines)
  PROVE  Part(offset, most, i) = Extend(offset, most, i, Part(offset, most, i - 1))
<1>1. PICK base \in Nat : base = Base
  BY RingIs
<1>2. PICK begin \in Nat : begin = offsetOf[i]
  BY LineIs
<1>3. PICK count \in Nat \ {0} : count = Count(lines[i])
  BY LineIs
<1>4. PICK end \in Nat : end = begin + count
  OBVIOUS
<1>5. /\ lines[i].first = base + begin + 1 /\ lines[i].last = base + end
      /\ Reach(i - 1) = begin
      /\ i < Len(lines) => Reach(i) = end + 1
      /\ i = Len(lines) => Reach(i) = end
  BY <1>1, <1>2, <1>3, <1>4, LineIs
<1>6. PICK first \in Nat \ {0} : first = base + offset + 1
  OBVIOUS
<1>7. PICK done \in Nat : done = Least(most, Surplus(begin, offset))
  <2>1. Surplus(begin, offset) \in Nat
    BY LeastIs
  <2> QED
    BY <2>1, LeastIs
<1>8. PICK reach \in Nat : reach = Least(most, Surplus(end, offset))
  <2>1. Surplus(end, offset) \in Nat
    BY LeastIs
  <2> QED
    BY <2>1, LeastIs
<1> DEFINE before == Part(offset, most, i - 1)
           text   == IF offset < end
                     THEN before \o Numbers(lines[i].first + Surplus(offset, begin),
                                            Least(count - Surplus(offset, begin), most - Len(before)))
                     ELSE before
<1>9. before = Numbers(first, done) /\ Len(before) = done
  <2>1. before = Numbers(first, done)
    BY <1>1, <1>5, <1>6, <1>7 DEF Part
  <2> QED
    BY <2>1, NumbersAre
<1>10. Extend(offset, most, i, before) =
         IF i < Len(lines) /\ Len(text) < most /\ offset <= end
         THEN Append(text, lines[i].last + 1) ELSE text
  BY <1>2, <1>3, <1>4 DEF Extend
<1>11. text = Numbers(first, reach)
  <2>1. CASE offset < end
    <3>1. Numbers(first, done)
            \o Numbers(base + begin + 1 + Surplus(offset, begin),
                       Least(count - Surplus(offset, begin), most - done))
          = Numbers(first, reach)
      <4>1. PICK start \in Nat : start = Surplus(offset, begin)
        BY LeastIs
      <4>2. PICK more \in Nat : more = Least(count - start, most - done)
        <5>1. start <= count /\ done <= most
          BY <1>4, <1>7, <2>1, <4>1 DEF Least, Surplus
        <5>2. count - start \in Nat /\ most - done \in Nat
          BY <5>1
        <5> QED
          BY <5>2, LeastIs
      <4>3. reach = done + more /\ (more # 0 => begin + start = offset + done)
        <5>1. CASE offset <= begin
          BY <1>4, <1>7, <1>8, <2>1, <4>1, <4>2, <5>1 DEF Least, Surplus
        <5>2. CASE offset > begin
          BY <1>4, <1>7, <1>8, <2>1, <4>1, <4>2, <5>2 DEF Least, Surplus
        <5> QED
          BY <5>1, <5>2
      <4>4. PICK next \in Nat \ {0} : next = base + begin + 1 + start
        OBVIOUS
      <4>5. Numbers(first, done) \o Numbers(next, more) = Numbers(first, reach)
        <5>1. CASE more = 0
          <6>1. Numbers(next, more) = <<>> /\ Numbers(first, done) \in Seq(Nat)
            BY <5>1, NumbersAre
          <6>2. Numbers(first, done) \o <<>> = Numbers(first, done)
            BY <6>1, ConcatEmptySeq
          <6>3. reach = done
            BY <4>3, <5>1
          <6> QED
            BY <6>1, <6>2, <6>3
        <5>2. CASE more # 0
          <6>1. next = first + done
            BY <1>6, <4>3, <4>4, <5>2
          <6>2. Numbers(first, done) \o Numbers(first + done, more) = Numbers(first, done + more)
            BY NumbersJoin
          <6> QED
            BY <4>3, <6>1, <6>2
        <5> QED
          BY <5>1, <5>2
      <4> QED
        BY <4>1, <4>2, <4>4, <4>5
    <3>2. text = before \o Numbers(base + begin + 1 + Surplus(offset, begin),
                                   Least(count - Surplus(offset, begin), most - Len(before)))
      <4> HIDE DEF before
      <4> QED
        BY <1>5, <2>1
    <3> HIDE DEF text, before
    <3> QED
      BY <1>9, <3>1, <3>2
  <2>2. CASE ~(offset < end)
    <3>1. end <= offset /\ begin <= offset
      BY <1>4, <2>2
    <3>2. Surplus(end, offset) = 0 /\ Surplus(begin, offset) = 0
      BY <3>1, LeastIs
    <3> QED
      BY <1>7, <1>8, <1>9, <2>2, <3>2
  <2> QED
    BY <2>1, <2>2
<1> HIDE DEF before, text
<1>12. Len(text) = reach
  BY <1>11, NumbersAre
<1>13. Part(offset, most, i) = Numbers(first, Least(most, Surplus(Reach(i), offset)))
  BY <1>1, <1>6 DEF Part
<1>14. CASE i < Len(lines) /\ reach < most /\ offset <= end
  <2>1. reach = end - offset
    BY <1>8, <1>14 DEF Least, Surplus
  <2>2. /\ lines[i].last + 1 = first + reach
        /\ Least(most, Surplus(Reach(i), offset)) = reach + 1
    BY <1>5, <1>6, <1>14, <2>1 DEF Least, Surplus
  <2>3. Append(Numbers(first, reach), first + reach) = Numbers(first, reach + 1)
    BY NumbersAppend
  <2> QED
    BY <1>10, <1>11, <1>12, <1>13, <1>14, <2>2, <2>3 DEF before
<1>15. CASE ~(i < Len(lines) /\ reach < most /\ offset <= end)
  <2>1. i < Len(lines) \/ i = Len(lines)
    <3>1. Len(lines) \in Nat
      BY LinesAre
    <3> QED
      BY <3>1
  <2>2. Least(most, Surplus(Reach(i), offset)) = reach
    <3>1. CASE i = Len(lines)
      BY <1>5, <1>8, <3>1
    <3>2. CASE i < Len(lines)
      <4>1. Reach(i) = end + 1 /\ (~(reach < most) \/ end < offset)
        BY <1>5, <1>15, <3>2
      <4> QED
        BY <1>8, <4>1 DEF Least, Surplus
    <3> QED
      BY <2>1, <3>1, <3>2
  <2> QED
    BY <1>10, <1>11, <1>12, <1>13, <1>15, <2>2 DEF before
<1> QED
  BY <1>14, <1>15

LEMMA CopiesEquation ==
  ASSUME Ring, NEW offset \in Nat, NEW most \in Nat
  PROVE  \A i \in 0 .. Len(lines) :
           Copies(offset, most)[i] =
             IF i = 0 THEN <<>> ELSE Extend(offset, most, i, Copies(offset, most)[i - 1])
<1> DEFINE parts == [i \in 0 .. Len(lines) |-> Part(offset, most, i)]
<1>0. Len(lines) \in Nat
  BY LinesAre
<1>1. Part(offset, most, 0) = <<>>
  <2>1. Reach(0) = 0
    <3>1. CASE Len(lines) = 0
      BY <3>1, LinesAre, RingIs DEF Reach
    <3>2. CASE Len(lines) # 0
      <4>1. Begins(1) = 0
        BY <1>0, BeginsIs
      <4> QED
        BY <3>2, <4>1 DEF Reach
    <3> QED
      BY <3>1, <3>2
  <2>2. Least(most, Surplus(Reach(0), offset)) = 0
    BY <2>1 DEF Least, Surplus
  <2>3. Base + offset + 1 \in Nat \ {0}
    BY RingIs
  <2> QED
    BY <2>2, <2>3, NumbersAre DEF Part
<1>2. parts = [i \in 0 .. Len(lines) |->
                 IF i = 0 THEN <<>> ELSE Extend(offset, most, i, parts[i - 1])]
  <2>1. ASSUME NEW i \in 0 .. Len(lines)
        PROVE  Part(offset, most, i) =
                 IF i = 0 THEN <<>> ELSE Extend(offset, most, i, parts[i - 1])
    <3>1. CASE i = 0
      BY <1>1, <3>1
    <3>2. CASE i # 0
      <4>1. i - 1 \in 0 .. Len(lines) /\ i \in 1 .. Len(lines)
        BY <1>0, <3>2
      <4>2. parts[i - 1] = Part(offset, most, i - 1)
        BY <4>1
      <4> HIDE DEF parts
      <4> QED
        BY <3>2, <4>1, <4>2, PartExtends
    <3> QED
      BY <3>1, <3>2
  <2> QED
    BY <2>1
<1> HIDE DEF parts
<1>3. \E f : f = [i \in 0 .. Len(lines) |->
                    IF i = 0 THEN <<>> ELSE Extend(offset, most, i, f[i - 1])]
  BY <1>2
<1>4. Copies(offset, most) =
        CHOOSE f : f = [i \in 0 .. Len(lines) |->
                          IF i = 0 THEN <<>> ELSE Extend(offset, most, i, f[i - 1])]
  BY DEF Copies, Extend
<1>5. Copies(offset, most) =
        [i \in 0 .. Len(lines) |->
           IF i = 0 THEN <<>> ELSE Extend(offset, most, i, Copies(offset, most)[i - 1])]
  BY <1>3, <1>4, Zenon
<1> QED
  BY <1>5, Zenon

\* copyAsText() yields exactly the part of the text it is asked for: the log's bytes from
\* the offset on, as many as it may write or as there are (MemoryLogger.cpp:157).
THEOREM CopyIsPartOfText ==
  ASSUME Ring, NEW offset \in Nat, NEW most \in Nat
  PROVE  CopyAsText(offset, most) =
           Numbers(Base + offset + 1, Least(most, Surplus(Size, offset)))
<1> DEFINE Good == {n \in Nat : n <= Len(lines) =>
                      Copies(offset, most)[n] = Part(offset, most, n)}
<1>0. Len(lines) \in Nat
  BY LinesAre
<1>1. 0 \in Good
  <2>1. 0 \in 0 .. Len(lines)
    BY <1>0
  <2>2. Copies(offset, most)[0] = <<>>
    BY <2>1, CopiesEquation
  <2>3. Part(offset, most, 0) = <<>>
    <3>1. Reach(0) = 0
      BY <1>0, BeginsIs, LinesAre, RingIs DEF Reach
    <3>2. Least(most, Surplus(Reach(0), offset)) = 0
      BY <3>1 DEF Least, Surplus
    <3>3. Base + offset + 1 \in Nat \ {0}
      BY RingIs
    <3> QED
      BY <3>2, <3>3, NumbersAre DEF Part
  <2> QED
    BY <2>2, <2>3
<1>2. ASSUME NEW n \in Nat, n \in Good
      PROVE  n + 1 \in Good
  <2> SUFFICES ASSUME n + 1 <= Len(lines)
               PROVE  Copies(offset, most)[n + 1] = Part(offset, most, n + 1)
    OBVIOUS
  <2>1. Copies(offset, most)[n] = Part(offset, most, n)
    BY <1>0, <1>2
  <2>2. n + 1 \in 0 .. Len(lines) /\ n + 1 \in 1 .. Len(lines) /\ n + 1 # 0 /\ n + 1 - 1 = n
    BY <1>0
  <2> HIDE DEF Good
  <2>3. Copies(offset, most)[n + 1] = Extend(offset, most, n + 1, Copies(offset, most)[n])
    BY <2>2, CopiesEquation
  <2>4. Part(offset, most, n + 1) = Extend(offset, most, n + 1, Part(offset, most, n))
    BY <2>2, PartExtends
  <2> QED
    BY <2>1, <2>3, <2>4
<1>3. Nat \subseteq Good
  <2> HIDE DEF Good
  <2> QED
    BY <1>1, <1>2, Induction
<1>4. Copies(offset, most)[Len(lines)] = Part(offset, most, Len(lines))
  BY <1>0, <1>3
<1>5. Reach(Len(lines)) = Size
  BY DEF Reach
<1> QED
  BY <1>4, <1>5 DEF CopyAsText, Part

LEMMA CopyIs ==
  ASSUME Ring, NEW offset \in Nat, NEW most \in Nat,
         NEW copy, copy = CopyAsText(offset, most)
  PROVE  /\ copy \in Seq(Bytes) /\ Len(copy) \in Nat
         /\ Len(copy) = Least(most, Surplus(Size, offset))
         /\ \A i \in 1 .. Len(copy) : copy[i] = Base + offset + i
         /\ copy = <<>> <=> Len(copy) = 0
         /\ copy # <<>> => Head(copy) = Base + offset + 1 /\ Last(copy) = Base + offset + Len(copy)
         /\ Runs(copy)
<1>1. Base \in Nat /\ End \in Nat /\ End <= MaxText /\ Size = End - Base /\ Size \in Nat
  BY RingIs
<1>2. PICK count \in Nat : count = Least(most, Surplus(Size, offset))
  <2>1. Surplus(Size, offset) \in Nat
    BY <1>1, LeastIs
  <2> QED
    BY <2>1, LeastIs
<1>3. PICK first \in Nat \ {0} : first = Base + offset + 1
  BY <1>1
<1>4. copy = Numbers(first, count)
  BY <1>2, <1>3, CopyIsPartOfText
<1>5. /\ copy \in Seq(Nat) /\ Len(copy) = count
      /\ \A i \in 1 .. count : copy[i] = first + i - 1
      /\ count = 0 <=> copy = <<>>
  BY <1>4, NumbersAre
<1>6. ASSUME NEW i \in 1 .. count
      PROVE  copy[i] = Base + offset + i /\ copy[i] \in Bytes
  <2>1. copy[i] = Base + offset + i
    BY <1>1, <1>3, <1>5
  <2>2. offset + count <= Size
    BY <1>1, <1>2 DEF Least, Surplus
  <2>3. MaxText \in Nat
    BY LogAssumption
  <2> QED
    BY <1>1, <2>1, <2>2, <2>3 DEF Bytes
<1>7. copy \in Seq(Bytes)
  <2>1. copy \in [1 .. count -> Bytes]
    BY <1>5, <1>6
  <2> QED
    BY <2>1
<1>8. copy # <<>> => Head(copy) = Base + offset + 1 /\ Last(copy) = Base + offset + Len(copy)
  <2> SUFFICES ASSUME copy # <<>>
               PROVE  Head(copy) = Base + offset + 1 /\ Last(copy) = Base + offset + Len(copy)
    OBVIOUS
  <2>1. 1 \in 1 .. count /\ count \in 1 .. count
    BY <1>5
  <2>2. Head(copy) = copy[1]
    BY <1>5, EmptySeq
  <2> QED
    BY <1>5, <1>6, <2>1, <2>2 DEF Last
<1>9. Runs(copy)
  <2>1. ASSUME NEW i \in 2 .. count
        PROVE  copy[i] = copy[i - 1] + 1
    <3>1. i \in 1 .. count /\ i - 1 \in 1 .. count
      OBVIOUS
    <3> QED
      BY <1>1, <1>6, <3>1
  <2> QED
    BY <1>5, <2>1 DEF Runs
<1> QED
  BY <1>2, <1>5, <1>6, <1>7, <1>8, <1>9
-------------------------------------------------------------------------------
(* Types.                                                                  *)

LEMMA TypesAre ==
  /\ None \notin Text /\ None \notin Views /\ None \notin Joins /\ None \notin Tasks
  /\ None \notin Answers
  /\ Seq(Bytes) \subseteq Text /\ <<>> \in Seq(Bytes) /\ <<>> \in Text /\ <<Gap>> \in Text
  /\ Capacity \in Nat \ {0} /\ ChunkBytes \in Nat \ {0} /\ PageBytes \in Nat \ {0}
  /\ MaxLength \in Nat \ {0} /\ MaxText \in Nat \ {0}
<1>1. /\ None \notin Text /\ None \notin Views /\ None \notin Joins /\ None \notin Tasks
      /\ None \notin Answers
  BY NoneAssumption
<1>2. Seq(Bytes) \subseteq Text /\ <<>> \in Seq(Bytes)
  BY SeqMonotonic, EmptySeq DEF Text
<1>3. <<Gap>> \in Text
  <2>1. Gap \in Bytes \cup {Gap}
    OBVIOUS
  <2> QED
    BY <2>1 DEF Text
<1> QED
  BY <1>1, <1>2, <1>3, LogAssumption

LEMMA SizeIs == Ring => Size = End - Base
BY RingIs

LEMMA RingIsTyped ==
  ASSUME TypeOK
  PROVE  Ring
BY DEF TypeOK, Ring, Lines

\* A line that is logged leaves the ring one piece, further on in the log.
LEMMA LogIs ==
  ASSUME Ring, Len(lines) <= Capacity, Log
  PROVE  /\ Ring' /\ Len(lines') <= Capacity
         /\ Base' \in Nat /\ Base <= Base' /\ End' \in Nat /\ End <= End'
<1> USE TypesAre
<1>1. PICK length \in 1 .. MaxLength :
        /\ End + length + 1 <= MaxText
        /\ lines' = IF Len(lines) = Capacity THEN Tail(Logged(length)) ELSE Logged(length)
  BY DEF Log
<1>2. /\ Len(lines) \in Nat /\ Base \in Nat /\ End \in Nat /\ Base <= End
      /\ lines = <<>> <=> Len(lines) = 0
  BY LinesAre, RingIs
<1>3. PICK first \in Nat \ {0} : first = IF lines = <<>> THEN 1 ELSE End + 2
  BY <1>2
<1>4. PICK line : line = [first |-> first, last |-> first + length - 1]
  OBVIOUS
<1>5. Logged(length) = Append(lines, line)
  BY <1>3, <1>4 DEF Logged
<1>6. /\ line \in Lines /\ line.first = first /\ line.first <= line.last
      /\ line.last \in Nat /\ End <= line.last
  <2>1. length \in Nat /\ first \in Bytes /\ first + length - 1 \in Bytes
    BY <1>1, <1>2, <1>3, RingIs DEF Bytes
  <2> QED
    BY <1>2, <1>3, <1>4, <2>1, RingIs DEF Lines, Bytes
<1>7. PICK all : all = Append(lines, line)
  OBVIOUS
<1>8. /\ all \in Seq(Lines) /\ Len(all) = Len(lines) + 1
      /\ \A i \in 1 .. Len(lines) : all[i] = lines[i]
      /\ all[Len(lines) + 1] = line
      /\ all # <<>>
  BY <1>6, <1>7, AppendProperties DEF Ring
<1>9. \A i \in 1 .. Len(lines) + 1 : all[i].first <= all[i].last
  BY <1>2, <1>6, <1>8, LinesAre
<1>10. ASSUME NEW i \in 2 .. Len(lines) + 1
       PROVE  all[i].first = all[i - 1].last + 2
  <2>1. CASE i = Len(lines) + 1
    <3>1. i - 1 \in 1 .. Len(lines) /\ i - 1 = Len(lines) /\ lines # <<>>
      BY <1>2, <2>1
    <3>2. End = lines[Len(lines)].last
      BY <3>1 DEF End, Last
    <3> QED
      BY <1>3, <1>6, <1>8, <2>1, <3>1, <3>2
  <2>2. CASE i # Len(lines) + 1
    <3>1. i \in 2 .. Len(lines) /\ i \in 1 .. Len(lines) /\ i - 1 \in 1 .. Len(lines)
      BY <1>2, <2>2
    <3> QED
      BY <1>8, <3>1, LinesAre
  <2> QED
    BY <2>1, <2>2
<1>11. CASE Len(lines) # Capacity
  <2>1. lines' = all
    BY <1>1, <1>5, <1>7, <1>11
  <2>2. Ring'
    <3>1. DOMAIN all = 1 .. Len(lines) + 1
      BY <1>8, LenProperties
    <3> QED
      BY <1>8, <1>9, <1>10, <2>1, <3>1 DEF Ring
  <2>3. Len(lines') <= Capacity
    BY <1>2, <1>8, <1>11, <2>1
  <2>4. End' = line.last
    BY <1>8, <2>1 DEF End, Last
  <2>5. Base' = Base
    <3>1. Base' = all[1].first - 1
      BY <1>8, <2>1 DEF Base
    <3>2. CASE lines = <<>>
      <4>1. all[1] = line
        BY <1>2, <1>8, <3>2
      <4>2. Base = 0
        BY <3>2 DEF Base
      <4> QED
        BY <1>3, <1>6, <3>1, <3>2, <4>1, <4>2
    <3>3. CASE lines # <<>>
      <4>1. 1 \in 1 .. Len(lines)
        BY <1>2, <3>3
      <4>2. all[1] = lines[1]
        BY <1>8, <4>1
      <4>3. Base = lines[1].first - 1
        BY <3>3 DEF Base
      <4> QED
        BY <3>1, <4>2, <4>3
    <3> QED
      BY <3>2, <3>3
  <2> QED
    BY <1>2, <1>6, <2>2, <2>3, <2>4, <2>5
<1>12. CASE Len(lines) = Capacity
  <2>0. lines # <<>> /\ 1 \in 1 .. Len(lines)
    BY <1>2, <1>12
  <2>1. lines' = Tail(all)
    BY <1>1, <1>5, <1>7, <1>12
  <2>2. /\ lines' \in Seq(Lines) /\ Len(lines') = Len(lines)
        /\ \A i \in 1 .. Len(lines) : lines'[i] = all[i + 1]
    <3>1. /\ Tail(all) \in Seq(Lines) /\ Len(Tail(all)) = Len(all) - 1
          /\ \A i \in 1 .. Len(Tail(all)) : Tail(all)[i] = all[i + 1]
      BY <1>8, HeadTailProperties
    <3> QED
      BY <1>2, <1>8, <2>1, <3>1
  <2>3. Ring'
    <3>1. DOMAIN lines' = 1 .. Len(lines)
      BY <2>2, LenProperties
    <3>2. \A i \in 1 .. Len(lines) : lines'[i].first <= lines'[i].last
      BY <1>2, <1>9, <2>2
    <3>3. ASSUME NEW i \in 2 .. Len(lines)
          PROVE  lines'[i].first = lines'[i - 1].last + 2
      <4>1. /\ i \in 1 .. Len(lines) /\ i - 1 \in 1 .. Len(lines) /\ i + 1 \in 2 .. Len(lines) + 1
            /\ i + 1 - 1 = i /\ i - 1 + 1 = i
        BY <1>2
      <4>2. lines'[i] = all[i + 1] /\ lines'[i - 1] = all[i]
        BY <2>2, <4>1
      <4> QED
        BY <1>10, <4>1, <4>2
    <3> QED
      BY <2>2, <3>1, <3>2, <3>3 DEF Ring
  <2>4. lines' # <<>>
    BY <1>2, <2>0, <2>2, EmptySeq
  <2>5. End' = line.last
    BY <1>2, <1>8, <2>0, <2>2, <2>4 DEF End, Last
  <2>6. Base' = all[2].first - 1
    BY <2>0, <2>2, <2>4 DEF Base
  <2>7. all[2].first = lines[1].last + 2
    <3>1. 2 \in 2 .. Len(lines) + 1 /\ 2 - 1 = 1
      BY <1>2, <2>0
    <3> QED
      BY <1>8, <1>10, <2>0, <3>1
  <2>8. Base = lines[1].first - 1 /\ lines[1].first \in Nat /\ lines[1].last \in Nat
        /\ lines[1].first <= lines[1].last
    BY <2>0, LinesAre DEF Base
  <2>9. Base' \in Nat /\ Base <= Base'
    BY <1>2, <2>6, <2>7, <2>8
  <2> QED
    BY <1>2, <1>6, <1>12, <2>2, <2>3, <2>5, <2>9
<1> QED
  BY <1>11, <1>12

LEMMA ViewsAre ==
  ASSUME NEW view \in Views
  PROVE  /\ view # None /\ view.window \in Seq(Bytes) /\ view.rest \in Text
         /\ \A text \in Seq(Bytes) :
              /\ Window(text) \in Views
              /\ Window(text).window = text /\ Window(text).rest = <<>>
         /\ \A text \in Text :
              /\ Extended(view, text) \in Views
              /\ Extended(view, text).window = view.window
              /\ Extended(view, text).rest = view.rest \o text
<1> USE TypesAre
<1>1. view # None /\ view.window \in Seq(Bytes) /\ view.rest \in Text
  BY DEF Views
<1>2. ASSUME NEW text \in Seq(Bytes)
      PROVE  /\ Window(text) \in Views
             /\ Window(text).window = text /\ Window(text).rest = <<>>
  BY DEF Views, Window
<1>3. ASSUME NEW text \in Text
      PROVE  /\ Extended(view, text) \in Views
             /\ Extended(view, text).window = view.window
             /\ Extended(view, text).rest = view.rest \o text
  <2>1. view.rest \o text \in Text
    BY <1>1, ConcatProperties DEF Text
  <2> QED
    BY <2>1 DEF Views, Extended
<1> QED
  BY <1>1, <1>2, <1>3

\* What is copied for loopTask, and what each client has then been sent.
LEMMA ChunkIs ==
  ASSUME TypeOK, ReadChunk
  PROVE  \E copy \in Seq(Bytes) :
           /\ copy = CopyAsText(task.offset, Least(task.left, ChunkBytes))
           /\ task' = [task EXCEPT !.text =
                IF copy # <<>> /\ task.event = "log" /\ {origin, task.base, Base} # {Base}
                THEN <<Gap>> \o copy ELSE copy]
<1>1. task \in Tasks
  BY DEF TypeOK, ReadChunk
<1>2. task.offset \in Nat /\ Least(task.left, ChunkBytes) \in Nat
  BY <1>1, TypesAre, LeastIs DEF Tasks
<1>3. CopyAsText(task.offset, Least(task.left, ChunkBytes)) \in Seq(Bytes)
  BY <1>2, RingIsTyped, CopyIs
<1> QED
  BY <1>3 DEF ReadChunk

\* The cursor is where the text ended at some time.
CursorInv ==
  /\ origin + cursor <= End /\ origin <= Base
  /\ task # None => origin <= task.base /\ task.base <= Base

\* What a broadcast begins with.
LEMMA BroadcastIs ==
  ASSUME TypeOK, CursorInv, BroadcastStarts
  PROVE  task' \in Tasks /\ task'.offset + task'.left = task'.size
         /\ task'.base + task'.size <= End
         /\ (task'.event = "logs" => task'.left <= ChunkBytes) /\ task'.text = None
<1> USE TypesAre
<1>1. /\ Ring /\ Size \in Nat /\ Base \in Nat /\ End \in Nat /\ End <= MaxText /\ Base <= End
      /\ Size = End - Base
  BY RingIsTyped, RingIs
<1>2. PICK start \in Nat : start = IF cursor > Size THEN Surplus(Size, ChunkBytes) ELSE cursor
  <2>1. Surplus(Size, ChunkBytes) \in Nat
    BY <1>1, LeastIs
  <2> QED
    BY <2>1 DEF TypeOK
<1>3. task' = [event |-> IF cursor > Size THEN "logs" ELSE "log", offset |-> start,
               left |-> Size - start, size |-> Size, base |-> Base, text |-> None]
  BY <1>2 DEF BroadcastStarts
<1>4. Size - start \in Nat /\ (cursor > Size => Size - start <= ChunkBytes)
  BY <1>1, <1>2 DEF Surplus, BroadcastStarts, TypeOK
<1>5. Size - start # 0
  <2>1. CASE cursor > Size
    <3>1. Size # 0
      <4>1. ASSUME Size = 0 PROVE FALSE
        <5>1. lines # <<>> => Base < End
          BY <1>1, RingIs
        <5>2. lines = <<>>
          BY <1>1, <4>1, <5>1
        <5>3. End = 0
          BY <1>1, <5>2, RingIs
        <5>4. cursor \in Nat /\ origin \in Nat /\ origin + cursor <= End
          BY DEF TypeOK, CursorInv
        <5> QED
          BY <2>1, <4>1, <5>3, <5>4
      <4> QED
        BY <4>1
    <3> QED
      BY <1>1, <1>2, <2>1, <3>1 DEF Surplus
  <2>2. CASE ~(cursor > Size)
    BY <1>1, <1>2, <2>2 DEF BroadcastStarts, TypeOK
  <2> QED
    BY <2>1, <2>2
<1>6. task' \in Tasks /\ task'.offset + task'.left = task'.size
      /\ task'.base + task'.size <= End
      /\ (task'.event = "logs" => task'.left <= ChunkBytes) /\ task'.text = None
  BY <1>1, <1>2, <1>3, <1>4, <1>5 DEF Tasks
<1> QED
  BY <1>6

LEMMA TypeStep ==
  ASSUME TypeOK, CursorInv, [Next]_vars
  PROVE  TypeOK'
<1> USE TypesAre
<1>0. /\ Ring /\ Size \in Nat /\ Base \in Nat /\ End \in Nat /\ End <= MaxText /\ Base <= End
      /\ Size = End - Base
  BY RingIsTyped, RingIs
<1>1. CASE Log
  <2>1. Ring' /\ Len(lines') <= Capacity /\ End' \in Nat /\ End <= End'
    BY <1>0, <1>1, LogIs DEF TypeOK
  <2>2. UNCHANGED <<cursor, task, joining, answer, sent, origin>>
    BY <1>1 DEF Log
  <2>3. task # None => task.base + task.size <= End'
    BY <1>0, <2>1 DEF TypeOK, Tasks
  <2> QED
    BY <2>1, <2>2, <2>3 DEF TypeOK, Ring, Lines
<1>2. ASSUME NEW c \in Clients, Join(c)
      PROVE  TypeOK'
  <2>1. UNCHANGED <<lines, cursor, task, answer, origin>> /\ End' = End
    BY <1>2 DEF Join, End
  <2>2. Window(<<>>) \in Views
    BY DEF Window, Views
  <2>3. /\ sent' = [sent EXCEPT ![c] = Window(<<>>)]
        /\ joining' = IF Size = 0 THEN None ELSE [client |-> c, size |-> Size]
    BY <1>2 DEF Join
  <2>4. sent' \in [Clients -> Views \cup {None}] /\ sent'[c] # None
    BY <2>2, <2>3 DEF TypeOK
  <2>5. joining' \in Joins \cup {None} /\ (joining' # None => sent'[joining'.client] # None)
    BY <1>0, <2>3, <2>4 DEF Joins
  <2> QED
    BY <2>1, <2>4, <2>5 DEF TypeOK
<1>3. ASSUME NEW c \in Clients, Disconnect(c)
      PROVE  TypeOK'
  <2>1. UNCHANGED <<lines, cursor, task, joining, answer, origin>> /\ End' = End
    BY <1>3 DEF Disconnect, End
  <2>2. sent' = [sent EXCEPT ![c] = None] /\ ~Joining(c)
    BY <1>3 DEF Disconnect
  <2>3. sent' \in [Clients -> Views \cup {None}]
    BY <2>2 DEF TypeOK
  <2>4. joining # None => sent'[joining.client] # None
    BY <2>2 DEF TypeOK, Joins, Joining
  <2> QED
    BY <2>1, <2>3, <2>4 DEF TypeOK
<1>4. CASE SendInitialLogs
  <2>1. UNCHANGED <<lines, cursor, task, answer, origin>> /\ End' = End /\ joining' = None
    BY <1>4 DEF SendInitialLogs, End
  <2>2. joining \in Joins /\ joining.size \in Nat
    BY <1>4 DEF SendInitialLogs, TypeOK, Joins
  <2>3. PICK start \in Nat : start = Surplus(joining.size, ChunkBytes)
    BY <2>2, LeastIs
  <2>4. joining.size - start \in Nat
    BY <2>2, <2>3 DEF Surplus
  <2>5. PICK text : text = CopyAsText(start, joining.size - start)
    OBVIOUS
  <2>6. text \in Seq(Bytes)
    BY <1>0, <2>4, <2>5, CopyIs
  <2>7. sent' = [sent EXCEPT ![joining.client] = Window(text)]
    BY <1>4, <2>3, <2>5 DEF SendInitialLogs
  <2>8. Window(text) \in Views
    BY <2>6 DEF Window, Views
  <2>9. sent' \in [Clients -> Views \cup {None}]
    BY <2>7, <2>8 DEF TypeOK
  <2> QED
    BY <2>1, <2>9 DEF TypeOK
<1>5. CASE BroadcastStarts
  <2>1. UNCHANGED <<lines, cursor, joining, answer, sent, origin>> /\ End' = End
    BY <1>5 DEF BroadcastStarts, End
  <2> QED
    BY <1>5, <2>1, BroadcastIs DEF TypeOK
<1>6. CASE ReadChunk
  <2>1. UNCHANGED <<lines, cursor, joining, answer, sent, origin>> /\ End' = End
    BY <1>6 DEF ReadChunk, End
  <2>2. PICK copy \in Seq(Bytes) :
          task' = [task EXCEPT !.text =
            IF copy # <<>> /\ task.event = "log" /\ {origin, task.base, Base} # {Base}
            THEN <<Gap>> \o copy ELSE copy]
    BY <1>6, ChunkIs
  <2>3. <<Gap>> \o copy \in Text
    BY ConcatProperties DEF Text
  <2>4. task \in Tasks
    BY <1>6 DEF TypeOK, ReadChunk
  <2>5. PICK text \in Text :
          /\ task' = [task EXCEPT !.text = text]
          /\ task.event = "logs" => text \in Seq(Bytes)
    <3>1. CASE copy # <<>> /\ task.event = "log" /\ {origin, task.base, Base} # {Base}
      BY <2>2, <2>3, <3>1
    <3>2. CASE ~(copy # <<>> /\ task.event = "log" /\ {origin, task.base, Base} # {Base})
      BY <2>2, <3>2
    <3> QED
      BY <3>1, <3>2
  <2>6. /\ task' \in Tasks /\ task'.event = task.event /\ task'.offset = task.offset
        /\ task'.left = task.left /\ task'.size = task.size /\ task'.base = task.base
        /\ task'.text = text
    BY <2>4, <2>5 DEF Tasks
  <2> QED
    BY <2>1, <2>4, <2>5, <2>6 DEF TypeOK
<1>7. CASE SendChunk
  <2>1. UNCHANGED <<lines, joining, answer>> /\ End' = End /\ joining' = None
    BY <1>7 DEF SendChunk, End
  <2>2. task \in Tasks /\ task.text # None /\ task.text \in Text
    BY <1>7 DEF SendChunk, TypeOK, Tasks
  <2>3. sent' \in [Clients -> Views \cup {None}]
    <3>1. sent' = [c \in Clients |->
            IF sent[c] = None \/ task.text = <<>> THEN sent[c]
            ELSE IF task.event = "logs" THEN Window(task.text)
            ELSE Extended(sent[c], task.text)]
      BY <1>7 DEF SendChunk
    <3>2. ASSUME NEW c \in Clients, sent[c] # None
          PROVE  Extended(sent[c], task.text) \in Views
      <4>1. sent[c] \in Views
        BY <3>2 DEF TypeOK
      <4> QED
        BY <2>2, <4>1, ViewsAre
    <3>3. task.event = "logs" => Window(task.text) \in Views
      <4>1. task.event = "logs" => task.text \in Seq(Bytes)
        BY <2>2 DEF TypeOK
      <4> QED
        BY <4>1 DEF Window, Views
    <3>4. \A c \in Clients : sent[c] \in Views \cup {None}
      BY DEF TypeOK
    <3> QED
      BY <3>1, <3>2, <3>3, <3>4
  <2>4. CASE task.left > ChunkBytes
    <3>1. /\ task' = [task EXCEPT !.offset = @ + ChunkBytes, !.left = @ - ChunkBytes, !.text = None]
          /\ UNCHANGED <<cursor, origin>>
      BY <1>7, <2>4 DEF SendChunk
    <3>2. task.event # "logs"
      BY <2>2, <2>4 DEF TypeOK, Tasks
    <3>3. /\ task.offset + ChunkBytes \in Nat /\ task.left - ChunkBytes \in Nat \ {0}
          /\ task.offset + ChunkBytes + (task.left - ChunkBytes) = task.size
      BY <2>2, <2>4 DEF TypeOK, Tasks
    <3>4. /\ task'.event = task.event /\ task'.size = task.size /\ task'.base = task.base
          /\ task'.offset = task.offset + ChunkBytes /\ task'.left = task.left - ChunkBytes
          /\ task' \in Tasks
      BY <2>2, <3>1, <3>3 DEF Tasks
    <3>5. task.base + task.size <= End
      BY <2>2 DEF TypeOK
    <3> QED
      BY <2>1, <2>3, <3>1, <3>2, <3>3, <3>4, <3>5 DEF TypeOK
  <2>5. CASE ~(task.left > ChunkBytes)
    <3>1. task' = None /\ cursor' = task.size /\ origin' = task.base
      BY <1>7, <2>5 DEF SendChunk
    <3>2. task.base \in Nat /\ task.size \in Nat /\ task.base + task.size <= End
      BY <2>2 DEF TypeOK, Tasks
    <3>3. cursor' \in 0 .. MaxText /\ origin' \in 0 .. MaxText
      BY <1>0, <3>1, <3>2
    <3> QED
      BY <2>1, <2>3, <3>1, <3>3 DEF TypeOK
  <2> QED
    BY <2>4, <2>5
<1>8. CASE GetLogs
  <2>1. UNCHANGED <<lines, cursor, task, joining, sent, origin>> /\ End' = End
    BY <1>8 DEF GetLogs, End
  <2>2. answer' = [offset |-> Surplus(Size, PageBytes), size |-> Least(Size, PageBytes),
                 base |-> Base, text |-> <<>>]
    BY <1>8 DEF GetLogs
  <2>3. Surplus(Size, PageBytes) \in Nat /\ Least(Size, PageBytes) \in Nat
    BY <1>0, LeastIs
  <2>4. answer' \in Answers /\ Len(answer'.text) <= answer'.size
    BY <1>0, <2>2, <2>3 DEF Answers
  <2> QED
    BY <2>1, <2>4 DEF TypeOK
<1>9. CASE SendAnswer
  <2>1. UNCHANGED <<lines, cursor, task, joining, sent, origin>> /\ End' = End
    BY <1>9 DEF SendAnswer, End
  <2>2. PICK most \in 1 .. PageBytes :
          answer' = IF Len(answer.text) = answer.size \/ Fill(most) = <<>> THEN None
                  ELSE [answer EXCEPT !.text = @ \o Fill(most)]
    BY <1>9 DEF SendAnswer
  <2>3. answer \in Answers /\ Len(answer.text) \in Nat /\ Len(answer.text) <= answer.size
    BY <1>9, LenProperties DEF SendAnswer, TypeOK, Answers
  <2>4. PICK chunk \in Nat : chunk = Least(answer.size - Len(answer.text), most)
    BY <2>3, LeastIs DEF Answers
  <2>5. answer.offset + Len(answer.text) \in Nat
    BY <2>3 DEF Answers
  <2>6. /\ Fill(most) \in Seq(Bytes) /\ Len(Fill(most)) \in Nat /\ Len(Fill(most)) <= chunk
    <3>1. Fill(most) = CopyAsText(answer.offset + Len(answer.text), chunk)
      BY <2>4 DEF Fill
    <3>2. /\ Fill(most) \in Seq(Bytes) /\ Len(Fill(most)) \in Nat
          /\ Len(Fill(most)) = Least(chunk, Surplus(Size, answer.offset + Len(answer.text)))
      BY <1>0, <2>5, <3>1, CopyIs
    <3>3. Surplus(Size, answer.offset + Len(answer.text)) \in Nat
      BY <1>0, <2>5, LeastIs
    <3> QED
      BY <3>2, <3>3, LeastIs
  <2>7. /\ answer.text \o Fill(most) \in Seq(Bytes)
        /\ Len(answer.text \o Fill(most)) = Len(answer.text) + Len(Fill(most))
    BY <2>3, <2>6, ConcatProperties DEF Answers
  <2>8. Len(answer.text) + Len(Fill(most)) <= answer.size
    BY <2>3, <2>4, <2>6 DEF Least, Answers
  <2>9. answer' \in Answers \cup {None} /\ (answer' # None => Len(answer'.text) <= answer'.size)
    BY <2>2, <2>3, <2>7, <2>8 DEF Answers
  <2> QED
    BY <2>1, <2>9 DEF TypeOK
<1>10. CASE UNCHANGED vars
  BY <1>10 DEF vars, TypeOK, End
<1> QED
  BY <1>1, <1>2, <1>3, <1>4, <1>5, <1>6, <1>7, <1>8, <1>9, <1>10 DEF Next

\* The ring moves on, and everything else of the invariant with loopTask.
LEMMA CursorStep ==
  ASSUME TypeOK, CursorInv, [Next]_vars
  PROVE  CursorInv' /\ Base' \in Nat /\ Base <= Base' /\ End' \in Nat /\ End <= End'
<1>0. /\ Ring /\ Size \in Nat /\ Base \in Nat /\ End \in Nat /\ Base <= End
      /\ Size = End - Base
      /\ cursor \in Nat /\ origin \in Nat
  BY RingIsTyped, RingIs DEF TypeOK
<1>1. task # None =>
        /\ task.base \in Nat /\ task.size \in Nat /\ task.base + task.size <= End
        /\ origin <= task.base /\ task.base <= Base
  BY DEF TypeOK, CursorInv, Tasks
<1>2. CASE Log
  <2>1. Base' \in Nat /\ Base <= Base' /\ End' \in Nat /\ End <= End'
    BY <1>0, <1>2, LogIs DEF TypeOK
  <2>2. UNCHANGED <<cursor, task, origin>>
    BY <1>2 DEF Log
  <2> QED
    BY <1>0, <1>1, <2>1, <2>2 DEF CursorInv
<1>3. CASE UNCHANGED lines
  <2>0. Base' = Base /\ End' = End
    BY <1>3 DEF Base, End
  <2>1. CASE UNCHANGED <<cursor, origin, task>>
    BY <1>0, <2>0, <2>1 DEF CursorInv
  <2>2. CASE BroadcastStarts
    <3>1. UNCHANGED <<cursor, origin>> /\ task'.base = Base
      BY <2>2 DEF BroadcastStarts
    <3> QED
      BY <1>0, <2>0, <3>1 DEF CursorInv
  <2>3. CASE ReadChunk
    <3>1. task \in Tasks
      BY <2>3 DEF ReadChunk, TypeOK
    <3>2. UNCHANGED <<cursor, origin>> /\ task'.base = task.base /\ task # None
      BY <2>3, <3>1, ChunkIs DEF ReadChunk, Tasks
    <3> QED
      BY <1>0, <1>1, <2>0, <3>2 DEF CursorInv
  <2>4. CASE SendChunk
    <3>1. task \in Tasks /\ task # None
      BY <2>4 DEF SendChunk, TypeOK
    <3>2. CASE task.left > ChunkBytes
      <4>1. UNCHANGED <<cursor, origin>> /\ task'.base = task.base
        BY <2>4, <3>1, <3>2 DEF SendChunk, Tasks
      <4> QED
        BY <1>0, <1>1, <2>0, <3>1, <4>1 DEF CursorInv
    <3>3. CASE ~(task.left > ChunkBytes)
      <4>1. task' = None /\ cursor' = task.size /\ origin' = task.base
        BY <2>4, <3>3 DEF SendChunk
      <4> QED
        BY <1>0, <1>1, <2>0, <3>1, <4>1 DEF CursorInv
    <3> QED
      BY <3>2, <3>3
  <2>5. BroadcastStarts \/ ReadChunk \/ SendChunk \/ UNCHANGED <<cursor, origin, task>> \/ Log
    BY DEF Next, vars, Join, Disconnect, SendInitialLogs, GetLogs, SendAnswer
  <2> QED
    BY <1>2, <2>1, <2>2, <2>3, <2>4, <2>5, <1>0, <2>0
<1>4. Log \/ UNCHANGED lines
  BY DEF Next, vars, Join, Disconnect, SendInitialLogs, BroadcastStarts, ReadChunk, SendChunk,
         GetLogs, SendAnswer
<1> QED
  BY <1>0, <1>2, <1>3, <1>4 DEF Base, End

\* The ring is one piece of the log that ends where the log does, of no more lines than
\* allowed, and nobody works on more than a part of it (MemoryLogger::append).
THEOREM TypeCorrect == Spec => [](TypeOK /\ CursorInv)
<1>1. Init => TypeOK /\ CursorInv
  <2> SUFFICES ASSUME Init PROVE TypeOK /\ CursorInv
    OBVIOUS
  <2>1. <<>> \in Seq([first : Bytes, last : Bytes]) /\ Len(<<>>) = 0 /\ DOMAIN <<>> = {}
    BY EmptySeq
  <2>2. TypeOK
    BY <2>1, TypesAre DEF Init, TypeOK
  <2>3. CursorInv
    BY DEF Init, CursorInv, Base, End
  <2> QED
    BY <2>2, <2>3
<1>2. TypeOK /\ CursorInv /\ [Next]_vars => (TypeOK /\ CursorInv)'
  BY TypeStep, CursorStep
<1> QED
  BY <1>1, <1>2, PTL DEF Spec
-------------------------------------------------------------------------------
(* The stream. What holds of a chunk that was read, of a client that joins, of the clients *)
(* during a broadcast and between two, and of an answer to GET /api/logs.                *)

\* A chunk that does not begin with a gap begins where the ring's text did when the cursor
\* was set, and one that was read while the ring stood still ends where it should.
ChunkInv ==
  task # None /\ task.text # None =>
    /\ Runs(task.text)
    /\ task.text # <<>> => Last(task.text) # Gap
    /\ task.text # <<>> /\ task.event = "log" /\ Head(task.text) # Gap =>
         origin = task.base /\ Head(task.text) = task.base + task.offset + 1
    /\ task.base = Base =>
         /\ task.text # <<>>
         /\ Last(task.text) = task.base + task.offset + Least(task.left, ChunkBytes)

\* The size a joining client was given reaches as far as what was broadcast.
JoinInv ==
  joining # None =>
    /\ Base + joining.size >= origin + cursor
    /\ origin = Base => joining.size <= Size
    /\ task # None /\ task.event = "log" /\ task.base = origin =>
         Base + joining.size >= task.base + task.offset

\* The next chunk will not begin, or does not begin, with a gap.
Intact ==
  /\ task # None /\ task.event = "log" /\ origin = task.base
  /\ IF task.text = None THEN task.base = Base ELSE task.text # <<>> /\ Head(task.text) # Gap

\* What a client was sent ends where the next chunk begins, or a window ends after that.
Continues(view, byte) ==
  /\ view.rest # <<>> => Last(view.rest) = byte
  /\ view.rest = <<>> /\ view.window # <<>> => Last(view.window) >= byte

IntactInv ==
  Intact => \A c \in Connected : Joining(c) \/ Continues(sent[c], task.base + task.offset)

IdleInv ==
  task = None /\ origin = Base =>
    \A c \in Connected :
      \/ Joining(c)
      \/ Continues(sent[c], origin + cursor) /\ Reached(sent[c]) >= origin + cursor

NoTear(view) ==
  /\ Runs(view.window) /\ Runs(view.rest)
  /\ view.window # <<>> /\ view.rest # <<>> /\ Head(view.rest) # Gap
       => Head(view.rest) <= Last(view.window) + 1

ViewInv == \A c \in Connected : NoTear(sent[c])

AnswerInv ==
  answer # None =>
    /\ answer.base <= Base
    /\ answer.base = Base =>
         \A i \in 1 .. Len(answer.text) : answer.text[i] = answer.base + answer.offset + i

StreamInv == ChunkInv /\ JoinInv /\ IntactInv /\ IdleInv /\ ViewInv /\ AnswerInv

LEMMA TextsJoin ==
  ASSUME NEW a \in Text, NEW b \in Text
  PROVE  /\ a = <<>> => a \o b = b
         /\ b = <<>> => a \o b = a
         /\ a # <<>> => a \o b # <<>> /\ Head(a \o b) = Head(a)
         /\ b # <<>> => a \o b # <<>> /\ Last(a \o b) = Last(b)
         /\ Runs(a) /\ Runs(b) /\ (a # <<>> /\ b # <<>> => Last(a) = Gap \/ Head(b) \in {Gap, Last(a) + 1})
              => Runs(a \o b)
<1>1. /\ Len(a) \in Nat /\ Len(b) \in Nat
      /\ a = <<>> <=> Len(a) = 0
      /\ b = <<>> <=> Len(b) = 0
  BY LenProperties, EmptySeq DEF Text
<1>2. PICK c \in Text : c = a \o b
  BY ConcatProperties DEF Text
<1>3. /\ Len(c) = Len(a) + Len(b)
      /\ \A i \in 1 .. Len(a) + Len(b) : c[i] = IF i <= Len(a) THEN a[i] ELSE b[i - Len(a)]
  BY <1>2, ConcatProperties DEF Text
<1>4. c = <<>> <=> Len(c) = 0
  BY EmptySeq DEF Text
<1>5. (a = <<>> => c = b) /\ (b = <<>> => c = a)
  BY <1>2, ConcatEmptySeq DEF Text
<1>6. ASSUME a # <<>>
      PROVE  c # <<>> /\ Head(c) = Head(a)
  <2>1. c # <<>> /\ 1 \in 1 .. Len(a) + Len(b) /\ 1 <= Len(a)
    BY <1>1, <1>3, <1>4, <1>6
  <2>2. c[1] = a[1]
    BY <1>3, <2>1
  <2>3. Head(c) = c[1] /\ Head(a) = a[1]
    BY <1>6, <2>1 DEF Text
  <2> QED
    BY <2>1, <2>2, <2>3
<1>7. ASSUME b # <<>>
      PROVE  c # <<>> /\ Last(c) = Last(b)
  <2>1. /\ c # <<>> /\ Len(a) + Len(b) \in 1 .. Len(a) + Len(b) /\ ~(Len(a) + Len(b) <= Len(a))
        /\ Len(a) + Len(b) - Len(a) = Len(b)
    BY <1>1, <1>3, <1>4, <1>7
  <2>2. c[Len(a) + Len(b)] = b[Len(b)]
    BY <1>3, <2>1
  <2> QED
    BY <1>3, <2>1, <2>2 DEF Last
<1>8. ASSUME Runs(a), Runs(b), a # <<>> /\ b # <<>> => Last(a) = Gap \/ Head(b) \in {Gap, Last(a) + 1}
      PROVE  Runs(c)
  <2> SUFFICES ASSUME NEW i \in 2 .. Len(c)
               PROVE  c[i] = c[i - 1] + 1 \/ Gap \in {c[i - 1], c[i]}
    BY DEF Runs
  <2>0. i \in 1 .. Len(a) + Len(b) /\ i - 1 \in 1 .. Len(a) + Len(b)
    BY <1>1, <1>3
  <2>1. CASE i <= Len(a)
    <3>1. c[i] = a[i] /\ c[i - 1] = a[i - 1] /\ i \in 2 .. Len(a)
      BY <1>1, <1>3, <2>0, <2>1
    <3> QED
      BY <1>8, <3>1 DEF Runs
  <2>2. CASE i = Len(a) + 1
    <3>1. c[i] = b[1] /\ c[i - 1] = a[Len(a)] /\ a # <<>> /\ b # <<>>
      BY <1>1, <1>3, <2>0, <2>2
    <3>2. Head(b) = b[1] /\ Last(a) = a[Len(a)]
      BY <3>1 DEF Last, Text
    <3> QED
      BY <1>8, <3>1, <3>2
  <2>3. CASE i > Len(a) + 1
    <3>1. i - Len(a) \in 2 .. Len(b) /\ i - 1 - Len(a) = i - Len(a) - 1
          /\ ~(i <= Len(a)) /\ ~(i - 1 <= Len(a))
      BY <1>1, <2>0, <2>3
    <3>2. c[i] = b[i - Len(a)] /\ c[i - 1] = b[i - Len(a) - 1]
      BY <1>3, <2>0, <3>1
    <3> QED
      BY <1>8, <3>1, <3>2 DEF Runs
  <2>4. i <= Len(a) \/ i = Len(a) + 1 \/ i > Len(a) + 1
    BY <1>1
  <2> QED
    BY <2>1, <2>2, <2>3, <2>4
<1> QED
  BY <1>2, <1>5, <1>6, <1>7, <1>8

\* What each client has been sent after a chunk.
LEMMA SentIs ==
  ASSUME TypeOK, SendChunk, NEW c \in Clients
  PROVE  /\ task \in Tasks /\ task # None /\ task.text \in Text
         /\ task.base \in Nat /\ task.offset \in Nat /\ task.left \in Nat /\ task.size \in Nat
         /\ task.offset + task.left = task.size
         /\ sent'[c] = IF sent[c] = None \/ task.text = <<>> THEN sent[c]
                       ELSE IF task.event = "logs" THEN Window(task.text)
                       ELSE Extended(sent[c], task.text)
         /\ sent'[c] # None => sent[c] # None /\ sent[c] \in Views
         /\ task.event = "logs" =>
              /\ task.left <= ChunkBytes
              /\ Window(task.text).window = task.text /\ Window(task.text).rest = <<>>
<1>1. task \in Tasks /\ task # None /\ task.text \in Text /\ task.text # None
  BY DEF SendChunk, TypeOK, Tasks
<1>2. sent'[c] = IF sent[c] = None \/ task.text = <<>> THEN sent[c]
                 ELSE IF task.event = "logs" THEN Window(task.text)
                 ELSE Extended(sent[c], task.text)
  BY DEF SendChunk
<1>3. sent'[c] # None => sent[c] # None /\ sent[c] \in Views
  BY <1>2 DEF TypeOK
<1>4. task.event = "logs" =>
        /\ task.left <= ChunkBytes
        /\ Window(task.text).window = task.text /\ Window(task.text).rest = <<>>
  BY <1>1 DEF TypeOK, Window
<1>5. /\ task.base \in Nat /\ task.offset \in Nat /\ task.left \in Nat /\ task.size \in Nat
      /\ task.offset + task.left = task.size
  BY <1>1 DEF TypeOK, Tasks
<1> QED
  BY <1>1, <1>2, <1>3, <1>4, <1>5

\* What the steps of the stream rest on.
LEMMA FactsAre ==
  ASSUME TypeOK, CursorInv
  PROVE  /\ Ring /\ Base \in Nat /\ End \in Nat /\ Size \in Nat /\ Size = End - Base /\ Base <= End
         /\ cursor \in Nat /\ origin \in Nat /\ origin + cursor <= End /\ origin <= Base
         /\ task # None =>
              /\ task \in Tasks
              /\ task.base \in Nat /\ task.offset \in Nat /\ task.left \in Nat \ {0}
              /\ task.size \in Nat /\ task.offset + task.left = task.size
              /\ task.base + task.size <= End /\ origin <= task.base /\ task.base <= Base
         /\ joining # None =>
              joining \in Joins /\ joining.client \in Clients /\ joining.size \in Nat \ {0}
         /\ \A c \in Connected : c \in Clients /\ sent[c] \in Views /\ sent[c] # None
         /\ ChunkBytes \in Nat \ {0}
<1>1. task # None =>
        /\ task \in Tasks
        /\ task.base \in Nat /\ task.offset \in Nat /\ task.left \in Nat \ {0}
        /\ task.size \in Nat /\ task.offset + task.left = task.size
        /\ task.base + task.size <= End /\ origin <= task.base /\ task.base <= Base
  BY DEF TypeOK, CursorInv, Tasks
<1>2. joining # None => joining \in Joins /\ joining.client \in Clients /\ joining.size \in Nat \ {0}
  BY DEF TypeOK, Joins
<1>3. \A c \in Connected : c \in Clients /\ sent[c] \in Views /\ sent[c] # None
  BY DEF TypeOK, Connected
<1> QED
  BY <1>1, <1>2, <1>3, RingIsTyped, RingIs, TypesAre DEF TypeOK, CursorInv

LEMMA RingStandsStill ==
  ASSUME UNCHANGED lines
  PROVE  Base' = Base /\ End' = End /\ Size' = Size
BY DEF Base, End, Size, offsetOf, Count

LEMMA ChunkStep ==
  ASSUME TypeOK, CursorInv, ChunkInv, [Next]_vars
  PROVE  ChunkInv'
<1>0. Base \in Nat /\ Base' \in Nat /\ Base <= Base' /\ (task # None => task.base <= Base)
      /\ (task # None => task.base \in Nat)
  BY CursorStep, FactsAre
<1>1. CASE UNCHANGED <<task, origin>>
  <2>1. task # None /\ task.base = Base' => task.base = Base
    BY <1>0
  <2> QED
    BY <1>1, <2>1 DEF ChunkInv
<1>2. CASE BroadcastStarts
  <2>1. task'.text = None
    BY <1>2 DEF BroadcastStarts
  <2> QED
    BY <2>1 DEF ChunkInv
<1>3. CASE ReadChunk
  <2>1. /\ task \in Tasks /\ task # None /\ Ring
        /\ task.offset \in Nat /\ task.left \in Nat \ {0} /\ task.size \in Nat /\ task.base \in Nat
        /\ task.offset + task.left = task.size /\ task.base + task.size <= End
        /\ Base \in Nat /\ End \in Nat /\ Size = End - Base /\ Size \in Nat
        /\ ChunkBytes \in Nat \ {0}
    BY <1>3, FactsAre DEF ReadChunk
  <2>2. PICK copy \in Seq(Bytes) :
          /\ copy = CopyAsText(task.offset, Least(task.left, ChunkBytes))
          /\ task' = [task EXCEPT !.text =
               IF copy # <<>> /\ task.event = "log" /\ {origin, task.base, Base} # {Base}
               THEN <<Gap>> \o copy ELSE copy]
    BY <1>3, ChunkIs
  <2>3. PICK most \in Nat : most = Least(task.left, ChunkBytes)
    BY <2>1, LeastIs
  <2>4. /\ Len(copy) = Least(most, Surplus(Size, task.offset))
        /\ copy = <<>> <=> Len(copy) = 0
        /\ copy # <<>> => /\ Head(copy) = Base + task.offset + 1
                          /\ Last(copy) = Base + task.offset + Len(copy)
        /\ Runs(copy) /\ Len(copy) \in Nat
    <3>1. copy = CopyAsText(task.offset, most) /\ task.offset \in Nat /\ Ring
      BY <2>1, <2>2, <2>3
    <3>2. /\ Len(copy) = Least(most, Surplus(Size, task.offset))
          /\ Runs(copy) /\ Len(copy) \in Nat
      BY <3>1, CopyIs
    <3>3. copy = <<>> <=> Len(copy) = 0
      BY <3>1, CopyIs
    <3>4. copy # <<>> => /\ Head(copy) = Base + task.offset + 1
                         /\ Last(copy) = Base + task.offset + Len(copy)
      BY <3>1, CopyIs
    <3> QED
      BY <3>2, <3>3, <3>4
  <2>5. UNCHANGED <<lines, origin>> /\ Base' = Base
    BY <1>3, RingStandsStill DEF ReadChunk
  <2>6. PICK text \in Text :
          /\ text = IF copy # <<>> /\ task.event = "log" /\ {origin, task.base, Base} # {Base}
                    THEN <<Gap>> \o copy ELSE copy
          /\ task' = [task EXCEPT !.text = text]
    <3>1. <<Gap>> \o copy \in Text
      BY TypesAre, ConcatProperties DEF Text
    <3> QED
      BY <2>2, <3>1, TypesAre
  <2>7. /\ task'.event = task.event /\ task'.offset = task.offset /\ task'.left = task.left
        /\ task'.base = task.base /\ task'.text = text
    BY <2>1, <2>6 DEF Tasks
  <2>8. task.base = Base => copy # <<>> /\ Last(copy) = task.base + task.offset + most
    <3> SUFFICES ASSUME task.base = Base
                 PROVE  copy # <<>> /\ Last(copy) = task.base + task.offset + most
      OBVIOUS
    <3>1. task.offset + task.left <= Size /\ task.left # 0
      BY <2>1
    <3>2. most # 0 /\ most <= task.left
      BY <2>1, <2>3 DEF Least
    <3>3. Surplus(Size, task.offset) = Size - task.offset /\ most <= Size - task.offset
      BY <2>1, <2>3, <3>1, <3>2 DEF Surplus
    <3>4. Len(copy) = most
      <4>1. PICK room \in Int : room = Size - task.offset
        BY <2>1
      <4>2. Len(copy) = Least(most, room) /\ most <= room
        BY <2>4, <3>3, <4>1
      <4> QED
        BY <4>2 DEF Least
    <3> QED
      BY <2>4, <3>2, <3>4
  <2>9. CASE copy # <<>> /\ task.event = "log" /\ {origin, task.base, Base} # {Base}
    <3>1. text = <<Gap>> \o copy
      BY <2>6, <2>9
    <3>2. <<Gap>> \in Text /\ <<Gap>> # <<>> /\ Head(<<Gap>>) = Gap /\ Last(<<Gap>>) = Gap
          /\ Runs(<<Gap>>) /\ copy \in Text
      BY TypesAre DEF Last, Runs
    <3>3. Last(copy) # Gap
      BY <2>1, <2>4, <2>9 DEF Gap
    <3>4. text # <<>> /\ Head(text) = Gap /\ Last(text) = Last(copy)
      BY <2>9, <3>1, <3>2, TextsJoin
    <3>5. Runs(text)
      BY <2>4, <3>1, <3>2, TextsJoin
    <3> QED
      BY <2>3, <2>5, <2>7, <2>8, <3>3, <3>4, <3>5 DEF ChunkInv
  <2>10. CASE ~(copy # <<>> /\ task.event = "log" /\ {origin, task.base, Base} # {Base})
    <3>1. text = copy
      BY <2>6, <2>10
    <3>2. copy # <<>> => Last(copy) # Gap
      BY <2>1, <2>4 DEF Gap
    <3>3. copy # <<>> /\ task.event = "log" =>
            origin = task.base /\ Head(copy) = task.base + task.offset + 1
      <4> SUFFICES ASSUME copy # <<>>, task.event = "log"
                   PROVE  origin = task.base /\ Head(copy) = task.base + task.offset + 1
        OBVIOUS
      <4>1. {origin, task.base, Base} = {Base}
        BY <2>10
      <4>2. origin = Base /\ task.base = Base
        BY <4>1
      <4> QED
        BY <2>4, <4>2
    <3> QED
      BY <2>3, <2>4, <2>5, <2>7, <2>8, <3>1, <3>2, <3>3 DEF ChunkInv
  <2> QED
    BY <2>9, <2>10
<1>4. CASE SendChunk
  <2>1. task' = None \/ task'.text = None
    <3>1. task \in Tasks
      BY <1>4, FactsAre DEF SendChunk
    <3> QED
      BY <1>4, <3>1 DEF SendChunk, Tasks
  <2> QED
    BY <2>1 DEF ChunkInv
<1> QED
  BY <1>1, <1>2, <1>3, <1>4
  DEF Next, vars, Log, Join, Disconnect, SendInitialLogs, GetLogs, SendAnswer

LEMMA JoinStep ==
  ASSUME TypeOK, CursorInv, JoinInv, [Next]_vars
  PROVE  JoinInv'
<1> USE FactsAre
<1>1. CASE Log
  <2>1. /\ Base' \in Nat /\ Base <= Base' /\ End' \in Nat /\ End <= End'
        /\ Size' = End' - Base'
    <3>1. Ring'
      BY <1>1, LogIs DEF TypeOK
    <3>2. (Size = End - Base)'
      BY <3>1, SizeIs, PTL
    <3> QED
      BY <1>1, <3>2, CursorStep
  <2>2. UNCHANGED <<cursor, task, joining, origin>>
    BY <1>1 DEF Log
  <2>3. joining # None /\ origin = Base' => origin = Base
    BY <2>1
  <2> QED
    BY <2>1, <2>2, <2>3 DEF JoinInv
<1>2. ASSUME NEW c \in Clients, Join(c)
      PROVE  JoinInv'
  <2>1. UNCHANGED <<lines, cursor, task, origin>> /\ Base' = Base /\ Size' = Size
    BY <1>2, RingStandsStill DEF Join
  <2>2. joining' # None => joining'.size = Size
    BY <1>2 DEF Join
  <2>3. task # None => task.base + task.offset <= End
    OBVIOUS
  <2> QED
    BY <2>1, <2>2, <2>3 DEF JoinInv
<1>3. CASE SendInitialLogs
  BY <1>3 DEF SendInitialLogs, JoinInv
<1>4. CASE BroadcastStarts
  <2>1. UNCHANGED <<lines, cursor, joining, origin>> /\ Base' = Base /\ Size' = Size
    BY <1>4, RingStandsStill DEF BroadcastStarts
  <2>2. task'.event = "log" => task'.offset = cursor
    BY <1>4 DEF BroadcastStarts
  <2>3. task'.base = Base
    BY <1>4 DEF BroadcastStarts
  <2> QED
    BY <2>1, <2>2, <2>3 DEF JoinInv
<1>5. CASE ReadChunk
  <2>1. UNCHANGED <<lines, cursor, joining, origin>> /\ Base' = Base /\ Size' = Size
    BY <1>5, RingStandsStill DEF ReadChunk
  <2>2. task # None /\ task \in Tasks
    BY <1>5 DEF ReadChunk
  <2>3. task'.event = task.event /\ task'.offset = task.offset /\ task'.base = task.base
    BY <1>5, <2>2, ChunkIs DEF Tasks
  <2> QED
    BY <2>1, <2>2, <2>3 DEF JoinInv
<1>6. CASE SendChunk
  BY <1>6 DEF SendChunk, JoinInv
<1>7. CASE (\E c \in Clients : Disconnect(c)) \/ GetLogs \/ SendAnswer \/ UNCHANGED vars
  <2>1. UNCHANGED <<lines, cursor, task, joining, origin>>
    BY <1>7 DEF Disconnect, GetLogs, SendAnswer, vars
  <2>2. Base' = Base /\ Size' = Size
    BY <2>1, RingStandsStill
  <2> QED
    BY <2>1, <2>2 DEF JoinInv
<1> QED
  BY <1>1, <1>2, <1>3, <1>4, <1>5, <1>6, <1>7 DEF Next

\* The window a client gets when it joins.
LEMMA FirstWindowIs ==
  ASSUME TypeOK, CursorInv, JoinInv, SendInitialLogs
  PROVE  \E text \in Seq(Bytes) :
           /\ sent' = [sent EXCEPT ![joining.client] = Window(text)]
           /\ Runs(text)
           /\ text # <<>> => Last(text) = Base + Least(joining.size, Size)
           /\ origin = Base /\ joining.size # 0 => text # <<>> /\ joining.size <= Size
<1>0. /\ joining # None /\ joining.size \in Nat /\ Ring /\ Base \in Nat /\ Size \in Nat
      /\ ChunkBytes \in Nat \ {0}
  BY FactsAre DEF SendInitialLogs
<1>1. PICK size \in Nat : size = joining.size
  BY <1>0
<1>2. PICK start \in Nat : start = Surplus(size, ChunkBytes)
  BY <1>0, LeastIs
<1>3. PICK most \in Nat : most = size - start
  BY <1>0, <1>2 DEF Surplus
<1>4. PICK text : text = CopyAsText(start, most)
  OBVIOUS
<1>5. sent' = [sent EXCEPT ![joining.client] = Window(text)]
  BY <1>1, <1>2, <1>3, <1>4 DEF SendInitialLogs
<1>6. text \in Seq(Bytes) /\ Runs(text) /\ Len(text) \in Nat
  BY <1>0, <1>4, CopyIs
<1>7. Len(text) = Least(most, Surplus(Size, start)) /\ (text = <<>> <=> Len(text) = 0)
  <2>1. Len(text) = Least(most, Surplus(Size, start))
    BY <1>0, <1>4, CopyIs
  <2>2. text = <<>> <=> Len(text) = 0
    BY <1>0, <1>4, CopyIs
  <2> QED
    BY <2>1, <2>2
<1>8. text # <<>> => Head(text) = Base + start + 1 /\ Last(text) = Base + start + Len(text)
  <2>1. Ring /\ text = CopyAsText(start, most)
    BY <1>0, <1>4
  <2>2. text # <<>> => Head(text) = Base + start + 1
    BY <2>1, CopyIs
  <2>3. text # <<>> => Last(text) = Base + start + Len(text)
    BY <2>1, CopyIs
  <2> QED
    BY <2>2, <2>3
<1>9. ASSUME text # <<>>
      PROVE  Last(text) = Base + Least(size, Size)
  <2>1. start + Len(text) = Least(size, Size)
    BY <1>0, <1>3, <1>6, <1>7, <1>9 DEF Least, Surplus
  <2> QED
    BY <1>0, <1>6, <1>8, <1>9, <2>1
<1>10. ASSUME origin = Base, size # 0
       PROVE  text # <<>> /\ size <= Size
  <2>1. size <= Size
    BY <1>0, <1>1, <1>10 DEF JoinInv
  <2>2. most # 0
    BY <1>0, <1>2, <1>3, <1>10 DEF Surplus
  <2>3. Len(text) # 0
    BY <1>0, <1>3, <1>7, <2>1, <2>2 DEF Least, Surplus
  <2> QED
    BY <1>7, <2>1, <2>3
<1> QED
  BY <1>1, <1>5, <1>6, <1>9, <1>10

LEMMA IntactStep ==
  ASSUME TypeOK, CursorInv, ChunkInv, JoinInv, IntactInv, IdleInv, [Next]_vars
  PROVE  IntactInv'
<1> SUFFICES ASSUME Intact', NEW c \in Clients, sent'[c] # None, ~Joining(c)'
             PROVE  Continues(sent'[c], task'.base + task'.offset)
  BY DEF IntactInv, Connected
<1>0. Base \in Nat /\ Base' \in Nat /\ Base <= Base' /\ (task # None => task.base <= Base)
  BY CursorStep, FactsAre
<1>1. ASSUME Intact, UNCHANGED task, UNCHANGED sent, UNCHANGED joining
      PROVE  Continues(sent'[c], task'.base + task'.offset)
  BY <1>1 DEF IntactInv, Connected, Joining
<1>2. CASE Log
  <2>1. UNCHANGED <<task, sent, joining, origin>>
    BY <1>2 DEF Log
  <2>2. Intact
    <3>1. task # None /\ task.event = "log" /\ origin = task.base
      BY <2>1 DEF Intact
    <3>2. CASE task.text = None
      <4>1. task.base = Base'
        BY <2>1, <3>2 DEF Intact
      <4>2. task.base = Base
        BY <1>0, <3>1, <4>1, FactsAre
      <4> QED
        BY <3>1, <3>2, <4>2 DEF Intact
    <3>3. CASE task.text # None
      BY <2>1, <3>1, <3>3 DEF Intact
    <3> QED
      BY <3>2, <3>3
  <2> QED
    BY <1>1, <2>1, <2>2
<1>3. ASSUME UNCHANGED <<lines, task, origin>>
      PROVE  Intact
  BY <1>3, RingStandsStill DEF Intact
<1>4. ASSUME NEW d \in Clients, Join(d)
      PROVE  Continues(sent'[c], task'.base + task'.offset)
  <2>1. UNCHANGED <<lines, task, origin>> /\ joining = None
        /\ sent' = [sent EXCEPT ![d] = Window(<<>>)]
    BY <1>4 DEF Join
  <2>2. Intact
    BY <1>3, <2>1
  <2>3. CASE c = d
    <3>1. sent'[c] = Window(<<>>)
      BY <2>1, <2>3 DEF TypeOK
    <3> QED
      BY <3>1 DEF Continues, Window
  <2>4. CASE c # d
    <3>1. sent'[c] = sent[c] /\ ~Joining(c)
      BY <2>1, <2>4 DEF TypeOK, Joining
    <3> QED
      BY <2>1, <2>2, <3>1 DEF IntactInv, Connected
  <2> QED
    BY <2>3, <2>4
<1>5. ASSUME NEW d \in Clients, Disconnect(d)
      PROVE  Continues(sent'[c], task'.base + task'.offset)
  <2>1. UNCHANGED <<lines, task, origin, joining>> /\ sent' = [sent EXCEPT ![d] = None]
    BY <1>5 DEF Disconnect
  <2>2. Intact
    BY <1>3, <2>1
  <2>3. sent'[c] = sent[c] /\ ~Joining(c)
    BY <2>1 DEF TypeOK, Joining
  <2> QED
    BY <2>1, <2>2, <2>3 DEF IntactInv, Connected
<1>6. CASE SendInitialLogs
  <2>1. UNCHANGED <<lines, task, origin>> /\ joining # None
    BY <1>6 DEF SendInitialLogs
  <2>2. Intact
    BY <1>3, <2>1
  <2>3. PICK text \in Seq(Bytes) :
          /\ sent' = [sent EXCEPT ![joining.client] = Window(text)]
          /\ text # <<>> => Last(text) = Base + Least(joining.size, Size)
    BY <1>6, FirstWindowIs
  <2>4. CASE c = joining.client
    <3>1. sent'[c] = Window(text)
      BY <2>3, <2>4 DEF TypeOK
    <3>2. sent'[c].window = text /\ sent'[c].rest = <<>>
      BY <3>1 DEF Window
    <3>3. ASSUME text # <<>>
          PROVE  Last(text) >= task.base + task.offset
      <4>1. /\ joining.size \in Nat /\ Base \in Nat /\ Size \in Nat /\ Size = End - Base /\ End \in Nat
            /\ task.base \in Nat /\ task.offset \in Nat /\ task.base + task.offset <= End
        BY <2>1, <2>2, FactsAre DEF Intact
      <4>2. Base + joining.size >= task.base + task.offset
        BY <2>1, <2>2 DEF Intact, JoinInv
      <4>3. Last(text) = Base + Least(joining.size, Size)
        BY <2>3, <3>3
      <4> QED
        BY <4>1, <4>2, <4>3 DEF Least
    <3> QED
      BY <2>1, <3>2, <3>3 DEF Continues
  <2>5. CASE c # joining.client
    <3>1. sent'[c] = sent[c] /\ ~Joining(c)
      BY <2>3, <2>5 DEF TypeOK, Joining
    <3> QED
      BY <2>1, <2>2, <3>1 DEF IntactInv, Connected
  <2> QED
    BY <2>4, <2>5
<1>7. CASE BroadcastStarts
  <2>1. UNCHANGED <<lines, cursor, joining, sent, origin>> /\ Base' = Base /\ task = None
    BY <1>7, RingStandsStill DEF BroadcastStarts
  <2>2. task'.base = Base /\ (task'.event = "log" => task'.offset = cursor)
    BY <1>7 DEF BroadcastStarts
  <2>3. origin = Base /\ task'.offset = cursor
    BY <2>1, <2>2 DEF Intact
  <2>4. ~Joining(c)
    BY <2>1 DEF Joining
  <2> QED
    BY <2>1, <2>2, <2>3, <2>4 DEF IdleInv, Connected
<1>8. CASE ReadChunk
  <2>1. UNCHANGED <<lines, cursor, joining, sent, origin>> /\ task # None /\ task.text = None
    BY <1>8 DEF ReadChunk
  <2>2. task \in Tasks
    BY <2>1, FactsAre
  <2>3. PICK copy \in Seq(Bytes) :
          task' = [task EXCEPT !.text =
            IF copy # <<>> /\ task.event = "log" /\ {origin, task.base, Base} # {Base}
            THEN <<Gap>> \o copy ELSE copy]
    BY <1>8, ChunkIs
  <2>4. /\ task'.event = task.event /\ task'.offset = task.offset /\ task'.base = task.base
        /\ task'.text = IF copy # <<>> /\ task.event = "log" /\ {origin, task.base, Base} # {Base}
                        THEN <<Gap>> \o copy ELSE copy
    BY <2>2, <2>3 DEF Tasks
  <2>5. /\ task.event = "log" /\ origin = task.base
        /\ task'.text # None => task'.text # <<>> /\ Head(task'.text) # Gap
    BY <2>1, <2>4 DEF Intact
  <2>6. <<Gap>> \o copy # None /\ Head(<<Gap>> \o copy) = Gap /\ copy # None
    <3>1. /\ <<Gap>> \in Text /\ <<Gap>> # <<>> /\ Head(<<Gap>>) = Gap /\ copy \in Text
          /\ None \notin Text
      BY TypesAre
    <3>2. <<Gap>> \o copy \in Text
      BY <3>1, ConcatProperties DEF Text
    <3> QED
      BY <3>1, <3>2, TextsJoin
  <2>7. task.base = Base
    <3>1. copy # <<>>
      BY <2>4, <2>5, <2>6
    <3>2. {origin, task.base, Base} = {Base}
      BY <2>4, <2>5, <2>6, <3>1
    <3> QED
      BY <3>2
  <2>8. Intact /\ ~Joining(c)
    BY <2>1, <2>5, <2>7 DEF Intact, Joining
  <2> QED
    BY <2>1, <2>4, <2>8 DEF IntactInv, Connected
<1>9. CASE SendChunk
  <2>1. task # None /\ task.text # None /\ joining = None /\ UNCHANGED lines /\ Base' = Base
    BY <1>9, RingStandsStill DEF SendChunk
  <2>2. task.left > ChunkBytes
    BY <1>9 DEF SendChunk, Intact
  <2>3. /\ task' = [task EXCEPT !.offset = @ + ChunkBytes, !.left = @ - ChunkBytes, !.text = None]
        /\ UNCHANGED <<cursor, origin>>
    BY <1>9, <2>2 DEF SendChunk
  <2>4. /\ task \in Tasks /\ task.base \in Nat /\ task.offset \in Nat /\ task.left \in Nat
        /\ ChunkBytes \in Nat
    BY <2>1, FactsAre
  <2>5. /\ task'.event = task.event /\ task'.base = task.base /\ task'.text = None
        /\ task'.offset = task.offset + ChunkBytes
    BY <2>3, <2>4 DEF Tasks
  <2>6. task.event = "log" /\ task.base = Base
    BY <2>1, <2>5 DEF Intact
  <2>7. /\ task.text # <<>>
        /\ Last(task.text) = task.base + task.offset + ChunkBytes
    <3>1. Least(task.left, ChunkBytes) = ChunkBytes
      BY <2>2, <2>4 DEF Least
    <3> QED
      BY <2>1, <2>6, <3>1 DEF ChunkInv
  <2>8. sent[c] \in Views /\ sent'[c] = Extended(sent[c], task.text) /\ task.text \in Text
    BY <1>9, <2>6, <2>7, SentIs
  <2>9. sent'[c].rest = sent[c].rest \o task.text /\ sent[c].rest \in Text
    <3>1. Extended(sent[c], task.text).rest = sent[c].rest \o task.text
      BY <2>8, ViewsAre
    <3>2. sent[c].rest \in Text
      BY <2>8, ViewsAre
    <3> QED
      BY <2>8, <3>1, <3>2
  <2>10. sent'[c].rest # <<>> /\ Last(sent'[c].rest) = Last(task.text)
    BY <2>7, <2>8, <2>9, TextsJoin
  <2> QED
    BY <2>4, <2>5, <2>7, <2>10 DEF Continues
<1>10. CASE GetLogs \/ SendAnswer \/ UNCHANGED vars
  <2>1. UNCHANGED <<lines, task, origin, sent, joining>>
    BY <1>10 DEF GetLogs, SendAnswer, vars
  <2> QED
    BY <1>1, <1>3, <2>1
<1> QED
  BY <1>2, <1>4, <1>5, <1>6, <1>7, <1>8, <1>9, <1>10 DEF Next

LEMMA IdleStep ==
  ASSUME TypeOK, CursorInv, ChunkInv, JoinInv, IdleInv, [Next]_vars
  PROVE  IdleInv'
<1> SUFFICES ASSUME task' = None, origin' = Base', NEW c \in Clients, sent'[c] # None, ~Joining(c)'
             PROVE  Continues(sent'[c], origin' + cursor') /\ Reached(sent'[c]) >= origin' + cursor'
  BY DEF IdleInv, Connected
<1>0. Base \in Nat /\ Base' \in Nat /\ Base <= Base' /\ origin \in Nat /\ origin <= Base
      /\ cursor \in Nat
  BY CursorStep, FactsAre
<1>1. ASSUME UNCHANGED <<cursor, task, origin>>, Base' = Base,
             sent'[c] = sent[c], ~Joining(c)
      PROVE  Continues(sent'[c], origin' + cursor') /\ Reached(sent'[c]) >= origin' + cursor'
  BY <1>1 DEF IdleInv, Connected
<1>2. CASE Log
  <2>1. UNCHANGED <<cursor, task, joining, sent, origin>>
    BY <1>2 DEF Log
  <2>2. Base' = Base
    BY <1>0, <2>1
  <2>3. ~Joining(c)
    BY <2>1 DEF Joining
  <2> QED
    BY <1>1, <2>1, <2>2, <2>3
<1>3. ASSUME NEW d \in Clients, Join(d)
      PROVE  Continues(sent'[c], origin' + cursor') /\ Reached(sent'[c]) >= origin' + cursor'
  <2>1. /\ UNCHANGED <<lines, cursor, task, origin>> /\ joining = None
        /\ sent' = [sent EXCEPT ![d] = Window(<<>>)]
        /\ joining' = IF Size = 0 THEN None ELSE [client |-> d, size |-> Size]
    BY <1>3 DEF Join
  <2>2. Base' = Base
    BY <2>1, RingStandsStill
  <2>3. CASE c = d
    <3>1. joining' \in {None, [client |-> d, size |-> Size]}
      BY <2>1
    <3>2. joining' = None
      <4>1. ASSUME joining' # None PROVE Joining(c)'
        <5>1. joining' = [client |-> d, size |-> Size]
          BY <2>1, <4>1
        <5> QED
          BY <2>3, <4>1, <5>1 DEF Joining
      <4> QED
        BY <4>1
    <3>3. Size = 0
      <4>1. Size # 0 => [client |-> d, size |-> Size] \in Joins
        BY FactsAre DEF Joins
      <4> QED
        BY <2>1, <3>2, <4>1, TypesAre
    <3>4. lines = <<>> /\ End = 0
      BY <3>3, FactsAre, RingIs
    <3>5. origin + cursor = 0
      BY <1>0, <3>4, FactsAre
    <3>6. sent'[c] = Window(<<>>)
      BY <2>1, <2>3 DEF TypeOK
    <3>7. sent'[c].window = <<>> /\ sent'[c].rest = <<>>
      BY <3>6 DEF Window
    <3> QED
      BY <2>1, <3>5, <3>7 DEF Continues, Reached
  <2>4. CASE c # d
    <3>1. sent'[c] = sent[c] /\ ~Joining(c)
      BY <2>1, <2>4 DEF TypeOK, Joining
    <3> QED
      BY <1>1, <2>1, <2>2, <3>1
  <2> QED
    BY <2>3, <2>4
<1>4. ASSUME NEW d \in Clients, Disconnect(d)
      PROVE  Continues(sent'[c], origin' + cursor') /\ Reached(sent'[c]) >= origin' + cursor'
  <2>1. UNCHANGED <<lines, cursor, task, origin, joining>> /\ sent' = [sent EXCEPT ![d] = None]
    BY <1>4 DEF Disconnect
  <2>2. sent'[c] = sent[c] /\ ~Joining(c)
    BY <2>1 DEF TypeOK, Joining
  <2> QED
    BY <1>1, <2>1, <2>2, RingStandsStill
<1>5. CASE SendInitialLogs
  <2>1. UNCHANGED <<lines, cursor, task, origin>> /\ joining # None
    BY <1>5 DEF SendInitialLogs
  <2>2. Base' = Base
    BY <2>1, RingStandsStill
  <2>3. PICK text \in Seq(Bytes) :
          /\ sent' = [sent EXCEPT ![joining.client] = Window(text)]
          /\ text # <<>> => Last(text) = Base + Least(joining.size, Size)
          /\ origin = Base /\ joining.size # 0 => text # <<>> /\ joining.size <= Size
    BY <1>5, FirstWindowIs
  <2>4. CASE c = joining.client
    <3>1. joining.size \in Nat \ {0} /\ Size \in Nat
      BY <2>1, FactsAre DEF Joins
    <3>2. text # <<>> /\ joining.size <= Size
      BY <2>1, <2>2, <2>3, <3>1
    <3>3. Last(text) = Base + joining.size
      BY <2>3, <3>1, <3>2 DEF Least
    <3>4. Base + joining.size >= origin + cursor
      BY <2>1 DEF JoinInv
    <3>5. sent'[c] = Window(text)
      BY <2>3, <2>4 DEF TypeOK
    <3>6. sent'[c].window = text /\ sent'[c].rest = <<>>
      BY <3>5 DEF Window
    <3>7. Last(text) >= origin + cursor
      BY <3>3, <3>4
    <3> QED
      BY <2>1, <3>2, <3>6, <3>7 DEF Continues, Reached
  <2>5. CASE c # joining.client
    <3>1. sent'[c] = sent[c] /\ ~Joining(c)
      BY <2>3, <2>5 DEF TypeOK, Joining
    <3> QED
      BY <1>1, <2>1, <2>2, <3>1
  <2> QED
    BY <2>4, <2>5
<1>6. CASE BroadcastStarts
  <2>1. task' \in Tasks
    BY <1>6, BroadcastIs
  <2> QED
    BY <2>1, TypesAre
<1>7. CASE ReadChunk
  <2>1. task \in Tasks /\ task # None
    BY <1>7, FactsAre DEF ReadChunk
  <2>2. PICK text : text \in Text \cup {None} /\ task' = [task EXCEPT !.text = text]
    <3>1. PICK copy \in Seq(Bytes) :
            task' = [task EXCEPT !.text =
              IF copy # <<>> /\ task.event = "log" /\ {origin, task.base, Base} # {Base}
              THEN <<Gap>> \o copy ELSE copy]
      BY <1>7, ChunkIs
    <3>2. <<Gap>> \o copy \in Text /\ copy \in Text
      BY TypesAre, ConcatProperties DEF Text
    <3> QED
      BY <3>1, <3>2
  <2>3. task' \in Tasks
    <3>1. /\ task.event \in {"log", "logs"} /\ task.offset \in Nat /\ task.left \in Nat \ {0}
          /\ task.size \in Nat /\ task.base \in Nat
          /\ task' = [event |-> task.event, offset |-> task.offset, left |-> task.left,
                      size |-> task.size, base |-> task.base, text |-> text]
      BY <2>1, <2>2 DEF Tasks
    <3> QED
      BY <2>2, <3>1 DEF Tasks
  <2> QED
    BY <2>3, TypesAre
<1>8. CASE SendChunk
  <2>1. task # None /\ task.text # None /\ joining = None /\ UNCHANGED lines /\ Base' = Base
    BY <1>8, RingStandsStill DEF SendChunk
  <2>2. /\ task \in Tasks /\ task.base \in Nat /\ task.offset \in Nat /\ task.left \in Nat
        /\ task.size \in Nat /\ task.offset + task.left = task.size /\ ChunkBytes \in Nat
    BY <2>1, FactsAre
  <2>3. ~(task.left > ChunkBytes)
    <3>1. ASSUME task.left > ChunkBytes PROVE FALSE
      <4>1. task' = [task EXCEPT !.offset = @ + ChunkBytes, !.left = @ - ChunkBytes, !.text = None]
        BY <1>8, <3>1 DEF SendChunk
      <4>2. task.left - ChunkBytes \in Nat \ {0} /\ task.offset + ChunkBytes \in Nat
        BY <2>2, <3>1
      <4>3. task' \in Tasks
        BY <2>2, <4>1, <4>2 DEF Tasks
      <4> QED
        BY <4>3, TypesAre
    <3> QED
      BY <3>1
  <2>4. cursor' = task.size /\ origin' = task.base
    BY <1>8, <2>3 DEF SendChunk
  <2>5. task.base = Base
    BY <2>1, <2>4
  <2>6. /\ task.text # <<>>
        /\ Last(task.text) = task.base + task.size
    <3>1. Least(task.left, ChunkBytes) = task.left
      BY <2>2, <2>3 DEF Least
    <3>2. Last(task.text) = task.base + task.offset + task.left /\ task.text # <<>>
      BY <2>1, <2>5, <3>1 DEF ChunkInv
    <3> QED
      BY <2>2, <3>2
  <2>7. sent[c] \in Views /\ task.text \in Text /\ task.event \in {"log", "logs"}
        /\ sent'[c] = IF task.event = "logs" THEN Window(task.text)
                      ELSE Extended(sent[c], task.text)
    BY <1>8, <2>2, <2>6, SentIs DEF Tasks
  <2>8. CASE task.event = "logs"
    <3>1. sent'[c].window = task.text /\ sent'[c].rest = <<>>
      BY <1>8, <2>7, <2>8, SentIs
    <3> QED
      BY <2>2, <2>4, <2>6, <3>1 DEF Continues, Reached
  <2>9. CASE task.event # "logs"
    <3>1. Extended(sent[c], task.text).rest = sent[c].rest \o task.text
      BY <2>7, ViewsAre
    <3>2. sent[c].rest \in Text
      BY <2>7, ViewsAre
    <3>3. sent'[c].rest # <<>> /\ Last(sent'[c].rest) = Last(task.text)
      BY <2>6, <2>7, <2>9, <3>1, <3>2, TextsJoin
    <3> QED
      BY <2>2, <2>4, <2>6, <3>3 DEF Continues, Reached
  <2> QED
    BY <2>8, <2>9
<1>9. CASE GetLogs \/ SendAnswer \/ UNCHANGED vars
  <2>1. UNCHANGED <<lines, cursor, task, origin, sent, joining>>
    BY <1>9 DEF GetLogs, SendAnswer, vars
  <2>2. ~Joining(c)
    BY <2>1 DEF Joining
  <2> QED
    BY <1>1, <2>1, <2>2, RingStandsStill
<1> QED
  BY <1>2, <1>3, <1>4, <1>5, <1>6, <1>7, <1>8, <1>9 DEF Next

LEMMA ViewStep ==
  ASSUME TypeOK, CursorInv, ChunkInv, JoinInv, IntactInv, ViewInv, [Next]_vars
  PROVE  ViewInv'
<1> SUFFICES ASSUME NEW c \in Clients, sent'[c] # None
             PROVE  NoTear(sent'[c])
  BY DEF ViewInv, Connected
<1>1. sent'[c] = sent[c] => NoTear(sent'[c])
  BY DEF ViewInv, Connected
<1>2. ASSUME NEW text \in Seq(Bytes), sent'[c] = Window(text), Runs(text)
      PROVE  NoTear(sent'[c])
  <2>1. sent'[c].window = text /\ sent'[c].rest = <<>>
    BY <1>2 DEF Window
  <2> QED
    BY <1>2, <2>1 DEF NoTear, Runs
<1>3. ASSUME NEW d \in Clients, Join(d)
      PROVE  NoTear(sent'[c])
  <2>1. sent' = [sent EXCEPT ![d] = Window(<<>>)]
    BY <1>3 DEF Join
  <2>2. sent'[c] = sent[c] \/ sent'[c] = Window(<<>>)
    BY <2>1 DEF TypeOK
  <2>3. <<>> \in Seq(Bytes) /\ Runs(<<>>)
    BY TypesAre DEF Runs
  <2> QED
    BY <1>1, <1>2, <2>2, <2>3
<1>4. ASSUME NEW d \in Clients, Disconnect(d)
      PROVE  NoTear(sent'[c])
  BY <1>1, <1>4 DEF Disconnect, TypeOK
<1>5. CASE SendInitialLogs
  <2>1. PICK text \in Seq(Bytes) :
          sent' = [sent EXCEPT ![joining.client] = Window(text)] /\ Runs(text)
    BY <1>5, FirstWindowIs
  <2>2. sent'[c] = sent[c] \/ sent'[c] = Window(text)
    BY <2>1 DEF TypeOK
  <2> QED
    BY <1>1, <1>2, <2>1, <2>2
<1>6. CASE SendChunk
  <2> DEFINE view == sent[c]
             text == task.text
  <2>1. task # None /\ text # None /\ joining = None /\ ~Joining(c) /\ task \in Tasks
    BY <1>6, FactsAre DEF SendChunk, Joining
  <2>2. CASE text = <<>>
    BY <1>1, <1>6, <2>2 DEF SendChunk
  <2>3. CASE text # <<>> /\ task.event = "logs"
    <3>1. sent'[c] = Window(text)
      BY <1>6, <2>3, SentIs
    <3>2. text \in Seq(Bytes) /\ Runs(text)
      BY <2>1, <2>3 DEF TypeOK, ChunkInv
    <3> QED
      BY <1>2, <3>1, <3>2
  <2>4. CASE text # <<>> /\ task.event # "logs"
    <3>1. sent'[c] = Extended(view, text) /\ view \in Views /\ text \in Text /\ view # None
      BY <1>6, <2>4, SentIs
    <3>2. sent'[c].window = view.window
      BY <3>1, ViewsAre
    <3>3. sent'[c].rest = view.rest \o text
      <4>1. Extended(sent[c], task.text).rest = sent[c].rest \o task.text
        BY <3>1, ViewsAre
      <4> QED
        BY <3>1, <4>1
    <3>4. view.window \in Seq(Bytes) /\ view.rest \in Text
      BY <3>1, ViewsAre
    <3>5. Runs(text) /\ NoTear(view)
      BY <2>1, <3>1 DEF ChunkInv, ViewInv, Connected
    <3>6. Head(text) # Gap =>
            /\ Head(text) = task.base + task.offset + 1
            /\ Continues(view, task.base + task.offset)
      <4> SUFFICES ASSUME Head(text) # Gap
                   PROVE  /\ Head(text) = task.base + task.offset + 1
                          /\ Continues(view, task.base + task.offset)
        OBVIOUS
      <4>1. task.event = "log"
        BY <2>1, <2>4 DEF Tasks
      <4>2. origin = task.base /\ Head(text) = task.base + task.offset + 1
        BY <2>1, <2>4, <4>1 DEF ChunkInv
      <4>3. Intact
        BY <2>1, <2>4, <4>1, <4>2 DEF Intact
      <4> QED
        BY <2>1, <3>1, <4>2, <4>3 DEF IntactInv, Connected
    <3>7. PICK byte \in Nat : byte = task.base + task.offset
      BY <2>1, FactsAre
    <3>8. CASE view.rest = <<>>
      <4>1. sent'[c].rest = text
        BY <3>1, <3>3, <3>4, <3>8, TextsJoin
      <4>2. view.window # <<>> /\ Head(text) # Gap => Head(text) <= Last(view.window) + 1
        <5> SUFFICES ASSUME view.window # <<>>, Head(text) # Gap
                     PROVE  Head(text) <= Last(view.window) + 1
          OBVIOUS
        <5>1. Last(view.window) >= byte /\ Head(text) = byte + 1
          BY <3>6, <3>7, <3>8 DEF Continues
        <5>2. Last(view.window) \in Nat
          <6>1. Len(view.window) \in 1 .. Len(view.window)
            BY <3>4, <5>1, EmptySeq, LenProperties
          <6>2. view.window[Len(view.window)] \in Bytes
            BY <3>4, <6>1, ElementOfSeq
          <6> QED
            BY <6>2 DEF Last, Bytes
        <5> QED
          BY <5>1, <5>2
      <4> QED
        BY <3>2, <3>5, <4>1, <4>2 DEF NoTear
    <3>9. CASE view.rest # <<>>
      <4>1. Last(view.rest) = Gap \/ Head(text) \in {Gap, Last(view.rest) + 1}
        BY <3>6, <3>7, <3>9 DEF Continues
      <4>2. Runs(view.rest)
        BY <3>5 DEF NoTear
      <4>3. Runs(view.rest \o text)
        BY <3>1, <3>4, <3>5, <4>1, <4>2, TextsJoin
      <4>4. Head(view.rest \o text) = Head(view.rest) /\ view.rest \o text # <<>>
        BY <3>1, <3>4, <3>9, TextsJoin
      <4> QED
        BY <3>2, <3>3, <3>5, <3>9, <4>3, <4>4 DEF NoTear
    <3> QED
      BY <3>8, <3>9
  <2> QED
    BY <2>2, <2>3, <2>4
<1>7. CASE Log \/ BroadcastStarts \/ ReadChunk \/ GetLogs \/ SendAnswer \/ UNCHANGED vars
  BY <1>1, <1>7 DEF Log, BroadcastStarts, ReadChunk, GetLogs, SendAnswer, vars
<1> QED
  BY <1>3, <1>4, <1>5, <1>6, <1>7 DEF Next

LEMMA AnswerStep ==
  ASSUME TypeOK, CursorInv, AnswerInv, [Next]_vars
  PROVE  AnswerInv'
<1>0. /\ Base \in Nat /\ Base' \in Nat /\ Base <= Base' /\ Ring /\ Size \in Nat
      /\ answer # None => answer \in Answers /\ answer.base \in Nat /\ answer.offset \in Nat
  BY CursorStep, FactsAre DEF TypeOK, Answers
<1>1. CASE UNCHANGED answer
  <2>1. answer # None /\ answer.base = Base' => answer.base = Base
    BY <1>0, <1>1 DEF AnswerInv
  <2> QED
    BY <1>0, <1>1, <2>1 DEF AnswerInv
<1>2. CASE GetLogs
  <2>1. answer' = [offset |-> Surplus(Size, PageBytes), size |-> Least(Size, PageBytes),
                 base |-> Base, text |-> <<>>]
    BY <1>2 DEF GetLogs
  <2>2. answer'.base = Base /\ answer'.text = <<>> /\ Len(answer'.text) = 0
    BY <2>1
  <2>3. Base' = Base
    BY <1>2, RingStandsStill DEF GetLogs
  <2> QED
    BY <1>0, <2>2, <2>3 DEF AnswerInv
<1>3. CASE SendAnswer
  <2>1. answer # None /\ Base' = Base /\ answer \in Answers /\ Len(answer.text) \in Nat
        /\ answer.text \in Seq(Bytes) /\ answer.size \in Nat /\ Len(answer.text) <= answer.size
    BY <1>0, <1>3, RingStandsStill, LenProperties DEF SendAnswer, Answers, TypeOK
  <2>2. PICK most \in 1 .. PageBytes :
          answer' = IF Len(answer.text) = answer.size \/ Fill(most) = <<>> THEN None
                  ELSE [answer EXCEPT !.text = @ \o Fill(most)]
    BY <1>3 DEF SendAnswer
  <2>3. CASE answer' = None
    BY <2>3 DEF AnswerInv
  <2>4. CASE answer' = [answer EXCEPT !.text = @ \o Fill(most)]
    <3>1. PICK chunk \in Nat : chunk = Least(answer.size - Len(answer.text), most)
      <4>1. answer.size - Len(answer.text) \in Nat /\ most \in Nat
        BY <2>1, TypesAre
      <4> QED
        BY <4>1, LeastIs
    <3>2. PICK offset \in Nat : offset = answer.offset + Len(answer.text)
      BY <1>0, <2>1
    <3>3. PICK copy : copy = CopyAsText(offset, chunk)
      OBVIOUS
    <3>4. Fill(most) = copy
      BY <3>1, <3>2, <3>3 DEF Fill
    <3>5. copy \in Seq(Bytes) /\ Len(copy) \in Nat
      BY <1>0, <3>3, CopyIs
    <3>6. ASSUME NEW i \in 1 .. Len(copy)
          PROVE  copy[i] = Base + offset + i
      <4>1. PICK count \in Nat : count = Least(chunk, Surplus(Size, offset))
        BY <1>0, LeastIs
      <4>2. PICK first \in Nat \ {0} : first = Base + offset + 1
        BY <1>0
      <4>3. copy = Numbers(first, count)
        BY <1>0, <3>3, <4>1, <4>2, CopyIsPartOfText
      <4>4. Len(copy) = count /\ \A j \in 1 .. count : copy[j] = first + j - 1
        BY <4>3, NumbersAre
      <4> QED
        BY <1>0, <4>2, <4>4
    <3>7. /\ answer'.base = answer.base /\ answer'.offset = answer.offset
          /\ answer'.text = answer.text \o copy
      BY <2>1, <2>4, <3>4 DEF Answers
    <3>8. /\ Len(answer.text \o copy) = Len(answer.text) + Len(copy)
          /\ \A i \in 1 .. Len(answer.text) + Len(copy) :
               (answer.text \o copy)[i] =
                 IF i <= Len(answer.text) THEN answer.text[i] ELSE copy[i - Len(answer.text)]
      BY <2>1, <3>5, ConcatProperties
    <3>9. ASSUME answer.base = Base, NEW i \in 1 .. Len(answer.text) + Len(copy)
          PROVE  (answer.text \o copy)[i] = answer.base + answer.offset + i
      <4>1. CASE i <= Len(answer.text)
        <5>1. i \in 1 .. Len(answer.text)
          BY <2>1, <3>5, <4>1
        <5> QED
          BY <2>1, <3>8, <3>9, <4>1, <5>1 DEF AnswerInv
      <4>2. CASE ~(i <= Len(answer.text))
        <5>1. i - Len(answer.text) \in 1 .. Len(copy)
          BY <2>1, <3>5, <4>2
        <5>2. copy[i - Len(answer.text)] = Base + offset + (i - Len(answer.text))
          BY <3>6, <5>1
        <5>3. (answer.text \o copy)[i] = copy[i - Len(answer.text)]
          BY <3>8, <4>2
        <5> QED
          BY <1>0, <2>1, <3>2, <3>9, <5>2, <5>3
      <4> QED
        BY <4>1, <4>2
    <3> QED
      BY <2>1, <3>7, <3>8, <3>9 DEF AnswerInv
  <2> QED
    BY <2>2, <2>3, <2>4
<1> QED
  BY <1>1, <1>2, <1>3
  DEF Next, vars, Log, Join, Disconnect, SendInitialLogs, BroadcastStarts, ReadChunk, SendChunk

\* What the gateway sends of the log (sendInitialLogsToClient, broadcastLogDelta, handleGetLogs):
\* it tears only where lines were dropped between two broadcasts or during one; between
\* broadcasts no client lags behind the cursor; and an answer to GET /api/logs is one piece
\* of the log, unless lines are dropped under it. What a browser makes of it is not claimed.
THEOREM NothingSentIsTorn == Spec => []SentHasNoGap
<1>1. Init => StreamInv
  BY DEF Init, StreamInv, ChunkInv, JoinInv, IntactInv, Intact, IdleInv, ViewInv, AnswerInv, Connected
<1>2. TypeOK /\ CursorInv /\ StreamInv /\ [Next]_vars => StreamInv'
  BY ChunkStep, JoinStep, IntactStep, IdleStep, ViewStep, AnswerStep DEF StreamInv
<1>3. TypeOK /\ CursorInv /\ StreamInv => SentHasNoGap
  <2> SUFFICES ASSUME TypeOK, CursorInv, StreamInv PROVE SentHasNoGap
    OBVIOUS
  <2>1. ASSUME answer # None, answer.base = Base
        PROVE  Runs(answer.text)
    <3>1. /\ answer \in Answers /\ answer.text \in Seq(Bytes) /\ answer.base \in Nat /\ answer.offset \in Nat
      BY <2>1 DEF TypeOK, Answers
    <3>2. PICK count \in Nat : count = Len(answer.text)
      BY <3>1, LenProperties
    <3>3. \A i \in 1 .. count : answer.text[i] = answer.base + answer.offset + i
      BY <2>1, <3>2 DEF StreamInv, AnswerInv
    <3>4. ASSUME NEW i \in 2 .. count
          PROVE  answer.text[i] = answer.text[i - 1] + 1
      <4>1. i \in 1 .. count /\ i - 1 \in 1 .. count
        OBVIOUS
      <4> QED
        BY <3>1, <3>3, <4>1
    <3> QED
      BY <3>2, <3>4 DEF Runs
  <2> QED
    BY <2>1 DEF SentHasNoGap, StreamInv, IdleInv, ViewInv, NoTear
<1> QED
  BY <1>1, <1>2, <1>3, TypeCorrect, PTL DEF Spec
===============================================================================
