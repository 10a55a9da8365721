--------------------------- MODULE SoftUart_proofs ---------------------------
(***************************************************************************)
(* Two ends without a common clock, for every pair of bit times within the *)
(* budget of softuart_pump.h, every request and reply and every turnaround *)
(* that the poll budget covers: on a quiet line a request gets its reply,  *)
(* and a break that is over before the reply costs the host one byte of    *)
(* its scan limit.                                                         *)
(*                                                                         *)
(* First the line and one character on it, then the receive machines on a  *)
(* whole frame, then the invariant: between two characters the receiver is *)
(* inside a stop bit or on an idle line, with the frame so far in its      *)
(* buffer, and the idle samples it has counted fit the time that passed.   *)
(***************************************************************************)
EXTENDS SoftUart, TLAPS

(* Quotient and remainder of q * d + r.                                    *)
LEMMA DivUnique ==
    ASSUME NEW d \in Nat \ {0}, NEW q \in Nat, NEW r \in 0 .. d - 1
    PROVE  /\ (q * d + r) \div d = q /\ (q * d + r) % d = r
           /\ q * d + r \in Nat /\ q * d + r < q * d + d
<1> DEFINE x == q * d + r
           Q == x \div d
           R == x % d
<1>1. q * d \in Nat /\ x \in Nat
  OBVIOUS
<1>2. Q \in Nat /\ R \in 0 .. d - 1 /\ x = Q * d + R /\ Q * d \in Nat
  <2>1. \A y \in Nat, e \in Nat \ {0} :
           y \div e \in Nat /\ y % e \in 0 .. e - 1 /\ y = (y \div e) * e + (y % e)
    OBVIOUS
  <2>2. \A y \in Nat, e \in Nat : y * e \in Nat
    OBVIOUS
  <2> HIDE DEF x
  <2> QED BY <1>1, <2>1, <2>2
<1>3. \A u, v, e \in Nat : u + 1 <= v => u * e + e <= v * e
  <2> SUFFICES ASSUME NEW u \in Nat, NEW v \in Nat, NEW e \in Nat, u + 1 <= v
               PROVE  u * e + e <= v * e
    OBVIOUS
  <2>1. (u + 1) * e = u * e + e
    OBVIOUS
  <2>2. \A a, b, c \in Nat : a <= b => a * c <= b * c
    OBVIOUS
  <2> QED BY <2>1, <2>2
<1>4. (Q + 1 <= q => Q * d + d <= q * d) /\ (q + 1 <= Q => q * d + d <= Q * d)
  <2> HIDE DEF Q
  <2> QED BY <1>2, <1>3
<1>5. x = q * d + r
  OBVIOUS
<1> HIDE DEF x, Q, R
<1>6. Q = q
  BY <1>1, <1>2, <1>4, <1>5
<1>7. R = r
  BY <1>1, <1>2, <1>5, <1>6
<1> QED BY <1>1, <1>5, <1>6, <1>7 DEF x, Q, R

(* Multiples keep the order.                                               *)
LEMMA Monotone ==
    \A a, b, c \in Nat : a <= b => a * c <= b * c
OBVIOUS

(* The line while a message is sent: bit j of character i, at any tick r   *)
(* of it, and mark before and after.                                       *)
LEMMA WaveAt ==
    ASSUME NEW msg \in Seq(Byte), NEW bit \in Nat \ {0},
           NEW i \in 0 .. Len(msg) - 1, NEW j \in 0 .. 9, NEW r \in 0 .. bit - 1
    PROVE  Driven(Wave(msg, bit), 10 * bit * i + j * bit + r) = Bits(msg[i + 1])[j + 1]
<1> DEFINE D == 10 * bit
           c == j * bit + r
           t == i * D + c
<1>1. D \in Nat \ {0} /\ j * bit \in Nat /\ i \in Nat /\ Len(msg) \in Nat
  OBVIOUS
<1>2. c \in 0 .. D - 1
  <2>1. j * bit + bit <= 10 * bit
    <3>1. (j + 1) * bit = j * bit + bit
      OBVIOUS
    <3>2. (j + 1) * bit <= 10 * bit
      BY Monotone
    <3> QED BY <3>1, <3>2
  <2> QED BY <1>1, <2>1
<1>3. c \div bit = j
  BY DivUnique
<1>4. t = 10 * bit * i + j * bit + r
  OBVIOUS
<1> HIDE DEF D, c
<1>5. t \div D = i /\ t % D = c /\ t \in Nat /\ t < i * D + D /\ i * D \in Nat
  BY <1>1, <1>2, DivUnique
<1>6. i * D + D <= Len(msg) * D
  <2>1. (i + 1) * D = i * D + D
    BY <1>1
  <2>2. (i + 1) * D <= Len(msg) * D
    BY <1>1, Monotone
  <2> QED BY <2>1, <2>2
<1>7. Len(msg) * D = 10 * bit * Len(msg) /\ Len(msg) * D \in Nat
  BY <1>1 DEF D
<1> HIDE DEF t
<1>8. t \in 0 .. 10 * bit * Len(msg) - 1
  <2> DEFINE total == Len(msg) * D
             at == i * D
  <2>1. at \in Nat /\ total \in Nat /\ t < at + D /\ at + D <= total /\ t \in Nat
    BY <1>5, <1>6, <1>7
  <2> HIDE DEF total, at
  <2>2. t \in 0 .. total - 1
    BY <1>1, <2>1
  <2> QED BY <1>7, <2>2 DEF total
<1>9. Wave(msg, bit)[t] = Bits(msg[t \div D + 1])[(t % D) \div bit + 1]
      /\ t \in DOMAIN Wave(msg, bit)
  BY <1>8 DEF Wave, D
<1> QED BY <1>3, <1>4, <1>5, <1>9 DEF Driven

(* Before a message the line is at mark.                                   *)
LEMMA WaveIdle ==
    ASSUME NEW msg, NEW bit, NEW t \in Int, t < 0
    PROVE  Driven(Wave(msg, bit), t) = 1
<1>1. t \notin 0 .. 10 * bit * Len(msg) - 1
  OBVIOUS
<1> QED BY <1>1 DEF Driven, Wave

(* The eight data bits make up the byte; a start bit is low, a stop bit    *)
(* high.                                                                   *)
LEMMA BitsRead ==
    ASSUME NEW b \in Byte
    PROVE  /\ Bits(b)[2] + 2 * Bits(b)[3] + 4 * Bits(b)[4] + 8 * Bits(b)[5]
              + 16 * Bits(b)[6] + 32 * Bits(b)[7] + 64 * Bits(b)[8]
              + 128 * Bits(b)[9] = b
           /\ Bits(b)[1] = 0 /\ Bits(b)[10] = 1
<1>1. (b % 2) + 2 * ((b \div 2) % 2) + 4 * ((b \div 4) % 2) + 8 * ((b \div 8) % 2)
      + 16 * ((b \div 16) % 2) + 32 * ((b \div 32) % 2) + 64 * ((b \div 64) % 2)
      + 128 * ((b \div 128) % 2) = b
  BY DEF Byte
<1> QED BY <1>1 DEF Bits

(* The receiver's hunt ends at the first sample that is low.               *)
LEMMA IdleIs ==
    ASSUME NEW n \in Nat, NEW k \in 0 .. n, Level(now + k * Poll) = 0,
           \A j \in 0 .. k - 1 : Level(now + j * Poll) = 1
    PROVE  Idle(n) = k
<1> DEFINE P(m) == /\ m = n \/ Level(now + m * Poll) = 0
                   /\ \A j \in 0 .. m - 1 : Level(now + j * Poll) = 1
<1>1. P(k)
  OBVIOUS
<1>2. ASSUME NEW m \in 0 .. n, P(m) PROVE m = k
  <2>1. CASE m < k
    <3>1. m \in 0 .. k - 1 /\ m # n
      BY <2>1
    <3>2. Level(now + m * Poll) = 1 /\ Level(now + m * Poll) = 0
      BY <1>2, <3>1
    <3> QED BY <3>2
  <2>2. CASE m > k
    <3>1. k \in 0 .. m - 1
      BY <2>2
    <3>2. Level(now + k * Poll) = 1
      BY <1>2, <3>1
    <3> QED BY <3>2
  <2> QED BY <2>1, <2>2
<1> HIDE DEF P
<1>3. k = CHOOSE m \in 0 .. n : P(m)
  BY <1>1, <1>2
<1> QED BY <1>3 DEF Idle, P

-----------------------------------------------------------------------------
(* From now on the line carries a message whose first edge is at start,    *)
(* and it is at mark until tick x.                                         *)
Carries(start, sender, msg) ==
    \A t \in now .. start + 10 * sender * Len(msg) - 1 :
        Level(t) = Driven(Wave(msg, sender), t - start)
MarkUntil(x) == now <= x /\ \A t \in now .. x - 1 : Level(t) = 1

(* The level anywhere in bit j of character i.                             *)
LEMMA LevelIn ==
    ASSUME NEW msg \in Seq(Byte), NEW sender \in Nat \ {0}, NEW start \in Nat,
           now \in Nat, NEW i \in 0 .. Len(msg) - 1, Carries(start, sender, msg),
           now <= start + 10 * sender * i,
           NEW j \in 0 .. 9, NEW x \in Nat,
           start + 10 * sender * i + j * sender <= x,
           x < start + 10 * sender * i + (j + 1) * sender
    PROVE  Level(x) = Bits(msg[i + 1])[j + 1]
<1> DEFINE s == 10 * sender * i
           y == j * sender
           r == x - (start + s + y)
<1>1. s \in Nat /\ y \in Nat /\ Len(msg) \in Nat
  OBVIOUS
<1>2. (j + 1) * sender = y + sender
  OBVIOUS
<1>3. y + sender <= 10 * sender
  <2>1. (j + 1) * sender <= 10 * sender
    BY Monotone
  <2> QED BY <1>2, <2>1
<1>4. s + 10 * sender <= 10 * sender * Len(msg) /\ 10 * sender * Len(msg) \in Nat
  <2>1. (i + 1) * (10 * sender) <= Len(msg) * (10 * sender)
    BY Monotone
  <2>2. (i + 1) * (10 * sender) = s + 10 * sender
    OBVIOUS
  <2>3. Len(msg) * (10 * sender) = 10 * sender * Len(msg)
    BY <1>1
  <2> QED BY <1>1, <2>1, <2>2, <2>3
<1>5. start + s + y <= x /\ x < start + s + (y + sender) /\ now <= start + s
  BY <1>2
<1>6. x - start = s + y + r
  BY <1>1
<1> DEFINE total == 10 * sender * Len(msg)
<1>7. Driven(Wave(msg, sender), s + y + r) = Bits(msg[i + 1])[j + 1]
  <2>1. r \in 0 .. sender - 1
    <3> HIDE DEF s, y
    <3> QED BY <1>1, <1>5
  <2> HIDE DEF r
  <2> QED BY <2>1, WaveAt
<1>8. x \in now .. start + total - 1
  <2>1. s + 10 * sender <= total /\ total \in Nat
    BY <1>4
  <2> HIDE DEF s, y, total, r
  <2> QED BY <1>1, <1>3, <1>5, <2>1
<1>9. Level(x) = Driven(Wave(msg, sender), x - start)
  BY <1>8 DEF Carries
<1> HIDE DEF s, y, r
<1> QED BY <1>6, <1>7, <1>9

(* The first of the samples D ticks apart that is not before x.            *)
LEMMA FirstNotBefore ==
    ASSUME NEW D \in Nat \ {0}, NEW a \in Nat, NEW x \in Nat, a <= x
    PROVE  \E k \in Nat : /\ a + k * D \in x .. x + D - 1
                          /\ \A j \in 0 .. k - 1 : a + j * D \in a .. x - 1
<1> DEFINE y == x - a + D - 1
           k == y \div D
           r == y % D
<1>2. y \in Nat
  OBVIOUS
<1>3. k \in Nat /\ r \in 0 .. D - 1 /\ y = k * D + r
  <2>1. \A u \in Nat, d \in Nat \ {0} :
           u \div d \in Nat /\ u % d \in 0 .. d - 1 /\ u = (u \div d) * d + (u % d)
    OBVIOUS
  <2> HIDE DEF y
  <2> QED BY <1>2, <2>1
<1>4. y = x - a + D - 1
  OBVIOUS
<1> HIDE DEF y, k, r
<1>5. k * D \in Nat
  BY <1>3
<1>6. a + k * D \in x .. x + D - 1
  BY <1>3, <1>4, <1>5
<1>7. ASSUME NEW j \in 0 .. k - 1 PROVE a + j * D \in a .. x - 1
  <2>1. (j + 1) * D <= k * D
    BY <1>3, Monotone
  <2>2. (j + 1) * D = j * D + D /\ j * D \in Nat
    BY <1>3
  <2> QED BY <1>3, <1>4, <1>5, <2>1, <2>2
<1> QED BY <1>3, <1>6, <1>7

(* What the receiver makes of a character that starts at tick s: the edge  *)
(* is seen less than Poll late, every sample falls into its bit, and the   *)
(* receiver is done inside the stop bit.                                   *)
Heard(k, s, sender, byte) ==
    LET e == now + k * Poll
    IN /\ e \in s .. s + Poll - 1
       /\ \A n \in Nat : k <= n => Idle(n) = k
       /\ Char(e) = byte
       /\ ~FramingError(e)
       /\ StopAt(e) = e + 9 * Bit + Half
       /\ StopAt(e) \in s + 9 * sender .. s + 10 * sender - 1
       /\ \A t \in StopAt(e) .. s + 10 * sender - 1 : Level(t) = 1

(* Within the budget every character of a message is heard so, one after   *)
(* the other: the sampling error does not add up, each edge restarts it.   *)
LEMMA CharHeard ==
    ASSUME NEW msg \in Seq(Byte), NEW sender \in Nat \ {0}, NEW start \in Nat,
           now \in Nat, Bit \in Nat \ {0}, InBudget(sender, Bit),
           NEW i \in 0 .. Len(msg) - 1, Carries(start, sender, msg),
           MarkUntil(start + 10 * sender * i)
    PROVE  \E k \in Nat : Heard(k, start + 10 * sender * i, sender, msg[i + 1])
<1> DEFINE s == start + 10 * sender * i
           b == msg[i + 1]
<1>1. s \in Nat /\ now <= s /\ b \in Byte /\ Half \in Nat /\ Poll \in Nat \ {0}
      /\ \A t \in now .. s - 1 : Level(t) = 1
  BY TimesAssumption DEF MarkUntil, Half
<1>2. \A j \in 0 .. 9, x \in Nat :
         s + j * sender <= x /\ x < s + (j + 1) * sender => Level(x) = Bits(b)[j + 1]
  BY <1>1, LevelIn
<1> HIDE DEF s, b
<1>3. PICK k \in Nat : /\ now + k * Poll \in s .. s + Poll - 1
                       /\ \A j \in 0 .. k - 1 : now + j * Poll \in now .. s - 1
  BY <1>1, FirstNotBefore
<1> DEFINE e == now + k * Poll
<1>4. e \in Nat /\ s <= e /\ e <= s + Poll - 1
  BY <1>1, <1>3
<1>5. \A n \in 1 .. 9 : /\ n * sender <= n * Bit + Half
                        /\ n * Bit + Half + Poll <= (n + 1) * sender
                        /\ n * Bit \in Nat /\ n * sender \in Nat /\ (n + 1) * sender \in Nat
  <2>1. \A n \in 1 .. 9 : /\ n * sender <= n * Bit + Half
                          /\ n * Bit + Half + Poll <= (n + 1) * sender
    BY Zenon DEF InBudget, Half
  <2>2. \A n \in 1 .. 9, m \in Nat : n * m \in Nat /\ (n + 1) * m \in Nat
    OBVIOUS
  <2>3. sender \in Nat /\ Bit \in Nat
    OBVIOUS
  <2> QED BY <2>1, <2>2, <2>3, Zenon
<1> HIDE DEF e
<1>6. \A n \in 1 .. 9 : Level(e + n * Bit + Half) = Bits(b)[n + 1]
  <2> SUFFICES ASSUME NEW n \in 1 .. 9 PROVE Level(e + n * Bit + Half) = Bits(b)[n + 1]
    OBVIOUS
  <2> DEFINE x == e + n * Bit + Half
             lo == n * sender
             hi == (n + 1) * sender
             m == n * Bit
  <2>1. lo <= m + Half /\ m + Half + Poll <= hi /\ lo \in Nat /\ hi \in Nat /\ m \in Nat
    BY <1>5
  <2>2. x = e + m + Half
    OBVIOUS
  <2> HIDE DEF x, lo, hi, m
  <2>3. x \in Nat /\ s + lo <= x /\ x < s + hi
    BY <1>1, <1>4, <2>1, <2>2
  <2>4. n \in 0 .. 9
    OBVIOUS
  <2>5. Level(x) = Bits(b)[n + 1]
    BY <1>2, <2>3, <2>4, Zenon DEF lo, hi
  <2> QED BY <2>5, Zenon DEF x
<1>7. \A n \in 1 .. 8 : Sample(e, n) = Bits(b)[n + 1]
  <2> SUFFICES ASSUME NEW n \in 1 .. 8 PROVE Sample(e, n) = Bits(b)[n + 1]
    OBVIOUS
  <2>1. e + FirstSample + (n - 1) * Bit = e + n * Bit + Half
    <3>1. (n - 1) * Bit = n * Bit - Bit /\ n * Bit \in Nat
      OBVIOUS
    <3> QED BY <1>1, <1>4, <3>1 DEF FirstSample
  <2>2. n \in 1 .. 9
    OBVIOUS
  <2>3. Level(e + n * Bit + Half) = Bits(b)[n + 1]
    BY <1>6, <2>2, Zenon
  <2> QED BY <2>1, <2>3 DEF Sample
<1>8. Char(e) = b
  <2>1. /\ Sample(e, 1) = Bits(b)[2] /\ Sample(e, 2) = Bits(b)[3]
        /\ Sample(e, 3) = Bits(b)[4] /\ Sample(e, 4) = Bits(b)[5]
        /\ Sample(e, 5) = Bits(b)[6] /\ Sample(e, 6) = Bits(b)[7]
        /\ Sample(e, 7) = Bits(b)[8] /\ Sample(e, 8) = Bits(b)[9]
    BY <1>7
  <2>2. Char(e) = Bits(b)[2] + 2 * Bits(b)[3] + 4 * Bits(b)[4] + 8 * Bits(b)[5]
                  + 16 * Bits(b)[6] + 32 * Bits(b)[7] + 64 * Bits(b)[8]
                  + 128 * Bits(b)[9]
    BY <2>1 DEF Char
  <2> QED BY <1>1, <2>2, BitsRead
<1>9. StopAt(e) = e + 9 * Bit + Half
  BY <1>1, <1>4 DEF StopAt, FirstSample
<1>10. ~FramingError(e)
  <2>1. Level(StopAt(e)) = Bits(b)[10]
    BY <1>6, <1>9
  <2> QED BY <1>1, <2>1, BitsRead DEF FramingError
<1>11. StopAt(e) \in s + 9 * sender .. s + 10 * sender - 1
  <2>1. 9 * sender <= 9 * Bit + Half /\ 9 * Bit + Half + Poll <= 10 * sender
    BY <1>5
  <2> QED BY <1>1, <1>4, <1>9, <2>1
<1>12. ASSUME NEW t \in StopAt(e) .. s + 10 * sender - 1 PROVE Level(t) = 1
  <2>1. t \in Nat /\ s + 9 * sender <= t /\ t < s + (9 + 1) * sender
    BY <1>1, <1>11
  <2>2. Level(t) = Bits(b)[9 + 1]
    BY <1>2, <2>1
  <2> QED BY <1>1, <2>2, BitsRead
<1>13. Level(e) = 0
  <2>1. Poll <= sender
    <3>1. 1 * sender <= 1 * Bit + Half /\ 1 * Bit + Half + Poll <= (1 + 1) * sender
      BY <1>5
    <3> QED BY <1>1, <3>1
  <2>2. s + 0 * sender <= e /\ e < s + (0 + 1) * sender
    BY <1>1, <1>4, <2>1
  <2>3. Level(e) = Bits(b)[0 + 1]
    BY <1>2, <1>4, <2>2
  <2> QED BY <1>1, <2>3, BitsRead
<1>14. ASSUME NEW n \in Nat, k <= n PROVE Idle(n) = k
  <2>1. Level(now + k * Poll) = 0
    BY <1>13 DEF e
  <2>2. \A j \in 0 .. k - 1 : Level(now + j * Poll) = 1
    BY <1>1, <1>3
  <2> QED BY <1>14, <2>1, <2>2, IdleIs
<1>15. Heard(k, s, sender, b)
  BY <1>3, <1>8, <1>9, <1>10, <1>11, <1>12, <1>14 DEF Heard, e
<1> QED BY <1>15 DEF s, b
-----------------------------------------------------------------------------
(* The receive machines on a frame that arrives whole.                     *)
Sent(m) == <<Sync>> \o m
Took(m, i) == IF i = 0 THEN Hunting ELSE [inFrame |-> TRUE, buf |-> SubSeq(m, 1, i - 1)]

(* A message is its sync and then its bytes.                               *)
LEMMA SentIs ==
    ASSUME NEW m \in Seq(Byte)
    PROVE  /\ Sent(m) \in Seq(Byte) /\ Len(Sent(m)) = Len(m) + 1 /\ Len(m) \in Nat
           /\ Sent(m)[1] = Sync
           /\ \A i \in 1 .. Len(m) : Sent(m)[i + 1] = m[i]
<1>1. Sync \in Byte
  BY SyncAssumption
<1>2. <<Sync>> \in Seq(Byte) /\ Len(<<Sync>>) = 1
  BY <1>1
<1> QED BY <1>1, <1>2 DEF Sent

(* A prefix and its next byte.                                             *)
LEMMA PrefixGrows ==
    ASSUME NEW m \in Seq(Byte), NEW i \in 1 .. Len(m)
    PROVE  /\ Append(SubSeq(m, 1, i - 1), m[i]) = SubSeq(m, 1, i)
           /\ Len(SubSeq(m, 1, i)) = i /\ Len(SubSeq(m, 1, i - 1)) = i - 1
           /\ (i >= 2 => SubSeq(m, 1, i)[2] = m[2])
<1> DEFINE a == SubSeq(m, 1, i - 1)
           b == SubSeq(m, 1, i)
<1>1. /\ a \in Seq(Byte) /\ Len(a) = i - 1 /\ \A j \in 1 .. i - 1 : a[j] = m[j]
      /\ b \in Seq(Byte) /\ Len(b) = i /\ \A j \in 1 .. i : b[j] = m[j]
  OBVIOUS
<1>2. m[i] \in Byte
  OBVIOUS
<1> HIDE DEF a, b
<1>3. Append(a, m[i]) \in Seq(Byte) /\ Len(Append(a, m[i])) = i
      /\ \A j \in 1 .. i : Append(a, m[i])[j] = m[j]
  BY <1>1, <1>2
<1>4. Append(a, m[i]) = b
  BY <1>1, <1>3
<1> QED BY <1>1, <1>4 DEF a, b

(* A receiver's state after i characters of a message.                     *)
LEMMA TookIs ==
    ASSUME NEW m
    PROVE  /\ Took(m, 0) = Hunting
           /\ Took(m, 0 + 1) = [inFrame |-> TRUE, buf |-> <<>>]
           /\ \A i \in Nat \ {0} :
                 /\ Took(m, i).inFrame = TRUE /\ Took(m, i).buf = SubSeq(m, 1, i - 1)
                 /\ Took(m, i + 1) = [inFrame |-> TRUE, buf |-> SubSeq(m, 1, i)]
<1>1. SubSeq(m, 1, 0) = <<>>
  OBVIOUS
<1>2. 0 + 1 = 1 /\ 1 - 1 = 0 /\ 1 # 0
  OBVIOUS
<1>3. \A i \in Nat \ {0} : i # 0 /\ i + 1 # 0 /\ (i + 1) - 1 = i
  OBVIOUS
<1> QED BY <1>1, <1>2, <1>3 DEF Took

(* The device's receiver takes a frame that fits its buffer byte by byte   *)
(* and delivers it with the last.                                          *)
LEMMA LinkTakes ==
    ASSUME NEW m \in Seq(Byte), FrameParse(m), Len(m) <= BufLen, NEW i \in 0 .. Len(m)
    PROVE  /\ i < Len(m) => /\ LinkByte(Took(m, i), Sent(m)[i + 1]) = Took(m, i + 1)
                            /\ ~LinkDelivers(Took(m, i), Sent(m)[i + 1])
           /\ i = Len(m) => /\ LinkByte(Took(m, i), Sent(m)[i + 1]).buf = m
                            /\ LinkDelivers(Took(m, i), Sent(m)[i + 1])
<1>1. Len(m) \in Nat /\ Len(m) >= 3 /\ m[2] + 3 = Len(m) /\ BufLen \in Nat /\ m[2] \in Byte
  BY BufferAssumption DEF FrameParse, Overhead
<1>2. CASE i = 0
  <2>1. Sent(m)[0 + 1] = Sync
    BY SentIs
  <2>2. Took(m, 0) = Hunting /\ Took(m, 0 + 1) = [inFrame |-> TRUE, buf |-> <<>>]
    BY TookIs
  <2>3. ~Hunting.inFrame
    BY DEF Hunting
  <2>4. LinkByte(Hunting, Sync) = [inFrame |-> TRUE, buf |-> <<>>]
    BY <1>1, <2>3 DEF LinkByte, LinkHunt, Overhead
  <2>5. ~LinkDelivers(Hunting, Sync)
    BY <2>3 DEF LinkDelivers
  <2>6. i < Len(m) /\ i # Len(m)
    BY <1>1, <1>2
  <2> QED BY <1>2, <2>1, <2>2, <2>4, <2>5, <2>6, Zenon
<1>3. CASE i # 0
  <2> DEFINE b == SubSeq(m, 1, i)
             a == SubSeq(m, 1, i - 1)
  <2>1. i \in 1 .. Len(m) /\ i \in Nat \ {0}
    BY <1>1, <1>3
  <2>2. Sent(m)[i + 1] = m[i]
    BY <2>1, SentIs
  <2>3. /\ Took(m, i).inFrame = TRUE /\ Took(m, i).buf = a
        /\ Took(m, i + 1) = [inFrame |-> TRUE, buf |-> b]
    BY <2>1, TookIs, Zenon
  <2>4. Append(a, m[i]) = b /\ Len(b) = i /\ (i >= 2 => b[2] = m[2])
    BY <2>1, PrefixGrows
  <2>5. i = Len(m) => b = m
    OBVIOUS
  <2> HIDE DEF a, b
  <2>6. LinkStays(b) <=> i < Len(m)
    BY <1>1, <2>1, <2>4 DEF LinkStays, Overhead
  <2>7. LinkByte(Took(m, i), m[i]) = [inFrame |-> LinkStays(b), buf |-> b]
    BY <2>3, <2>4, Zenon DEF LinkByte
  <2>8. LinkDelivers(Took(m, i), m[i])
        <=> ~LinkStays(b) /\ b[2] + Overhead <= BufLen /\ FrameParse(b)
    BY <2>3, <2>4, Zenon DEF LinkDelivers
  <2>9. CASE i < Len(m)
    <3>1. LinkStays(b) = TRUE
      BY <2>6, <2>9 DEF LinkStays
    <3>2. LinkByte(Took(m, i), m[i]) = Took(m, i + 1)
      BY <2>3, <2>7, <3>1
    <3> QED BY <1>1, <2>2, <2>8, <2>9, <3>1, <3>2
  <2>10. CASE i = Len(m)
    BY <1>1, <2>2, <2>5, <2>6, <2>7, <2>8, <2>10 DEF Overhead
  <2> QED BY <2>1, <2>9, <2>10
<1> QED BY <1>2, <1>3

(* So does the host's scanner, which is in a frame from the sync on.       *)
LEMMA ScanTakes ==
    ASSUME NEW m \in Seq(Byte), Decode(m), Len(m) <= HostBufLen, NEW i \in 0 .. Len(m)
    PROVE  /\ i < Len(m) => /\ ScanByte(Took(m, i), Sent(m)[i + 1]) = Took(m, i + 1)
                            /\ ~ScanDone(Took(m, i), Sent(m)[i + 1])
                            /\ Took(m, i + 1).inFrame
           /\ i = Len(m) => /\ ScanDone(Took(m, i), Sent(m)[i + 1])
                            /\ Append(Took(m, i).buf, Sent(m)[i + 1]) = m
<1>1. /\ Len(m) \in Nat /\ Len(m) >= 3 /\ m[2] + 3 = Len(m) /\ HostBufLen \in Nat
      /\ m[2] \in Byte /\ m[2] <= PayloadMax /\ FrameParse(m)
  BY BufferAssumption DEF Decode, FrameParse, Overhead
<1>2. CASE i = 0
  <2>1. Sent(m)[0 + 1] = Sync
    BY SentIs
  <2>2. Took(m, 0) = Hunting /\ Took(m, 0 + 1) = [inFrame |-> TRUE, buf |-> <<>>]
    BY TookIs
  <2>3. ~Hunting.inFrame
    BY DEF Hunting
  <2>4. ScanByte(Hunting, Sync) = [inFrame |-> TRUE, buf |-> <<>>]
    BY <1>1, <2>3 DEF ScanByte, Overhead
  <2>5. ~ScanDone(Hunting, Sync)
    BY <2>3 DEF ScanDone
  <2>6. i < Len(m) /\ i # Len(m)
    BY <1>1, <1>2
  <2>7. [inFrame |-> TRUE, buf |-> <<>>].inFrame
    OBVIOUS
  <2> QED BY <1>2, <2>1, <2>2, <2>4, <2>5, <2>6, <2>7, Zenon
<1>3. CASE i # 0
  <2> DEFINE b == SubSeq(m, 1, i)
             a == SubSeq(m, 1, i - 1)
  <2>1. i \in 1 .. Len(m) /\ i \in Nat \ {0}
    BY <1>1, <1>3
  <2>2. Sent(m)[i + 1] = m[i]
    BY <2>1, SentIs
  <2>3. /\ Took(m, i).inFrame = TRUE /\ Took(m, i).buf = a
        /\ Took(m, i + 1) = [inFrame |-> TRUE, buf |-> b]
    BY <2>1, TookIs, Zenon
  <2>4. Append(a, m[i]) = b /\ Len(b) = i /\ Len(a) = i - 1 /\ (i >= 2 => b[2] = m[2])
    BY <2>1, PrefixGrows
  <2>5. i = Len(m) => b = m
    OBVIOUS
  <2> HIDE DEF a, b
  <2>6. ScanStays(b) <=> i < Len(m)
    BY <1>1, <2>1, <2>4 DEF ScanStays, ScanFits, Overhead
  <2>7. Len(a) < HostBufLen
    BY <1>1, <2>1, <2>4
  <2>8. ScanStays(b) => ScanByte(Took(m, i), m[i]) = [inFrame |-> TRUE, buf |-> b]
    BY <2>3, <2>4, <2>7, Zenon DEF ScanByte
  <2>9. ScanDone(Took(m, i), m[i]) <=> ~ScanStays(b) /\ ScanFits(b[2]) /\ FrameParse(b)
    BY <2>3, <2>4, <2>7, Zenon DEF ScanDone
  <2>10. CASE i < Len(m)
    BY <2>2, <2>3, <2>6, <2>8, <2>9, <2>10
  <2>11. CASE i = Len(m)
    BY <1>1, <2>2, <2>3, <2>4, <2>5, <2>6, <2>9, <2>11 DEF Overhead, ScanFits
  <2> QED BY <2>1, <2>10, <2>11
<1> QED BY <1>2, <1>3
-----------------------------------------------------------------------------
(* The environment, which no step changes.                                 *)
EnvInv ==
    /\ devBit \in DevBits /\ turnaround \in Turnarounds /\ noise \in Breaks
    /\ phase \in {"request", "reply"}

(* The break of BreakRecovered, what it costs, and the noise the host is   *)
(* to survive.                                                             *)
Break ==
    /\ noise.upto - noise.from \in 10 * HostBit .. 19 * HostBit
    /\ noise.dir = "reply" /\ noise.from >= RequestEnd
Charge == IF Break THEN 1 ELSE 0
Benign == Quiet \/ (Tolerant /\ Break /\ noise.upto + HostBit <= answerAt)

(* The device is between two characters of the request.                    *)
DevInv ==
    phase = "request" /\ (Quiet \/ Break) =>
        /\ now \in Nat /\ answerAt = Horizon /\ scanner = Hunting
        /\ attempts = 0 /\ junk = 0 /\ outcome = "none"
        /\ \E i \in 0 .. Len(Request) :
              link = Took(Request, i) /\ MarkUntil(RequestAt + 10 * HostBit * i)

(* The host has begun to listen; it is between two characters of the       *)
(* reply, a break behind it; or it has the frame.  No idle sample is       *)
(* counted for the time a character takes.                                 *)
CharTime == 9 * HostBit + HostBit \div 2
Begun == now = RequestEnd /\ scanner = Hunting /\ attempts = 0 /\ junk = 0
Waiting(i) ==
    /\ now \in Nat /\ attempts \in Nat /\ scanner = Took(Reply, i) /\ junk = Charge
    /\ MarkUntil(answerAt + 10 * devBit * i)
    /\ Break => now >= noise.upto
    /\ RequestEnd + attempts * Poll + i * CharTime <= now
HostInv ==
    phase = "reply" /\ Benign =>
        /\ answerAt \in RequestEnd .. RequestEnd + turnaround - 1 /\ link.buf = Request
        /\ \/ outcome = "none" /\ Begun
           \/ outcome = "none" /\ \E i \in 0 .. Len(Reply) : Waiting(i)
           \/ outcome = "frame" /\ scanner.buf = Reply /\ junk = Charge

(* The two ends are matched and patient: the numbers of this environment.  *)
LEMMA Times ==
    ASSUME EnvInv, Matched, Patient
    PROVE  /\ devBit \in Nat \ {0} /\ HostBit \in Nat \ {0} /\ turnaround \in Nat
           /\ InBudget(HostBit, devBit) /\ InBudget(devBit, HostBit)
           /\ Len(Request) \in Nat /\ Len(Reply) \in Nat /\ Horizon \in Nat
           /\ RequestEnd \in Nat /\ turnaround >= HostBit
           /\ 10 * devBit * (Len(Reply) + 1) \in Nat
           /\ RequestEnd + turnaround + 10 * devBit * (Len(Reply) + 1) <= Horizon
           /\ RequestEnd <= Horizon
<1>1. /\ devBit \in Nat \ {0} /\ HostBit \in Nat \ {0} /\ turnaround \in Nat
      /\ Horizon \in Nat
  BY TimesAssumption DEF EnvInv
<1>2. InBudget(HostBit, devBit) /\ InBudget(devBit, HostBit)
  BY DEF EnvInv, Matched
<1>3. Len(Request) \in Nat /\ Len(Reply) \in Nat
  BY MessagesAssumption
<1>4. \A a, b \in Nat : 10 * a * (b + 1) \in Nat
  OBVIOUS
<1>5. 10 * HostBit * (Len(Request) + 1) \in Nat /\ 10 * devBit * (Len(Reply) + 1) \in Nat
  BY <1>1, <1>3, <1>4
<1>6. RequestEnd \in Nat
  BY <1>1, <1>5 DEF RequestEnd, RequestAt
<1>7. /\ turnaround >= HostBit
      /\ RequestEnd + turnaround + 10 * devBit * (Len(Reply) + 1) <= Horizon
  BY Zenon DEF EnvInv, Patient
<1>8. RequestEnd <= Horizon
  BY <1>1, <1>5, <1>6, <1>7
<1> QED BY <1>1, <1>2, <1>3, <1>5, <1>6, <1>7, <1>8

(* In the request phase nothing holds the line low: the device sees what   *)
(* the host drives.                                                        *)
LEMMA RequestLine ==
    ASSUME EnvInv, Matched, Patient, phase = "request", Quiet \/ Break, now \in Nat
    PROVE  Carries(RequestAt, HostBit, Sent(Request))
<1> SUFFICES ASSUME NEW t \in now .. RequestAt + 10 * HostBit * Len(Sent(Request)) - 1
             PROVE  Level(t) = Driven(Wave(Sent(Request), HostBit), t - RequestAt)
  BY DEF Carries
<1>1. Len(Sent(Request)) = Len(Request) + 1
  BY SentIs, MessagesAssumption
<1>2. RequestAt + 10 * HostBit * Len(Sent(Request)) = RequestEnd
  BY <1>1 DEF RequestEnd
<1>3. RequestEnd \in Nat /\ Horizon \in Nat /\ RequestEnd <= Horizon
  BY Times
<1>4. t \in now .. RequestEnd - 1
  <2> DEFINE z == 10 * HostBit * Len(Sent(Request))
  <2>1. z \in Nat /\ HostBit \in Nat
    <3>1. \A a, b \in Nat : 10 * a * (b + 1) \in Nat
      OBVIOUS
    <3> QED BY <1>1, <3>1, Times
  <2>2. t \in now .. RequestAt + (z - 1) /\ RequestAt + z = RequestEnd
    BY <1>2
  <2> HIDE DEF z
  <2> QED BY <2>1, <2>2 DEF RequestAt
<1>5. t \in Nat /\ t < Horizon
  BY <1>3, <1>4
<1>6. noise.from \in Nat /\ noise.upto \in Nat
  BY BreaksAssumption DEF EnvInv
<1>7. ~Broken(t)
  <2>1. CASE Quiet
    BY <1>3, <1>5, <1>6, <2>1 DEF Quiet, Broken
  <2>2. CASE Break
    BY <2>2 DEF Break, Broken
  <2> QED BY <2>1, <2>2
<1> QED BY <1>7 DEF Level, RequestWave, Sent

(* In the reply phase the host sees what the device drives, once a break   *)
(* is over.                                                                *)
LEMMA ReplyLine ==
    ASSUME EnvInv, Matched, Patient, phase = "reply", Benign, now \in Nat,
           Break => now >= noise.upto,
           answerAt \in RequestEnd .. RequestEnd + turnaround - 1
    PROVE  /\ \A t \in Nat : now <= t /\ t < Horizon
                               => Level(t) = Driven(Wave(Sent(Reply), devBit), t - answerAt)
           /\ Carries(answerAt, devBit, Sent(Reply))
           /\ now <= answerAt => MarkUntil(answerAt)
<1>1. /\ RequestEnd \in Nat /\ Horizon \in Nat /\ turnaround \in Nat /\ devBit \in Nat
      /\ 10 * devBit * (Len(Reply) + 1) \in Nat /\ HostBit \in Nat
      /\ RequestEnd + turnaround + 10 * devBit * (Len(Reply) + 1) <= Horizon
  BY Times
<1>2. Len(Sent(Reply)) = Len(Reply) + 1
  BY SentIs, MessagesAssumption
<1>3. noise.from \in Nat /\ noise.upto \in Nat
  BY BreaksAssumption DEF EnvInv
<1> DEFINE total == 10 * devBit * (Len(Reply) + 1)
<1>4. total \in Nat /\ RequestEnd + turnaround + total <= Horizon
  BY <1>1
<1>5. 10 * devBit * Len(Sent(Reply)) = total
  BY <1>2
<1> HIDE DEF total
<1>6. answerAt \in Nat /\ answerAt < Horizon /\ answerAt + total <= Horizon
  BY <1>1, <1>4
<1>7. ASSUME NEW t \in Nat, now <= t, t < Horizon
      PROVE  Level(t) = Driven(Wave(Sent(Reply), devBit), t - answerAt)
  <2>1. ~Broken(t)
    <3>1. CASE Quiet
      BY <1>1, <1>3, <1>7, <3>1 DEF Quiet, Broken
    <3>2. CASE ~Quiet
      <4>1. Break /\ noise.upto + HostBit <= answerAt
        BY <3>2 DEF Benign
      <4>2. noise.upto <= Horizon /\ t >= noise.upto
        BY <1>1, <1>3, <1>6, <1>7, <4>1
      <4> QED BY <1>1, <1>3, <1>7, <4>2 DEF Broken
    <3> QED BY <3>1, <3>2
  <2>2. ReplyWave[devBit] = Wave(Sent(Reply), devBit)
    BY DEF ReplyWave, EnvInv, Sent
  <2>3. phase # "request"
    OBVIOUS
  <2> QED BY <2>1, <2>2, <2>3 DEF Level
<1>8. Carries(answerAt, devBit, Sent(Reply))
  <2> SUFFICES ASSUME NEW t \in now .. answerAt + total - 1
               PROVE  Level(t) = Driven(Wave(Sent(Reply), devBit), t - answerAt)
    BY <1>5 DEF Carries
  <2> QED BY <1>1, <1>4, <1>6, <1>7
<1>9. ASSUME now <= answerAt PROVE MarkUntil(answerAt)
  <2> SUFFICES ASSUME NEW t \in now .. answerAt - 1 PROVE Level(t) = 1
    BY <1>9 DEF MarkUntil
  <2>1. t \in Nat /\ now <= t /\ t < Horizon /\ t - answerAt \in Int /\ t - answerAt < 0
    BY <1>1, <1>6
  <2> QED BY <1>7, <2>1, WaveIdle
<1> QED BY <1>7, <1>8, <1>9

(* A step within a phase leaves the line as it is.                         *)
LEMMA SameLine ==
    ASSUME UNCHANGED <<devBit, noise, phase, answerAt>>
    PROVE  \A t : Level(t)' = Level(t)
BY DEF Level, Broken, Driven

(* The characters of a message follow each other.                          *)
LEMMA NextChar ==
    ASSUME NEW start \in Nat, NEW bit \in Nat, NEW n \in Nat, NEW i \in 0 .. n
    PROVE  /\ start + 10 * bit * i \in Nat
           /\ start + 10 * bit * (i + 1) = start + 10 * bit * i + 10 * bit
           /\ start + 10 * bit * i + 10 * bit <= start + 10 * bit * (n + 1)
           /\ 10 * bit * (n + 1) \in Nat
           /\ i = n => start + 10 * bit * i + 10 * bit = start + 10 * bit * (n + 1)
<1>1. (i + 1) * (10 * bit) <= (n + 1) * (10 * bit)
  BY Monotone
<1>2. (i + 1) * (10 * bit) = 10 * bit * i + 10 * bit /\ 10 * bit * i \in Nat
      /\ 10 * bit * (i + 1) = 10 * bit * i + 10 * bit
  OBVIOUS
<1>3. (n + 1) * (10 * bit) = 10 * bit * (n + 1) /\ 10 * bit * (n + 1) \in Nat
  OBVIOUS
<1> DEFINE a == 10 * bit * i
           z == 10 * bit * (n + 1)
           c == 10 * bit * (i + 1)
<1>4. a \in Nat /\ z \in Nat /\ a + 10 * bit <= z /\ c = a + 10 * bit
  BY <1>1, <1>2, <1>3
<1>5. i = n => z = a + 10 * bit
  BY <1>2
<1> HIDE DEF a, z, c
<1>6. /\ start + a \in Nat /\ start + c = start + a + 10 * bit
      /\ start + a + 10 * bit <= start + z /\ z \in Nat
      /\ i = n => start + a + 10 * bit = start + z
  BY <1>4, <1>5
<1> QED BY <1>6 DEF a, z, c

(* The device's hunt is long enough to see an edge before Horizon.         *)
LEMMA WithinSamples ==
    ASSUME NEW k \in Nat, NEW a \in Nat, a + k * Poll < Horizon
    PROVE  k < Samples /\ Samples \in Nat
<1>1. Poll \in Nat \ {0} /\ Horizon \in Nat
  BY TimesAssumption
<1> DEFINE q == Horizon \div Poll
           r == Horizon % Poll
<1>2. q \in Nat /\ r \in 0 .. Poll - 1 /\ Horizon = q * Poll + r
  <2>1. \A u \in Nat, d \in Nat \ {0} :
           u \div d \in Nat /\ u % d \in 0 .. d - 1 /\ u = (u \div d) * d + (u % d)
    OBVIOUS
  <2> QED BY <1>1, <2>1
<1> HIDE DEF q, r
<1>3. k < q + 1
  <2> SUFFICES ASSUME q + 1 <= k PROVE FALSE
    BY <1>2
  <2>1. (q + 1) * Poll <= k * Poll
    BY <1>1, <1>2, Monotone
  <2>2. (q + 1) * Poll = q * Poll + Poll /\ q * Poll \in Nat /\ k * Poll \in Nat
    BY <1>1, <1>2
  <2> QED BY <1>1, <1>2, <2>1, <2>2
<1> QED BY <1>2, <1>3 DEF Samples, q

(* The device takes the request: each character brings it to the next, and *)
(* the last one to its reply.                                              *)
LEMMA DevStep ==
    ASSUME EnvInv, DevInv, Matched, Patient, phase = "request", Quiet \/ Break, Next
    PROVE  DevInv' /\ HostInv'
<1>1. /\ devBit \in Nat \ {0} /\ HostBit \in Nat \ {0} /\ turnaround \in Nat
      /\ InBudget(HostBit, devBit) /\ Len(Request) \in Nat /\ Horizon \in Nat
      /\ RequestEnd \in Nat /\ turnaround >= HostBit /\ RequestEnd <= Horizon
  BY Times
<1>2. /\ now \in Nat /\ answerAt = Horizon /\ scanner = Hunting
      /\ attempts = 0 /\ junk = 0 /\ outcome = "none"
  BY DEF DevInv
<1>3. PICK i \in 0 .. Len(Request) :
         link = Took(Request, i) /\ MarkUntil(RequestAt + 10 * HostBit * i)
  BY DEF DevInv
<1>4. Bit = devBit
  BY DEF Bit
<1>5. Request \in Seq(Byte) /\ Sent(Request) \in Seq(Byte)
      /\ i \in 0 .. Len(Sent(Request)) - 1
  BY <1>1, SentIs, MessagesAssumption
<1>6. Carries(RequestAt, HostBit, Sent(Request))
  BY <1>2, RequestLine
<1> DEFINE s == RequestAt + 10 * HostBit * i
           c == Sent(Request)[i + 1]
<1>7. PICK k \in Nat : Heard(k, s, HostBit, c)
  BY <1>1, <1>2, <1>3, <1>4, <1>5, <1>6, CharHeard DEF RequestAt
<1>8. /\ s \in Nat /\ s + 10 * HostBit <= RequestEnd
      /\ i = Len(Request) => s + 10 * HostBit = RequestEnd
      /\ RequestAt + 10 * HostBit * (i + 1) = s + 10 * HostBit
  BY <1>1, NextChar DEF RequestEnd, RequestAt
<1> HIDE DEF s, c
<1> DEFINE e == now + k * Poll
<1>9. /\ e \in Nat /\ Char(e) = c /\ ~FramingError(e) /\ StopAt(e) \in Nat
      /\ e <= StopAt(e) /\ StopAt(e) < s + 10 * HostBit /\ StopAt(e) >= s + 9 * HostBit
      /\ \A t \in StopAt(e) .. s + 10 * HostBit - 1 : Level(t) = 1
      /\ \A n \in Nat : k <= n => Idle(n) = k
  <2>1. Half \in Nat
    BY <1>1, <1>4 DEF Half
  <2>2. /\ e \in s .. s + Poll - 1 /\ Char(e) = c /\ ~FramingError(e)
        /\ \A n \in Nat : k <= n => Idle(n) = k
        /\ StopAt(e) = e + 9 * devBit + Half
        /\ StopAt(e) \in s + 9 * HostBit .. s + 10 * HostBit - 1
        /\ \A t \in StopAt(e) .. s + 10 * HostBit - 1 : Level(t) = 1
    BY <1>4, <1>7 DEF Heard
  <2>3. Poll \in Nat
    BY TimesAssumption
  <2> HIDE DEF e
  <2> QED BY <1>1, <1>8, <2>1, <2>2, <2>3
<1>10. e < Horizon
  BY <1>1, <1>8, <1>9
<1>11. k < Samples /\ Samples \in Nat
  BY <1>2, <1>10, WithinSamples
<1>12. Idle(Samples) = k
  BY <1>9, <1>11
<1>13. After(e) = StopAt(e)
  <2>1. StopAt(e) < Horizon
    BY <1>1, <1>8, <1>9
  <2> QED BY <1>9, <2>1 DEF After
<1>14. now < Horizon
  BY <1>1, <1>2, <1>3, <1>8 DEF MarkUntil, s
<1>15. DevHears
  <2>1. ~DevHearsNothing
    BY <1>1, <1>2, <1>11, <1>12, <1>14 DEF DevHearsNothing
  <2> QED BY <1>2, <2>1 DEF Next, Receive, Done, HostHears, HostGivesUp
<1> HIDE DEF e
<1>16. /\ link' = LinkByte(link, c)
       /\ phase' = (IF LinkDelivers(link, c) THEN "reply" ELSE "request")
       /\ answerAt' = (IF LinkDelivers(link, c) THEN StopAt(e) + turnaround ELSE answerAt)
       /\ now' = (IF LinkDelivers(link, c) THEN RequestEnd ELSE StopAt(e))
       /\ UNCHANGED <<devBit, turnaround, noise, scanner, attempts, junk, outcome>>
  BY <1>9, <1>12, <1>13, <1>15 DEF DevHears, e
<1>17. FrameParse(Request) /\ Len(Request) <= BufLen
  BY DEF Matched
<1>18. CASE i < Len(Request)
  <2>1. LinkByte(link, c) = Took(Request, i + 1) /\ ~LinkDelivers(link, c)
    BY <1>3, <1>5, <1>17, <1>18, LinkTakes DEF c
  <2>2. /\ link' = Took(Request, i + 1) /\ phase' = "request" /\ answerAt' = answerAt
        /\ now' = StopAt(e)
    BY <1>16, <2>1
  <2>3. \A t : Level(t)' = Level(t)
    BY <1>16, <2>2, SameLine
  <2>4. i + 1 \in 0 .. Len(Request)
    BY <1>1, <1>18
  <2>5. MarkUntil(RequestAt + 10 * HostBit * (i + 1))'
    <3>1. now' <= s + 10 * HostBit /\ \A t \in now' .. s + 10 * HostBit - 1 : Level(t)' = 1
      BY <1>1, <1>8, <1>9, <2>2, <2>3
    <3> DEFINE z == RequestAt + 10 * HostBit * (i + 1)
    <3>2. z \in Nat /\ z = s + 10 * HostBit
      BY <1>1, <1>8
    <3> HIDE DEF z
    <3>3. now' <= z /\ \A t \in now' .. z - 1 : Level(t)' = 1
      BY <1>1, <1>8, <3>1, <3>2
    <3> QED BY <3>3, Zenon DEF MarkUntil, z
  <2>6. DevInv'
    BY <1>2, <1>9, <1>16, <2>2, <2>4, <2>5 DEF DevInv
  <2>7. HostInv'
    BY <2>2 DEF HostInv
  <2> QED BY <2>6, <2>7
<1>19. CASE i = Len(Request)
  <2>1. LinkByte(link, c).buf = Request /\ LinkDelivers(link, c)
    BY <1>3, <1>5, <1>17, <1>19, LinkTakes DEF c
  <2>2. /\ link'.buf = Request /\ phase' = "reply" /\ answerAt' = StopAt(e) + turnaround
        /\ now' = RequestEnd
    BY <1>16, <2>1
  <2>3. answerAt' \in RequestEnd .. RequestEnd + turnaround' - 1
    BY <1>1, <1>8, <1>9, <1>16, <1>19, <2>2
  <2>4. outcome' = "none" /\ Begun'
    BY <1>2, <1>16, <2>2 DEF Begun
  <2>5. HostInv'
    BY <2>2, <2>3, <2>4 DEF HostInv
  <2>6. DevInv'
    BY <2>2 DEF DevInv
  <2> QED BY <2>5, <2>6
<1> QED BY <1>1, <1>18, <1>19

(* The host still has idle samples left when an edge comes: they are Poll  *)
(* apart, and Patient bounds the time the line is idle.                    *)
LEMMA AttemptsLeft ==
    ASSUME EnvInv, Matched, Patient, NEW i \in 0 .. Len(Reply), NEW k \in Nat,
           attempts \in Nat, now \in Nat,
           answerAt \in RequestEnd .. RequestEnd + turnaround - 1,
           RequestEnd + attempts * Poll + i * CharTime <= now,
           now + k * Poll <= answerAt + 10 * devBit * i + (Poll - 1)
    PROVE  /\ attempts + k < PollAttempts
           /\ RequestEnd + (attempts + k) * Poll + i * CharTime <= now + k * Poll
<1>1. /\ Poll \in Nat \ {0} /\ HostBit \in Nat /\ devBit \in Nat /\ PollAttempts \in Nat
      /\ turnaround \in Nat /\ RequestEnd \in Nat /\ Len(Reply) \in Nat
  BY Times, TimesAssumption, CountsAssumption
<1>2. turnaround + 10 * devBit * i + Poll <= PollAttempts * Poll + i * CharTime
  BY Zenon DEF EnvInv, Patient, CharTime
<1>3. CharTime \in Nat
  BY <1>1 DEF CharTime
<1> DEFINE A == attempts * Poll
           K == k * Poll
           P == PollAttempts * Poll
           C == i * CharTime
           D == 10 * devBit * i
           S == (attempts + k) * Poll
<1>4. A \in Nat /\ K \in Nat /\ P \in Nat /\ C \in Nat /\ D \in Nat /\ S = A + K
  <2>1. \A a, b \in Nat : a * b \in Nat /\ 10 * a * b \in Nat
    OBVIOUS
  <2>2. S = A + K
    BY <1>1
  <2> QED BY <1>1, <1>3, <2>1, <2>2
<1>5. /\ turnaround + D + Poll <= P + C /\ RequestEnd + A + C <= now
      /\ now + K <= answerAt + D + (Poll - 1)
  BY <1>2
<1> HIDE DEF A, K, P, C, D, S
<1>6. S < P /\ RequestEnd + S + C <= now + K
  BY <1>1, <1>4, <1>5
<1>7. ~(PollAttempts <= attempts + k)
  <2>1. PollAttempts <= attempts + k => P <= S
    BY <1>1, Monotone DEF P, S
  <2> QED BY <1>4, <1>6, <2>1
<1>8. attempts + k < PollAttempts
  BY <1>1, <1>7
<1> QED BY <1>6, <1>8 DEF S, C, K

(* The host takes the reply: each character brings it to the next, and the *)
(* last one to the frame.                                                  *)
LEMMA HostStep ==
    ASSUME EnvInv, Matched, Patient, phase = "reply", Benign, outcome = "none",
           answerAt \in RequestEnd .. RequestEnd + turnaround - 1, link.buf = Request,
           NEW i \in 0 .. Len(Reply), Waiting(i), Next
    PROVE  HostInv'
<1>1. /\ devBit \in Nat \ {0} /\ HostBit \in Nat \ {0} /\ turnaround \in Nat
      /\ InBudget(devBit, HostBit) /\ Len(Reply) \in Nat /\ Horizon \in Nat
      /\ RequestEnd \in Nat /\ 10 * devBit * (Len(Reply) + 1) \in Nat
      /\ RequestEnd + turnaround + 10 * devBit * (Len(Reply) + 1) <= Horizon
      /\ Poll \in Nat \ {0} /\ PollAttempts \in Nat
  BY Times, TimesAssumption, CountsAssumption
<1>2. /\ now \in Nat /\ attempts \in Nat /\ scanner = Took(Reply, i) /\ junk = Charge
      /\ MarkUntil(answerAt + 10 * devBit * i) /\ (Break => now >= noise.upto)
      /\ RequestEnd + attempts * Poll + i * CharTime <= now
  BY DEF Waiting
<1>3. Bit = HostBit /\ Half = HostBit \div 2 /\ CharTime \in Nat
  BY <1>1 DEF Bit, Half, CharTime
<1>4. answerAt \in Nat
  BY <1>1
<1>5. Reply \in Seq(Byte) /\ Sent(Reply) \in Seq(Byte) /\ i \in 0 .. Len(Sent(Reply)) - 1
  BY <1>1, SentIs, MessagesAssumption
<1>6. Carries(answerAt, devBit, Sent(Reply))
  BY <1>2, ReplyLine
<1> DEFINE s == answerAt + 10 * devBit * i
           c == Sent(Reply)[i + 1]
           z == answerAt + 10 * devBit * (Len(Reply) + 1)
<1>7. PICK k \in Nat : Heard(k, s, devBit, c)
  BY <1>1, <1>2, <1>3, <1>4, <1>5, <1>6, CharHeard
<1>8. /\ s \in Nat /\ s + 10 * devBit <= z /\ z <= Horizon /\ z \in Nat
      /\ answerAt + 10 * devBit * (i + 1) = s + 10 * devBit
  <2>1. /\ s \in Nat /\ s + 10 * devBit <= z
        /\ answerAt + 10 * devBit * (i + 1) = s + 10 * devBit
    BY <1>1, <1>4, NextChar
  <2>2. z <= Horizon /\ z \in Nat
    <3> DEFINE y == 10 * devBit * (Len(Reply) + 1)
    <3>1. y \in Nat /\ RequestEnd + turnaround + y <= Horizon
      BY <1>1
    <3>2. z = answerAt + y
      OBVIOUS
    <3> HIDE DEF y, z
    <3> QED BY <1>1, <1>4, <3>1, <3>2
  <2> QED BY <2>1, <2>2
<1> HIDE DEF s, c, z
<1> DEFINE e == now + k * Poll
<1>9. /\ e \in Nat /\ e <= s + (Poll - 1) /\ Char(e) = c /\ ~FramingError(e)
      /\ StopAt(e) = e + CharTime /\ StopAt(e) \in Nat /\ StopAt(e) < s + 10 * devBit
      /\ \A t \in StopAt(e) .. s + 10 * devBit - 1 : Level(t) = 1
      /\ \A n \in Nat : k <= n => Idle(n) = k
  <2>1. /\ e \in s .. s + Poll - 1 /\ Char(e) = c /\ ~FramingError(e)
        /\ \A n \in Nat : k <= n => Idle(n) = k
        /\ StopAt(e) = e + 9 * HostBit + Half
        /\ StopAt(e) \in s + 9 * devBit .. s + 10 * devBit - 1
        /\ \A t \in StopAt(e) .. s + 10 * devBit - 1 : Level(t) = 1
    BY <1>3, <1>7 DEF Heard
  <2> HIDE DEF e
  <2>2. StopAt(e) = e + CharTime
    BY <1>1, <1>3, <1>8, <2>1 DEF CharTime
  <2> QED BY <1>1, <1>3, <1>8, <2>1, <2>2
<1>10. /\ attempts + k < PollAttempts
       /\ RequestEnd + (attempts + k) * Poll + i * CharTime <= e
  BY <1>2, <1>9, AttemptsLeft DEF s
<1>11. Idle(PollAttempts - attempts) = k
  <2>1. PollAttempts - attempts \in Nat /\ k <= PollAttempts - attempts
    BY <1>1, <1>2, <1>10
  <2> QED BY <1>9, <2>1
<1>12. After(e) = StopAt(e)
  <2>1. StopAt(e) < Horizon
    BY <1>1, <1>8, <1>9
  <2> QED BY <1>9, <2>1 DEF After
<1>13. HostHears
  <2>1. ~HostGivesUp
    <3>1. attempts \in Nat /\ PollAttempts \in Nat /\ attempts + k < PollAttempts
      BY <1>1, <1>2, <1>10
    <3>2. ~(attempts + k >= PollAttempts)
      BY <3>1
    <3> QED BY <1>11, <3>2, Zenon DEF HostGivesUp
  <2>2. phase # "request"
    OBVIOUS
  <2> QED BY <2>1, <2>2 DEF Next, Receive, Done, DevHears, DevHearsNothing
<1> HIDE DEF e
<1>14. /\ attempts' = attempts + k
       /\ junk' = JunkAfter(e, c)
       /\ scanner' = (IF ScanDone(scanner, c) THEN [scanner EXCEPT !.buf = Append(@, c)]
                      ELSE ScanByte(scanner, c))
       /\ now' = StopAt(e)
       /\ outcome' = (IF ScanDone(scanner, c) THEN "frame"
                      ELSE IF junk' > junk /\ junk' >= ScanLimit THEN "desync" ELSE "none")
       /\ UNCHANGED <<devBit, turnaround, noise, phase, answerAt, link>>
  BY <1>9, <1>11, <1>12, <1>13 DEF HostHears, e
<1>15. Decode(Reply) /\ Len(Reply) <= HostBufLen
  BY DEF Matched
<1>16. /\ Charge' = Charge /\ (Break' <=> Break)
       /\ answerAt' \in RequestEnd .. RequestEnd + turnaround' - 1 /\ link'.buf = Request
  BY <1>14 DEF Charge, Break
<1>17. CASE i < Len(Reply)
  <2>1. /\ ScanByte(scanner, c) = Took(Reply, i + 1) /\ ~ScanDone(scanner, c)
        /\ Took(Reply, i + 1).inFrame
    BY <1>2, <1>5, <1>15, <1>17, ScanTakes DEF c
  <2>2. junk' = junk
    BY <1>9, <1>14, <2>1 DEF JunkAfter
  <2>3. junk \in Nat
    BY <1>2 DEF Charge
  <2>4. outcome' = "none" /\ scanner' = Took(Reply, i + 1)
    BY <1>14, <2>1, <2>2, <2>3
  <2>5. \A t : Level(t)' = Level(t)
    BY <1>14, SameLine
  <2>6. i + 1 \in 0 .. Len(Reply)
    BY <1>1, <1>17
  <2>7. MarkUntil(answerAt + 10 * devBit * (i + 1))'
    <3> DEFINE x == answerAt + 10 * devBit * (i + 1)
    <3>1. x \in Nat /\ x = s + 10 * devBit
      BY <1>1, <1>8
    <3>2. x' = x
      BY <1>14
    <3> HIDE DEF x
    <3>3. now' <= s + 10 * devBit /\ \A t \in now' .. s + 10 * devBit - 1 : Level(t)' = 1
      <4>1. now' = StopAt(e)
        BY <1>14
      <4>2. StopAt(e) <= s + 10 * devBit
        BY <1>1, <1>8, <1>9
      <4>3. \A t \in StopAt(e) .. s + 10 * devBit - 1 : Level(t)' = 1
        BY <1>9, <2>5, Zenon
      <4> QED BY <4>1, <4>2, <4>3
    <3>4. now' <= x /\ \A t \in now' .. x - 1 : Level(t)' = 1
      BY <1>1, <1>8, <3>1, <3>3
    <3>5. now' <= x' /\ \A t \in now' .. x' - 1 : Level(t)' = 1
      BY <3>2, <3>4
    <3> QED BY <3>5, Zenon DEF MarkUntil, x
  <2>8. RequestEnd + attempts' * Poll + (i + 1) * CharTime <= now'
    <3>1. (i + 1) * CharTime = i * CharTime + CharTime /\ i * CharTime \in Nat
      BY <1>3
    <3>2. (attempts + k) * Poll \in Nat
      BY <1>1, <1>2
    <3> DEFINE a == (attempts + k) * Poll
               b == i * CharTime
               d == (i + 1) * CharTime
    <3>3. a \in Nat /\ b \in Nat /\ d = b + CharTime /\ RequestEnd + a + b <= e
      BY <1>10, <3>1, <3>2
    <3> HIDE DEF a, b, d
    <3>4. RequestEnd + a + d <= e + CharTime
      BY <1>1, <1>3, <1>9, <3>3
    <3> QED BY <1>9, <1>14, <3>4 DEF a, d
  <2>9. Break' => now' >= noise'.upto
    <3>1. now <= StopAt(e)
      <4>1. k * Poll \in Nat
        BY <1>1
      <4>2. now \in Nat /\ CharTime \in Nat /\ StopAt(e) = e + CharTime
        BY <1>2, <1>3, <1>9
      <4>3. e = now + k * Poll
        BY DEF e
      <4> QED BY <4>1, <4>2, <4>3
    <3>2. noise.upto \in Nat
      BY BreaksAssumption DEF EnvInv
    <3> QED BY <1>2, <1>9, <1>14, <1>16, <3>1, <3>2
  <2>10. now' \in Nat /\ attempts' \in Nat /\ junk' = Charge'
    BY <1>2, <1>9, <1>14, <1>16, <2>2
  <2>11. Waiting(i + 1)'
    BY <2>4, <2>7, <2>8, <2>9, <2>10 DEF Waiting
  <2> QED BY <1>16, <2>4, <2>6, <2>11 DEF HostInv
<1>18. CASE i = Len(Reply)
  <2>1. ScanDone(scanner, c) /\ Append(scanner.buf, c) = Reply
    BY <1>2, <1>5, <1>15, <1>18, ScanTakes DEF c
  <2>2. junk' = junk /\ outcome' = "frame"
    BY <1>9, <1>14, <2>1 DEF JunkAfter
  <2>3. scanner = [inFrame |-> TRUE, buf |-> SubSeq(Reply, 1, i - 1)]
    <3>1. i # 0
      BY <1>1, <1>15, <1>18 DEF Decode, FrameParse, Overhead
    <3> QED BY <1>2, <3>1 DEF Took
  <2>4. scanner'.buf = Reply
    BY <1>14, <2>1, <2>3
  <2> QED BY <1>2, <1>16, <2>2, <2>4 DEF HostInv
<1> QED BY <1>1, <1>17, <1>18

(* Bit times that match each other match themselves: Poll is less than     *)
(* half a bit.                                                             *)
LEMMA OwnBudget ==
    ASSUME EnvInv, Matched, Patient
    PROVE  9 * HostBit + HostBit \div 2 + Poll <= 10 * HostBit
<1>1. devBit \in Nat /\ HostBit \in Nat /\ Poll \in Nat
      /\ InBudget(HostBit, devBit) /\ InBudget(devBit, HostBit)
  BY Times, TimesAssumption
<1>2. /\ 9 * devBit + devBit \div 2 + Poll <= (9 + 1) * HostBit
      /\ 9 * HostBit + HostBit \div 2 + Poll <= (9 + 1) * devBit
  BY <1>1 DEF InBudget
<1> QED BY <1>1, <1>2

(* The line around a break that is over in time.                           *)
LEMMA BrokenLine ==
    ASSUME EnvInv, Matched, Patient, phase = "reply", Benign, ~Quiet,
           answerAt \in RequestEnd .. RequestEnd + turnaround - 1
    PROVE  /\ \A t \in RequestEnd .. noise.from - 1 : Level(t) = 1
           /\ \A t \in noise.from .. noise.upto - 1 : Level(t) = 0
           /\ \A t \in noise.upto .. answerAt - 1 : Level(t) = 1
<1>1. Break /\ noise.upto + HostBit <= answerAt /\ noise.from \in Nat /\ noise.upto \in Nat
  BY BreaksAssumption DEF Benign, EnvInv
<1>2. /\ RequestEnd \in Nat /\ Horizon \in Nat /\ turnaround \in Nat /\ HostBit \in Nat
      /\ 10 * devBit * (Len(Reply) + 1) \in Nat
      /\ RequestEnd + turnaround + 10 * devBit * (Len(Reply) + 1) <= Horizon
  BY Times
<1>3. answerAt \in Nat /\ answerAt < Horizon
  <2> DEFINE z == 10 * devBit * (Len(Reply) + 1)
  <2>1. z \in Nat /\ RequestEnd + turnaround + z <= Horizon
    BY <1>2
  <2> HIDE DEF z
  <2> QED BY <1>2, <2>1
<1>4. /\ noise.dir = phase /\ noise.from >= RequestEnd /\ noise.from <= noise.upto
      /\ noise.upto <= Horizon /\ noise.upto <= answerAt
  <2>1. /\ noise.dir = phase /\ noise.from >= RequestEnd
        /\ noise.upto - noise.from \in 10 * HostBit .. 19 * HostBit
    BY <1>1 DEF Break
  <2>2. HostBit \in Nat /\ RequestEnd \in Nat /\ Horizon \in Nat
    BY <1>2
  <2>3. noise.upto + HostBit <= answerAt /\ noise.from \in Nat /\ noise.upto \in Nat
    BY <1>1
  <2> QED BY <1>3, <2>1, <2>2, <2>3
<1>5. ASSUME NEW t \in Int, t < answerAt, ~Broken(t) PROVE Level(t) = 1
  <2>1. ReplyWave[devBit] = Wave(Sent(Reply), devBit)
    BY DEF ReplyWave, EnvInv, Sent
  <2>2. phase # "request"
    OBVIOUS
  <2>3. Level(t) = Driven(Wave(Sent(Reply), devBit), t - answerAt)
    BY <1>5, <2>1, <2>2 DEF Level
  <2>4. t - answerAt \in Int /\ t - answerAt < 0
    BY <1>3, <1>5
  <2> QED BY <2>3, <2>4, WaveIdle
<1>6. ASSUME NEW t \in RequestEnd .. noise.from - 1 PROVE Level(t) = 1
  <2>1. t \in Int /\ t < answerAt /\ t < noise.from
    <3>1. noise.from \in Nat /\ noise.upto \in Nat /\ RequestEnd \in Nat
      BY <1>1, <1>2
    <3> QED BY <1>3, <1>4, <3>1
  <2>2. ~Broken(t)
    BY <1>1, <2>1 DEF Broken
  <2> QED BY <1>5, <2>1, <2>2
<1>7. ASSUME NEW t \in noise.from .. noise.upto - 1 PROVE Level(t) = 0
  BY <1>1, <1>4 DEF Level, Broken
<1>8. ASSUME NEW t \in noise.upto .. answerAt - 1 PROVE Level(t) = 1
  <2>1. t \in Int /\ t < answerAt /\ t >= noise.upto
    BY <1>1, <1>3
  <2>2. ~Broken(t)
    BY <1>1, <1>2, <1>4, <2>1 DEF Broken
  <2> QED BY <1>5, <2>1, <2>2
<1> QED BY <1>6, <1>7, <1>8

(* After the framing error the wait for mark ends with the break, within   *)
(* half a bit.                                                             *)
LEMMA MarkFound ==
    ASSUME NEW t \in Nat, NEW u \in Nat, NEW z \in Nat, Half \in Nat \ {0},
           t < u, u <= t + 20 * Half, u + Half <= z,
           \A x \in t .. u - 1 : Level(x) = 0, \A x \in u .. z - 1 : Level(x) = 1
    PROVE  MarkAfter(t) \in u .. u + Half - 1
<1>1. PICK k \in Nat : /\ t + k * Half \in u .. u + Half - 1
                       /\ \A j \in 0 .. k - 1 : t + j * Half \in t .. u - 1
  <2>1. t <= u
    OBVIOUS
  <2> QED BY <2>1, FirstNotBefore, Zenon
<1> DEFINE high == {j \in 0 .. 19 : Level(t + j * Half) = 1}
<1>2. k <= 20
  <2> SUFFICES ASSUME 20 \in 0 .. k - 1 PROVE FALSE
    OBVIOUS
  <2>1. t + 20 * Half \in t .. u - 1
    BY <1>1
  <2> QED BY <2>1
<1>3. \A j \in high : j >= k
  <2> SUFFICES ASSUME NEW j \in 0 .. 19, Level(t + j * Half) = 1, j < k PROVE FALSE
    OBVIOUS
  <2>1. t + j * Half \in t .. u - 1
    BY <1>1
  <2>2. Level(t + j * Half) = 0
    BY <2>1
  <2> QED BY <2>2
<1>4. k <= 19 => k \in high
  <2>1. t + k * Half \in u .. z - 1
    <3> DEFINE y == t + k * Half
    <3>1. y \in u .. u + Half - 1
      BY <1>1
    <3> HIDE DEF y
    <3>2. y \in u .. z - 1
      BY <3>1
    <3> QED BY <3>2 DEF y
  <2>2. Level(t + k * Half) = 1
    BY <2>1
  <2> QED BY <2>2
<1>5. \A j \in high : j \in 0 .. 19
  OBVIOUS
<1>6. MarkAfter(t) = t + Half * (IF high = {} THEN 20
                                 ELSE CHOOSE j \in high : \A i \in high : j <= i)
  BY Zenon DEF MarkAfter
<1> HIDE DEF high
<1>7. CASE k <= 19
  <2>1. k \in high /\ high # {}
    BY <1>4, <1>7
  <2>2. \A j \in high : (\A i \in high : j <= i) => j = k
    BY <1>3, <1>5, <2>1
  <2>3. \A i \in high : k <= i
    BY <1>3, <1>5
  <2>4. (CHOOSE j \in high : \A i \in high : j <= i) = k
    BY <2>1, <2>2, <2>3
  <2>5. MarkAfter(t) = t + Half * k
    BY <1>6, <2>1, <2>4
  <2>6. Half * k = k * Half
    OBVIOUS
  <2> QED BY <1>1, <2>5, <2>6
<1>8. CASE k = 20
  <2>1. high = {}
    BY <1>3, <1>5, <1>8
  <2>2. MarkAfter(t) = t + Half * 20
    BY <1>6, <2>1
  <2>3. t + 20 * Half \in u .. u + Half - 1
    BY <1>1, <1>8
  <2>4. t + Half * 20 = t + 20 * Half
    OBVIOUS
  <2> QED BY <2>2, <2>3, <2>4
<1> QED BY <1>2, <1>7, <1>8

(* The host meets the break: one framing error, one byte of junk, and it   *)
(* is back before the reply.                                               *)
LEMMA BreakStep ==
    ASSUME EnvInv, Matched, Patient, phase = "reply", Benign, ~Quiet, outcome = "none",
           answerAt \in RequestEnd .. RequestEnd + turnaround - 1, link.buf = Request,
           Begun, Next
    PROVE  HostInv'
<1> DEFINE f == noise.from
           u == noise.upto
<1>1. Tolerant /\ Break /\ u + HostBit <= answerAt /\ f \in Nat /\ u \in Nat
  BY BreaksAssumption DEF Benign, EnvInv
<1>2. /\ devBit \in Nat \ {0} /\ HostBit \in Nat /\ HostBit >= 20 /\ turnaround \in Nat
      /\ Len(Reply) \in Nat /\ Horizon \in Nat /\ RequestEnd \in Nat
      /\ 10 * devBit * (Len(Reply) + 1) \in Nat
      /\ RequestEnd + turnaround + 10 * devBit * (Len(Reply) + 1) <= Horizon
      /\ Poll \in Nat \ {0} /\ PollAttempts \in Nat /\ ScanLimit \in Nat /\ ScanLimit > 1
  BY <1>1, Times, TimesAssumption, CountsAssumption DEF Tolerant
<1>3. /\ Bit = HostBit /\ Half = HostBit \div 2 /\ CharTime = 9 * HostBit + Half
      /\ Half \in Nat /\ Half >= 10 /\ HostBit <= 2 * Half + 1 /\ 2 * Half <= HostBit
      /\ CharTime + Poll <= 10 * HostBit
  <2>1. Bit = HostBit /\ Half = HostBit \div 2
    BY DEF Bit, Half
  <2>2. Half \in Nat /\ Half >= 10 /\ HostBit <= 2 * Half + 1 /\ 2 * Half <= HostBit
    BY <1>2, <2>1
  <2> QED BY <1>2, <2>1, <2>2, OwnBudget DEF CharTime
<1>4. answerAt \in Nat /\ answerAt < Horizon
  <2> DEFINE z == 10 * devBit * (Len(Reply) + 1)
  <2>1. z \in Nat /\ RequestEnd + turnaround + z <= Horizon
    BY <1>2
  <2> HIDE DEF z
  <2> QED BY <1>2, <2>1
<1>5. RequestEnd <= f /\ f + 10 * HostBit <= u /\ u <= f + 19 * HostBit
  <2>1. u - f \in 10 * HostBit .. 19 * HostBit /\ f >= RequestEnd
    BY <1>1 DEF Break
  <2> QED BY <1>1, <1>2, <2>1
<1>6. now = RequestEnd /\ scanner = Hunting /\ attempts = 0 /\ junk = 0
  BY DEF Begun
<1>7. /\ \A t \in RequestEnd .. f - 1 : Level(t) = 1
      /\ \A t \in f .. u - 1 : Level(t) = 0
      /\ \A t \in u .. answerAt - 1 : Level(t) = 1
  BY BrokenLine
<1> HIDE DEF f, u
<1>8. PICK k \in Nat : /\ now + k * Poll \in f .. f + Poll - 1
                       /\ \A j \in 0 .. k - 1 : now + j * Poll \in now .. f - 1
  <2>1. now \in Nat /\ now <= f
    BY <1>2, <1>5, <1>6
  <2> QED BY <1>1, <1>2, <2>1, FirstNotBefore, Zenon
<1> DEFINE e == now + k * Poll
<1>9. e \in Nat /\ f <= e /\ e <= f + (Poll - 1)
  BY <1>1, <1>2, <1>8
<1>10. Level(e) = 0
  <2> HIDE DEF e
  <2>1. e \in f .. u - 1
    BY <1>1, <1>2, <1>3, <1>5, <1>9
  <2> QED BY <1>7, <2>1
<1>11. ASSUME NEW n \in Nat, k <= n PROVE Idle(n) = k
  <2>1. \A j \in 0 .. k - 1 : Level(now + j * Poll) = 1
    BY <1>6, <1>7, <1>8
  <2> QED BY <1>10, <1>11, <2>1, IdleIs
<1>12. /\ attempts + k < PollAttempts
       /\ RequestEnd + (attempts + k) * Poll <= e
  <2>1. 0 \in 0 .. Len(Reply) /\ attempts \in Nat /\ now \in Nat
    BY <1>2, <1>6
  <2>2. RequestEnd + attempts * Poll + 0 * CharTime <= now
    BY <1>2, <1>3, <1>6
  <2>3. now + k * Poll <= answerAt + 10 * devBit * 0 + (Poll - 1)
    <3>1. e <= answerAt + (Poll - 1)
      <4> HIDE DEF e
      <4> QED BY <1>1, <1>2, <1>4, <1>5, <1>9
    <3>2. 10 * devBit * 0 = 0
      BY <1>2
    <3> QED BY <1>4, <3>1, <3>2
  <2>4. /\ attempts + k < PollAttempts
        /\ RequestEnd + (attempts + k) * Poll + 0 * CharTime <= now + k * Poll
    BY <2>1, <2>2, <2>3, AttemptsLeft
  <2>5. 0 * CharTime = 0 /\ (attempts + k) * Poll \in Nat
    BY <1>2, <1>3, <1>6
  <2> QED BY <1>2, <2>4, <2>5
<1>13. Idle(PollAttempts - attempts) = k
  <2>1. PollAttempts - attempts \in Nat /\ k <= PollAttempts - attempts
    BY <1>2, <1>6, <1>12
  <2> QED BY <1>11, <2>1
<1>14. HostHears
  <2>1. ~HostGivesUp
    BY <1>2, <1>6, <1>12, <1>13 DEF HostGivesUp
  <2>2. phase # "request"
    OBVIOUS
  <2> QED BY <2>1, <2>2 DEF Next, Receive, Done, DevHears, DevHearsNothing
<1> HIDE DEF e
<1>15. /\ StopAt(e) = e + CharTime /\ StopAt(e) \in Nat /\ f <= StopAt(e) /\ StopAt(e) < u
       /\ u <= StopAt(e) + 20 * Half /\ u + Half <= answerAt /\ StopAt(e) >= e
  <2>1. StopAt(e) = e + CharTime
    BY <1>2, <1>3, <1>9 DEF StopAt, FirstSample
  <2> QED BY <1>1, <1>2, <1>3, <1>4, <1>5, <1>9, <2>1
<1>16. FramingError(e)
  <2>1. StopAt(e) \in f .. u - 1
    BY <1>1, <1>15
  <2> QED BY <1>7, <2>1 DEF FramingError
<1> DEFINE m == MarkAfter(StopAt(e))
<1>17. m \in Nat /\ u <= m /\ m < answerAt
  <2>1. \A x \in StopAt(e) .. u - 1 : Level(x) = 0
    BY <1>1, <1>7, <1>15
  <2>2. m \in u .. u + Half - 1
    <3>1. Half \in Nat \ {0}
      BY <1>3
    <3>2. \A x \in u .. answerAt - 1 : Level(x) = 1
      BY <1>7
    <3> QED BY <1>1, <1>4, <1>15, <2>1, <3>1, <3>2, MarkFound, Zenon
  <2> HIDE DEF m
  <2> QED BY <1>1, <1>3, <1>4, <1>15, <2>2
<1>18. After(e) = m
  <2>1. m < Horizon
    BY <1>2, <1>4, <1>17
  <2> QED BY <1>16, <2>1 DEF After
<1> HIDE DEF m
<1>19. /\ attempts' = attempts + k /\ scanner' = scanner /\ now' = m
       /\ junk' = JunkAfter(e, Char(e))
       /\ outcome' = (IF junk' > junk /\ junk' >= ScanLimit THEN "desync" ELSE "none")
       /\ UNCHANGED <<devBit, turnaround, noise, phase, answerAt, link>>
  BY <1>13, <1>14, <1>16, <1>18 DEF HostHears, e
<1>20. junk' = 1 /\ outcome' = "none"
  BY <1>2, <1>6, <1>16, <1>19 DEF JunkAfter
<1>21. /\ Charge' = 1 /\ Break' /\ noise'.upto = u
       /\ answerAt' \in RequestEnd .. RequestEnd + turnaround' - 1 /\ link'.buf = Request
  BY <1>1, <1>19 DEF Charge, Break, u
<1>22. \A t : Level(t)' = Level(t)
  BY <1>19, SameLine
<1>23. MarkUntil(answerAt + 10 * devBit * 0)'
  <2> DEFINE x == answerAt + 10 * devBit * 0
  <2>1. x' = answerAt
    BY <1>2, <1>4, <1>19
  <2> HIDE DEF x
  <2>2. now' <= x' /\ \A t \in now' .. x' - 1 : Level(t)' = 1
    <3>1. \A t \in m .. answerAt - 1 : Level(t)' = 1
      BY <1>1, <1>4, <1>7, <1>17, <1>22
    <3>2. m <= answerAt
      BY <1>4, <1>17
    <3> QED BY <1>19, <2>1, <3>1, <3>2
  <2> QED BY <2>2, Zenon DEF MarkUntil, x
<1>24. RequestEnd + attempts' * Poll + 0 * CharTime <= now'
  <2>1. e <= m
    BY <1>1, <1>9, <1>15, <1>17
  <2> DEFINE a == (attempts + k) * Poll
  <2>2. a \in Nat /\ 0 * CharTime = 0 /\ RequestEnd + a <= e
    BY <1>2, <1>3, <1>6, <1>12
  <2> HIDE DEF a
  <2>3. RequestEnd + a + 0 * CharTime <= m
    BY <1>2, <1>9, <1>17, <2>1, <2>2
  <2> QED BY <1>19, <2>3 DEF a
<1>25. scanner' = Took(Reply, 0) /\ now' \in Nat /\ attempts' \in Nat /\ now' >= u
  BY <1>1, <1>6, <1>17, <1>19 DEF Took
<1>26. Waiting(0)'
  BY <1>20, <1>21, <1>23, <1>24, <1>25 DEF Waiting
<1> QED BY <1>2, <1>20, <1>21, <1>26 DEF HostInv
-----------------------------------------------------------------------------
Inv == EnvInv /\ DevInv /\ HostInv

(* Before the first character both ends wait on a line at mark.            *)
LEMMA InvInit ==
    ASSUME Matched, Patient, Init
    PROVE  Inv
<1>1. EnvInv
  BY DEF Init, EnvInv
<1>2. HostInv
  BY DEF Init, HostInv
<1>3. ASSUME Quiet \/ Break PROVE MarkUntil(RequestAt + 10 * HostBit * 0)
  <2>1. phase = "request" /\ now = 0 /\ noise \in Breaks
    BY DEF Init
  <2>2. HostBit \in Nat /\ RequestEnd \in Nat /\ Horizon \in Nat /\ RequestEnd <= Horizon
        /\ Len(Request) \in Nat
    BY <1>1, Times
  <2>3. noise.from \in Nat /\ noise.upto \in Nat
    BY <2>1, BreaksAssumption
  <2>4. RequestAt + 10 * HostBit * 0 = HostBit
    BY <2>2 DEF RequestAt
  <2>5. HostBit <= RequestEnd
    <3>1. 10 * HostBit * (Len(Request) + 1) \in Nat
      BY <2>2, NextChar
    <3> QED BY <2>2, <3>1 DEF RequestEnd, RequestAt
  <2>6. ASSUME NEW t \in 0 .. HostBit - 1 PROVE Level(t) = 1
    <3>1. t \in Nat /\ t < Horizon /\ t - RequestAt \in Int /\ t - RequestAt < 0
      BY <2>2, <2>5 DEF RequestAt
    <3>2. ~Broken(t)
      <4>1. CASE Quiet
        BY <2>2, <2>3, <3>1, <4>1 DEF Quiet, Broken
      <4>2. CASE Break
        BY <2>1, <4>2 DEF Break, Broken
      <4> QED BY <1>3, <4>1, <4>2
    <3> QED BY <2>1, <3>1, <3>2, WaveIdle DEF Level, RequestWave
  <2> QED BY <2>1, <2>2, <2>4, <2>6 DEF MarkUntil
<1>4. DevInv
  <2>1. Took(Request, 0) = Hunting /\ 0 \in 0 .. Len(Request)
    BY MessagesAssumption DEF Took
  <2> QED BY <1>3, <2>1 DEF Init, DevInv
<1> QED BY <1>1, <1>2, <1>4 DEF Inv

(* Every step of either end keeps the invariant.                           *)
LEMMA InvNext ==
    ASSUME Matched, Patient, Inv, [Next]_vars
    PROVE  Inv'
<1>1. CASE UNCHANGED vars
  <2>1. \A t : Level(t)' = Level(t)
    BY <1>1, SameLine DEF vars
  <2>2. EnvInv'
    BY <1>1 DEF Inv, EnvInv, vars
  <2>3. DevInv'
    BY <1>1, <2>1 DEF Inv, DevInv, Quiet, Break, MarkUntil, vars
  <2>4. HostInv'
    BY <1>1, <2>1 DEF Inv, HostInv, Benign, Quiet, Break, Begun, Waiting, Charge,
                     MarkUntil, vars
  <2> QED BY <2>2, <2>3, <2>4 DEF Inv
<1>2. CASE Next
  <2>1. EnvInv'
    BY <1>2 DEF Inv, EnvInv, Next, Receive, DevHears, DevHearsNothing, HostHears,
                HostGivesUp, Done, vars
  <2>2. UNCHANGED noise
    BY <1>2 DEF Next, Receive, DevHears, DevHearsNothing, HostHears, HostGivesUp, Done, vars
  <2>3. CASE phase = "request" /\ (Quiet \/ Break)
    BY <1>2, <2>1, <2>3, DevStep DEF Inv
  <2>4. CASE ~(Quiet \/ Break)
    <3>1. ~(Quiet \/ Break)'
      BY <2>2, <2>4 DEF Quiet, Break
    <3> QED BY <2>1, <3>1 DEF Inv, DevInv, HostInv, Benign
  <2>5. CASE phase = "reply"
    <3>1. UNCHANGED <<phase, answerAt, turnaround, link, devBit>>
      BY <1>2, <2>5 DEF Next, Receive, DevHears, DevHearsNothing, HostHears,
                        HostGivesUp, Done, vars
    <3>2. DevInv'
      BY <2>5, <3>1 DEF DevInv
    <3>3. Benign' => Benign
      BY <2>2, <3>1 DEF Benign, Quiet, Break, Tolerant
    <3>4. ASSUME Benign PROVE HostInv'
      <4>1. /\ answerAt \in RequestEnd .. RequestEnd + turnaround - 1 /\ link.buf = Request
            /\ \/ outcome = "none" /\ Begun
               \/ outcome = "none" /\ \E i \in 0 .. Len(Reply) : Waiting(i)
               \/ outcome = "frame" /\ scanner.buf = Reply /\ junk = Charge
        BY <2>5, <3>4 DEF Inv, HostInv
      <4>2. CASE outcome = "none" /\ Begun /\ ~Quiet
        BY <1>2, <2>5, <3>4, <4>1, <4>2, BreakStep DEF Inv
      <4>3. CASE outcome = "none" /\ Begun /\ Quiet
        <5>1. ~Break /\ HostBit \in Nat \ {0} /\ RequestEnd \in Nat /\ devBit \in Nat
              /\ Len(Reply) \in Nat /\ Poll \in Nat
          <6>1. noise.from \in Nat /\ noise.upto \in Nat
            BY BreaksAssumption DEF Inv, EnvInv
          <6>2. /\ HostBit \in Nat \ {0} /\ RequestEnd \in Nat /\ devBit \in Nat
                /\ Len(Reply) \in Nat /\ Poll \in Nat
            BY Times, TimesAssumption DEF Inv
          <6> QED BY <4>3, <6>1, <6>2 DEF Quiet, Break
        <5>2. now = RequestEnd /\ scanner = Hunting /\ attempts = 0 /\ junk = 0
          BY <4>3 DEF Begun
        <5>3. now \in Nat /\ now <= answerAt /\ answerAt \in Nat
          BY <4>1, <5>1, <5>2, Times DEF Inv
        <5>4. MarkUntil(answerAt)
          BY <2>5, <3>4, <4>1, <5>1, <5>3, ReplyLine DEF Inv
        <5>5. answerAt + 10 * devBit * 0 = answerAt
          BY <5>1, <5>3
        <5>6. RequestEnd + attempts * Poll + 0 * CharTime <= now
          <6>1. CharTime \in Nat
            BY <5>1 DEF CharTime
          <6> QED BY <5>1, <5>2, <6>1
        <5>7. Waiting(0)
          BY <5>1, <5>2, <5>3, <5>4, <5>5, <5>6 DEF Waiting, Took, Charge
        <5>8. 0 \in 0 .. Len(Reply)
          BY <5>1
        <5> QED BY <1>2, <2>5, <3>4, <4>1, <4>3, <5>7, <5>8, HostStep DEF Inv
      <4>4. CASE outcome = "none" /\ \E i \in 0 .. Len(Reply) : Waiting(i)
        BY <1>2, <2>5, <3>4, <4>1, <4>4, HostStep DEF Inv
      <4>5. CASE outcome = "frame" /\ scanner.buf = Reply /\ junk = Charge
        <5>1. UNCHANGED vars
          BY <1>2, <2>5, <4>5 DEF Next, Receive, DevHears, DevHearsNothing, HostHears,
                                  HostGivesUp, Done
        <5> QED BY <4>1, <4>5, <5>1 DEF HostInv, Charge, Break, vars
      <4> QED BY <4>1, <4>2, <4>3, <4>4, <4>5
    <3>5. HostInv'
      BY <3>3, <3>4 DEF HostInv
    <3> QED BY <2>1, <3>2, <3>5 DEF Inv
  <2> QED BY <2>3, <2>4, <2>5 DEF Inv, EnvInv
<1> QED BY <1>1, <1>2

(* A matched, patient pair of ends keeps it for good.                      *)
LEMMA Invariant ==
    ASSUME Matched, Patient
    PROVE  Spec => []Inv
<1>1. Init => Inv
  BY InvInit
<1>2. Inv /\ [Next]_vars => Inv'
  BY InvNext
<1> QED BY <1>1, <1>2, PTL DEF Spec

(* On a quiet line a request gets its reply (transceive, softuart.rs), for *)
(* every pair of clocks within the budget of softuart_pump.h, every phase  *)
(* between edge and sample, every turnaround that the poll budget covers   *)
(* and frames of any length.                                               *)
THEOREM QuietLine ==
    ASSUME Matched, Patient
    PROVE  Spec => []QuietLineSucceeds
<1>1. Inv => QuietLineSucceeds
  BY DEF Inv, EnvInv, DevInv, HostInv, Benign, QuietLineSucceeds
<1> QED BY <1>1, Invariant, PTL

(* A quiet line delivers what was sent: the device has the request when it *)
(* answers, and the host's frame is the reply.                             *)
THEOREM QuietLineIsExact ==
    ASSUME Matched, Patient
    PROVE  Spec => [](Quiet => NothingForged)
<1>1. Inv => (Quiet => NothingForged)
  BY DEF Inv, EnvInv, DevInv, HostInv, Benign, NothingForged
<1> QED BY <1>1, Invariant, PTL

(* A break that is over one bit before the reply is one framing error:     *)
(* get_byte's wait for mark outlasts it, no phantom start bit follows, and *)
(* the reply arrives.                                                      *)
THEOREM BreakCostsOneByte ==
    ASSUME Matched, Patient, Tolerant
    PROVE  Spec => []BreakRecovered
<1>1. Inv => BreakRecovered
  BY DEF Inv, HostInv, Benign, Break, Charge, BreakRecovered
<1> QED BY <1>1, Invariant, PTL
=============================================================================
