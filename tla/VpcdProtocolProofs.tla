------------------------- MODULE VpcdProtocolProofs -------------------------
(***************************************************************************)
(* Proofs about VpcdProtocol, for any APDUs and answers, any number of      *)
(* messages and connections, and any way TCP cuts the stream in pieces: the *)
(* server handles what vpcd said, in order, and finds no fault with it; and *)
(* what the peer reads is what it was given, byte for byte and in turn, up  *)
(* to the first answer that a length cannot say.                            *)
(*                                                                          *)
(* What is on a connection is told once for both directions (Flow): all     *)
(* bytes that were ever written to it are the frames of the bodies, one     *)
(* behind the other, and what has been read of the body at hand and what is *)
(* still on the way are pieces of them, one behind the other.               *)
(***************************************************************************)
EXTENDS VpcdProtocol, TLAPS

(* Len.  What follows needs of a sequence its length and its elements, and  *)
(* no more: these say it of what sequences are made of.                     *)
Size(s) == Len(s)

(* u is s and x behind it; s and t behind it; s without its first.          *)
Longer(u, s, x) ==
    /\ Size(s) \in Nat /\ Size(u) = Size(s) + 1
    /\ \A i \in 1 .. Size(s) : u[i] = s[i]
    /\ u[Size(s) + 1] = x

Behind(u, s, t) ==
    /\ Size(s) \in Nat /\ Size(t) \in Nat /\ Size(u) = Size(s) + Size(t)
    /\ \A i \in 1 .. Size(s) : u[i] = s[i]
    /\ \A i \in 1 .. Size(t) : u[Size(s) + i] = t[i]

Shorter(u, s) ==
    /\ Size(s) \in Nat /\ Size(s) > 0 /\ Size(u) = Size(s) - 1
    /\ \A i \in 1 .. Size(s) - 1 : u[i] = s[i + 1]

(* f is a length, as two bytes, and the bytes of s behind it.               *)
FrameOf(f, s) ==
    /\ Size(s) \in Nat /\ Size(f) = 2 + Size(s)
    /\ \A i \in 1 .. 2 + Size(s) : f[i] \in Bytes
    /\ (f[1] * Base) + f[2] = Cut(s)
    /\ \A i \in 1 .. Size(s) : f[2 + i] = s[i]

(* The bytes w, up to end, are the frames of the bodies; at has the place   *)
(* before each.                                                             *)
Carries(w, at, end, bodies) ==
    /\ at[Size(bodies) + 1] = end
    /\ \A j \in 1 .. Size(bodies) :
          /\ at[j + 1] = at[j] + 2 + Size(bodies[j])
          /\ at[j + 1] <= end
          /\ \A i \in 1 .. 2 + Size(bodies[j]) : w[at[j] + i] = Framed(bodies[j])[i]

(* rest is the end of w; and bytes are in w, behind a place.                *)
Ends(rest, w, end) ==
    /\ Size(rest) <= end
    /\ \A i \in 1 .. Size(rest) : rest[i] = w[end - Size(rest) + i]

Held(bytes, w, place) == \A i \in 1 .. Size(bytes) : bytes[i] = w[place + i]

(* The reader has read n of them and a part of the next; the rest of w is   *)
(* on the way.                                                              *)
ReadOf(w, at, end, bodies, n, read, rest) ==
    /\ n <= Size(bodies)
    /\ Ends(rest, w, end)
    /\ read.part = "length" =>
          /\ read.want = 2 /\ Size(read.bytes) < 2
          /\ at[n + 1] + Size(read.bytes) = end - Size(rest)
          /\ Held(read.bytes, w, at[n + 1])
    /\ read.part = "data" =>
          /\ n < Size(bodies)
          /\ read.want = Cut(bodies[n + 1]) /\ Size(read.bytes) < read.want
          /\ at[n + 1] + 2 + Size(read.bytes) = end - Size(rest)
          /\ Held(read.bytes, w, at[n + 1] + 2)

Flow(bodies, n, read, rest) ==
    \E w \in [Nat -> Bytes], at \in [Nat -> Nat], end \in Nat :
        /\ Carries(w, at, end, bodies)
        /\ ReadOf(w, at, end, bodies, n, read, rest)

----------------------------------------------------------------------------
(* Lengths and frames.                                                      *)

(* A number of two digits is made of its digits. *)
LEMMA TwoDigits ==
    ASSUME NEW n \in Nat, n < Base * Base
    PROVE  /\ n \div Base \in Bytes /\ n % Base \in Bytes
           /\ ((n \div Base) * Base) + (n % Base) = n
<1>1. Base \in Nat /\ Base > 0
  BY VpcdAssumption
<1>2. PICK q, r : q = n \div Base /\ r = n % Base
  OBVIOUS
<1>3. q \in Nat /\ r \in 0 .. Base - 1 /\ n = q * Base + r
  BY <1>1, <1>2
<1>4. q < Base
  <2> SUFFICES ASSUME q >= Base PROVE FALSE
    BY <1>1, <1>3
  <2>1. q * Base >= Base * Base
    BY <1>1, <1>3
  <2> QED BY <1>1, <1>3, <2>1
<1> QED BY <1>1, <1>2, <1>3, <1>4 DEF Bytes

(* A length is cut to two digits, and kept if it has no more. *)
LEMMA CutType ==
    ASSUME NEW s \in Seq(Bytes)
    PROVE  /\ Cut(s) \in Nat /\ Cut(s) < Base * Base /\ Cut(s) <= Len(s)
           /\ Len(s) < Base * Base => Cut(s) = Len(s)
<1>1. Base * Base \in Nat /\ Base * Base > 0
  BY VpcdAssumption
<1>2. PICK b : b = Base * Base
  OBVIOUS
<1>3. PICK l : l = Len(s)
  OBVIOUS
<1>4. l \in Nat
  BY <1>3
<1>5. l % b \in 0 .. b - 1 /\ (l < b => l % b = l) /\ l % b <= l
  BY <1>1, <1>2, <1>4
<1> QED BY <1>1, <1>2, <1>3, <1>5 DEF Cut

(* What sequences hold that are made of others. *)
LEMMA Joined ==
    ASSUME NEW S, NEW s \in Seq(S), NEW t \in Seq(S)
    PROVE  s \o t \in Seq(S) /\ Behind(s \o t, s, t)
<1>1. PICK u : u = s \o t
  OBVIOUS
<1>2. /\ u \in Seq(S) /\ Len(u) = Len(s) + Len(t)
      /\ \A i \in 1 .. Len(s) : u[i] = s[i]
      /\ \A i \in 1 .. Len(t) : u[Len(s) + i] = t[i]
  BY <1>1
<1> QED BY <1>1, <1>2 DEF Size, Behind

(* One more behind a sequence. *)
LEMMA Appended ==
    ASSUME NEW S, NEW s \in Seq(S), NEW x \in S
    PROVE  Append(s, x) \in Seq(S) /\ Longer(Append(s, x), s, x)
<1>1. PICK u : u = Append(s, x)
  OBVIOUS
<1>2. /\ u \in Seq(S) /\ Len(u) = Len(s) + 1
      /\ \A i \in 1 .. Len(s) : u[i] = s[i]
      /\ u[Len(s) + 1] = x
  BY <1>1
<1> QED BY <1>1, <1>2 DEF Size, Longer

(* A sequence without its first. *)
LEMMA Beheaded ==
    ASSUME NEW S, NEW s \in Seq(S), s # << >>
    PROVE  /\ Tail(s) \in Seq(S) /\ Shorter(Tail(s), s)
           /\ Head(s) = s[1] /\ Head(s) \in S
<1>1. PICK u : u = Tail(s)
  OBVIOUS
<1>2. /\ u \in Seq(S) /\ Len(u) = Len(s) - 1 /\ Len(s) > 0
      /\ \A i \in 1 .. Len(s) - 1 : u[i] = s[i + 1]
      /\ Head(s) = s[1] /\ s[1] \in S
  BY <1>1
<1> QED BY <1>1, <1>2 DEF Size, Shorter

(* Sequences of the same elements are the same. *)
LEMMA SameSequence ==
    ASSUME NEW S, NEW s \in Seq(S), NEW t \in Seq(S), Len(s) = Len(t),
           \A i \in 1 .. Len(s) : s[i] = t[i]
    PROVE  s = t
  OBVIOUS

(* A size is a number, also of what has been read. *)
LEMMA SizeType ==
    /\ \A s \in Seq(Bytes) : Size(s) \in Nat
    /\ \A read \in Reads : Size(read.bytes) \in Nat /\ read.bytes \in Seq(Bytes)
                           /\ read.want \in Nat
<1>1. \A s \in Seq(Bytes) : Size(s) \in Nat
  BY DEF Size
<1>2. \A read \in Reads : read.bytes \in Seq(Bytes) /\ read.want \in Nat
  BY DEF Reads
<1> QED BY <1>1, <1>2

(* What a frame holds. *)
LEMMA FramedBytes ==
    ASSUME NEW s \in Seq(Bytes)
    PROVE  Framed(s) \in Seq(Bytes) /\ FrameOf(Framed(s), s)
<1>1. PICK x, y : x = Cut(s) \div Base /\ y = Cut(s) % Base
  OBVIOUS
<1>2. x \in Bytes /\ y \in Bytes /\ (x * Base) + y = Cut(s)
  BY <1>1, CutType, TwoDigits
<1>3. PICK h : h = <<x, y>>
  OBVIOUS
<1>4. h \in Seq(Bytes) /\ Size(h) = 2 /\ h[1] = x /\ h[2] = y
  BY <1>2, <1>3 DEF Size
<1>5. PICK f : f = Framed(s)
  OBVIOUS
<1>6. f \in Seq(Bytes) /\ Behind(f, h, s)
  <2>1. f = h \o s
    BY <1>1, <1>3, <1>5 DEF Framed
  <2>2. h \in Seq(Bytes)
    BY <1>4
  <2> QED BY <2>1, <2>2, Joined
<1>7. /\ Size(f) = 2 + Size(s) /\ Size(s) \in Nat
      /\ f[1] = x /\ f[2] = y
      /\ \A i \in 1 .. Size(s) : f[2 + i] = s[i]
  BY <1>4, <1>6 DEF Behind
<1>8. \A i \in 1 .. Size(f) : f[i] \in Bytes
  BY <1>6 DEF Size
<1> QED BY <1>2, <1>5, <1>6, <1>7, <1>8 DEF FrameOf

----------------------------------------------------------------------------
(* What is written and read.                                                *)

(* At first nothing is written and nothing read. *)
LEMMA FlowBegins == Flow(<< >>, 0, AtLength, << >>)
<1>1. PICK w : w = [i \in Nat |-> 0]
  OBVIOUS
<1>2. w \in [Nat -> Bytes] /\ w \in [Nat -> Nat]
  <2>1. 0 \in Bytes
    BY VpcdAssumption DEF Bytes
  <2> QED BY <1>1, <2>1
<1>3. Len(<< >>) = 0 /\ w[1] = 0
  BY <1>1
<1>4. Carries(w, w, 0, << >>)
  BY <1>3 DEF Carries, Size
<1>5. ReadOf(w, w, 0, << >>, 0, AtLength, << >>)
  BY <1>3 DEF ReadOf, Ends, Held, AtLength, Size
<1> QED BY <1>2, <1>4, <1>5 DEF Flow

(* The bytes and places when one more frame has been written. *)
LEMMA WrittenBehind ==
    ASSUME NEW w \in [Nat -> Bytes], NEW at \in [Nat -> Nat], NEW end \in Nat,
           NEW bodies, \A j \in 1 .. Size(bodies) : Size(bodies[j]) \in Nat,
           NEW bodies2, NEW body, Longer(bodies2, bodies, body),
           NEW f, f = Framed(body), FrameOf(f, body),
           NEW n \in Nat, NEW read, Size(read.bytes) \in Nat,
           NEW rest, NEW rest2, Behind(rest2, rest, f),
           Carries(w, at, end, bodies), ReadOf(w, at, end, bodies, n, read, rest)
    PROVE  Flow(bodies2, n, read, rest2)
<1>a. PICK lb, lr, l : lb = Size(bodies) /\ lr = Size(rest) /\ l = Size(body)
  OBVIOUS
<1>b. /\ lb \in Nat /\ Size(bodies2) = lb + 1
      /\ \A j \in 1 .. lb : bodies2[j] = bodies[j] /\ Size(bodies[j]) \in Nat
      /\ bodies2[lb + 1] = body
  BY <1>a DEF Longer
<1>c. /\ l \in Nat /\ Size(f) = 2 + l /\ \A i \in 1 .. 2 + l : f[i] \in Bytes
  BY <1>a DEF FrameOf
<1>d. /\ lr \in Nat /\ Size(rest2) = lr + 2 + l
      /\ \A i \in 1 .. lr : rest2[i] = rest[i]
      /\ \A i \in 1 .. 2 + l : rest2[lr + i] = f[i]
  BY <1>a, <1>c DEF Behind
<1> USE <1>a, <1>b, <1>c, <1>d
<1>1. PICK end2 : end2 = end + 2 + l
  OBVIOUS
<1>2. PICK w2 : w2 = [i \in Nat |-> IF i > end /\ i <= end2 THEN f[i - end] ELSE w[i]]
  OBVIOUS
<1>3. PICK at2 : at2 = [i \in Nat |-> IF i = lb + 2 THEN end2 ELSE at[i]]
  OBVIOUS
<1>4. end2 \in Nat /\ end <= end2
  BY <1>1
<1>5. w2 \in [Nat -> Bytes] /\ at2 \in [Nat -> Nat]
  <2>1. \A i \in Nat : i > end /\ i <= end2 => f[i - end] \in Bytes
    BY <1>1
  <2> QED BY <1>2, <1>3, <1>4, <2>1
<1>6. /\ \A i \in 1 .. end : w2[i] = w[i]
      /\ \A i \in 1 .. 2 + l : w2[end + i] = f[i]
  BY <1>1, <1>2
<1>7. /\ at[lb + 1] = end
      /\ \A j \in 1 .. lb + 1 : at2[j] = at[j]
      /\ at2[lb + 2] = end2
  BY <1>3 DEF Carries
<1>8. ASSUME NEW j \in 1 .. lb
      PROVE  /\ at2[j + 1] = at2[j] + 2 + Size(bodies2[j])
             /\ at2[j + 1] <= end2
             /\ \A i \in 1 .. 2 + Size(bodies2[j]) : w2[at2[j] + i] = Framed(bodies2[j])[i]
  <2>1. /\ at[j + 1] = at[j] + 2 + Size(bodies[j])
        /\ at[j + 1] <= end
        /\ \A i \in 1 .. 2 + Size(bodies[j]) : w[at[j] + i] = Framed(bodies[j])[i]
    BY DEF Carries
  <2>2. bodies2[j] = bodies[j] /\ Size(bodies[j]) \in Nat
    OBVIOUS
  <2>3. at2[j] = at[j] /\ at2[j + 1] = at[j + 1] /\ at[j] \in Nat /\ at[j + 1] \in Nat
    BY <1>7
  <2>4. \A i \in 1 .. 2 + Size(bodies[j]) : w2[at[j] + i] = w[at[j] + i]
    BY <1>6, <2>1, <2>2, <2>3
  <2> QED BY <1>4, <2>1, <2>2, <2>3, <2>4
<1>9. /\ at2[lb + 2] = at2[lb + 1] + 2 + l
      /\ at2[lb + 2] <= end2
      /\ \A i \in 1 .. 2 + l : w2[at2[lb + 1] + i] = f[i]
  <2>1. at2[lb + 1] = end
    BY <1>7
  <2> QED BY <1>1, <1>4, <1>6, <1>7, <2>1
<1>10. Carries(w2, at2, end2, bodies2)
  <2>1. \A j \in 1 .. lb + 1 : j \in 1 .. lb \/ j = lb + 1
    OBVIOUS
  <2>2. lb + 1 + 1 = lb + 2
    OBVIOUS
  <2> QED BY <1>7, <1>8, <1>9, <2>1, <2>2 DEF Carries
<1>11. /\ n <= lb /\ lr <= end
       /\ \A i \in 1 .. lr : rest[i] = w[end - lr + i]
  BY DEF ReadOf, Ends
<1>12. PICK lr2 : lr2 = lr + 2 + l
  OBVIOUS
<1>13. lr2 <= end2 /\ end2 - lr2 = end - lr /\ end - lr \in Nat /\ n <= lb + 1
  BY <1>1, <1>11, <1>12
<1>14. ASSUME NEW i \in 1 .. lr2 PROVE rest2[i] = w2[end2 - lr2 + i]
  <2>1. CASE i <= lr
    <3>1. end - lr + i \in 1 .. end /\ i \in 1 .. lr
      BY <1>11, <2>1
    <3> QED BY <1>6, <1>11, <1>13, <3>1
  <2>2. CASE i > lr
    <3>1. PICK k : k = i - lr
      OBVIOUS
    <3>2. k \in 1 .. 2 + l /\ i = lr + k /\ end - lr + i = end + k
      BY <1>12, <2>2, <3>1
    <3> QED BY <1>6, <1>13, <3>2
  <2> QED BY <1>12, <2>1, <2>2
<1>15. PICK m, c : m = Size(read.bytes) /\ c = at[n + 1]
  OBVIOUS
<1>16. m \in Nat /\ c \in Nat /\ at2[n + 1] = c
  BY <1>7, <1>11, <1>15
<1>17. ASSUME read.part = "length"
       PROVE  /\ read.want = 2 /\ m < 2
              /\ at2[n + 1] + m = end2 - lr2
              /\ \A i \in 1 .. m : read.bytes[i] = w2[at2[n + 1] + i]
  <2>1. /\ read.want = 2 /\ m < 2 /\ c + m = end - lr
        /\ \A i \in 1 .. m : read.bytes[i] = w[c + i]
    BY <1>15, <1>17 DEF ReadOf, Held
  <2>2. \A i \in 1 .. m : c + i \in 1 .. end
    BY <1>11, <1>16, <2>1
  <2> QED BY <1>6, <1>13, <1>16, <2>1, <2>2
<1>18. ASSUME read.part = "data"
       PROVE  /\ n < lb + 1
              /\ read.want = Cut(bodies2[n + 1]) /\ m < read.want
              /\ at2[n + 1] + 2 + m = end2 - lr2
              /\ \A i \in 1 .. m : read.bytes[i] = w2[at2[n + 1] + 2 + i]
  <2>1. /\ n < lb
        /\ read.want = Cut(bodies[n + 1]) /\ m < read.want
        /\ c + 2 + m = end - lr
        /\ \A i \in 1 .. m : read.bytes[i] = w[c + 2 + i]
    BY <1>15, <1>18 DEF ReadOf, Held
  <2>2. \A i \in 1 .. m : c + 2 + i \in 1 .. end
    BY <1>11, <1>16, <2>1
  <2>3. bodies2[n + 1] = bodies[n + 1] /\ n < lb + 1
    BY <2>1
  <2> QED BY <1>6, <1>13, <1>16, <2>1, <2>2, <2>3
<1>19. ReadOf(w2, at2, end2, bodies2, n, read, rest2)
  BY <1>12, <1>13, <1>14, <1>15, <1>17, <1>18 DEF ReadOf, Ends, Held
<1> QED BY <1>4, <1>5, <1>10, <1>19 DEF Flow

(* What is written with its length comes behind the rest. *)
LEMMA FlowWritten ==
    ASSUME NEW bodies \in Seq(Seq(Bytes)), NEW n \in Nat, NEW read \in Reads,
           NEW rest \in Seq(Bytes), Flow(bodies, n, read, rest),
           NEW body \in Seq(Bytes)
    PROVE  Flow(Append(bodies, body), n, read, rest \o Framed(body))
<1>1. PICK w \in [Nat -> Bytes], at \in [Nat -> Nat], end \in Nat :
         /\ Carries(w, at, end, bodies)
         /\ ReadOf(w, at, end, bodies, n, read, rest)
  BY DEF Flow
<1>2. PICK f : f = Framed(body)
  OBVIOUS
<1>3. f \in Seq(Bytes) /\ FrameOf(f, body)
  BY <1>2, FramedBytes
<1>4. Longer(Append(bodies, body), bodies, body)
  BY Appended
<1>5. \A j \in 1 .. Size(bodies) : Size(bodies[j]) \in Nat
  <2>1. \A j \in 1 .. Size(bodies) : bodies[j] \in Seq(Bytes)
    BY DEF Size
  <2> QED BY <2>1, SizeType, Zenon
<1>6. Behind(rest \o f, rest, f)
  BY <1>3, Joined
<1>7. Size(read.bytes) \in Nat
  BY SizeType
<1>8. Flow(Append(bodies, body), n, read, rest \o f)
  BY <1>1, <1>2, <1>3, <1>4, <1>5, <1>6, <1>7, WrittenBehind
<1> QED BY <1>2, <1>8


(* One byte from the way to what is held. *)
LEMMA OneByteOn ==
    ASSUME NEW w, NEW end \in Nat, NEW place \in Nat,
           NEW rest, NEW rest2, Shorter(rest2, rest), Ends(rest, w, end),
           NEW bytes, NEW bytes2, Longer(bytes2, bytes, rest[1]),
           Held(bytes, w, place), place + Size(bytes) = end - Size(rest)
    PROVE  /\ Ends(rest2, w, end) /\ Held(bytes2, w, place)
           /\ place + Size(bytes2) = end - Size(rest2)
<1>1. PICK lr, m : lr = Size(rest) /\ m = Size(bytes)
  OBVIOUS
<1>2. /\ lr \in Nat /\ lr > 0 /\ Size(rest2) = lr - 1
      /\ \A i \in 1 .. lr - 1 : rest2[i] = rest[i + 1]
  BY <1>1 DEF Shorter
<1>3. /\ m \in Nat /\ Size(bytes2) = m + 1 /\ (\A i \in 1 .. m : bytes2[i] = bytes[i])
      /\ bytes2[m + 1] = rest[1]
  BY <1>1 DEF Longer
<1>4. lr <= end /\ (\A i \in 1 .. lr : rest[i] = w[end - lr + i])
  BY <1>1 DEF Ends
<1>5. \A i \in 1 .. m : bytes[i] = w[place + i]
  BY <1>1 DEF Held
<1>6. place + m = end - lr
  BY <1>1
<1>7. \A i \in 1 .. lr - 1 : rest2[i] = w[end - (lr - 1) + i]
  <2> TAKE i \in 1 .. lr - 1
  <2>1. i + 1 \in 1 .. lr /\ end - lr + (i + 1) = end - (lr - 1) + i
    BY <1>2
  <2>2. rest2[i] = w[end - lr + (i + 1)]
    BY <1>2, <1>4, <2>1
  <2> QED BY <2>1, <2>2
<1>8. \A i \in 1 .. m + 1 : bytes2[i] = w[place + i]
  <2>1. bytes2[m + 1] = w[place + (m + 1)]
    <3>1. 1 \in 1 .. lr /\ end - lr + 1 = place + (m + 1)
      BY <1>2, <1>3, <1>6
    <3> QED BY <1>3, <1>4, <3>1
  <2>2. ASSUME NEW i \in 1 .. m + 1 PROVE i \in 1 .. m \/ i = m + 1
    BY <1>3
  <2> QED BY <1>3, <1>5, <2>1, <2>2
<1> QED BY <1>2, <1>3, <1>4, <1>6, <1>7, <1>8 DEF Ends, Held


(* The bytes held and those on the way are all of w from a place on. *)
Meets(bytes, rest, w, place, end) ==
    /\ Ends(rest, w, end) /\ Held(bytes, w, place)
    /\ place + Size(bytes) = end - Size(rest)

(* They meet as well after the next byte. *)
LEMMA MeetsOn ==
    ASSUME NEW w, NEW end \in Nat, NEW place \in Nat,
           NEW rest, NEW rest2, Shorter(rest2, rest),
           NEW bytes, NEW bytes2, Longer(bytes2, bytes, rest[1]),
           Meets(bytes, rest, w, place, end)
    PROVE  Meets(bytes2, rest2, w, place, end)
<1>1. /\ Ends(rest, w, end) /\ Held(bytes, w, place)
      /\ place + Size(bytes) = end - Size(rest)
  BY DEF Meets
<1> QED BY <1>1, OneByteOn DEF Meets

(* While a reader waits for a byte there is a body it is in. *)
LEMMA BodyAtHand ==
    ASSUME NEW w, NEW at \in [Nat -> Nat], NEW end \in Nat,
           NEW bodies, Size(bodies) \in Nat, NEW n \in Nat,
           NEW read, Size(read.bytes) \in Nat, read.part \in {"length", "data"},
           NEW rest, Size(rest) \in Nat, Size(rest) > 0,
           Carries(w, at, end, bodies), ReadOf(w, at, end, bodies, n, read, rest)
    PROVE  n < Size(bodies) /\ n + 1 \in 1 .. Size(bodies)
<1>1. PICK lb, lr, m, c : lb = Size(bodies) /\ lr = Size(rest) /\ m = Size(read.bytes)
                         /\ c = at[n + 1]
  OBVIOUS
<1>2. n <= lb /\ (read.part = "length" => c + m = end - lr) /\ (read.part = "data" => n < lb)
  BY <1>1 DEF ReadOf
<1>3. at[lb + 1] = end
  BY <1>1 DEF Carries
<1>4. lb \in Nat /\ lr \in Nat /\ lr > 0 /\ m \in Nat /\ c \in Nat
  BY <1>1
<1>5. n # lb
  <2> SUFFICES ASSUME n = lb PROVE FALSE
    OBVIOUS
  <2>1. c = end
    BY <1>1, <1>3
  <2> QED BY <1>2, <1>4, <2>1
<1>6. n < lb /\ n + 1 \in 1 .. lb
  BY <1>2, <1>4, <1>5
<1> QED BY <1>1, <1>6

(* Where the body at hand lies in the bytes written. *)
Lies(w, at, end, bodies, n) ==
    /\ Size(bodies[n + 1]) \in Nat
    /\ at[n + 2] = at[n + 1] + 2 + Size(bodies[n + 1])
    /\ at[n + 2] <= end
    /\ (w[at[n + 1] + 1] * Base) + w[at[n + 1] + 2] = Cut(bodies[n + 1])
    /\ Held(bodies[n + 1], w, at[n + 1] + 2)

(* It lies behind its length. *)
LEMMA BodyWritten ==
    ASSUME NEW w \in [Nat -> Bytes], NEW at \in [Nat -> Nat], NEW end \in Nat,
           NEW bodies, NEW n \in Nat, n + 1 \in 1 .. Size(bodies),
           FrameOf(Framed(bodies[n + 1]), bodies[n + 1]),
           Carries(w, at, end, bodies)
    PROVE  Lies(w, at, end, bodies, n)
<1>1. PICK b, z, f, c : b = bodies[n + 1] /\ z = Size(b) /\ f = Framed(b) /\ c = at[n + 1]
  OBVIOUS
<1>2. c \in Nat
  BY <1>1
<1>3. /\ at[n + 2] = c + 2 + z /\ at[n + 2] <= end
      /\ \A i \in 1 .. 2 + z : w[c + i] = f[i]
  <2>1. (n + 1) + 1 = n + 2
    OBVIOUS
  <2> QED BY <1>1, <2>1 DEF Carries
<1>4. /\ z \in Nat
      /\ (f[1] * Base) + f[2] = Cut(b)
      /\ \A i \in 1 .. z : f[2 + i] = b[i]
  BY <1>1 DEF FrameOf
<1>5. w[c + 1] = f[1] /\ w[c + 2] = f[2]
  <2>1. 1 \in 1 .. 2 + z /\ 2 \in 1 .. 2 + z
    BY <1>4
  <2> QED BY <1>3, <2>1
<1>6. \A i \in 1 .. z : b[i] = w[(c + 2) + i]
  <2> TAKE i \in 1 .. z
  <2>1. 2 + i \in 1 .. 2 + z /\ c + (2 + i) = (c + 2) + i
    BY <1>2, <1>4
  <2> QED BY <1>3, <1>4, <2>1
<1>7. Held(b, w, c + 2)
  BY <1>1, <1>6 DEF Held
<1> QED BY <1>1, <1>3, <1>4, <1>5, <1>7 DEF Lies

(* A reader has its next byte: bytes are what it has now. *)
ByteIn(w, at, end, bodies, n, read, bytes, rest) ==
    /\ n < Size(bodies) /\ n + 1 \in 1 .. Size(bodies)
    /\ Size(bytes) \in Nat
    /\ read.part = "length" =>
          /\ Size(bytes) <= 2 /\ read.want = 2
          /\ Meets(bytes, rest, w, at[n + 1], end)
    /\ read.part = "data" =>
          /\ Size(bytes) <= read.want /\ read.want = Cut(bodies[n + 1])
          /\ Meets(bytes, rest, w, at[n + 1] + 2, end)

(* A byte has come: where its reader is now. *)
LEMMA ReadOn ==
    ASSUME NEW w \in [Nat -> Bytes], NEW at \in [Nat -> Nat], NEW end \in Nat,
           NEW bodies, Size(bodies) \in Nat,
           NEW n \in Nat, NEW read, Size(read.bytes) \in Nat,
           read.part \in {"length", "data"}, read.want \in Nat,
           NEW rest, NEW rest2, Shorter(rest2, rest),
           NEW bytes2, Longer(bytes2, read.bytes, rest[1]),
           Carries(w, at, end, bodies), ReadOf(w, at, end, bodies, n, read, rest)
    PROVE  ByteIn(w, at, end, bodies, n, read, bytes2, rest2)
<1>1. Size(rest) \in Nat /\ Size(rest) > 0
  BY DEF Shorter
<1>2. n < Size(bodies) /\ n + 1 \in 1 .. Size(bodies)
  BY <1>1, BodyAtHand
<1>3. Ends(rest, w, end) /\ at[n + 1] \in Nat
  BY DEF ReadOf
<1>4. Size(bytes2) = Size(read.bytes) + 1 /\ Size(bytes2) \in Nat
  BY DEF Longer
<1>5. CASE read.part = "length"
  <2>1. /\ read.want = 2 /\ Size(read.bytes) < 2
        /\ at[n + 1] + Size(read.bytes) = end - Size(rest)
        /\ Held(read.bytes, w, at[n + 1])
    BY <1>5 DEF ReadOf
  <2>2. Meets(bytes2, rest2, w, at[n + 1], end)
    <3>1. Meets(read.bytes, rest, w, at[n + 1], end)
      BY <1>3, <2>1 DEF Meets
    <3> QED BY <1>3, <3>1, MeetsOn
  <2>3. Size(bytes2) <= 2
    BY <1>4, <2>1
  <2> QED BY <1>2, <1>4, <1>5, <2>1, <2>2, <2>3 DEF ByteIn
<1>6. CASE read.part = "data"
  <2>1. /\ read.want = Cut(bodies[n + 1]) /\ Size(read.bytes) < read.want
        /\ at[n + 1] + 2 + Size(read.bytes) = end - Size(rest)
        /\ Held(read.bytes, w, at[n + 1] + 2)
    BY <1>6 DEF ReadOf
  <2>2. at[n + 1] + 2 \in Nat
    BY <1>3
  <2>3. Meets(bytes2, rest2, w, at[n + 1] + 2, end)
    <3>1. Meets(read.bytes, rest, w, at[n + 1] + 2, end)
      BY <1>3, <2>1 DEF Meets
    <3> QED BY <2>2, <3>1, MeetsOn
  <2>4. Size(bytes2) <= read.want
    BY <1>4, <2>1
  <2> QED BY <1>2, <1>4, <1>6, <2>1, <2>3, <2>4 DEF ByteIn
<1> QED BY <1>5, <1>6


(* The two bytes of a length say it. *)
LEMMA LengthRead ==
    ASSUME NEW w, NEW place, NEW cut, NEW bytes, Held(bytes, w, place), Size(bytes) = 2,
           (w[place + 1] * Base) + w[place + 2] = cut
    PROVE  LengthOf(bytes) = cut
<1>1. bytes[1] = w[place + 1] /\ bytes[2] = w[place + 2]
  BY DEF Held
<1> QED BY <1>1 DEF LengthOf

(* Behind a length come the data. *)
LEMMA DataNext ==
    ASSUME NEW w, NEW at \in [Nat -> Nat], NEW end \in Nat, NEW bodies, NEW n \in Nat,
           NEW read, NEW bytes, NEW rest, Size(rest) \in Nat, Size(bodies) \in Nat,
           ByteIn(w, at, end, bodies, n, read, bytes, rest),
           read.part = "length", Size(bytes) = 2,
           NEW read2, read2.part = "data", read2.want = Cut(bodies[n + 1]),
           read2.want \in Nat, read2.want > 0, Size(read2.bytes) = 0
    PROVE  ReadOf(w, at, end, bodies, n, read2, rest)
<1>1. n < Size(bodies) /\ Meets(bytes, rest, w, at[n + 1], end)
  BY DEF ByteIn
<1>2. Ends(rest, w, end) /\ at[n + 1] + 2 = end - Size(rest)
  BY <1>1 DEF Meets
<1>3. Held(read2.bytes, w, at[n + 1] + 2)
  BY DEF Held
<1>4. at[n + 1] + 2 + Size(read2.bytes) = end - Size(rest) /\ n <= Size(bodies)
  BY <1>1, <1>2
<1> QED BY <1>1, <1>2, <1>3, <1>4 DEF ReadOf

(* Behind a body, or a length of zero, comes the next length. *)
LEMMA LengthNext ==
    ASSUME NEW w, NEW at \in [Nat -> Nat], NEW end \in Nat, NEW bodies, NEW n \in Nat,
           NEW read, NEW bytes, NEW rest, Size(rest) \in Nat, Size(bodies) \in Nat,
           ByteIn(w, at, end, bodies, n, read, bytes, rest), Lies(w, at, end, bodies, n),
           \/ read.part = "length" /\ Size(bytes) = 2 /\ Size(bodies[n + 1]) = 0
           \/ read.part = "data" /\ Size(bytes) = Size(bodies[n + 1]),
           NEW read2, read2.part = "length", read2.want = 2, Size(read2.bytes) = 0
    PROVE  ReadOf(w, at, end, bodies, n + 1, read2, rest)
<1>1. PICK c, c2, lr, z, m : /\ c = at[n + 1] /\ c2 = at[n + 2] /\ lr = Size(rest)
                            /\ z = Size(bodies[n + 1]) /\ m = Size(bytes)
  OBVIOUS
<1>2. c \in Nat /\ c2 \in Nat /\ z \in Nat /\ c2 = c + 2 + z
  BY <1>1 DEF Lies
<1>3. n < Size(bodies) /\ Ends(rest, w, end)
  BY DEF ByteIn, Meets
<1>4. c2 = end - lr
  <2>1. CASE read.part = "length" /\ m = 2 /\ z = 0
    <3>1. c + m = end - lr
      BY <1>1, <2>1 DEF ByteIn, Meets
    <3> QED BY <1>2, <2>1, <3>1
  <2>2. CASE read.part = "data" /\ m = z
    <3>1. c + 2 + m = end - lr
      BY <1>1, <2>2 DEF ByteIn, Meets
    <3> QED BY <1>2, <2>2, <3>1
  <2> QED BY <1>1, <2>1, <2>2
<1>5. Held(read2.bytes, w, c2)
  BY DEF Held
<1>6. n + 1 <= Size(bodies) /\ (n + 1) + 1 = n + 2
  BY <1>3
<1>7. c2 + Size(read2.bytes) = end - lr /\ Size(read2.bytes) < 2
  BY <1>2, <1>4
<1> QED BY <1>1, <1>3, <1>5, <1>6, <1>7 DEF ReadOf

(* Until then the bytes are kept. *)
LEMMA BytesKept ==
    ASSUME NEW w, NEW at, NEW end, NEW bodies, NEW n \in Nat,
           NEW read, NEW bytes, NEW rest, Size(bodies) \in Nat,
           ByteIn(w, at, end, bodies, n, read, bytes, rest), Size(bytes) < read.want,
           NEW read2, read2.part = read.part, read2.want = read.want, read2.bytes = bytes,
           read.part \in {"length", "data"}
    PROVE  ReadOf(w, at, end, bodies, n, read2, rest)
<1>1. n < Size(bodies) /\ n <= Size(bodies)
  BY DEF ByteIn
<1>2. CASE read.part = "length"
  BY <1>1, <1>2 DEF ByteIn, Meets, ReadOf
<1>3. CASE read.part = "data"
  BY <1>1, <1>3 DEF ByteIn, Meets, ReadOf
<1> QED BY <1>2, <1>3


(* At most, and not as many, is fewer. *)
LEMMA Below == \A x, y \in Nat : x <= y /\ x # y => x < y
  OBVIOUS

(* As many bytes from the same place on are the same. *)
LEMMA SameBytes ==
    ASSUME NEW s \in Seq(Bytes), NEW t \in Seq(Bytes), NEW w, NEW place,
           Held(s, w, place), Held(t, w, place), Size(s) = Size(t)
    PROVE  s = t
<1>1. Len(s) = Len(t) /\ \A i \in 1 .. Len(s) : s[i] = t[i]
  BY DEF Held, Size
<1> QED BY <1>1

(* The call of read_exact with one more byte. *)
LEMMA NextByteType ==
    ASSUME NEW read \in Reads, NEW rest \in Seq(Bytes), rest # << >>,
           NEW r, r = Next_byte(read, rest)
    PROVE  /\ r \in Reads /\ r.part = read.part /\ r.want = read.want
           /\ r.bytes \in Seq(Bytes) /\ Longer(r.bytes, read.bytes, rest[1])
           /\ Tail(rest) \in Seq(Bytes) /\ Shorter(Tail(rest), rest)
<1>1. /\ read.part \in {"length", "data"} /\ read.want \in Nat
      /\ read.bytes \in Seq(Bytes)
  BY DEF Reads
<1>2. /\ Tail(rest) \in Seq(Bytes) /\ Shorter(Tail(rest), rest)
      /\ Head(rest) = rest[1] /\ Head(rest) \in Bytes
  BY Beheaded
<1>3. PICK u : u = Append(read.bytes, Head(rest))
  OBVIOUS
<1>4. u \in Seq(Bytes) /\ Longer(u, read.bytes, Head(rest))
  BY <1>1, <1>2, <1>3, Appended
<1>5. r = [read EXCEPT !.bytes = u]
  BY <1>3 DEF Next_byte
<1>6. r \in Reads /\ r.part = read.part /\ r.want = read.want /\ r.bytes = u
  BY <1>1, <1>4, <1>5 DEF Reads
<1> QED BY <1>2, <1>4, <1>6

(* What a call of read_exact has come to, in sizes. *)
LEMMA HasAllSize ==
    ASSUME NEW r \in Reads
    PROVE  /\ HasAll(r, "length") <=> r.part = "length" /\ Size(r.bytes) = r.want
           /\ HasAll(r, "data") <=> r.part = "data" /\ Size(r.bytes) = r.want
  BY DEF HasAll, Size

(* The calls a reader begins. *)
LEMMA CallsBegun ==
    /\ AtLength.part = "length" /\ AtLength.want = 2 /\ Size(AtLength.bytes) = 0
    /\ \A n : AtData(n).part = "data" /\ AtData(n).want = n /\ Size(AtData(n).bytes) = 0
  BY DEF AtLength, AtData, Size

(* What there is when one more byte has come. *)
LEMMA ByteComes ==
    ASSUME NEW bodies \in Seq(Seq(Bytes)), NEW n \in Nat, NEW read \in Reads,
           NEW rest \in Seq(Bytes), rest # << >>,
           NEW w \in [Nat -> Bytes], NEW at \in [Nat -> Nat], NEW end \in Nat,
           Carries(w, at, end, bodies), ReadOf(w, at, end, bodies, n, read, rest),
           NEW r, r = Next_byte(read, rest)
    PROVE  /\ ByteIn(w, at, end, bodies, n, read, r.bytes, Tail(rest))
           /\ Lies(w, at, end, bodies, n)
<1>1. /\ r \in Reads /\ r.part = read.part /\ r.want = read.want
      /\ r.bytes \in Seq(Bytes) /\ Longer(r.bytes, read.bytes, rest[1])
      /\ Tail(rest) \in Seq(Bytes) /\ Shorter(Tail(rest), rest)
  BY NextByteType
<1>2. /\ Size(read.bytes) \in Nat /\ read.want \in Nat
      /\ read.part \in {"length", "data"} /\ Size(bodies) \in Nat
  BY SizeType DEF Reads, Size
<1>3. ByteIn(w, at, end, bodies, n, read, r.bytes, Tail(rest))
  BY <1>1, <1>2, ReadOn
<1>4. n + 1 \in 1 .. Size(bodies)
  BY <1>3 DEF ByteIn
<1>5. bodies[n + 1] \in Seq(Bytes)
  BY <1>4 DEF Size
<1>6. FrameOf(Framed(bodies[n + 1]), bodies[n + 1])
  BY <1>5, FramedBytes
<1> QED BY <1>3, <1>4, <1>6, BodyWritten

(* What a body read by bytes comes to; Flow goes on with the next. *)
LEMMA FlowByte ==
    ASSUME NEW bodies \in Seq(Seq(Bytes)), NEW n \in Nat, NEW read \in Reads,
           NEW rest \in Seq(Bytes), rest # << >>, Flow(bodies, n, read, rest),
           NEW r, r = Next_byte(read, rest)
    PROVE  /\ n + 1 \in 1 .. Len(bodies) /\ bodies[n + 1] \in Seq(Bytes)
           /\ HasAll(r, "length") =>
                 /\ LengthOf(r.bytes) = Cut(bodies[n + 1])
                 /\ Cut(bodies[n + 1]) > 0 =>
                       Flow(bodies, n, AtData(Cut(bodies[n + 1])), Tail(rest))
                 /\ Len(bodies[n + 1]) = 0 =>
                       Flow(bodies, n + 1, AtLength, Tail(rest))
           /\ HasAll(r, "data") /\ Cut(bodies[n + 1]) = Len(bodies[n + 1]) =>
                 /\ r.bytes = bodies[n + 1]
                 /\ Flow(bodies, n + 1, AtLength, Tail(rest))
           /\ ~HasAll(r, "length") /\ ~HasAll(r, "data") => Flow(bodies, n, r, Tail(rest))
<1>1. PICK w \in [Nat -> Bytes], at \in [Nat -> Nat], end \in Nat :
         /\ Carries(w, at, end, bodies)
         /\ ReadOf(w, at, end, bodies, n, read, rest)
  BY DEF Flow
<1>2. PICK u, rest2 : u = r.bytes /\ rest2 = Tail(rest)
  OBVIOUS
<1>3. /\ r \in Reads /\ r.part = read.part /\ r.want = read.want
      /\ u \in Seq(Bytes) /\ Size(rest2) \in Nat /\ r.part \in {"length", "data"}
  BY <1>2, NextByteType, SizeType DEF Reads
<1>4. ByteIn(w, at, end, bodies, n, read, u, rest2) /\ Lies(w, at, end, bodies, n)
  BY <1>1, <1>2, ByteComes
<1>5. Size(bodies) \in Nat /\ Size(bodies) = Len(bodies)
  BY DEF Size
<1>6. n + 1 \in 1 .. Size(bodies)
  BY <1>4 DEF ByteIn
<1>7. PICK b : b = bodies[n + 1]
  OBVIOUS
<1>8. b \in Seq(Bytes) /\ Size(b) = Len(b)
  BY <1>5, <1>6, <1>7 DEF Size
<1>9. Cut(b) \in Nat
  BY <1>8, CutType
<1>10. /\ HasAll(r, "length") <=> read.part = "length" /\ Size(u) = read.want
       /\ HasAll(r, "data") <=> read.part = "data" /\ Size(u) = read.want
  BY <1>2, <1>3, HasAllSize
<1>11. /\ read.part = "length" => read.want = 2
       /\ read.part = "data" => read.want = Cut(b)
  BY <1>4, <1>7 DEF ByteIn
<1>12. ASSUME HasAll(r, "length") PROVE LengthOf(u) = Cut(b)
  <2>1. read.part = "length" /\ Size(u) = 2
    BY <1>10, <1>11, <1>12, Zenon
  <2>2. Held(u, w, at[n + 1])
    BY <1>4, <2>1 DEF ByteIn, Meets
  <2>3. (w[at[n + 1] + 1] * Base) + w[at[n + 1] + 2] = Cut(bodies[n + 1])
    BY <1>4 DEF Lies
  <2>4. LengthOf(u) = Cut(bodies[n + 1])
    BY <2>1, <2>2, <2>3, LengthRead, Zenon
  <2> QED BY <1>7, <2>4
<1>13. ASSUME HasAll(r, "length"), Cut(b) > 0 PROVE Flow(bodies, n, AtData(Cut(b)), rest2)
  <2>1. read.part = "length" /\ Size(u) = 2
    BY <1>10, <1>11, <1>13, Zenon
  <2>2. PICK q : q = AtData(Cut(b))
    OBVIOUS
  <2>3. q.part = "data" /\ q.want = Cut(b) /\ Size(q.bytes) = 0
    BY <2>2, CallsBegun, Zenon
  <2>4. q.want = Cut(bodies[n + 1]) /\ q.want \in Nat /\ q.want > 0
    BY <1>7, <1>9, <1>13, <2>3
  <2>5. ReadOf(w, at, end, bodies, n, q, rest2)
    BY <1>3, <1>4, <1>5, <2>1, <2>3, <2>4, DataNext
  <2> QED BY <1>1, <2>2, <2>5 DEF Flow
<1>14. ASSUME \/ HasAll(r, "length") /\ Len(b) = 0
              \/ HasAll(r, "data") /\ Cut(b) = Len(b)
       PROVE  Flow(bodies, n + 1, AtLength, rest2)
  <2>1. \/ read.part = "length" /\ Size(u) = 2 /\ Size(bodies[n + 1]) = 0
        \/ read.part = "data" /\ Size(u) = Size(bodies[n + 1])
    BY <1>7, <1>8, <1>10, <1>11, <1>14
  <2>2. ReadOf(w, at, end, bodies, n + 1, AtLength, rest2)
    BY <1>3, <1>4, <1>5, <2>1, CallsBegun, LengthNext
  <2> QED BY <1>1, <2>2 DEF Flow
<1>15. ASSUME HasAll(r, "data"), Cut(b) = Len(b) PROVE u = b
  <2>1. Held(u, w, at[n + 1] + 2) /\ Held(b, w, at[n + 1] + 2)
    BY <1>4, <1>7, <1>10, <1>15 DEF ByteIn, Meets, Lies
  <2>2. Size(u) = Size(b)
    BY <1>8, <1>10, <1>11, <1>15
  <2> QED BY <1>3, <1>8, <2>1, <2>2, SameBytes
<1>16. ASSUME ~HasAll(r, "length"), ~HasAll(r, "data") PROVE Flow(bodies, n, r, rest2)
  <2>1. Size(u) < read.want
    <3>1. /\ Size(u) \in Nat /\ read.want \in Nat
          /\ Size(u) <= read.want
      BY <1>3, <1>4, <1>9, <1>11 DEF ByteIn
    <3>2. Size(u) # read.want
      BY <1>3, <1>10, <1>16
    <3> QED BY <3>1, <3>2, Below, Zenon
  <2>2. ReadOf(w, at, end, bodies, n, r, rest2)
    BY <1>2, <1>3, <1>4, <1>5, <2>1, BytesKept
  <2> QED BY <1>1, <2>2 DEF Flow
<1> QED BY <1>2, <1>5, <1>6, <1>7, <1>8, <1>12, <1>13, <1>14, <1>15, <1>16

----------------------------------------------------------------------------
(* Types.                                                                   *)

(* The server has not left an open connection; it handles the message it    *)
(* understood last; a length is two bytes.                                  *)
Orderly ==
    /\ link = "open" => server # "connecting"
    /\ server = "handling" => handled # << >> /\ HasResponse(Last(handled))
    /\ input.part = "length" => input.want = 2
    /\ output.part = "length" => output.want = 2

(* The types of what is read. *)
LEMMA ReadTypes ==
    ASSUME NEW read \in Reads, read.part = "length" => read.want = 2,
           NEW rest \in Seq(Bytes), rest # << >>, NEW r, r = Next_byte(read, rest)
    PROVE  /\ r \in Reads /\ (r.part = "length" => r.want = 2)
           /\ r.bytes \in Seq(Bytes) /\ Tail(rest) \in Seq(Bytes)
           /\ HasAll(r, "length") => LengthOf(r.bytes) \in Nat
<1>1. /\ r \in Reads /\ r.part = read.part /\ r.want = read.want
      /\ r.bytes \in Seq(Bytes) /\ Tail(rest) \in Seq(Bytes)
  BY NextByteType
<1>2. ASSUME HasAll(r, "length") PROVE LengthOf(r.bytes) \in Nat
  <2>1. Len(r.bytes) = 2
    BY <1>1, <1>2 DEF HasAll
  <2>2. r.bytes[1] \in Bytes /\ r.bytes[2] \in Bytes
    BY <1>1, <2>1
  <2>3. /\ Base \in Nat
        /\ r.bytes[1] \in Nat /\ r.bytes[2] \in Nat
    BY <2>2, VpcdAssumption DEF Bytes
  <2>4. \A x, y \in Nat : (x * Base) + y \in Nat
    BY <2>3
  <2> QED BY <2>3, <2>4 DEF LengthOf
<1> QED BY <1>1, <1>2

(* What is understood is a message. *)
LEMMA UnderstoodType ==
    ASSUME NEW body \in Seq(Bytes) PROVE Understood(body) \subseteq Messages
<1>1. \A k \in Controls : Control(k) \in Messages
  BY DEF Control, Messages
<1>2. Apdu(body) \in Messages
  BY DEF Apdu, Messages
<1> QED BY <1>1, <1>2 DEF Understood

(* A body is made of bytes. *)
LEMMA BodyType ==
    ASSUME NEW p, NEW m \in Messages PROVE Body(p, m) \in Seq(Bytes)
<1>1. m.apdu \in Seq(Bytes) /\ m.kind \in {"PowerOff", "PowerOn", "Reset", "GetAtr", "Apdu"}
  BY DEF Messages, Controls
<1>2. 0 \in Bytes /\ 1 \in Bytes /\ 2 \in Bytes /\ 3 \in Bytes /\ 4 \in Bytes
  BY VpcdAssumption DEF Bytes
<1>3. VpcdCommand[m.kind] \in Bytes
  BY <1>1, <1>2 DEF VpcdCommand
<1>4. m.kind # "Apdu" => VpcdCodes[m.kind] \in Bytes
  BY <1>1, <1>2 DEF VpcdCodes
<1> QED BY <1>1, <1>3, <1>4 DEF Body

(* What is sent is a message; what is given, bytes. *)
LEMMA SentTypes ==
    /\ \A k \in Controls : Control(k) \in Messages
    /\ \A a \in Apdus : Apdu(a) \in Messages
    /\ ApduResponses \cup Atrs \subseteq Seq(Bytes)
<1>1. \A k \in Controls : Control(k) \in Messages
  BY DEF Control, Messages
<1>2. \A a \in Apdus : Apdu(a) \in Messages
  BY VpcdAssumption DEF Apdu, Messages
<1>3. ApduResponses \cup Atrs \subseteq Seq(Bytes)
  BY VpcdAssumption
<1> QED BY <1>1, <1>2, <1>3

(* The last of a sequence. *)
LEMMA LastOf ==
    ASSUME NEW S, NEW s \in Seq(S), s # << >>
    PROVE  Last(s) \in S
  BY DEF Last

(* It is what was appended. *)
LEMMA LastAppended ==
    ASSUME NEW S, NEW s \in Seq(S), NEW x \in S
    PROVE  Append(s, x) # << >> /\ Last(Append(s, x)) = x
  BY DEF Last

(* The state a connection begins with. *)
LEMMA BeginTypes == AtLength \in Reads /\ AtLength.part = "length" /\ AtLength.want = 2
  BY DEF AtLength, Reads

(* So is the state a length leads to. *)
LEMMA DataTypes ==
    ASSUME NEW n \in Nat PROVE AtData(n) \in Reads /\ AtData(n).part = "data"
  BY DEF AtData, Reads

(* At first everything is of its type. *)
LEMMA TypeInit == Init => TypeOK /\ Orderly
<1> SUFFICES ASSUME Init PROVE TypeOK /\ Orderly
  OBVIOUS
<1>1. << >> \in Seq(Bytes) /\ << >> \in Seq(Messages)
      /\ << >> \in Seq([request : Messages, data : Seq(Bytes)]) /\ << >> \in Seq(Seq(Bytes))
  OBVIOUS
<1>2. 0 \in 0 .. MaxConnections
  BY VpcdAssumption
<1> QED BY <1>1, <1>2, BeginTypes DEF Init, TypeOK, Orderly

(* Every step keeps the types. *)
LEMMA TypeStep ==
    ASSUME TypeOK, Orderly, [Next]_vars
    PROVE  TypeOK' /\ Orderly'
<1>1. /\ peer \in Peers
      /\ link \in {"none", "open", "peer_left", "server_left"}
      /\ toServer \in Seq(Bytes) /\ toPeer \in Seq(Bytes)
      /\ server \in {"connecting", "reading", "handling"}
      /\ input \in Reads /\ output \in Reads
      /\ meant \in Seq(Messages) /\ awaited \in Seq(Messages) /\ handled \in Seq(Messages)
      /\ given \in Seq([request : Messages, data : Seq(Bytes)])
      /\ got \in Seq(Seq(Bytes))
      /\ links \in 0 .. MaxConnections
  BY DEF TypeOK
<1>2. << >> \in Seq(Bytes) /\ << >> \in Seq(Messages)
      /\ << >> \in Seq([request : Messages, data : Seq(Bytes)]) /\ << >> \in Seq(Seq(Bytes))
  OBVIOUS
<1>3. CASE connect
  <2>1. links + 1 \in 0 .. MaxConnections
    BY <1>1, <1>3, VpcdAssumption DEF connect
  <2> QED BY <1>1, <1>2, <1>3, <2>1, BeginTypes DEF connect, TypeOK, Orderly
<1>4. CASE receive_message
  <2>1. PICK r : r = Next_byte(input, toServer)
    OBVIOUS
  <2>2. /\ toServer # << >> /\ server = "reading" /\ link \in {"open", "peer_left"}
        /\ UNCHANGED <<peer, toPeer, links, output, meant, awaited, given, got>>
    BY <1>4 DEF receive_message
  <2>3. /\ r \in Reads /\ (r.part = "length" => r.want = 2)
        /\ r.bytes \in Seq(Bytes) /\ Tail(toServer) \in Seq(Bytes)
        /\ HasAll(r, "length") => LengthOf(r.bytes) \in Nat
    BY <1>1, <2>1, <2>2, ReadTypes DEF Orderly
  <2>4. \/ Leave /\ UNCHANGED handled
        \/ /\ HasAll(r, "length") /\ input' = AtData(LengthOf(r.bytes))
           /\ toServer' = Tail(toServer) /\ UNCHANGED <<server, link, handled>>
        \/ /\ input' = AtLength /\ toServer' = Tail(toServer)
           /\ \E m \in Understood(r.bytes) :
                 /\ handled' = Append(handled, m)
                 /\ server' = IF HasResponse(m) THEN "handling" ELSE "reading"
           /\ UNCHANGED link
        \/ input' = r /\ toServer' = Tail(toServer) /\ UNCHANGED <<server, link, handled>>
    BY <1>4, <2>1 DEF receive_message
  <2>5. CASE Leave /\ UNCHANGED handled
    BY <1>1, <1>2, <2>2, <2>5 DEF Leave, TypeOK, Orderly
  <2>6. CASE /\ HasAll(r, "length") /\ input' = AtData(LengthOf(r.bytes))
             /\ toServer' = Tail(toServer) /\ UNCHANGED <<server, link, handled>>
    BY <1>1, <2>2, <2>3, <2>6, DataTypes DEF TypeOK, Orderly
  <2>7. CASE /\ input' = AtLength /\ toServer' = Tail(toServer)
             /\ \E m \in Understood(r.bytes) :
                   /\ handled' = Append(handled, m)
                   /\ server' = IF HasResponse(m) THEN "handling" ELSE "reading"
             /\ UNCHANGED link
    <3>a. PICK m \in Understood(r.bytes) :
             /\ handled' = Append(handled, m)
             /\ server' = IF HasResponse(m) THEN "handling" ELSE "reading"
      BY <2>7
    <3>b. m \in Messages
      BY <2>3, <3>a, UnderstoodType
    <3>1. /\ handled' \in Seq(Messages) /\ server' \in {"reading", "handling"}
          /\ (server' = "handling" => HasResponse(m))
      BY <1>1, <3>a, <3>b
    <3>2. handled' # << >> /\ Last(handled') = m
      BY <1>1, <3>a, <3>b, LastAppended
    <3>3. server' = "handling" => handled' # << >> /\ HasResponse(Last(handled'))
      BY <3>1, <3>2
    <3> QED BY <1>1, <2>2, <2>3, <2>7, <3>1, <3>3, BeginTypes DEF TypeOK, Orderly
  <2>8. CASE input' = r /\ toServer' = Tail(toServer) /\ UNCHANGED <<server, link, handled>>
    BY <1>1, <2>2, <2>3, <2>8 DEF TypeOK, Orderly
  <2> QED BY <2>4, <2>5, <2>6, <2>7, <2>8
<1>5. CASE end_of_stream
  BY <1>1, <1>2, <1>5 DEF end_of_stream, Leave, TypeOK, Orderly, histVars
<1>6. ASSUME NEW data \in ApduResponses \cup Atrs, send_response(data)
      PROVE  TypeOK' /\ Orderly'
  <2>1. data \in Seq(Bytes)
    BY SentTypes
  <2>2. /\ server = "handling" /\ UNCHANGED <<peer, links, output, meant, awaited, handled, got>>
        /\ given' = Append(given, [request |-> Last(handled), data |-> data])
    BY <1>6 DEF send_response
  <2>3. Last(handled) \in Messages
    BY <1>1, <2>2, LastOf DEF Orderly
  <2>4. given' \in Seq([request : Messages, data : Seq(Bytes)])
    BY <1>1, <2>1, <2>2, <2>3
  <2>5. /\ input' = input /\ server' \in {"reading", "connecting"}
        /\ link' \in {"open", "peer_left", "none", "server_left"} 
        /\ link' = "open" => server' # "connecting"
        /\ toServer' \in Seq(Bytes)
    BY <1>1, <1>2, <1>6 DEF send_response, Leave
  <2>6. toPeer' \in Seq(Bytes)
    <3>1. Framed(data) \in Seq(Bytes)
      BY <2>1, FramedBytes
    <3>2. toPeer \o Framed(data) \in Seq(Bytes)
      BY <1>1, <3>1
    <3> QED BY <1>1, <1>2, <1>6, <3>2 DEF send_response, Response, Leave
  <2> QED BY <1>1, <2>2, <2>4, <2>5, <2>6 DEF TypeOK, Orderly
<1>7. ASSUME NEW m \in Messages, send_message(m)
      PROVE  TypeOK' /\ Orderly'
  <2>1. toServer' \in Seq(Bytes)
    BY <1>1, <1>7, BodyType, FramedBytes DEF send_message
  <2>2. meant' \in Seq(Messages) /\ awaited' \in Seq(Messages)
    BY <1>1, <1>7 DEF send_message
  <2> QED BY <1>1, <1>7, <2>1, <2>2 DEF send_message, TypeOK, Orderly
<1>8. CASE read_response
  <2>1. PICK r : r = Next_byte(output, toPeer)
    OBVIOUS
  <2>2. /\ toPeer # << >> /\ toPeer' = Tail(toPeer)
        /\ UNCHANGED <<peer, link, toServer, links, server, input, meant, awaited, handled, given>>
    BY <1>8 DEF read_response
  <2>3. /\ r \in Reads /\ (r.part = "length" => r.want = 2)
        /\ r.bytes \in Seq(Bytes) /\ Tail(toPeer) \in Seq(Bytes)
        /\ HasAll(r, "length") => LengthOf(r.bytes) \in Nat
    BY <1>1, <2>1, <2>2, ReadTypes DEF Orderly
  <2>4. \/ output' = AtLength /\ got' = Append(got, << >>)
        \/ HasAll(r, "length") /\ output' = AtData(LengthOf(r.bytes)) /\ got' = got
        \/ output' = AtLength /\ got' = Append(got, r.bytes)
        \/ output' = r /\ got' = got
    BY <1>8, <2>1 DEF read_response
  <2>5. output' \in Reads /\ (output'.part = "length" => output'.want = 2)
    BY <2>3, <2>4, BeginTypes, DataTypes
  <2>6. got' \in Seq(Seq(Bytes))
    <3>1. \A x \in Seq(Bytes) : Append(got, x) \in Seq(Seq(Bytes))
      BY <1>1
    <3> QED BY <1>1, <1>2, <2>3, <2>4, <3>1, Zenon
  <2> QED BY <1>1, <2>2, <2>3, <2>5, <2>6 DEF TypeOK, Orderly
<1>9. CASE peer_closes
  BY <1>1, <1>2, <1>9 DEF peer_closes, TypeOK, Orderly, histVars
<1>10. CASE server_is_gone
  BY <1>1, <1>2, <1>10 DEF server_is_gone, TypeOK, Orderly, histVars
<1>11. CASE UNCHANGED vars
  BY <1>11 DEF vars, netVars, histVars, TypeOK, Orderly
<1> QED BY <1>3, <1>4, <1>5, <1>6, <1>7, <1>8, <1>9, <1>10, <1>11, SentTypes DEF Next, ServerStep

----------------------------------------------------------------------------
(* The messages of vpcd, and the bodies the server is to find.              *)

(* What vpcd says, and the bodies of its messages.                          *)
VpcdSays == {Control(k) : k \in Controls} \cup {Apdu(a) : a \in Apdus}

Said(s) == [j \in 1 .. Len(s) |-> Body("vpcd", s[j])]

(* s is the beginning of t. *)
Follows(s, t) == Size(s) <= Size(t) /\ \A i \in 1 .. Size(s) : s[i] = t[i]

(* What vpcd says is on the connection, and the server has handled the      *)
(* beginning of it.                                                         *)
Heard ==
    peer = "vpcd" =>
        /\ \A j \in 1 .. Len(meant) : meant[j] \in VpcdSays
        /\ Follows(handled, meant)
        /\ server # "connecting" => Flow(Said(meant), Len(handled), input, toServer)

(* Nothing vpcd says is empty or too long, and each is understood as what   *)
(* it is.                                                                   *)
LEMMA VpcdBodies ==
    ASSUME "vpcd" \in Peers, NEW m \in VpcdSays
    PROVE  /\ Body("vpcd", m) \in Seq(Bytes)
           /\ Cut(Body("vpcd", m)) = Len(Body("vpcd", m)) /\ Len(Body("vpcd", m)) > 0
           /\ Understood(Body("vpcd", m)) = {m}
<1>1. Base \in Nat /\ Base > 4
  BY VpcdAssumption
<1>2. Base * Base \in Nat /\ 1 < Base * Base
  BY <1>1
<1>3. CASE m \in {Control(k) : k \in Controls}
  <2>1. PICK k \in Controls : m = Control(k)
    BY <1>3
  <2>2. m.kind = k /\ k # "Apdu"
    BY <2>1 DEF Control, Controls
  <2>3. PICK c : c = VpcdCodes[k]
    OBVIOUS
  <2>4. Body("vpcd", m) = <<c>>
    BY <2>2, <2>3 DEF Body
  <2>5. c \in Bytes
    BY <1>1, <2>3 DEF VpcdCodes, Controls, Bytes
  <2>6. <<c>> \in Seq(Bytes) /\ Len(<<c>>) = 1 /\ <<c>>[1] = c
    BY <2>5
  <2>7. Cut(<<c>>) = Len(<<c>>) /\ Len(<<c>>) > 0
    BY <1>2, <2>6 DEF Cut
  <2>8. {j \in Controls : VpcdCtrlCommand[j] = c} = {k}
    BY <2>3 DEF VpcdCodes, VpcdCtrlCommand, Controls
  <2>9. Understood(<<c>>) = {m}
    BY <2>1, <2>6, <2>8 DEF Understood
  <2> QED BY <2>4, <2>6, <2>7, <2>9, Zenon
<1>4. CASE m \in {Apdu(a) : a \in Apdus}
  <2>1. PICK a \in Apdus : m = Apdu(a)
    BY <1>4
  <2>2. a \in Seq(Bytes) /\ Len(a) > 1 /\ Len(a) < Base * Base
    BY VpcdAssumption
  <2>3. Body("vpcd", m) = a
    BY <2>1 DEF Body, Apdu
  <2>4. Understood(a) = {m}
    <3>a. PICK l : l = Len(a)
      OBVIOUS
    <3>b. l \in Nat /\ l > 1
      BY <2>2, <3>a
    <3>c. l # 1
      BY <3>b
    <3>1. Len(a) # 1
      BY <3>a, <3>c
    <3> QED BY <2>1, <3>1, Zenon DEF Understood
  <2>5. Cut(a) = Len(a)
    BY <2>2, CutType
  <2>6. Len(a) > 0
    BY <2>2
  <2> QED BY <2>2, <2>3, <2>4, <2>5, <2>6
<1> QED BY <1>3, <1>4 DEF VpcdSays

(* What has been said is bodies, one for each message. *)
LEMMA SaidType ==
    ASSUME NEW s \in Seq(Messages)
    PROVE  /\ Said(s) \in Seq(Seq(Bytes)) /\ Len(Said(s)) = Len(s)
           /\ \A j \in 1 .. Len(s) : Said(s)[j] = Body("vpcd", s[j])
<1>1. \A i \in 1 .. Len(s) : Body("vpcd", s[i]) \in Seq(Bytes)
  BY BodyType
<1> QED BY <1>1 DEF Said

(* What has been said, when there is one message more. *)
LEMMA SaidAppended ==
    ASSUME NEW s \in Seq(Messages), NEW m \in Messages
    PROVE  Said(Append(s, m)) = Append(Said(s), Body("vpcd", m))
<1>1. PICK t : t = Append(s, m)
  OBVIOUS
<1>2. /\ t \in Seq(Messages) /\ Len(t) = Len(s) + 1
      /\ \A i \in 1 .. Len(s) : t[i] = s[i]
      /\ t[Len(s) + 1] = m
  BY <1>1
<1>4. Said(s) \in Seq(Seq(Bytes)) /\ Len(Said(s)) = Len(s)
      /\ \A i \in 1 .. Len(s) : Said(s)[i] = Body("vpcd", s[i])
  BY SaidType
<1>5. Body("vpcd", m) \in Seq(Bytes)
  BY BodyType
<1>6. PICK u : u = Append(Said(s), Body("vpcd", m))
  OBVIOUS
<1>7. /\ u \in Seq(Seq(Bytes)) /\ Len(u) = Len(s) + 1
      /\ \A i \in 1 .. Len(s) : u[i] = Body("vpcd", s[i])
      /\ u[Len(s) + 1] = Body("vpcd", m)
  BY <1>4, <1>5, <1>6
<1>9. Said(t) \in Seq(Seq(Bytes)) /\ Len(Said(t)) = Len(t)
      /\ \A i \in 1 .. Len(t) : Said(t)[i] = Body("vpcd", t[i])
  BY <1>2, SaidType
<1>10. ASSUME NEW i \in 1 .. Len(s) + 1 PROVE Said(t)[i] = u[i]
  <2>1. Said(t)[i] = Body("vpcd", t[i])
    BY <1>2, <1>9
  <2>2. CASE i \in 1 .. Len(s)
    BY <1>2, <1>7, <2>1, <2>2
  <2>3. CASE i = Len(s) + 1
    BY <1>2, <1>7, <2>1, <2>3
  <2> QED BY <2>2, <2>3
<1>11. Said(t) = u
  <2>1. Len(Said(t)) = Len(u)
    BY <1>2, <1>7, <1>9
  <2>2. \A i \in 1 .. Len(Said(t)) : Said(t)[i] = u[i]
    BY <1>2, <1>9, <1>10
  <2> QED BY <1>7, <1>9, <2>1, <2>2, SameSequence
<1> QED BY <1>1, <1>6, <1>11

(* The beginning of a sequence that grows, or that has one more.            *)
LEMMA FollowsOn ==
    ASSUME NEW s, NEW t, Follows(s, t), Size(s) \in Nat, Size(t) \in Nat
    PROVE  /\ \A u, x : Longer(u, t, x) => Follows(s, u)
           /\ \A u : Longer(u, s, t[Size(s) + 1]) /\ Size(s) + 1 <= Size(t) => Follows(u, t)
<1>1. PICK a, b : a = Size(s) /\ b = Size(t)
  OBVIOUS
<1>2. a <= b /\ \A i \in 1 .. a : s[i] = t[i]
  BY <1>1 DEF Follows
<1>3. ASSUME NEW u, NEW x, Longer(u, t, x) PROVE Follows(s, u)
  <2>1. Size(u) = b + 1 /\ \A i \in 1 .. b : u[i] = t[i]
    BY <1>1, <1>3 DEF Longer
  <2>2. \A i \in 1 .. a : i \in 1 .. b
    BY <1>1, <1>2
  <2>3. a <= b + 1
    BY <1>1, <1>2
  <2> QED BY <1>1, <1>2, <2>1, <2>2, <2>3 DEF Follows
<1>4. ASSUME NEW u, Longer(u, s, t[Size(s) + 1]), Size(s) + 1 <= Size(t) PROVE Follows(u, t)
  <2>1. Size(u) = a + 1 /\ (\A i \in 1 .. a : u[i] = s[i]) /\ u[a + 1] = t[a + 1]
    BY <1>1, <1>4 DEF Longer
  <2>2. \A i \in 1 .. a + 1 : i \in 1 .. a \/ i = a + 1
    BY <1>1
  <2>3. a + 1 <= b
    BY <1>1, <1>4
  <2> QED BY <1>1, <1>2, <2>1, <2>2, <2>3 DEF Follows
<1> QED BY <1>3, <1>4

(* At first nothing has been said. *)
LEMMA SaidNothing == Said(<< >>) = << >>
<1>1. << >> \in Seq(Messages) /\ Len(<< >>) = 0
  OBVIOUS
<1>4. Said(<< >>) \in Seq(Seq(Bytes)) /\ Len(Said(<< >>)) = 0
  BY <1>1, SaidType
<1> QED BY <1>4

(* At first nothing has been said, and nothing handled. *)
LEMMA HeardInit == Init => Heard /\ ConnectionKept
<1> SUFFICES ASSUME Init PROVE Heard /\ ConnectionKept
  OBVIOUS
<1>1. Len(<< >>) = 0
  OBVIOUS
<1>2. Follows(<< >>, << >>)
  BY <1>1 DEF Follows, Size
<1> QED BY <1>1, <1>2 DEF Init, Heard, ConnectionKept

(* What receive_message does with one more byte. *)
LEMMA ReceiveCases ==
    ASSUME TypeOK, Orderly, receive_message, NEW r, r = Next_byte(input, toServer)
    PROVE  /\ server = "reading" /\ link \in {"open", "peer_left"} /\ toServer # << >>
           /\ UNCHANGED <<peer, toPeer, links, output, meant, awaited, given, got>>
           /\ r \in Reads /\ r.bytes \in Seq(Bytes)
           /\ HasAll(r, "length") => LengthOf(r.bytes) \in Nat
           /\ \/ /\ HasAll(r, "length") /\ LengthOf(r.bytes) = 0
                 /\ Leave /\ UNCHANGED handled
              \/ /\ HasAll(r, "length") /\ LengthOf(r.bytes) > 0
                 /\ input' = AtData(LengthOf(r.bytes)) /\ toServer' = Tail(toServer)
                 /\ UNCHANGED <<server, link, handled>>
              \/ /\ HasAll(r, "data") /\ Understood(r.bytes) = {}
                 /\ Leave /\ UNCHANGED handled
              \/ /\ HasAll(r, "data")
                 /\ input' = AtLength /\ toServer' = Tail(toServer)
                 /\ \E m \in Understood(r.bytes) :
                       /\ handled' = Append(handled, m)
                       /\ server' = IF HasResponse(m) THEN "handling" ELSE "reading"
                 /\ UNCHANGED link
              \/ /\ ~HasAll(r, "length") /\ ~HasAll(r, "data")
                 /\ input' = r /\ toServer' = Tail(toServer)
                 /\ UNCHANGED <<server, link, handled>>
<1>1. /\ toServer # << >> /\ server = "reading" /\ link \in {"open", "peer_left"}
      /\ UNCHANGED <<peer, toPeer, links, output, meant, awaited, given, got>>
  BY DEF receive_message
<1>2. /\ r \in Reads /\ r.bytes \in Seq(Bytes)
      /\ HasAll(r, "length") => LengthOf(r.bytes) \in Nat
  BY <1>1, ReadTypes DEF TypeOK, Orderly
<1>3. PICK n : n = LengthOf(r.bytes)
  OBVIOUS
<1>4. HasAll(r, "length") => n = 0 \/ n > 0
  BY <1>2, <1>3
<1>5. CASE HasAll(r, "length") /\ n = 0
  BY <1>1, <1>2, <1>3, <1>5 DEF receive_message, HasAll
<1>6. CASE HasAll(r, "length") /\ n > 0
  BY <1>1, <1>2, <1>3, <1>6 DEF receive_message, HasAll
<1>7. CASE HasAll(r, "data") /\ Understood(r.bytes) = {}
  BY <1>1, <1>2, <1>7 DEF receive_message, HasAll
<1>8. CASE HasAll(r, "data") /\ Understood(r.bytes) # {}
  BY <1>1, <1>2, <1>8 DEF receive_message, HasAll
<1>9. CASE ~HasAll(r, "length") /\ ~HasAll(r, "data")
  BY <1>1, <1>2, <1>9 DEF receive_message
<1> QED BY <1>4, <1>5, <1>6, <1>7, <1>8, <1>9

(* What vpcd has said is heard, whichever piece of it arrives. *)
LEMMA HeardReceive ==
    ASSUME TypeOK, Orderly, Heard, ConnectionKept, receive_message, peer = "vpcd"
    PROVE  Heard' /\ ConnectionKept'
<1>1. PICK r : r = Next_byte(input, toServer)
  OBVIOUS
<1>2. PICK h, bodies : h = Len(handled) /\ bodies = Said(meant)
  OBVIOUS
<1>3. /\ meant \in Seq(Messages) /\ handled \in Seq(Messages)
      /\ input \in Reads /\ toServer \in Seq(Bytes) /\ "vpcd" \in Peers
  BY DEF TypeOK
<1>4. /\ \A j \in 1 .. Len(meant) : meant[j] \in VpcdSays
      /\ Follows(handled, meant)
      /\ server # "connecting" => Flow(bodies, h, input, toServer)
  BY <1>2 DEF Heard
<1>5. /\ server = "reading" /\ toServer # << >> /\ link \in {"open", "peer_left"}
      /\ meant' = meant /\ peer' = peer
      /\ r \in Reads
  BY <1>1, ReceiveCases
<1>6. h \in Nat
  BY <1>2, <1>3
<1>7. bodies \in Seq(Seq(Bytes)) /\ Len(bodies) = Len(meant)
      /\ \A j \in 1 .. Len(meant) : bodies[j] = Body("vpcd", meant[j])
  BY <1>2, <1>3, SaidType
<1>8. Flow(bodies, h, input, toServer)
  BY <1>4, <1>5
<1>9. PICK b, k : b = bodies[h + 1] /\ k = meant[h + 1]
  OBVIOUS
<1>10. /\ h + 1 \in 1 .. Len(bodies) /\ b \in Seq(Bytes)
       /\ HasAll(r, "length") =>
             /\ LengthOf(r.bytes) = Cut(b)
             /\ Cut(b) > 0 => Flow(bodies, h, AtData(Cut(b)), Tail(toServer))
       /\ HasAll(r, "data") /\ Cut(b) = Len(b) =>
             r.bytes = b /\ Flow(bodies, h + 1, AtLength, Tail(toServer))
       /\ ~HasAll(r, "length") /\ ~HasAll(r, "data") =>
             Flow(bodies, h, r, Tail(toServer))
  BY <1>1, <1>3, <1>5, <1>6, <1>7, <1>8, <1>9, FlowByte
<1>11. h + 1 \in 1 .. Len(meant) /\ k \in VpcdSays /\ b = Body("vpcd", k)
  BY <1>4, <1>7, <1>9, <1>10
<1>12. Cut(b) = Len(b) /\ Len(b) > 0 /\ Understood(b) = {k}
  BY <1>3, <1>11, VpcdBodies
<1>13. \A j \in 1 .. Len(meant') : meant'[j] \in VpcdSays
  BY <1>4, <1>5
<1>14. ~(HasAll(r, "length") /\ LengthOf(r.bytes) = 0)
  <2>1. PICK l : l = Cut(b)
    OBVIOUS
  <2>2. l > 0
    BY <1>12, <2>1
  <2>3. l # 0
    BY <2>2
  <2> QED BY <1>10, <2>1, <2>3, Zenon
<1>15. ~(HasAll(r, "data") /\ Understood(r.bytes) = {})
  BY <1>10, <1>12
<1>16. CASE /\ HasAll(r, "length")
            /\ input' = AtData(LengthOf(r.bytes)) /\ toServer' = Tail(toServer)
            /\ UNCHANGED <<server, link, handled>>
  <2>1. Flow(bodies, h, AtData(Cut(b)), Tail(toServer)) /\ LengthOf(r.bytes) = Cut(b)
    BY <1>10, <1>12, <1>16
  <2>2. Flow(Said(meant'), Len(handled'), input', toServer')
    BY <1>2, <1>5, <1>16, <2>1, Zenon
  <2>3. Follows(handled', meant')
    BY <1>4, <1>5, <1>16
  <2> QED BY <1>13, <1>16, <2>2, <2>3 DEF Heard, ConnectionKept
<1>17. CASE /\ HasAll(r, "data")
            /\ input' = AtLength /\ toServer' = Tail(toServer)
            /\ \E m \in Understood(r.bytes) :
                  /\ handled' = Append(handled, m)
                  /\ server' = IF HasResponse(m) THEN "handling" ELSE "reading"
            /\ UNCHANGED link
  <2>1. r.bytes = b /\ Flow(bodies, h + 1, AtLength, Tail(toServer))
    BY <1>10, <1>12, <1>17
  <2>2. handled' = Append(handled, k)
    BY <1>12, <1>17, <2>1
  <2>3. k \in Messages
    BY <1>3, <1>9, <1>11
  <2>4. Longer(handled', handled, k) /\ Len(handled') = h + 1
    <3>1. Longer(handled', handled, k) /\ handled' \in Seq(Messages)
      BY <1>3, <2>2, <2>3, Appended
    <3> QED BY <1>2, <3>1 DEF Longer, Size
  <2>5. Flow(Said(meant'), Len(handled'), input', toServer')
    BY <1>2, <1>5, <1>17, <2>1, <2>4, Zenon
  <2>6. Follows(handled', meant')
    <3>1. /\ Size(handled) \in Nat /\ Size(meant) \in Nat
          /\ Size(handled) + 1 <= Size(meant) /\ k = meant[Size(handled) + 1]
      BY <1>2, <1>3, <1>9, <1>11 DEF Size
    <3> QED BY <1>4, <1>5, <2>4, <3>1, FollowsOn
  <2> QED BY <1>13, <1>17, <2>5, <2>6 DEF Heard, ConnectionKept
<1>18. CASE /\ ~HasAll(r, "length") /\ ~HasAll(r, "data")
            /\ input' = r /\ toServer' = Tail(toServer)
            /\ UNCHANGED <<server, link, handled>>
  <2>1. Flow(Said(meant'), Len(handled'), input', toServer')
    BY <1>2, <1>5, <1>10, <1>18, Zenon
  <2>2. Follows(handled', meant')
    BY <1>4, <1>5, <1>18
  <2> QED BY <1>13, <1>18, <2>1, <2>2 DEF Heard, ConnectionKept
<1> QED BY <1>1, <1>14, <1>15, <1>16, <1>17, <1>18, ReceiveCases, Zenon

(* What vpcd says next comes behind. *)
LEMMA HeardSend ==
    ASSUME TypeOK, Orderly, Heard, ConnectionKept, peer = "vpcd",
           NEW m \in Messages, m \in VpcdSays, send_message(m)
    PROVE  Heard' /\ ConnectionKept'
<1>1. /\ meant \in Seq(Messages) /\ handled \in Seq(Messages)
      /\ input \in Reads /\ toServer \in Seq(Bytes)
  BY DEF TypeOK
<1>2. /\ \A j \in 1 .. Len(meant) : meant[j] \in VpcdSays
      /\ Follows(handled, meant)
      /\ server # "connecting" => Flow(Said(meant), Len(handled), input, toServer)
  BY DEF Heard
<1>3. /\ meant' = Append(meant, m) /\ toServer' = toServer \o Framed(Body("vpcd", m))
      /\ UNCHANGED <<peer, link, server, input, handled>>
  BY DEF send_message
<1>4. Longer(meant', meant, m)
  BY <1>1, <1>3, Appended
<1>5. \A j \in 1 .. Len(meant') : meant'[j] \in VpcdSays
  <2>1. Len(meant') = Len(meant) + 1 /\ meant'[Len(meant) + 1] = m
        /\ \A j \in 1 .. Len(meant) : meant'[j] = meant[j]
    BY <1>4 DEF Longer, Size
  <2>2. PICK l : l = Len(meant)
    OBVIOUS
  <2>3. l \in Nat
    BY <1>1, <2>2
  <2> SUFFICES ASSUME NEW j \in 1 .. l + 1 PROVE meant'[j] \in VpcdSays
    BY <2>1, <2>2
  <2>4. j \in 1 .. l \/ j = l + 1
    BY <2>3
  <2> QED BY <1>2, <2>1, <2>2, <2>4
<1>6. Follows(handled', meant')
  <2>1. Size(handled) \in Nat /\ Size(meant) \in Nat
    BY <1>1 DEF Size
  <2> QED BY <1>2, <1>3, <1>4, <2>1, FollowsOn
<1>7. ASSUME server' # "connecting"
      PROVE  Flow(Said(meant'), Len(handled'), input', toServer')
  <2>1. Flow(Said(meant), Len(handled), input, toServer)
    BY <1>2, <1>3, <1>7
  <2>2. Said(meant) \in Seq(Seq(Bytes)) /\ Body("vpcd", m) \in Seq(Bytes)
        /\ Said(meant') = Append(Said(meant), Body("vpcd", m))
    BY <1>1, <1>3, SaidType, SaidAppended, BodyType
  <2>3. PICK h : h = Len(handled)
    OBVIOUS
  <2>4. h \in Nat
    BY <1>1, <2>3
  <2>5. Flow(Append(Said(meant), Body("vpcd", m)), h, input, toServer \o Framed(Body("vpcd", m)))
    BY <1>1, <2>1, <2>2, <2>3, <2>4, FlowWritten
  <2> QED BY <1>3, <2>2, <2>3, <2>5, Zenon
<1> QED BY <1>3, <1>5, <1>6, <1>7 DEF Heard, ConnectionKept

(* The messages there are, and what vpcd says of them.                      *)
LEMMA SendsAre ==
    /\ \A k \in Controls : Control(k) \in Messages /\ Control(k) \in VpcdSays
    /\ \A a \in Apdus : Apdu(a) \in Messages /\ Apdu(a) \in VpcdSays
  BY SentTypes DEF VpcdSays

(* Every step keeps what is handled the beginning of what was said. *)
LEMMA HeardStep ==
    ASSUME TypeOK, Orderly, Heard, ConnectionKept, [Next]_vars
    PROVE  Heard' /\ ConnectionKept'
<1> SUFFICES ASSUME peer = "vpcd", peer' = peer PROVE Heard' /\ ConnectionKept'
  <2>1. peer' = peer
    BY DEF Next, ServerStep, vars, netVars, histVars, connect, receive_message, end_of_stream,
           send_response, send_message, read_response, peer_closes, server_is_gone
  <2> QED BY <2>1 DEF Heard, ConnectionKept
<1>1. link # "server_left"
  BY DEF ConnectionKept
<1>2. CASE connect
  <2>1. Flow(Said(<< >>), 0, AtLength, << >>) /\ Follows(<< >>, << >>) /\ Len(<< >>) = 0
    BY SaidNothing, FlowBegins DEF Follows, Size
  <2> QED BY <1>2, <2>1 DEF connect, Heard, ConnectionKept
<1>3. CASE receive_message
  BY <1>3, HeardReceive
<1>4. CASE end_of_stream
  BY <1>4 DEF end_of_stream, Leave, Heard, ConnectionKept, histVars
<1>5. ASSUME NEW data, send_response(data)
      PROVE  Heard' /\ ConnectionKept'
  <2>1. meant' = meant /\ handled' = handled /\ server = "handling"
    BY <1>5 DEF send_response
  <2>2. \/ server' = "reading" /\ UNCHANGED <<link, toServer, input>>
        \/ server' = "connecting" /\ link' = "none"
    BY <1>5 DEF send_response, Leave
  <2> QED BY <1>1, <2>1, <2>2 DEF Heard, ConnectionKept
<1>6. ASSUME NEW m \in Messages, m \in VpcdSays, send_message(m)
      PROVE  Heard' /\ ConnectionKept'
  BY <1>6, HeardSend
<1>7. CASE read_response
  BY <1>7 DEF read_response, Heard, ConnectionKept
<1>8. CASE peer_closes
  BY <1>8 DEF peer_closes, Heard, ConnectionKept, histVars
<1>9. CASE server_is_gone
  BY <1>9 DEF server_is_gone, Heard, ConnectionKept, histVars
<1>10. CASE UNCHANGED vars
  BY <1>10 DEF vars, netVars, histVars, Heard, ConnectionKept
<1> QED BY <1>2, <1>3, <1>4, <1>5, <1>6, <1>7, <1>8, <1>9, <1>10, SendsAre DEF Next, ServerStep

----------------------------------------------------------------------------
(* The responses, and what the peer is to read.                             *)

Given == [request : Messages, data : Seq(Bytes)]

Answers(s) == [j \in 1 .. Len(s) |-> s[j].data]

(* The first n of the responses s are no longer than a length can say.      *)
FitIn(s, n) == \A i \in 1 .. Len(s) : i <= n => Len(s[i].data) < Base * Base

(* What is given is on the connection, and the peer has read the beginning  *)
(* of it, unless a response was too long.                                   *)
Answered ==
    /\ link \in {"open", "server_left"} /\ FitIn(given, Len(got)) =>
          Flow(Answers(given), Len(got), output, toPeer)
    /\ \A i \in 1 .. Len(got) :
          FitIn(given, i) => i \in 1 .. Len(given) /\ got[i] = given[i].data

(* What has been given is bodies, one for each response. *)
LEMMA AnswersType ==
    ASSUME NEW s \in Seq(Given)
    PROVE  /\ Answers(s) \in Seq(Seq(Bytes)) /\ Len(Answers(s)) = Len(s)
           /\ \A j \in 1 .. Len(s) : Answers(s)[j] = s[j].data
<1>1. ASSUME NEW i \in 1 .. Len(s) PROVE s[i].data \in Seq(Bytes)
  <2>1. s[i] \in Given
    OBVIOUS
  <2> QED BY <2>1 DEF Given
<1> QED BY <1>1 DEF Answers

(* When there is one response more. *)
LEMMA AnswersAppended ==
    ASSUME NEW s \in Seq(Given), NEW x \in Given
    PROVE  Answers(Append(s, x)) = Append(Answers(s), x.data)
<1>1. PICK t : t = Append(s, x)
  OBVIOUS
<1>2. /\ t \in Seq(Given) /\ Len(t) = Len(s) + 1
      /\ \A i \in 1 .. Len(s) : t[i] = s[i]
      /\ t[Len(s) + 1] = x
  BY <1>1
<1>4. Answers(s) \in Seq(Seq(Bytes)) /\ Len(Answers(s)) = Len(s)
      /\ \A i \in 1 .. Len(s) : Answers(s)[i] = s[i].data
  BY AnswersType
<1>5. x.data \in Seq(Bytes)
  BY DEF Given
<1>6. PICK u : u = Append(Answers(s), x.data)
  OBVIOUS
<1>7. /\ u \in Seq(Seq(Bytes)) /\ Len(u) = Len(s) + 1
      /\ \A i \in 1 .. Len(s) : u[i] = s[i].data
      /\ u[Len(s) + 1] = x.data
  BY <1>4, <1>5, <1>6
<1>9. Answers(t) \in Seq(Seq(Bytes)) /\ Len(Answers(t)) = Len(t)
      /\ \A i \in 1 .. Len(t) : Answers(t)[i] = t[i].data
  BY <1>2, AnswersType
<1>10. ASSUME NEW i \in 1 .. Len(s) + 1 PROVE Answers(t)[i] = u[i]
  <2>1. Answers(t)[i] = t[i].data
    BY <1>2, <1>9
  <2>2. CASE i \in 1 .. Len(s)
    BY <1>2, <1>7, <2>1, <2>2
  <2>3. CASE i = Len(s) + 1
    BY <1>2, <1>7, <2>1, <2>3
  <2> QED BY <2>2, <2>3
<1>11. Answers(t) = u
  <2>1. Len(Answers(t)) = Len(u)
    BY <1>2, <1>7, <1>9
  <2>2. \A i \in 1 .. Len(Answers(t)) : Answers(t)[i] = u[i]
    BY <1>2, <1>9, <1>10
  <2> QED BY <1>7, <1>9, <2>1, <2>2, SameSequence
<1> QED BY <1>1, <1>6, <1>11

(* At first nothing has been given. *)
LEMMA AnswersNone == Answers(<< >>) = << >>
<1>1. << >> \in Seq(Given) /\ Len(<< >>) = 0
  OBVIOUS
<1>2. Answers(<< >>) \in Seq(Seq(Bytes)) /\ Len(Answers(<< >>)) = 0
  BY <1>1, AnswersType
<1> QED BY <1>2

(* Fewer of the responses fit as well. *)
LEMMA FitFewer ==
    ASSUME NEW s, NEW m \in Nat, NEW n \in Nat, m <= n, FitIn(s, n)
    PROVE  FitIn(s, m)
<1>1. PICK l : l = Len(s)
  OBVIOUS
<1>2. \A i \in 1 .. l : i <= n => Len(s[i].data) < Base * Base
  BY <1>1 DEF FitIn
<1>3. \A i \in 1 .. l : i <= m => i <= n
  OBVIOUS
<1> QED BY <1>1, <1>2, <1>3 DEF FitIn

(* They did before there was one more. *)
LEMMA FitBefore ==
    ASSUME NEW s \in Seq(Given), NEW x \in Given, NEW n \in Nat, FitIn(Append(s, x), n)
    PROVE  FitIn(s, n)
<1>1. PICK t : t = Append(s, x)
  OBVIOUS
<1>2. Longer(t, s, x)
  BY <1>1, Appended
<1>3. PICK l : l = Len(s)
  OBVIOUS
<1>4. l \in Nat /\ Len(t) = l + 1 /\ \A i \in 1 .. l : t[i] = s[i]
  BY <1>2, <1>3 DEF Longer, Size
<1>5. \A i \in 1 .. l + 1 : i <= n => Len(t[i].data) < Base * Base
  BY <1>1, <1>4 DEF FitIn
<1>6. \A i \in 1 .. l : i \in 1 .. l + 1
  BY <1>4
<1> QED BY <1>3, <1>4, <1>5, <1>6 DEF FitIn

(* At first nothing has been given, and nothing read. *)
LEMMA AnsweredInit == Init => Answered
<1> SUFFICES ASSUME Init PROVE Answered
  OBVIOUS
<1>1. Len(<< >>) = 0
  OBVIOUS
<1> QED BY <1>1 DEF Init, Answered

(* What the peer does with one more byte: it has a response more, or not.   *)
LEMMA ReadCases ==
    ASSUME TypeOK, Orderly, read_response, FitIn(given, Len(got)),
           Flow(Answers(given), Len(got), output, toPeer)
    PROVE  \/ got' = got /\ Flow(Answers(given), Len(got), output', toPeer')
           \/ \E x \in Seq(Bytes) :
                 /\ got' = Append(got, x)
                 /\ FitIn(given, Len(got) + 1) =>
                       /\ Len(got) + 1 \in 1 .. Len(given) /\ x = given[Len(got) + 1].data
                       /\ Flow(Answers(given), Len(got) + 1, output', toPeer')
<1>1. PICK r : r = Next_byte(output, toPeer)
  OBVIOUS
<1>2. PICK g, bodies : g = Len(got) /\ bodies = Answers(given)
  OBVIOUS
<1>3. /\ given \in Seq(Given) /\ got \in Seq(Seq(Bytes))
      /\ output \in Reads /\ toPeer \in Seq(Bytes)
  BY DEF TypeOK, Given
<1>4. g \in Nat /\ Flow(bodies, g, output, toPeer)
  BY <1>2, <1>3
<1>5. bodies \in Seq(Seq(Bytes)) /\ Len(bodies) = Len(given)
      /\ \A j \in 1 .. Len(given) : bodies[j] = given[j].data
  BY <1>2, <1>3, AnswersType
<1>6. toPeer # << >> /\ toPeer' = Tail(toPeer)
  BY DEF read_response
<1>7. /\ r \in Reads /\ r.bytes \in Seq(Bytes)
      /\ HasAll(r, "length") => LengthOf(r.bytes) \in Nat
  BY <1>1, <1>3, <1>6, ReadTypes DEF Orderly
<1>8. PICK b : b = bodies[g + 1]
  OBVIOUS
<1>9. /\ g + 1 \in 1 .. Len(bodies) /\ b \in Seq(Bytes)
      /\ HasAll(r, "length") =>
            /\ LengthOf(r.bytes) = Cut(b)
            /\ Cut(b) > 0 => Flow(bodies, g, AtData(Cut(b)), toPeer')
            /\ Len(b) = 0 => Flow(bodies, g + 1, AtLength, toPeer')
      /\ HasAll(r, "data") /\ Cut(b) = Len(b) =>
            r.bytes = b /\ Flow(bodies, g + 1, AtLength, toPeer')
      /\ ~HasAll(r, "length") /\ ~HasAll(r, "data") => Flow(bodies, g, r, toPeer')
  BY <1>1, <1>3, <1>4, <1>5, <1>6, <1>8, FlowByte
<1>10. g + 1 \in 1 .. Len(given) /\ b = given[g + 1].data
  BY <1>5, <1>8, <1>9
<1>11. ASSUME FitIn(given, g + 1) PROVE Cut(b) = Len(b)
  <2>1. Len(b) < Base * Base
    BY <1>10, <1>11 DEF FitIn
  <2> QED BY <1>9, <2>1, CutType
<1>12. PICK n : n = LengthOf(r.bytes)
  OBVIOUS
<1>13. HasAll(r, "length") => n = 0 \/ n > 0
  BY <1>7, <1>12
<1>14. CASE HasAll(r, "length") /\ n = 0
  <2>1. output' = AtLength /\ got' = Append(got, << >>)
    BY <1>1, <1>12, <1>14 DEF read_response, HasAll
  <2>2. ASSUME FitIn(given, g + 1)
        PROVE  << >> = b /\ Flow(bodies, g + 1, output', toPeer')
    <3>1. Len(b) = 0
      BY <1>9, <1>11, <1>12, <1>14, <2>2, Zenon
    <3>2. << >> = b
      BY <1>9, <3>1
    <3> QED BY <1>9, <1>14, <2>1, <3>1, <3>2
  <2>3. << >> \in Seq(Bytes)
    OBVIOUS
  <2> QED BY <1>2, <1>10, <2>1, <2>2, <2>3
<1>15. CASE HasAll(r, "length") /\ n > 0
  <2>1. output' = AtData(n) /\ got' = got
    BY <1>1, <1>12, <1>15 DEF read_response, HasAll
  <2>2. n = Cut(b) /\ Cut(b) > 0
    BY <1>9, <1>12, <1>15
  <2>3. Flow(bodies, g, output', toPeer')
    BY <1>9, <1>15, <2>1, <2>2, Zenon
  <2> QED BY <1>2, <2>1, <2>3
<1>16. CASE HasAll(r, "data")
  <2>1. output' = AtLength /\ got' = Append(got, r.bytes)
    BY <1>1, <1>16 DEF read_response, HasAll
  <2>2. ASSUME FitIn(given, g + 1)
        PROVE  r.bytes = b /\ Flow(bodies, g + 1, output', toPeer')
    BY <1>9, <1>11, <1>16, <2>1, <2>2
  <2> QED BY <1>2, <1>7, <1>10, <2>1, <2>2
<1>17. CASE ~HasAll(r, "length") /\ ~HasAll(r, "data")
  <2>1. output' = r /\ got' = got
    BY <1>1, <1>17 DEF read_response
  <2> QED BY <1>2, <1>9, <1>17, <2>1
<1> QED BY <1>13, <1>14, <1>15, <1>16, <1>17

(* What the peer has read it was given. *)
LEMMA AnsweredRead ==
    ASSUME TypeOK, Orderly, Answered, read_response
    PROVE  Answered'
<1>1. PICK g : g = Len(got)
  OBVIOUS
<1>2. got \in Seq(Seq(Bytes)) /\ g \in Nat
  BY <1>1 DEF TypeOK
<1>3. given' = given /\ link \in {"open", "server_left"}
  BY DEF read_response
<1>4. /\ FitIn(given, g) => Flow(Answers(given), g, output, toPeer)
      /\ \A i \in 1 .. g :
            FitIn(given, i) => i \in 1 .. Len(given) /\ got[i] = given[i].data
  BY <1>1, <1>3 DEF Answered
<1>5. FitIn(given, g + 1) => FitIn(given, g)
  <2>1. g + 1 \in Nat /\ g <= g + 1
    BY <1>2
  <2> QED BY <1>2, <2>1, FitFewer
<1>6. CASE got' = got
  <2>1. ASSUME FitIn(given, g) PROVE Flow(Answers(given), g, output', toPeer')
    <3>1. \/ got' = got /\ Flow(Answers(given), g, output', toPeer')
          \/ \E x \in Seq(Bytes) : got' = Append(got, x)
      BY <1>1, <1>4, <2>1, ReadCases
    <3>2. \A x \in Seq(Bytes) : Append(got, x) # got
      <4> TAKE x \in Seq(Bytes)
      <4>1. Longer(Append(got, x), got, x)
        BY <1>2, Appended
      <4>2. Size(Append(got, x)) # Size(got)
        BY <4>1 DEF Longer
      <4> QED BY <4>2
    <3> QED BY <1>6, <3>1, <3>2
  <2> QED BY <1>1, <1>3, <1>4, <1>6, <2>1 DEF Answered
<1>7. ASSUME NEW x \in Seq(Bytes), got' = Append(got, x),
             FitIn(given, g + 1) =>
                /\ g + 1 \in 1 .. Len(given) /\ x = given[g + 1].data
                /\ Flow(Answers(given), g + 1, output', toPeer')
      PROVE  Answered'
  <2>1. Longer(got', got, x)
    BY <1>2, <1>7, Appended
  <2>2. Len(got') = g + 1 /\ (\A i \in 1 .. g : got'[i] = got[i]) /\ got'[g + 1] = x
    BY <1>1, <2>1 DEF Longer, Size
  <2>3. ASSUME NEW i \in 1 .. g + 1, FitIn(given, i)
        PROVE  i \in 1 .. Len(given) /\ got'[i] = given[i].data
    <3>1. i \in 1 .. g \/ i = g + 1
      BY <1>2
    <3>2. CASE i \in 1 .. g
      BY <1>4, <2>2, <2>3, <3>2
    <3>3. CASE i = g + 1
      BY <1>7, <2>2, <2>3, <3>3
    <3> QED BY <3>1, <3>2, <3>3
  <2> QED BY <1>3, <1>7, <2>2, <2>3 DEF Answered
<1>8. CASE ~FitIn(given, g)
  <2>1. got' = got \/ \E x \in Seq(Bytes) : got' = Append(got, x)
    <3>1. PICK r : r = Next_byte(output, toPeer)
      OBVIOUS
    <3>2. r.bytes \in Seq(Bytes) /\ << >> \in Seq(Bytes)
      BY <3>1, ReadTypes DEF TypeOK, Orderly, read_response
    <3>3. got' \in {got, Append(got, << >>), Append(got, r.bytes)}
      BY <3>1 DEF read_response
    <3> QED BY <3>2, <3>3
  <2> QED BY <1>5, <1>6, <1>7, <1>8, <2>1
<1>9. CASE FitIn(given, g)
  <2>1. \/ got' = got
        \/ \E x \in Seq(Bytes) :
              /\ got' = Append(got, x)
              /\ FitIn(given, g + 1) =>
                    /\ g + 1 \in 1 .. Len(given) /\ x = given[g + 1].data
                    /\ Flow(Answers(given), g + 1, output', toPeer')
    BY <1>1, <1>4, <1>9, ReadCases
  <2> QED BY <1>6, <1>7, <2>1
<1> QED BY <1>8, <1>9

(* A response more comes behind. *)
LEMMA AnsweredSend ==
    ASSUME TypeOK, Orderly, Answered, NEW data \in Seq(Bytes), send_response(data)
    PROVE  Answered'
<1>1. PICK x, g : x = [request |-> Last(handled), data |-> data] /\ g = Len(got)
  OBVIOUS
<1>2. given' = Append(given, x) /\ got' = got /\ output' = output
  BY <1>1 DEF send_response
<1>3. /\ given \in Seq(Given) /\ got \in Seq(Seq(Bytes)) /\ g \in Nat
      /\ output \in Reads /\ toPeer \in Seq(Bytes)
  BY <1>1 DEF TypeOK, Given
<1>4. x \in Given /\ x.data = data
  <2>1. Last(handled) \in Messages
    BY LastOf DEF TypeOK, Orderly, send_response
  <2> QED BY <1>1, <2>1 DEF Given
<1>5. \A i \in Nat : FitIn(given', i) => FitIn(given, i)
  BY <1>2, <1>3, <1>4, FitBefore
<1>6. ASSUME NEW i \in 1 .. g, FitIn(given', i)
      PROVE  i \in 1 .. Len(given') /\ got'[i] = given'[i].data
  <2>1. i \in 1 .. Len(given) /\ got[i] = given[i].data
    BY <1>1, <1>3, <1>5, <1>6 DEF Answered
  <2>2. Longer(given', given, x)
    BY <1>2, <1>3, <1>4, Appended
  <2>3. Len(given) \in Nat /\ Len(given') = Len(given) + 1 /\ given'[i] = given[i]
    BY <2>1, <2>2 DEF Longer, Size
  <2>4. PICK l : l = Len(given)
    OBVIOUS
  <2>5. i \in 1 .. l + 1
    BY <2>1, <2>3, <2>4
  <2> QED BY <1>2, <2>1, <2>3, <2>4, <2>5
<1>7. ASSUME link' \in {"open", "server_left"}, FitIn(given', g)
      PROVE  Flow(Answers(given'), g, output', toPeer')
  <2>1. link = "open" /\ toPeer' = toPeer \o Framed(data)
    BY <1>7 DEF send_response, Leave, Response
  <2>2. Flow(Answers(given), g, output, toPeer)
    BY <1>1, <1>3, <1>5, <1>7, <2>1 DEF Answered
  <2>3. Answers(given) \in Seq(Seq(Bytes))
    BY <1>3, AnswersType
  <2>4. Flow(Append(Answers(given), data), g, output, toPeer \o Framed(data))
    BY <1>3, <2>2, <2>3, FlowWritten
  <2>5. Answers(given') = Append(Answers(given), data)
    BY <1>2, <1>3, <1>4, AnswersAppended
  <2> QED BY <1>2, <2>1, <2>4, <2>5, Zenon
<1> QED BY <1>1, <1>2, <1>6, <1>7 DEF Answered

(* Every step keeps what is read the beginning of what was given. *)
LEMMA AnsweredStep ==
    ASSUME TypeOK, Orderly, Answered, [Next]_vars
    PROVE  Answered'
<1>1. CASE connect
  <2>1. Flow(Answers(<< >>), 0, AtLength, << >>) /\ Len(<< >>) = 0
    BY AnswersNone, FlowBegins
  <2> QED BY <1>1, <2>1 DEF connect, Answered
<1>2. CASE receive_message
  <2>1. UNCHANGED <<toPeer, output, given, got>> /\ link \in {"open", "peer_left"}
        /\ link' \in {link, IF link = "peer_left" THEN "none" ELSE "server_left"}
    BY <1>2 DEF receive_message, Leave
  <2> QED BY <2>1 DEF Answered
<1>3. CASE end_of_stream
  BY <1>3 DEF end_of_stream, Leave, Answered, histVars
<1>4. ASSUME NEW data \in ApduResponses \cup Atrs, send_response(data)
      PROVE  Answered'
  BY <1>4, SentTypes, AnsweredSend
<1>5. ASSUME NEW m, send_message(m) PROVE Answered'
  BY <1>5 DEF send_message, Answered
<1>6. CASE read_response
  BY <1>6, AnsweredRead
<1>7. CASE peer_closes
  BY <1>7 DEF peer_closes, Answered, histVars
<1>8. CASE server_is_gone
  BY <1>8 DEF server_is_gone, Answered, histVars
<1>9. CASE UNCHANGED vars
  BY <1>9 DEF vars, netVars, histVars, Answered
<1> QED BY <1>1, <1>2, <1>3, <1>4, <1>5, <1>6, <1>7, <1>8, <1>9 DEF Next, ServerStep

----------------------------------------------------------------------------
(* Whose turn it is.                                                        *)

(* Of the messages s those that have an answer are t; rank[j] of them are   *)
(* among the first j.                                                       *)
Counts(rank, s, t) ==
    /\ rank[Size(s)] = Size(t)
    /\ \A j \in 0 .. Size(s) : rank[j] <= Size(t)
    /\ \A j \in 1 .. Size(s) :
          /\ HasAnswer(s[j]) => rank[j] = rank[j - 1] + 1 /\ t[rank[j]] = s[j]
          /\ ~HasAnswer(s[j]) => rank[j] = rank[j - 1]

(* As many responses have been given as messages handled have an answer,    *)
(* but for the one at hand; each to its message.                            *)
InTurn ==
    peer = "vpcd" =>
        /\ \A i \in 1 .. Len(given) : i \in 1 .. Len(awaited) /\ given[i].request = awaited[i]
        /\ \E rank \in [Nat -> Nat] :
              /\ rank[0] = 0 /\ Counts(rank, meant, awaited)
              /\ server = "reading" => rank[Len(handled)] = Len(given)
              /\ server = "handling" => rank[Len(handled)] = Len(given) + 1

(* At first it is nobody's turn. *)
LEMMA InTurnInit == Init => InTurn
<1> SUFFICES ASSUME Init PROVE InTurn
  OBVIOUS
<1>1. PICK rank : rank = [i \in Nat |-> 0]
  OBVIOUS
<1>2. rank \in [Nat -> Nat] /\ rank[0] = 0
  BY <1>1
<1>3. Size(<< >>) = 0 /\ Len(<< >>) = 0
  BY DEF Size
<1>4. Counts(rank, << >>, << >>)
  BY <1>2, <1>3 DEF Counts
<1> QED BY <1>2, <1>3, <1>4 DEF Init, InTurn

(* t2 is t, with m behind it if that has an answer. *)
Grown(t2, t, m) ==
    /\ HasAnswer(m) => Longer(t2, t, m)
    /\ ~HasAnswer(m) => t2 = t

(* The counts when there is a message more. *)
LEMMA CountsOn ==
    ASSUME NEW s, NEW t, Size(s) \in Nat, Size(t) \in Nat,
           NEW rank \in [Nat -> Nat], Counts(rank, s, t),
           NEW m, NEW s2, Longer(s2, s, m), NEW t2,
           Grown(t2, t, m)
    PROVE  \E rank2 \in [Nat -> Nat] :
              /\ Counts(rank2, s2, t2)
              /\ \A j \in 0 .. Size(s) : rank2[j] = rank[j]
<1>1. PICK a, b, c : a = Size(s) /\ b = Size(t) /\ c = Size(t2)
  OBVIOUS
<1>2. /\ a \in Nat /\ Size(s2) = a + 1
      /\ (\A j \in 1 .. a : s2[j] = s[j]) /\ s2[a + 1] = m
  BY <1>1 DEF Longer
<1>3. /\ b \in Nat /\ c \in Nat /\ b <= c
      /\ \A i \in 1 .. b : t2[i] = t[i]
      /\ HasAnswer(m) => c = b + 1 /\ t2[c] = m
      /\ ~HasAnswer(m) => c = b
  BY <1>1 DEF Longer, Grown
<1>4. PICK rank2 : rank2 = [j \in Nat |-> IF j = a + 1 THEN c ELSE rank[j]]
  OBVIOUS
<1>5. /\ rank2 \in [Nat -> Nat] /\ rank2[a + 1] = c
      /\ \A j \in 0 .. a : rank2[j] = rank[j] /\ rank[j] \in Nat
  BY <1>2, <1>3, <1>4
<1>6. /\ rank[a] = b /\ \A j \in 0 .. a : rank[j] <= b
      /\ \A j \in 1 .. a :
            /\ HasAnswer(s[j]) => rank[j] = rank[j - 1] + 1 /\ t[rank[j]] = s[j]
            /\ ~HasAnswer(s[j]) => rank[j] = rank[j - 1]
  BY <1>1 DEF Counts
<1>7. ASSUME NEW j \in 0 .. a + 1 PROVE rank2[j] <= c
  <2>1. j \in 0 .. a \/ j = a + 1
    BY <1>2
  <2> QED BY <1>3, <1>5, <1>6, <2>1
<1>8. ASSUME NEW j \in 1 .. a + 1
      PROVE  /\ HasAnswer(s2[j]) => rank2[j] = rank2[j - 1] + 1 /\ t2[rank2[j]] = s2[j]
             /\ ~HasAnswer(s2[j]) => rank2[j] = rank2[j - 1]
  <2>1. CASE j \in 1 .. a
    <3>1. j \in 0 .. a /\ j - 1 \in 0 .. a /\ s2[j] = s[j]
      BY <1>2, <2>1
    <3>2. rank2[j] = rank[j] /\ rank2[j - 1] = rank[j - 1] /\ rank[j - 1] \in Nat
          /\ rank[j] \in Nat /\ rank[j] <= b
      BY <1>5, <1>6, <3>1
    <3>3. HasAnswer(s[j]) => t2[rank[j]] = t[rank[j]]
      <4> SUFFICES ASSUME HasAnswer(s[j]) PROVE rank[j] \in 1 .. b
        BY <1>3
      <4>1. rank[j] = rank[j - 1] + 1
        BY <1>6, <2>1
      <4> QED BY <1>3, <3>2, <4>1
    <3> QED BY <1>6, <2>1, <3>1, <3>2, <3>3
  <2>2. CASE j = a + 1
    <3>1. j - 1 = a /\ a \in 0 .. a
      BY <1>2, <2>2
    <3>2. rank2[j - 1] = b /\ rank2[j] = c /\ s2[j] = m
      BY <1>2, <1>5, <1>6, <2>2, <3>1
    <3> QED BY <1>3, <3>2
  <2>3. j \in 1 .. a \/ j = a + 1
    BY <1>2
  <2> QED BY <2>1, <2>2, <2>3
<1>9. Counts(rank2, s2, t2)
  BY <1>1, <1>2, <1>5, <1>7, <1>8 DEF Counts
<1> QED BY <1>1, <1>5, <1>9

(* A message more from vpcd. *)
LEMMA InTurnSend ==
    ASSUME TypeOK, Heard, InTurn, peer = "vpcd", NEW m \in Messages, send_message(m)
    PROVE  InTurn'
<1>1. /\ meant' = Append(meant, m)
      /\ awaited' = IF HasAnswer(m) THEN Append(awaited, m) ELSE awaited
      /\ UNCHANGED <<peer, server, handled, given>>
  BY DEF send_message
<1>2. /\ meant \in Seq(Messages) /\ awaited \in Seq(Messages) /\ handled \in Seq(Messages)
      /\ Size(meant) \in Nat /\ Size(awaited) \in Nat /\ Len(handled) \in Nat
  BY DEF TypeOK, Size
<1>3. Longer(meant', meant, m)
  BY <1>1, <1>2, Appended
<1>4. /\ HasAnswer(m) => Longer(awaited', awaited, m)
      /\ ~HasAnswer(m) => awaited' = awaited
  BY <1>1, <1>2, Appended
<1>5. PICK rank \in [Nat -> Nat] :
         /\ rank[0] = 0 /\ Counts(rank, meant, awaited)
         /\ server = "reading" => rank[Len(handled)] = Len(given)
         /\ server = "handling" => rank[Len(handled)] = Len(given) + 1
  BY DEF InTurn
<1>6. PICK rank2 \in [Nat -> Nat] :
         /\ Counts(rank2, meant', awaited')
         /\ \A j \in 0 .. Size(meant) : rank2[j] = rank[j]
  <2>1. Counts(rank, meant, awaited)
    BY <1>5
  <2>2. Grown(awaited', awaited, m)
    BY <1>4 DEF Grown
  <2>3. Size(meant) \in Nat /\ Size(awaited) \in Nat
    BY <1>2
  <2>4. PICK s, s2, t, t2 : s = meant /\ s2 = meant' /\ t = awaited /\ t2 = awaited'
    OBVIOUS
  <2>5. /\ Size(s) \in Nat /\ Size(t) \in Nat /\ Counts(rank, s, t)
        /\ Longer(s2, s, m) /\ Grown(t2, t, m)
    BY <1>3, <2>1, <2>2, <2>3, <2>4, Zenon
  <2>6. \E rank2 \in [Nat -> Nat] :
           Counts(rank2, s2, t2) /\ \A j \in 0 .. Size(s) : rank2[j] = rank[j]
    BY <2>5, CountsOn
  <2> QED BY <2>4, <2>6, Zenon
<1>7. Len(handled) \in 0 .. Size(meant) /\ 0 \in 0 .. Size(meant)
  <2>1. Size(handled) <= Size(meant) /\ Size(handled) = Len(handled)
    BY DEF Heard, Follows, Size
  <2>2. PICK l, k : l = Len(handled) /\ k = Size(meant)
    OBVIOUS
  <2>3. l \in Nat /\ k \in Nat /\ l <= k
    BY <1>2, <2>1, <2>2
  <2>4. l \in 0 .. k /\ 0 \in 0 .. k
    BY <2>3
  <2> QED BY <2>2, <2>4
<1>8. ASSUME NEW i \in 1 .. Len(given')
      PROVE  i \in 1 .. Len(awaited') /\ given'[i].request = awaited'[i]
  <2>1. i \in 1 .. Len(awaited) /\ given[i].request = awaited[i]
    BY <1>1, <1>8 DEF InTurn
  <2>2. CASE HasAnswer(m)
    <3>1. Len(awaited') = Len(awaited) + 1 /\ awaited'[i] = awaited[i]
      BY <1>4, <2>1, <2>2 DEF Longer, Size
    <3>2. PICK l : l = Len(awaited)
      OBVIOUS
    <3>3. l \in Nat
      BY <1>2, <3>2
    <3>4. i \in 1 .. l + 1
      BY <2>1, <3>2, <3>3
    <3> QED BY <1>1, <2>1, <3>1, <3>2, <3>4
  <2>3. CASE ~HasAnswer(m)
    BY <1>1, <2>1, <2>3
  <2> QED BY <2>2, <2>3
<1> QED BY <1>1, <1>5, <1>6, <1>7, <1>8 DEF InTurn

(* A message more that the server handles. *)
LEMMA InTurnReceive ==
    ASSUME TypeOK, Orderly, Heard', InTurn, peer = "vpcd", receive_message
    PROVE  InTurn'
<1>1. PICK r : r = Next_byte(input, toServer)
  OBVIOUS
<1>2. /\ server = "reading" /\ UNCHANGED <<peer, meant, awaited, given>>
  BY <1>1, ReceiveCases
<1>3. \/ server' = "connecting"
      \/ server' = server /\ handled' = handled
      \/ \E m \in Messages :
            /\ handled' = Append(handled, m)
            /\ server' = IF HasResponse(m) THEN "handling" ELSE "reading"
  BY <1>1, ReceiveCases, UnderstoodType DEF Leave
<1>4. PICK rank \in [Nat -> Nat] :
         /\ rank[0] = 0 /\ Counts(rank, meant, awaited)
         /\ rank[Len(handled)] = Len(given)
  BY <1>2 DEF InTurn
<1>5. ASSUME NEW m \in Messages, handled' = Append(handled, m),
             server' = IF HasResponse(m) THEN "handling" ELSE "reading"
      PROVE  /\ server' = "reading" => rank[Len(handled')] = Len(given')
             /\ server' = "handling" => rank[Len(handled')] = Len(given') + 1
  <2>1. handled \in Seq(Messages)
    BY DEF TypeOK
  <2>2. Longer(handled', handled, m)
    BY <1>5, <2>1, Appended
  <2>3. PICK h : h = Len(handled)
    OBVIOUS
  <2>4. h \in Nat /\ Size(handled') = h + 1 /\ Len(handled') = h + 1 /\ handled'[h + 1] = m
    BY <2>2, <2>3 DEF Longer, Size
  <2>5. Follows(handled', meant)
    BY <1>2 DEF Heard
  <2>6. h + 1 \in 1 .. Size(meant) /\ meant[h + 1] = m
    <3>1. h + 1 <= Size(meant)
      BY <2>4, <2>5 DEF Follows
    <3>2. h + 1 \in 1 .. Size(handled')
      BY <2>4
    <3>3. meant[h + 1] = m
      BY <2>4, <2>5, <3>2 DEF Follows
    <3>4. Size(meant) \in Nat
      BY DEF TypeOK, Size
    <3> QED BY <2>4, <3>1, <3>3, <3>4
  <2>7. /\ HasAnswer(m) => rank[h + 1] = rank[(h + 1) - 1] + 1
        /\ ~HasAnswer(m) => rank[h + 1] = rank[(h + 1) - 1]
    BY <1>4, <2>6 DEF Counts
  <2>8. (h + 1) - 1 = h
    BY <2>4
  <2>9. HasAnswer(m) <=> HasResponse(m)
    BY DEF HasAnswer, HasResponse
  <2>10. rank[h + 1] = IF HasResponse(m) THEN Len(given) + 1 ELSE Len(given)
    BY <1>4, <2>3, <2>7, <2>8, <2>9
  <2> QED BY <1>2, <1>5, <2>4, <2>10
<1>6. \/ server' = "connecting"
      \/ /\ server' = "reading" => rank[Len(handled')] = Len(given')
         /\ server' = "handling" => rank[Len(handled')] = Len(given') + 1
  BY <1>2, <1>3, <1>4, <1>5
<1> QED BY <1>2, <1>4, <1>6 DEF InTurn

(* A response more, to the message at hand. *)
LEMMA InTurnRespond ==
    ASSUME TypeOK, Orderly, Heard, InTurn, peer = "vpcd",
           NEW data \in Seq(Bytes), send_response(data)
    PROVE  InTurn'
<1>1. PICK x : x = [request |-> Last(handled), data |-> data]
  OBVIOUS
<1>2. /\ server = "handling" /\ given' = Append(given, x)
      /\ server' \in {"reading", "connecting"}
      /\ UNCHANGED <<peer, meant, awaited, handled>>
  BY <1>1 DEF send_response, Leave
<1>3. /\ handled \in Seq(Messages) /\ handled # << >> /\ HasResponse(Last(handled))
      /\ given \in Seq(Given) /\ meant \in Seq(Messages)
  BY <1>2 DEF TypeOK, Orderly, Given
<1>4. x \in Given /\ x.request = Last(handled)
  BY <1>1, <1>3, LastOf DEF Given
<1>5. PICK rank \in [Nat -> Nat] :
         /\ rank[0] = 0 /\ Counts(rank, meant, awaited)
         /\ rank[Len(handled)] = Len(given) + 1
  BY <1>2 DEF InTurn
<1>6. PICK h, g : h = Len(handled) /\ g = Len(given)
  OBVIOUS
<1>7. h \in Nat /\ h > 0 /\ g \in Nat /\ Last(handled) = handled[h]
  BY <1>3, <1>6 DEF Last
<1>8. h \in 1 .. Size(meant) /\ meant[h] = Last(handled)
  <2>1. Size(handled) = h /\ Size(handled) <= Size(meant)
        /\ \A i \in 1 .. Size(handled) : handled[i] = meant[i]
    BY <1>6 DEF Heard, Follows, Size
  <2>2. Size(meant) \in Nat
    BY <1>3 DEF Size
  <2>3. h \in 1 .. h
    BY <1>7
  <2> QED BY <1>7, <2>1, <2>2, <2>3
<1>9. g + 1 <= Size(awaited) /\ awaited[g + 1] = x.request
  <2>1. HasAnswer(meant[h])
    BY <1>3, <1>8 DEF HasAnswer, HasResponse
  <2>2. h \in 0 .. Size(meant)
    BY <1>8
  <2>3. rank[h] <= Size(awaited) /\ awaited[rank[h]] = meant[h]
    BY <1>5, <1>8, <2>1, <2>2 DEF Counts
  <2> QED BY <1>4, <1>5, <1>6, <1>8, <2>3
<1>10. Len(given') = g + 1 /\ (\A i \in 1 .. g : given'[i] = given[i]) /\ given'[g + 1] = x
  <2>1. Longer(given', given, x)
    BY <1>2, <1>3, <1>4, Appended
  <2> QED BY <1>6, <2>1 DEF Longer, Size
<1>11. ASSUME NEW i \in 1 .. g + 1
       PROVE  i \in 1 .. Len(awaited') /\ given'[i].request = awaited'[i]
  <2>1. i \in 1 .. g \/ i = g + 1
    BY <1>7
  <2>2. CASE i \in 1 .. g
    BY <1>2, <1>6, <1>10, <2>2 DEF InTurn
  <2>3. CASE i = g + 1
    <3>1. Size(awaited) = Len(awaited) /\ Size(awaited) \in Nat
      BY DEF TypeOK, Size
    <3>2. g + 1 \in 1 .. Size(awaited)
      BY <1>7, <1>9, <3>1
    <3> QED BY <1>2, <1>9, <1>10, <2>3, <3>1, <3>2
  <2> QED BY <2>1, <2>2, <2>3
<1>12. server' = "reading" => rank[Len(handled')] = Len(given')
  BY <1>2, <1>5, <1>6, <1>10
<1> QED BY <1>2, <1>5, <1>10, <1>11, <1>12 DEF InTurn

(* Every step keeps the turns. *)
LEMMA InTurnStep ==
    ASSUME TypeOK, Orderly, Heard, Heard', InTurn, [Next]_vars
    PROVE  InTurn'
<1> SUFFICES ASSUME peer = "vpcd", peer' = peer PROVE InTurn'
  <2>1. peer' = peer
    BY DEF Next, ServerStep, vars, netVars, histVars, connect, receive_message, end_of_stream,
           send_response, send_message, read_response, peer_closes, server_is_gone
  <2> QED BY <2>1 DEF InTurn
<1>1. CASE connect
  <2>1. PICK rank : rank = [i \in Nat |-> 0]
    OBVIOUS
  <2>2. rank \in [Nat -> Nat] /\ rank[0] = 0
    BY <2>1
  <2>3. Size(<< >>) = 0 /\ Len(<< >>) = 0
    BY DEF Size
  <2>4. Counts(rank, << >>, << >>)
    BY <2>2, <2>3 DEF Counts
  <2>5. /\ server' = "reading" /\ meant' = << >> /\ awaited' = << >> /\ handled' = << >>
        /\ given' = << >>
    BY <1>1 DEF connect
  <2>6. Counts(rank, meant', awaited')
    BY <2>4, <2>5, Zenon
  <2>7. Len(given') = 0 /\ rank[Len(handled')] = Len(given')
    BY <2>2, <2>3, <2>5
  <2>8. \A i \in 1 .. Len(given') : FALSE
    BY <2>7
  <2> QED BY <2>2, <2>5, <2>6, <2>7, <2>8 DEF InTurn
<1>2. CASE receive_message
  BY <1>2, InTurnReceive
<1>3. CASE end_of_stream
  BY <1>3 DEF end_of_stream, Leave, InTurn, histVars
<1>4. ASSUME NEW data \in ApduResponses \cup Atrs, send_response(data)
      PROVE  InTurn'
  BY <1>4, SentTypes, InTurnRespond
<1>5. ASSUME NEW m \in Messages, send_message(m) PROVE InTurn'
  BY <1>5, InTurnSend
<1>6. CASE read_response
  BY <1>6 DEF read_response, InTurn
<1>7. CASE peer_closes
  BY <1>7 DEF peer_closes, InTurn, histVars
<1>8. CASE server_is_gone
  BY <1>8 DEF server_is_gone, InTurn, histVars
<1>9. CASE UNCHANGED vars
  BY <1>9 DEF vars, netVars, histVars, InTurn
<1> QED BY <1>1, <1>2, <1>3, <1>4, <1>5, <1>6, <1>7, <1>8, <1>9, SendsAre DEF Next, ServerStep

----------------------------------------------------------------------------
(* The inductive invariant. *)
IInv == TypeOK /\ Orderly /\ Heard /\ Answered /\ InTurn /\ ConnectionKept

(* IInv holds at first and is kept by every step. *)
THEOREM Invariance == Spec => []IInv
<1>1. Init => IInv
  BY TypeInit, HeardInit, AnsweredInit, InTurnInit DEF IInv
<1>2. IInv /\ [Next]_vars => IInv'
  <2> SUFFICES ASSUME IInv, [Next]_vars PROVE IInv'
    OBVIOUS
  <2>1. TypeOK' /\ Orderly'
    BY TypeStep DEF IInv
  <2>2. Heard' /\ ConnectionKept'
    BY HeardStep DEF IInv
  <2>3. Answered'
    BY AnsweredStep DEF IInv
  <2>4. InTurn'
    BY <2>2, InTurnStep DEF IInv
  <2> QED BY <2>1, <2>2, <2>3, <2>4 DEF IInv
<1> QED BY <1>1, <1>2, PTL DEF Spec

(* What there is of a connection is what its description says. *)
THEOREM TypeCorrect == Spec => []TypeOK
<1>1. IInv => TypeOK
  BY DEF IInv
<1> QED BY <1>1, Invariance, PTL

(* The server handles what vpcd said on this connection, in order, however  *)
(* the stream was cut.                                                      *)
THEOREM Understanding == Spec => []RequestsUnderstood
<1>1. ASSUME IInv PROVE RequestsUnderstood
  <2> SUFFICES ASSUME peer = "vpcd" PROVE IsPrefix(handled, meant)
    BY DEF RequestsUnderstood
  <2>1. handled \in Seq(Messages) /\ meant \in Seq(Messages)
    BY <1>1 DEF IInv, TypeOK
  <2>2. Len(handled) <= Len(meant) /\ \A i \in 1 .. Len(handled) : handled[i] = meant[i]
    BY <1>1 DEF IInv, Heard, Follows, Size
  <2>3. PICK h, l : h = Len(handled) /\ l = Len(meant)
    OBVIOUS
  <2>4. h \in Nat /\ l \in Nat /\ h <= l
    BY <2>1, <2>2, <2>3
  <2>5. PICK s : s = SubSeq(meant, 1, h)
    OBVIOUS
  <2>6. s \in Seq(Messages) /\ Len(s) = h /\ \A i \in 1 .. h : s[i] = meant[i]
    BY <2>1, <2>3, <2>4, <2>5
  <2>7. handled = s
    <3>1. Len(handled) = Len(s) /\ \A i \in 1 .. Len(handled) : handled[i] = s[i]
      BY <2>2, <2>3, <2>6
    <3> QED BY <2>1, <2>6, <3>1, SameSequence
  <2> QED BY <2>2, <2>3, <2>5, <2>7 DEF IsPrefix
<1> QED BY <1>1, Invariance, PTL

(* What the peer reads are the responses given on this connection, in turn  *)
(* and byte for byte, each to its message, up to the first too long.        *)
THEOREM Answering == Spec => []AnsweredInTurn
<1>1. ASSUME IInv PROVE AnsweredInTurn
  <2>1. /\ given \in Seq(Given) /\ got \in Seq(Seq(Bytes)) /\ awaited \in Seq(Messages)
    BY <1>1 DEF IInv, TypeOK, Given
  <2>2. /\ DOMAIN given = 1 .. Len(given) /\ DOMAIN got = 1 .. Len(got)
        /\ DOMAIN awaited = 1 .. Len(awaited)
    BY <2>1
  <2>3. ASSUME NEW i \in DOMAIN got, Fit(i)
        PROVE  /\ i \in DOMAIN given /\ got[i] = given[i].data
               /\ peer = "vpcd" => i \in DOMAIN awaited /\ given[i].request = awaited[i]
    <3>1. FitIn(given, i)
      BY <2>2, <2>3 DEF Fit, FitIn
    <3>2. i \in 1 .. Len(given) /\ got[i] = given[i].data
      BY <1>1, <2>2, <3>1 DEF IInv, Answered
    <3> QED BY <1>1, <2>2, <3>2 DEF IInv, InTurn
  <2> QED BY <2>3 DEF AnsweredInTurn
<1> QED BY <1>1, Invariance, PTL

(* Nothing vpcd says makes the server leave the connection. *)
THEOREM Keeping == Spec => []ConnectionKept
<1>1. IInv => ConnectionKept
  BY DEF IInv
<1> QED BY <1>1, Invariance, PTL

=============================================================================
