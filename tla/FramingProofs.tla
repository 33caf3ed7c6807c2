--------------------------- MODULE FramingProofs ---------------------------
(* Bytes that are put together by one program and cut apart by another: the   *)
(* frames of Framing and the log records of LogForward.                       *)
EXTENDS Framing, LogForward, SequenceTheorems, WellFoundedInduction, TLAPS

(* What is read from a stream of frames is what was written to it, for every  *)
(* base, every set of payloads, any number of them and however the reads cut  *)
(* the stream up.                                                             *)

\* Two bytes hold a length below the square of their base.
LEMMA LengthKept ==
  ASSUME NEW B \in Nat, B > 1, NEW n \in Nat, n < B * B
  PROVE  /\ n % B \in 0 .. B - 1 /\ (n \div B) % B \in 0 .. B - 1
         /\ (n % B) + (B * ((n \div B) % B)) = n
<1>1. n % B \in 0 .. B - 1 /\ n \div B \in Nat /\ n = (B * (n \div B)) + (n % B)
  OBVIOUS
<1>2. n \div B < B
  <2>1. SUFFICES ASSUME n \div B >= B PROVE FALSE
    BY <1>1
  <2>2. B * (n \div B) >= B * B
    BY <1>1, <2>1
  <2> QED BY <1>1, <2>2
<1>3. (n \div B) % B = n \div B
  BY <1>1, <1>2
<1> QED BY <1>1, <1>2, <1>3

\* What a frame consists of.
LEMMA FrameShape ==
  ASSUME NEW p \in Payloads
  PROVE  /\ p \in Seq(0 .. Base - 1) /\ Len(p) \in Nat
         /\ Frame(p) \in Seq(0 .. Base - 1)
         /\ Len(Frame(p)) = 2 + Len(p)
         /\ \A j \in 1 .. Len(p) : Frame(p)[2 + j] = p[j]
         /\ Len(p) <= MaxPayload =>
              Frame(p)[1] + Base * Frame(p)[2] = Len(p)
<1> DEFINE n == Len(p)
<1>1. p \in Seq(0 .. Base - 1) /\ n \in Nat /\ Base \in Nat /\ Base > 1
  BY BaseAssumption, PayloadAssumption
<1>2. n % Base \in 0 .. Base - 1 /\ (n \div Base) % Base \in 0 .. Base - 1
  BY <1>1
<1>3. /\ LengthBytes(n) \in Seq(0 .. Base - 1) /\ Len(LengthBytes(n)) = 2
      /\ LengthBytes(n)[1] = n % Base /\ LengthBytes(n)[2] = (n \div Base) % Base
  BY <1>2 DEF LengthBytes
<1>4. /\ Frame(p) \in Seq(0 .. Base - 1)
      /\ Len(Frame(p)) = 2 + Len(p)
      /\ \A i \in 1 .. 2 + Len(p) : Frame(p)[i] =
           IF i <= 2 THEN LengthBytes(n)[i] ELSE p[i - 2]
  <2> DEFINE h == LengthBytes(n)
  <2>1. h \in Seq(0 .. Base - 1) /\ Len(h) = 2
    BY <1>3
  <2> HIDE DEF h
  <2>2. /\ h \o p \in Seq(0 .. Base - 1) /\ Len(h \o p) = Len(h) + Len(p)
        /\ \A i \in 1 .. Len(h) + Len(p) :
             (h \o p)[i] = IF i <= Len(h) THEN h[i] ELSE p[i - Len(h)]
    BY <1>1, <2>1, ConcatProperties, Zenon
  <2> QED BY <2>1, <2>2 DEF Frame, h
<1>5. ASSUME Len(p) <= MaxPayload
      PROVE  Frame(p)[1] + Base * Frame(p)[2] = Len(p)
  <2>1. n < Base * Base
    BY <1>1, <1>5 DEF MaxPayload
  <2>2. (n % Base) + (Base * ((n \div Base) % Base)) = n
    BY <1>1, <2>1, LengthKept
  <2>3. Frame(p)[1] = n % Base /\ Frame(p)[2] = (n \div Base) % Base
    <3>1. 1 \in 1 .. 2 + Len(p) /\ 2 \in 1 .. 2 + Len(p) /\ 1 <= 2 /\ 2 <= 2
      BY <1>1
    <3> QED BY <1>3, <1>4, <3>1, Zenon
  <2> QED BY <2>2, <2>3, Zenon
<1>6. ASSUME NEW j \in 1 .. Len(p) PROVE Frame(p)[2 + j] = p[j]
  <2>1. 2 + j \in 1 .. 2 + Len(p) /\ ~(2 + j <= 2) /\ (2 + j) - 2 = j
    BY <1>1
  <2> QED BY <1>4, <2>1, Zenon
<1> QED BY <1>1, <1>4, <1>5, <1>6, Zenon

-----------------------------------------------------------------------------
Byte == 0 .. Base - 1
From(all, m) == SubSeq(all, m + 1, Len(all))

\* A slice of a sequence.
LEMMA Slice ==
  ASSUME NEW S, NEW s \in Seq(S), NEW m \in 0 .. Len(s), NEW n \in m .. Len(s)
  PROVE  /\ SubSeq(s, m + 1, n) \in Seq(S) /\ Len(SubSeq(s, m + 1, n)) = n - m
         /\ \A i \in 1 .. n - m : SubSeq(s, m + 1, n)[i] = s[m + i]
<1>1. Len(s) \in Nat /\ \A i \in m + 1 .. n : s[i] \in S
  BY LenProperties
<1>2. /\ SubSeq(s, m + 1, n) \in Seq(S)
      /\ Len(SubSeq(s, m + 1, n)) = IF m + 1 <= n THEN n - (m + 1) + 1 ELSE 0
      /\ \A i \in 1 .. n - (m + 1) + 1 : SubSeq(s, m + 1, n)[i] = s[(m + 1) + i - 1]
  BY <1>1, SubSeqProperties
<1> QED BY <1>1, <1>2

\* What a read takes off a suffix and what it leaves.
LEMMA SplitSuffix ==
  ASSUME NEW S, NEW all \in Seq(S), NEW m \in 0 .. Len(all), NEW n \in 0 .. Len(all) - m
  PROVE  /\ From(all, m) \in Seq(S) /\ Len(From(all, m)) = Len(all) - m
         /\ \A i \in 1 .. Len(all) - m : From(all, m)[i] = all[m + i]
         /\ SubSeq(From(all, m), 1, n) = SubSeq(all, m + 1, m + n)
         /\ From(From(all, m), n) = From(all, m + n)
<1> DEFINE w == From(all, m)
<1>0. Len(all) \in Nat
  BY LenProperties
<1>1. w \in Seq(S) /\ Len(w) = Len(all) - m /\ \A i \in 1 .. Len(all) - m : w[i] = all[m + i]
  BY <1>0, Slice DEF From
<1> HIDE DEF w
<1>2. SubSeq(w, 1, n) = SubSeq(all, m + 1, m + n)
  <2>1. /\ SubSeq(w, 1, n) \in Seq(S) /\ Len(SubSeq(w, 1, n)) = n
        /\ \A i \in 1 .. n : SubSeq(w, 1, n)[i] = w[i]
    <3>1. /\ SubSeq(w, 0 + 1, n) \in Seq(S) /\ Len(SubSeq(w, 0 + 1, n)) = n - 0
          /\ \A i \in 1 .. n - 0 : SubSeq(w, 0 + 1, n)[i] = w[0 + i]
      BY <1>0, <1>1, Slice
    <3> QED BY <3>1
  <2>2. /\ SubSeq(all, m + 1, m + n) \in Seq(S) /\ Len(SubSeq(all, m + 1, m + n)) = (m + n) - m
        /\ \A i \in 1 .. (m + n) - m : SubSeq(all, m + 1, m + n)[i] = all[m + i]
    BY <1>0, Slice
  <2>3. (m + n) - m = n /\ 1 .. n \subseteq 1 .. Len(all) - m
    BY <1>0
  <2>4. Len(SubSeq(w, 1, n)) = Len(SubSeq(all, m + 1, m + n))
    BY <2>1, <2>2, <2>3, Zenon
  <2>5. ASSUME NEW i \in 1 .. n PROVE SubSeq(w, 1, n)[i] = SubSeq(all, m + 1, m + n)[i]
    <3>1. SubSeq(all, m + 1, m + n)[i] = all[m + i]
      BY <2>2, <2>3, Zenon
    <3>2. w[i] = all[m + i]
      BY <1>1, <2>3, Zenon
    <3> QED BY <2>1, <3>1, <3>2, Zenon
  <2> QED BY <2>1, <2>2, <2>4, <2>5, SeqEqual, Zenon
<1>3. From(w, n) = From(all, m + n)
  <2>1. /\ From(w, n) \in Seq(S) /\ Len(From(w, n)) = Len(w) - n
        /\ \A i \in 1 .. Len(w) - n : From(w, n)[i] = w[n + i]
    BY <1>0, <1>1 DEF From
  <2>2. /\ From(all, m + n) \in Seq(S) /\ Len(From(all, m + n)) = Len(all) - (m + n)
        /\ \A i \in 1 .. Len(all) - (m + n) : From(all, m + n)[i] = all[(m + n) + i]
    BY <1>0, Slice DEF From
  <2>5. (Len(all) - m) - n = Len(all) - (m + n)
    BY <1>0
  <2>3. Len(From(w, n)) = Len(From(all, m + n))
    BY <2>1, <2>2, <2>5, <1>1, Zenon
  <2>4. ASSUME NEW i \in 1 .. Len(From(w, n)) PROVE From(w, n)[i] = From(all, m + n)[i]
    <3>1. i \in 1 .. Len(all) - (m + n) /\ i \in 1 .. Len(w) - n
      BY <2>1, <2>2, <2>3, Zenon
    <3>2. n + i \in 1 .. Len(all) - m /\ m + (n + i) = (m + n) + i
      BY <3>1, <1>0
    <3>3. From(all, m + n)[i] = all[(m + n) + i]
      BY <2>2, <3>1, Zenon
    <3>4. From(w, n)[i] = w[n + i]
      BY <2>1, <3>1, Zenon
    <3>5. w[n + i] = all[m + (n + i)]
      BY <1>1, <3>2, Zenon
    <3> QED BY <3>2, <3>3, <3>4, <3>5, Zenon
  <2> QED BY <2>1, <2>2, <2>3, <2>4, SeqEqual, Zenon
<1> QED BY <1>1, <1>2, <1>3 DEF w

\* What a write adds to the bytes there are.
LEMMA Extended ==
  ASSUME NEW S, NEW all \in Seq(S), NEW x \in Seq(S)
  PROVE  /\ all \o x \in Seq(S) /\ Len(all \o x) = Len(all) + Len(x)
         /\ \A i \in 1 .. Len(all) : (all \o x)[i] = all[i]
         /\ \A i \in 1 .. Len(x) : (all \o x)[Len(all) + i] = x[i]
<1> DEFINE y == all \o x
<1>1. Len(all) \in Nat /\ Len(x) \in Nat
  BY LenProperties
<1>2. /\ y \in Seq(S) /\ Len(y) = Len(all) + Len(x)
      /\ \A i \in 1 .. Len(all) + Len(x) :
           y[i] = IF i <= Len(all) THEN all[i] ELSE x[i - Len(all)]
  BY ConcatProperties, Zenon
<1> HIDE DEF y
<1>3. \A i \in 1 .. Len(all) : y[i] = all[i]
  BY <1>1, <1>2
<1>4. ASSUME NEW i \in 1 .. Len(x) PROVE y[Len(all) + i] = x[i]
  <2>1. /\ Len(all) + i \in 1 .. Len(all) + Len(x) /\ ~(Len(all) + i <= Len(all))
        /\ (Len(all) + i) - Len(all) = i
    BY <1>1
  <2> QED BY <1>2, <2>1
<1> QED OBVIOUS

\* What a write adds to a suffix, and what it leaves alone.
LEMMA GrowSuffix ==
  ASSUME NEW S, NEW all \in Seq(S), NEW x \in Seq(S),
         NEW m \in 0 .. Len(all), NEW n \in m .. Len(all)
  PROVE  /\ SubSeq(all \o x, m + 1, n) = SubSeq(all, m + 1, n)
         /\ From(all \o x, m) = From(all, m) \o x
<1> DEFINE y == all \o x
<1>0. Len(all) \in Nat /\ Len(x) \in Nat
  BY LenProperties
<1>1. /\ y \in Seq(S) /\ Len(y) = Len(all) + Len(x)
      /\ \A i \in 1 .. Len(all) + Len(x) :
           y[i] = IF i <= Len(all) THEN all[i] ELSE x[i - Len(all)]
  BY ConcatProperties, Zenon
<1> HIDE DEF y
<1>2. SubSeq(y, m + 1, n) = SubSeq(all, m + 1, n)
  <2>1. /\ SubSeq(y, m + 1, n) \in Seq(S) /\ Len(SubSeq(y, m + 1, n)) = n - m
        /\ \A i \in 1 .. n - m : SubSeq(y, m + 1, n)[i] = y[m + i]
    <3>1. m \in 0 .. Len(y) /\ n \in m .. Len(y)
      BY <1>0, <1>1
    <3>2. y \in Seq(S)
      BY <1>1
    <3> QED BY <3>1, <3>2, Slice
  <2>2. /\ SubSeq(all, m + 1, n) \in Seq(S) /\ Len(SubSeq(all, m + 1, n)) = n - m
        /\ \A i \in 1 .. n - m : SubSeq(all, m + 1, n)[i] = all[m + i]
    BY <1>0, Slice
  <2>3. ASSUME NEW i \in 1 .. n - m PROVE SubSeq(y, m + 1, n)[i] = SubSeq(all, m + 1, n)[i]
    <3>1. m + i \in 1 .. Len(all) + Len(x) /\ m + i <= Len(all)
      BY <1>0
    <3>2. y[m + i] = all[m + i]
      BY <1>1, <3>1, Zenon
    <3> QED BY <2>1, <2>2, <3>2, Zenon
  <2> QED BY <2>1, <2>2, <2>3, SeqEqual, Zenon
<1>3. From(y, m) = From(all, m) \o x
  <2> DEFINE w == From(all, m)
  <2>1. /\ From(y, m) \in Seq(S) /\ Len(From(y, m)) = Len(y) - m
        /\ \A i \in 1 .. Len(y) - m : From(y, m)[i] = y[m + i]
    BY <1>1 DEF From
  <2>2. /\ w \in Seq(S) /\ Len(w) = Len(all) - m
        /\ \A i \in 1 .. Len(all) - m : w[i] = all[m + i]
    BY <1>0, Slice DEF From
  <2> DEFINE z == w \o x
  <2> HIDE DEF w
  <2>3. /\ z \in Seq(S) /\ Len(z) = Len(w) + Len(x)
        /\ \A i \in 1 .. Len(w) + Len(x) : z[i] = IF i <= Len(w) THEN w[i] ELSE x[i - Len(w)]
    BY <2>2, ConcatProperties, Zenon
  <2> HIDE DEF z
  <2>4. ASSUME NEW i \in 1 .. Len(From(y, m)) PROVE From(y, m)[i] = z[i]
    <3>1. From(y, m)[i] = IF m + i <= Len(all) THEN all[m + i] ELSE x[m + i - Len(all)]
      BY <1>0, <1>1, <2>1
    <3>2. z[i] = IF i <= Len(all) - m THEN all[m + i] ELSE x[i - (Len(all) - m)]
      BY <1>1, <2>1, <2>2, <2>3
    <3>3. m + i - Len(all) = i - (Len(all) - m) /\ (m + i <= Len(all) <=> i <= Len(all) - m)
      BY <1>0, <1>1, <2>1
    <3> QED BY <3>1, <3>2, <3>3
  <2>5. Len(From(y, m)) = Len(z)
    BY <2>1, <2>2, <2>3, <1>1
  <2>6. From(y, m) = z
    BY <2>1, <2>3, <2>4, <2>5
  <2> QED BY <2>6 DEF w, z
<1> QED BY <1>2, <1>3 DEF y

-----------------------------------------------------------------------------
\* Types, and that no payload was written whose length the two bytes cannot hold.
FrameTypes ==
  /\ wire \in Seq(Byte) /\ got \in Seq(Byte) /\ want \in Nat
  /\ link \in {"open", "closed", "reset"} /\ reader \in {"length", "body", "failed"}
  /\ sent \in Seq(Payloads) /\ delivered \in Seq(Seq(Byte))
  /\ \A i \in 1 .. Len(sent) : Len(sent[i]) <= MaxPayload

\* The frame of the i-th payload of ss starts behind the first at[i] bytes.
Layout(all, at, ss) ==
  /\ at[1] = 0
  /\ \A i \in 1 .. Len(ss) :
       /\ at[i + 1] = at[i] + 2 + Len(ss[i]) /\ at[i + 1] <= Len(all)
       /\ \A j \in 1 .. 2 + Len(ss[i]) : all[at[i] + j] = Frame(ss[i])[j]

\* `all`, the bytes written since the connection was opened, are the frames of
\* `sent` and after them, once the writer has died, the start of another.
Written(all, at) ==
  /\ Layout(all, at, sent)
  /\ link = "open" => Len(all) = at[Len(sent) + 1]
  /\ link # "open" => \E p \in Payloads :
       /\ Len(p) <= MaxPayload
       /\ Len(all) < at[Len(sent) + 1] + 2 + Len(p)
       /\ \A j \in 1 .. Len(all) - at[Len(sent) + 1] : all[at[Len(sent) + 1] + j] = Frame(p)[j]

\* The reader has taken the first b of these bytes as whole frames, and perhaps
\* the length and `got` of the next.
Reading(all, b) ==
  \/ reader = "length" /\ wire = From(all, b)
  \/ /\ reader = "body" /\ Len(got) < want /\ b + 2 + Len(got) <= Len(all)
     /\ want = all[b + 1] + Base * all[b + 2]
     /\ got = SubSeq(all, (b + 2) + 1, b + 2 + Len(got))
     /\ wire = From(all, b + 2 + Len(got))

\* Every payload that was returned is the one that was written.
Same == Len(delivered) <= Len(sent) /\ \A i \in 1 .. Len(delivered) : delivered[i] = sent[i]

Streaming ==
  /\ link # "reset" /\ Same
  /\ \E all \in Seq(Byte), at \in [1 .. Len(sent) + 1 -> Nat] : \E b \in 0 .. Len(all) :
       Written(all, at) /\ b = at[Len(delivered) + 1] /\ Reading(all, b)

\* Payload i is the one that was written, or any that its writer did not finish.
MayBe(i, p) == p \in Payloads /\ (i <= Len(sent) => p = sent[i])

\* The last payload that was returned is the start of another.
CutShort ==
  /\ Len(delivered) > 0 /\ Len(delivered) <= Len(sent) + 1
  /\ \A i \in 1 .. Len(delivered) - 1 : delivered[i] = sent[i]
  /\ Len(delivered) <= Len(sent) => link = "reset"
  /\ \E p \in Payloads :
       MayBe(Len(delivered), p) /\ Truncated(delivered[Len(delivered)], p)

Ended ==
  /\ link # "open" /\ wire = <<>>
  /\ \/ reader \in {"length", "failed"} /\ (Same \/ CutShort)
     \/ /\ reader = "body" /\ link = "reset" /\ Same
        /\ \E p \in Payloads : MayBe(Len(delivered) + 1, p) /\ IsStrictPrefix(got, p)

FInv == FrameTypes /\ (Streaming \/ Ended)

-----------------------------------------------------------------------------
\* p is the payload whose frame starts at b, after k others, and whose length
\* has been written: payload k + 1, or the one that was not finished.
FrameAt(all, at, k, b, p) ==
  /\ all[b + 1] + Base * all[b + 2] = Len(p)
  /\ \A j \in 1 .. Len(p) : (b + 2) + j <= Len(all) => all[(b + 2) + j] = p[j]
  /\ k < Len(sent) =>
       p = sent[k + 1] /\ at[k + 2] = b + 2 + Len(p) /\ at[k + 2] <= Len(all)
  /\ k = Len(sent) => link # "open" /\ Len(all) < b + 2 + Len(p)

\* Byte j of a payload is byte 2 + j of its frame.
LEMMA Offset ==
  ASSUME NEW b \in Nat, NEW j \in Nat, j > 0, NEW l \in Nat, (b + 2) + j <= l
  PROVE  2 + j \in 1 .. l - b /\ b + (2 + j) = (b + 2) + j
OBVIOUS

\* There is such a payload.
LEMMA CurrentFrame ==
  ASSUME FrameTypes,
         NEW all \in Seq(Byte), NEW at \in [1 .. Len(sent) + 1 -> Nat], Written(all, at),
         NEW k \in 0 .. Len(sent), NEW b, b = at[k + 1], b + 2 <= Len(all)
  PROVE  \E p \in Payloads : FrameAt(all, at, k, b, p)
<1>0. Len(sent) \in Nat /\ Len(all) \in Nat /\ b \in Nat /\ b = at[k + 1]
  <2>1. Len(sent) \in Nat /\ Len(all) \in Nat
    BY LenProperties DEF FrameTypes
  <2>2. k + 1 \in 1 .. Len(sent) + 1
    BY <2>1
  <2> QED BY <2>1, <2>2
<1>1. CASE k < Len(sent)
  <2> DEFINE p == sent[k + 1]
  <2>1. k + 1 \in 1 .. Len(sent) /\ (k + 1) - 1 = k
    BY <1>0, <1>1
  <2>2. p \in Payloads /\ Len(p) <= MaxPayload
    BY <2>1, ElementOfSeq DEF FrameTypes
  <2>3. /\ at[k + 2] = b + 2 + Len(p) /\ at[k + 2] <= Len(all)
        /\ \A j \in 1 .. 2 + Len(p) : all[b + j] = Frame(p)[j]
    BY <2>1 DEF Written, Layout
  <2> HIDE DEF p
  <2>4. Frame(p)[1] + Base * Frame(p)[2] = Len(p)
    BY <2>2, FrameShape
  <2>7. Len(p) \in Nat /\ \A j \in 1 .. Len(p) : Frame(p)[2 + j] = p[j]
    BY <2>2, FrameShape
  <2>5. all[b + 1] + Base * all[b + 2] = Len(p)
    <3>1. 1 \in 1 .. 2 + Len(p) /\ 2 \in 1 .. 2 + Len(p)
      BY <2>7
    <3> QED BY <3>1, <2>3, <2>4
  <2>6. ASSUME NEW j \in 1 .. Len(p) PROVE all[(b + 2) + j] = p[j]
    <3>1. 2 + j \in 1 .. 2 + Len(p) /\ b + (2 + j) = (b + 2) + j
      BY <2>7, <1>0
    <3> QED BY <3>1, <2>3, <2>7
  <2>8. k # Len(sent) /\ p = sent[k + 1]
    BY <1>0, <1>1 DEF p
  <2> p \in Payloads
    BY <2>2
  <2> WITNESS p \in Payloads
  <2> QED BY <2>3, <2>5, <2>6, <2>8 DEF FrameAt
<1>2. CASE k = Len(sent)
  <2>1. link # "open"
    BY <1>0, <1>2 DEF Written
  <2>2. PICK p \in Payloads :
          /\ Len(p) <= MaxPayload /\ Len(all) < b + 2 + Len(p)
          /\ \A j \in 1 .. Len(all) - b : all[b + j] = Frame(p)[j]
    BY <1>2, <2>1 DEF Written
  <2>4. Frame(p)[1] + Base * Frame(p)[2] = Len(p)
    BY <2>2, FrameShape
  <2>7. Len(p) \in Nat /\ \A j \in 1 .. Len(p) : Frame(p)[2 + j] = p[j]
    BY <2>2, FrameShape
  <2>5. all[b + 1] + Base * all[b + 2] = Len(p)
    <3>1. 1 \in 1 .. Len(all) - b /\ 2 \in 1 .. Len(all) - b
      BY <1>0
    <3> QED BY <3>1, <2>2, <2>4
  <2>6. ASSUME NEW j \in 1 .. Len(p), (b + 2) + j <= Len(all) PROVE all[(b + 2) + j] = p[j]
    <3>0. j \in Nat /\ j > 0
      BY <2>7
    <3>1. 2 + j \in 1 .. Len(all) - b /\ b + (2 + j) = (b + 2) + j
      BY <2>6, Offset
    <3> QED BY <3>1, <2>2, <2>7
  <2>8. ~(k < Len(sent))
    BY <1>0, <1>2
  <2> WITNESS p \in Payloads
  <2> QED BY <2>1, <2>2, <2>5, <2>6, <2>8, Zenon DEF FrameAt
<1>3. k < Len(sent) \/ k = Len(sent)
  BY <1>0 DEF FrameTypes
<1> QED BY <1>1, <1>2, <1>3, Zenon

\* Bytes that are written behind those there are do not disturb the reader.
LEMMA ReadingGrows ==
  ASSUME FrameTypes, NEW all \in Seq(Byte), NEW x \in Seq(Byte), NEW b \in 0 .. Len(all),
         Reading(all, b), wire' = wire \o x, UNCHANGED <<reader, want, got>>
  PROVE  Reading(all \o x, b)'
<1>0. Len(all) \in Nat /\ Len(x) \in Nat /\ Len(got) \in Nat
  BY LenProperties DEF FrameTypes
<1>1. CASE reader = "length" /\ wire = From(all, b)
  <2>1. b \in b .. Len(all)
    BY <1>0
  <2>2. From(all \o x, b) = From(all, b) \o x
    BY <2>1, GrowSuffix
  <2> QED BY <1>1, <2>2 DEF Reading
<1>2. CASE reader # "length"
  <2> DEFINE m == b + 2
             n == b + 2 + Len(got)
             y == all \o x
  <2>1. /\ reader = "body" /\ Len(got) < want /\ n <= Len(all)
        /\ want = all[b + 1] + Base * all[b + 2]
        /\ got = SubSeq(all, m + 1, n) /\ wire = From(all, n)
    BY <1>2 DEF Reading
  <2>2. m \in 0 .. Len(all) /\ n \in m .. Len(all) /\ n \in 0 .. Len(all)
    BY <1>0, <2>1
  <2>7. Len(y) = Len(all) + Len(x) /\ \A i \in 1 .. Len(all) : y[i] = all[i]
    BY Extended
  <2>3. SubSeq(y, m + 1, n) = SubSeq(all, m + 1, n)
    <3> HIDE DEF m, n
    <3> QED BY <2>2, GrowSuffix
  <2>4. From(y, n) = From(all, n) \o x
    <3> HIDE DEF m, n
    <3>1. n \in n .. Len(all)
      BY <2>2
    <3> QED BY <2>2, <3>1, GrowSuffix
  <2> HIDE DEF y
  <2>5. y[b + 1] = all[b + 1] /\ y[b + 2] = all[b + 2] /\ n <= Len(y)
    BY <2>2, <2>7, <1>0
  <2>6. Reading(y, b)'
    BY <2>1, <2>3, <2>4, <2>5 DEF Reading
  <2> QED BY <2>6 DEF y
<1> QED BY <1>1, <1>2 DEF Reading

\* The payload of which `got` is the start: one that was written, the rest of
\* which is still to come, or one its writer did not finish.
LEMMA PartRead ==
  ASSUME FrameTypes, Same,
         NEW all \in Seq(Byte), NEW at \in [1 .. Len(sent) + 1 -> Nat], Written(all, at),
         NEW b \in 0 .. Len(all), b = at[Len(delivered) + 1], Reading(all, b), reader = "body"
  PROVE  /\ \E p \in Payloads : MayBe(Len(delivered) + 1, p) /\ IsStrictPrefix(got, p)
         /\ Len(delivered) < Len(sent) => wire # <<>>
         /\ Len(delivered) = Len(sent) => link # "open"
<1> DEFINE k == Len(delivered)
           g == Len(got)
<1>0. /\ Len(sent) \in Nat /\ Len(all) \in Nat /\ g \in Nat
      /\ k \in 0 .. Len(sent) /\ b \in Nat
  BY LenProperties DEF FrameTypes, Same
<1>1. g < want /\ b + 2 + g <= Len(all)
  BY DEF Reading
<1>11. want = all[b + 1] + Base * all[b + 2]
  BY DEF Reading
<1>12. got = SubSeq(all, (b + 2) + 1, b + 2 + g) /\ wire = From(all, b + 2 + g)
  BY DEF Reading
<1>2. b + 2 <= Len(all) /\ b + 2 \in 0 .. Len(all) /\ b + 2 + g \in b + 2 .. Len(all)
  BY <1>0, <1>1
<1>14. PICK p \in Payloads : FrameAt(all, at, k, b, p)
  BY <1>0, <1>2, CurrentFrame
<1>4. want = Len(p)
  BY <1>11, <1>14 DEF FrameAt
<1>3. /\ \A j \in 1 .. Len(p) : (b + 2) + j <= Len(all) => all[(b + 2) + j] = p[j]
      /\ k < Len(sent) => p = sent[k + 1]
      /\ k = Len(sent) => link # "open"
  BY <1>14 DEF FrameAt
<1>13. k < Len(sent) => at[k + 2] = b + 2 + Len(p) /\ at[k + 2] <= Len(all)
  BY <1>14 DEF FrameAt
<1>5. p \in Seq(Byte) /\ Len(p) \in Nat /\ got \in Seq(Byte)
  BY FrameShape DEF Byte, FrameTypes
<1>6. MayBe(k + 1, p)
  BY <1>0, <1>3 DEF MayBe
<1>7. \A j \in 1 .. g : got[j] = p[j]
  <2> DEFINE m == b + 2
  <2>1. \A j \in 1 .. (b + 2 + g) - m : SubSeq(all, m + 1, b + 2 + g)[j] = all[m + j]
    <3> DEFINE e == b + 2 + g
    <3>1. m \in 0 .. Len(all) /\ e \in m .. Len(all)
      BY <1>2
    <3> HIDE DEF m, e
    <3>2. \A j \in 1 .. e - m : SubSeq(all, m + 1, e)[j] = all[m + j]
      BY <3>1, Slice
    <3> QED BY <3>2 DEF e
  <2>2. ASSUME NEW j \in 1 .. g PROVE got[j] = p[j]
    <3>0. g < Len(p) /\ Len(p) \in Nat
      BY <1>1, <1>4, <1>5, Zenon
    <3>1. j \in 1 .. (b + 2 + g) - m /\ j \in 1 .. Len(p) /\ m + j <= Len(all)
      <4>1. j \in Nat /\ 1 <= j /\ j <= g
        BY <1>0
      <4>2. (b + 2 + g) - m = g /\ m + j <= b + 2 + g
        <5> HIDE DEF g
        <5> QED BY <1>0, <4>1
      <4>3. j \in 1 .. (b + 2 + g) - m
        BY <4>2, Zenon
      <4>4. j \in 1 .. Len(p)
        BY <1>0, <3>0, <4>1
      <4>5. m + j <= Len(all)
        BY <1>0, <1>1, <4>1
      <4> QED BY <4>3, <4>4, <4>5
    <3>2. got[j] = all[m + j]
      BY <1>12, <2>1, <3>1
    <3> QED BY <1>3, <3>1, <3>2
  <2> QED BY <2>2
<1>8. IsStrictPrefix(got, p)
  <2>1. g < Len(p)
    BY <1>1, <1>4
  <2>2. SubSeq(got, 1, g) = SubSeq(p, 1, g)
    <3>1. /\ SubSeq(got, 0 + 1, g) \in Seq(Byte) /\ Len(SubSeq(got, 0 + 1, g)) = g - 0
          /\ \A i \in 1 .. g - 0 : SubSeq(got, 0 + 1, g)[i] = got[0 + i]
      BY <1>0, <1>5, Slice
    <3>2. /\ SubSeq(p, 0 + 1, g) \in Seq(Byte) /\ Len(SubSeq(p, 0 + 1, g)) = g - 0
          /\ \A i \in 1 .. g - 0 : SubSeq(p, 0 + 1, g)[i] = p[0 + i]
      <4>1. 0 \in 0 .. Len(p) /\ g \in 0 .. Len(p)
        BY <1>0, <1>5, <2>1
      <4> QED BY <4>1, <1>5, Slice
    <3>3. /\ Len(SubSeq(got, 0 + 1, g)) = Len(SubSeq(p, 0 + 1, g))
          /\ \A i \in 1 .. Len(SubSeq(got, 0 + 1, g)) :
               SubSeq(got, 0 + 1, g)[i] = SubSeq(p, 0 + 1, g)[i]
      BY <1>7
    <3>4. SubSeq(got, 0 + 1, g) = SubSeq(p, 0 + 1, g)
      BY <3>3
    <3> QED BY <3>4
  <2>3. got # p /\ g <= Len(p)
    BY <1>0, <1>5, <2>1
  <2> QED BY <2>2, <2>3 DEF IsStrictPrefix, IsPrefix
<1>9. ASSUME k < Len(sent) PROVE wire # <<>>
  <2> DEFINE n == b + 2 + g
  <2>4. g < Len(p) /\ Len(p) \in Nat /\ b + 2 + Len(p) <= Len(all)
    <3>1. g < Len(p) /\ Len(p) \in Nat
      BY <1>1, <1>4, <1>5, Zenon
    <3> QED BY <1>9, <1>13, <3>1
  <2>5. n \in Nat /\ n < Len(all) /\ Len(all) \in Nat
    BY <1>0, <2>4
  <2>1. n < Len(all) /\ n \in 0 .. Len(all) /\ 0 \in 0 .. Len(all) - n
    <3> HIDE DEF n
    <3> QED BY <2>5
  <2> HIDE DEF n
  <2>2. Len(From(all, n)) = Len(all) - n
    BY <2>1, SplitSuffix
  <2>3. Len(all) - n # 0
    BY <2>5
  <2>6. Len(wire) = Len(all) - n
    BY <1>12, <2>2 DEF n
  <2>7. Len(<<>>) = 0
    OBVIOUS
  <2> QED BY <2>3, <2>6, <2>7, Zenon
<1>10. ASSUME k = Len(sent) PROVE link # "open"
  BY <1>3, <1>10
<1> QED BY <1>6, <1>8, <1>9, <1>10

-----------------------------------------------------------------------------
\* Nothing is written and nothing read.
LEMMA FrameInit ==
  ASSUME Init
  PROVE  FInv
<1> DEFINE at == [i \in 1 .. Len(sent) + 1 |-> 0]
<1>1. /\ wire = <<>> /\ link = "open" /\ sent = <<>> /\ delivered = <<>> /\ reader = "length"
      /\ Len(sent) = 0 /\ Len(delivered) = 0
  BY DEF Init
<1>2. FrameTypes /\ Same
  BY DEF Init, FrameTypes, Same
<1>3. /\ at \in [1 .. Len(sent) + 1 -> Nat]
      /\ at[1] = 0 /\ at[Len(sent) + 1] = 0 /\ at[Len(delivered) + 1] = 0
  BY <1>1
<1> HIDE DEF at
<1>4. Written(<<>>, at)
  BY <1>1, <1>3 DEF Written, Layout
<1>5. Reading(<<>>, 0) /\ 0 \in 0 .. Len(<<>>)
  BY <1>1 DEF Reading, From
<1>6. Streaming
  BY <1>1, <1>2, <1>3, <1>4, <1>5, EmptySeq DEF Streaming
<1> QED BY <1>2, <1>6 DEF FInv

\* Frames stay where they are when bytes are added.
LEMMA LayoutGrows ==
  ASSUME NEW ss \in Seq(Payloads), NEW all \in Seq(Byte), NEW at \in [1 .. Len(ss) + 1 -> Nat],
         Layout(all, at, ss), NEW x \in Seq(Byte)
  PROVE  Layout(all \o x, at, ss)
<1> DEFINE y == all \o x
<1>1. Len(y) = Len(all) + Len(x) /\ \A i \in 1 .. Len(all) : y[i] = all[i]
  BY Extended
<1> HIDE DEF y
<1>2. ASSUME NEW i \in 1 .. Len(ss)
      PROVE  /\ at[i + 1] = at[i] + 2 + Len(ss[i]) /\ at[i + 1] <= Len(y)
             /\ \A j \in 1 .. 2 + Len(ss[i]) : y[at[i] + j] = Frame(ss[i])[j]
  <2>1. /\ at[i + 1] = at[i] + 2 + Len(ss[i]) /\ at[i + 1] <= Len(all)
        /\ \A j \in 1 .. 2 + Len(ss[i]) : all[at[i] + j] = Frame(ss[i])[j]
    BY DEF Layout
  <2>2. Len(all) \in Nat /\ Len(x) \in Nat /\ Len(ss) \in Nat
    BY LenProperties
  <2>3. Len(ss[i]) \in Nat
    BY FrameShape, ElementOfSeq
  <2>6. i \in 1 .. Len(ss) + 1 /\ i + 1 \in 1 .. Len(ss) + 1
    BY <2>2
  <2>4. at[i + 1] \in Nat /\ at[i] \in Nat
    BY <2>6
  <2>5. ASSUME NEW j \in 1 .. 2 + Len(ss[i]) PROVE y[at[i] + j] = Frame(ss[i])[j]
    <3> DEFINE u == at[i]
               v == at[i + 1]
               l == Len(ss[i])
    <3>1. u \in Nat /\ v \in Nat /\ l \in Nat /\ v = u + 2 + l /\ v <= Len(all) /\ Len(all) \in Nat
      BY <2>1, <2>2, <2>3, <2>4, Zenon
    <3>2. j \in 1 .. 2 + l
      OBVIOUS
    <3> HIDE DEF u, v, l
    <3>3. u + j \in 1 .. Len(all)
      BY <3>1, <3>2
    <3>4. y[u + j] = all[u + j]
      BY <1>1, <3>3, Zenon
    <3> QED BY <2>1, <3>4, Zenon DEF u
  <2>7. at[i + 1] <= Len(y)
    <3>1. at[i + 1] <= Len(all) /\ at[i + 1] \in Nat /\ Len(all) \in Nat /\ Len(x) \in Nat
          /\ Len(y) = Len(all) + Len(x)
      BY <1>1, <2>1, <2>2, <2>4, Zenon
    <3> QED BY <3>1
  <2> QED BY <2>1, <2>5, <2>7, Zenon
<1>3. at[1] = 0
  BY DEF Layout
<1> QED BY <1>2 DEF Layout, y

\* A whole frame is added.
LEMMA LayoutAppends ==
  ASSUME NEW ss \in Seq(Payloads), NEW all \in Seq(Byte), NEW at \in [1 .. Len(ss) + 1 -> Nat],
         Layout(all, at, ss), at[Len(ss) + 1] = Len(all), NEW p \in Payloads
  PROVE  \E at2 \in [1 .. Len(ss) + 2 -> Nat] :
           /\ Layout(all \o Frame(p), at2, Append(ss, p))
           /\ at2[Len(ss) + 2] = Len(all \o Frame(p))
           /\ \A i \in 1 .. Len(ss) + 1 : at2[i] = at[i]
<1> DEFINE F == Frame(p)
           n == Len(ss)
           y == all \o F
           ss2 == Append(ss, p)
           at2 == [i \in 1 .. n + 2 |-> IF i <= n + 1 THEN at[i] ELSE Len(all) + 2 + Len(p)]
<1>1. F \in Seq(Byte) /\ Len(F) = 2 + Len(p) /\ Len(p) \in Nat
  BY FrameShape DEF Byte
<1>2. n \in Nat /\ Len(all) \in Nat
  BY LenProperties
<1>3. /\ at2 \in [1 .. n + 2 -> Nat] /\ \A i \in 1 .. n + 1 : at2[i] = at[i]
      /\ at2[n + 2] = Len(all) + 2 + Len(p)
  BY <1>1, <1>2
<1>4. Len(ss2) = n + 1 /\ (\A i \in 1 .. n : ss2[i] = ss[i]) /\ ss2[n + 1] = p
  BY AppendProperties
<1>5. Len(y) = Len(all) + Len(F) /\ \A i \in 1 .. Len(F) : y[Len(all) + i] = F[i]
  <2>1. F \in Seq(Byte)
    BY <1>1
  <2>2. \A x \in Seq(Byte) : /\ Len(all \o x) = Len(all) + Len(x)
                             /\ \A i \in 1 .. Len(x) : (all \o x)[Len(all) + i] = x[i]
    BY Extended
  <2> HIDE DEF F
  <2> QED BY <2>1, <2>2, Zenon
<1>6. Layout(y, at, ss)
  <2> HIDE DEF F
  <2> QED BY <1>1, LayoutGrows
<1>7. ASSUME NEW i \in 1 .. Len(ss2)
      PROVE  /\ at2[i + 1] = at2[i] + 2 + Len(ss2[i]) /\ at2[i + 1] <= Len(y)
             /\ \A j \in 1 .. 2 + Len(ss2[i]) : y[at2[i] + j] = Frame(ss2[i])[j]
  <2> HIDE DEF y, at2, ss2
  <2>1. CASE i <= n
    <3>1. i \in 1 .. n /\ i \in 1 .. n + 1 /\ i + 1 \in 1 .. n + 1
      BY <1>2, <1>4, <2>1
    <3>2. at2[i + 1] = at[i + 1] /\ at2[i] = at[i] /\ ss2[i] = ss[i]
      BY <1>3, <1>4, <3>1
    <3>3. /\ at[i + 1] = at[i] + 2 + Len(ss[i]) /\ at[i + 1] <= Len(y)
          /\ \A j \in 1 .. 2 + Len(ss[i]) : y[at[i] + j] = Frame(ss[i])[j]
      BY <1>6, <3>1 DEF Layout
    <3> QED BY <3>2, <3>3, Zenon
  <2>2. CASE i = n + 1
    <3>1. n + 1 \in 1 .. n + 1 /\ i + 1 = n + 2
      BY <1>2, <2>2
    <3>2. at2[i + 1] = Len(all) + 2 + Len(p) /\ at2[i] = Len(all) /\ ss2[i] = p
      BY <1>3, <1>4, <2>2, <3>1
    <3>3. Len(y) = Len(all) + 2 + Len(p)
      BY <1>1, <1>2, <1>5
    <3>4. \A j \in 1 .. 2 + Len(p) : y[Len(all) + j] = F[j]
      <4> HIDE DEF F
      <4> QED BY <1>1, <1>5
    <3>5. at2[i + 1] = at2[i] + 2 + Len(ss2[i]) /\ at2[i + 1] <= Len(y)
      BY <3>2, <3>3
    <3>6. \A j \in 1 .. 2 + Len(ss2[i]) : y[at2[i] + j] = Frame(ss2[i])[j]
      BY <3>2, <3>4
    <3> QED BY <3>5, <3>6
  <2>3. i <= n \/ i = n + 1
    <3>1. i \in 1 .. n + 1
      BY <1>4
    <3> QED BY <1>2, <3>1
  <2> QED BY <2>1, <2>2, <2>3, Zenon
<1>8. at2[1] = 0 /\ at2[n + 2] = Len(y)
  <2> HIDE DEF y, at2, F
  <2>1. 1 \in 1 .. n + 1
    BY <1>2
  <2> QED BY <1>1, <1>3, <1>5 DEF Layout
<1>9. Layout(y, at2, ss2)
  <2> HIDE DEF y, at2, ss2
  <2> QED BY <1>7, <1>8 DEF Layout
<1> HIDE DEF at2, y, ss2
<1>10. \E a \in [1 .. n + 2 -> Nat] :
         Layout(y, a, ss2) /\ a[n + 2] = Len(y) /\ \A i \in 1 .. n + 1 : a[i] = at[i]
  BY <1>3, <1>8, <1>9
<1> QED BY <1>10 DEF y, ss2

-----------------------------------------------------------------------------
\* write_u16_payload.
LEMMA WriteKeeps ==
  ASSUME FInv, NEW p \in Payloads, Write(p)
  PROVE  FInv'
<1> DEFINE F == Frame(p)
<1>1. /\ link = "open" /\ Len(p) <= MaxPayload /\ wire' = wire \o F
      /\ sent' = Append(sent, p) /\ UNCHANGED <<link, reader, want, got, delivered>>
  BY DEF Write
<1>2. F \in Seq(Byte)
  BY FrameShape DEF Byte
<1> HIDE DEF F
<1>3. FrameTypes /\ Same
  BY <1>1 DEF FInv, Ended, Streaming
<1>4. Len(sent) \in Nat /\ Len(delivered) \in 0 .. Len(sent)
  BY <1>3 DEF Same
<1>5. /\ sent' \in Seq(Payloads) /\ Len(sent') = Len(sent) + 1
      /\ \A i \in 1 .. Len(sent) : sent'[i] = sent[i]
      /\ sent'[Len(sent) + 1] = p
  BY <1>1, <1>3 DEF FrameTypes
<1>6. FrameTypes'
  <2>1. wire' \in Seq(Byte)
    BY <1>1, <1>2, <1>3 DEF FrameTypes
  <2>2. \A i \in 1 .. Len(sent') : Len(sent'[i]) <= MaxPayload
    BY <1>1, <1>3, <1>5 DEF FrameTypes
  <2> QED BY <1>1, <1>3, <1>5, <2>1, <2>2 DEF FrameTypes
<1>7. Same'
  BY <1>1, <1>3 DEF Same
<1>8. PICK all \in Seq(Byte), at \in [1 .. Len(sent) + 1 -> Nat] :
        \E b \in 0 .. Len(all) : Written(all, at) /\ b = at[Len(delivered) + 1] /\ Reading(all, b)
  BY <1>1 DEF FInv, Ended, Streaming
<1>15. PICK b \in 0 .. Len(all) : Written(all, at) /\ b = at[Len(delivered) + 1] /\ Reading(all, b)
  BY <1>8
<1>9. at[Len(sent) + 1] = Len(all) /\ Layout(all, at, sent)
  BY <1>1, <1>15 DEF Written
<1>10. PICK at2 \in [1 .. Len(sent) + 2 -> Nat] :
          /\ Layout(all \o F, at2, sent') /\ at2[Len(sent) + 2] = Len(all \o F)
          /\ \A i \in 1 .. Len(sent) + 1 : at2[i] = at[i]
  <2>1. sent \in Seq(Payloads) /\ sent' = Append(sent, p)
    BY <1>1, <1>3 DEF FrameTypes
  <2> QED BY <1>9, <2>1, LayoutAppends, Zenon DEF F
<1>11. Written(all \o F, at2)'
  BY <1>1, <1>10 DEF Written
<1>12. Reading(all \o F, b)' /\ b = at2[Len(delivered') + 1]
  <2>1. Reading(all \o F, b)'
    BY <1>1, <1>2, <1>3, <1>15, ReadingGrows
  <2>2. b = at2[Len(delivered') + 1]
    BY <1>1, <1>4, <1>10, <1>15
  <2> QED BY <2>1, <2>2
<1>13. all \o F \in Seq(Byte)
  BY <1>2, Extended
<1>14. Streaming'
  <2> DEFINE y == all \o F
  <2>1. /\ y \in Seq(Byte) /\ Written(y, at2)'
        /\ b \in 0 .. Len(y) /\ b = at2[Len(delivered') + 1] /\ Reading(y, b)'
    <3>1. b \in 0 .. Len(y)
      BY <1>2, Extended, LenProperties
    <3> QED BY <1>11, <1>12, <1>13
  <2> HIDE DEF y
  <2>2. at2 \in [1 .. Len(sent') + 1 -> Nat]
    BY <1>5
  <2> QED BY <1>1, <1>7, <2>1, <2>2 DEF Streaming
<1> QED BY <1>6, <1>14 DEF FInv

\* The writer ends inside a frame.
LEMMA DieKeeps ==
  ASSUME FInv, NEW p \in Payloads, Die(p)
  PROVE  FInv'
<1>1. PICK n \in 0 .. Len(Frame(p)) - 1 : wire' = wire \o SubSeq(Frame(p), 1, n)
  BY DEF Die
<1> DEFINE x == SubSeq(Frame(p), 1, n)
<1>2. /\ link = "open" /\ link' = "closed" /\ Len(p) <= MaxPayload /\ wire' = wire \o x
      /\ UNCHANGED <<sent, reader, want, got, delivered>>
  BY <1>1 DEF Die
<1>3. /\ x \in Seq(Byte) /\ Len(x) = n /\ n \in Nat /\ n < 2 + Len(p)
      /\ \A j \in 1 .. n : x[j] = Frame(p)[j]
  <2> DEFINE F == Frame(p)
  <2>1. F \in Seq(Byte) /\ Len(F) = 2 + Len(p) /\ Len(p) \in Nat
    BY FrameShape DEF Byte
  <2>2. n \in Nat /\ n < 2 + Len(p) /\ 0 \in 0 .. Len(F) /\ n \in 0 .. Len(F)
    BY <2>1
  <2> HIDE DEF F
  <2>3. /\ SubSeq(F, 0 + 1, n) \in Seq(Byte) /\ Len(SubSeq(F, 0 + 1, n)) = n - 0
        /\ \A i \in 1 .. n - 0 : SubSeq(F, 0 + 1, n)[i] = F[0 + i]
    BY <2>1, <2>2, Slice
  <2> QED BY <2>2, <2>3 DEF F
<1> HIDE DEF x
<1>4. FrameTypes /\ Same
  BY <1>2 DEF FInv, Ended, Streaming
<1>5. Len(sent) \in Nat /\ Len(delivered) \in 0 .. Len(sent)
  BY <1>4 DEF Same
<1>6. FrameTypes' /\ Same'
  <2>1. wire' \in Seq(Byte)
    BY <1>2, <1>3, <1>4 DEF FrameTypes
  <2> QED BY <1>2, <1>4, <2>1 DEF FrameTypes, Same
<1>7. PICK all \in Seq(Byte), at \in [1 .. Len(sent) + 1 -> Nat] :
        \E b \in 0 .. Len(all) : Written(all, at) /\ b = at[Len(delivered) + 1] /\ Reading(all, b)
  BY <1>2 DEF FInv, Ended, Streaming
<1>13. PICK b \in 0 .. Len(all) : Written(all, at) /\ b = at[Len(delivered) + 1] /\ Reading(all, b)
  BY <1>7
<1> DEFINE y == all \o x
<1>8. /\ y \in Seq(Byte) /\ Len(y) = Len(all) + n /\ Len(all) \in Nat
      /\ \A j \in 1 .. n : y[Len(all) + j] = x[j]
  <2>1. /\ y \in Seq(Byte) /\ Len(y) = Len(all) + Len(x)
        /\ \A j \in 1 .. Len(x) : y[Len(all) + j] = x[j]
    <3>1. x \in Seq(Byte)
      BY <1>3
    <3>2. \A z \in Seq(Byte) : /\ all \o z \in Seq(Byte) /\ Len(all \o z) = Len(all) + Len(z)
                               /\ \A j \in 1 .. Len(z) : (all \o z)[Len(all) + j] = z[j]
      BY Extended
    <3> QED BY <3>1, <3>2, Zenon
  <2> QED BY <1>3, <2>1, LenProperties
<1>9. at[Len(sent) + 1] = Len(all) /\ Layout(all, at, sent) /\ Layout(y, at, sent)
  BY <1>2, <1>3, <1>4, <1>13, LayoutGrows DEF Written, FrameTypes
<1>10. Reading(y, b)'
  BY <1>2, <1>3, <1>4, <1>13, ReadingGrows
<1> HIDE DEF y
<1>11. Written(y, at)'
  <2>1. \A j \in 1 .. Len(y) - at[Len(sent) + 1] : y[at[Len(sent) + 1] + j] = Frame(p)[j]
    <3>1. (Len(all) + n) - Len(all) = n
      BY <1>3, <1>8
    <3>2. Len(y) - at[Len(sent) + 1] = n
      BY <1>8, <1>9, <3>1, Zenon
    <3> QED BY <1>3, <1>8, <1>9, <3>2, Zenon
  <2>2. Len(y) < at[Len(sent) + 1] + 2 + Len(p)
    <3>1. Len(p) \in Nat
      BY FrameShape
    <3> QED BY <1>3, <1>8, <1>9
  <2> QED BY <1>2, <1>9, <2>1, <2>2 DEF Written
<1>12. Streaming'
  <2>1. b \in 0 .. Len(y) /\ b = at[Len(delivered') + 1] /\ at \in [1 .. Len(sent') + 1 -> Nat]
    <3>1. b \in 0 .. Len(y)
      BY <1>3, <1>8
    <3> QED BY <1>2, <1>13, <3>1, Zenon
  <2> QED BY <1>2, <1>6, <1>8, <1>10, <1>11, <2>1 DEF Streaming
<1> QED BY <1>6, <1>12 DEF FInv

\* The connection is reset, perhaps inside a payload.
LEMMA ResetKeeps ==
  ASSUME FInv, Reset
  PROVE  FInv'
<1>1. /\ link' = "reset" /\ wire' = <<>> /\ UNCHANGED <<sent, reader, want, got, delivered>>
  BY DEF Reset
<1>2. FrameTypes'
  BY <1>1 DEF FInv, FrameTypes
<1>3. CASE Streaming
  <2>1. PICK all \in Seq(Byte), at \in [1 .. Len(sent) + 1 -> Nat] : \E b \in 0 .. Len(all) :
          Written(all, at) /\ b = at[Len(delivered) + 1] /\ Reading(all, b)
    BY <1>3 DEF Streaming
  <2>2. PICK b \in 0 .. Len(all) : Written(all, at) /\ b = at[Len(delivered) + 1] /\ Reading(all, b)
    BY <2>1
  <2>3. Same /\ Same'
    BY <1>1, <1>3 DEF Streaming, Same
  <2>4. CASE reader = "length"
    BY <1>1, <1>2, <2>3, <2>4 DEF FInv, Ended
  <2>5. CASE reader = "body"
    <3>1. PICK p \in Payloads : MayBe(Len(delivered) + 1, p) /\ IsStrictPrefix(got, p)
      BY <2>2, <2>3, <2>5, PartRead DEF FInv
    <3>2. (MayBe(Len(delivered) + 1, p) /\ IsStrictPrefix(got, p))'
      BY <1>1, <3>1 DEF MayBe
    <3> QED BY <1>1, <1>2, <2>3, <2>5, <3>2 DEF FInv, Ended
  <2> QED BY <2>2, <2>4, <2>5 DEF Reading
<1>4. CASE Ended
  BY <1>1, <1>2, <1>4 DEF FInv, Ended, Same, CutShort, MayBe
<1> QED BY <1>3, <1>4 DEF FInv

\* The length of a frame is read.
LEMMA ReadLengthKeeps ==
  ASSUME FInv, ReadLength
  PROVE  FInv'
<1>1. /\ reader = "length" /\ Len(wire) >= 2 /\ wire' = SubSeq(wire, 3, Len(wire))
      /\ got' = <<>> /\ UNCHANGED <<link, sent>>
  BY DEF ReadLength
<1>2. want' = wire[1] + Base * wire[2]
  BY DEF ReadLength
<1>3. IF want' = 0 THEN delivered' = Append(delivered, <<>>) /\ UNCHANGED reader
                   ELSE reader' = "body" /\ UNCHANGED delivered
  BY DEF ReadLength
<1>4. FrameTypes /\ Streaming /\ Same
  <2>1. wire # <<>>
    BY <1>1
  <2>2. ~Ended
    BY <2>1, Zenon DEF Ended
  <2> QED BY <2>2, Zenon DEF FInv, Streaming
<1>5. PICK all \in Seq(Byte), at \in [1 .. Len(sent) + 1 -> Nat] : \E b \in 0 .. Len(all) :
        Written(all, at) /\ b = at[Len(delivered) + 1] /\ Reading(all, b)
  BY <1>4 DEF Streaming
<1>6. PICK b \in 0 .. Len(all) : Written(all, at) /\ b = at[Len(delivered) + 1] /\ Reading(all, b)
  BY <1>5
<1> DEFINE k == Len(delivered)
<1>7. /\ Len(all) \in Nat /\ Len(sent) \in Nat /\ k \in 0 .. Len(sent)
      /\ wire = From(all, b)
  BY <1>1, <1>4, <1>6 DEF Same, Reading
<1>8. /\ Len(wire) = Len(all) - b /\ \A i \in 1 .. Len(all) - b : wire[i] = all[b + i]
  <2>1. 0 \in 0 .. Len(all) - b
    BY <1>7
  <2> QED BY <1>7, <2>1, SplitSuffix
<1>9. b + 2 <= Len(all) /\ wire[1] = all[b + 1] /\ wire[2] = all[b + 2]
  <2> DEFINE l == Len(all)
             w == Len(wire)
  <2>1. l \in Nat /\ b \in 0 .. l /\ w = l - b /\ w >= 2
    BY <1>1, <1>7, <1>8, Zenon
  <2>2. \A i \in 1 .. l - b : wire[i] = all[b + i]
    BY <1>8
  <2> HIDE DEF l, w
  <2>3. b + 2 <= l /\ 1 \in 1 .. l - b /\ 2 \in 1 .. l - b
    BY <2>1
  <2> QED BY <2>2, <2>3 DEF l
<1>10. PICK p \in Payloads : FrameAt(all, at, k, b, p)
  <2>1. k \in 0 .. Len(sent) /\ b = at[k + 1] /\ b + 2 <= Len(all) /\ Written(all, at) /\ FrameTypes
    BY <1>4, <1>6, <1>7, <1>9
  <2> QED BY <2>1, CurrentFrame
<1>11. want' = Len(p) /\ Len(p) \in Nat /\ p \in Seq(Byte)
  <2>1. Len(p) \in Nat /\ p \in Seq(Byte)
    BY FrameShape DEF Byte
  <2> QED BY <1>2, <1>9, <1>10, <2>1 DEF FrameAt
<1>12. /\ k < Len(sent) => p = sent[k + 1] /\ at[k + 2] = b + 2 + Len(p)
       /\ k = Len(sent) => Len(all) < b + 2 + Len(p)
  BY <1>10 DEF FrameAt
<1>13. wire' = From(all, b + 2) /\ wire' \in Seq(Byte)
  <2>1. 2 \in 0 .. Len(all) - b /\ b + 2 \in 0 .. Len(all) /\ 0 \in 0 .. Len(all) - (b + 2)
    BY <1>7, <1>9
  <2>2. From(From(all, b), 2) = From(all, b + 2)
    BY <2>1, SplitSuffix
  <2>3. From(all, b + 2) \in Seq(Byte)
    BY <2>1, SplitSuffix
  <2>4. wire' = From(wire, 2)
    <3>1. 2 + 1 = 3
      OBVIOUS
    <3> QED BY <1>1, <3>1, Zenon DEF From
  <2> QED BY <1>7, <2>2, <2>3, <2>4, Zenon
<1>14. Written(all, at)'
  BY <1>1, <1>6 DEF Written
<1>15. CASE want' = 0
  <2>1. k < Len(sent) /\ p = sent[k + 1] /\ at[k + 2] = b + 2 /\ p = <<>>
    <3>1. Len(p) = 0 /\ b + 2 + Len(p) = b + 2
      BY <1>7, <1>11, <1>15
    <3>2. b + 2 <= Len(all)
      BY <1>9
    <3>3. k # Len(sent)
      BY <1>12, <3>1, <3>2
    <3>4. p = <<>>
      BY <1>11, <3>1, EmptySeq
    <3>5. k < Len(sent)
      BY <1>4, <1>7, <3>3 DEF FrameTypes
    <3> QED BY <1>12, <3>1, <3>4, <3>5
  <2>2. <<>> \in Seq(Byte)
    BY EmptySeq
  <2>3. /\ delivered' \in Seq(Seq(Byte)) /\ Len(delivered') = k + 1
        /\ (\A i \in 1 .. k : delivered'[i] = delivered[i]) /\ delivered'[k + 1] = <<>>
    <3>1. delivered \in Seq(Seq(Byte)) /\ delivered' = Append(delivered, <<>>)
      BY <1>3, <1>4, <1>15 DEF FrameTypes
    <3> QED BY <2>2, <3>1, AppendProperties
  <2>4. reader' = "length"
    BY <1>1, <1>3, <1>15
  <2>5. FrameTypes'
    BY <1>1, <1>4, <1>15, <2>3, <2>4 DEF FrameTypes
  <2>6. Same'
    <3>1. ASSUME NEW i \in 1 .. k + 1 PROVE delivered'[i] = sent'[i]
      <4>1. i \in 1 .. k \/ i = k + 1
        BY <1>7
      <4>2. CASE i \in 1 .. k
        BY <1>1, <1>4, <2>3, <4>2 DEF Same
      <4>3. CASE i = k + 1
        BY <1>1, <2>1, <2>3, <4>3
      <4> QED BY <4>1, <4>2, <4>3
    <3>2. Len(delivered') <= Len(sent')
      BY <1>1, <2>1, <2>3
    <3> QED BY <2>3, <3>1, <3>2 DEF Same
  <2>7. Reading(all, b + 2)'
    BY <1>13, <2>4 DEF Reading
  <2>8. /\ b + 2 \in 0 .. Len(all) /\ b + 2 = at[Len(delivered') + 1]
        /\ at \in [1 .. Len(sent') + 1 -> Nat]
    BY <1>1, <1>9, <2>1, <2>3
  <2>9. Streaming'
    BY <1>1, <1>4, <1>14, <2>6, <2>7, <2>8 DEF Streaming
  <2> QED BY <2>5, <2>9 DEF FInv
<1>16. CASE want' # 0
  <2>1. reader' = "body" /\ UNCHANGED delivered
    BY <1>3, <1>16
  <2>2. FrameTypes'
    BY <1>1, <1>4, <1>11, <2>1 DEF FrameTypes
  <2>3. Same'
    BY <1>1, <1>4, <2>1 DEF Same
  <2>4. Reading(all, b)'
    <3>1. Len(got') = 0 /\ 0 < want' /\ b + 2 + 0 = b + 2
      BY <1>1, <1>11, <1>16
    <3>2. got' = SubSeq(all, (b + 2) + 1, b + 2)
      BY <1>1, <1>7, SubSeqEmpty
    <3>3. want' = all[b + 1] + Base * all[b + 2]
      BY <1>2, <1>9
    <3>4. Len(got') < want' /\ b + 2 + Len(got') <= Len(all) /\ b + 2 + Len(got') = b + 2
      BY <3>1, <1>9
    <3> QED BY <1>13, <2>1, <3>2, <3>3, <3>4, Zenon DEF Reading
  <2>5. b = at[Len(delivered') + 1] /\ at \in [1 .. Len(sent') + 1 -> Nat]
    BY <1>1, <1>6, <2>1
  <2>6. Streaming'
    BY <1>1, <1>4, <1>14, <2>3, <2>4, <2>5 DEF Streaming
  <2> QED BY <2>2, <2>6 DEF FInv
<1> QED BY <1>15, <1>16

\* The end of the file or an error where a length should be.
LEMMA LengthErrorKeeps ==
  ASSUME FInv, LengthError
  PROVE  FInv'
<1>1. /\ reader = "length" /\ link # "open" /\ reader' = "failed" /\ wire' = <<>>
      /\ UNCHANGED <<link, sent, want, got, delivered>>
  BY DEF LengthError
<1>2. FrameTypes'
  BY <1>1 DEF FInv, FrameTypes
<1>3. Same \/ CutShort
  BY DEF FInv, Streaming, Ended
<1>4. Same' \/ CutShort'
  BY <1>1, <1>3 DEF Same, CutShort, MayBe
<1> QED BY <1>1, <1>2, <1>4 DEF FInv, Ended

\* One turn of the loop that reads a payload.
LEMMA ReadBodyKeeps ==
  ASSUME FInv, NEW n \in Nat, n > 0, ReadBody(n)
  PROVE  FInv'
<1> DEFINE k == Len(delivered)
           g == Len(got)
<1>1. /\ reader = "body" /\ n <= Len(wire) /\ n <= want - g
      /\ got' = got \o SubSeq(wire, 1, n) /\ wire' = SubSeq(wire, n + 1, Len(wire))
      /\ UNCHANGED <<link, sent, want>>
  BY DEF ReadBody
<1>2. IF Len(got') >= want
        THEN reader' = "length" /\ delivered' = Append(delivered, got')
        ELSE UNCHANGED <<reader, delivered>>
  BY DEF ReadBody
<1>3. FrameTypes /\ Streaming /\ Same
  <2>1. FrameTypes /\ Len(wire) > 0
    BY <1>1 DEF FInv
  <2>2. ~Ended
    BY <2>1 DEF Ended
  <2> QED BY <2>2 DEF FInv, Streaming
<1>4. PICK all \in Seq(Byte), at \in [1 .. Len(sent) + 1 -> Nat] : \E b \in 0 .. Len(all) :
        Written(all, at) /\ b = at[Len(delivered) + 1] /\ Reading(all, b)
  BY <1>3 DEF Streaming
<1>5. PICK b \in 0 .. Len(all) : Written(all, at) /\ b = at[Len(delivered) + 1] /\ Reading(all, b)
  BY <1>4
<1>6. /\ Len(all) \in Nat /\ Len(sent) \in Nat /\ k \in 0 .. Len(sent) /\ g \in Nat /\ want \in Nat
      /\ got \in Seq(Byte)
  BY <1>3, LenProperties DEF FrameTypes, Same
<1>7. g < want /\ b + 2 + g <= Len(all)
  BY <1>1, <1>5 DEF Reading
<1>8. want = all[b + 1] + Base * all[b + 2]
  BY <1>1, <1>5 DEF Reading
<1>9. got = SubSeq(all, (b + 2) + 1, b + 2 + g) /\ wire = From(all, b + 2 + g)
  BY <1>1, <1>5 DEF Reading
<1> DEFINE m == b + 2
           e == b + 2 + g
<1>10. /\ m \in 0 .. Len(all) /\ e \in m .. Len(all) /\ e \in 0 .. Len(all)
       /\ m \in 1 .. Len(all) /\ m \in Nat /\ e \in Nat
  BY <1>6, <1>7
<1>11. n \in 0 .. Len(all) - e /\ e + n <= Len(all) /\ e + n \in 0 .. Len(all)
  <2> HIDE DEF e
  <2>1. 0 \in 0 .. Len(all) - e
    BY <1>6, <1>10
  <2>2. Len(wire) = Len(all) - e
    <3>1. Len(From(all, e)) = Len(all) - e
      BY <1>10, <2>1, SplitSuffix
    <3> QED BY <1>9, <3>1, Zenon DEF e
  <2> QED BY <1>1, <1>10, <2>2
<1>12. /\ wire' = From(all, e + n) /\ wire' \in Seq(Byte)
       /\ SubSeq(wire, 1, n) = SubSeq(all, e + 1, e + n)
  <2> HIDE DEF e
  <2>1. 0 \in 0 .. Len(all) - (e + n)
    BY <1>6, <1>11
  <2>2. From(all, e + n) \in Seq(Byte)
    BY <1>11, <2>1, SplitSuffix
  <2>3. wire' = From(wire, n)
    BY <1>1 DEF From
  <2>4. /\ From(From(all, e), n) = From(all, e + n)
        /\ SubSeq(From(all, e), 1, n) = SubSeq(all, e + 1, e + n)
    BY <1>10, <1>11, SplitSuffix
  <2> QED BY <1>9, <2>2, <2>3, <2>4 DEF e
<1>13. got' = SubSeq(all, m + 1, e + n)
  <2>1. got' = SubSeq(all, m + 1, e) \o SubSeq(all, e + 1, e + n)
    BY <1>1, <1>9, <1>12
  <2> HIDE DEF m, e
  <2>2. m + 1 \in 1 .. Len(all) + 1 /\ e \in (m + 1) - 1 .. Len(all) /\ e + n \in e .. Len(all)
    BY <1>6, <1>10, <1>11
  <2> QED BY <2>1, <2>2, ConcatAdjacentSubSeq
<1>14. /\ got' \in Seq(Byte) /\ Len(got') = (e + n) - m
       /\ \A j \in 1 .. (e + n) - m : got'[j] = all[m + j]
  <2> HIDE DEF m, e
  <2>1. e + n \in m .. Len(all)
    BY <1>6, <1>10, <1>11
  <2> QED BY <1>10, <1>13, <2>1, Slice
<1>15. Len(got') = g + n /\ e + n = b + 2 + Len(got')
  BY <1>6, <1>14
<1>16. Written(all, at)'
  BY <1>1, <1>5 DEF Written
<1>17. PICK p \in Payloads : FrameAt(all, at, k, b, p)
  <2>1. k \in 0 .. Len(sent) /\ b = at[k + 1] /\ b + 2 <= Len(all) /\ Written(all, at) /\ FrameTypes
    BY <1>3, <1>5, <1>6, <1>10
  <2> QED BY <2>1, CurrentFrame
<1>18. want = Len(p) /\ p \in Seq(Byte)
  <2>1. p \in Seq(Byte)
    BY FrameShape DEF Byte
  <2> QED BY <1>8, <1>17, <2>1 DEF FrameAt
<1>19. /\ k < Len(sent) => p = sent[k + 1] /\ at[k + 2] = b + 2 + Len(p) /\ at[k + 2] <= Len(all)
       /\ k = Len(sent) => Len(all) < b + 2 + Len(p)
       /\ \A j \in 1 .. Len(p) : (b + 2) + j <= Len(all) => all[(b + 2) + j] = p[j]
  BY <1>17 DEF FrameAt
<1> HIDE DEF m, e
<1>20. CASE Len(got') >= want
  <2>1. Len(got') = Len(p)
    <3> DEFINE l == Len(got')
    <3>1. n <= want - g /\ l = g + n /\ l >= want /\ g \in Nat /\ want \in Nat
      BY <1>1, <1>6, <1>15, <1>20, Zenon
    <3> HIDE DEF l
    <3>2. l = want
      BY <3>1
    <3> QED BY <1>18, <3>2 DEF l
  <2>2. k < Len(sent) /\ p = sent[k + 1] /\ at[k + 2] = e + n
    <3>1. b + 2 + Len(p) <= Len(all)
      BY <1>11, <1>15, <2>1
    <3>2. k # Len(sent)
      BY <1>19, <3>1
    <3>3. k < Len(sent)
      BY <1>3, <1>6, <3>2 DEF FrameTypes
    <3> QED BY <1>15, <1>19, <2>1, <3>3
  <2>3. got' = p
    <3>1. ASSUME NEW j \in 1 .. Len(got') PROVE got'[j] = p[j]
      <4>1. /\ j \in 1 .. (e + n) - m /\ j \in 1 .. Len(p)
            /\ (b + 2) + j <= Len(all) /\ m + j = (b + 2) + j
        <5>1. j \in 1 .. Len(p) /\ j \in 1 .. (e + n) - m
          BY <1>14, <2>1
        <5>2. b + 2 + Len(p) <= Len(all) /\ Len(p) \in Nat /\ b \in Nat
          BY <1>11, <1>15, <2>1
        <5>3. (b + 2) + j <= Len(all)
          BY <1>6, <5>1, <5>2
        <5> QED BY <5>1, <5>3 DEF m
      <4> QED BY <1>14, <1>19, <4>1
    <3> QED BY <1>14, <1>18, <2>1, <3>1, SeqEqual
  <2>4. /\ delivered' \in Seq(Seq(Byte)) /\ Len(delivered') = k + 1
        /\ (\A i \in 1 .. k : delivered'[i] = delivered[i]) /\ delivered'[k + 1] = got'
    <3>1. delivered \in Seq(Seq(Byte)) /\ delivered' = Append(delivered, got')
      BY <1>2, <1>3, <1>20 DEF FrameTypes
    <3> QED BY <1>14, <3>1, AppendProperties
  <2>5. reader' = "length"
    BY <1>2, <1>20
  <2>6. FrameTypes'
    BY <1>1, <1>3, <1>12, <1>14, <2>4, <2>5 DEF FrameTypes
  <2>7. Same'
    <3>1. ASSUME NEW i \in 1 .. k + 1 PROVE delivered'[i] = sent'[i]
      <4>1. i \in 1 .. k \/ i = k + 1
        BY <1>6
      <4>2. CASE i \in 1 .. k
        BY <1>1, <1>3, <2>4, <4>2 DEF Same
      <4>3. CASE i = k + 1
        BY <1>1, <2>2, <2>3, <2>4, <4>3
      <4> QED BY <4>1, <4>2, <4>3
    <3>2. Len(delivered') <= Len(sent')
      BY <1>1, <2>2, <2>4
    <3> QED BY <2>4, <3>1, <3>2 DEF Same
  <2>11. PICK c \in 0 .. Len(all) : c = e + n
    BY <1>11
  <2>8. Reading(all, c)'
    BY <1>12, <2>5, <2>11 DEF Reading
  <2>9. c = at[Len(delivered') + 1] /\ at \in [1 .. Len(sent') + 1 -> Nat]
    BY <1>1, <2>2, <2>4, <2>11
  <2>10. Streaming'
    BY <1>1, <1>3, <1>16, <2>7, <2>8, <2>9 DEF Streaming
  <2> QED BY <2>6, <2>10 DEF FInv
<1>21. CASE ~(Len(got') >= want)
  <2>1. UNCHANGED <<reader, delivered>>
    BY <1>2, <1>21
  <2>2. FrameTypes' /\ Same'
    BY <1>1, <1>3, <1>12, <1>14, <2>1 DEF FrameTypes, Same
  <2>3. Reading(all, b)'
    <3>1. Len(got') < want' /\ b + 2 + Len(got') <= Len(all)
      <4>1. want' = want
        BY <1>1
      <4>2. Len(got') < want
        BY <1>6, <1>15, <1>21
      <4> QED BY <1>11, <1>15, <4>1, <4>2
    <3>2. got' = SubSeq(all, (b + 2) + 1, b + 2 + Len(got')) /\ wire' = From(all, b + 2 + Len(got'))
      BY <1>12, <1>13, <1>15 DEF m
    <3>3. want' = all[b + 1] + Base * all[b + 2] /\ reader' = "body"
      BY <1>1, <1>8, <2>1
    <3> QED BY <3>1, <3>2, <3>3, Zenon DEF Reading
  <2>4. b = at[Len(delivered') + 1] /\ at \in [1 .. Len(sent') + 1 -> Nat]
    BY <1>1, <1>5, <2>1
  <2>5. Streaming'
    BY <1>1, <1>3, <1>16, <2>2, <2>3, <2>4 DEF Streaming
  <2> QED BY <2>2, <2>5 DEF FInv
<1> QED BY <1>20, <1>21

\* The end of the file or an error inside a payload.
LEMMA BodyEndsKeeps ==
  ASSUME FInv, BodyEnds
  PROVE  FInv'
<1> DEFINE k == Len(delivered)
<1>1. /\ reader = "body" /\ link # "open" /\ wire = <<>>
      /\ UNCHANGED <<wire, link, sent, want, got>>
  BY DEF BodyEnds
<1>2. IF got = <<>>
        THEN reader' = "failed" /\ UNCHANGED delivered
        ELSE reader' = "length" /\ delivered' = Append(delivered, got)
  BY DEF BodyEnds
<1>3. FrameTypes /\ Same
  BY <1>1 DEF FInv, Streaming, Ended
<1>4. Len(sent) \in Nat /\ k \in 0 .. Len(sent)
  BY <1>3 DEF Same
<1>5. PICK p \in Payloads : /\ MayBe(k + 1, p) /\ IsStrictPrefix(got, p)
                            /\ k < Len(sent) => link = "reset"
  <2>1. CASE Streaming
    <3>1. PICK all \in Seq(Byte), at \in [1 .. Len(sent) + 1 -> Nat] : \E b \in 0 .. Len(all) :
            Written(all, at) /\ b = at[Len(delivered) + 1] /\ Reading(all, b)
      BY <2>1 DEF Streaming
    <3>2. PICK b \in 0 .. Len(all) :
            Written(all, at) /\ b = at[Len(delivered) + 1] /\ Reading(all, b)
      BY <3>1
    <3> QED BY <1>1, <1>3, <3>2, PartRead
  <2>2. CASE Ended
    BY <1>1, <2>2 DEF Ended
  <2> QED BY <2>1, <2>2 DEF FInv
<1>6. CASE got = <<>>
  BY <1>1, <1>2, <1>3, <1>6 DEF FInv, Ended, FrameTypes, Same
<1>7. CASE got # <<>>
  <2>1. /\ delivered' \in Seq(Seq(Byte)) /\ Len(delivered') = k + 1
        /\ (\A i \in 1 .. k : delivered'[i] = delivered[i]) /\ delivered'[k + 1] = got
    <3>1. delivered \in Seq(Seq(Byte)) /\ delivered' = Append(delivered, got) /\ got \in Seq(Byte)
      BY <1>2, <1>3, <1>7 DEF FrameTypes
    <3> QED BY <3>1, AppendProperties
  <2>2. reader' = "length"
    BY <1>2, <1>7
  <2>3. FrameTypes'
    BY <1>1, <1>3, <2>1, <2>2 DEF FrameTypes
  <2>4. MayBe(Len(delivered), p)' /\ Truncated(delivered'[Len(delivered')], p)
    BY <1>1, <1>5, <1>7, <2>1 DEF MayBe, Truncated
  <2>5. \A i \in 1 .. Len(delivered') - 1 : delivered'[i] = sent'[i]
    BY <1>1, <1>3, <2>1 DEF Same
  <2>6. /\ Len(delivered') > 0 /\ Len(delivered') <= Len(sent') + 1
        /\ Len(delivered') <= Len(sent') => link' = "reset"
    BY <1>1, <1>4, <1>5, <2>1
  <2>7. CutShort'
    BY <2>4, <2>5, <2>6 DEF CutShort
  <2> QED BY <1>1, <2>2, <2>3, <2>7 DEF FInv, Ended
<1> QED BY <1>6, <1>7

-----------------------------------------------------------------------------
\* Every step keeps the invariant.
LEMMA FrameNext ==
  ASSUME FInv, [Next]_vars
  PROVE  FInv'
<1>1. CASE UNCHANGED vars
  <2>1. UNCHANGED <<wire, link, sent, reader, want, got, delivered>>
    BY <1>1 DEF vars
  <2>2. FrameTypes'
    BY <2>1 DEF FInv, FrameTypes
  <2>3. CASE Streaming
    <3>1. Same'
      BY <2>1, <2>3 DEF Streaming, Same
    <3>2. PICK all \in Seq(Byte), at \in [1 .. Len(sent) + 1 -> Nat] : \E b \in 0 .. Len(all) :
            Written(all, at) /\ b = at[Len(delivered) + 1] /\ Reading(all, b)
      BY <2>3 DEF Streaming
    <3>3. PICK b \in 0 .. Len(all) :
            Written(all, at) /\ b = at[Len(delivered) + 1] /\ Reading(all, b)
      BY <3>2
    <3>4. Written(all, at)'
      BY <2>1, <3>3 DEF Written
    <3>5. Reading(all, b)'
      BY <2>1, <3>3 DEF Reading
    <3>6. Streaming'
      BY <2>1, <2>3, <3>1, <3>3, <3>4, <3>5 DEF Streaming
    <3> QED BY <2>2, <3>6 DEF FInv
  <2>4. CASE Ended
    <3>1. Ended'
      BY <2>1, <2>4 DEF Ended, Same, CutShort, MayBe
    <3> QED BY <2>2, <3>1 DEF FInv
  <2> QED BY <2>3, <2>4 DEF FInv
<1>2. CASE Next
  <2>1. ASSUME NEW p \in Payloads, Write(p) \/ Die(p) PROVE FInv'
    BY <2>1, WriteKeeps, DieKeeps
  <2>2. ASSUME NEW n \in 1 .. MaxPayload, ReadBody(n) PROVE FInv'
    <3>1. MaxPayload \in Int
      BY BaseAssumption DEF MaxPayload
    <3>2. n \in Nat /\ n > 0
      BY <3>1
    <3> QED BY <2>2, <3>2, ReadBodyKeeps
  <2> QED BY <1>2, <2>1, <2>2, ResetKeeps, ReadLengthKeeps, LengthErrorKeeps, BodyEndsKeeps
       DEF Next
<1> QED BY <1>1, <1>2

\* The invariant says what InStep says.
LEMMA FrameInvInStep ==
  ASSUME FInv
  PROVE  InStep
<1>1. Len(delivered) \in Nat /\ Len(sent) \in Nat
  BY LenProperties DEF FInv, FrameTypes
<1>4. DOMAIN delivered = 1 .. Len(delivered)
  BY LenProperties DEF FInv, FrameTypes
<1>2. CASE Same
  <2>1. ~(Len(delivered) > Len(sent))
    BY <1>1, <1>2 DEF Same
  <2>2. \A i \in DOMAIN delivered : delivered[i] = sent[i]
    BY <1>2, <1>4, Zenon DEF Same
  <2> QED BY <2>1, <2>2, Zenon DEF InStep
<1>3. CASE CutShort /\ link # "open" /\ wire = <<>>
  <2>1. PICK p \in Payloads :
          MayBe(Len(delivered), p) /\ Truncated(delivered[Len(delivered)], p)
    BY <1>3 DEF CutShort
  <2>2. ASSUME NEW i \in 1 .. Len(delivered), i <= Len(sent)
        PROVE  \/ delivered[i] = sent[i]
               \/ i = Len(delivered) /\ link = "reset" /\ Truncated(delivered[i], sent[i])
    <3> DEFINE d == Len(delivered)
    <3>1. d \in Nat /\ i \in 1 .. d
      BY <1>1
    <3> HIDE DEF d
    <3>2. i \in 1 .. d - 1 \/ i = d
      BY <3>1
    <3> QED BY <1>3, <2>1, <2>2, <3>2 DEF CutShort, MayBe, d
  <2>3. ASSUME Len(delivered) > Len(sent)
        PROVE  Len(delivered) = Len(sent) + 1
    <3> DEFINE d == Len(delivered)
               s == Len(sent)
    <3>1. d \in Nat /\ s \in Nat /\ d > s /\ d <= s + 1
      BY <1>1, <1>3, <2>3, Zenon DEF CutShort
    <3> HIDE DEF d, s
    <3>2. d = s + 1
      BY <3>1
    <3> QED BY <3>2, Zenon DEF d, s
  <2>4. \E q \in Payloads : Truncated(Last(delivered), q)
    BY <2>1, Zenon DEF Last
  <2> QED BY <1>3, <1>4, <2>2, <2>3, <2>4, Zenon DEF InStep
<1> QED BY <1>2, <1>3 DEF FInv, Streaming, Ended

\* Whatever pieces the reads return and wherever the connection ends, for every
\* width of a byte, every set of payloads and any number of frames, read_u16_payload
\* returns what write_u16_payload was given, in order; only the last payload may
\* be the start of one that was not finished (InStep).
THEOREM FramesInStep == Spec => []InStep
<1>1. Init => FInv
  BY FrameInit
<1>2. FInv /\ [Next]_vars => FInv'
  BY FrameNext
<1>3. FInv => InStep
  BY FrameInvInStep
<1> QED BY <1>1, <1>2, <1>3, PTL DEF Spec

-----------------------------------------------------------------------------
(* What is sent as a log line is shown in whole fields, for every alphabet,    *)
(* every event and every buffer.                                               *)

\* A set of numbers that is not empty has a least one.
LEMMA LeastNumber ==
  ASSUME NEW T, T \subseteq Nat, T # {}
  PROVE  \E n \in T : \A m \in T : ~(m < n)
<1>1. \E n \in T : \A m \in T : ~(<<m, n>> \in OpToRel(<, Nat))
  BY NatLessThanWellFounded, WFMin
<1> QED BY <1>1 DEF OpToRel

\* f is what the steps of g, from x, lead to.
Steps(f, x, g, S, n) ==
  /\ f \in [0 .. n -> S] /\ f[0] = x
  /\ \A d \in 1 .. n : f[d] = g[<<d, f[d - 1]>>]

\* Recursion over numbers defines a function.
LEMMA RecursionExists ==
  ASSUME NEW S, NEW x \in S, NEW N \in Nat, NEW g \in [(1 .. N) \X S -> S]
  PROVE  \E f : Steps(f, x, g, S, N)
<1> DEFINE T == {n \in 0 .. N : \A f : ~Steps(f, x, g, S, n)}
<1>1. SUFFICES ASSUME T # {} PROVE FALSE
  OBVIOUS
<1>2. PICK n \in T : \A m \in T : ~(m < n)
  <2>1. T \subseteq Nat
    OBVIOUS
  <2> HIDE DEF T
  <2> QED BY <1>1, <2>1, LeastNumber
<1>3. n \in 0 .. N /\ \A f : ~Steps(f, x, g, S, n)
  OBVIOUS
<1>4. CASE n = 0
  <2> DEFINE f == [d \in 0 .. 0 |-> x]
  <2>1. Steps(f, x, g, S, 0)
    BY DEF Steps
  <2> QED BY <1>3, <1>4, <2>1
<1>5. CASE n # 0
  <2>1. n - 1 \in 0 .. N /\ n - 1 \notin T /\ n \in 1 .. N
    BY <1>2, <1>3, <1>5
  <2>2. PICK v : Steps(v, x, g, S, n - 1)
    BY <2>1
  <2> DEFINE f == [d \in 0 .. n |-> IF d = n THEN g[<<n, v[n - 1]>>] ELSE v[d]]
  <2>3. v[n - 1] \in S /\ v \in [0 .. n - 1 -> S]
    BY <2>1, <2>2 DEF Steps
  <2>4. g[<<n, v[n - 1]>>] \in S
    BY <2>1, <2>3
  <2>5. f \in [0 .. n -> S]
    BY <2>1, <2>3, <2>4
  <2>6. f[n] = g[<<n, v[n - 1]>>] /\ \A d \in 0 .. n - 1 : f[d] = v[d]
    BY <2>1
  <2> HIDE DEF f
  <2>7. ASSUME NEW d \in 1 .. n PROVE f[d] = g[<<d, f[d - 1]>>]
    <3>1. CASE d = n
      BY <2>1, <2>6, <3>1
    <3>2. CASE d # n
      <4>1. d \in 1 .. n - 1 /\ d \in 0 .. n - 1 /\ d - 1 \in 0 .. n - 1
        BY <2>1, <3>2
      <4> QED BY <2>2, <2>6, <4>1 DEF Steps
    <3> QED BY <3>1, <3>2
  <2>8. f[0] = x
    BY <2>1, <2>2, <2>6 DEF Steps
  <2>9. Steps(f, x, g, S, n)
    BY <2>5, <2>7, <2>8 DEF Steps
  <2> QED BY <1>3, <2>9
<1> QED BY <1>4, <1>5

\* The quotients of a number.
LEMMA Quotients ==
  ASSUME NEW n \in Nat
  PROVE  /\ Rest(n)[0] = n
         /\ \A d \in 1 .. LenDigits : Rest(n)[d] = Rest(n)[d - 1] \div Radix
         /\ \A d \in 0 .. LenDigits : Rest(n)[d] \in Nat
<1> DEFINE F(w) == [d \in 0 .. LenDigits |-> IF d = 0 THEN n ELSE w[d - 1] \div Radix]
           g == [p \in (1 .. LenDigits) \X Nat |-> p[2] \div Radix]
           u == Rest(n)
           T == {d \in 0 .. LenDigits : u[d] \notin Nat}
<1>0. LenDigits \in Nat /\ Radix \in Nat /\ Radix > 1
  BY BoundAssumption, ByteAssumption
<1>a. \A q \in Nat : q \div Radix \in Nat
  BY <1>0
<1>1. u = CHOOSE w : w = F(w)
  BY DEF Rest
<1>2. g \in [(1 .. LenDigits) \X Nat -> Nat]
  BY <1>a
<1>3. PICK v : Steps(v, n, g, Nat, LenDigits)
  <2> HIDE DEF g
  <2> QED BY <1>0, <1>2, RecursionExists
<1>4. \A d \in 1 .. LenDigits : v[d] = v[d - 1] \div Radix
  <2> SUFFICES ASSUME NEW d \in 1 .. LenDigits PROVE v[d] = v[d - 1] \div Radix
    OBVIOUS
  <2>1. v[d - 1] \in Nat
    BY <1>0, <1>3 DEF Steps
  <2>2. <<d, v[d - 1]>> \in (1 .. LenDigits) \X Nat
    BY <2>1
  <2>3. g[<<d, v[d - 1]>>] = v[d - 1] \div Radix
    BY <2>2
  <2> HIDE DEF g
  <2> QED BY <1>3, <2>3 DEF Steps
<1>5. v = F(v)
  <2> HIDE DEF g
  <2>1. v = [d \in 0 .. LenDigits |-> v[d]]
    BY <1>3 DEF Steps
  <2>2. ASSUME NEW d \in 0 .. LenDigits
        PROVE  v[d] = IF d = 0 THEN n ELSE v[d - 1] \div Radix
    <3>1. d = 0 \/ d \in 1 .. LenDigits
      BY <1>0
    <3> QED BY <1>3, <1>4, <3>1 DEF Steps
  <2> QED BY <2>1, <2>2
<1>6. u = F(u)
  <2> HIDE DEF F, u
  <2> QED BY <1>1, <1>5
<1>7. \A d \in 0 .. LenDigits : u[d] = IF d = 0 THEN n ELSE u[d - 1] \div Radix
  <2> HIDE DEF u
  <2> QED BY <1>6
<1> HIDE DEF u
<1>8. ASSUME T # {} PROVE FALSE
  <2>1. PICK d \in T : \A m \in T : ~(m < d)
    <3>1. T \subseteq Nat
      BY <1>0
    <3> HIDE DEF T
    <3> QED BY <1>8, <3>1, LeastNumber
  <2>2. CASE d = 0
    BY <1>0, <1>7, <2>1, <2>2
  <2>3. CASE d # 0
    <3>1. d \in 1 .. LenDigits /\ d - 1 \in 0 .. LenDigits /\ d - 1 \notin T
      BY <1>0, <2>1, <2>3
    <3>2. u[d - 1] \in Nat
      BY <3>1
    <3> QED BY <1>7, <1>a, <2>1, <3>1, <3>2
  <2> QED BY <2>2, <2>3
<1>9. u[0] = n /\ \A d \in 1 .. LenDigits : u[d] = u[d - 1] \div Radix
  BY <1>0, <1>7
<1> QED BY <1>8, <1>9 DEF u

\* The digits of a length make that length again.
LEMMA LengthBack ==
  ASSUME NEW n \in Nat, Rest(n)[LenDigits] = 0, ValueBegin \in Nat,
         \A d \in 1 .. LenDigits : raw[ValueBegin + 1 - d] = Digits(n)[LenDigits + 1 - d]
  PROVE  ValueLen = n
<1> DEFINE b == ValueBegin
           F(w) == [d \in 0 .. LenDigits |->
                      IF d = 0 THEN 0 ELSE raw[b + 1 - d] + Radix * w[d - 1]]
           v == [d \in 0 .. LenDigits |-> Rest(n)[LenDigits - d]]
           u == CHOOSE w : w = F(w)
           T == {d \in 0 .. LenDigits : u[d] # v[d]}
<1>0. LenDigits \in Nat /\ Radix \in Nat /\ Radix > 1
  BY BoundAssumption, ByteAssumption
<1>a. ValueLen = u[LenDigits]
  BY DEF ValueLen
<1>1. /\ Rest(n)[0] = n
      /\ \A d \in 1 .. LenDigits : Rest(n)[d] = Rest(n)[d - 1] \div Radix
      /\ \A d \in 0 .. LenDigits : Rest(n)[d] \in Nat
  BY Quotients
<1>2. \A q \in Nat : q = (q % Radix) + Radix * (q \div Radix)
  BY <1>0
<1>3. ASSUME NEW d \in 1 .. LenDigits
      PROVE  v[d] = raw[b + 1 - d] + Radix * v[d - 1]
  <2>1. /\ LenDigits - d \in 0 .. LenDigits /\ LenDigits + 1 - d \in 1 .. LenDigits
        /\ (LenDigits + 1 - d) - 1 = LenDigits - d /\ d - 1 \in 0 .. LenDigits
        /\ LenDigits - (d - 1) = LenDigits + 1 - d /\ d \in 0 .. LenDigits
    BY <1>0
  <2>2. raw[b + 1 - d] = Rest(n)[LenDigits - d] % Radix
    BY <2>1 DEF Digits
  <2>3. v[d - 1] = Rest(n)[LenDigits - d] \div Radix
    BY <1>1, <2>1
  <2>4. v[d] = Rest(n)[LenDigits - d] /\ Rest(n)[LenDigits - d] \in Nat
    BY <1>1, <2>1
  <2> HIDE DEF v, b
  <2> QED BY <1>2, <2>2, <2>3, <2>4
<1>4. v[0] = 0 /\ v[LenDigits] = n
  BY <1>0, <1>1
<1>5. v = F(v)
  <2>1. v = [d \in 0 .. LenDigits |-> v[d]]
    OBVIOUS
  <2> HIDE DEF v, b
  <2>2. ASSUME NEW d \in 0 .. LenDigits
        PROVE  v[d] = IF d = 0 THEN 0 ELSE raw[b + 1 - d] + Radix * v[d - 1]
    BY <1>0, <1>3, <1>4
  <2> QED BY <2>1, <2>2
<1>6. u = F(u)
  <2> HIDE DEF F
  <2> QED BY <1>5
<1> HIDE DEF u, v, b
<1>7. \A d \in 0 .. LenDigits : u[d] = IF d = 0 THEN 0 ELSE raw[b + 1 - d] + Radix * u[d - 1]
  BY <1>6
<1>8. ASSUME T # {} PROVE FALSE
  <2>1. PICK d \in T : \A m \in T : ~(m < d)
    <3>1. T \subseteq Nat
      BY <1>0
    <3> HIDE DEF T
    <3> QED BY <1>8, <3>1, LeastNumber
  <2>2. CASE d = 0
    BY <1>0, <1>4, <1>7, <2>1, <2>2
  <2>3. CASE d # 0
    <3>1. d \in 1 .. LenDigits /\ d - 1 \in 0 .. LenDigits /\ d - 1 \notin T
      BY <1>0, <2>1, <2>3
    <3>2. u[d - 1] = v[d - 1]
      BY <3>1
    <3>3. u[d] = raw[b + 1 - d] + Radix * u[d - 1]
      BY <1>7, <2>3
    <3> QED BY <1>3, <2>1, <3>1, <3>2, <3>3
  <2> QED BY <2>2, <2>3
<1> QED BY <1>0, <1>4, <1>8, <1>a

-----------------------------------------------------------------------------
\* all[i] is what the first i members of ss make, one after the other.
Concats(all, ss, S) ==
  /\ all \in [0 .. Len(ss) -> Seq(S)] /\ all[0] = <<>>
  /\ \A i \in 1 .. Len(ss) : all[i] = all[i - 1] \o ss[i]

\* There are such concatenations.
LEMMA ConcatsExist ==
  ASSUME NEW S, NEW ss \in Seq(Seq(S))
  PROVE  \E all : Concats(all, ss, S)
<1> DEFINE N == Len(ss)
           g == [p \in (1 .. N) \X Seq(S) |-> p[2] \o ss[p[1]]]
<1>1. N \in Nat /\ \A i \in 1 .. N : ss[i] \in Seq(S)
  BY LenProperties, ElementOfSeq
<1>2. \A p \in (1 .. N) \X Seq(S) : p[2] \o ss[p[1]] \in Seq(S)
  <2> SUFFICES ASSUME NEW i \in 1 .. N, NEW x \in Seq(S) PROVE x \o ss[i] \in Seq(S)
    OBVIOUS
  <2> QED BY <1>1, ConcatProperties
<1>3. g \in [(1 .. N) \X Seq(S) -> Seq(S)]
  BY <1>2
<1>e. <<>> \in Seq(S)
  BY EmptySeq
<1>4. PICK all : Steps(all, <<>>, g, Seq(S), N)
  <2> HIDE DEF g, N
  <2> QED BY <1>1, <1>3, <1>e, RecursionExists
<1>5. ASSUME NEW i \in 1 .. N PROVE all[i] = all[i - 1] \o ss[i]
  <2>1. all[i - 1] \in Seq(S)
    <3>1. all \in [0 .. N -> Seq(S)] /\ i - 1 \in 0 .. N
      BY <1>1, <1>4 DEF Steps
    <3> QED BY <3>1
  <2>2. g[<<i, all[i - 1]>>] = all[i - 1] \o ss[i]
    BY <2>1
  <2> HIDE DEF g
  <2> QED BY <1>4, <2>2 DEF Steps
<1> HIDE DEF g
<1> QED BY <1>4, <1>5 DEF Steps, Concats

\* FlattenSeq computes their last one.
LEMMA Flattened ==
  ASSUME NEW S, NEW ss \in Seq(Seq(S)), NEW all, all[0] = <<>>,
         \A i \in 1 .. Len(ss) : all[i] = all[i - 1] \o ss[i]
  PROVE  FlattenSeq(ss) = all[Len(ss)]
<1> DEFINE N == Len(ss)
           F(w) == [i \in 1 .. N |-> IF i = 1 THEN ss[i] ELSE w[i - 1] \o ss[i]]
           v == [i \in 1 .. N |-> all[i]]
           u == CHOOSE w : w = F(w)
           T == {i \in 1 .. N : u[i] # all[i]}
<1>1. N \in Nat /\ \A i \in 1 .. N : ss[i] \in Seq(S)
  BY LenProperties, ElementOfSeq
<1>2. CASE N = 0
  <2>1. ss = <<>>
    BY <1>2, EmptySeq
  <2>2. FlattenSeq(ss) = ss
    BY <1>2 DEF FlattenSeq
  <2> QED BY <1>2, <2>1, <2>2
<1>3. CASE N # 0
  <2>a. FlattenSeq(ss) = u[N]
    BY <1>3 DEF FlattenSeq
  <2>1. 1 \in 1 .. N /\ all[1] = ss[1]
    <3>1. 1 \in 1 .. N /\ 1 - 1 = 0
      BY <1>1, <1>3
    <3>2. all[1] = <<>> \o ss[1]
      BY <3>1
    <3> QED BY <1>1, <3>1, <3>2, ConcatEmptySeq
  <2>2. ASSUME NEW i \in 1 .. N
        PROVE  all[i] = IF i = 1 THEN ss[i] ELSE v[i - 1] \o ss[i]
    <3>1. CASE i = 1
      BY <2>1, <3>1
    <3>2. CASE i # 1
      <4>1. i - 1 \in 1 .. N
        BY <1>1, <3>2
      <4>2. v[i - 1] = all[i - 1]
        BY <4>1
      <4> HIDE DEF v
      <4> QED BY <3>2, <4>2
    <3> QED BY <3>1, <3>2
  <2>3. v = F(v)
    <3> DEFINE G(i) == IF i = 1 THEN ss[i] ELSE v[i - 1] \o ss[i]
    <3>1. \A i \in 1 .. N : all[i] = G(i)
      BY <2>2
    <3> HIDE DEF G
    <3>2. [i \in 1 .. N |-> all[i]] = [i \in 1 .. N |-> G(i)]
      BY <3>1
    <3> QED BY <3>2 DEF G
  <2>4. u = F(u)
    <3> HIDE DEF F, v
    <3> QED BY <2>3
  <2> HIDE DEF u
  <2>5. \A i \in 1 .. N : u[i] = IF i = 1 THEN ss[i] ELSE u[i - 1] \o ss[i]
    BY <2>4
  <2>6. ASSUME T # {} PROVE FALSE
    <3>1. PICK i \in T : \A m \in T : ~(m < i)
      <4>1. T \subseteq Nat
        BY <1>1
      <4> HIDE DEF T
      <4> QED BY <2>6, <4>1, LeastNumber
    <3>2. CASE i = 1
      BY <2>1, <2>5, <3>1, <3>2
    <3>3. CASE i # 1
      <4>1. i - 1 \in 1 .. N /\ i - 1 \notin T
        BY <1>1, <3>1, <3>3
      <4>2. u[i - 1] = all[i - 1]
        BY <4>1
      <4>3. u[i] = u[i - 1] \o ss[i]
        BY <2>5, <3>1, <3>3
      <4> QED BY <3>1, <4>2, <4>3
    <3> QED BY <3>2, <3>3
  <2> QED BY <1>1, <1>3, <2>6, <2>a
<1> QED BY <1>2, <1>3

\* Flattening sequences of sequences.
LEMMA FlattenType ==
  ASSUME NEW S, NEW ss \in Seq(Seq(S))
  PROVE  FlattenSeq(ss) \in Seq(S)
<1>1. PICK all : Concats(all, ss, S)
  BY ConcatsExist
<1>2. FlattenSeq(ss) = all[Len(ss)]
  BY <1>1, Flattened DEF Concats
<1>3. Len(ss) \in 0 .. Len(ss)
  BY LenProperties
<1> QED BY <1>1, <1>2, <1>3 DEF Concats

\* Each of the concatenations begins every later one.
LEMMA ConcatsGrow ==
  ASSUME NEW S, NEW ss \in Seq(Seq(S)), NEW all,
         NEW m \in 0 .. Len(ss), NEW n \in m .. Len(ss), Concats(all, ss, S)
  PROVE  /\ all[m] \in Seq(S) /\ all[n] \in Seq(S) /\ Len(all[m]) <= Len(all[n])
         /\ Len(all[m]) \in Nat /\ Len(all[n]) \in Nat
         /\ \A i \in 1 .. Len(all[m]) : all[n][i] = all[m][i]
<1> DEFINE Leads(k) == /\ Len(all[m]) <= Len(all[k])
                       /\ \A i \in 1 .. Len(all[m]) : all[k][i] = all[m][i]
           T == {k \in m .. Len(ss) : ~Leads(k)}
<1>1. /\ Len(ss) \in Nat /\ m \in Nat /\ n \in Nat
      /\ \A k \in 0 .. Len(ss) : all[k] \in Seq(S) /\ Len(all[k]) \in Nat
  <2>1. Len(ss) \in Nat
    BY LenProperties
  <2>2. \A k \in 0 .. Len(ss) : all[k] \in Seq(S) /\ Len(all[k]) \in Nat
    BY LenProperties DEF Concats
  <2> QED BY <2>1, <2>2
<1>2. \A k \in m .. Len(ss) : k \in 0 .. Len(ss)
  BY <1>1
<1>3. ASSUME T # {} PROVE FALSE
  <2>1. PICK k \in T : \A j \in T : ~(j < k)
    <3>1. T \subseteq Nat
      BY <1>1
    <3> HIDE DEF T
    <3> QED BY <1>3, <3>1, LeastNumber
  <2>2. CASE k = m
    BY <1>1, <2>1, <2>2
  <2>3. CASE k # m
    <3>0. k \in m .. Len(ss) /\ ~Leads(k)
      BY <2>1
    <3> HIDE DEF Leads
    <3>1. /\ k \in m .. Len(ss) /\ ~Leads(k) /\ k \in 1 .. Len(ss)
          /\ k - 1 \in m .. Len(ss) /\ k - 1 \in 0 .. Len(ss) /\ k - 1 < k
      BY <1>1, <2>3, <3>0
    <3> USE DEF Leads
    <3>2. Leads(k - 1)
      BY <2>1, <3>1
    <3> DEFINE x == all[k - 1]
    <3>3. x \in Seq(S) /\ Len(x) \in Nat /\ ss[k] \in Seq(S) /\ all[k] = x \o ss[k]
      BY <1>1, <3>1, ElementOfSeq DEF Concats
    <3>a. Len(ss[k]) \in Nat
      BY <3>3, LenProperties
    <3>4. /\ Len(all[k]) = Len(x) + Len(ss[k])
          /\ \A i \in 1 .. Len(x) : all[k][i] = x[i]
      <4> DEFINE t == ss[k]
      <4>1. x \in Seq(S) /\ t \in Seq(S)
        BY <3>3
      <4> HIDE DEF x, t
      <4>2. Len(x \o t) = Len(x) + Len(t) /\ \A i \in 1 .. Len(x) : (x \o t)[i] = x[i]
        BY <4>1, Extended
      <4> QED BY <3>3, <4>2 DEF t
    <3>5. Len(all[m]) <= Len(x) /\ \A i \in 1 .. Len(all[m]) : x[i] = all[m][i]
      BY <3>2
    <3> HIDE DEF x
    <3>6. Len(all[m]) \in Nat
      BY <1>1
    <3>7. Len(all[m]) <= Len(all[k])
      BY <3>3, <3>4, <3>5, <3>6, <3>a
    <3>8. \A i \in 1 .. Len(all[m]) : i \in 1 .. Len(x)
      BY <3>3, <3>5, <3>6
    <3>9. \A i \in 1 .. Len(all[m]) : all[k][i] = all[m][i]
      BY <3>4, <3>5, <3>8, Zenon
    <3> QED BY <3>1, <3>7, <3>9
  <2> QED BY <2>2, <2>3
<1>4. Leads(n)
  BY <1>3
<1>5. n \in 0 .. Len(ss)
  BY <1>2
<1>6. all[m] \in Seq(S) /\ all[n] \in Seq(S) /\ Len(all[m]) \in Nat /\ Len(all[n]) \in Nat
  BY <1>1, <1>5
<1>7. /\ Len(all[m]) <= Len(all[n])
      /\ \A i \in 1 .. Len(all[m]) : all[n][i] = all[m][i]
  BY <1>4, Zenon
<1> QED BY <1>6, <1>7, Zenon

\* In particular each begins the last one.
LEMMA ConcatsLast ==
  ASSUME NEW S, NEW ss \in Seq(Seq(S)), NEW all, Concats(all, ss, S)
  PROVE  \A m \in 0 .. Len(ss) : \A i \in 1 .. Len(all[m]) : all[Len(ss)][i] = all[m][i]
<1> SUFFICES ASSUME NEW m \in 0 .. Len(ss), NEW i \in 1 .. Len(all[m])
             PROVE  all[Len(ss)][i] = all[m][i]
  OBVIOUS
<1>1. Len(ss) \in m .. Len(ss)
  BY LenProperties
<1> QED BY <1>1, ConcatsGrow

-----------------------------------------------------------------------------
\* Names are units that are no bytes; values are strings.
Unit == {u \in Nat : u >= Radix}
Strings == {s \in Seq(0 .. Radix - 1) : IsString(s)}
LogFields == [key : Seq(Unit), value : Strings]

LogTypes ==
  /\ spans \in Seq(Seq(LogFields)) /\ queue \in Seq(Seq(LogFields))
  /\ event \in Seq(LogFields)

\* from_raw has taken the first n fields of what was sent, whose last newline
\* may not have arrived, and stands at the next one.
First(n) == SubSeq(event, 1, n)
Taken(n) ==
  /\ Len(raw) \in 0 .. Len(Encode(event)) /\ raw = SubSeq(Encode(event), 1, Len(raw))
  /\ index = Len(Encode(First(n))) /\ index <= Len(raw) + 1
  /\ log = LogOf(First(n))
AllTaken(n) == n < Len(event) => Len(Encode(First(n + 1))) > Len(raw)

Parsing ==
  spc \in {"parse", "show"} =>
    \E n \in 0 .. Len(event) : Taken(n) /\ (spc = "show" => AllTaken(n))

LogInv == LogTypes /\ Parsing

\* The places of a field's parts.
NameLen(f) == Len(f.key)
FieldLen(f) == NameLen(f) + 1 + LenDigits + Len(f.value) + 1

\* A field is its name, a newline, its length, its value and a newline.
LEMMA FieldShape ==
  ASSUME NEW f \in LogFields
  PROVE  /\ f.key \in Seq(Unit) /\ NameLen(f) \in Nat
         /\ f.value \in Strings /\ Len(f.value) \in Nat
         /\ PutField(f) \in Seq(Nat) /\ Len(PutField(f)) = FieldLen(f)
         /\ \A i \in 1 .. NameLen(f) : PutField(f)[i] = f.key[i]
         /\ PutField(f)[NameLen(f) + 1] = NL
         /\ \A d \in 1 .. LenDigits :
              PutField(f)[NameLen(f) + 1 + d] = Digits(Len(f.value))[d]
         /\ \A j \in 1 .. Len(f.value) :
              PutField(f)[NameLen(f) + 1 + LenDigits + j] = f.value[j]
<1> DEFINE k == f.key
           v == f.value
           g == Digits(Len(v))
           nl == <<NL>>
           a == k \o nl
           b == a \o g
           c == b \o v
           p == c \o nl
<1>0. LenDigits \in Nat /\ Radix \in Nat /\ Radix > 1 /\ NL \in Nat
  BY BoundAssumption, ByteAssumption
<1>1. k \in Seq(Unit) /\ v \in Strings /\ v \in Seq(0 .. Radix - 1)
  BY DEF LogFields, Strings
<1>2. k \in Seq(Nat) /\ v \in Seq(Nat)
  <2>1. Unit \subseteq Nat /\ 0 .. Radix - 1 \subseteq Nat
    BY <1>0 DEF Unit
  <2> QED BY <1>1, <2>1, SeqMonotonic
<1>3. Len(k) \in Nat /\ Len(v) \in Nat
  BY <1>2, LenProperties
<1>4. g \in Seq(Nat) /\ Len(g) = LenDigits
  <2>1. \A d \in 1 .. LenDigits : Rest(Len(v))[d - 1] % Radix \in Nat
    <3> SUFFICES ASSUME NEW d \in 1 .. LenDigits PROVE Rest(Len(v))[d - 1] % Radix \in Nat
      OBVIOUS
    <3>1. d - 1 \in 0 .. LenDigits
      BY <1>0
    <3>2. Rest(Len(v))[d - 1] \in Nat
      BY <1>3, <3>1, Quotients
    <3> QED BY <1>0, <3>2
  <2>2. g = [d \in 1 .. LenDigits |-> Rest(Len(v))[d - 1] % Radix]
    BY DEF Digits
  <2> HIDE DEF g, v
  <2>3. g \in [1 .. LenDigits -> Nat]
    BY <2>1, <2>2
  <2>4. g \in Seq(Nat)
    BY <1>0, <2>3, SeqDef
  <2> QED BY <1>0, <2>3, <2>4, LenProperties
<1>5. nl \in Seq(Nat) /\ Len(nl) = 1 /\ nl[1] = NL
  BY <1>0
<1>6. PutField(f) = p
  BY DEF PutField
<1>c. a = k \o nl /\ b = a \o g /\ c = b \o v /\ p = c \o nl
  OBVIOUS
<1> HIDE DEF k, v, g, nl, a, b, c, p
<1>7. /\ a \in Seq(Nat) /\ Len(a) = Len(k) + 1
      /\ \A i \in 1 .. Len(k) : a[i] = k[i]
      /\ \A i \in 1 .. 1 : a[Len(k) + i] = nl[i]
  <2>1. /\ a \in Seq(Nat) /\ Len(a) = Len(k) + Len(nl)
        /\ \A i \in 1 .. Len(k) : a[i] = k[i]
        /\ \A i \in 1 .. Len(nl) : a[Len(k) + i] = nl[i]
    <3>0. k \in Seq(Nat) /\ nl \in Seq(Nat)
      BY <1>2, <1>5
    <3>1. /\ k \o nl \in Seq(Nat) /\ Len(k \o nl) = Len(k) + Len(nl)
          /\ \A i \in 1 .. Len(k) : (k \o nl)[i] = k[i]
      BY <3>0, Extended, Zenon
    <3>2. \A i \in 1 .. Len(nl) : (k \o nl)[Len(k) + i] = nl[i]
      BY <3>0, Extended
    <3> QED BY <1>c, <3>1, <3>2
  <2> QED BY <1>5, <2>1, Zenon
<1>8. /\ b \in Seq(Nat) /\ Len(b) = (Len(k) + 1) + LenDigits
      /\ \A i \in 1 .. Len(k) + 1 : b[i] = a[i]
      /\ \A d \in 1 .. LenDigits : b[(Len(k) + 1) + d] = g[d]
  <2>1. /\ b \in Seq(Nat) /\ Len(b) = Len(a) + Len(g)
        /\ \A i \in 1 .. Len(a) : b[i] = a[i]
        /\ \A d \in 1 .. Len(g) : b[Len(a) + d] = g[d]
    <3>0. a \in Seq(Nat) /\ g \in Seq(Nat)
      BY <1>4, <1>7
    <3>1. /\ a \o g \in Seq(Nat) /\ Len(a \o g) = Len(a) + Len(g)
          /\ \A i \in 1 .. Len(a) : (a \o g)[i] = a[i]
      BY <3>0, Extended, Zenon
    <3>2. \A i \in 1 .. Len(g) : (a \o g)[Len(a) + i] = g[i]
      BY <3>0, Extended
    <3> QED BY <1>c, <3>1, <3>2
  <2> QED BY <1>4, <1>7, <2>1, Zenon
<1>9. /\ c \in Seq(Nat) /\ Len(c) = ((Len(k) + 1) + LenDigits) + Len(v)
      /\ \A i \in 1 .. (Len(k) + 1) + LenDigits : c[i] = b[i]
      /\ \A j \in 1 .. Len(v) : c[((Len(k) + 1) + LenDigits) + j] = v[j]
  <2>1. /\ c \in Seq(Nat) /\ Len(c) = Len(b) + Len(v)
        /\ \A i \in 1 .. Len(b) : c[i] = b[i]
        /\ \A j \in 1 .. Len(v) : c[Len(b) + j] = v[j]
    <3>0. b \in Seq(Nat) /\ v \in Seq(Nat)
      BY <1>2, <1>8
    <3>1. /\ b \o v \in Seq(Nat) /\ Len(b \o v) = Len(b) + Len(v)
          /\ \A i \in 1 .. Len(b) : (b \o v)[i] = b[i]
      BY <3>0, Extended, Zenon
    <3>2. \A i \in 1 .. Len(v) : (b \o v)[Len(b) + i] = v[i]
      BY <3>0, Extended
    <3> QED BY <1>c, <3>1, <3>2
  <2> QED BY <1>8, <2>1, Zenon
<1>10. /\ p \in Seq(Nat) /\ Len(p) = (((Len(k) + 1) + LenDigits) + Len(v)) + 1
       /\ \A i \in 1 .. ((Len(k) + 1) + LenDigits) + Len(v) : p[i] = c[i]
  <2>1. /\ p \in Seq(Nat) /\ Len(p) = Len(c) + Len(nl)
        /\ \A i \in 1 .. Len(c) : p[i] = c[i]
    <3>0. c \in Seq(Nat) /\ nl \in Seq(Nat)
      BY <1>5, <1>9
    <3>1. /\ c \o nl \in Seq(Nat) /\ Len(c \o nl) = Len(c) + Len(nl)
          /\ \A i \in 1 .. Len(c) : (c \o nl)[i] = c[i]
      BY <3>0, Extended, Zenon
    <3>2. \A i \in 1 .. Len(nl) : (c \o nl)[Len(c) + i] = nl[i]
      BY <3>0, Extended
    <3> QED BY <1>c, <3>1, <3>2
  <2> QED BY <1>5, <1>9, <2>1, Zenon
<1> DEFINE lk == Len(k)
           lv == Len(v)
<1>11. lk \in Nat /\ lv \in Nat
  BY <1>3
<1>12. /\ \A i \in 1 .. lk : a[i] = k[i]
       /\ a[lk + 1] = NL
       /\ \A i \in 1 .. lk + 1 : b[i] = a[i]
       /\ \A d \in 1 .. LenDigits : b[(lk + 1) + d] = g[d]
       /\ \A i \in 1 .. (lk + 1) + LenDigits : c[i] = b[i]
       /\ \A j \in 1 .. lv : c[((lk + 1) + LenDigits) + j] = v[j]
       /\ \A i \in 1 .. ((lk + 1) + LenDigits) + lv : p[i] = c[i]
  <2>1. 1 \in 1 .. 1
    OBVIOUS
  <2>2. a[lk + 1] = NL
    BY <1>5, <1>7, <2>1, Zenon
  <2> QED BY <1>7, <1>8, <1>9, <1>10, <2>2, Zenon
<1> HIDE DEF lk, lv
<1>13. \A i \in 1 .. lk : p[i] = k[i]
  BY <1>0, <1>11, <1>12
<1>14. p[lk + 1] = NL
  BY <1>0, <1>11, <1>12
<1>15. \A d \in 1 .. LenDigits : p[lk + 1 + d] = g[d]
  BY <1>0, <1>11, <1>12
<1>16. \A j \in 1 .. lv : p[lk + 1 + LenDigits + j] = v[j]
  BY <1>0, <1>11, <1>12
<1> QED BY <1>1, <1>3, <1>6, <1>10, <1>13, <1>14, <1>15, <1>16
      DEF lk, lv, k, v, g, NameLen, FieldLen

-----------------------------------------------------------------------------
\* The fields of an event, each as it is sent.
Records(e) == [i \in DOMAIN e |-> PutField(e[i])]

\* They are sequences of units.
LEMMA RecordsShape ==
  ASSUME NEW e \in Seq(LogFields)
  PROVE  /\ Records(e) \in Seq(Seq(Nat)) /\ Len(Records(e)) = Len(e)
         /\ \A i \in 1 .. Len(e) : Records(e)[i] = PutField(e[i])
<1>1. Len(e) \in Nat /\ DOMAIN e = 1 .. Len(e) /\ \A i \in 1 .. Len(e) : e[i] \in LogFields
  BY LenProperties, ElementOfSeq
<1>2. \A i \in 1 .. Len(e) : PutField(e[i]) \in Seq(Nat)
  BY <1>1, FieldShape
<1>3. Records(e) = [i \in 1 .. Len(e) |-> PutField(e[i])]
  BY <1>1 DEF Records
<1> DEFINE r == Records(e)
           n == Len(e)
<1>4. n \in Nat /\ r \in [1 .. n -> Seq(Nat)] /\ \A i \in 1 .. n : r[i] = PutField(e[i])
  BY <1>1, <1>2, <1>3
<1> HIDE DEF r, n
<1>5. r \in Seq(Seq(Nat))
  BY <1>4, SeqDef
<1>6. Len(r) = n
  BY <1>4, <1>5, LenProperties
<1> QED BY <1>4, <1>5, <1>6 DEF r, n

\* The first fields of an event.
LEMMA FirstFields ==
  ASSUME NEW S, NEW e \in Seq(S), NEW n \in 0 .. Len(e)
  PROVE  /\ SubSeq(e, 1, n) \in Seq(S) /\ Len(SubSeq(e, 1, n)) = n
         /\ DOMAIN SubSeq(e, 1, n) = 1 .. n
         /\ \A i \in 1 .. n : SubSeq(e, 1, n)[i] = e[i]
<1>1. Len(e) \in Nat
  BY LenProperties
<1>2. /\ SubSeq(e, 0 + 1, n) \in Seq(S) /\ Len(SubSeq(e, 0 + 1, n)) = n - 0
      /\ \A i \in 1 .. n - 0 : SubSeq(e, 0 + 1, n)[i] = e[0 + i]
  BY <1>1, Slice
<1>3. /\ SubSeq(e, 1, n) \in Seq(S) /\ Len(SubSeq(e, 1, n)) = n
      /\ \A i \in 1 .. n : SubSeq(e, 1, n)[i] = e[i]
  BY <1>2
<1> QED BY <1>3, LenProperties

\* What is sent of them.
LEMMA Encodings ==
  ASSUME NEW e \in Seq(LogFields)
  PROVE  \E all : /\ Concats(all, Records(e), Nat)
                  /\ \A n \in 0 .. Len(e) : Encode(SubSeq(e, 1, n)) = all[n]
<1>1. /\ Records(e) \in Seq(Seq(Nat)) /\ Len(Records(e)) = Len(e) /\ Len(e) \in Nat
      /\ \A i \in 1 .. Len(e) : Records(e)[i] = PutField(e[i])
  BY RecordsShape, LenProperties
<1>2. PICK all : Concats(all, Records(e), Nat)
  BY <1>1, ConcatsExist
<1>3. ASSUME NEW n \in 0 .. Len(e) PROVE Encode(SubSeq(e, 1, n)) = all[n]
  <2> DEFINE d == SubSeq(e, 1, n)
  <2>1. d \in Seq(LogFields) /\ Len(d) = n /\ \A i \in 1 .. n : d[i] = e[i]
    BY FirstFields
  <2>2. Encode(d) = FlattenSeq(Records(d))
    BY DEF Encode, Records
  <2> HIDE DEF d
  <2>3. /\ Records(d) \in Seq(Seq(Nat)) /\ Len(Records(d)) = n
        /\ \A i \in 1 .. n : Records(d)[i] = PutField(d[i])
    BY <2>1, RecordsShape
  <2>4. \A i \in 1 .. n : i \in 1 .. Len(e)
    BY <1>1
  <2>5. all[0] = <<>> /\ \A i \in 1 .. Len(e) : all[i] = all[i - 1] \o Records(e)[i]
    BY <1>1, <1>2 DEF Concats
  <2>6. \A i \in 1 .. n : all[i] = all[i - 1] \o Records(d)[i]
    BY <1>1, <2>1, <2>3, <2>4, <2>5
  <2>7. \A i \in 1 .. Len(Records(d)) : all[i] = all[i - 1] \o Records(d)[i]
    BY <2>3, <2>6
  <2>8. FlattenSeq(Records(d)) = all[Len(Records(d))]
    BY <2>3, <2>5, <2>7, Flattened
  <2> QED BY <2>2, <2>3, <2>8 DEF d
<1> QED BY <1>2, <1>3

\* A field follows those before it in what is sent of an event.
LEMMA EncodedFields ==
  ASSUME NEW e \in Seq(LogFields), NEW n \in 0 .. Len(e)
  PROVE  /\ Encode(e) \in Seq(Nat) /\ Len(Encode(e)) \in Nat
         /\ Len(Encode(SubSeq(e, 1, n))) \in 0 .. Len(Encode(e))
         /\ n = 0 => Len(Encode(SubSeq(e, 1, n))) = 0
         /\ n = Len(e) => Len(Encode(SubSeq(e, 1, n))) = Len(Encode(e))
<1>1. PICK all : /\ Concats(all, Records(e), Nat)
                 /\ \A m \in 0 .. Len(e) : Encode(SubSeq(e, 1, m)) = all[m]
  BY Encodings
<1>2. /\ Records(e) \in Seq(Seq(Nat)) /\ Len(Records(e)) = Len(e) /\ Len(e) \in Nat
  BY RecordsShape, LenProperties
<1>3. SubSeq(e, 1, Len(e)) = e
  BY SubSeqFull
<1>4. Len(e) \in 0 .. Len(e) /\ Len(e) \in n .. Len(e)
  BY <1>2
<1>5. Encode(e) = all[Len(e)] /\ Encode(SubSeq(e, 1, n)) = all[n]
  BY <1>1, <1>3, <1>4
<1>6. /\ all[n] \in Seq(Nat) /\ all[Len(e)] \in Seq(Nat) /\ Len(all[n]) <= Len(all[Len(e)])
      /\ Len(all[n]) \in Nat /\ Len(all[Len(e)]) \in Nat
  BY <1>1, <1>2, <1>4, ConcatsGrow
<1>7. all[0] = <<>>
  BY <1>1 DEF Concats
<1>8. n = 0 => Len(all[n]) = 0
  BY <1>7
<1> QED BY <1>5, <1>6, <1>8

\* A field begins in what is sent of an event where those before it end.
LEMMA NextEncoded ==
  ASSUME NEW e \in Seq(LogFields), NEW n \in 0 .. Len(e) - 1
  PROVE  /\ e[n + 1] \in LogFields
         /\ Len(Encode(SubSeq(e, 1, n + 1)))
              = Len(Encode(SubSeq(e, 1, n))) + FieldLen(e[n + 1])
         /\ \A i \in 1 .. FieldLen(e[n + 1]) :
              Encode(e)[Len(Encode(SubSeq(e, 1, n))) + i] = PutField(e[n + 1])[i]
<1> DEFINE f == e[n + 1]
           N == Len(e)
<1>1. PICK all : /\ Concats(all, Records(e), Nat)
                 /\ \A m \in 0 .. N : Encode(SubSeq(e, 1, m)) = all[m]
  BY Encodings
<1>2. /\ Records(e) \in Seq(Seq(Nat)) /\ Len(Records(e)) = N /\ N \in Nat
      /\ \A i \in 1 .. N : Records(e)[i] = PutField(e[i]) /\ e[i] \in LogFields
  BY RecordsShape, LenProperties, ElementOfSeq
<1>3. /\ n \in 0 .. N /\ n + 1 \in 0 .. N /\ n + 1 \in 1 .. N /\ N \in 0 .. N
      /\ N \in n + 1 .. N /\ (n + 1) - 1 = n
  BY <1>2
<1>4. SubSeq(e, 1, N) = e
  BY SubSeqFull
<1>5. /\ Encode(e) = all[N] /\ Encode(SubSeq(e, 1, n)) = all[n]
      /\ Encode(SubSeq(e, 1, n + 1)) = all[n + 1]
  BY <1>1, <1>3, <1>4
<1>6. f \in LogFields /\ PutField(f) \in Seq(Nat) /\ Len(PutField(f)) = FieldLen(f)
  BY <1>2, <1>3, FieldShape
<1>7. all[n] \in Seq(Nat) /\ all[n + 1] = all[n] \o PutField(f)
  BY <1>1, <1>2, <1>3 DEF Concats
<1> DEFINE x == all[n]
           p == PutField(f)
           y == all[N]
<1> HIDE DEF x, p, y
<1>8. /\ x \in Seq(Nat) /\ p \in Seq(Nat) /\ all[n + 1] = x \o p
      /\ Len(x) \in Nat /\ Len(p) \in Nat /\ Len(p) = FieldLen(f)
  BY <1>6, <1>7, LenProperties DEF x, p
<1>9. Len(x \o p) = Len(x) + Len(p) /\ \A i \in 1 .. Len(p) : (x \o p)[Len(x) + i] = p[i]
  <2>1. x \in Seq(Nat) /\ p \in Seq(Nat)
    BY <1>8
  <2>2. Len(x \o p) = Len(x) + Len(p)
    BY <2>1, Extended, Zenon
  <2>3. \A i \in 1 .. Len(p) : (x \o p)[Len(x) + i] = p[i]
    BY <2>1, Extended
  <2> QED BY <2>2, <2>3
<1>10. \A i \in 1 .. Len(all[n + 1]) : y[i] = all[n + 1][i]
  <2>1. \A m \in 0 .. Len(Records(e)) : \A i \in 1 .. Len(all[m]) :
          all[Len(Records(e))][i] = all[m][i]
    BY <1>1, <1>2, ConcatsLast
  <2> QED BY <1>2, <1>3, <2>1 DEF y
<1>11. ASSUME NEW i \in 1 .. Len(p) PROVE y[Len(x) + i] = p[i]
  <2>1. Len(x) + i \in 1 .. Len(x \o p)
    BY <1>8, <1>9
  <2>2. y[Len(x) + i] = (x \o p)[Len(x) + i]
    BY <1>8, <1>10, <2>1
  <2> QED BY <1>9, <2>2
<1>12. Len(all[n + 1]) = Len(x) + Len(p)
  BY <1>8, <1>9
<1>13. /\ Encode(SubSeq(e, 1, n)) = x /\ Len(Encode(SubSeq(e, 1, n + 1))) = Len(x) + Len(p)
       /\ Encode(e) = y
  BY <1>5, <1>12 DEF x, y
<1>14. \A i \in 1 .. FieldLen(f) : Encode(e)[Len(x) + i] = p[i]
  BY <1>8, <1>11, <1>13
<1> QED BY <1>6, <1>8, <1>13, <1>14 DEF p

-----------------------------------------------------------------------------
\* The greatest of some numbers below a bound.
LEMMA MaxOf ==
  ASSUME NEW n \in Nat, NEW T, T \subseteq 1 .. n, T # {}
  PROVE  Max(T) \in T /\ \A x \in T : x <= Max(T)
<1> DEFINE D == {d \in Nat : n - d \in T}
<1>1. D # {}
  <2>1. PICK x \in T : TRUE
    OBVIOUS
  <2>2. x \in 1 .. n /\ n - x \in Nat /\ n - (n - x) = x
    BY <2>1
  <2>3. n - x \in D
    BY <2>1, <2>2
  <2> QED BY <2>3
<1>2. PICK d \in D : \A c \in D : ~(c < d)
  <2>1. D \subseteq Nat
    OBVIOUS
  <2> HIDE DEF D
  <2> QED BY <1>1, <2>1, LeastNumber
<1>3. n - d \in T /\ n - d \in Nat
  BY <1>2
<1>4. ASSUME NEW x \in T PROVE x <= n - d
  <2>1. x \in 1 .. n /\ n - x \in Nat /\ n - (n - x) = x
    OBVIOUS
  <2>2. n - x \in D
    BY <2>1
  <2>3. ~(n - x < d) /\ d \in Nat
    BY <1>2, <2>2
  <2> QED BY <2>1, <2>3
<1>5. \E y \in T : \A x \in T : y >= x
  BY <1>3, <1>4
<1>6. Max(T) \in T /\ \A x \in T : Max(T) >= x
  BY <1>5 DEF Max
<1> QED BY <1>6

\* An element that bounds the others is the greatest.
LEMMA MaxIs ==
  ASSUME NEW n \in Nat, NEW T, T \subseteq 1 .. n, NEW m \in T, \A x \in T : x <= m
  PROVE  Max(T) = m
<1>1. Max(T) \in T /\ \A x \in T : x <= Max(T)
  BY MaxOf
<1> DEFINE x == Max(T)
<1>2. x \in T /\ m <= x /\ x <= m
  BY <1>1
<1> HIDE DEF x
<1>3. x \in 1 .. n /\ m \in 1 .. n
  BY <1>2
<1>4. x = m
  BY <1>2, <1>3
<1> QED BY <1>4 DEF x

\* The keys a log holds.
LogKeys(e) == {e[i].key : i \in {j \in DOMAIN e : Counts(e[j])}}

\* LogOf by its keys.
LEMMA LogIs ==
  ASSUME NEW e
  PROVE  LogOf(e) = [k \in LogKeys(e) |-> e[Max(Setting(e, k))].value]
BY DEF LogOf, LogKeys

\* A field more in the event is an update of the log.
LEMMA LogGrows ==
  ASSUME NEW e \in Seq(LogFields), NEW n \in 0 .. Len(e) - 1
  PROVE  LogOf(SubSeq(e, 1, n + 1))
           = Update(LogOf(SubSeq(e, 1, n)), e[n + 1].key, e[n + 1].value)
<1> DEFINE f == e[n + 1]
           a == SubSeq(e, 1, n)
           b == SubSeq(e, 1, n + 1)
           V(k) == a[Max(Setting(a, k))].value
           W(k) == b[Max(Setting(b, k))].value
<1>0. Len(e) \in Nat /\ n \in Nat /\ n \in 0 .. Len(e) /\ n + 1 \in 0 .. Len(e)
  BY LenProperties
<1>1. /\ DOMAIN a = 1 .. n /\ DOMAIN b = 1 .. n + 1
      /\ \A i \in 1 .. n : a[i] = e[i]
      /\ \A i \in 1 .. n + 1 : b[i] = e[i]
  BY <1>0, FirstFields, Zenon
<1>2. LogOf(a) = [k \in LogKeys(a) |-> V(k)] /\ LogOf(b) = [k \in LogKeys(b) |-> W(k)]
  BY LogIs, Zenon
<1> HIDE DEF a, b
<1>3. /\ b[n + 1] = f /\ \A i \in 1 .. n : b[i] = a[i] /\ i \in 1 .. n + 1
      /\ \A i \in 1 .. n + 1 : i \in 1 .. n \/ i = n + 1
      /\ n + 1 \in 1 .. n + 1 /\ n + 1 \notin 1 .. n
  BY <1>0, <1>1
<1> HIDE DEF f
<1>4. ASSUME NEW k, k # f.key \/ ~Counts(f)
      PROVE  Setting(b, k) = Setting(a, k) /\ (k \in LogKeys(b) <=> k \in LogKeys(a))
  <2>1. \A i : i \in Setting(b, k) <=> i \in Setting(a, k)
    BY <1>1, <1>3, <1>4 DEF Setting
  <2>2. k \in LogKeys(b) <=> Setting(b, k) # {}
    BY DEF LogKeys, Setting
  <2>3. k \in LogKeys(a) <=> Setting(a, k) # {}
    BY DEF LogKeys, Setting
  <2> QED BY <2>1, <2>2, <2>3
<1>5. ASSUME NEW k, k # f.key \/ ~Counts(f), k \in LogKeys(a)
      PROVE  W(k) = V(k)
  <2>1. Setting(a, k) # {} /\ Setting(a, k) \subseteq 1 .. n
    BY <1>1, <1>5 DEF LogKeys, Setting
  <2>2. Max(Setting(a, k)) \in 1 .. n
    BY <1>0, <2>1, MaxOf
  <2>3. Setting(b, k) = Setting(a, k)
    BY <1>4, <1>5
  <2> QED BY <1>3, <2>2, <2>3
<1>6. CASE ~Counts(f)
  <2>1. Update(LogOf(a), f.key, f.value) = LogOf(a)
    BY <1>6 DEF Update, Counts
  <2>2. LogKeys(b) = LogKeys(a)
    BY <1>4, <1>6
  <2>3. \A k \in LogKeys(a) : W(k) = V(k)
    BY <1>5, <1>6
  <2> HIDE DEF V, W
  <2>4. LogOf(b) = LogOf(a)
    BY <1>2, <2>2, <2>3
  <2> QED BY <2>1, <2>4 DEF a, b, f
<1>7. CASE Counts(f)
  <2> DEFINE Updated == [k \in {f.key} \cup DOMAIN LogOf(a) |->
                          IF k = f.key THEN f.value ELSE LogOf(a)[k]]
  <2>1. Update(LogOf(a), f.key, f.value) = Updated
    BY <1>7 DEF Update, Counts
  <2>2. f.key \in LogKeys(b) /\ W(f.key) = f.value
    <3>1. n + 1 \in Setting(b, f.key) /\ Setting(b, f.key) \subseteq 1 .. n + 1
      BY <1>1, <1>3, <1>7 DEF Setting
    <3>2. Max(Setting(b, f.key)) = n + 1
      <4>1. n + 1 \in Nat /\ \A x \in 1 .. n + 1 : x <= n + 1
        BY <1>0
      <4> QED BY <3>1, <4>1, MaxIs
    <3>3. f.key \in LogKeys(b)
      BY <1>1, <1>3, <1>7 DEF LogKeys
    <3> QED BY <1>3, <3>2, <3>3
  <2>3. LogKeys(b) = {f.key} \cup LogKeys(a)
    <3>1. \A k : k # f.key => (k \in LogKeys(b) <=> k \in LogKeys(a))
      BY <1>4
    <3> QED BY <2>2, <3>1
  <2>4. \A k \in LogKeys(a) : k # f.key => W(k) = V(k)
    BY <1>5
  <2> HIDE DEF V, W
  <2>5. Updated =
           [k \in {f.key} \cup LogKeys(a) |-> IF k = f.key THEN f.value ELSE V(k)]
    BY <1>2
  <2>6. LogOf(b) = [k \in {f.key} \cup LogKeys(a) |-> W(k)]
    BY <1>2, <2>3
  <2>7. \A k \in {f.key} \cup LogKeys(a) : W(k) = IF k = f.key THEN f.value ELSE V(k)
    BY <2>2, <2>4
  <2>8. LogOf(b) = Updated
    BY <2>5, <2>6, <2>7
  <2> QED BY <2>1, <2>8 DEF a, b, f
<1> QED BY <1>6, <1>7

-----------------------------------------------------------------------------
\* What from_raw finds at a place where a field of the event begins: that field,
\* if it has arrived.
LEMMA NextField ==
  ASSUME LogTypes, NEW n \in 0 .. Len(event), Taken(n)
  PROVE  /\ HasField =>
              /\ n < Len(event) /\ ValueEnd \in Nat /\ ValueEnd <= Len(raw)
              /\ ValueEnd + 1 = Len(Encode(First(n + 1)))
              /\ SubSeq(raw, index + 1, KeyEnd) = event[n + 1].key
              /\ SubSeq(raw, ValueBegin + 1, ValueEnd) = event[n + 1].value
         /\ n < Len(event) /\ Len(Encode(First(n + 1))) <= Len(raw) => HasField
<1> DEFINE all == Encode(event)
           c == Len(raw)
           o == index
<1>0. /\ LenDigits \in Nat /\ Radix \in Nat /\ Radix > 1 /\ NL \in Nat /\ NL < Radix
      /\ event \in Seq(LogFields) /\ Len(event) \in Nat
  BY BoundAssumption, ByteAssumption, LenProperties DEF LogTypes
<1>1. /\ all \in Seq(Nat) /\ Len(all) \in Nat /\ c \in 0 .. Len(all) /\ c \in Nat
      /\ o \in 0 .. Len(all) /\ o \in Nat /\ o <= c + 1
      /\ n = Len(event) => o = Len(all)
  BY <1>0, EncodedFields DEF Taken, First
<1>2. raw \in Seq(Nat) /\ \A i \in 1 .. c : raw[i] = all[i]
  <2>1. SubSeq(all, 1, c) \in Seq(Nat) /\ \A i \in 1 .. c : SubSeq(all, 1, c)[i] = all[i]
    BY <1>1, FirstFields
  <2>2. raw = SubSeq(all, 1, c)
    BY DEF Taken
  <2> QED BY <2>1, <2>2
<1>3. Newlines = {i \in o .. c - 1 : raw[i + 1] = NL}
  BY DEF Newlines
<1>4. CASE n = Len(event)
  <2>1. o .. c - 1 = {}
    BY <1>1, <1>4
  <2>2. Newlines = {}
    BY <1>3, <2>1
  <2>3. ~HasField
    BY <2>2 DEF HasField
  <2> QED BY <1>0, <1>4, <2>3
<1>5. CASE n # Len(event)
  <2> DEFINE f == event[n + 1]
             k == NameLen(f)
             v == Len(f.value)
             p == PutField(f)
             o1 == Len(Encode(First(n + 1)))
  <2>0. n \in 0 .. Len(event) - 1 /\ n < Len(event)
    BY <1>0, <1>5
  <2>1. /\ f \in LogFields /\ o1 = o + FieldLen(f)
        /\ \A i \in 1 .. FieldLen(f) : all[o + i] = p[i]
    BY <1>0, <2>0, NextEncoded DEF Taken, First
  <2>2. /\ f.key \in Seq(Unit) /\ k \in Nat /\ f.value \in Strings /\ v \in Nat
        /\ \A i \in 1 .. k : p[i] = f.key[i]
        /\ p[k + 1] = NL
        /\ \A d \in 1 .. LenDigits : p[k + 1 + d] = Digits(v)[d]
        /\ \A j \in 1 .. v : p[k + 1 + LenDigits + j] = f.value[j]
    BY <2>1, FieldShape
  <2>3. FieldLen(f) = k + 1 + LenDigits + v + 1
    BY DEF FieldLen
  <2>4. Len(f.key) = k
    BY DEF NameLen
  <2> HIDE DEF all, c, o, f, k, v, p, o1
  <2>a. o \in Nat /\ c \in Nat /\ k \in Nat /\ v \in Nat /\ LenDigits \in Nat
    BY <1>0, <1>1, <2>2
  <2>5. \A i \in 1 .. k + 1 + LenDigits + v + 1 : o + i <= c => raw[o + i] = p[i]
    <3> SUFFICES ASSUME NEW i \in 1 .. k + 1 + LenDigits + v + 1, o + i <= c
                 PROVE  raw[o + i] = p[i]
      OBVIOUS
    <3>1. o + i \in 1 .. c /\ i \in 1 .. FieldLen(f)
      BY <2>3, <2>a
    <3> QED BY <1>2, <2>1, <3>1
  <2>6. \A i \in 1 .. k : f.key[i] \in Nat /\ f.key[i] >= Radix
    BY <2>2, <2>4, ElementOfSeq DEF Unit
  <2>7. ASSUME NEW i \in Newlines PROVE i >= o + k
    <3>1. i \in o .. c - 1 /\ raw[i + 1] = NL
      BY <1>3
    <3>2. SUFFICES ASSUME i < o + k PROVE FALSE
      BY <1>1, <2>2, <3>1
    <3> DEFINE j == i + 1 - o
    <3>3. /\ j \in 1 .. k /\ j \in 1 .. k + 1 + LenDigits + v + 1
          /\ o + j = i + 1 /\ o + j <= c
      BY <1>0, <1>1, <2>2, <3>1, <3>2
    <3> HIDE DEF j
    <3>4. raw[i + 1] = f.key[j]
      BY <2>2, <2>5, <3>3
    <3> QED BY <1>0, <2>6, <3>1, <3>3, <3>4
  <2>8. ASSUME o + k < c PROVE Newlines # {} /\ KeyEnd = o + k
    <3>1. k + 1 \in 1 .. k + 1 + LenDigits + v + 1 /\ o + (k + 1) <= c
      BY <2>8, <2>a
    <3>2. raw[o + (k + 1)] = NL
      BY <2>2, <2>5, <3>1
    <3>3. o + k \in o .. c - 1 /\ (o + k) + 1 = o + (k + 1)
      BY <2>8, <2>a
    <3>4. o + k \in Newlines
      BY <1>3, <3>2, <3>3
    <3>5. \A i \in Newlines : i \in Nat
      BY <1>1, <1>3
    <3>6. KeyEnd \in Newlines /\ KeyEnd <= o + k
      <4>1. \A j \in Newlines : o + k <= j
        BY <1>1, <2>2, <2>7, <3>5
      <4>2. \E i \in Newlines : \A j \in Newlines : i <= j
        BY <3>4, <4>1
      <4>3. KeyEnd \in Newlines /\ \A j \in Newlines : KeyEnd <= j
        BY <4>2 DEF KeyEnd
      <4> QED BY <3>4, <4>3
    <3>7. KeyEnd \in Nat /\ KeyEnd >= o + k
      BY <2>7, <3>5, <3>6
    <3> DEFINE x == KeyEnd
    <3> HIDE DEF x
    <3>8. x = o + k
      BY <2>a, <3>6, <3>7 DEF x
    <3> QED BY <3>4, <3>8 DEF x
  <2>9. Newlines # {} => o + k < c
    <3> SUFFICES ASSUME NEW i \in Newlines PROVE o + k < c
      OBVIOUS
    <3>1. i \in o .. c - 1 /\ i >= o + k
      BY <1>3, <2>7
    <3> QED BY <1>1, <2>2, <3>1
  <2>10. ASSUME o + k < c, o + k + 1 + LenDigits <= c
         PROVE  ValueBegin = o + k + 1 + LenDigits /\ ValueEnd = o + k + 1 + LenDigits + v
    <3> DEFINE b == ValueBegin
    <3>1. KeyEnd = o + k
      BY <2>8, <2>10
    <3>2. b = o + k + 1 + LenDigits
      BY <3>1 DEF ValueBegin
    <3>3. b \in Nat
      BY <1>0, <1>1, <2>2, <3>2
    <3>4. ASSUME NEW d \in 1 .. LenDigits
          PROVE  raw[b + 1 - d] = Digits(v)[LenDigits + 1 - d]
      <4> DEFINE j == LenDigits + 1 - d
                 i == k + 1 + j
      <4>1. j \in 1 .. LenDigits /\ j \in Int /\ i \in 1 .. k + 1 + LenDigits + v + 1
        BY <1>0, <2>2
      <4>2. b + 1 - d = o + i /\ o + i <= c
        BY <1>0, <1>1, <2>2, <2>10, <3>2
      <4>3. raw[o + i] = p[i]
        <5> HIDE DEF i
        <5> QED BY <2>5, <4>1, <4>2
      <4>4. p[i] = Digits(v)[j]
        <5> HIDE DEF j
        <5> QED BY <2>2, <4>1
      <4> QED BY <4>2, <4>3, <4>4
    <3>5. Rest(v)[LenDigits] = 0
      BY <2>2 DEF Strings, IsString, v
    <3>6. ValueLen = v
      BY <2>2, <3>3, <3>4, <3>5, LengthBack
    <3>7. ValueEnd = b + v
      BY <3>6 DEF ValueEnd
    <3> QED BY <3>2, <3>7
  <2>11. ASSUME HasField
         PROVE  /\ n < Len(event) /\ ValueEnd \in Nat /\ ValueEnd <= c /\ ValueEnd + 1 = o1
                /\ SubSeq(raw, o + 1, KeyEnd) = f.key
                /\ SubSeq(raw, ValueBegin + 1, ValueEnd) = f.value
    <3>1. Newlines # {} /\ ValueBegin < c /\ ValueEnd <= c
      BY <2>11 DEF HasField, c
    <3>2. o + k < c /\ KeyEnd = o + k
      BY <2>8, <2>9, <3>1
    <3>3. ValueBegin = o + k + 1 + LenDigits
      BY <3>2 DEF ValueBegin
    <3> DEFINE b == o + k + 1 + LenDigits
    <3>4. b \in Nat /\ b <= c
      BY <1>0, <1>1, <2>2, <3>1, <3>3
    <3>5. ValueEnd = b + v /\ b + v <= c /\ ValueEnd \in Nat
      BY <2>10, <2>a, <3>1, <3>2, <3>4
    <3>6. ValueEnd + 1 = o1
      BY <1>0, <1>1, <2>1, <2>2, <2>3, <3>5
    <3>7. SubSeq(raw, o + 1, o + k) = f.key
      <4>1. o \in 0 .. c /\ o + k \in o .. c /\ (o + k) - o = k
        BY <2>a, <3>2
      <4> DEFINE s == SubSeq(raw, o + 1, o + k)
      <4>2. s \in Seq(Nat) /\ Len(s) = k /\ \A i \in 1 .. k : s[i] = raw[o + i]
        <5> DEFINE q == o + k
        <5>1. o \in 0 .. Len(raw) /\ q \in o .. Len(raw) /\ q - o = k
          BY <4>1 DEF c
        <5> HIDE DEF q
        <5>2. /\ SubSeq(raw, o + 1, q) \in Seq(Nat) /\ Len(SubSeq(raw, o + 1, q)) = q - o
              /\ \A i \in 1 .. q - o : SubSeq(raw, o + 1, q)[i] = raw[o + i]
          BY <1>2, <5>1, Slice
        <5> QED BY <5>1, <5>2 DEF q
      <4> HIDE DEF s
      <4>3. ASSUME NEW i \in 1 .. k PROVE s[i] = f.key[i]
        <5>1. o + i <= c /\ i \in 1 .. k + 1 + LenDigits + v + 1
          BY <1>0, <1>1, <2>2, <3>2
        <5> QED BY <2>2, <2>5, <4>2, <5>1
      <4>4. s = f.key
        BY <2>2, <2>4, <4>2, <4>3, SeqEqual
      <4> QED BY <4>4 DEF s
    <3>8. SubSeq(raw, b + 1, b + v) = f.value
      <4>1. b \in 0 .. c /\ b + v \in b .. c /\ (b + v) - b = v
        BY <2>a, <3>4, <3>5
      <4> DEFINE s == SubSeq(raw, b + 1, b + v)
      <4>2. s \in Seq(Nat) /\ Len(s) = v /\ \A i \in 1 .. v : s[i] = raw[b + i]
        <5> DEFINE q == b + v
        <5>1. b \in 0 .. Len(raw) /\ q \in b .. Len(raw) /\ q - b = v
          BY <4>1 DEF c
        <5> HIDE DEF q, b
        <5>2. /\ SubSeq(raw, b + 1, q) \in Seq(Nat) /\ Len(SubSeq(raw, b + 1, q)) = q - b
              /\ \A i \in 1 .. q - b : SubSeq(raw, b + 1, q)[i] = raw[b + i]
          BY <1>2, <5>1, Slice
        <5> QED BY <5>1, <5>2 DEF q
      <4> HIDE DEF s
      <4>3. ASSUME NEW i \in 1 .. v PROVE s[i] = f.value[i]
        <5>1. /\ o + (k + 1 + LenDigits + i) = b + i /\ b + i <= c
              /\ k + 1 + LenDigits + i \in 1 .. k + 1 + LenDigits + v + 1
          BY <1>0, <1>1, <2>2, <3>5
        <5>2. raw[b + i] = p[k + 1 + LenDigits + i]
          BY <2>5, <5>1
        <5> QED BY <2>2, <4>2, <5>2
      <4>4. f.value \in Seq(0 .. Radix - 1) /\ Len(f.value) = v
        BY <2>2 DEF Strings, v
      <4>5. s = f.value
        BY <4>2, <4>3, <4>4, SeqEqual
      <4> QED BY <4>5 DEF s
    <3> QED BY <2>0, <3>1, <3>2, <3>3, <3>5, <3>6, <3>7, <3>8
  <2>12. ASSUME o1 <= c PROVE HasField
    <3>1. o + k < c /\ o + k + 1 + LenDigits + v < c /\ o + k + 1 + LenDigits < c /\ k < c - 1
      BY <1>0, <1>1, <2>1, <2>2, <2>3, <2>12
    <3>2. Newlines # {} /\ KeyEnd = o + k
      BY <2>8, <3>1
    <3>3. ValueBegin = o + k + 1 + LenDigits /\ ValueEnd = o + k + 1 + LenDigits + v
      BY <1>0, <1>1, <2>2, <2>10, <3>1
    <3>4. KeyEnd - o = k /\ ValueBegin < c /\ ValueEnd <= c
      BY <2>a, <3>1, <3>2, <3>3
    <3> QED BY <3>1, <3>2, <3>4 DEF HasField, c, o
  <2> QED BY <2>11, <2>12 DEF c, o, o1, f
<1> QED BY <1>4, <1>5

-----------------------------------------------------------------------------
\* The fields the layer makes.
LEMMA FieldType ==
  ASSUME NEW k \in Seq(Unit), NEW v, IsString(v)
  PROVE  Field(k, v) \in LogFields
BY DEF Field, LogFields, Strings, IsString

\* Names of fields are units outside the bytes, those of a span's fields too.
LEMMA NameTypes ==
  /\ {PRIORITY, TARGET, CODE_FILE, CODE_LINE, MESSAGE, NAME, USER} \subseteq Seq(Unit)
  /\ \A d \in Nat, k \in Seq(Unit) : SpanKey(d, k) \in Seq(Unit)
<1>1. Radix \in Nat
  BY ByteAssumption
<1>2. \A u \in Unit : <<u>> \in Seq(Unit)
  OBVIOUS
<1>3. \A d \in Nat : Radix + d \in Unit /\ Radix + 10 + d \in Unit
  BY <1>1 DEF Unit
<1>4. {PRIORITY, TARGET, CODE_FILE, CODE_LINE, MESSAGE, NAME, USER} \subseteq Seq(Unit)
  <2>1. /\ Radix \in Unit /\ Radix + 1 \in Unit /\ Radix + 2 \in Unit /\ Radix + 3 \in Unit
        /\ Radix + 4 \in Unit /\ Radix + 5 \in Unit /\ Radix + 6 \in Unit
    BY <1>1 DEF Unit
  <2> QED BY <1>2, <2>1
          DEF PRIORITY, TARGET, CODE_FILE, CODE_LINE, MESSAGE, NAME, USER
<1>5. ASSUME NEW d \in Nat, NEW k \in Seq(Unit) PROVE SpanKey(d, k) \in Seq(Unit)
  <2>1. <<Radix + 10 + d>> \in Seq(Unit)
    BY <1>2, <1>3
  <2> QED BY <2>1, ConcatProperties DEF SpanKey
<1> QED BY <1>4, <1>5

\* The fields of a callsite.
LEMMA MetadataType ==
  ASSUME NEW c \in Callsites
  PROVE  Metadata(c) \in Seq(LogFields)
<1> DEFINE t == <<Field(TARGET, c.target)>>
           m == IF c.file = None THEN <<>> ELSE <<Field(CODE_FILE, c.file)>>
           l == IF c.line = None THEN <<>> ELSE <<Field(CODE_LINE, c.line)>>
<1>1. /\ IsString(c.target)
      /\ c.file # None => IsString(c.file)
      /\ c.line # None => IsString(c.line)
  BY StringAssumption
<1>2. Field(TARGET, c.target) \in LogFields
  BY <1>1, NameTypes, FieldType
<1>3. ASSUME c.file # None PROVE Field(CODE_FILE, c.file) \in LogFields
  <2>1. IsString(c.file) /\ CODE_FILE \in Seq(Unit)
    BY <1>1, <1>3, NameTypes
  <2> QED BY <2>1, FieldType
<1>4. ASSUME c.line # None PROVE Field(CODE_LINE, c.line) \in LogFields
  <2>1. IsString(c.line) /\ CODE_LINE \in Seq(Unit)
    BY <1>1, <1>4, NameTypes
  <2> QED BY <2>1, FieldType
<1>5. \A f \in LogFields : <<f>> \in Seq(LogFields)
  OBVIOUS
<1>6. t \in Seq(LogFields) /\ m \in Seq(LogFields) /\ l \in Seq(LogFields)
  BY <1>2, <1>3, <1>4, <1>5, EmptySeq
<1>7. Metadata(c) = t \o m \o l
  BY DEF Metadata
<1> HIDE DEF t, m, l
<1>8. t \o m \in Seq(LogFields)
  BY <1>6, ConcatProperties
<1>9. t \o m \o l \in Seq(LogFields)
  BY <1>6, <1>8, ConcatProperties
<1> QED BY <1>7, <1>9

\* The fields of a span.
LEMMA InSpanType ==
  ASSUME NEW d \in Nat, NEW e \in Seq(LogFields)
  PROVE  InSpan(d, e) \in Seq(LogFields)
<1>1. Len(e) \in Nat /\ DOMAIN e = 1 .. Len(e) /\ \A i \in 1 .. Len(e) : e[i] \in LogFields
  BY LenProperties, ElementOfSeq
<1>2. ASSUME NEW f \in LogFields PROVE Field(SpanKey(d, f.key), f.value) \in LogFields
  <2>1. f.key \in Seq(Unit) /\ IsString(f.value)
    BY DEF LogFields, Strings
  <2> QED BY <2>1, NameTypes, FieldType
<1> DEFINE r == InSpan(d, e)
           n == Len(e)
<1>3. n \in Nat /\ r \in [1 .. n -> LogFields]
  BY <1>1, <1>2 DEF InSpan
<1> HIDE DEF r, n
<1>4. r \in Seq(LogFields)
  BY <1>3, SeqDef
<1> QED BY <1>4 DEF r

\* A log begins without values.
LEMMA LogBegins ==
  ASSUME NEW e \in Seq(LogFields)
  PROVE  LogOf(SubSeq(e, 1, 0)) = <<>>
<1> DEFINE a == SubSeq(e, 1, 0)
           l == LogOf(a)
<1>1. DOMAIN a = {}
  <2>1. 0 \in 0 .. Len(e)
    BY LenProperties
  <2>2. DOMAIN a = 1 .. 0
    BY <2>1, FirstFields
  <2> QED BY <2>2
<1>2. LogKeys(a) = {}
  BY <1>1 DEF LogKeys
<1>3. l = [k \in {} |-> a[Max(Setting(a, k))].value]
  BY <1>2, LogIs
<1> HIDE DEF a
<1>4. l \in [1 .. 0 -> Nat]
  BY <1>3
<1> HIDE DEF l
<1>5. l \in Seq(Nat)
  BY <1>4, SeqDef
<1>6. Len(l) = 0
  BY <1>4, <1>5, LenProperties
<1>7. l = <<>>
  BY <1>5, <1>6, EmptySeq
<1> QED BY <1>7 DEF l, a

-----------------------------------------------------------------------------
\* Nothing is parsed at first.
LEMMA LogInitHolds == LogInit => LogInv
<1> SUFFICES ASSUME LogInit PROVE LogInv
  OBVIOUS
<1>1. \A S : <<>> \in Seq(S)
  BY EmptySeq
<1> QED BY <1>1 DEF LogInit, LogInv, LogTypes, Parsing

\* The enclave's side does not touch what the server has.
LEMMA LayerSteps ==
  ASSUME LogInv, \/ \E c \in Callsites : NewSpan(c)
                 \/ \E v \in Values : RecordField(v)
                 \/ ExitSpan
                 \/ \E c \in Callsites, level \in Levels, f \in EventFields : OnEvent(c, level, f)
  PROVE  LogInv'
<1>0. spans \in Seq(Seq(LogFields)) /\ queue \in Seq(Seq(LogFields)) /\ event \in Seq(LogFields)
  BY DEF LogInv, LogTypes
<1>1. Parsing'
  BY DEF LogInv, Parsing, Taken, AllTaken, First, NewSpan, RecordField, ExitSpan, OnEvent, server
<1>2. event' \in Seq(LogFields)
  BY <1>0 DEF NewSpan, RecordField, ExitSpan, OnEvent, server
<1>3. ASSUME NEW c \in Callsites, NewSpan(c)
      PROVE  spans' \in Seq(Seq(LogFields)) /\ queue' \in Seq(Seq(LogFields))
  <2>1. <<Field(NAME, c.name)>> \in Seq(LogFields)
    <3>1. Field(NAME, c.name) \in LogFields
      BY NameTypes, StringAssumption, FieldType
    <3> QED BY <3>1
  <2>2. <<Field(NAME, c.name)>> \o Metadata(c) \in Seq(LogFields)
    BY <2>1, MetadataType, ConcatProperties
  <2>3. InSpan(Len(spans), <<Field(NAME, c.name)>> \o Metadata(c)) \in Seq(LogFields)
    BY <1>0, <2>2, InSpanType, LenProperties
  <2> QED BY <1>0, <1>3, <2>3, AppendProperties DEF NewSpan
<1>4. ASSUME NEW v \in Values, RecordField(v)
      PROVE  spans' \in Seq(Seq(LogFields)) /\ queue' \in Seq(Seq(LogFields))
  <2>1. Len(spans) \in Nat /\ Len(spans) # 0
    BY <1>0, <1>4, LenProperties, EmptySeq DEF RecordField
  <2>2. <<Field(USER, v)>> \in Seq(LogFields)
    <3>1. Field(USER, v) \in LogFields
      BY NameTypes, StringAssumption, FieldType
    <3> QED BY <3>1
  <2>3. InSpan(Len(spans) - 1, <<Field(USER, v)>>) \in Seq(LogFields)
    <3>1. Len(spans) - 1 \in Nat
      BY <2>1
    <3> QED BY <2>2, <3>1, InSpanType
  <2> DEFINE s == spans[Len(spans)] \o InSpan(Len(spans) - 1, <<Field(USER, v)>>)
  <2>4. s \in Seq(LogFields)
    <3>1. spans[Len(spans)] \in Seq(LogFields)
      BY <1>0, <2>1, ElementOfSeq
    <3> QED BY <2>3, <3>1, ConcatProperties
  <2>5. spans' = [spans EXCEPT ![Len(spans)] = s] /\ queue' = queue
    BY <1>4 DEF RecordField
  <2> HIDE DEF s
  <2>6. [spans EXCEPT ![Len(spans)] = s] \in Seq(Seq(LogFields))
    BY <1>0, <2>1, <2>4, ExceptSeq
  <2> QED BY <1>0, <2>5, <2>6
<1>5. ASSUME ExitSpan
      PROVE  spans' \in Seq(Seq(LogFields)) /\ queue' \in Seq(Seq(LogFields))
  <2>1. spans' = SubSeq(spans, 1, Len(spans) - 1) /\ queue' = queue /\ spans # <<>>
    BY <1>5 DEF ExitSpan, Front
  <2>2. Len(spans) - 1 \in 0 .. Len(spans)
    BY <1>0, <2>1, LenProperties, EmptySeq
  <2>3. SubSeq(spans, 1, Len(spans) - 1) \in Seq(Seq(LogFields))
    BY <1>0, <2>2, FirstFields
  <2> QED BY <1>0, <2>1, <2>3
<1>6. ASSUME NEW c \in Callsites, NEW level \in Levels, NEW fs \in EventFields,
             OnEvent(c, level, fs)
      PROVE  spans' \in Seq(Seq(LogFields)) /\ queue' \in Seq(Seq(LogFields))
  <2>1. FlattenSeq(spans) \in Seq(LogFields)
    BY <1>0, FlattenType
  <2>2. <<Field(PRIORITY, level)>> \in Seq(LogFields)
    <3>1. Field(PRIORITY, level) \in LogFields
      BY NameTypes, StringAssumption, FieldType
    <3> QED BY <3>1
  <2>3. fs \in Seq(LogFields)
    <3>1. \A v \in Values : /\ Field(MESSAGE, v) \in LogFields
                             /\ \A k \in UserNames : Field(k, v) \in LogFields
      BY NameTypes, StringAssumption, FieldType DEF UserNames
    <3>2. \A f, g \in LogFields : <<f>> \in Seq(LogFields) /\ <<f, g>> \in Seq(LogFields)
      OBVIOUS
    <3>3. \/ \E v \in Values : fs = <<Field(MESSAGE, v)>>
          \/ \E k \in UserNames, v \in Values, w \in Values :
               fs = <<Field(MESSAGE, v), Field(k, w)>>
      BY DEF EventFields
    <3> QED BY <3>1, <3>2, <3>3
  <2> DEFINE x == FlattenSeq(spans)
             y == <<Field(PRIORITY, level)>>
             z == Metadata(c)
             e == x \o y \o z \o fs
  <2>4. queue' = Append(queue, e) /\ spans' = spans
    BY <1>6 DEF OnEvent
  <2>5. x \in Seq(LogFields) /\ y \in Seq(LogFields) /\ z \in Seq(LogFields)
    BY <2>1, <2>2, MetadataType
  <2> HIDE DEF x, y, z
  <2>6. x \o y \in Seq(LogFields)
    BY <2>5, ConcatProperties
  <2>7. x \o y \o z \in Seq(LogFields)
    BY <2>5, <2>6, ConcatProperties
  <2>8. e \in Seq(LogFields)
    BY <2>3, <2>7, ConcatProperties
  <2> HIDE DEF e
  <2> QED BY <1>0, <2>4, <2>8, AppendProperties
<1> QED BY <1>1, <1>2, <1>3, <1>4, <1>5, <1>6 DEF LogInv, LogTypes

\* The server's steps outside from_raw.
LEMMA ServerSteps ==
  ASSUME LogInv, Listen \/ Accept \/ Fails \/ Wake \/ UpdatePanics \/ Show
  PROVE  LogInv'
<1>0. spans \in Seq(Seq(LogFields)) /\ queue \in Seq(Seq(LogFields)) /\ event \in Seq(LogFields)
  BY DEF LogInv, LogTypes
<1>1. Parsing'
  BY DEF Parsing, Listen, Accept, Fails, Wake, UpdatePanics, Show
<1>2. spans' \in Seq(Seq(LogFields))
  BY <1>0 DEF Listen, Accept, Fails, Wake, UpdatePanics, Show, server
<1>3. \A S : <<>> \in Seq(S)
  BY EmptySeq
<1>4. queue # <<>> => Head(queue) \in Seq(LogFields) /\ Tail(queue) \in Seq(Seq(LogFields))
  BY <1>0, HeadTailProperties
<1>5. queue' \in Seq(Seq(LogFields)) /\ event' \in Seq(LogFields)
  BY <1>0, <1>3, <1>4 DEF Listen, Accept, Fails, Wake, UpdatePanics, Show, server
<1> QED BY <1>1, <1>2, <1>5 DEF LogInv, LogTypes

\* A read gets the beginning of the event, and nothing of it is parsed yet.
LEMMA ReadStep ==
  ASSUME LogInv, Read
  PROVE  LogInv'
<1>0. LogTypes /\ event \in Seq(LogFields)
  BY DEF LogInv, LogTypes
<1>1. LogTypes' /\ event' = event
  BY <1>0 DEF Read, LogTypes
<1> DEFINE all == Encode(event)
<1>2. /\ all \in Seq(Nat) /\ Len(all) \in Nat /\ Len(Encode(SubSeq(event, 1, 0))) = 0
      /\ 0 \in 0 .. Len(event)
  <2>1. 0 \in 0 .. Len(event)
    BY <1>0, LenProperties
  <2> QED BY <1>0, <2>1, EncodedFields
<1>3. PICK n \in 0 .. Len(all) : raw' = SubSeq(all, 1, n)
  BY DEF Read
<1> HIDE DEF all
<1>4. Len(raw') = n
  BY <1>2, <1>3, FirstFields
<1>5. LogOf(SubSeq(event, 1, 0)) = <<>>
  BY <1>0, LogBegins
<1>6. index' = 0 /\ log' = <<>> /\ spc' = "parse"
  BY DEF Read
<1>7. Taken(0)'
  BY <1>1, <1>2, <1>3, <1>4, <1>5, <1>6 DEF Taken, First, all
<1>8. Parsing'
  BY <1>1, <1>2, <1>6, <1>7 DEF Parsing
<1> QED BY <1>1, <1>8 DEF LogInv

\* A step of from_raw's loop takes the next field of the event.
LEMMA ParseFieldStep ==
  ASSUME LogInv, ParseField
  PROVE  LogInv'
<1>0. LogTypes /\ event \in Seq(LogFields) /\ Len(event) \in Nat
  BY LenProperties DEF LogInv, LogTypes
<1>1. LogTypes' /\ event' = event /\ raw' = raw /\ spc' = spc /\ spc = "parse" /\ HasField
  BY <1>0 DEF ParseField, LogTypes
<1>2. PICK n \in 0 .. Len(event) : Taken(n)
  BY <1>1 DEF LogInv, Parsing
<1>3. /\ n < Len(event) /\ ValueEnd \in Nat /\ ValueEnd <= Len(raw)
      /\ ValueEnd + 1 = Len(Encode(First(n + 1)))
      /\ SubSeq(raw, index + 1, KeyEnd) = event[n + 1].key
      /\ SubSeq(raw, ValueBegin + 1, ValueEnd) = event[n + 1].value
  BY <1>0, <1>1, <1>2, NextField
<1>4. n \in 0 .. Len(event) - 1 /\ n + 1 \in 0 .. Len(event)
  BY <1>0, <1>2, <1>3
<1>5. log' = LogOf(First(n + 1))
  <2>1. log' = Update(LogOf(First(n)), event[n + 1].key, event[n + 1].value)
    BY <1>2, <1>3 DEF ParseField, FieldRead, Field, Taken
  <2> QED BY <1>0, <1>4, <2>1, LogGrows DEF First
<1> DEFINE j == Len(Encode(First(n + 1)))
           c == Len(raw)
           v == ValueEnd
<1>6. index' = v + 1 /\ v + 1 = j /\ v <= c /\ v \in Nat
  BY <1>3 DEF ParseField
<1>7. j \in Nat /\ c \in Nat
  BY <1>0, <1>2, <1>4, EncodedFields DEF Taken, First
<1>8. index' = j /\ j <= c + 1
  <2> HIDE DEF j, c, v
  <2> QED BY <1>6, <1>7
<1>9. Taken(n + 1)'
  BY <1>1, <1>2, <1>5, <1>8 DEF Taken, First
<1> QED BY <1>1, <1>4, <1>9 DEF LogInv, Parsing

\* The loop ends only where the next field has not arrived whole.
LEMMA ParseEndsStep ==
  ASSUME LogInv, ParseEnds
  PROVE  LogInv'
<1>0. LogTypes /\ event \in Seq(LogFields) /\ Len(event) \in Nat
  BY LenProperties DEF LogInv, LogTypes
<1>1. LogTypes' /\ UNCHANGED server /\ spc = "parse" /\ ~HasField
  BY <1>0 DEF ParseEnds, LogTypes, server
<1>2. PICK n \in 0 .. Len(event) : Taken(n)
  BY <1>1 DEF LogInv, Parsing
<1>3. ~(n < Len(event) /\ Len(Encode(First(n + 1))) <= Len(raw))
  BY <1>0, <1>1, <1>2, NextField
<1>4. AllTaken(n)
  <2> SUFFICES ASSUME n < Len(event) PROVE Len(Encode(First(n + 1))) > Len(raw)
    BY DEF AllTaken
  <2>1. n + 1 \in 0 .. Len(event)
    BY <1>0
  <2>2. Len(Encode(First(n + 1))) \in Nat /\ Len(raw) \in Nat
    BY <1>0, <1>2, <2>1, EncodedFields DEF Taken, First
  <2> QED BY <1>3, <2>2
<1>5. Taken(n)' /\ AllTaken(n)' /\ n \in 0 .. Len(event')
  BY <1>1, <1>2, <1>4 DEF Taken, AllTaken, First, server
<1> QED BY <1>1, <1>5 DEF LogInv, Parsing

\* Every step keeps the invariant.
LEMMA LogNextKeeps == LogInv /\ [LogNext]_logVars => LogInv'
<1> SUFFICES ASSUME LogInv, [LogNext]_logVars PROVE LogInv'
  OBVIOUS
<1>1. CASE UNCHANGED logVars
  BY <1>1 DEF logVars, server, LogInv, LogTypes, Parsing, Taken, AllTaken, First
<1>2. CASE \/ \E c \in Callsites : NewSpan(c)
           \/ \E v \in Values : RecordField(v)
           \/ ExitSpan
           \/ \E c \in Callsites, level \in Levels, f \in EventFields : OnEvent(c, level, f)
  BY <1>2, LayerSteps, Zenon
<1>3. CASE Listen \/ Accept \/ Fails \/ Wake \/ UpdatePanics \/ Show
  BY <1>3, ServerSteps, Zenon
<1>4. CASE Read
  BY <1>4, ReadStep, Zenon
<1>5. CASE ParseField
  BY <1>5, ParseFieldStep, Zenon
<1>6. CASE ParseEnds
  BY <1>6, ParseEndsStep, Zenon
<1> QED BY <1>1, <1>2, <1>3, <1>4, <1>5, <1>6, Zenon DEF LogNext

\* Log::from_raw, which takes one read for one record, makes a line of the first
\* fields of one event, whole and with the values they were logged with, and
\* misses none that arrived: for all values, lengths, cuts and buffers.
THEOREM LinesOfWholeFields == LogSpec => []ShowsWholeFields
<1>1. LogInv => ShowsWholeFields
  BY DEF LogInv, Parsing, Taken, AllTaken, First, ShowsWholeFields
<1>2. LogSpec => []LogInv
  BY LogInitHolds, LogNextKeeps, PTL DEF LogSpec
<1> QED BY <1>1, <1>2, PTL
=============================================================================
