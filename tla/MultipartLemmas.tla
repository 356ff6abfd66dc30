---------------------------- MODULE MultipartLemmas ----------------------------
(***************************************************************************)
(* What the parsers and the writer of Multipart do with one byte, for any  *)
(* well-formed forms: where everything is in the bytes of a form, what the *)
(* search for the delimiter finds, that the header parser reads an encoded *)
(* part with the event of each byte, and that each event leaves what has   *)
(* been taken of the part as it was sent.                                  *)
(***************************************************************************)
EXTENDS Multipart, SequenceTheorems, WellFoundedInduction, TLAPS

-----------------------------------------------------------------------------
(* Induction *)

(* A set with 0 that has with every number below n the next one has all of *)
(* them up to n. *)
LEMMA InductionUpTo ==
    ASSUME NEW n \in Nat, NEW T, 0 \in T,
           \A k \in 0 .. n - 1 : k \in T => k + 1 \in T
    PROVE  0 .. n \subseteq T
<1> DEFINE R == {r \in Nat \X Nat : r[1] < r[2]}
           Missing == (0 .. n) \ T
<1> SUFFICES ASSUME Missing # {} PROVE FALSE
    OBVIOUS
<1>1. IsWellFoundedOn(R, Nat)
    BY NatLessThanWellFounded DEF OpToRel
<1>2. Missing \subseteq Nat
    OBVIOUS
<1> HIDE DEF R
<1>3. PICK x \in Missing : \A y \in Missing : ~(<<y, x>> \in R)
  <2> HIDE DEF Missing
  <2> QED
    BY <1>1, <1>2, WFMin, Zenon
<1> USE DEF R
<1>4. \A y \in Missing : ~(y < x)
    BY <1>2, <1>3
<1>5. x - 1 \in T
    BY <1>4
<1> QED
    BY <1>5

-----------------------------------------------------------------------------
(* Sequences that are written out *)

(* A sequence of two bytes, element by element. *)
LEMMA Tuple2 ==
    ASSUME NEW S, NEW a \in S, NEW b \in S
    PROVE  /\ <<a, b>> \in Seq(S) /\ Len(<<a, b>>) = 2
           /\ <<a, b>>[1] = a /\ <<a, b>>[2] = b
OBVIOUS

(* A sequence of three bytes, element by element. *)
LEMMA Tuple3 ==
    ASSUME NEW S, NEW a \in S, NEW b \in S, NEW c \in S
    PROVE  /\ <<a, b, c>> \in Seq(S) /\ Len(<<a, b, c>>) = 3
           /\ <<a, b, c>>[1] = a /\ <<a, b, c>>[2] = b /\ <<a, b, c>>[3] = c
OBVIOUS

(* A sequence of four bytes, element by element. *)
LEMMA Tuple4 ==
    ASSUME NEW S, NEW a \in S, NEW b \in S, NEW c \in S, NEW d \in S
    PROVE  LET s == <<a, b, c, d>>
           IN  s \in Seq(S) /\ Len(s) = 4 /\ s[1] = a /\ s[2] = b /\ s[3] = c /\ s[4] = d
OBVIOUS

(* A sequence of five bytes, element by element. *)
LEMMA Tuple5 ==
    ASSUME NEW S, NEW a \in S, NEW b \in S, NEW c \in S, NEW d \in S, NEW e \in S
    PROVE  LET s == <<a, b, c, d, e>>
           IN  /\ s \in Seq(S) /\ Len(s) = 5
               /\ s[1] = a /\ s[2] = b /\ s[3] = c /\ s[4] = d /\ s[5] = e
OBVIOUS

(* c is s with t behind it. *)
Joins(S, c, s, t, m, n) ==
    /\ c \in Seq(S) /\ Len(c) = m + n
    /\ \A j \in 1 .. m : c[j] = s[j]
    /\ \A j \in 1 .. n : c[m + j] = t[j]

(* The concatenation of two sequences joins them. *)
LEMMA Joined ==
    ASSUME NEW S, NEW s \in Seq(S), NEW t \in Seq(S), NEW m, NEW n, m = Len(s), n = Len(t)
    PROVE  Joins(S, s \o t, s, t, m, n)
<1> DEFINE c == s \o t
<1>1. m \in Nat /\ n \in Nat
    BY LenProperties
<1>2. /\ c \in Seq(S) /\ Len(c) = Len(s) + Len(t)
      /\ \A i \in 1 .. Len(s) + Len(t) : c[i] = IF i <= Len(s) THEN s[i] ELSE t[i - Len(s)]
    BY ConcatProperties
<1> HIDE DEF c
<1>3. \A j \in 1 .. m : c[j] = s[j]
    BY <1>1, <1>2
<1>4. ASSUME NEW j \in 1 .. n PROVE c[m + j] = t[j]
  <2>1. m + j \in 1 .. m + n /\ ~(m + j <= m) /\ m + j - m = j
    BY <1>1
  <2> QED
    BY <2>1, <1>2
<1>5. Joins(S, c, s, t, m, n)
    BY <1>1, <1>2, <1>3, <1>4 DEF Joins
<1> QED
    BY <1>5 DEF c

(* The named bytes are bytes. *)
LEMMA BytesAre ==
    /\ CR \in Bytes /\ LF \in Bytes /\ Dash \in Bytes /\ Boundary \in Bytes
    /\ Quote \in Bytes /\ Semicolon \in Bytes
    /\ Disposition \in Bytes /\ Filename \in Bytes /\ Type \in Bytes /\ Plain \in Bytes
BY MultipartAssumption, Zenon

-----------------------------------------------------------------------------
(* What is sent *)

(* The bytes of the headers of a part, with what begins the body.           *)
BodyAt(part) == IF IsFile(part) THEN 14 + Len(part.file) ELSE 7

(* What a part of a form is: neither its name nor its file name holds a    *)
(* quote, and a file's name is not empty.                                  *)
LEMMA PartFacts ==
    ASSUME NEW part \in Parts
    PROVE  /\ part.name \in Bytes \ {Quote}
           /\ part.content \in Seq(Bytes)
           /\ part.file \in Seq(Bytes)
           /\ Len(part.file) \in Nat /\ Len(part.content) \in Nat
           /\ BodyAt(part) \in Nat
           /\ IsFile(part) => part.file \in FileNames /\ Len(part.file) > 0
           /\ \A j \in 1 .. Len(part.file) : part.file[j] \in Bytes \ {Quote}
<1>1. /\ part.name \in Bytes \ {Quote}
      /\ part.content \in Seq(Bytes)
      /\ part.file \in FileNames \cup {<< >>}
    BY DEF Parts
<1>2. part.file \in Seq(Bytes \ {Quote})
    BY <1>1, MultipartAssumption, EmptySeq
<1>3. \A j \in 1 .. Len(part.file) : part.file[j] \in Bytes \ {Quote}
    BY <1>2, ElementOfSeq
<1>4. part.file \in Seq(Bytes)
    BY <1>2, SeqMonotonic
<1>5. Len(part.file) \in Nat /\ Len(part.content) \in Nat
    BY <1>1, <1>4, LenProperties
<1>6. part.file # << >> => Len(part.file) > 0
    BY <1>4, EmptySeq
<1> QED
    BY <1>1, <1>3, <1>4, <1>5, <1>6 DEF IsFile, BodyAt

(* The headers and the content of a part, byte by byte.                     *)
LEMMA PartIs ==
    ASSUME NEW part \in Parts
    PROVE  LET m == EncodedPart(part)
               n == Len(part.file)
               b == BodyAt(part)
           IN  /\ m \in Seq(Bytes)
               /\ Len(m) = b + Len(part.content)
               /\ m[1] = Disposition /\ m[2] = part.name /\ m[3] = Quote
               /\ IsFile(part) =>
                    /\ m[4] = Semicolon /\ m[5] = Filename
                    /\ \A j \in 1 .. n : m[5 + j] = part.file[j]
                    /\ m[n + 6] = Quote /\ m[n + 7] = CR /\ m[n + 8] = LF
                    /\ m[n + 9] = Type /\ m[n + 10] = Plain
               /\ m[b - 3] = CR /\ m[b - 2] = LF /\ m[b - 1] = CR /\ m[b] = LF
               /\ \A j \in 1 .. Len(part.content) : m[b + j] = part.content[j]
<1> DEFINE n == Len(part.file)
           s1 == <<Disposition, part.name, Quote>>
           t1 == <<Semicolon, Filename>>
           t2 == t1 \o part.file
           t3 == <<Quote, CR, LF, Type, Plain>>
           t4 == t2 \o t3
           s2 == IF IsFile(part) THEN t4 ELSE << >>
           s3 == s1 \o s2
           s4 == <<CR, LF, CR, LF>>
           s5 == s3 \o s4
           s6 == s5 \o part.content
           b == BodyAt(part)
<1>0. /\ part.name \in Bytes
      /\ part.content \in Seq(Bytes)
      /\ part.file \in Seq(Bytes)
      /\ n \in Nat /\ Len(part.content) \in Nat
      /\ b = IF IsFile(part) THEN 14 + n ELSE 7
    BY PartFacts DEF BodyAt
<1>2. s6 = EncodedPart(part)
    BY DEF EncodedPart
<1>3. /\ s1 \in Seq(Bytes) /\ Len(s1) = 3
      /\ t1 \in Seq(Bytes) /\ Len(t1) = 2
      /\ t3 \in Seq(Bytes) /\ Len(t3) = 5
      /\ s4 \in Seq(Bytes) /\ Len(s4) = 4
    BY <1>0, BytesAre, Tuple2, Tuple3, Tuple4, Tuple5, Zenon
<1>a. /\ s1[1] = Disposition /\ s1[2] = part.name /\ s1[3] = Quote
      /\ t1[1] = Semicolon /\ t1[2] = Filename
      /\ t3[1] = Quote /\ t3[2] = CR /\ t3[3] = LF /\ t3[4] = Type /\ t3[5] = Plain
      /\ s4[1] = CR /\ s4[2] = LF /\ s4[3] = CR /\ s4[4] = LF
    BY <1>0, BytesAre, Tuple2, Tuple3, Tuple4, Tuple5, Zenon
<1> HIDE DEF s1, t1, t3, s4, n, b
<1>b. b \in Nat /\ b - 7 \in Nat
    BY <1>0
<1>c. s1 \in Seq(Bytes) /\ Len(s1) = 3
    BY <1>3
<1>d. t1 \in Seq(Bytes) /\ Len(t1) = 2
    BY <1>3
<1>e. t3 \in Seq(Bytes) /\ Len(t3) = 5
    BY <1>3
<1>f. s4 \in Seq(Bytes) /\ Len(s4) = 4
    BY <1>3
<1>g. part.content \in Seq(Bytes)
    BY <1>0
<1>h. part.file \in Seq(Bytes)
    BY <1>0
<1>4. /\ t2 \in Seq(Bytes) /\ Len(t2) = 2 + n
      /\ \A j \in 1 .. 2 : t2[j] = t1[j]
      /\ \A j \in 1 .. n : t2[2 + j] = part.file[j]
  <2>1. Joins(Bytes, t2, t1, part.file, 2, n)
    BY <1>d, <1>h, Joined DEF n
  <2> QED
    BY <2>1 DEF Joins
<1> HIDE DEF t2
<1>5. /\ t4 \in Seq(Bytes) /\ Len(t4) = (2 + n) + 5
      /\ \A j \in 1 .. 2 + n : t4[j] = t2[j]
      /\ \A j \in 1 .. 5 : t4[(2 + n) + j] = t3[j]
  <2>1. Joins(Bytes, t4, t2, t3, 2 + n, 5)
    BY <1>e, <1>4, Joined
  <2> QED
    BY <2>1 DEF Joins
<1> HIDE DEF t4
<1>6. /\ s2 \in Seq(Bytes) /\ Len(s2) = b - 7
      /\ IsFile(part) => s2 = t4
    BY <1>0, <1>5, EmptySeq
<1> HIDE DEF s2
<1>7. /\ s3 \in Seq(Bytes) /\ Len(s3) = 3 + (b - 7)
      /\ \A j \in 1 .. 3 : s3[j] = s1[j]
      /\ \A j \in 1 .. b - 7 : s3[3 + j] = s2[j]
  <2>1. Joins(Bytes, s3, s1, s2, 3, b - 7)
    BY <1>c, <1>6, Joined
  <2> QED
    BY <2>1 DEF Joins
<1> HIDE DEF s3
<1>i. s3 \in Seq(Bytes) /\ Len(s3) = b - 4
    BY <1>7, <1>b
<1>8. /\ s5 \in Seq(Bytes) /\ Len(s5) = (b - 4) + 4
      /\ \A j \in 1 .. b - 4 : s5[j] = s3[j]
      /\ \A j \in 1 .. 4 : s5[(b - 4) + j] = s4[j]
  <2>1. Joins(Bytes, s5, s3, s4, b - 4, 4)
    BY <1>i, <1>f, Joined
  <2> QED
    BY <2>1 DEF Joins
<1> HIDE DEF s5
<1>k. s5 \in Seq(Bytes) /\ Len(s5) = b
    BY <1>8, <1>b
<1>9. /\ s6 \in Seq(Bytes) /\ Len(s6) = b + Len(part.content)
      /\ \A j \in 1 .. b : s6[j] = s5[j]
      /\ \A j \in 1 .. Len(part.content) : s6[b + j] = part.content[j]
  <2>1. Joins(Bytes, s6, s5, part.content, b, Len(part.content))
    BY <1>k, <1>g, Joined
  <2> QED
    BY <2>1 DEF Joins
<1> HIDE DEF s6
<1>10. /\ s6[1] = Disposition /\ s6[2] = part.name /\ s6[3] = Quote
  <2>0. 1 .. 3 \subseteq 1 .. b - 4 /\ 1 .. 3 \subseteq 1 .. b
    BY <1>b
  <2>1. \A j \in 1 .. 3 : s6[j] = s1[j]
    BY <2>0, <1>7, <1>8, <1>9
  <2> QED
    BY <2>1, <1>a
<1>11. s6[b - 3] = CR /\ s6[b - 2] = LF /\ s6[b - 1] = CR /\ s6[b] = LF
  <2>1. \A j \in 1 .. 4 : s6[(b - 4) + j] = s4[j]
    <3>1. \A j \in 1 .. 4 : (b - 4) + j \in 1 .. b
        BY <1>b
    <3> QED
        BY <3>1, <1>8, <1>9
  <2>2. (b - 4) + 1 = b - 3 /\ (b - 4) + 2 = b - 2 /\ (b - 4) + 3 = b - 1 /\ (b - 4) + 4 = b
    BY <1>b
  <2> QED
    BY <2>1, <2>2, <1>a
<1>12. ASSUME IsFile(part)
       PROVE  /\ s6[4] = Semicolon /\ s6[5] = Filename
              /\ \A j \in 1 .. n : s6[5 + j] = part.file[j]
              /\ s6[n + 6] = Quote /\ s6[n + 7] = CR /\ s6[n + 8] = LF
              /\ s6[n + 9] = Type /\ s6[n + 10] = Plain
  <2>1. b = 14 + n
    BY <1>0, <1>12
  <2>2. \A j \in 1 .. n + 7 : s6[3 + j] = t4[j]
    <3>1. \A j \in 1 .. n + 7 : 3 + j \in 1 .. b /\ 3 + j \in 1 .. b - 4 /\ j \in 1 .. b - 7
        BY <2>1, <1>0
    <3> QED
        BY <3>1, <1>6, <1>7, <1>8, <1>9, <1>12
  <2>3. \A j \in 1 .. n + 2 : s6[3 + j] = t2[j]
    <3>1. \A j \in 1 .. n + 2 : j \in 1 .. n + 7 /\ j \in 1 .. 2 + n
        BY <1>0
    <3> QED
        BY <3>1, <2>2, <1>5, Zenon
  <2>4. s6[4] = Semicolon /\ s6[5] = Filename
    BY <2>3, <1>4, <1>a, <1>0
  <2>5. \A j \in 1 .. n : s6[5 + j] = part.file[j]
    <3> TAKE j \in 1 .. n
    <3>1. 2 + j \in 1 .. n + 2 /\ 3 + (2 + j) = 5 + j
        BY <1>0
    <3> QED
        BY <3>1, <2>3, <1>4
  <2>6. \A j \in 1 .. 5 : s6[(n + 5) + j] = t3[j]
    <3> TAKE j \in 1 .. 5
    <3>1. (2 + n) + j \in 1 .. n + 7 /\ 3 + ((2 + n) + j) = (n + 5) + j
        BY <1>0
    <3> QED
        BY <3>1, <2>2, <1>5
  <2>7. (n + 5) + 1 = n + 6 /\ (n + 5) + 2 = n + 7 /\ (n + 5) + 3 = n + 8 /\ (n + 5) + 4 = n + 9
          /\ (n + 5) + 5 = n + 10
    BY <1>0
  <2>8. s6[n + 6] = Quote /\ s6[n + 7] = CR /\ s6[n + 8] = LF /\ s6[n + 9] = Type /\ s6[n + 10] = Plain
    BY <2>6, <2>7, <1>a
  <2> QED
    BY <2>4, <2>5, <2>8
<1> QED
    BY <1>2, <1>9, <1>10, <1>11, <1>12 DEF n, b

(* A function that is defined by its value before has its values.           *)
UptoNext(form, w, i) ==
    IF i = 0 THEN Preamble
    ELSE w[i - 1] \o (IF i = 1 THEN << >> ELSE <<CR, LF>>) \o EncodedPart(form[i]) \o Encapsulation

(* Upto satisfies its recursive equation. *)
LEMMA UptoIs ==
    ASSUME NEW form, Len(form) \in Nat
    PROVE  \A i \in 0 .. Len(form) : Upto(form)[i] = UptoNext(form, Upto(form), i)
<1> DEFINE n == Len(form)
           Walks(m, w) == w = [i \in 0 .. m |-> UptoNext(form, w, i)]
           T == {m \in Nat : \E w : Walks(m, w)}
<1>1. n \in Nat
    OBVIOUS
<1>2. 0 \in T
  <2> DEFINE w == [i \in 0 .. 0 |-> Preamble]
  <2>1. w = [i \in 0 .. 0 |-> UptoNext(form, w, i)]
    BY DEF UptoNext
  <2> QED
    BY <2>1
<1>3. \A m \in 0 .. n - 1 : m \in T => m + 1 \in T
  <2>0. SUFFICES ASSUME NEW m \in Nat, NEW w, Walks(m, w)
               PROVE  m + 1 \in T
    OBVIOUS
  <2> DEFINE v == [i \in 0 .. m + 1 |-> IF i = m + 1 THEN UptoNext(form, w, m + 1) ELSE w[i]]
  <2>1. ASSUME NEW i \in 0 .. m + 1 PROVE v[i] = UptoNext(form, v, i)
    <3>1. i - 1 \in 0 .. m \/ i = 0
        OBVIOUS
    <3>2. i # 0 => v[i - 1] = w[i - 1]
        BY <3>1
    <3>3. UptoNext(form, v, i) = UptoNext(form, w, i)
        BY <3>2 DEF UptoNext
    <3>4. CASE i = m + 1
        BY <3>3, <3>4
    <3>5. CASE i # m + 1
      <4>1. i \in 0 .. m
          BY <3>5
      <4>2. w[i] = UptoNext(form, w, i)
          BY <4>1, <2>0
      <4> QED
          BY <3>3, <3>5, <4>2
    <3> QED
        BY <3>4, <3>5
  <2>2. Walks(m + 1, v)
    BY <2>1
  <2> HIDE DEF v
  <2>3. \E u : Walks(m + 1, u)
    BY <2>2
  <2> QED
    BY <2>3
<1>4. n \in T
  <2> HIDE DEF T, n
  <2>1. 0 .. n \subseteq T
    BY <1>1, <1>2, <1>3, InductionUpTo
  <2> QED
    BY <1>1, <2>1
<1> DEFINE found == CHOOSE w : Walks(n, w)
<1>5. Walks(n, found)
    BY <1>4
<1>6. Upto(form) = found
    BY DEF Upto, UptoNext
<1> HIDE DEF found
<1> QED
    BY <1>5, <1>6

(* How many bytes come before the i-th part, and with it.                   *)
Before(form, i) ==
    IF i = 1 THEN Len(Upto(form)[i - 1]) ELSE Len(Upto(form)[i - 1]) + 2

Behind(form, i) == Before(form, i) + Len(EncodedPart(form[i]))

(* What a well-formed form is: it has parts, no two files of one name, and *)
(* no part holds the delimiter.                                            *)
LEMMA FormFacts ==
    ASSUME NEW form \in AllForms
    PROVE  /\ Len(form) \in Nat /\ Len(form) > 0
           /\ \A i \in 1 .. Len(form) : form[i] \in Parts
           /\ \A i, j \in 1 .. Len(form) :
                 IsFile(form[i]) /\ form[i].file = form[j].file => i = j
           /\ \A i \in 1 .. Len(form) : ~Delimited(EncodedPart(form[i]))
<1>1. /\ form \in Seq(Parts) /\ form # << >>
      /\ \A i, j \in 1 .. Len(form) : IsFile(form[i]) /\ form[i].file = form[j].file => i = j
      /\ \A i \in 1 .. Len(form) : ~Delimited(EncodedPart(form[i]))
    BY MultipartAssumption, Zenon DEF WellFormed
<1>2. Len(form) \in Nat /\ Len(form) > 0
    BY <1>1, EmptySeq, LenProperties
<1>3. \A i \in 1 .. Len(form) : form[i] \in Parts
    BY <1>1, ElementOfSeq
<1> QED
    BY <1>1, <1>2, <1>3

(* The two delimiters, byte by byte. *)
LEMMA DelimitersAre ==
    /\ Preamble \in Seq(Bytes) /\ Len(Preamble) = 5
    /\ Preamble[1] = Dash /\ Preamble[2] = Dash /\ Preamble[3] = Boundary
    /\ Preamble[4] = CR /\ Preamble[5] = LF
    /\ Encapsulation \in Seq(Bytes) /\ Len(Encapsulation) = 5
    /\ Encapsulation[1] = CR /\ Encapsulation[2] = LF /\ Encapsulation[3] = Dash
    /\ Encapsulation[4] = Dash /\ Encapsulation[5] = Boundary
BY BytesAre, Tuple5, Zenon DEF Preamble, Encapsulation

(* One part further. *)
LEMMA UptoGrows ==
    ASSUME NEW form \in AllForms, NEW i \in 1 .. Len(form),
           Upto(form)[i - 1] \in Seq(Bytes)
    PROVE  LET old == Upto(form)[i - 1]
               new == Upto(form)[i]
               m == EncodedPart(form[i])
           IN  /\ new \in Seq(Bytes)
               /\ Len(old) \in Nat /\ Len(m) \in Nat
               /\ Before(form, i) \in Nat
               /\ Len(new) = Behind(form, i) + 5
               /\ \A j \in 1 .. Len(old) : new[j] = old[j]
               /\ i > 1 => new[Len(old) + 1] = CR /\ new[Len(old) + 2] = LF
               /\ \A j \in 1 .. Len(m) : new[Before(form, i) + j] = m[j]
               /\ \A j \in 1 .. 5 : new[Behind(form, i) + j] = Encapsulation[j]
<1> DEFINE old == Upto(form)[i - 1]
           m == EncodedPart(form[i])
           sep == IF i = 1 THEN << >> ELSE <<CR, LF>>
           n == IF i = 1 THEN 0 ELSE 2
           s1 == old \o sep
           s2 == s1 \o m
           s3 == s2 \o Encapsulation
           b == Before(form, i)
           e == Behind(form, i)
<1>1. Upto(form)[i] = s3
  <2>1. i \in 0 .. Len(form) /\ i # 0 /\ Len(form) \in Nat
    BY FormFacts
  <2> QED
    BY <2>1, UptoIs DEF UptoNext
<1>2. m \in Seq(Bytes) /\ Len(m) \in Nat
  <2>1. form[i] \in Parts
    BY FormFacts
  <2> QED
    BY <2>1, PartIs, LenProperties
<1>3. old \in Seq(Bytes) /\ Len(old) \in Nat
    BY LenProperties
<1>4. sep \in Seq(Bytes) /\ Len(sep) = n /\ n \in Nat
    BY BytesAre, Tuple2, EmptySeq
<1>5. i > 1 => n = 2 /\ sep[1] = CR /\ sep[2] = LF
    BY BytesAre, Tuple2
<1>6. b = Len(old) + n /\ e = b + Len(m)
  <2>1. e = b + Len(m)
    BY DEF Behind
  <2>2. b = IF i = 1 THEN Len(old) ELSE Len(old) + 2
    BY DEF Before
  <2> HIDE DEF old, b, e, m
  <2>3. CASE i = 1
    BY <2>1, <2>2, <2>3, <1>3
  <2>4. CASE i # 1
    BY <2>1, <2>2, <2>4
  <2> QED
    BY <2>3, <2>4
<1> HIDE DEF old, m, sep, n, b, e
<1>7. Joins(Bytes, s1, old, sep, Len(old), n)
    BY <1>3, <1>4, Joined
<1> HIDE DEF s1
<1>8. s1 \in Seq(Bytes) /\ Len(s1) = b
    BY <1>7, <1>6 DEF Joins
<1>9. Joins(Bytes, s2, s1, m, b, Len(m))
    BY <1>8, <1>2, Joined
<1> HIDE DEF s2
<1>10. s2 \in Seq(Bytes) /\ Len(s2) = e
    BY <1>9, <1>6 DEF Joins
<1>11. Joins(Bytes, s3, s2, Encapsulation, e, 5)
    BY <1>10, DelimitersAre, Joined
<1> HIDE DEF s3
<1>12. s3 \in Seq(Bytes) /\ Len(s3) = e + 5 /\ b \in Nat
    BY <1>11, <1>6, <1>3, <1>4 DEF Joins
<1>13. \A j \in 1 .. b : s3[j] = s1[j]
  <2>1. \A j \in 1 .. b : j \in 1 .. e
    BY <1>6, <1>2, <1>12
  <2> QED
    BY <2>1, <1>11, <1>9, Zenon DEF Joins
<1>14. \A j \in 1 .. Len(old) : s3[j] = old[j]
    BY <1>13, <1>7, <1>6, <1>3, <1>4 DEF Joins
<1>15. i > 1 => s3[Len(old) + 1] = CR /\ s3[Len(old) + 2] = LF
  <2> SUFFICES ASSUME i > 1
               PROVE  s3[Len(old) + 1] = CR /\ s3[Len(old) + 2] = LF
    OBVIOUS
  <2>1. Len(old) + 1 \in 1 .. b /\ Len(old) + 2 \in 1 .. b /\ 1 \in 1 .. n /\ 2 \in 1 .. n
    BY <1>5, <1>6, <1>3
  <2>2. s1[Len(old) + 1] = sep[1] /\ s1[Len(old) + 2] = sep[2]
    BY <2>1, <1>7, Zenon DEF Joins
  <2> QED
    BY <2>1, <2>2, <1>13, <1>5, Zenon
<1>16. \A j \in 1 .. Len(m) : s3[b + j] = m[j]
  <2>1. \A j \in 1 .. Len(m) : b + j \in 1 .. e
    <3> DEFINE l == Len(m)
    <3>1. b \in Nat /\ l \in Nat /\ e = b + l
        BY <1>6, <1>2, <1>12
    <3> HIDE DEF l
    <3>2. \A j \in 1 .. l : b + j \in 1 .. e
        BY <3>1
    <3> QED
        BY <3>2 DEF l
  <2> QED
    BY <2>1, <1>11, <1>9 DEF Joins
<1>17. \A j \in 1 .. 5 : s3[e + j] = Encapsulation[j]
    BY <1>11 DEF Joins
<1>18. LET new == s3
       IN  /\ new \in Seq(Bytes)
           /\ Len(old) \in Nat /\ Len(m) \in Nat
           /\ b \in Nat
           /\ Len(new) = e + 5
           /\ \A j \in 1 .. Len(old) : new[j] = old[j]
           /\ i > 1 => new[Len(old) + 1] = CR /\ new[Len(old) + 2] = LF
           /\ \A j \in 1 .. Len(m) : new[b + j] = m[j]
           /\ \A j \in 1 .. 5 : new[e + j] = Encapsulation[j]
    BY <1>2, <1>3, <1>12, <1>14, <1>15, <1>16, <1>17
<1> QED
    BY <1>1, <1>18, Zenon DEF old, m, b, e

Begins(s, t) == /\ Len(s) \in Nat /\ Len(t) \in Nat /\ Len(s) <= Len(t)
                /\ \A j \in 1 .. Len(s) : t[j] = s[j]

(* Beginning is transitive. *)
LEMMA BeginsOnward ==
    ASSUME NEW s, NEW t, NEW u, Begins(s, t), Begins(t, u)
    PROVE  Begins(s, u)
BY DEF Begins

(* Every part, with the delimiter behind it, is where it is to be.          *)
LaidOut(form, i, s) ==
    /\ Before(form, i) \in Nat /\ Before(form, i) >= 5
    /\ Len(EncodedPart(form[i])) \in Nat
    /\ \A j \in 1 .. Len(EncodedPart(form[i])) : s[Before(form, i) + j] = EncodedPart(form[i])[j]
    /\ \A j \in 1 .. 5 : s[Behind(form, i) + j] = Encapsulation[j]
    /\ Behind(form, i) + 9 <= Len(s)
    /\ i < Len(form) => /\ Before(form, i + 1) = Behind(form, i) + 7
                        /\ s[Behind(form, i) + 6] = CR /\ s[Behind(form, i) + 7] = LF
    /\ i = Len(form) => /\ s[Behind(form, i) + 6] = Dash /\ s[Behind(form, i) + 7] = Dash
                        /\ Len(s) = Behind(form, i) + 9

(* What is encoded up to a part begins what is encoded up to a later one. *)
LEMMA UptoBegins ==
    ASSUME NEW form \in AllForms
    PROVE  /\ \A k \in 0 .. Len(form) : Upto(form)[k] \in Seq(Bytes)
           /\ \A k \in 0 .. Len(form) : \A i \in 0 .. k : Begins(Upto(form)[i], Upto(form)[k])
<1> DEFINE u == Upto(form)
           n == Len(form)
           T == {k \in 0 .. n : u[k] \in Seq(Bytes)}
           B == {k \in 0 .. n : \A i \in 0 .. k : Begins(u[i], u[k])}
<1>1. n \in Nat /\ n > 0
    BY FormFacts
<1>2. 0 \in T
  <2>1. u[0] = Preamble
    BY <1>1, UptoIs DEF UptoNext
  <2> QED
    BY <2>1, <1>1, DelimitersAre
<1>3. ASSUME NEW k \in 0 .. n - 1, k \in T PROVE k + 1 \in T
  <2>1. k + 1 \in 1 .. n /\ (k + 1) - 1 = k /\ k + 1 \in 0 .. n
    BY <1>1
  <2>2. u[k + 1] \in Seq(Bytes)
    BY <2>1, <1>3, UptoGrows
  <2> QED
    BY <2>1, <2>2
<1>4. 0 .. n \subseteq T
  <2> HIDE DEF T, n
  <2> QED
    BY <1>1, <1>2, <1>3, InductionUpTo
<1>5. \A k \in 0 .. n : u[k] \in Seq(Bytes) /\ Len(u[k]) \in Nat
    BY <1>4, LenProperties
<1>6. 0 \in B
  <2>1. Begins(u[0], u[0])
    BY <1>1, <1>5 DEF Begins
  <2> QED
    BY <2>1, <1>1
<1>7. ASSUME NEW k \in 0 .. n - 1, k \in B PROVE k + 1 \in B
  <2>1. k + 1 \in 1 .. n /\ (k + 1) - 1 = k /\ k + 1 \in 0 .. n /\ k \in 0 .. n
    BY <1>1
  <2>2. Begins(u[k], u[k + 1])
    <3>1. /\ Len(u[k + 1]) = Behind(form, k + 1) + 5
          /\ Before(form, k + 1) \in Nat
          /\ Len(EncodedPart(form[k + 1])) \in Nat
          /\ \A j \in 1 .. Len(u[k]) : u[k + 1][j] = u[k][j]
        <4> DEFINE i == k + 1
        <4>1. i \in 1 .. n /\ u[i - 1] = u[k] /\ u[i - 1] \in Seq(Bytes)
            BY <2>1, <1>5
        <4> HIDE DEF i
        <4>2. /\ Len(u[i]) = Behind(form, i) + 5
              /\ Before(form, i) \in Nat
              /\ Len(EncodedPart(form[i])) \in Nat
              /\ \A j \in 1 .. Len(u[i - 1]) : u[i][j] = u[i - 1][j]
            BY <4>1, UptoGrows, Zenon
        <4> QED
            BY <4>1, <4>2, Zenon DEF i
    <3>2. Before(form, k + 1) = IF k + 1 = 1 THEN Len(u[k]) ELSE Len(u[k]) + 2
        BY <2>1 DEF Before
    <3> HIDE DEF u, n
    <3>3. Len(u[k]) \in Nat /\ Len(u[k + 1]) \in Nat
        BY <2>1, <1>5
    <3>4. Len(u[k]) <= Before(form, k + 1)
        BY <3>2, <3>3
    <3>5. Before(form, k + 1) <= Behind(form, k + 1) /\ Behind(form, k + 1) \in Nat
        BY <3>1 DEF Behind
    <3>6. Len(u[k + 1]) = Behind(form, k + 1) + 5 /\ Before(form, k + 1) \in Nat
        BY <3>1
    <3>7. Len(u[k]) <= Len(u[k + 1])
        BY <3>3, <3>4, <3>5, <3>6
    <3> QED
        BY <3>1, <3>3, <3>7 DEF Begins
  <2>3. \A i \in 0 .. k : Begins(u[i], u[k + 1])
    BY <2>2, <1>7, BeginsOnward
  <2>4. Begins(u[k + 1], u[k + 1])
    BY <2>1, <1>5 DEF Begins
  <2> HIDE DEF u, n
  <2> QED
    BY <2>1, <2>3, <2>4
<1>8. 0 .. n \subseteq B
  <2> HIDE DEF B, n
  <2> QED
    BY <1>1, <1>6, <1>7, InductionUpTo
<1> QED
    BY <1>5, <1>8

(* Where everything is in the bytes of a form: the first delimiter, and    *)
(* each part at its place.                                                 *)
LEMMA Layout ==
    ASSUME NEW form \in AllForms
    PROVE  /\ Sent[form] \in Seq(Bytes)
           /\ \A j \in 1 .. 5 : Sent[form][j] = Preamble[j]
           /\ Before(form, 1) = 5
           /\ \A i \in 1 .. Len(form) : LaidOut(form, i, Sent[form])
<1> DEFINE u == Upto(form)
           n == Len(form)
           t == <<Dash, Dash, CR, LF>>
           s == u[n] \o t
<1>1. n \in Nat /\ n > 0
    BY FormFacts
<1>2. Sent[form] = s
    BY DEF Sent, Encoded
<1>3. /\ \A k \in 0 .. n : u[k] \in Seq(Bytes) /\ Len(u[k]) \in Nat
      /\ \A k \in 0 .. n : \A i \in 0 .. k : Begins(u[i], u[k])
    BY UptoBegins, LenProperties
<1>4. t \in Seq(Bytes) /\ Len(t) = 4 /\ t[1] = Dash /\ t[2] = Dash
    BY BytesAre, Tuple4, Zenon
<1> HIDE DEF t
<1>5. Joins(Bytes, s, u[n], t, Len(u[n]), 4)
  <2>1. u[n] \in Seq(Bytes)
    BY <1>1, <1>3
  <2> HIDE DEF u, n
  <2> QED
    BY <2>1, <1>4, Joined
<1> HIDE DEF s
<1>6. s \in Seq(Bytes) /\ Len(s) = Len(u[n]) + 4
    BY <1>5 DEF Joins
<1>7. Begins(u[n], s)
    BY <1>1, <1>3, <1>5 DEF Joins, Begins
<1>8. \A k \in 0 .. n : Begins(u[k], s)
    BY <1>1, <1>3, <1>7, BeginsOnward
<1>9. u[0] = Preamble
    BY <1>1, UptoIs DEF UptoNext
<1>10. \A j \in 1 .. 5 : s[j] = Preamble[j]
  <2>1. Begins(Preamble, s)
    BY <1>1, <1>8, <1>9
  <2> QED
    BY <2>1, DelimitersAre DEF Begins
<1>11. Before(form, 1) = 5
    BY <1>9, DelimitersAre DEF Before
<1>12. \A i \in 1 .. n :
          /\ Len(u[i - 1]) \in Nat
          /\ Len(EncodedPart(form[i])) \in Nat
          /\ Before(form, i) \in Nat
          /\ Len(u[i]) = Behind(form, i) + 5
          /\ i > 1 => u[i][Len(u[i - 1]) + 1] = CR /\ u[i][Len(u[i - 1]) + 2] = LF
          /\ \A j \in 1 .. Len(EncodedPart(form[i])) : u[i][Before(form, i) + j] = EncodedPart(form[i])[j]
          /\ \A j \in 1 .. 5 : u[i][Behind(form, i) + j] = Encapsulation[j]
  <2> TAKE i \in 1 .. n
  <2>1. i - 1 \in 0 .. n
    BY <1>1
  <2>2. u[i - 1] \in Seq(Bytes)
    BY <2>1, <1>3
  <2> QED
    BY <2>2, UptoGrows
<1>13. ASSUME NEW i \in 1 .. n PROVE LaidOut(form, i, s)
  <2> DEFINE b == Before(form, i)
             e == Behind(form, i)
             m == EncodedPart(form[i])
  <2>0. Before(form, i) = IF i = 1 THEN Len(u[i - 1]) ELSE Len(u[i - 1]) + 2
    BY DEF Before
  <2> HIDE DEF u, n
  <2>1. /\ Begins(u[i], s) /\ Begins(u[i - 1], s) /\ Begins(u[0], u[i - 1])
        /\ i - 1 \in 0 .. n /\ i \in 0 .. n /\ 0 \in 0 .. i - 1
    BY <1>1, <1>3, <1>8
  <2>2. /\ b \in Nat /\ Len(m) \in Nat /\ e = b + Len(m) /\ e \in Nat /\ Len(u[i]) = e + 5
        /\ \A j \in 1 .. Len(m) : u[i][b + j] = m[j]
        /\ \A j \in 1 .. 5 : u[i][e + j] = Encapsulation[j]
    <3>1. /\ b \in Nat /\ Len(m) \in Nat /\ Len(u[i]) = e + 5
          /\ \A j \in 1 .. Len(m) : u[i][b + j] = m[j]
          /\ \A j \in 1 .. 5 : u[i][e + j] = Encapsulation[j]
        BY <1>12, Zenon
    <3>2. e = b + Len(m)
        BY Zenon DEF Behind
    <3> HIDE DEF b, e, m
    <3>3. e \in Nat
        BY <3>1, <3>2
    <3> QED
        BY <3>1, <3>2, <3>3, Zenon
  <2> HIDE DEF b, e, m
  <2>3. b >= 5
    <3>1. Begins(Preamble, u[i - 1])
        BY <2>1, <1>9
    <3>2. Len(u[i - 1]) \in Nat /\ Len(u[i - 1]) >= 5
        BY <3>1, DelimitersAre DEF Begins
    <3> QED
        BY <2>0, <3>2 DEF b
  <2>4. \A j \in 1 .. Len(m) : s[b + j] = m[j]
    <3>1. \A j \in 1 .. Len(m) : b + j \in 1 .. Len(u[i])
        BY <2>2
    <3> QED
        BY <3>1, <2>1, <2>2 DEF Begins
  <2>5. \A j \in 1 .. 5 : s[e + j] = Encapsulation[j]
    <3>1. \A j \in 1 .. 5 : e + j \in 1 .. Len(u[i])
        BY <2>2
    <3> QED
        BY <3>1, <2>1, <2>2 DEF Begins
  <2>6. e + 9 <= Len(s)
    <3>1. Begins(u[i], u[n])
        BY <1>1, <1>3
    <3>2. Len(u[n]) \in Nat /\ Len(u[i]) <= Len(u[n])
        BY <3>1 DEF Begins
    <3>3. Len(u[i]) = e + 5
        BY <2>2
    <3>4. Len(s) = Len(u[n]) + 4
        BY <1>6
    <3> QED
        BY <2>2, <3>2, <3>3, <3>4
  <2>7. i < n => Before(form, i + 1) = e + 7 /\ s[e + 6] = CR /\ s[e + 7] = LF
    <3> SUFFICES ASSUME i < n
                 PROVE  Before(form, i + 1) = e + 7 /\ s[e + 6] = CR /\ s[e + 7] = LF
        OBVIOUS
    <3>1. i + 1 \in 1 .. n /\ (i + 1) - 1 = i /\ i + 1 > 1 /\ i + 1 # 1 /\ i + 1 \in 0 .. n
        BY <1>1
    <3>2. Before(form, i + 1) = Len(u[i]) + 2
        BY <3>1 DEF Before, u
    <3>3. u[i + 1][Len(u[i]) + 1] = CR /\ u[i + 1][Len(u[i]) + 2] = LF
        BY <3>1, <1>12
    <3>4. Begins(u[i + 1], s)
        BY <3>1, <1>8
    <3>5. /\ Len(u[i + 1]) = Behind(form, i + 1) + 5
          /\ Before(form, i + 1) \in Nat /\ Len(EncodedPart(form[i + 1])) \in Nat
        BY <3>1, <1>12
    <3>6. Behind(form, i + 1) \in Nat /\ Behind(form, i + 1) >= Before(form, i + 1)
        BY <3>5 DEF Behind
    <3>7. Len(u[i]) + 1 \in 1 .. Len(u[i + 1]) /\ Len(u[i]) + 2 \in 1 .. Len(u[i + 1])
      <4>1. Len(u[i]) \in Nat
          BY <2>2
      <4>2. Len(u[i + 1]) = Behind(form, i + 1) + 5
          BY <3>5
      <4> QED
          BY <4>1, <4>2, <3>2, <3>6
    <3>8. Len(u[i]) + 1 = e + 6 /\ Len(u[i]) + 2 = e + 7
        BY <2>2
    <3> QED
        BY <3>2, <3>3, <3>4, <3>7, <3>8 DEF Begins
  <2>8. i = n => s[e + 6] = Dash /\ s[e + 7] = Dash /\ Len(s) = e + 9
    <3> SUFFICES ASSUME i = n
                 PROVE  s[e + 6] = Dash /\ s[e + 7] = Dash /\ Len(s) = e + 9
        OBVIOUS
    <3>1. s[Len(u[n]) + 1] = t[1] /\ s[Len(u[n]) + 2] = t[2]
        BY <1>5 DEF Joins
    <3>2. Len(u[n]) + 1 = e + 6 /\ Len(u[n]) + 2 = e + 7 /\ Len(u[n]) + 4 = e + 9
        BY <2>2
    <3> QED
        BY <3>1, <3>2, <1>4, <1>6
  <2> QED
    BY <2>2, <2>3, <2>4, <2>5, <2>6, <2>7, <2>8 DEF LaidOut, b, e, m, n
<1> QED
    BY <1>2, <1>6, <1>10, <1>11, <1>13

-----------------------------------------------------------------------------
(* The searcher *)

(* The bytes that the parsers look for are different ones. *)
LEMMA BytesDiffer ==
    /\ CR # LF /\ CR # Dash /\ CR # Boundary /\ LF # Dash /\ LF # Boundary /\ Dash # Boundary
    /\ Quote # CR /\ Semicolon # CR /\ Plain # CR
BY DEF CR, LF, Dash, Boundary, Quote, Semicolon, Plain

ConditionNext(pattern, table, condition, pos, n) ==
    IF pattern[pos] = pattern[n + 1] THEN n + 1
    ELSE IF n > 0 THEN condition[table[n]]
    ELSE 0

Condition(pattern, table, pos) ==
    CHOOSE condition :
        condition = [n \in 0 .. pos - 1 |-> ConditionNext(pattern, table, condition, pos, n)]

TableNext(pattern, table, pos) ==
    IF pos = 0 THEN -1
    ELSE IF pos = 1 THEN 0
    ELSE Condition(pattern, table, pos)[table[pos - 1]]

(* The table of a pattern satisfies its recursive equation. *)
LEMMA TableIs ==
    ASSUME NEW pattern, NEW t,
           t = [pos \in 0 .. Len(pattern) - 1 |-> TableNext(pattern, t, pos)]
    PROVE  Table(pattern) = [pos \in 0 .. Len(pattern) - 1 |-> TableNext(pattern, Table(pattern), pos)]
<1> DEFINE Fills(w) == w = [pos \in 0 .. Len(pattern) - 1 |-> TableNext(pattern, w, pos)]
           found == CHOOSE w : Fills(w)
<1>1. Fills(found)
    BY Zenon
<1>2. Table(pattern) = found
    BY DEF Table, TableNext, Condition, ConditionNext
<1> HIDE DEF found
<1> QED
    BY <1>1, <1>2

Conditions(pattern, table, pos, w) ==
    w = [n \in 0 .. pos - 1 |-> ConditionNext(pattern, table, w, pos, n)]

(* The inner loop of prefix_function satisfies its recursive equation. *)
LEMMA ConditionIs ==
    ASSUME NEW pattern, NEW table, NEW pos, NEW c, Conditions(pattern, table, pos, c)
    PROVE  Conditions(pattern, table, pos, Condition(pattern, table, pos))
<1> DEFINE found == CHOOSE w : Conditions(pattern, table, pos, w)
<1>1. Conditions(pattern, table, pos, found)
    BY Zenon
<1>2. Condition(pattern, table, pos) = found
    BY DEF Condition, Conditions
<1> HIDE DEF found
<1> QED
    BY <1>1, <1>2

(* No end of the delimiter is a beginning of it. *)
LEMMA EncapsulationCondition ==
    ASSUME NEW table, NEW pos \in 2 .. 4, \A n \in 1 .. pos - 1 : table[n] = 0
    PROVE  Condition(Encapsulation, table, pos)[0] = 0
<1> DEFINE c == [n \in 0 .. pos - 1 |-> IF Encapsulation[pos] = Encapsulation[n + 1] THEN n + 1 ELSE 0]
           condition == Condition(Encapsulation, table, pos)
<1>1. Encapsulation[pos] # Encapsulation[1]
    BY DelimitersAre, BytesDiffer
<1>2. c[0] = 0
    BY <1>1
<1>3. Conditions(Encapsulation, table, pos, c)
  <2> SUFFICES ASSUME NEW n \in 0 .. pos - 1
               PROVE  c[n] = ConditionNext(Encapsulation, table, c, pos, n)
    BY DEF Conditions
  <2>1. n > 0 => table[n] = 0
    OBVIOUS
  <2> QED
    BY <2>1, <1>2 DEF ConditionNext
<1>4. Conditions(Encapsulation, table, pos, condition)
  <2> HIDE DEF c
  <2> QED
    BY <1>3, ConditionIs
<1> HIDE DEF condition
<1>5. condition[0] = ConditionNext(Encapsulation, table, condition, pos, 0)
    BY <1>4 DEF Conditions
<1> QED
    BY <1>1, <1>5 DEF ConditionNext, condition

(* The prefix table of the delimiter between parts: nothing of it repeats  *)
(* its beginning.                                                          *)
LEMMA EncapsulationTable ==
    /\ TableOf[Encapsulation][0] = -1
    /\ \A i \in 1 .. 4 : TableOf[Encapsulation][i] = 0
<1> DEFINE t == [pos \in 0 .. 4 |-> IF pos = 0 THEN -1 ELSE 0]
           table == Table(Encapsulation)
<1>0. Len(Encapsulation) - 1 = 4
    BY DelimitersAre
<1>1. t = [pos \in 0 .. 4 |-> TableNext(Encapsulation, t, pos)]
  <2> SUFFICES ASSUME NEW pos \in 0 .. 4
               PROVE  t[pos] = TableNext(Encapsulation, t, pos)
    OBVIOUS
  <2>1. CASE pos \in 2 .. 4
    <3>1. Condition(Encapsulation, t, pos)[0] = 0
        BY <2>1, EncapsulationCondition
    <3>2. t[pos - 1] = 0
        BY <2>1
    <3> QED
        BY <3>1, <3>2, <2>1 DEF TableNext
  <2>2. CASE pos \in 0 .. 1
    BY <2>2 DEF TableNext
  <2> QED
    BY <2>1, <2>2
<1>2. table = [pos \in 0 .. 4 |-> TableNext(Encapsulation, table, pos)]
  <2>1. t = [pos \in 0 .. Len(Encapsulation) - 1 |-> TableNext(Encapsulation, t, pos)]
    <3> HIDE DEF t
    <3> QED
        BY <1>0, <1>1, Zenon
  <2> HIDE DEF t
  <2>2. table = [pos \in 0 .. Len(Encapsulation) - 1 |-> TableNext(Encapsulation, table, pos)]
    BY <2>1, TableIs, Zenon
  <2> QED
    BY <1>0, <2>2, Zenon
<1> HIDE DEF t, table
<1>3. table[0] = -1 /\ table[1] = 0
    BY <1>2 DEF TableNext
<1>4. ASSUME NEW pos \in 2 .. 4, \A n \in 1 .. pos - 1 : table[n] = 0 PROVE table[pos] = 0
  <2>1. Condition(Encapsulation, table, pos)[0] = 0
    BY <1>4, EncapsulationCondition
  <2>2. table[pos - 1] = 0
    BY <1>4
  <2>3. table[pos] = TableNext(Encapsulation, table, pos)
    BY <1>2
  <2> QED
    BY <2>1, <2>2, <2>3 DEF TableNext
<1>5. table[2] = 0
    BY <1>3, <1>4
<1>6. table[3] = 0
    BY <1>3, <1>4, <1>5
<1>7. table[4] = 0
    BY <1>3, <1>4, <1>5, <1>6
<1>8. TableOf[Encapsulation] = table
    BY DEF TableOf, table
<1> QED
    BY <1>3, <1>5, <1>6, <1>7, <1>8

(* One end of the first delimiter is a beginning of it: a dash. *)
LEMMA PreambleCondition ==
    ASSUME NEW table, table[1] = 0
    PROVE  /\ Condition(Preamble, table, 2)[0] = 1
           /\ table[2] = 1 => Condition(Preamble, table, 3)[1] = 0
           /\ table[2] = 1 => Condition(Preamble, table, 4)[0] = 0
<1>1. Condition(Preamble, table, 2)[0] = 1
  <2> DEFINE c == [n \in 0 .. 1 |-> n + 1]
             condition == Condition(Preamble, table, 2)
  <2>1. Conditions(Preamble, table, 2, c)
    BY DelimitersAre DEF Conditions, ConditionNext
  <2>2. Conditions(Preamble, table, 2, condition)
    <3> HIDE DEF c
    <3> QED
        BY <2>1, ConditionIs
  <2> HIDE DEF condition
  <2>3. condition[0] = ConditionNext(Preamble, table, condition, 2, 0)
    BY <2>2 DEF Conditions
  <2> QED
    BY <2>3, DelimitersAre DEF ConditionNext, condition
<1>2. ASSUME table[2] = 1 PROVE Condition(Preamble, table, 3)[1] = 0
  <2> DEFINE c == [n \in 0 .. 2 |-> IF n = 2 THEN 3 ELSE 0]
             condition == Condition(Preamble, table, 3)
  <2>1. Conditions(Preamble, table, 3, c)
    BY DelimitersAre, BytesDiffer DEF Conditions, ConditionNext
  <2>2. Conditions(Preamble, table, 3, condition)
    <3> HIDE DEF c
    <3> QED
        BY <2>1, ConditionIs
  <2> HIDE DEF condition
  <2>3. /\ condition[0] = ConditionNext(Preamble, table, condition, 3, 0)
        /\ condition[1] = ConditionNext(Preamble, table, condition, 3, 1)
    BY <2>2 DEF Conditions
  <2> QED
    BY <2>3, DelimitersAre, BytesDiffer DEF ConditionNext, condition
<1>3. ASSUME table[2] = 1 PROVE Condition(Preamble, table, 4)[0] = 0
  <2> DEFINE c == [n \in 0 .. 3 |-> IF n = 3 THEN 4 ELSE 0]
             condition == Condition(Preamble, table, 4)
  <2>1. Conditions(Preamble, table, 4, c)
    BY <1>3, DelimitersAre, BytesDiffer DEF Conditions, ConditionNext
  <2>2. Conditions(Preamble, table, 4, condition)
    <3> HIDE DEF c
    <3> QED
        BY <2>1, ConditionIs
  <2> HIDE DEF condition
  <2>3. condition[0] = ConditionNext(Preamble, table, condition, 4, 0)
    BY <2>2 DEF Conditions
  <2> QED
    BY <2>3, DelimitersAre, BytesDiffer DEF ConditionNext, condition
<1> QED
    BY <1>1, <1>2, <1>3

(* The prefix table of the first delimiter: it repeats its first dash. *)
LEMMA PreambleTable ==
    /\ TableOf[Preamble][0] = -1 /\ TableOf[Preamble][1] = 0 /\ TableOf[Preamble][2] = 1
    /\ TableOf[Preamble][3] = 0 /\ TableOf[Preamble][4] = 0
<1> DEFINE t == [pos \in 0 .. 4 |-> IF pos = 0 THEN -1 ELSE IF pos = 2 THEN 1 ELSE 0]
           table == Table(Preamble)
<1>0. Len(Preamble) - 1 = 4
    BY DelimitersAre
<1>1. t = [pos \in 0 .. 4 |-> TableNext(Preamble, t, pos)]
  <2>1. t[0] = -1 /\ t[1] = 0 /\ t[2] = 1 /\ t[3] = 0 /\ t[4] = 0
    OBVIOUS
  <2>2. /\ Condition(Preamble, t, 2)[0] = 1
        /\ Condition(Preamble, t, 3)[1] = 0
        /\ Condition(Preamble, t, 4)[0] = 0
    BY <2>1, PreambleCondition
  <2>3. \A pos \in 0 .. 4 : t[pos] = TableNext(Preamble, t, pos)
    BY <2>1, <2>2 DEF TableNext
  <2> QED
    BY <2>3
<1>2. table = [pos \in 0 .. 4 |-> TableNext(Preamble, table, pos)]
  <2>1. t = [pos \in 0 .. Len(Preamble) - 1 |-> TableNext(Preamble, t, pos)]
    <3> HIDE DEF t
    <3> QED
        BY <1>0, <1>1, Zenon
  <2> HIDE DEF t
  <2>2. table = [pos \in 0 .. Len(Preamble) - 1 |-> TableNext(Preamble, table, pos)]
    BY <2>1, TableIs, Zenon
  <2> QED
    BY <1>0, <2>2, Zenon
<1> HIDE DEF t, table
<1>3. \A pos \in 0 .. 4 : table[pos] = TableNext(Preamble, table, pos)
    BY <1>2
<1>4. table[0] = -1 /\ table[1] = 0
    BY <1>3 DEF TableNext
<1>5. table[2] = 1
    BY <1>3, <1>4, PreambleCondition DEF TableNext
<1>6. table[3] = 0
    BY <1>3, <1>4, <1>5, PreambleCondition DEF TableNext
<1>7. table[4] = 0
    BY <1>3, <1>4, <1>5, <1>6, PreambleCondition DEF TableNext
<1>8. TableOf[Preamble] = table
    BY DEF TableOf, table
<1> QED
    BY <1>4, <1>5, <1>6, <1>7, <1>8

FitsNext(pattern, fits, c, i) ==
    IF pattern[i + 1] = c THEN i + 1
    ELSE IF TableOf[pattern][i] > -1 THEN fits[TableOf[pattern][i]]
    ELSE 0

(* The matching loop of the parser satisfies its recursive equation. *)
LEMMA SearchIs ==
    ASSUME NEW pattern, NEW matched \in Nat, NEW c, NEW f,
           f = [i \in 0 .. matched |-> FitsNext(pattern, f, c, i)]
    PROVE  \E fits : /\ \A i \in 0 .. matched : fits[i] = FitsNext(pattern, fits, c, i)
                     /\ Search(pattern, matched, c) = fits[matched]
<1> DEFINE Fills(w) == w = [i \in 0 .. matched |-> FitsNext(pattern, w, c, i)]
           found == CHOOSE w : Fills(w)
<1>1. Fills(found)
    BY Zenon
<1>2. Search(pattern, matched, c) = found[matched]
    BY DEF Search, FitsNext
<1> HIDE DEF found
<1> QED
    BY <1>1, <1>2

(* A byte that does not fit may still be the first. *)
LEMMA SearchEncapsulation ==
    ASSUME NEW matched \in 0 .. 4, NEW c
    PROVE  Search(Encapsulation, matched, c) =
               IF Encapsulation[matched + 1] = c THEN matched + 1 ELSE IF c = CR THEN 1 ELSE 0
<1> DEFINE f == [i \in 0 .. matched |->
                   IF Encapsulation[i + 1] = c THEN i + 1 ELSE IF c = CR THEN 1 ELSE 0]
<1>1. f = [i \in 0 .. matched |-> FitsNext(Encapsulation, f, c, i)]
  <2> SUFFICES ASSUME NEW i \in 0 .. matched
               PROVE  f[i] = FitsNext(Encapsulation, f, c, i)
    OBVIOUS
  <2>1. f[0] = IF c = CR THEN 1 ELSE 0
    BY DelimitersAre
  <2>2. CASE i = 0
    BY <2>2, EncapsulationTable, DelimitersAre DEF FitsNext
  <2>3. CASE i # 0
    <3>1. TableOf[Encapsulation][i] = 0
        BY <2>3, EncapsulationTable
    <3> QED
        BY <3>1, <2>1 DEF FitsNext
  <2> QED
    BY <2>2, <2>3
<1>2. PICK fits : /\ \A i \in 0 .. matched : fits[i] = FitsNext(Encapsulation, fits, c, i)
                  /\ Search(Encapsulation, matched, c) = fits[matched]
  <2> HIDE DEF f
  <2> QED
    BY <1>1, SearchIs
<1>3. fits[0] = IF c = CR THEN 1 ELSE 0
    BY <1>2, EncapsulationTable, DelimitersAre DEF FitsNext
<1>4. CASE matched = 0
    BY <1>2, <1>3, <1>4, DelimitersAre
<1>5. CASE matched # 0
  <2>1. TableOf[Encapsulation][matched] = 0
    BY <1>5, EncapsulationTable
  <2>2. fits[matched] = FitsNext(Encapsulation, fits, c, matched)
    BY <1>2
  <2> QED
    BY <2>1, <2>2, <1>2, <1>3 DEF FitsNext
<1> QED
    BY <1>4, <1>5

(* The next byte of the first delimiter is one more that matches. *)
LEMMA SearchPreamble ==
    ASSUME NEW matched \in 0 .. 4
    PROVE  Search(Preamble, matched, Preamble[matched + 1]) = matched + 1
<1> DEFINE c == Preamble[matched + 1]
           none == IF Preamble[1] = c THEN 1 ELSE 0
           one == IF Preamble[2] = c THEN 2 ELSE none
           f == [i \in 0 .. matched |->
                   IF Preamble[i + 1] = c THEN i + 1
                   ELSE IF i = 0 THEN 0
                   ELSE IF i = 2 THEN one ELSE none]
<1> HIDE DEF c
<1>1. f = [i \in 0 .. matched |-> FitsNext(Preamble, f, c, i)]
  <2> SUFFICES ASSUME NEW i \in 0 .. matched
               PROVE  f[i] = FitsNext(Preamble, f, c, i)
    OBVIOUS
  <2>1. f[0] = none
    OBVIOUS
  <2>2. 1 \in 0 .. matched => f[1] = one
    OBVIOUS
  <2>3. CASE i = 0
    BY <2>3, PreambleTable DEF FitsNext
  <2>4. CASE i = 2
    <3>1. TableOf[Preamble][i] = 1 /\ 1 \in 0 .. matched
        BY <2>4, PreambleTable
    <3>2. FitsNext(Preamble, f, c, i) = IF Preamble[i + 1] = c THEN i + 1 ELSE f[1]
        BY <3>1 DEF FitsNext
    <3> QED
        BY <3>1, <3>2, <2>2, <2>4
  <2>5. CASE i # 0 /\ i # 2
    <3>1. TableOf[Preamble][i] = 0
        BY <2>5, PreambleTable
    <3>2. FitsNext(Preamble, f, c, i) = IF Preamble[i + 1] = c THEN i + 1 ELSE f[0]
        BY <3>1 DEF FitsNext
    <3> QED
        BY <3>2, <2>1, <2>5
  <2> QED
    BY <2>3, <2>4, <2>5
<1>2. PICK fits : /\ \A i \in 0 .. matched : fits[i] = FitsNext(Preamble, fits, c, i)
                  /\ Search(Preamble, matched, c) = fits[matched]
  <2> HIDE DEF f
  <2> QED
    BY <1>1, SearchIs
<1>3. fits[matched] = matched + 1
    BY <1>2 DEF FitsNext, c
<1> QED
    BY <1>2, <1>3 DEF c

(* The headers *)

TextStates == {"content_disposition", "filename", "content_type", "pre_body"}

HeaderStates == TextStates \cup {"name", "maybe_filename", "filename_body", "content_type_body", "body"}

Events == {"none", "error", "begin_name", "end_name", "begin_filename", "end_filename", "begin_body"}

Headers == [state : HeaderStates, i : Nat, event : Events]

Expects(h, state, i) == h.state = state /\ h.i = i

Done(h, state, i, event) == h.state = state /\ h.i = i /\ h.event = event

(* The states of the header parser that compare a text. *)
LEMMA TextDomain == DOMAIN Text = TextStates
BY DEF Text, TextStates

(* The two ways the header parser goes on, within a state and to another. *)
LEMMA GoesOn ==
    ASSUME NEW state, NEW i, NEW event
    PROVE  Done(At(state, i), state, i, "none") /\ Done(Go(state, event), state, 1, event)
BY DEF At, Go, Done

(* The parser of the headers, text by text. *)
LEMMA ComparedText ==
    ASSUME NEW h, NEW c
    PROVE  /\ Expects(h, "content_disposition", 1) /\ c = Disposition =>
                Done(HandleMessageChar(h, c), "name", 1, "begin_name")
           /\ Expects(h, "filename", 1) /\ c = Filename =>
                Done(HandleMessageChar(h, c), "filename_body", 1, "begin_filename")
           /\ Expects(h, "content_type", 1) /\ c = CR =>
                Done(HandleMessageChar(h, c), "content_type", 2, "none")
           /\ Expects(h, "content_type", 2) /\ c = LF =>
                Done(HandleMessageChar(h, c), "content_type", 3, "none")
           /\ Expects(h, "content_type", 3) /\ c = Type =>
                Done(HandleMessageChar(h, c), "content_type_body", 1, "none")
           /\ Expects(h, "pre_body", 2) /\ c = LF =>
                Done(HandleMessageChar(h, c), "pre_body", 3, "none")
           /\ Expects(h, "pre_body", 3) /\ c = CR =>
                Done(HandleMessageChar(h, c), "pre_body", 4, "none")
           /\ Expects(h, "pre_body", 4) /\ c = LF =>
                Done(HandleMessageChar(h, c), "body", 1, "begin_body")
<1>1. h.state \in TextStates => HandleMessageChar(h, c) = Compare(h, c)
    BY TextDomain DEF HandleMessageChar, TextStates
<1>2. Expects(h, "content_disposition", 1) /\ c = Disposition =>
          Compare(h, c) = Go("name", "begin_name")
    BY DEF Compare, Text, AfterText, Expects
<1>3. Expects(h, "filename", 1) /\ c = Filename =>
          Compare(h, c) = Go("filename_body", "begin_filename")
    BY DEF Compare, Text, AfterText, Expects
<1>4. Expects(h, "content_type", 1) /\ c = CR => Compare(h, c) = At("content_type", 2)
    BY DEF Compare, Text, AfterText, Expects
<1>5. Expects(h, "content_type", 2) /\ c = LF => Compare(h, c) = At("content_type", 3)
    BY DEF Compare, Text, AfterText, Expects
<1>6. Expects(h, "content_type", 3) /\ c = Type => Compare(h, c) = Go("content_type_body", "none")
    BY DEF Compare, Text, AfterText, Expects
<1>7. Expects(h, "pre_body", 2) /\ c = LF => Compare(h, c) = At("pre_body", 3)
    BY DEF Compare, Text, AfterText, Expects
<1>8. Expects(h, "pre_body", 3) /\ c = CR => Compare(h, c) = At("pre_body", 4)
    BY DEF Compare, Text, AfterText, Expects
<1>9. Expects(h, "pre_body", 4) /\ c = LF => Compare(h, c) = Go("body", "begin_body")
    BY DEF Compare, Text, AfterText, Expects
<1>10. \A state \in TextStates : \A i : Expects(h, state, i) => HandleMessageChar(h, c) = Compare(h, c)
    BY <1>1 DEF Expects
<1>11. /\ "content_disposition" \in TextStates /\ "filename" \in TextStates
       /\ "content_type" \in TextStates /\ "pre_body" \in TextStates
    BY DEF TextStates
<1> QED
    BY <1>2, <1>3, <1>4, <1>5, <1>6, <1>7, <1>8, <1>9, <1>10, <1>11, GoesOn, ZenonT(60)

(* The parser of the headers, between the texts. *)
LEMMA BetweenTexts ==
    ASSUME NEW h, NEW c
    PROVE  /\ Expects(h, "name", 1) =>
                IF c = Quote THEN Done(HandleMessageChar(h, c), "maybe_filename", 1, "end_name")
                ELSE Done(HandleMessageChar(h, c), "name", 1, "none")
           /\ Expects(h, "maybe_filename", 1) /\ c = Semicolon =>
                Done(HandleMessageChar(h, c), "filename", 1, "none")
           /\ Expects(h, "maybe_filename", 1) /\ c = CR =>
                Done(HandleMessageChar(h, c), "pre_body", 2, "none")
           /\ Expects(h, "filename_body", 1) =>
                IF c = Quote THEN Done(HandleMessageChar(h, c), "content_type", 1, "end_filename")
                ELSE Done(HandleMessageChar(h, c), "filename_body", 1, "none")
           /\ Expects(h, "content_type_body", 1) =>
                IF c = CR THEN Done(HandleMessageChar(h, c), "pre_body", 2, "none")
                ELSE Done(HandleMessageChar(h, c), "content_type_body", 1, "none")
           /\ Expects(h, "body", 1) => Done(HandleMessageChar(h, c), "body", 1, "none")
<1>0. Semicolon # CR
    BY BytesDiffer
<1>1. h.state \notin TextStates => h.state \notin DOMAIN Text
    BY TextDomain
<1>2. Expects(h, "name", 1) =>
          HandleMessageChar(h, c) = IF c = Quote THEN Go("maybe_filename", "end_name") ELSE At("name", 1)
    BY <1>1 DEF HandleMessageChar, TextStates, Expects
<1>3. Expects(h, "maybe_filename", 1) /\ c = Semicolon =>
          HandleMessageChar(h, c) = At("filename", 1)
    BY <1>0, <1>1 DEF HandleMessageChar, TextStates, Expects
<1>4. Expects(h, "maybe_filename", 1) /\ c = CR =>
          HandleMessageChar(h, c) = At("pre_body", 2)
    BY <1>0, <1>1 DEF HandleMessageChar, TextStates, Expects
<1>5. Expects(h, "filename_body", 1) =>
          HandleMessageChar(h, c) =
              IF c = Quote THEN Go("content_type", "end_filename") ELSE At("filename_body", 1)
    BY <1>1 DEF HandleMessageChar, TextStates, Expects
<1>6. Expects(h, "content_type_body", 1) =>
          HandleMessageChar(h, c) = IF c = CR THEN At("pre_body", 2) ELSE At("content_type_body", 1)
    BY <1>1 DEF HandleMessageChar, TextStates, Expects
<1>7. Expects(h, "body", 1) => HandleMessageChar(h, c) = At("body", 1)
    BY <1>1 DEF HandleMessageChar, TextStates, Expects
<1>a. Expects(h, "name", 1) =>
          IF c = Quote THEN Done(HandleMessageChar(h, c), "maybe_filename", 1, "end_name")
          ELSE Done(HandleMessageChar(h, c), "name", 1, "none")
    BY <1>2, GoesOn
<1>b. Expects(h, "filename_body", 1) =>
          IF c = Quote THEN Done(HandleMessageChar(h, c), "content_type", 1, "end_filename")
          ELSE Done(HandleMessageChar(h, c), "filename_body", 1, "none")
    BY <1>5, GoesOn
<1>c. Expects(h, "content_type_body", 1) =>
          IF c = CR THEN Done(HandleMessageChar(h, c), "pre_body", 2, "none")
          ELSE Done(HandleMessageChar(h, c), "content_type_body", 1, "none")
    BY <1>6, GoesOn
<1> QED
    BY <1>a, <1>b, <1>c, <1>3, <1>4, <1>7, GoesOn

(* Whatever is read, the parser stays within its states; the name of a     *)
(* file ends only behind one that began. *)
HeaderMay(h, g) ==
    /\ g \in Headers
    /\ g.state = "filename_body" => h.state = "filename_body" \/ g.event = "begin_filename"
    /\ g.event = "end_filename" => h.state = "filename_body"

(* Every step that the header parser is written with is one that HeaderMay *)
(* allows.                                                                 *)
LEMMA HeaderMayStay ==
    ASSUME NEW h \in Headers
    PROVE  /\ HeaderMay(h, [h EXCEPT !.event = "error"])
           /\ \A i \in Nat : HeaderMay(h, At(h.state, i))
           /\ \A state \in HeaderStates \ {"filename_body"}, i \in Nat : HeaderMay(h, At(state, i))
           /\ \A state \in HeaderStates \ {"filename_body"}, event \in Events \ {"end_filename"} :
                 HeaderMay(h, Go(state, event))
           /\ HeaderMay(h, Go("filename_body", "begin_filename"))
           /\ h.state = "filename_body" => HeaderMay(h, Go("content_type", "end_filename"))
<1>0. h.state \in HeaderStates /\ h.i \in Nat
    BY DEF Headers
<1>1. HeaderMay(h, [h EXCEPT !.event = "error"])
    BY DEF HeaderMay, Headers, Events
<1>2. \A i \in Nat : HeaderMay(h, At(h.state, i))
    BY <1>0 DEF HeaderMay, Headers, Events, At
<1>3. \A state \in HeaderStates \ {"filename_body"}, i \in Nat : HeaderMay(h, At(state, i))
    BY DEF HeaderMay, Headers, Events, At
<1>4. \A state \in HeaderStates \ {"filename_body"}, event \in Events \ {"end_filename"} :
          HeaderMay(h, Go(state, event))
    BY DEF HeaderMay, Headers, Go
<1>5. HeaderMay(h, Go("filename_body", "begin_filename"))
    BY DEF HeaderMay, Headers, HeaderStates, Events, Go
<1>6. h.state = "filename_body" => HeaderMay(h, Go("content_type", "end_filename"))
    BY DEF HeaderMay, Headers, HeaderStates, TextStates, Events, Go
<1> QED
    BY <1>1, <1>2, <1>3, <1>4, <1>5, <1>6

(* Only filename=" leads into the state that reads a file name, and with   *)
(* begin_filename.                                                         *)
LEMMA AfterTextIs ==
    ASSUME NEW state \in TextStates
    PROVE  \/ AfterText[state][1] = "filename_body" /\ AfterText[state][2] = "begin_filename"
           \/ /\ AfterText[state][1] \in HeaderStates \ {"filename_body"}
              /\ AfterText[state][2] \in Events \ {"end_filename"}
BY DEF TextStates, AfterText, HeaderStates, Events

(* Whatever byte comes, the header parser does what HeaderMay allows. *)
LEMMA HeaderType ==
    ASSUME NEW h \in Headers, NEW c
    PROVE  HeaderMay(h, HandleMessageChar(h, c))
<1>0. h.state \in HeaderStates /\ h.i \in Nat
    BY DEF Headers
<1>1. CASE h.state \in TextStates
  <2>1. HandleMessageChar(h, c) = Compare(h, c)
    BY <1>1, TextDomain DEF HandleMessageChar, TextStates
  <2>2. \/ Compare(h, c) = [h EXCEPT !.event = "error"]
        \/ Compare(h, c) = At(h.state, h.i + 1)
        \/ Compare(h, c) = Go(AfterText[h.state][1], AfterText[h.state][2])
    BY DEF Compare
  <2>3. h.i + 1 \in Nat
    BY <1>0
  <2>4. HeaderMay(h, At(h.state, h.i + 1))
    BY <2>3, HeaderMayStay
  <2>5. HeaderMay(h, Go(AfterText[h.state][1], AfterText[h.state][2]))
    BY <1>1, AfterTextIs, HeaderMayStay, Zenon
  <2>6. HeaderMay(h, [h EXCEPT !.event = "error"])
    BY HeaderMayStay
  <2> QED
    BY <2>1, <2>2, <2>4, <2>5, <2>6, Zenon
<1>2. CASE h.state \notin TextStates
  <2>1. /\ {"maybe_filename", "filename", "pre_body", "content_type"} \subseteq HeaderStates \ {"filename_body"}
        /\ {"none", "end_name"} \subseteq Events \ {"end_filename"}
        /\ 1 \in Nat /\ 2 \in Nat
    BY DEF HeaderStates, TextStates, Events
  <2>2. \/ HandleMessageChar(h, c) = [h EXCEPT !.event = "error"]
        \/ HandleMessageChar(h, c) = At(h.state, 1)
        \/ HandleMessageChar(h, c) = Go("maybe_filename", "end_name")
        \/ HandleMessageChar(h, c) = At("filename", 1)
        \/ HandleMessageChar(h, c) = At("pre_body", 2)
        \/ h.state = "filename_body" /\ HandleMessageChar(h, c) = Go("content_type", "end_filename")
    BY <1>2, TextDomain, BytesDiffer, ZenonT(60) DEF HandleMessageChar
  <2>3. /\ HeaderMay(h, Go("maybe_filename", "end_name"))
        /\ HeaderMay(h, At(h.state, 1))
        /\ HeaderMay(h, At("filename", 1)) /\ HeaderMay(h, At("pre_body", 2))
    BY <2>1, HeaderMayStay, Zenon
  <2>4. /\ HeaderMay(h, [h EXCEPT !.event = "error"])
        /\ h.state = "filename_body" => HeaderMay(h, Go("content_type", "end_filename"))
    BY HeaderMayStay
  <2> QED
    BY <2>2, <2>3, <2>4, Zenon
<1> QED
    BY <1>1, <1>2

(* What the parser of the headers expects when it has read l bytes of a    *)
(* part, and what the last of them means. *)
Reads(part, h, l) ==
    LET n == Len(part.file)
        b == BodyAt(part)
    IN  \/ l = 0 /\ Expects(h, "content_disposition", 1)
        \/ l \in 1 .. 2 /\ Expects(h, "name", 1)
        \/ l = 3 /\ Expects(h, "maybe_filename", 1)
        \/ IsFile(part) /\ l = 4 /\ Expects(h, "filename", 1)
        \/ IsFile(part) /\ l \in 5 .. n + 5 /\ Expects(h, "filename_body", 1)
        \/ IsFile(part) /\ l = n + 6 /\ Expects(h, "content_type", 1)
        \/ IsFile(part) /\ l = n + 7 /\ Expects(h, "content_type", 2)
        \/ IsFile(part) /\ l = n + 8 /\ Expects(h, "content_type", 3)
        \/ IsFile(part) /\ l \in n + 9 .. n + 10 /\ Expects(h, "content_type_body", 1)
        \/ l = b - 3 /\ Expects(h, "pre_body", 2)
        \/ l = b - 2 /\ Expects(h, "pre_body", 3)
        \/ l = b - 1 /\ Expects(h, "pre_body", 4)
        \/ l >= b /\ Expects(h, "body", 1)

EventAt(part, l) ==
    IF l = 1 THEN "begin_name"
    ELSE IF l = 3 THEN "end_name"
    ELSE IF l = BodyAt(part) THEN "begin_body"
    ELSE IF IsFile(part) /\ l = 5 THEN "begin_filename"
    ELSE IF IsFile(part) /\ l = 6 + Len(part.file) THEN "end_filename"
    ELSE "none"

(* The header parser reads an encoded part byte by byte, with the event of *)
(* each byte.                                                              *)
LEMMA HeaderStep ==
    ASSUME NEW part \in Parts, NEW l \in Nat, l < Len(EncodedPart(part)),
           NEW h, Reads(part, h, l)
    PROVE  LET g == HandleMessageChar(h, EncodedPart(part)[l + 1])
           IN  Reads(part, g, l + 1) /\ g.event = EventAt(part, l + 1)
<1> DEFINE n == Len(part.file)
           b == BodyAt(part)
           m == EncodedPart(part)
           c == m[l + 1]
           g == HandleMessageChar(h, c)
<1> SUFFICES Reads(part, g, l + 1) /\ g.event = EventAt(part, l + 1)
    OBVIOUS
<1>1. /\ n \in Nat
      /\ IsFile(part) => b = 14 + n /\ n > 0
      /\ ~IsFile(part) => b = 7
    BY PartFacts DEF BodyAt
<1>2. /\ part.name # Quote
      /\ \A j \in 1 .. n : part.file[j] # Quote
    BY PartFacts
<1>3. /\ m[1] = Disposition /\ m[2] = part.name /\ m[3] = Quote
      /\ IsFile(part) =>
           /\ m[4] = Semicolon /\ m[5] = Filename
           /\ \A j \in 1 .. n : m[5 + j] = part.file[j]
           /\ m[n + 6] = Quote /\ m[n + 7] = CR /\ m[n + 8] = LF
           /\ m[n + 9] = Type /\ m[n + 10] = Plain
      /\ m[b - 3] = CR /\ m[b - 2] = LF /\ m[b - 1] = CR /\ m[b] = LF
    BY PartIs
<1>4. Quote # CR /\ Semicolon # CR /\ Plain # CR
    BY BytesDiffer
<1>5. b \in Nat /\ b >= 7
    BY <1>1
<1>t. /\ Expects(h, "content_disposition", 1) /\ c = Disposition => Done(g, "name", 1, "begin_name")
      /\ Expects(h, "filename", 1) /\ c = Filename => Done(g, "filename_body", 1, "begin_filename")
      /\ Expects(h, "content_type", 1) /\ c = CR => Done(g, "content_type", 2, "none")
      /\ Expects(h, "content_type", 2) /\ c = LF => Done(g, "content_type", 3, "none")
      /\ Expects(h, "content_type", 3) /\ c = Type => Done(g, "content_type_body", 1, "none")
      /\ Expects(h, "pre_body", 2) /\ c = LF => Done(g, "pre_body", 3, "none")
      /\ Expects(h, "pre_body", 3) /\ c = CR => Done(g, "pre_body", 4, "none")
      /\ Expects(h, "pre_body", 4) /\ c = LF => Done(g, "body", 1, "begin_body")
    BY ComparedText
<1>u. /\ Expects(h, "name", 1) =>
             IF c = Quote THEN Done(g, "maybe_filename", 1, "end_name") ELSE Done(g, "name", 1, "none")
      /\ Expects(h, "maybe_filename", 1) /\ c = Semicolon => Done(g, "filename", 1, "none")
      /\ Expects(h, "maybe_filename", 1) /\ c = CR => Done(g, "pre_body", 2, "none")
      /\ Expects(h, "filename_body", 1) =>
             IF c = Quote THEN Done(g, "content_type", 1, "end_filename")
             ELSE Done(g, "filename_body", 1, "none")
      /\ Expects(h, "content_type_body", 1) =>
             IF c = CR THEN Done(g, "pre_body", 2, "none") ELSE Done(g, "content_type_body", 1, "none")
      /\ Expects(h, "body", 1) => Done(g, "body", 1, "none")
    BY BetweenTexts
<1>v. \A state, i, event : Done(g, state, i, event) => Expects(g, state, i) /\ g.event = event
    BY DEF Done, Expects
<1> HIDE DEF m, c, g
<1>w. c = m[l + 1]
    BY DEF c
<1>r. Reads(part, h, l)
    OBVIOUS
<1> HIDE DEF n, b
<1>a. CASE l = 0 /\ Expects(h, "content_disposition", 1)
  <2>1. Done(g, "name", 1, "begin_name")
    BY <1>a, <1>3, <1>t, <1>w
  <2>2. EventAt(part, l + 1) = "begin_name" /\ l + 1 \in 1 .. 2
    BY <1>a DEF EventAt
  <2> QED
    BY <2>1, <2>2, <1>v DEF Reads
<1>b. CASE l \in 1 .. 2 /\ Expects(h, "name", 1)
  <2>1. CASE l = 1
    <3>1. Done(g, "name", 1, "none")
        BY <1>b, <2>1, <1>2, <1>3, <1>u, <1>w
    <3>2. EventAt(part, l + 1) = "none" /\ l + 1 \in 1 .. 2
        BY <1>1, <2>1 DEF EventAt, b, n
    <3> QED
        BY <3>1, <3>2, <1>v DEF Reads
  <2>2. CASE l = 2
    <3>1. Done(g, "maybe_filename", 1, "end_name")
        BY <1>b, <2>2, <1>3, <1>u, <1>w
    <3>2. EventAt(part, l + 1) = "end_name" /\ l + 1 = 3
        BY <2>2 DEF EventAt
    <3> QED
        BY <3>1, <3>2, <1>v DEF Reads
  <2> QED
    BY <1>b, <2>1, <2>2
<1>c. CASE l = 3 /\ Expects(h, "maybe_filename", 1)
  <2>1. CASE IsFile(part)
    <3>1. Done(g, "filename", 1, "none")
        BY <1>c, <2>1, <1>3, <1>u, <1>w
    <3>2. EventAt(part, l + 1) = "none" /\ l + 1 = 4
        BY <1>c, <1>1, <2>1 DEF EventAt, b, n
    <3> QED
        BY <3>1, <3>2, <2>1, <1>v DEF Reads
  <2>2. CASE ~IsFile(part)
    <3>1. Done(g, "pre_body", 2, "none")
        BY <1>c, <2>2, <1>1, <1>3, <1>u, <1>w
    <3>2. EventAt(part, l + 1) = "none" /\ l + 1 = b - 3
        BY <1>c, <1>1, <2>2 DEF EventAt, b, n
    <3> QED
        BY <3>1, <3>2, <1>v DEF Reads, b
  <2> QED
    BY <2>1, <2>2
<1>d. CASE IsFile(part) /\ l = 4 /\ Expects(h, "filename", 1)
  <2>1. Done(g, "filename_body", 1, "begin_filename")
    BY <1>d, <1>3, <1>t, <1>w
  <2>2. EventAt(part, l + 1) = "begin_filename" /\ l + 1 \in 5 .. n + 5
    BY <1>d, <1>1 DEF EventAt, b, n
  <2> QED
    BY <2>1, <2>2, <1>d, <1>v DEF Reads, n
<1>e. CASE IsFile(part) /\ l \in 5 .. n + 5 /\ Expects(h, "filename_body", 1)
  <2>1. CASE l < n + 5
    <3>0. l - 4 \in 1 .. n /\ 5 + (l - 4) = l + 1
        BY <2>1, <1>e, <1>1
    <3>1. Done(g, "filename_body", 1, "none")
        BY <3>0, <1>e, <1>2, <1>3, <1>u, <1>w
    <3>2. EventAt(part, l + 1) = "none" /\ l + 1 \in 5 .. n + 5
        BY <1>e, <2>1, <1>1 DEF EventAt, b, n
    <3> QED
        BY <3>1, <3>2, <1>e, <1>v DEF Reads, n
  <2>2. CASE l = n + 5
    <3>0. l + 1 = n + 6
        BY <2>2, <1>1
    <3>1. Done(g, "content_type", 1, "end_filename")
        BY <3>0, <1>e, <1>3, <1>u, <1>w
    <3>2. EventAt(part, l + 1) = "end_filename"
        BY <1>e, <2>2, <1>1 DEF EventAt, b, n
    <3> QED
        BY <3>0, <3>1, <3>2, <1>e, <1>v DEF Reads, n
  <2> QED
    BY <2>1, <2>2, <1>e, <1>1
<1>f. CASE IsFile(part) /\ l = n + 6 /\ Expects(h, "content_type", 1)
  <2>0. l + 1 = n + 7
    BY <1>f, <1>1
  <2>1. Done(g, "content_type", 2, "none")
    BY <2>0, <1>f, <1>3, <1>t, <1>w
  <2>2. EventAt(part, l + 1) = "none"
    BY <1>f, <1>1 DEF EventAt, b, n
  <2> QED
    BY <2>0, <2>1, <2>2, <1>f, <1>v DEF Reads, n
<1>g. CASE IsFile(part) /\ l = n + 7 /\ Expects(h, "content_type", 2)
  <2>0. l + 1 = n + 8
    BY <1>g, <1>1
  <2>1. Done(g, "content_type", 3, "none")
    BY <2>0, <1>g, <1>3, <1>t, <1>w
  <2>2. EventAt(part, l + 1) = "none"
    BY <1>g, <1>1 DEF EventAt, b, n
  <2> QED
    BY <2>0, <2>1, <2>2, <1>g, <1>v DEF Reads, n
<1>h. CASE IsFile(part) /\ l = n + 8 /\ Expects(h, "content_type", 3)
  <2>0. l + 1 = n + 9 /\ l + 1 \in n + 9 .. n + 10
    BY <1>h, <1>1
  <2>1. Done(g, "content_type_body", 1, "none")
    BY <2>0, <1>h, <1>3, <1>t, <1>w
  <2>2. EventAt(part, l + 1) = "none"
    BY <1>h, <1>1 DEF EventAt, b, n
  <2> QED
    BY <2>0, <2>1, <2>2, <1>h, <1>v DEF Reads, n
<1>i. CASE IsFile(part) /\ l \in n + 9 .. n + 10 /\ Expects(h, "content_type_body", 1)
  <2>1. CASE l = n + 9
    <3>0. l + 1 = n + 10 /\ l + 1 \in n + 9 .. n + 10
        BY <2>1, <1>1
    <3>1. Done(g, "content_type_body", 1, "none")
        BY <3>0, <1>i, <1>3, <1>4, <1>u, <1>w
    <3>2. EventAt(part, l + 1) = "none"
        BY <1>i, <2>1, <1>1 DEF EventAt, b, n
    <3> QED
        BY <3>0, <3>1, <3>2, <1>i, <1>v DEF Reads, n
  <2>2. CASE l = n + 10
    <3>0. l + 1 = b - 3
        BY <2>2, <1>i, <1>1
    <3>1. Done(g, "pre_body", 2, "none")
        BY <3>0, <1>i, <1>3, <1>u, <1>w
    <3>2. EventAt(part, l + 1) = "none"
        BY <1>i, <2>2, <1>1 DEF EventAt, b, n
    <3> QED
        BY <3>0, <3>1, <3>2, <1>v DEF Reads, b
  <2> QED
    BY <2>1, <2>2, <1>i, <1>1
<1>j. CASE l = b - 3 /\ Expects(h, "pre_body", 2)
  <2>0. l + 1 = b - 2
    BY <1>j, <1>5
  <2>1. Done(g, "pre_body", 3, "none")
    BY <2>0, <1>j, <1>3, <1>t, <1>w
  <2>2. EventAt(part, l + 1) = "none"
    BY <1>j, <1>1 DEF EventAt, b, n
  <2> QED
    BY <2>0, <2>1, <2>2, <1>v DEF Reads, b
<1>k. CASE l = b - 2 /\ Expects(h, "pre_body", 3)
  <2>0. l + 1 = b - 1
    BY <1>k, <1>5
  <2>1. Done(g, "pre_body", 4, "none")
    BY <2>0, <1>k, <1>3, <1>t, <1>w
  <2>2. EventAt(part, l + 1) = "none"
    BY <1>k, <1>1 DEF EventAt, b, n
  <2> QED
    BY <2>0, <2>1, <2>2, <1>v DEF Reads, b
<1>l. CASE l = b - 1 /\ Expects(h, "pre_body", 4)
  <2>0. l + 1 = b /\ l + 1 >= b
    BY <1>l, <1>5
  <2>1. Done(g, "body", 1, "begin_body")
    BY <2>0, <1>l, <1>3, <1>t, <1>w
  <2>2. EventAt(part, l + 1) = "begin_body"
    BY <1>l, <1>1 DEF EventAt, b, n
  <2> QED
    BY <2>0, <2>1, <2>2, <1>v DEF Reads, b
<1>m. CASE l >= b /\ Expects(h, "body", 1)
  <2>0. l + 1 >= b
    BY <1>m, <1>5
  <2>1. Done(g, "body", 1, "none")
    BY <1>m, <1>u
  <2>2. EventAt(part, l + 1) = "none"
    BY <1>m, <1>1 DEF EventAt, b, n
  <2> QED
    BY <2>0, <2>1, <2>2, <1>v DEF Reads, b
<1> QED
    BY <1>r, <1>a, <1>b, <1>c, <1>d, <1>e, <1>f, <1>g, <1>h, <1>i, <1>j, <1>k, <1>l, <1>m
    DEF Reads, n, b

(* The reader *)

Data == Bytes \cup {"hole"}

Entries == [name : Seq(Bytes), is_file : BOOLEAN, written : BOOLEAN, content : Seq(Bytes)]

Statuses == {"none", "reading", "ok", "conflict", "not_found", "dropped", "disk_failed",
             "broken_off"}

ParserStates ==
    {"preamble", "first_message", "encapsulation", "maybe_end_or_encapsulation",
     "maybe_encapsulation", "maybe_end", "epilogue", "error"}

Readers ==
    [status : Statuses, form : AllForms \cup {<< >>}, mode : {"add", "replace", "ignore"},
     sent : Nat, parser : [state : ParserStates, matched : Nat], message : BOOLEAN,
     header : Headers, state : {"name", "filename", "file", "content"}, is_writable : BOOLEAN,
     name : Seq(Bytes), values : Seq(Entries), file : Seq(Bytes) \cup {Absent},
     offset : Nat, pending : Seq(Bytes), stale : BOOLEAN, torn : BOOLEAN,
     short : BOOLEAN, wrote : SUBSET Seq(Bytes), crossed : BOOLEAN]

Puts ==
    [up : Readers, files : [FileNames -> Seq(Data) \cup {Absent}], works : Works,
     error : BOOLEAN, opened : SUBSET Seq(Bytes), at : Nat \ {0}, from : Nat \ {0},
     view : Seq(Bytes)]

(* What no event of a part changes. *)
Keeps(w, w1) ==
    /\ w1.up.status = w.up.status /\ w1.up.form = w.up.form /\ w1.up.mode = w.up.mode
    /\ w1.up.sent = w.up.sent /\ w1.up.parser = w.up.parser /\ w1.up.message = w.up.message
    /\ w1.up.header = w.up.header /\ w1.up.pending = w.up.pending /\ w1.up.stale = w.up.stale
    /\ w1.up.torn = w.up.torn /\ w1.up.crossed = w.up.crossed
    /\ w1.works = w.works /\ w1.view = w.view /\ w1.at = w.at

(* What is not about a file is done without one. *)
Leaves(w, w1) ==
    /\ w1.up.file = w.up.file /\ w1.up.offset = w.up.offset /\ w1.up.short = w.up.short
    /\ w1.up.wrote = w.up.wrote /\ w1.files = w.files /\ w1.opened = w.opened

(* The types of the fields of a put. *)
LEMMA PutHas ==
    ASSUME NEW w \in Puts
    PROVE  /\ w.up \in Readers /\ w.files \in [FileNames -> Seq(Data) \cup {Absent}]
           /\ w.works \in Works /\ w.error \in BOOLEAN /\ w.opened \in SUBSET Seq(Bytes)
           /\ w.at \in Nat /\ w.at > 0 /\ w.from \in Nat /\ w.from > 0 /\ w.view \in Seq(Bytes)
BY DEF Puts

(* The types of the fields of an upload. *)
LEMMA ReaderHas ==
    ASSUME NEW up \in Readers
    PROVE  /\ up.status \in Statuses /\ up.form \in AllForms \cup {<< >>}
           /\ up.mode \in {"add", "replace", "ignore"} /\ up.sent \in Nat
           /\ up.parser \in [state : ParserStates, matched : Nat] /\ up.message \in BOOLEAN
           /\ up.header \in Headers /\ up.state \in {"name", "filename", "file", "content"}
           /\ up.is_writable \in BOOLEAN /\ up.name \in Seq(Bytes) /\ up.values \in Seq(Entries)
           /\ up.file \in Seq(Bytes) \cup {Absent} /\ up.offset \in Nat
           /\ up.pending \in Seq(Bytes) /\ up.stale \in BOOLEAN /\ up.torn \in BOOLEAN
           /\ up.short \in BOOLEAN /\ up.wrote \in SUBSET Seq(Bytes) /\ up.crossed \in BOOLEAN
BY DEF Readers

(* One field is set. *)
LEMMA SetReader ==
    ASSUME NEW up \in Readers
    PROVE  /\ \A x \in Statuses : [up EXCEPT !.status = x] \in Readers
           /\ \A x \in [state : ParserStates, matched : Nat] : [up EXCEPT !.parser = x] \in Readers
           /\ \A x \in BOOLEAN : [up EXCEPT !.message = x] \in Readers
           /\ \A x \in Headers : [up EXCEPT !.header = x] \in Readers
           /\ \A x \in {"name", "filename", "file", "content"} : [up EXCEPT !.state = x] \in Readers
           /\ \A x \in BOOLEAN : [up EXCEPT !.is_writable = x] \in Readers
           /\ \A x \in Seq(Bytes) : [up EXCEPT !.name = x] \in Readers
           /\ \A x \in Seq(Entries) : [up EXCEPT !.values = x] \in Readers
           /\ \A x \in Seq(Bytes) \cup {Absent} : [up EXCEPT !.file = x] \in Readers
           /\ \A x \in Nat : [up EXCEPT !.offset = x] \in Readers
           /\ \A x \in BOOLEAN : [up EXCEPT !.torn = x] \in Readers
           /\ \A x \in BOOLEAN : [up EXCEPT !.short = x] \in Readers
           /\ \A x \in SUBSET Seq(Bytes) : [up EXCEPT !.wrote = x] \in Readers
           /\ \A x \in BOOLEAN : [up EXCEPT !.crossed = x] \in Readers
<1>1. \A x \in Statuses : [up EXCEPT !.status = x] \in Readers
    BY DEF Readers
<1>2. \A x \in [state : ParserStates, matched : Nat] : [up EXCEPT !.parser = x] \in Readers
    BY DEF Readers
<1>3. \A x \in BOOLEAN : [up EXCEPT !.message = x] \in Readers
    BY DEF Readers
<1>4. \A x \in Headers : [up EXCEPT !.header = x] \in Readers
    BY DEF Readers
<1>5. \A x \in {"name", "filename", "file", "content"} : [up EXCEPT !.state = x] \in Readers
    BY DEF Readers
<1>6. \A x \in BOOLEAN : [up EXCEPT !.is_writable = x] \in Readers
    BY DEF Readers
<1>7. \A x \in Seq(Bytes) : [up EXCEPT !.name = x] \in Readers
    BY DEF Readers
<1>8. \A x \in Seq(Entries) : [up EXCEPT !.values = x] \in Readers
    BY DEF Readers
<1>9. \A x \in Seq(Bytes) \cup {Absent} : [up EXCEPT !.file = x] \in Readers
    BY DEF Readers
<1>10. \A x \in Nat : [up EXCEPT !.offset = x] \in Readers
    BY DEF Readers
<1>11. \A x \in BOOLEAN : [up EXCEPT !.torn = x] \in Readers
    BY DEF Readers
<1>12. \A x \in BOOLEAN : [up EXCEPT !.short = x] \in Readers
    BY DEF Readers
<1>13. \A x \in SUBSET Seq(Bytes) : [up EXCEPT !.wrote = x] \in Readers
    BY DEF Readers
<1>14. \A x \in BOOLEAN : [up EXCEPT !.crossed = x] \in Readers
    BY DEF Readers
<1> QED
    BY <1>1, <1>2, <1>3, <1>4, <1>5, <1>6, <1>7, <1>8, <1>9, <1>10, <1>11, <1>12, <1>13, <1>14

(* A put with one field changed is a put. *)
LEMMA SetPut ==
    ASSUME NEW w \in Puts
    PROVE  /\ \A x \in Readers : [w EXCEPT !.up = x] \in Puts
           /\ \A x \in [FileNames -> Seq(Data) \cup {Absent}] : [w EXCEPT !.files = x] \in Puts
           /\ \A x \in BOOLEAN : [w EXCEPT !.error = x] \in Puts
           /\ \A x \in SUBSET Seq(Bytes) : [w EXCEPT !.opened = x] \in Puts
           /\ \A x \in Nat \ {0} : [w EXCEPT !.at = x] \in Puts
           /\ \A x \in Nat \ {0} : [w EXCEPT !.from = x] \in Puts
<1>1. \A x \in Readers : [w EXCEPT !.up = x] \in Puts
    BY DEF Puts
<1>2. \A x \in [FileNames -> Seq(Data) \cup {Absent}] : [w EXCEPT !.files = x] \in Puts
    BY DEF Puts
<1>3. \A x \in BOOLEAN : [w EXCEPT !.error = x] \in Puts
    BY DEF Puts
<1>4. \A x \in SUBSET Seq(Bytes) : [w EXCEPT !.opened = x] \in Puts
    BY DEF Puts
<1>5. \A x \in Nat \ {0} : [w EXCEPT !.at = x] \in Puts
    BY DEF Puts
<1>6. \A x \in Nat \ {0} : [w EXCEPT !.from = x] \in Puts
    BY DEF Puts
<1> QED
    BY <1>1, <1>2, <1>3, <1>4, <1>5, <1>6

-----------------------------------------------------------------------------
(* What each operation of the reader changes *)

(* What begin_part does: from here on the bytes are written. *)
LEMMA BeginPartIs ==
    ASSUME NEW w \in Puts
    PROVE  LET w1 == BeginPart(w)
           IN  /\ w1 \in Puts /\ Keeps(w, w1) /\ Leaves(w, w1)
               /\ w1.error = w.error /\ w1.from = w.at + 1
               /\ w1.up.is_writable = TRUE
               /\ w1.up.state = w.up.state /\ w1.up.name = w.up.name /\ w1.up.values = w.up.values
<1> DEFINE up1 == [w.up EXCEPT !.is_writable = TRUE]
           w1 == [w EXCEPT !.up = up1]
<1>1. w.up \in Readers /\ w.at + 1 \in Nat \ {0}
    BY DEF Puts
<1>2. up1 \in Readers
    BY <1>1, SetReader
<1>3. w1 \in Puts
    BY <1>2, SetPut
<1>4. [w1 EXCEPT !.from = w.at + 1] \in Puts
    BY <1>1, <1>3, SetPut
<1>5. BeginPart(w) = [w1 EXCEPT !.from = w.at + 1]
    BY DEF BeginPart, Puts
<1>6. BeginPart(w).from = w.at + 1 /\ BeginPart(w).error = w.error
    BY DEF BeginPart, Puts
<1>7. Keeps(w, BeginPart(w))
    BY DEF BeginPart, Puts, Readers, Keeps
<1>8. Leaves(w, BeginPart(w))
    BY DEF BeginPart, Puts, Readers, Leaves
<1>9. /\ BeginPart(w).up.is_writable = TRUE /\ BeginPart(w).up.state = w.up.state
      /\ BeginPart(w).up.name = w.up.name /\ BeginPart(w).up.values = w.up.values
    BY DEF BeginPart, Puts, Readers
<1> QED
    BY <1>4, <1>5, <1>6, <1>7, <1>8, <1>9

(* What emplacing a value does: one more value, with the name that was     *)
(* read.                                                                   *)
LEMMA EmplaceIs ==
    ASSUME NEW w \in Puts, NEW is_file \in BOOLEAN
    PROVE  LET w1 == Emplace(w, is_file)
               n == Len(w.up.values)
           IN  /\ w1 \in Puts /\ Keeps(w, w1) /\ Leaves(w, w1)
               /\ w1.error = w.error /\ w1.from = w.from
               /\ w1.up.is_writable = w.up.is_writable
               /\ w1.up.state = w.up.state /\ w1.up.name = << >>
               /\ n \in Nat /\ Len(w1.up.values) = n + 1
               /\ \A i \in 1 .. n : w1.up.values[i] = w.up.values[i]
               /\ w1.up.values[n + 1].name = w.up.name
               /\ w1.up.values[n + 1].is_file = is_file
               /\ w1.up.values[n + 1].written = TRUE
               /\ w1.up.values[n + 1].content = << >>
<1> DEFINE entry == [name |-> w.up.name, is_file |-> is_file, written |-> TRUE, content |-> << >>]
           values == Append(w.up.values, entry)
           up1 == [w.up EXCEPT !.values = values]
           up2 == [up1 EXCEPT !.name = << >>]
           w1 == Emplace(w, is_file)
           n == Len(w.up.values)
<1>1. w.up \in Readers /\ w.up.name \in Seq(Bytes) /\ w.up.values \in Seq(Entries)
    BY DEF Puts, Readers
<1>2. entry \in Entries /\ entry.name = w.up.name /\ entry.is_file = is_file
      /\ entry.written = TRUE /\ entry.content = << >>
    BY <1>1, EmptySeq DEF Entries
<1> HIDE DEF entry
<1>3. /\ values \in Seq(Entries) /\ n \in Nat /\ Len(values) = n + 1
      /\ \A i \in 1 .. n : values[i] = w.up.values[i]
      /\ values[n + 1] = entry
    BY <1>1, <1>2, AppendProperties, LenProperties
<1> HIDE DEF values
<1>4. up2 \in Readers
    BY <1>1, <1>3, SetReader, EmptySeq
<1>5. w1 = [w EXCEPT !.up = up2]
    BY DEF Emplace, Puts, values, entry
<1>6. w1 \in Puts
    BY <1>4, <1>5, SetPut
<1>7. up2.values = values /\ up2.name = << >> /\ up2.state = w.up.state /\ up2.is_writable = w.up.is_writable
    BY <1>1 DEF Readers
<1>8. w1.up = up2 /\ w1.error = w.error /\ w1.from = w.from
    BY <1>5 DEF Puts
<1>9. Keeps(w, w1)
    BY DEF Emplace, Puts, Readers, Keeps
<1>10. Leaves(w, w1)
    BY DEF Emplace, Puts, Readers, Leaves
<1> HIDE DEF up2, w1
<1>11. w1.up.values = values
    BY <1>7, <1>8
<1> QED
    BY <1>2, <1>3, <1>6, <1>7, <1>8, <1>9, <1>10, <1>11 DEF w1

(* The bytes of a file are bytes, or a hole. *)
LEMMA DataAre == Bytes \subseteq Data /\ "hole" \in Data
BY Zenon DEF Data

(* Writing at the end of a file appends. *)
LEMMA ExtendedIs ==
    ASSUME NEW data \in Seq(Data), NEW offset \in Nat, NEW bytes \in Seq(Bytes)
    PROVE  /\ Extended(data, offset, bytes) \in Seq(Data)
           /\ offset = Len(data) => Extended(data, offset, bytes) = data \o bytes
<1> DEFINE hole == "hole"
           n == IF Len(data) > offset + Len(bytes) THEN Len(data) ELSE offset + Len(bytes)
           At1(i) == IF i > offset /\ i <= offset + Len(bytes) THEN bytes[i - offset]
                     ELSE IF i <= Len(data) THEN data[i]
                     ELSE hole
           e == [i \in 1 .. n |-> At1(i)]
<1>0. Extended(data, offset, bytes) = e
    BY DEF Extended
<1>1. /\ Len(data) \in Nat /\ Len(bytes) \in Nat /\ n \in Nat
      /\ \A i \in 1 .. Len(data) : data[i] \in Data
      /\ \A i \in 1 .. Len(bytes) : bytes[i] \in Bytes
    BY LenProperties, ElementOfSeq
<1>2. hole \in Data /\ Bytes \subseteq Data
    BY DataAre
<1> HIDE DEF hole
<1>3. ASSUME NEW i \in 1 .. n PROVE At1(i) \in Data
  <2>1. CASE i > offset /\ i <= offset + Len(bytes)
    <3>1. i - offset \in 1 .. Len(bytes)
        BY <2>1, <1>1
    <3>2. bytes[i - offset] \in Data
        BY <3>1, <1>1, <1>2
    <3> QED
        BY <2>1, <3>2
  <2>2. CASE ~(i > offset /\ i <= offset + Len(bytes)) /\ i <= Len(data)
    <3>1. data[i] \in Data
        BY <2>2, <1>1
    <3> QED
        BY <2>2, <3>1
  <2>3. CASE ~(i > offset /\ i <= offset + Len(bytes)) /\ ~(i <= Len(data))
    BY <2>3, <1>2
  <2> QED
    BY <2>1, <2>2, <2>3
<1> HIDE DEF n
<1>4. e \in Seq(Data) /\ Len(e) = n
  <2> HIDE DEF At1
  <2>1. e \in [1 .. n -> Data]
    BY <1>3
  <2> QED
    BY <1>1, <2>1, SeqDef, LenProperties
<1>5. ASSUME offset = Len(data) PROVE e = data \o bytes
  <2>1. n = Len(data) + Len(bytes)
    BY <1>1, <1>5 DEF n
  <2>2. bytes \in Seq(Data)
    BY <1>2, SeqMonotonic
  <2>3. /\ data \o bytes \in Seq(Data) /\ Len(data \o bytes) = Len(data) + Len(bytes)
        /\ \A i \in 1 .. Len(data) + Len(bytes) :
              (data \o bytes)[i] = IF i <= Len(data) THEN data[i] ELSE bytes[i - Len(data)]
    BY <2>2, ConcatProperties
  <2>4. \A i \in 1 .. n : e[i] = (data \o bytes)[i]
    <3> TAKE i \in 1 .. n
    <3>1. e[i] = At1(i)
        OBVIOUS
    <3>2. At1(i) = IF i <= Len(data) THEN data[i] ELSE bytes[i - Len(data)]
        BY <2>1, <1>1, <1>5
    <3> QED
        BY <3>1, <3>2, <2>1, <2>3
  <2> HIDE DEF e
  <2> QED
    BY <2>1, <2>3, <2>4, <1>4, SeqEqual
<1> HIDE DEF e
<1> QED
    BY <1>0, <1>4, <1>5

(* The bytes that are written next. *)
Cut(w) == SubSeq(w.view, w.from, w.at - 1)

(* The bytes that are not written yet, and where they are in the view. *)
LEMMA CutIs ==
    ASSUME NEW w \in Puts, w.at - 1 <= Len(w.view)
    PROVE  /\ Cut(w) \in Seq(Bytes) /\ Len(Cut(w)) \in Nat
           /\ w.from <= w.at => Len(Cut(w)) = w.at - w.from
           /\ \A j \in 1 .. Len(Cut(w)) : Cut(w)[j] = w.view[w.from + j - 1]
<1> DEFINE m == w.from
           n == w.at - 1
<1>1. m \in Int /\ n \in Int /\ m > 0 /\ w.view \in Seq(Bytes)
    BY PutHas
<1>2. \A i \in m .. n : w.view[i] \in Bytes
    BY <1>1, ElementOfSeq
<1>3. /\ Cut(w) \in Seq(Bytes)
      /\ Len(Cut(w)) = IF m <= n THEN n - m + 1 ELSE 0
      /\ \A i \in 1 .. n - m + 1 : Cut(w)[i] = w.view[m + i - 1]
    BY <1>1, <1>2, SubSeqProperties DEF Cut
<1>4. m \in Nat /\ w.at \in Nat
    BY PutHas
<1> QED
    BY <1>3, <1>4

(* What is written to the open file is put behind what it has in it. *)
LEMMA WriteFileIs ==
    ASSUME NEW w \in Puts, NEW bytes \in Seq(Bytes),
           w.up.file \in FileNames => w.files[w.up.file] # Absent
    PROVE  LET w1 == WriteFile(w, bytes)
               f == w.up.file
           IN  /\ w1 \in Puts /\ Keeps(w, w1)
               /\ w1.error = w.error /\ w1.from = w.from /\ w1.opened = w.opened
               /\ w1.up.state = w.up.state /\ w1.up.is_writable = w.up.is_writable
               /\ w1.up.name = w.up.name /\ w1.up.values = w.up.values
               /\ w1.up.file = w.up.file /\ w1.up.wrote = w.up.wrote
               /\ w.up.short => w1.up.short
               /\ \A g \in FileNames : /\ g # f => w1.files[g] = w.files[g]
                                       /\ w.files[g] # Absent => w1.files[g] # Absent
               /\ ~w1.up.short /\ f \in FileNames /\ f # Absent /\ w.up.offset = Len(w.files[f]) =>
                     w1.files[f] = w.files[f] \o bytes /\ w1.up.offset = w.up.offset + Len(bytes)
<1> DEFINE f == w.up.file
           w1 == WriteFile(w, bytes)
<1>0. /\ w.up \in Readers /\ w.files \in [FileNames -> Seq(Data) \cup {Absent}]
      /\ w.up.offset \in Nat /\ Len(bytes) \in Nat
    BY PutHas, ReaderHas, LenProperties
<1>a. Absent \notin Seq(Data)
    BY MultipartAssumption, Zenon DEF Data
<1>b. f \in FileNames => w.files[f] \in Seq(Data)
    BY <1>0
<1>1. CASE f = Absent
  <2>1. w1 = w
    BY <1>1 DEF WriteFile
  <2> QED
    BY <2>1, <1>1 DEF Keeps
<1>2. CASE f # Absent /\ bytes = << >>
  <2>1. w1 = w
    BY <1>2 DEF WriteFile
  <2>2. ASSUME f \in FileNames PROVE w.files[f] \o bytes = w.files[f]
    BY <1>2, <1>b, <2>2, ConcatEmptySeq
  <2>3. w.up.offset + Len(bytes) = w.up.offset
    BY <1>0, <1>2, EmptySeq
  <2> HIDE DEF w1
  <2> QED
    BY <2>1, <2>2, <2>3 DEF Keeps, w1
<1>3. CASE f # Absent /\ bytes # << >> /\ ~w.works.writes
  <2> DEFINE up1 == [w.up EXCEPT !.short = TRUE]
  <2>1. w1 = [w EXCEPT !.up = up1]
    BY <1>3 DEF WriteFile, Puts
  <2>2. up1 \in Readers
    BY <1>0, SetReader
  <2>3. w1 \in Puts
    BY <2>1, <2>2, SetPut
  <2>4. up1.short = TRUE
    BY <1>0 DEF Readers
  <2>5. w1.up = up1 /\ w1.files = w.files /\ w1.error = w.error /\ w1.from = w.from /\ w1.opened = w.opened
    BY <2>1 DEF Puts
  <2>6. /\ up1.state = w.up.state /\ up1.is_writable = w.up.is_writable
        /\ up1.name = w.up.name /\ up1.values = w.up.values
        /\ up1.file = w.up.file /\ up1.wrote = w.up.wrote
    BY <1>0 DEF Readers
  <2>7. Keeps(w, w1)
    BY <2>1, <1>0 DEF Puts, Readers, Keeps
  <2> HIDE DEF up1, w1
  <2> QED
    BY <2>3, <2>4, <2>5, <2>6, <2>7 DEF w1
<1>4. CASE f # Absent /\ bytes # << >> /\ w.works.writes
  <2> DEFINE x == Extended(w.files[f], w.up.offset, bytes)
             files1 == [w.files EXCEPT ![f] = x]
             offset1 == w.up.offset + Len(bytes)
             up1 == [w.up EXCEPT !.offset = offset1]
             w2 == [w EXCEPT !.files = files1]
  <2>1. f \in FileNames => x \in Seq(Data) /\ (w.up.offset = Len(w.files[f]) => x = w.files[f] \o bytes)
    BY <1>0, <1>b, ExtendedIs
  <2>2. w1 = [w2 EXCEPT !.up = up1]
    BY <1>4 DEF WriteFile, Puts, Readers
  <2> HIDE DEF x
  <2>3. files1 \in [FileNames -> Seq(Data) \cup {Absent}]
    BY <1>0, <2>1
  <2>4. /\ \A g \in FileNames : g # f => files1[g] = w.files[g]
        /\ f \in FileNames => files1[f] = x
    BY <1>0
  <2>a. offset1 \in Nat
    BY <1>0
  <2> HIDE DEF files1, offset1
  <2>5. up1 \in Readers
    BY <1>0, <2>a, SetReader
  <2>b. w2 \in Puts
    BY <2>3, SetPut
  <2>6. w1 \in Puts
    <3> HIDE DEF w2, up1, w1
    <3> QED
        BY <2>2, <2>b, <2>5, SetPut
  <2>7. up1.offset = offset1
    BY <1>0 DEF Readers
  <2>8. w1.up = up1 /\ w1.files = files1 /\ w1.error = w.error /\ w1.from = w.from /\ w1.opened = w.opened
    BY <2>2 DEF Puts
  <2>9. /\ up1.state = w.up.state /\ up1.is_writable = w.up.is_writable
        /\ up1.name = w.up.name /\ up1.values = w.up.values /\ up1.short = w.up.short
        /\ up1.file = w.up.file /\ up1.wrote = w.up.wrote
    BY <1>0 DEF Readers
  <2>10. Keeps(w, w1)
    BY <2>2, <1>0 DEF Puts, Readers, Keeps
  <2> HIDE DEF up1, w1
  <2>11. \A g \in FileNames : w.files[g] # Absent => w1.files[g] # Absent
    BY <2>1, <2>4, <2>8, <1>a
  <2>12. f \in FileNames /\ w.up.offset = Len(w.files[f]) =>
            w1.files[f] = w.files[f] \o bytes /\ w1.up.offset = w.up.offset + Len(bytes)
    BY <2>1, <2>4, <2>7, <2>8 DEF offset1
  <2> QED
    BY <2>4, <2>6, <2>8, <2>9, <2>10, <2>11, <2>12 DEF w1
<1> QED
    BY <1>1, <1>2, <1>3, <1>4

(* The entries of t are those of s, but the last may have another content. *)
SameBut(s, t) ==
    /\ Len(t) = Len(s)
    /\ \A i \in 1 .. Len(s) - 1 : t[i] = s[i]
    /\ Len(s) > 0 => /\ t[Len(s)].name = s[Len(s)].name
                     /\ t[Len(s)].is_file = s[Len(s)].is_file

(* Appending to the content of the last value changes no other. *)
LEMMA LastContent ==
    ASSUME NEW values \in Seq(Entries), NEW bytes \in Seq(Bytes)
    PROVE  LET n == Len(values)
               t == [values EXCEPT ![n].content = @ \o bytes]
           IN  /\ t \in Seq(Entries) /\ SameBut(values, t)
               /\ n > 0 => /\ t[n].content = values[n].content \o bytes
                           /\ t[n].written = values[n].written
<1> DEFINE n == Len(values)
           t == [values EXCEPT ![n].content = @ \o bytes]
<1> SUFFICES /\ t \in Seq(Entries) /\ SameBut(values, t)
             /\ n > 0 => /\ t[n].content = values[n].content \o bytes
                         /\ t[n].written = values[n].written
    OBVIOUS
<1>0. n \in Nat /\ values \in [1 .. n -> Entries]
    BY LenProperties
<1>1. CASE n = 0
  <2>1. n \notin 1 .. n
    BY <1>1
  <2>2. t = values
    BY <1>0, <2>1
  <2> HIDE DEF t
  <2> QED
    BY <2>2, <1>0, <1>1 DEF SameBut
<1>2. CASE n > 0
  <2> DEFINE old == values[n]
             new == [old EXCEPT !.content = @ \o bytes]
  <2>1. n \in 1 .. n
    BY <1>0, <1>2
  <2>2. old \in Entries
    BY <2>1, <1>0
  <2>3. old.content \in Seq(Bytes)
    BY <2>2 DEF Entries
  <2>4. old.content \o bytes \in Seq(Bytes)
    BY <2>3, ConcatProperties
  <2>5. new \in Entries /\ new.name = old.name /\ new.is_file = old.is_file
        /\ new.written = old.written /\ new.content = old.content \o bytes
    BY <2>2, <2>4 DEF Entries
  <2>6. t = [values EXCEPT ![n] = new]
    OBVIOUS
  <2> HIDE DEF new, t
  <2>7. /\ t \in Seq(Entries) /\ Len(t) = n
        /\ \A j \in 1 .. n : t[j] = IF j = n THEN new ELSE values[j]
    BY <2>1, <2>5, <2>6, ExceptSeq
  <2>8. t[n] = new /\ \A j \in 1 .. n - 1 : t[j] = values[j]
    BY <2>1, <2>7, <1>0
  <2> HIDE DEF n, old
  <2> QED
    BY <2>5, <2>7, <2>8 DEF SameBut, n, old
<1>3. n = 0 \/ n > 0
    BY <1>0
<1> HIDE DEF n, t
<1> QED
    BY <1>1, <1>2, <1>3, Zenon

(* Marking the last value changes no other. *)
LEMMA LastNotWritten ==
    ASSUME NEW values \in Seq(Entries)
    PROVE  LET n == Len(values)
               t == [values EXCEPT ![n].written = FALSE]
           IN  /\ t \in Seq(Entries) /\ SameBut(values, t)
               /\ n > 0 => /\ t[n].content = values[n].content
                           /\ t[n].written = FALSE
<1> DEFINE n == Len(values)
           t == [values EXCEPT ![n].written = FALSE]
<1> SUFFICES /\ t \in Seq(Entries) /\ SameBut(values, t)
             /\ n > 0 => t[n].content = values[n].content /\ t[n].written = FALSE
    OBVIOUS
<1>0. n \in Nat /\ values \in [1 .. n -> Entries]
    BY LenProperties
<1>1. CASE n = 0
  <2>1. n \notin 1 .. n
    BY <1>1
  <2>2. t = values
    BY <1>0, <2>1
  <2> HIDE DEF t
  <2> QED
    BY <2>2, <1>0, <1>1 DEF SameBut
<1>2. CASE n > 0
  <2> DEFINE old == values[n]
             new == [old EXCEPT !.written = FALSE]
  <2>1. n \in 1 .. n
    BY <1>0, <1>2
  <2>2. old \in Entries
    BY <2>1, <1>0
  <2>5. new \in Entries /\ new.name = old.name /\ new.is_file = old.is_file
        /\ new.written = FALSE /\ new.content = old.content
    BY <2>2 DEF Entries
  <2>6. t = [values EXCEPT ![n] = new]
    OBVIOUS
  <2> HIDE DEF new, t
  <2>7. /\ t \in Seq(Entries) /\ Len(t) = n
        /\ \A j \in 1 .. n : t[j] = IF j = n THEN new ELSE values[j]
    BY <2>1, <2>5, <2>6, ExceptSeq
  <2>8. t[n] = new /\ \A j \in 1 .. n - 1 : t[j] = values[j]
    BY <2>1, <2>7, <1>0
  <2> HIDE DEF n, old
  <2> QED
    BY <2>5, <2>7, <2>8 DEF SameBut, n, old
<1>3. n = 0 \/ n > 0
    BY <1>0
<1> HIDE DEF n, t
<1> QED
    BY <1>1, <1>2, <1>3, Zenon

(* The last of the entries gets other values. *)
LEMMA SetValues ==
    ASSUME NEW w \in Puts, NEW t \in Seq(Entries)
    PROVE  LET w1 == [w EXCEPT !.up = [w.up EXCEPT !.values = t]]
           IN  /\ w1 \in Puts /\ Keeps(w, w1) /\ Leaves(w, w1)
               /\ w1.error = w.error /\ w1.from = w.from
               /\ w1.up.state = w.up.state /\ w1.up.is_writable = w.up.is_writable
               /\ w1.up.name = w.up.name /\ w1.up.values = t
<1> DEFINE up1 == [w.up EXCEPT !.values = t]
           w1 == [w EXCEPT !.up = up1]
<1>1. w.up \in Readers
    BY PutHas
<1>2. up1 \in Readers
    BY <1>1, SetReader
<1>3. w1 \in Puts
    BY <1>2, SetPut
<1>4. Keeps(w, w1)
    BY <1>1 DEF Puts, Readers, Keeps
<1>5. Leaves(w, w1)
    BY <1>1 DEF Puts, Readers, Leaves
<1>6. w1.up = up1 /\ w1.error = w.error /\ w1.from = w.from
    BY DEF Puts
<1>7. up1.state = w.up.state /\ up1.is_writable = w.up.is_writable
      /\ up1.name = w.up.name /\ up1.values = t
    BY <1>1 DEF Readers
<1> QED
    BY <1>3, <1>4, <1>5, <1>6, <1>7

(* The file that is open is there. *)
OpenIsThere(w) == w.up.file \in FileNames => w.files[w.up.file] # Absent

(* What write_part does: to the name, to the last value or to the open     *)
(* file, by the state it is in.                                            *)
LEMMA WritePartIs ==
    ASSUME NEW w \in Puts, w.at - 1 <= Len(w.view), OpenIsThere(w)
    PROVE  LET w1 == WritePart(w)
               f == w.up.file
               n == Len(w.up.values)
           IN  /\ w1 \in Puts /\ Keeps(w, w1)
               /\ w1.error = w.error /\ w1.from = w.at /\ w1.opened = w.opened
               /\ w1.up.state = w.up.state /\ w1.up.is_writable = w.up.is_writable
               /\ w1.up.file = w.up.file /\ w1.up.wrote = w.up.wrote
               /\ w.up.short => w1.up.short
               /\ SameBut(w.up.values, w1.up.values)
               /\ w.up.state # "file" => Leaves(w, w1)
               /\ w.up.state = "name" =>
                     w1.up.name = w.up.name \o Cut(w) /\ w1.up.values = w.up.values
               /\ w.up.state # "name" => w1.up.name = w.up.name
               /\ w.up.state \in {"filename", "content"} /\ n > 0 =>
                     /\ w1.up.values[n].content = w.up.values[n].content \o Cut(w)
                     /\ w1.up.values[n].written = w.up.values[n].written
               /\ w.up.state = "file" => w1.up.values = w.up.values
               /\ \A g \in FileNames : /\ g # f => w1.files[g] = w.files[g]
                                       /\ w.files[g] # Absent => w1.files[g] # Absent
               /\ w.up.state = "file" /\ ~w1.up.short /\ f \in FileNames /\ f # Absent
                  /\ w.up.offset = Len(w.files[f]) =>
                     /\ w1.files[f] = w.files[f] \o Cut(w)
                     /\ w1.up.offset = w.up.offset + Len(Cut(w))
<1> DEFINE w0 == [w EXCEPT !.from = w.at]
           f == w.up.file
           n == Len(w.up.values)
           w1 == WritePart(w)
<1>0. /\ w.up \in Readers /\ w.up.values \in Seq(Entries) /\ w.up.name \in Seq(Bytes)
      /\ w.up.state \in {"name", "filename", "file", "content"} /\ w.at \in Nat \ {0}
      /\ w.files \in [FileNames -> Seq(Data) \cup {Absent}]
    BY PutHas, ReaderHas
<1>1. w0 \in Puts
    BY <1>0, SetPut
<1>2. /\ w0.up = w.up /\ w0.files = w.files /\ w0.error = w.error /\ w0.opened = w.opened
      /\ w0.from = w.at /\ w0.at = w.at /\ w0.view = w.view /\ w0.works = w.works
    BY DEF Puts
<1>3. Cut(w) \in Seq(Bytes)
    BY CutIs
<1>4. Keeps(w, w0) /\ Leaves(w, w0)
    BY <1>2 DEF Keeps, Leaves
<1>5. SameBut(w.up.values, w.up.values)
    BY DEF SameBut
<1>6. CASE w.up.state = "name"
  <2> DEFINE name == w.up.name \o Cut(w)
             up1 == [w.up EXCEPT !.name = name]
  <2>1. name \in Seq(Bytes)
    BY <1>0, <1>3, ConcatProperties
  <2>2. w1 = [w0 EXCEPT !.up = up1]
    BY <1>6, <1>2 DEF WritePart, Cut, Puts
  <2> HIDE DEF name, w0
  <2>3. up1 \in Readers
    BY <1>0, <2>1, SetReader
  <2>4. w1 \in Puts
    BY <1>1, <2>2, <2>3, SetPut
  <2>5. /\ w1.up = up1 /\ w1.error = w.error /\ w1.from = w.at /\ w1.files = w.files
        /\ w1.opened = w.opened /\ w1.works = w.works /\ w1.view = w.view /\ w1.at = w.at
    BY <1>1, <1>2, <2>2 DEF Puts
  <2>6. /\ up1.state = w.up.state /\ up1.is_writable = w.up.is_writable
        /\ up1.name = name /\ up1.values = w.up.values
        /\ up1.file = w.up.file /\ up1.offset = w.up.offset /\ up1.short = w.up.short
        /\ up1.wrote = w.up.wrote
    BY <1>0 DEF Readers
  <2>7. /\ up1.status = w.up.status /\ up1.form = w.up.form /\ up1.mode = w.up.mode
        /\ up1.sent = w.up.sent /\ up1.parser = w.up.parser /\ up1.message = w.up.message
        /\ up1.header = w.up.header /\ up1.pending = w.up.pending /\ up1.stale = w.up.stale
        /\ up1.torn = w.up.torn /\ up1.crossed = w.up.crossed
    BY <1>0 DEF Readers
  <2> HIDE DEF up1, w1
  <2>8. Keeps(w, w1) /\ Leaves(w, w1)
    BY <2>5, <2>6, <2>7 DEF Keeps, Leaves
  <2> QED
    BY <1>5, <1>6, <2>4, <2>5, <2>6, <2>8 DEF w1, name
<1>7. CASE w.up.state \in {"filename", "content"}
  <2> DEFINE t == [w.up.values EXCEPT ![n].content = @ \o Cut(w)]
  <2>1. /\ t \in Seq(Entries) /\ SameBut(w.up.values, t)
        /\ n > 0 => /\ t[n].content = w.up.values[n].content \o Cut(w)
                    /\ t[n].written = w.up.values[n].written
    BY <1>0, <1>3, LastContent
  <2>2. w1 = [w0 EXCEPT !.up = [w0.up EXCEPT !.values = t]]
    BY <1>7, <1>2, <1>0 DEF WritePart, Cut, Puts, Readers
  <2> HIDE DEF t, w0
  <2>3. /\ w1 \in Puts /\ Keeps(w0, w1) /\ Leaves(w0, w1)
        /\ w1.error = w0.error /\ w1.from = w0.from
        /\ w1.up.state = w0.up.state /\ w1.up.is_writable = w0.up.is_writable
        /\ w1.up.name = w0.up.name /\ w1.up.values = t
    BY <1>1, <2>1, <2>2, SetValues
  <2> HIDE DEF w1
  <2>4. Keeps(w, w1) /\ Leaves(w, w1)
    BY <2>3, <1>2 DEF Keeps, Leaves
  <2> QED
    BY <1>2, <1>7, <2>1, <2>3, <2>4 DEF w1, Leaves
<1>8. CASE w.up.state = "file"
  <2> DEFINE x == WriteFile(w0, Cut(w))
  <2>1. w1 = x
    BY <1>8 DEF WritePart, Cut
  <2>2. w0.up.file \in FileNames => w0.files[w0.up.file] # Absent
    BY <1>2 DEF OpenIsThere
  <2> HIDE DEF w0
  <2>3. /\ x \in Puts /\ Keeps(w0, x)
        /\ x.error = w0.error /\ x.from = w0.from /\ x.opened = w0.opened
        /\ x.up.state = w0.up.state /\ x.up.is_writable = w0.up.is_writable
        /\ x.up.name = w0.up.name /\ x.up.values = w0.up.values
        /\ x.up.file = w0.up.file /\ x.up.wrote = w0.up.wrote
        /\ w0.up.short => x.up.short
        /\ \A g \in FileNames : /\ g # w0.up.file => x.files[g] = w0.files[g]
                                /\ w0.files[g] # Absent => x.files[g] # Absent
        /\ ~x.up.short /\ w0.up.file \in FileNames /\ w0.up.file # Absent
           /\ w0.up.offset = Len(w0.files[w0.up.file]) =>
              /\ x.files[w0.up.file] = w0.files[w0.up.file] \o Cut(w)
              /\ x.up.offset = w0.up.offset + Len(Cut(w))
    BY <1>1, <1>3, <2>2, WriteFileIs
  <2> HIDE DEF x, w1
  <2>4. Keeps(w, x)
    BY <2>3, <1>2 DEF Keeps
  <2>5. /\ x.error = w.error /\ x.from = w.at /\ x.opened = w.opened
        /\ x.up.state = w.up.state /\ x.up.is_writable = w.up.is_writable
        /\ x.up.name = w.up.name /\ x.up.values = w.up.values
        /\ x.up.file = w.up.file /\ x.up.wrote = w.up.wrote
    BY <1>2, <2>3
  <2>6. w.up.short => x.up.short
    BY <1>2, <2>3
  <2>7. \A g \in FileNames : /\ g # f => x.files[g] = w.files[g]
                             /\ w.files[g] # Absent => x.files[g] # Absent
    BY <1>2, <2>3
  <2>8. ~x.up.short /\ f \in FileNames /\ f # Absent /\ w.up.offset = Len(w.files[f]) =>
           /\ x.files[f] = w.files[f] \o Cut(w)
           /\ x.up.offset = w.up.offset + Len(Cut(w))
    BY <1>2, <2>3
  <2>9. SameBut(w.up.values, x.up.values)
    BY <1>5, <2>5
  <2>a. /\ w.up.state # "name" /\ w.up.state \notin {"filename", "content"}
        /\ w.up.state = "file"
    BY <1>8
  <2>b. x \in Puts
    BY <2>3
  <2> QED
    <3>2. /\ w1 \in Puts /\ Keeps(w, w1)
          /\ w1.error = w.error /\ w1.from = w.at /\ w1.opened = w.opened
          /\ w1.up.state = w.up.state /\ w1.up.is_writable = w.up.is_writable
          /\ w1.up.file = w.up.file /\ w1.up.wrote = w.up.wrote
          /\ w.up.short => w1.up.short
          /\ SameBut(w.up.values, w1.up.values)
          /\ w1.up.name = w.up.name
          /\ w1.up.values = w.up.values
        BY <2>1, <2>4, <2>5, <2>6, <2>9, <2>b
    <3>3. \A g \in FileNames : /\ g # f => w1.files[g] = w.files[g]
                               /\ w.files[g] # Absent => w1.files[g] # Absent
        BY <2>1, <2>7
    <3>4. ~w1.up.short /\ f \in FileNames /\ f # Absent /\ w.up.offset = Len(w.files[f]) =>
             /\ w1.files[f] = w.files[f] \o Cut(w)
             /\ w1.up.offset = w.up.offset + Len(Cut(w))
        BY <2>1, <2>8
    <3>5. /\ w.up.state # "file" => Leaves(w, w1)
          /\ w.up.state = "name" =>
                w1.up.name = w.up.name \o Cut(w) /\ w1.up.values = w.up.values
        BY <2>a
    <3>6. w.up.state \in {"filename", "content"} /\ n > 0 =>
             /\ w1.up.values[n].content = w.up.values[n].content \o Cut(w)
             /\ w1.up.values[n].written = w.up.values[n].written
        BY <2>a
    <3>7. w.up.state = "file" /\ ~w1.up.short /\ f \in FileNames /\ f # Absent
          /\ w.up.offset = Len(w.files[f]) =>
             /\ w1.files[f] = w.files[f] \o Cut(w)
             /\ w1.up.offset = w.up.offset + Len(Cut(w))
        BY <3>4, Zenon
    <3> QED
        BY <3>2, <3>3, <3>5, <3>6, <3>7, Zenon DEF w1
<1> QED
    BY <1>0, <1>6, <1>7, <1>8

(* A put whose upload writes, or no longer does. *)
LEMMA SetWritable ==
    ASSUME NEW w \in Puts, NEW x \in BOOLEAN
    PROVE  LET w1 == [w EXCEPT !.up = [w.up EXCEPT !.is_writable = x]]
           IN  /\ w1 \in Puts /\ Keeps(w, w1) /\ Leaves(w, w1)
               /\ w1.error = w.error /\ w1.from = w.from
               /\ w1.up.state = w.up.state /\ w1.up.is_writable = x
               /\ w1.up.name = w.up.name /\ w1.up.values = w.up.values
<1> DEFINE up1 == [w.up EXCEPT !.is_writable = x]
           w1 == [w EXCEPT !.up = up1]
<1>1. w.up \in Readers
    BY PutHas
<1>2. up1 \in Readers
    BY <1>1, SetReader
<1>3. w1 \in Puts
    BY <1>2, SetPut
<1>4. Keeps(w, w1)
    BY <1>1 DEF Puts, Readers, Keeps
<1>5. Leaves(w, w1)
    BY <1>1 DEF Puts, Readers, Leaves
<1>6. w1.up = up1 /\ w1.error = w.error /\ w1.from = w.from
    BY DEF Puts
<1>7. up1.state = w.up.state /\ up1.is_writable = x
      /\ up1.name = w.up.name /\ up1.values = w.up.values
    BY <1>1 DEF Readers
<1> QED
    BY <1>3, <1>4, <1>5, <1>6, <1>7

(* A put whose upload writes to another place. *)
LEMMA SetState ==
    ASSUME NEW w \in Puts, NEW x \in {"name", "filename", "file", "content"}
    PROVE  LET w1 == [w EXCEPT !.up = [w.up EXCEPT !.state = x]]
           IN  /\ w1 \in Puts /\ Keeps(w, w1) /\ Leaves(w, w1)
               /\ w1.error = w.error /\ w1.from = w.from
               /\ w1.up.state = x /\ w1.up.is_writable = w.up.is_writable
               /\ w1.up.name = w.up.name /\ w1.up.values = w.up.values
<1> DEFINE up1 == [w.up EXCEPT !.state = x]
           w1 == [w EXCEPT !.up = up1]
<1>1. w.up \in Readers
    BY PutHas
<1>2. up1 \in Readers
    BY <1>1, SetReader
<1>3. w1 \in Puts
    BY <1>2, SetPut
<1>4. Keeps(w, w1)
    BY <1>1 DEF Puts, Readers, Keeps
<1>5. Leaves(w, w1)
    BY <1>1 DEF Puts, Readers, Leaves
<1>6. w1.up = up1 /\ w1.error = w.error /\ w1.from = w.from
    BY DEF Puts
<1>7. up1.state = x /\ up1.is_writable = w.up.is_writable
      /\ up1.name = w.up.name /\ up1.values = w.up.values
    BY <1>1 DEF Readers
<1> QED
    BY <1>3, <1>4, <1>5, <1>6, <1>7

(* A put whose upload has closed its file. *)
LEMMA CloseFile ==
    ASSUME NEW w \in Puts
    PROVE  LET w1 == [w EXCEPT !.up = [w.up EXCEPT !.file = Absent]]
           IN  /\ w1 \in Puts /\ Keeps(w, w1)
               /\ w1.error = w.error /\ w1.from = w.from
               /\ w1.up.state = w.up.state /\ w1.up.is_writable = w.up.is_writable
               /\ w1.up.name = w.up.name /\ w1.up.values = w.up.values
               /\ w1.up.file = Absent /\ w1.up.short = w.up.short
               /\ w1.up.wrote = w.up.wrote /\ w1.files = w.files /\ w1.opened = w.opened
<1> DEFINE up1 == [w.up EXCEPT !.file = Absent]
           w1 == [w EXCEPT !.up = up1]
<1>1. w.up \in Readers
    BY PutHas
<1>2. up1 \in Readers
    BY <1>1, SetReader
<1>3. w1 \in Puts
    BY <1>2, SetPut
<1>4. Keeps(w, w1)
    BY <1>1 DEF Puts, Readers, Keeps
<1>5. w1.up = up1 /\ w1.error = w.error /\ w1.from = w.from /\ w1.files = w.files /\ w1.opened = w.opened
    BY DEF Puts
<1>6. up1.state = w.up.state /\ up1.is_writable = w.up.is_writable
      /\ up1.name = w.up.name /\ up1.values = w.up.values
      /\ up1.file = Absent /\ up1.short = w.up.short /\ up1.wrote = w.up.wrote
    BY <1>1 DEF Readers
<1> QED
    BY <1>3, <1>4, <1>5, <1>6

(* What end_part does: what is left is written, and then nothing is. *)
LEMMA EndPartIs ==
    ASSUME NEW w \in Puts
    PROVE  LET w0 == WritePart(w)
               w1 == EndPart(w)
           IN  w0 \in Puts =>
               /\ w1 \in Puts /\ Keeps(w0, w1) /\ Leaves(w0, w1)
               /\ w1.error = w0.error /\ w1.from = w0.from
               /\ w1.up.state = w0.up.state /\ ~w1.up.is_writable
               /\ w1.up.name = w0.up.name /\ w1.up.values = w0.up.values
<1> DEFINE w0 == WritePart(w)
           w1 == EndPart(w)
           w2 == [w0 EXCEPT !.up = [w0.up EXCEPT !.is_writable = FALSE]]
<1> SUFFICES ASSUME w0 \in Puts
             PROVE  /\ w1 \in Puts /\ Keeps(w0, w1) /\ Leaves(w0, w1)
                    /\ w1.error = w0.error /\ w1.from = w0.from
                    /\ w1.up.state = w0.up.state /\ ~w1.up.is_writable
                    /\ w1.up.name = w0.up.name /\ w1.up.values = w0.up.values
    OBVIOUS
<1>1. w1 = [w0 EXCEPT !.up.is_writable = FALSE]
    BY DEF EndPart
<1> HIDE DEF w0
<1>2. w1 = w2
    BY <1>1 DEF Puts
<1>3. /\ w2 \in Puts /\ Keeps(w0, w2) /\ Leaves(w0, w2)
      /\ w2.error = w0.error /\ w2.from = w0.from
      /\ w2.up.state = w0.up.state /\ w2.up.is_writable = FALSE
      /\ w2.up.name = w0.up.name /\ w2.up.values = w0.up.values
    BY SetWritable
<1> HIDE DEF w1, w2
<1> QED
    BY <1>2, <1>3

(* What the end of a name does. *)
LEMMA EndNameIs ==
    ASSUME NEW w \in Puts
    PROVE  LET w0 == EndPart(w)
               w1 == PartEvent(w, "end_name")
           IN  w0 \in Puts =>
               /\ w1 \in Puts /\ Keeps(w0, w1) /\ Leaves(w0, w1)
               /\ w1.error = w0.error /\ w1.from = w0.from
               /\ w1.up.state = "content" /\ w1.up.is_writable = w0.up.is_writable
               /\ w1.up.name = w0.up.name /\ w1.up.values = w0.up.values
<1> DEFINE w0 == EndPart(w)
           w1 == PartEvent(w, "end_name")
<1> SUFFICES ASSUME w0 \in Puts
             PROVE  /\ w1 \in Puts /\ Keeps(w0, w1) /\ Leaves(w0, w1)
                    /\ w1.error = w0.error /\ w1.from = w0.from
                    /\ w1.up.state = "content" /\ w1.up.is_writable = w0.up.is_writable
                    /\ w1.up.name = w0.up.name /\ w1.up.values = w0.up.values
    OBVIOUS
<1>1. w1 = [w0 EXCEPT !.up.state = "content"]
    BY DEF PartEvent
<1> HIDE DEF w0
<1>2. w1 = [w0 EXCEPT !.up = [w0.up EXCEPT !.state = "content"]]
    BY <1>1 DEF Puts
<1> HIDE DEF w1
<1> QED
    BY <1>2, SetState

(* What the end of a body does: the file is closed. *)
LEMMA EndBodyIs ==
    ASSUME NEW w \in Puts
    PROVE  LET w0 == EndPart(w)
               w1 == PartEvent(w, "end_body")
           IN  w0 \in Puts =>
               /\ w1 \in Puts /\ Keeps(w0, w1) /\ w1.from = w0.from
               /\ w0.error => w1.error
               /\ w1.error => w0.error \/ ~w.works.closes
               /\ w1.up.state = "name" /\ w1.up.is_writable = w0.up.is_writable
               /\ w1.up.name = w0.up.name /\ w1.up.values = w0.up.values
               /\ w1.up.file = Absent /\ w1.up.short = w0.up.short
               /\ w1.up.wrote = w0.up.wrote /\ w1.files = w0.files /\ w1.opened = w0.opened
<1> DEFINE w0 == EndPart(w)
           w1 == PartEvent(w, "end_body")
           open == w.up.state = "file" /\ w.up.values[Len(w.up.values)].written
           e == w0.error \/ (open /\ ~w.works.closes)
           x0 == [w0 EXCEPT !.error = e]
           w2 == [x0 EXCEPT !.up = [x0.up EXCEPT !.file = Absent]]
<1> SUFFICES ASSUME w0 \in Puts
             PROVE  /\ w1 \in Puts /\ Keeps(w0, w1) /\ w1.from = w0.from
                    /\ w0.error => w1.error
                    /\ w1.error => w0.error \/ ~w.works.closes
                    /\ w1.up.state = "name" /\ w1.up.is_writable = w0.up.is_writable
                    /\ w1.up.name = w0.up.name /\ w1.up.values = w0.up.values
                    /\ w1.up.file = Absent /\ w1.up.short = w0.up.short
                    /\ w1.up.wrote = w0.up.wrote /\ w1.files = w0.files /\ w1.opened = w0.opened
    OBVIOUS
<1>1. w1 = [w0 EXCEPT !.error = w0.error \/ (open /\ ~w.works.closes),
                      !.up.file = Absent, !.up.state = "name"]
  <2>1. w1 = EndBody(w)
    BY DEF PartEvent
  <2>2. EndBody(w) = [w0 EXCEPT !.error = @ \/ (open /\ ~w.works.closes),
                                !.up.file = Absent, !.up.state = "name"]
    BY Zenon DEF EndBody
  <2> HIDE DEF w0, w1, open
  <2> QED
    BY <2>1, <2>2, Zenon
<1>a. e \in BOOLEAN /\ (w0.error => e) /\ (e => w0.error \/ ~w.works.closes)
    BY Zenon
<1>b. e = (w0.error \/ (open /\ ~w.works.closes))
    OBVIOUS
<1> HIDE DEF w0, open, e
<1>c. x0 \in Puts
    BY <1>a, SetPut
<1>d. /\ x0.up = w0.up /\ x0.files = w0.files /\ x0.works = w0.works /\ x0.view = w0.view
      /\ x0.at = w0.at /\ x0.from = w0.from /\ x0.opened = w0.opened /\ x0.error = e
    BY DEF Puts
<1>2. w1 = [w2 EXCEPT !.up = [w2.up EXCEPT !.state = "name"]]
  <2>1. w1 = [w0 EXCEPT !.error = e, !.up.file = Absent, !.up.state = "name"]
    BY <1>1, <1>b
  <2> HIDE DEF w1
  <2> QED
    BY <2>1 DEF Puts, Readers
<1> HIDE DEF x0
<1>3. /\ w2 \in Puts /\ Keeps(x0, w2)
      /\ w2.error = x0.error /\ w2.from = x0.from
      /\ w2.up.state = x0.up.state /\ w2.up.is_writable = x0.up.is_writable
      /\ w2.up.name = x0.up.name /\ w2.up.values = x0.up.values
      /\ w2.up.file = Absent /\ w2.up.short = x0.up.short
      /\ w2.up.wrote = x0.up.wrote /\ w2.files = x0.files /\ w2.opened = x0.opened
    BY <1>c, CloseFile
<1> HIDE DEF w1, w2
<1>4. /\ w1 \in Puts /\ Keeps(w2, w1) /\ Leaves(w2, w1)
      /\ w1.error = w2.error /\ w1.from = w2.from
      /\ w1.up.state = "name" /\ w1.up.is_writable = w2.up.is_writable
      /\ w1.up.name = w2.up.name /\ w1.up.values = w2.up.values
  <2> DEFINE y == [w2 EXCEPT !.up = [w2.up EXCEPT !.state = "name"]]
  <2>1. "name" \in {"name", "filename", "file", "content"}
    OBVIOUS
  <2>2. /\ y \in Puts /\ Keeps(w2, y) /\ Leaves(w2, y)
        /\ y.error = w2.error /\ y.from = w2.from
        /\ y.up.state = "name" /\ y.up.is_writable = w2.up.is_writable
        /\ y.up.name = w2.up.name /\ y.up.values = w2.up.values
    BY <1>3, <2>1, SetState, Zenon
  <2> HIDE DEF y
  <2>3. w1 = y
    BY <1>2 DEF y
  <2> QED
    BY <2>2, <2>3, Zenon
<1>5. Keeps(w0, w1)
    BY <1>d, <1>3, <1>4 DEF Keeps
<1>6. (w0.error => w1.error) /\ (w1.error => w0.error \/ ~w.works.closes)
    BY <1>a, <1>d, <1>3, <1>4
<1> QED
    BY <1>d, <1>3, <1>4, <1>5, <1>6 DEF Leaves

(* A file is made or emptied only if the mode says so. *)
LEMMA OpenIs ==
    ASSUME NEW w \in Puts, NEW f \in Seq(Bytes)
    PROVE  LET w1 == Open(w, f)
               n == Len(w.up.values)
           IN  /\ w1 \in Puts /\ Keeps(w, w1) /\ w1.from = w.from
               /\ w1.up.state = w.up.state /\ w1.up.is_writable = w.up.is_writable
               /\ w1.up.name = w.up.name /\ SameBut(w.up.values, w1.up.values)
               /\ n > 0 => w1.up.values[n].content = w.up.values[n].content
               /\ w1.up.short = w.up.short
               /\ \/ /\ w1.up.file = w.up.file /\ w1.up.wrote = w.up.wrote
                     /\ w1.files = w.files /\ w1.opened = w.opened
                     /\ w1.error = w.error
                     /\ n > 0 => w1.up.values[n].written = FALSE
                  \/ /\ w.up.mode # "ignore" /\ (dir => f \notin w.works.opens)
                     /\ w1.up = w.up /\ w1.files = w.files /\ w1.opened = w.opened
                     /\ w1.error = TRUE
                  \/ /\ dir /\ w1.error = w.error /\ ~Refused(w, f)
                     /\ w1.up.values = w.up.values
                     /\ w1.up.file = f /\ w1.up.offset = 0
                     /\ w1.up.wrote = w.up.wrote \cup {f} /\ w1.opened = w.opened \cup {f}
                     /\ \A g \in FileNames \ {f} : w1.files[g] = w.files[g]
                     /\ f \in FileNames => w1.files[f] = << >>
<1> DEFINE w1 == Open(w, f)
           n == Len(w.up.values)
<1>0. /\ w.up \in Readers /\ w.up.values \in Seq(Entries) /\ w.up.wrote \in SUBSET Seq(Bytes)
      /\ w.opened \in SUBSET Seq(Bytes)
      /\ w.files \in [FileNames -> Seq(Data) \cup {Absent}]
      /\ n \in Nat
    BY PutHas, ReaderHas, LenProperties
<1>a. SameBut(w.up.values, w.up.values)
    BY DEF SameBut
<1>1. CASE Refused(w, f)
  <2> DEFINE t == [w.up.values EXCEPT ![n].written = FALSE]
  <2>1. /\ t \in Seq(Entries) /\ SameBut(w.up.values, t)
        /\ n > 0 => /\ t[n].content = w.up.values[n].content
                    /\ t[n].written = FALSE
    BY <1>0, LastNotWritten
  <2>2. w1 = [w EXCEPT !.up = [w.up EXCEPT !.values = t]]
    BY <1>1, <1>0 DEF Open, Puts, Readers
  <2> HIDE DEF t
  <2>3. /\ w1 \in Puts /\ Keeps(w, w1) /\ Leaves(w, w1)
        /\ w1.error = w.error /\ w1.from = w.from
        /\ w1.up.state = w.up.state /\ w1.up.is_writable = w.up.is_writable
        /\ w1.up.name = w.up.name /\ w1.up.values = t
    BY <2>1, <2>2, SetValues
  <2> HIDE DEF w1
  <2> QED
    BY <2>1, <2>3 DEF w1, Leaves
<1>2. CASE ~Refused(w, f) /\ (~dir \/ f \notin w.works.opens)
  <2>1. w1 = [w EXCEPT !.error = TRUE]
    BY <1>2 DEF Open
  <2>2. w1 \in Puts
    BY <2>1, SetPut
  <2>3. /\ w1.up = w.up /\ w1.files = w.files /\ w1.opened = w.opened /\ w1.error = TRUE
        /\ w1.from = w.from /\ w1.works = w.works /\ w1.view = w.view /\ w1.at = w.at
    BY <2>1 DEF Puts
  <2>4. w.up.mode # "ignore"
    BY <1>2 DEF Refused
  <2> HIDE DEF w1
  <2>5. Keeps(w, w1)
    BY <2>3 DEF Keeps
  <2> QED
    BY <1>2, <1>a, <2>2, <2>3, <2>4, <2>5 DEF w1
<1>3. CASE ~Refused(w, f) /\ dir /\ f \in w.works.opens
  <2> DEFINE files1 == [w.files EXCEPT ![f] = << >>]
             wrote1 == w.up.wrote \cup {f}
             opened1 == w.opened \cup {f}
             up1 == [w.up EXCEPT !.file = f]
             up2 == [up1 EXCEPT !.offset = 0]
             up3 == [up2 EXCEPT !.wrote = wrote1]
             w2 == [w EXCEPT !.files = files1]
             w3 == [w2 EXCEPT !.up = up3]
             w4 == [w3 EXCEPT !.opened = opened1]
  <2>1. w1 = w4
    BY <1>3 DEF Open, Puts, Readers
  <2>2. << >> \in Seq(Data)
    BY EmptySeq
  <2>3. /\ files1 \in [FileNames -> Seq(Data) \cup {Absent}]
        /\ \A g \in FileNames \ {f} : files1[g] = w.files[g]
        /\ f \in FileNames => files1[f] = << >>
    BY <1>0, <2>2
  <2>4. wrote1 \in SUBSET Seq(Bytes) /\ opened1 \in SUBSET Seq(Bytes)
    BY <1>0
  <2> HIDE DEF files1, wrote1, opened1
  <2>5. up1 \in Readers
    BY <1>0, SetReader
  <2>6. up2 \in Readers
    <3> HIDE DEF up1
    <3> QED
        BY <2>5, SetReader
  <2>7. up3 \in Readers
    <3> HIDE DEF up2
    <3> QED
        BY <2>4, <2>6, SetReader
  <2>8. /\ up3.state = w.up.state /\ up3.is_writable = w.up.is_writable
        /\ up3.name = w.up.name /\ up3.values = w.up.values /\ up3.short = w.up.short
        /\ up3.file = f /\ up3.offset = 0 /\ up3.wrote = wrote1
    BY <1>0 DEF Readers
  <2>9. /\ up3.status = w.up.status /\ up3.form = w.up.form /\ up3.mode = w.up.mode
        /\ up3.sent = w.up.sent /\ up3.parser = w.up.parser /\ up3.message = w.up.message
        /\ up3.header = w.up.header /\ up3.pending = w.up.pending /\ up3.stale = w.up.stale
        /\ up3.torn = w.up.torn /\ up3.crossed = w.up.crossed
    BY <1>0 DEF Readers
  <2> HIDE DEF up3
  <2>10. w2 \in Puts
    BY <2>3, SetPut
  <2>11. w3 \in Puts
    <3> HIDE DEF w2
    <3> QED
        BY <2>7, <2>10, SetPut
  <2>12. w4 \in Puts
    <3> HIDE DEF w3
    <3> QED
        BY <2>4, <2>11, SetPut
  <2>13. /\ w4.up = up3 /\ w4.files = files1 /\ w4.opened = opened1 /\ w4.error = w.error
         /\ w4.from = w.from /\ w4.works = w.works /\ w4.view = w.view /\ w4.at = w.at
    BY DEF Puts
  <2> HIDE DEF w4, w1
  <2>14. Keeps(w, w1)
    BY <2>1, <2>9, <2>13 DEF Keeps
  <2> QED
    BY <1>3, <1>a, <2>1, <2>3, <2>8, <2>12, <2>13, <2>14 DEF w1, wrote1, opened1
<1> QED
    BY <1>1, <1>2, <1>3

(* What an event of a part may do to files: write to the open one, or make  *)
(* or empty one. *)
Writes(w, w1) ==
    /\ w1.up.file \in {w.up.file, Absent}
    /\ w1.up.wrote = w.up.wrote /\ w1.opened = w.opened
    /\ \A g \in FileNames : /\ g # w.up.file => w1.files[g] = w.files[g]
                            /\ w.files[g] # Absent => w1.files[g] # Absent

Makes(w, w1, f) ==
    /\ \/ w.up.mode = "replace"
       \/ w.up.mode = "add" /\ (f \in FileNames => w.files[f] = Absent)
    /\ w1.up.file = f
    /\ w1.up.wrote = w.up.wrote \cup {f} /\ w1.opened = w.opened \cup {f}
    /\ \A g \in FileNames : /\ g \notin {f, w.up.file} => w1.files[g] = w.files[g]
                            /\ w.files[g] # Absent => w1.files[g] # Absent
    /\ f \in FileNames => w1.files[f] # Absent

Touches(w, w1) == Writes(w, w1) \/ \E f \in Seq(Bytes) : Makes(w, w1, f)

(* What an event of a part leaves as it should be. *)
Passes(w, w1) ==
    /\ w1 \in Puts /\ Keeps(w, w1) /\ OpenIsThere(w1)
    /\ Len(w1.up.values) >= Len(w.up.values)
    /\ w.error => w1.error
    /\ Touches(w, w1)

(* What leaves the files alone writes to no file but its own. *)
LEMMA LeavesWrites == ASSUME NEW w, NEW w1, Leaves(w, w1) PROVE Writes(w, w1)
BY DEF Leaves, Writes

(* The end of a part passes: it writes only to the file that is open. *)
LEMMA EndPartPasses ==
    ASSUME NEW w \in Puts, w.at - 1 <= Len(w.view), OpenIsThere(w)
    PROVE  LET w1 == EndPart(w)
           IN  /\ w1 \in Puts /\ Keeps(w, w1) /\ Writes(w, w1) /\ w1.up.file = w.up.file
               /\ w1.error = w.error /\ SameBut(w.up.values, w1.up.values)
<1> DEFINE w0 == WritePart(w)
           w1 == EndPart(w)
<1>1. /\ w0 \in Puts /\ Keeps(w, w0)
      /\ w0.error = w.error /\ w0.opened = w.opened
      /\ w0.up.file = w.up.file /\ w0.up.wrote = w.up.wrote
      /\ SameBut(w.up.values, w0.up.values)
      /\ \A g \in FileNames : /\ g # w.up.file => w0.files[g] = w.files[g]
                              /\ w.files[g] # Absent => w0.files[g] # Absent
    BY WritePartIs
<1>2. /\ w1 \in Puts /\ Keeps(w0, w1) /\ Leaves(w0, w1)
      /\ w1.error = w0.error /\ w1.up.values = w0.up.values
    BY <1>1, EndPartIs
<1> HIDE DEF w0, w1
<1>3. Keeps(w, w1)
    BY <1>1, <1>2 DEF Keeps
<1>4. Writes(w, w1) /\ w1.up.file = w.up.file
    BY <1>1, <1>2 DEF Leaves, Writes
<1> QED
    BY <1>1, <1>2, <1>3, <1>4 DEF w1

(* The number of values does not go down. *)
LEMMA ValuesGrow ==
    ASSUME NEW w, NEW w1, SameBut(w.up.values, w1.up.values), Len(w.up.values) \in Nat
    PROVE  Len(w1.up.values) >= Len(w.up.values)
BY DEF SameBut

(* The values of a put are a sequence of entries. *)
LEMMA PutValues ==
    ASSUME NEW w \in Puts
    PROVE  w.up.values \in Seq(Entries) /\ Len(w.up.values) \in Nat
BY PutHas, ReaderHas, LenProperties

(* The beginning of a part passes. *)
LEMMA BeginPasses ==
    ASSUME NEW w \in Puts, OpenIsThere(w)
    PROVE  Passes(w, BeginPart(w))
<1> DEFINE w1 == BeginPart(w)
<1>1. /\ w1 \in Puts /\ Keeps(w, w1) /\ Leaves(w, w1)
      /\ w1.error = w.error /\ w1.up.values = w.up.values
    BY BeginPartIs
<1> HIDE DEF w1
<1>2. Writes(w, w1)
    BY <1>1, LeavesWrites
<1>3. OpenIsThere(w1)
    BY <1>1 DEF OpenIsThere, Leaves
<1>4. Len(w1.up.values) >= Len(w.up.values)
    BY <1>1, PutValues
<1>5. Passes(w, w1)
    BY <1>1, <1>2, <1>3, <1>4 DEF Passes, Touches
<1> QED
    BY <1>5 DEF w1

(* Emplacing a value passes, and leaves one. *)
LEMMA EmplacePasses ==
    ASSUME NEW w \in Puts, OpenIsThere(w), NEW is_file \in BOOLEAN
    PROVE  LET w1 == Emplace(w, is_file)
           IN  Passes(w, w1) /\ Len(w1.up.values) > 0 /\ Leaves(w, w1)
<1> DEFINE w1 == Emplace(w, is_file)
<1>1. /\ w1 \in Puts /\ Keeps(w, w1) /\ Leaves(w, w1)
      /\ w1.error = w.error /\ Len(w.up.values) \in Nat
      /\ Len(w1.up.values) = Len(w.up.values) + 1
    BY EmplaceIs
<1> HIDE DEF w1
<1>2. Writes(w, w1)
    BY <1>1, LeavesWrites
<1>3. OpenIsThere(w1)
    BY <1>1 DEF OpenIsThere, Leaves
<1>4. Passes(w, w1)
    BY <1>1, <1>2, <1>3 DEF Passes, Touches
<1> QED
    BY <1>1, <1>4 DEF w1

(* An event that is nothing but reading, and another behind it. *)
LEMMA PassesOn ==
    ASSUME NEW w, NEW w0 \in Puts, NEW w1, Passes(w, w0), Leaves(w, w0), Passes(w0, w1),
           Len(w.up.values) \in Nat
    PROVE  Passes(w, w1)
<1>1. /\ w1 \in Puts /\ Keeps(w, w0) /\ Keeps(w0, w1) /\ OpenIsThere(w1)
      /\ Len(w1.up.values) >= Len(w0.up.values) /\ Len(w0.up.values) >= Len(w.up.values)
      /\ w.error => w1.error
      /\ Touches(w0, w1)
    BY DEF Passes
<1>2. Keeps(w, w1)
    BY <1>1 DEF Keeps
<1>3. Len(w1.up.values) >= Len(w.up.values)
    BY <1>1, PutValues
<1>4. Writes(w0, w1) => Writes(w, w1)
    BY DEF Leaves, Writes
<1>5. \A f \in Seq(Bytes) : Makes(w0, w1, f) => Makes(w, w1, f)
    BY <1>1 DEF Leaves, Makes, Keeps
<1>6. Touches(w, w1)
    BY <1>1, <1>4, <1>5 DEF Touches
<1> QED
    BY <1>1, <1>2, <1>3, <1>6 DEF Passes

(* The end of a file name passes: a file that is opened is one that the put*)
(* may write.                                                              *)
LEMMA EndFilenamePasses ==
    ASSUME NEW w \in Puts, w.at - 1 <= Len(w.view), OpenIsThere(w), Len(w.up.values) > 0
    PROVE  Passes(w, PartEvent(w, "end_filename"))
<1> DEFINE w0 == EndPart(w)
           f == Content(w0)
           w2 == Open(w0, f)
           w1 == PartEvent(w, "end_filename")
<1>1. /\ w0 \in Puts /\ Keeps(w, w0) /\ Writes(w, w0) /\ w0.up.file = w.up.file
      /\ w0.error = w.error /\ SameBut(w.up.values, w0.up.values)
    BY EndPartPasses
<1>2. Len(w0.up.values) \in Nat /\ Len(w0.up.values) > 0 /\ w0.up.values \in Seq(Entries)
      /\ Len(w0.up.values) = Len(w.up.values)
    BY <1>1, PutValues DEF SameBut
<1>3. f \in Seq(Bytes)
  <2> HIDE DEF w0
  <2>1. w0.up.values[Len(w0.up.values)] \in Entries
    BY <1>2, ElementOfSeq
  <2> QED
    BY <2>1 DEF Content, Entries
<1>4. w1 = [w2 EXCEPT !.up.state = "file"]
    BY DEF PartEvent, EndFilename
<1> HIDE DEF w0, f, w1
<1>5. /\ w2 \in Puts /\ Keeps(w0, w2)
      /\ SameBut(w0.up.values, w2.up.values)
      /\ \/ /\ w2.up.file = w0.up.file /\ w2.up.wrote = w0.up.wrote
            /\ w2.files = w0.files /\ w2.opened = w0.opened
            /\ w2.error = w0.error
         \/ /\ w2.up = w0.up /\ w2.files = w0.files /\ w2.opened = w0.opened
            /\ w2.error = TRUE
         \/ /\ w2.error = w0.error /\ ~Refused(w0, f)
            /\ w2.up.file = f
            /\ w2.up.wrote = w0.up.wrote \cup {f} /\ w2.opened = w0.opened \cup {f}
            /\ \A g \in FileNames \ {f} : w2.files[g] = w0.files[g]
            /\ f \in FileNames => w2.files[f] = << >>
    BY <1>1, <1>3, OpenIs, ZenonT(60)
<1> HIDE DEF w2
<1>6. w1 = [w2 EXCEPT !.up = [w2.up EXCEPT !.state = "file"]]
    BY <1>4, <1>5 DEF Puts
<1>7. /\ w1 \in Puts /\ Keeps(w2, w1) /\ Leaves(w2, w1)
      /\ w1.error = w2.error /\ w1.up.values = w2.up.values
    BY <1>5, <1>6, SetState
<1>8. Keeps(w, w1)
    BY <1>1, <1>5, <1>7 DEF Keeps
<1>9. Len(w1.up.values) >= Len(w.up.values)
    BY <1>2, <1>5, <1>7 DEF SameBut
<1>10. << >> # Absent
    BY EmptySeq, MultipartAssumption, Zenon
<1>11. \/ w2.up.file = w0.up.file /\ w2.up.wrote = w0.up.wrote /\ w2.files = w0.files /\ w2.opened = w0.opened
       \/ /\ ~Refused(w0, f)
          /\ w2.up.file = f
          /\ w2.up.wrote = w0.up.wrote \cup {f} /\ w2.opened = w0.opened \cup {f}
          /\ \A g \in FileNames \ {f} : w2.files[g] = w0.files[g]
          /\ f \in FileNames => w2.files[f] = << >>
    BY <1>5
<1>12. CASE w2.up.file = w0.up.file /\ w2.up.wrote = w0.up.wrote /\ w2.files = w0.files /\ w2.opened = w0.opened
  <2>1. Writes(w, w1)
    BY <1>1, <1>7, <1>12 DEF Writes, Leaves
  <2>2. OpenIsThere(w1)
    BY <1>1, <1>7, <1>12 DEF Writes, Leaves, OpenIsThere
  <2> QED
    BY <1>1, <1>5, <1>7, <1>8, <1>9, <2>1, <2>2 DEF Passes, Touches, w1
<1>13. CASE /\ ~Refused(w0, f)
            /\ w2.up.file = f
            /\ w2.up.wrote = w0.up.wrote \cup {f} /\ w2.opened = w0.opened \cup {f}
            /\ \A g \in FileNames \ {f} : w2.files[g] = w0.files[g]
            /\ f \in FileNames => w2.files[f] = << >>
  <2>0. w.up.mode \in {"add", "replace", "ignore"} /\ w0.up.mode = w.up.mode
    BY <1>1, PutHas, ReaderHas DEF Keeps
  <2>1. \/ w.up.mode = "replace"
        \/ w.up.mode = "add" /\ (f \in FileNames => w.files[f] = Absent)
    <3>1. w0.up.mode # "ignore" /\ (w0.up.mode = "add" => w0.files[f] = Absent)
        BY <1>13, Zenon DEF Refused
    <3>2. f \in FileNames /\ w0.files[f] = Absent => w.files[f] = Absent
        BY <1>1 DEF Writes
    <3> QED
        BY <2>0, <3>1, <3>2
  <2>2. /\ w1.up.file = f
        /\ w1.up.wrote = w.up.wrote \cup {f} /\ w1.opened = w.opened \cup {f}
    BY <1>1, <1>7, <1>13 DEF Leaves, Writes
  <2>3. \A g \in FileNames : /\ g \notin {f, w.up.file} => w1.files[g] = w.files[g]
                             /\ w.files[g] # Absent => w1.files[g] # Absent
    BY <1>1, <1>7, <1>10, <1>13 DEF Leaves, Writes
  <2>4. f \in FileNames => w1.files[f] # Absent
    BY <1>7, <1>10, <1>13 DEF Leaves
  <2>5. Makes(w, w1, f)
    BY <2>1, <2>2, <2>3, <2>4 DEF Makes
  <2>6. OpenIsThere(w1)
    BY <2>2, <2>4 DEF OpenIsThere
  <2> QED
    BY <1>1, <1>3, <1>5, <1>7, <1>8, <1>9, <2>5, <2>6 DEF Passes, Touches, w1
<1> QED
    BY <1>11, <1>12, <1>13

PartEvents == Events \cup {"end_body"}

(* Every event of a part passes. *)
LEMMA PartEventPasses ==
    ASSUME NEW w \in Puts, w.at - 1 <= Len(w.view), OpenIsThere(w), NEW event \in PartEvents,
           event = "end_filename" => Len(w.up.values) > 0
    PROVE  LET w1 == PartEvent(w, event)
           IN  Passes(w, w1) /\ (event = "begin_filename" => Len(w1.up.values) > 0)
<1> DEFINE w1 == PartEvent(w, event)
<1>0. Len(w.up.values) \in Nat /\ \A x : Keeps(x, x)
    BY PutValues DEF Keeps
<1>1. CASE event = "begin_name"
  <2>1. w1 = BeginPart(w)
    BY <1>1 DEF PartEvent
  <2> QED
    BY <1>1, <2>1, BeginPasses
<1>2. CASE event = "end_name"
  <2> DEFINE w0 == EndPart(w)
             w2 == PartEvent(w, "end_name")
  <2>1. /\ w0 \in Puts /\ Keeps(w, w0) /\ Writes(w, w0) /\ w0.up.file = w.up.file
        /\ w0.error = w.error /\ SameBut(w.up.values, w0.up.values)
    BY EndPartPasses
  <2>2. /\ w2 \in Puts /\ Keeps(w0, w2) /\ Leaves(w0, w2)
        /\ w2.error = w0.error /\ w2.up.values = w0.up.values
    BY <2>1, EndNameIs
  <2> HIDE DEF w0, w2
  <2>3. Keeps(w, w2)
    BY <2>1, <2>2 DEF Keeps
  <2>4. Writes(w, w2) /\ OpenIsThere(w2)
    BY <2>1, <2>2 DEF Leaves, Writes, OpenIsThere
  <2>5. Len(w2.up.values) >= Len(w.up.values)
    BY <1>0, <2>1, <2>2 DEF SameBut
  <2>6. Passes(w, w2)
    BY <2>1, <2>2, <2>3, <2>4, <2>5 DEF Passes, Touches
  <2> QED
    BY <1>2, <2>6 DEF w2
<1>3. CASE event = "begin_filename"
  <2> DEFINE w0 == Emplace(w, TRUE)
             up2 == [w0.up EXCEPT !.state = "filename"]
             w2 == [w0 EXCEPT !.up = up2]
  <2>1. Passes(w, w0) /\ Len(w0.up.values) > 0 /\ Leaves(w, w0)
    BY EmplacePasses
  <2> HIDE DEF w0
  <2>2. w0 \in Puts /\ OpenIsThere(w0)
    BY <2>1 DEF Passes
  <2>3. /\ w2 \in Puts /\ Keeps(w0, w2) /\ Leaves(w0, w2)
        /\ w2.error = w0.error /\ w2.up.values = w0.up.values
    BY <2>2, SetState
  <2>4. w1 = BeginPart(w2)
    BY <1>3, <2>2 DEF PartEvent, Puts, w0
  <2> HIDE DEF w2
  <2>5. OpenIsThere(w2)
    BY <2>2, <2>3 DEF Leaves, OpenIsThere
  <2>6. Passes(w0, w2)
    BY <2>2, <2>3, <2>5, LeavesWrites, PutValues DEF Passes, Touches
  <2>7. Passes(w2, BeginPart(w2))
    BY <2>3, <2>5, BeginPasses
  <2>8. Passes(w0, BeginPart(w2))
    BY <2>2, <2>3, <2>6, <2>7, PassesOn, PutValues
  <2>9. Passes(w, BeginPart(w2))
    BY <1>0, <2>1, <2>2, <2>8, PassesOn
  <2>10. Len(BeginPart(w2).up.values) > 0
    BY <2>1, <2>2, <2>8, PutValues DEF Passes
  <2> HIDE DEF w1
  <2> QED
    BY <2>4, <2>9, <2>10 DEF w1
<1>4. CASE event = "end_filename"
    BY <1>4, EndFilenamePasses
<1>5. CASE event = "begin_body"
  <2> DEFINE w0 == Emplace(w, FALSE)
  <2>1. CASE w.up.state = "content"
    <3>1. Passes(w, w0) /\ Leaves(w, w0)
        BY EmplacePasses
    <3>2. w1 = BeginPart(w0)
        BY <1>5, <2>1 DEF PartEvent
    <3> HIDE DEF w0
    <3>3. w0 \in Puts /\ OpenIsThere(w0)
        BY <3>1 DEF Passes
    <3>4. Passes(w0, BeginPart(w0))
        BY <3>3, BeginPasses
    <3>5. Passes(w, BeginPart(w0))
        BY <1>0, <3>1, <3>3, <3>4, PassesOn
    <3> HIDE DEF w1
    <3> QED
        BY <1>5, <3>2, <3>5 DEF w1
  <2>2. CASE w.up.state # "content"
    <3>1. w1 = BeginPart(w)
        BY <1>5, <2>2 DEF PartEvent
    <3> QED
        BY <1>5, <3>1, BeginPasses
  <2> QED
    BY <2>1, <2>2
<1>6. CASE event = "end_body"
  <2> DEFINE w0 == EndPart(w)
             w2 == PartEvent(w, "end_body")
  <2>1. /\ w0 \in Puts /\ Keeps(w, w0) /\ Writes(w, w0) /\ w0.up.file = w.up.file
        /\ w0.error = w.error /\ SameBut(w.up.values, w0.up.values)
    BY EndPartPasses
  <2>2. /\ w2 \in Puts /\ Keeps(w0, w2)
        /\ w0.error => w2.error
        /\ w2.up.values = w0.up.values
        /\ w2.up.file = Absent
        /\ w2.up.wrote = w0.up.wrote /\ w2.files = w0.files /\ w2.opened = w0.opened
    BY <2>1, EndBodyIs
  <2> HIDE DEF w0, w2
  <2>3. Keeps(w, w2)
    BY <2>1, <2>2 DEF Keeps
  <2>4. Writes(w, w2)
    BY <2>1, <2>2 DEF Writes
  <2>a. Absent \notin FileNames
    BY MultipartAssumption, SeqMonotonic
  <2>b. OpenIsThere(w2)
    BY <2>2, <2>a DEF OpenIsThere
  <2>5. Len(w2.up.values) >= Len(w.up.values)
    BY <1>0, <2>1, <2>2 DEF SameBut
  <2>6. Passes(w, w2)
    BY <2>1, <2>2, <2>3, <2>4, <2>b, <2>5 DEF Passes, Touches
  <2> QED
    BY <1>6, <2>6 DEF w2
<1>7. CASE event = "error"
  <2>1. w1 = [w EXCEPT !.error = TRUE]
    BY <1>7 DEF PartEvent
  <2>2. w1 \in Puts
    BY <2>1, SetPut
  <2>3. /\ w1.up = w.up /\ w1.files = w.files /\ w1.opened = w.opened /\ w1.error = TRUE
        /\ w1.works = w.works /\ w1.view = w.view /\ w1.at = w.at
    BY <2>1 DEF Puts
  <2> HIDE DEF w1
  <2>4. Keeps(w, w1)
    BY <2>3 DEF Keeps
  <2>5. Writes(w, w1) /\ OpenIsThere(w1)
    BY <2>3 DEF Writes, OpenIsThere
  <2>6. Passes(w, w1)
    BY <1>0, <2>2, <2>3, <2>4, <2>5 DEF Passes, Touches
  <2> QED
    BY <1>7, <2>6 DEF w1
<1>8. CASE event = "none"
  <2>1. w1 = w
    BY <1>8 DEF PartEvent
  <2>2. Writes(w, w)
    BY DEF Writes
  <2>3. Passes(w, w)
    BY <1>0, <2>2 DEF Passes, Touches
  <2> QED
    BY <1>8, <2>1, <2>3
<1> QED
    BY <1>1, <1>2, <1>3, <1>4, <1>5, <1>6, <1>7, <1>8 DEF PartEvents, Events

(* Each state of a walk is the one before, settled; there is a walk. *)
Walk(s, w, n) ==
    /\ s[0] = w
    /\ \A k \in 1 .. n : s[k] = Settle(s[k - 1])
    /\ Advance(w, n) = s[n]

(* Advancing n bytes is n settled bytes, one after the other. *)
LEMMA AdvanceIs ==
    ASSUME NEW w, NEW n \in Nat
    PROVE  \E s : Walk(s, w, n)
<1> DEFINE Next1(v, i) == IF i = 0 THEN w ELSE Settle(v[i - 1])
           Walks(m, v) == v = [i \in 0 .. m |-> Next1(v, i)]
           T == {m \in Nat : \E v : Walks(m, v)}
<1>2. 0 \in T
  <2> DEFINE v == [i \in 0 .. 0 |-> w]
  <2>1. v = [i \in 0 .. 0 |-> Next1(v, i)]
    OBVIOUS
  <2> QED
    BY <2>1
<1>3. \A m \in 0 .. n - 1 : m \in T => m + 1 \in T
  <2>0. SUFFICES ASSUME NEW m \in Nat, NEW u, Walks(m, u)
               PROVE  m + 1 \in T
    OBVIOUS
  <2> DEFINE v == [i \in 0 .. m + 1 |-> IF i = m + 1 THEN Next1(u, m + 1) ELSE u[i]]
  <2>1. ASSUME NEW i \in 0 .. m + 1 PROVE v[i] = Next1(v, i)
    <3>1. i - 1 \in 0 .. m \/ i = 0
        OBVIOUS
    <3>2. i # 0 => v[i - 1] = u[i - 1]
        BY <3>1
    <3>3. Next1(v, i) = Next1(u, i)
        BY <3>2
    <3>4. CASE i = m + 1
        BY <3>3, <3>4
    <3>5. CASE i # m + 1
      <4>1. i \in 0 .. m
          BY <3>5
      <4>2. u[i] = Next1(u, i)
          BY <4>1, <2>0
      <4> QED
          BY <3>3, <3>5, <4>2
    <3> QED
        BY <3>4, <3>5
  <2>2. Walks(m + 1, v)
    BY <2>1
  <2> HIDE DEF v
  <2>3. \E x : Walks(m + 1, x)
    BY <2>2
  <2> QED
    BY <2>3
<1>4. n \in T
  <2> HIDE DEF T
  <2>1. 0 .. n \subseteq T
    BY <1>2, <1>3, InductionUpTo
  <2> QED
    BY <2>1
<1> DEFINE found == CHOOSE v : Walks(n, v)
<1>5. Walks(n, found)
    BY <1>4
<1>6. Advance(w, n) = found[n]
    BY DEF Advance
<1> HIDE DEF found
<1>7. \A i \in 0 .. n : found[i] = Next1(found, i)
    BY <1>5
<1>8. /\ found[0] = w
      /\ \A k \in 1 .. n : found[k] = Settle(found[k - 1])
    BY <1>7
<1> QED
    BY <1>6, <1>8 DEF Walk

-----------------------------------------------------------------------------
(* A put leaves everything as it should be, up to what it is given *)

(* What holds of a put at every byte. *)
Typed(w) ==
    /\ w \in Puts
    /\ w.at - 1 <= Len(w.view)
    /\ OpenIsThere(w)
    /\ w.up.header.state = "filename_body" => Len(w.up.values) > 0

(* What no byte changes. *)
SamePut(w, w1) ==
    /\ w1.up.status = w.up.status /\ w1.up.form = w.up.form /\ w1.up.mode = w.up.mode
    /\ w1.up.sent = w.up.sent /\ w1.up.pending = w.up.pending /\ w1.up.stale = w.up.stale
    /\ w1.up.crossed = w.up.crossed
    /\ w1.works = w.works /\ w1.view = w.view

(* What may have changed in the files since the beginning w0 of the put. *)
Framed(w0, w) ==
    /\ SamePut(w0, w)
    /\ w.up.wrote = w0.up.wrote \cup w.opened
    /\ w.up.file \in {w0.up.file, Absent} \cup w.opened
    /\ \A g \in FileNames :
          /\ w.files[g] # w0.files[g] => g \in w.opened \cup {w0.up.file}
          /\ w0.files[g] # Absent => w.files[g] # Absent
          /\ g \in w.opened =>
                /\ w.files[g] # Absent
                /\ \/ w0.up.mode = "replace"
                   \/ w0.up.mode = "add" /\ w0.files[g] = Absent

(* What touches the frame of a put no further stays in it. *)
LEMMA FramedStep ==
    ASSUME NEW w0, NEW w, NEW w1, Framed(w0, w), Touches(w, w1), SamePut(w, w1)
    PROVE  Framed(w0, w1)
<1>1. /\ SamePut(w0, w)
      /\ w.up.wrote = w0.up.wrote \cup w.opened
      /\ w.up.file \in {w0.up.file, Absent} \cup w.opened
      /\ \A g \in FileNames :
            /\ w.files[g] # w0.files[g] => g \in w.opened \cup {w0.up.file}
            /\ w0.files[g] # Absent => w.files[g] # Absent
            /\ g \in w.opened =>
                  /\ w.files[g] # Absent
                  /\ \/ w0.up.mode = "replace"
                     \/ w0.up.mode = "add" /\ w0.files[g] = Absent
    BY DEF Framed
<1>2. SamePut(w0, w1) /\ w.up.mode = w0.up.mode
    BY <1>1 DEF SamePut
<1>a. Absent \notin FileNames
    BY MultipartAssumption, SeqMonotonic
<1>3. CASE Writes(w, w1)
  <2>1. /\ w1.up.file \in {w.up.file, Absent}
        /\ w1.up.wrote = w.up.wrote /\ w1.opened = w.opened
        /\ \A g \in FileNames : /\ g # w.up.file => w1.files[g] = w.files[g]
                                /\ w.files[g] # Absent => w1.files[g] # Absent
    BY <1>3 DEF Writes
  <2>2. \A g \in FileNames : w1.files[g] # w0.files[g] => g \in w1.opened \cup {w0.up.file}
    BY <1>1, <1>a, <2>1
  <2>3. \A g \in FileNames :
            /\ w0.files[g] # Absent => w1.files[g] # Absent
            /\ g \in w1.opened =>
                  /\ w1.files[g] # Absent
                  /\ \/ w0.up.mode = "replace"
                     \/ w0.up.mode = "add" /\ w0.files[g] = Absent
    BY <1>1, <2>1
  <2>4. w1.up.wrote = w0.up.wrote \cup w1.opened /\ w1.up.file \in {w0.up.file, Absent} \cup w1.opened
    BY <1>1, <2>1
  <2> QED
    BY <1>2, <2>2, <2>3, <2>4 DEF Framed
<1>4. ASSUME NEW f, Makes(w, w1, f) PROVE Framed(w0, w1)
  <2>1. /\ \/ w.up.mode = "replace"
           \/ w.up.mode = "add" /\ (f \in FileNames => w.files[f] = Absent)
        /\ w1.up.file = f
        /\ w1.up.wrote = w.up.wrote \cup {f} /\ w1.opened = w.opened \cup {f}
        /\ \A g \in FileNames : /\ g \notin {f, w.up.file} => w1.files[g] = w.files[g]
                                /\ w.files[g] # Absent => w1.files[g] # Absent
        /\ f \in FileNames => w1.files[f] # Absent
    BY <1>4 DEF Makes
  <2>2. \A g \in FileNames : w1.files[g] # w0.files[g] => g \in w1.opened \cup {w0.up.file}
    BY <1>1, <1>a, <2>1
  <2>3. \A g \in FileNames : w0.files[g] # Absent => w1.files[g] # Absent
    BY <1>1, <2>1
  <2>4. ASSUME NEW g \in FileNames, g \in w1.opened
        PROVE  /\ w1.files[g] # Absent
               /\ \/ w0.up.mode = "replace"
                  \/ w0.up.mode = "add" /\ w0.files[g] = Absent
    <3>1. CASE g \in w.opened
        BY <1>1, <2>1, <3>1
    <3>2. CASE g = f
        BY <1>1, <1>2, <2>1, <3>2
    <3> QED
        BY <2>1, <2>4, <3>1, <3>2
  <2>5. w1.up.wrote = w0.up.wrote \cup w1.opened /\ w1.up.file \in {w0.up.file, Absent} \cup w1.opened
    BY <1>1, <2>1
  <2> QED
    BY <1>2, <2>2, <2>3, <2>4, <2>5 DEF Framed
<1> QED
    BY <1>3, <1>4 DEF Touches

(* A byte of a message is looked at. *)
LEMMA LookedIs ==
    ASSUME NEW w \in Puts, w.at - 1 <= Len(w.view), OpenIsThere(w), NEW h \in Headers,
           w.up.header.state = "filename_body" => Len(w.up.values) > 0,
           HeaderMay(w.up.header, h)
    PROVE  LET w1 == Looked(w, h)
           IN  /\ Typed(w1) /\ SamePut(w, w1) /\ Touches(w, w1)
               /\ w1.at = w.at /\ w1.up.parser = w.up.parser /\ w1.up.message = w.up.message
               /\ w1.up.header = h
               /\ w1.up.torn = (w.up.torn \/ (w.up.stale /\ w.at <= Len(w.up.pending)))
               /\ w.error => w1.error
<1> DEFINE torn1 == w.up.torn \/ (w.up.stale /\ w.at <= Len(w.up.pending))
           up1 == [w.up EXCEPT !.header = h]
           up2 == [up1 EXCEPT !.torn = torn1]
           w2 == [w EXCEPT !.up = up2]
           w1 == Looked(w, h)
<1>0. w.up \in Readers /\ w.up.torn \in BOOLEAN /\ w.up.stale \in BOOLEAN
    BY PutHas, ReaderHas
<1>1. torn1 \in BOOLEAN
    BY <1>0
<1>2. w1 = PartEvent(w2, h.event)
    BY DEF Looked, Puts, Readers
<1>t. w1.up.torn = torn1 => w1.up.torn = (w.up.torn \/ (w.up.stale /\ w.at <= Len(w.up.pending)))
    OBVIOUS
<1> HIDE DEF torn1
<1>3. up1 \in Readers
    BY <1>0, SetReader
<1>4. up2 \in Readers
  <2> HIDE DEF up1
  <2> QED
    BY <1>1, <1>3, SetReader
<1>5. w2 \in Puts
  <2> HIDE DEF up2
  <2> QED
    BY <1>4, SetPut
<1>6. /\ w2.up = up2 /\ w2.files = w.files /\ w2.opened = w.opened /\ w2.error = w.error
      /\ w2.works = w.works /\ w2.view = w.view /\ w2.at = w.at
    BY DEF Puts
<1>7. /\ up2.status = w.up.status /\ up2.form = w.up.form /\ up2.mode = w.up.mode
      /\ up2.sent = w.up.sent /\ up2.parser = w.up.parser /\ up2.message = w.up.message
      /\ up2.pending = w.up.pending /\ up2.stale = w.up.stale /\ up2.crossed = w.up.crossed
    BY <1>0 DEF Readers
<1>8. /\ up2.header = h /\ up2.torn = torn1 /\ up2.values = w.up.values /\ up2.file = w.up.file
      /\ up2.wrote = w.up.wrote
    BY <1>0 DEF Readers
<1> HIDE DEF up2, w2, w1
<1>9. /\ h.event \in PartEvents
      /\ h.event = "end_filename" => Len(w2.up.values) > 0
  <2>1. h.event \in Events
    BY DEF Headers
  <2>2. h.event = "end_filename" => w.up.header.state = "filename_body"
    BY DEF HeaderMay
  <2> QED
    BY <2>1, <2>2, <1>6, <1>8 DEF PartEvents
<1>10. OpenIsThere(w2) /\ w2.at - 1 <= Len(w2.view)
    BY <1>6, <1>8 DEF OpenIsThere
<1>11. Passes(w2, w1) /\ (h.event = "begin_filename" => Len(w1.up.values) > 0)
    BY <1>2, <1>5, <1>9, <1>10, PartEventPasses
<1>12. /\ w1 \in Puts /\ Keeps(w2, w1) /\ OpenIsThere(w1)
       /\ Len(w1.up.values) >= Len(w.up.values)
       /\ w.error => w1.error
       /\ Touches(w2, w1)
    BY <1>6, <1>8, <1>11 DEF Passes
<1>13. SamePut(w, w1)
    BY <1>6, <1>7, <1>12 DEF Keeps, SamePut
<1>14. Touches(w, w1)
  <2>1. Writes(w2, w1) => Writes(w, w1)
    BY <1>6, <1>8 DEF Writes
  <2>2. \A f \in Seq(Bytes) : Makes(w2, w1, f) => Makes(w, w1, f)
    BY <1>6, <1>7, <1>8 DEF Makes
  <2> QED
    BY <2>1, <2>2, <1>12 DEF Touches
<1>15. /\ w1.at = w.at /\ w1.up.parser = w.up.parser /\ w1.up.message = w.up.message
       /\ w1.up.header = h /\ w1.up.torn = torn1
    BY <1>6, <1>7, <1>8, <1>12 DEF Keeps
<1>16. h.state = "filename_body" => Len(w1.up.values) > 0
  <2>1. h.state = "filename_body" => w.up.header.state = "filename_body" \/ h.event = "begin_filename"
    BY DEF HeaderMay
  <2>2. Len(w.up.values) \in Nat /\ Len(w1.up.values) \in Nat
    BY <1>12, PutValues
  <2> QED
    BY <2>1, <2>2, <1>11, <1>12
<1>17. w1.view = w.view
    BY <1>13 DEF SamePut
<1>18. Typed(w1)
    BY <1>12, <1>15, <1>16, <1>17 DEF Typed
<1> QED
    BY <1>t, <1>12, <1>13, <1>14, <1>15, <1>18 DEF w1

(* A put that stands elsewhere. *)
LEMMA SetAt ==
    ASSUME NEW w \in Puts, NEW x \in Nat \ {0}
    PROVE  LET w1 == [w EXCEPT !.at = x]
           IN  /\ w1 \in Puts /\ w1.up = w.up /\ w1.files = w.files /\ w1.works = w.works
               /\ w1.error = w.error /\ w1.opened = w.opened /\ w1.at = x /\ w1.from = w.from
               /\ w1.view = w.view
<1>1. [w EXCEPT !.at = x] \in Puts
    BY SetPut
<1> QED
    BY <1>1 DEF Puts

(* A byte is settled. *)
LEMMA SettleIs ==
    ASSUME NEW w, Typed(w), w.at <= Len(w.view)
    PROVE  LET w1 == Settle(w)
           IN  /\ Typed(w1) /\ SamePut(w, w1) /\ Touches(w, w1)
               /\ w1.at = w.at + 1 /\ w1.up.parser = w.up.parser /\ w1.up.message = w.up.message
               /\ w.up.torn => w1.up.torn
               /\ w.error => w1.error
               /\ ~w.up.message => /\ w1.up = w.up /\ w1.files = w.files /\ w1.error = w.error
                                   /\ w1.from = w.from /\ w1.opened = w.opened
<1> DEFINE h == HandleMessageChar(w.up.header, w.view[w.at])
           w0 == IF w.up.message THEN Looked(w, h) ELSE w
           w1 == Settle(w)
<1>0. /\ w \in Puts /\ w.at - 1 <= Len(w.view) /\ OpenIsThere(w)
      /\ w.up.header.state = "filename_body" => Len(w.up.values) > 0
    BY DEF Typed
<1>1. w.up.header \in Headers /\ w.at \in Nat /\ w.at > 0 /\ Len(w.view) \in Nat
    BY <1>0, PutHas, ReaderHas, LenProperties
<1>2. HeaderMay(w.up.header, h)
    BY <1>1, HeaderType
<1>3. h \in Headers
    BY <1>2 DEF HeaderMay
<1> HIDE DEF h
<1>4. /\ Typed(w0) /\ SamePut(w, w0) /\ Touches(w, w0)
      /\ w0.at = w.at /\ w0.up.parser = w.up.parser /\ w0.up.message = w.up.message
      /\ w.up.torn => w0.up.torn
      /\ w.error => w0.error
      /\ ~w.up.message => w0 = w
  <2>1. CASE w.up.message
    <3> DEFINE v == Looked(w, h)
    <3>1. /\ Typed(v) /\ SamePut(w, v) /\ Touches(w, v)
          /\ v.at = w.at /\ v.up.parser = w.up.parser /\ v.up.message = w.up.message
          /\ v.up.torn = (w.up.torn \/ (w.up.stale /\ w.at <= Len(w.up.pending)))
          /\ w.error => v.error
        BY <1>0, <1>2, <1>3, LookedIs
    <3>2. w0 = v
        BY <2>1
    <3> HIDE DEF v, w0
    <3> QED
        BY <2>1, <3>1, <3>2
  <2>2. CASE ~w.up.message
    <3>1. w0 = w
        BY <2>2
    <3>2. SamePut(w, w) /\ Touches(w, w)
        BY DEF SamePut, Touches, Writes
    <3> HIDE DEF w0
    <3> QED
        BY <3>1, <3>2
  <2> QED
    BY <2>1, <2>2
<1>5. w1 = [w0 EXCEPT !.at = @ + 1]
    BY DEF Settle, h
<1> HIDE DEF w0
<1>6. w1 = [w0 EXCEPT !.at = w.at + 1]
    BY <1>4, <1>5
<1>7. w0 \in Puts /\ w.at + 1 \in Nat \ {0}
    BY <1>1, <1>4 DEF Typed
<1>8. /\ w1 \in Puts /\ w1.up = w0.up /\ w1.files = w0.files /\ w1.works = w0.works
      /\ w1.error = w0.error /\ w1.opened = w0.opened /\ w1.at = w.at + 1 /\ w1.from = w0.from
      /\ w1.view = w0.view
    BY <1>6, <1>7, SetAt
<1> HIDE DEF w1
<1>9. Typed(w1)
  <2>1. w0.view = w.view
    BY <1>4 DEF SamePut
  <2>2. OpenIsThere(w1)
    BY <1>4, <1>8 DEF Typed, OpenIsThere
  <2>3. w1.at - 1 <= Len(w1.view)
    BY <1>1, <1>8, <2>1
  <2> QED
    BY <1>4, <1>8, <2>2, <2>3 DEF Typed
<1>10. SamePut(w, w1)
    BY <1>4, <1>8 DEF SamePut
<1>11. Touches(w, w1)
    BY <1>4, <1>8 DEF Touches, Writes, Makes
<1> QED
    BY <1>4, <1>8, <1>9, <1>10, <1>11 DEF w1

-----------------------------------------------------------------------------
(* How far a reader has come in what was sent *)

(* seq is what was sent behind the a-th byte, up to the q-th. *)
Taken(seq, s, a, q) ==
    /\ Len(seq) = q - a
    /\ \A j \in 1 .. Len(seq) : seq[j] = s[a + j]

(* Between two parts, or before the first: i - 1 parts have been taken.    *)
AtStart(up, i) ==
    /\ up.state = "name" /\ ~up.is_writable
    /\ Len(up.values) = i - 1 /\ up.name = << >> /\ up.file = Absent

InName(up, i, q) ==
    /\ up.state = "name" /\ up.is_writable
    /\ Len(up.values) = i - 1 /\ up.file = Absent
    /\ Taken(up.name, Sent[up.form], Before(up.form, i) + 1, q)

BehindName(up, i) ==
    /\ up.state = "content" /\ ~up.is_writable
    /\ Len(up.values) = i - 1 /\ up.file = Absent
    /\ up.name = <<up.form[i].name>>

(* The i-th part has its entry. *)
Entered(up, i) ==
    /\ Len(up.values) = i /\ up.name = << >>
    /\ up.values[i].name = <<up.form[i].name>>
    /\ up.values[i].is_file = IsFile(up.form[i])

InFilename(up, i, q) ==
    /\ up.state = "filename" /\ up.is_writable
    /\ Entered(up, i) /\ up.values[i].written /\ up.file = Absent
    /\ Taken(up.values[i].content, Sent[up.form], Before(up.form, i) + 5, q)

BehindFilename(up, fs, i) ==
    LET f == up.form[i].file
    IN  /\ up.state = "file" /\ ~up.is_writable
        /\ Entered(up, i) /\ up.values[i].content = f
        /\ ~up.values[i].written => up.file = Absent
        /\ up.values[i].written =>
              up.file = f /\ f \in up.wrote /\ up.offset = 0 /\ fs[f] = << >>

InFile(up, fs, i, q) ==
    LET f == up.form[i].file
    IN  /\ up.state = "file" /\ up.is_writable
        /\ Entered(up, i) /\ up.values[i].content = f
        /\ ~up.values[i].written => up.file = Absent
        /\ up.values[i].written =>
              /\ up.file = f /\ f \in up.wrote
              /\ ~up.short =>
                    /\ up.offset = Len(fs[f])
                    /\ Taken(fs[f], Sent[up.form], Before(up.form, i) + BodyAt(up.form[i]), q)

InContent(up, i, q) ==
    /\ up.state = "content" /\ up.is_writable
    /\ Entered(up, i) /\ up.file = Absent
    /\ Taken(up.values[i].content, Sent[up.form], Before(up.form, i) + BodyAt(up.form[i]), q)

(* A part that has been taken is kept as it was sent. *)
Kept1(up, fs, value, part) ==
    /\ value.name = <<part.name>>
    /\ value.is_file = IsFile(part)
    /\ value.content = IF IsFile(part) THEN part.file ELSE part.content
    /\ IsFile(part) /\ value.written =>
          part.file \in up.wrote /\ (~up.short => fs[part.file] = part.content)

Earlier(up, fs, i) == \A j \in 1 .. i - 1 : Kept1(up, fs, up.values[j], up.form[j])

(* l bytes of the i-th part have been looked at, and what was sent up to   *)
(* the q-th byte has been written. *)
Current(up, fs, i, l, q) ==
    LET part == up.form[i]
        n == Len(part.file)
        b == BodyAt(part)
    IN  \/ l = 0 /\ AtStart(up, i)
        \/ l \in 1 .. 2 /\ InName(up, i, q)
        \/ l >= 3 /\ l < b /\ (IsFile(part) => l < 5) /\ BehindName(up, i)
        \/ IsFile(part) /\ l \in 5 .. 5 + n /\ InFilename(up, i, q)
        \/ IsFile(part) /\ l >= 6 + n /\ l < b /\ BehindFilename(up, fs, i)
        \/ IsFile(part) /\ l >= b /\ InFile(up, fs, i, q)
        \/ ~IsFile(part) /\ l >= b /\ InContent(up, i, q)

(* Where the bytes of a put begin in what is sent. *)
Base(w) == w.up.sent - Len(w.up.pending)

Written(w) == Base(w) + w.from - 1

(* The bytes that are not written yet are as they were sent. *)
Right(w) ==
    /\ w.from <= w.at
    /\ \A p \in w.from .. w.at - 1 : w.view[p] = Sent[w.up.form][Base(w) + p]

(* The places in the stream are integers. *)
LEMMA BaseIs ==
    ASSUME NEW w \in Puts
    PROVE  Base(w) \in Int /\ Written(w) \in Int
<1>1. w.up \in Readers /\ w.from \in Nat
    BY PutHas
<1>2. w.up.sent \in Nat /\ w.up.pending \in Seq(Bytes)
    BY <1>1, ReaderHas
<1>3. Len(w.up.pending) \in Nat
    BY <1>2, LenProperties
<1>4. Base(w) \in Int
    BY <1>2, <1>3 DEF Base
<1> QED
    BY <1>1, <1>4 DEF Written

(* What has been taken goes on with the bytes that are written now. *)
LEMMA TakenGrows ==
    ASSUME NEW S, NEW seq \in Seq(S), Bytes \subseteq S, NEW w \in Puts, w.at - 1 <= Len(w.view), Right(w),
           NEW a \in Int, Taken(seq, Sent[w.up.form], a, Written(w))
    PROVE  /\ seq \o Cut(w) \in Seq(S)
           /\ Len(seq \o Cut(w)) = Len(seq) + Len(Cut(w))
           /\ Taken(seq \o Cut(w), Sent[w.up.form], a, Base(w) + w.at - 1)
<1> DEFINE s == Sent[w.up.form]
           t == seq \o Cut(w)
           q == Base(w) + w.at - 1
<1>1. /\ w.from \in Nat /\ w.at \in Nat /\ Base(w) \in Int /\ Len(seq) \in Nat
      /\ w.from > 0 /\ Written(w) = Base(w) + w.from - 1
    BY PutHas, BaseIs, LenProperties DEF Written
<1>2. Len(Cut(w)) = w.at - w.from /\ w.from <= w.at /\ Cut(w) \in Seq(Bytes)
      /\ \A j \in 1 .. Len(Cut(w)) : Cut(w)[j] = w.view[w.from + j - 1]
    BY CutIs DEF Right
<1>3. Cut(w) \in Seq(S)
    BY <1>2, SeqMonotonic
<1>4. /\ t \in Seq(S) /\ Len(t) = Len(seq) + Len(Cut(w))
      /\ \A j \in 1 .. Len(seq) + Len(Cut(w)) :
            t[j] = IF j <= Len(seq) THEN seq[j] ELSE Cut(w)[j - Len(seq)]
    BY <1>3, ConcatProperties
<1>5. Len(seq) = Written(w) - a /\ \A j \in 1 .. Len(seq) : seq[j] = s[a + j]
    BY DEF Taken
<1>6. \A p \in w.from .. w.at - 1 : w.view[p] = s[Base(w) + p]
    BY DEF Right
<1> HIDE DEF t, s
<1> DEFINE ls == Len(seq)
           lc == Len(Cut(w))
           at == w.at
           from == w.from
           base == Base(w)
<1>0. /\ ls \in Nat /\ at \in Nat /\ from \in Nat /\ base \in Int /\ from > 0
      /\ lc = at - from /\ from <= at /\ ls = base + from - 1 - a /\ q = base + at - 1
      /\ Len(t) = ls + lc
    BY <1>1, <1>2, <1>4, <1>5
<1>a. /\ \A j \in 1 .. ls + lc : t[j] = IF j <= ls THEN seq[j] ELSE Cut(w)[j - ls]
      /\ \A j \in 1 .. ls : seq[j] = s[a + j]
      /\ \A j \in 1 .. lc : Cut(w)[j] = w.view[from + j - 1]
      /\ \A p \in from .. at - 1 : w.view[p] = s[base + p]
    BY <1>2, <1>4, <1>5, <1>6, Zenon
<1> HIDE DEF ls, lc, at, from, base, q
<1>7. Len(t) = q - a
    BY <1>0
<1>8. ASSUME NEW j \in 1 .. Len(t) PROVE t[j] = s[a + j]
  <2>0. j \in 1 .. ls + lc
    BY <1>0
  <2>1. CASE j <= ls
    <3>1. j \in 1 .. ls
        BY <2>0, <2>1, <1>0
    <3> QED
        BY <2>0, <2>1, <3>1, <1>a, Zenon
  <2>2. CASE ~(j <= ls)
    <3> DEFINE k == j - ls
               p == from + k - 1
    <3>1. /\ k \in 1 .. lc /\ p \in from .. at - 1
          /\ base + p = a + j
        BY <2>0, <2>2, <1>0
    <3>2. t[j] = Cut(w)[k]
        BY <2>0, <2>2, <1>a, Zenon
    <3> HIDE DEF k
    <3>3. Cut(w)[k] = w.view[p]
        BY <3>1, <1>a, Zenon
    <3> HIDE DEF p
    <3> QED
        BY <3>1, <3>2, <3>3, <1>a, Zenon
  <2> QED
    BY <2>1, <2>2, Zenon
<1>9. Taken(t, s, a, q)
    BY <1>7, <1>8, Zenon DEF Taken
<1> QED
    BY <1>4, <1>9, Zenon DEF t, s, q

(* What the earlier parts left stays when their values and files do. *)
LEMMA EarlierStays ==
    ASSUME NEW up, NEW up1, NEW fs, NEW fs1, NEW i, Earlier(up, fs, i),
           up1.form = up.form,
           \A j \in 1 .. i - 1 : up1.values[j] = up.values[j],
           up.wrote \subseteq up1.wrote, up.short => up1.short,
           \A j \in 1 .. i - 1 : IsFile(up.form[j]) => fs1[up.form[j].file] = fs[up.form[j].file]
    PROVE  Earlier(up1, fs1, i)
<1> SUFFICES ASSUME NEW j \in 1 .. i - 1
             PROVE  Kept1(up1, fs1, up1.values[j], up1.form[j])
    BY DEF Earlier
<1>1. Kept1(up, fs, up.values[j], up.form[j])
    BY DEF Earlier
<1> QED
    BY <1>1 DEF Kept1

(* The file of one part is not that of another. *)
LEMMA OtherFiles ==
    ASSUME NEW form \in AllForms, NEW i \in 1 .. Len(form), NEW j \in 1 .. i - 1, IsFile(form[j])
    PROVE  form[j].file # form[i].file /\ form[j].file \in FileNames
<1>1. j \in 1 .. Len(form) /\ j # i
    BY FormFacts
<1>2. form[j] \in Parts
    BY <1>1, FormFacts
<1>3. form[j].file \in FileNames
    BY <1>2, PartFacts
<1> QED
    BY <1>1, <1>3, FormFacts

(* No file of a form has the name that stands for no file. *)
LEMMA NotAbsent ==
    /\ Absent \notin FileNames /\ << >> # Absent
    /\ \A part \in Parts : part.file # Absent
<1>1. Absent \notin FileNames
    BY MultipartAssumption, SeqMonotonic
<1>2. << >> # Absent
    BY EmptySeq, MultipartAssumption, Zenon
<1> QED
    BY <1>1, <1>2 DEF Parts

(* A put within the i-th part, when those before it have been taken. *)
Ready(w, i) ==
    /\ w \in Puts /\ w.at - 1 <= Len(w.view) /\ OpenIsThere(w)
    /\ w.up.form \in AllForms /\ i \in 1 .. Len(w.up.form)
    /\ Earlier(w.up, w.files, i)

(* The types and bounds of a put that is ready for a part. *)
LEMMA ReadyHas ==
    ASSUME NEW w, NEW i, Ready(w, i)
    PROVE  /\ w \in Puts /\ w.at - 1 <= Len(w.view) /\ OpenIsThere(w)
           /\ w.up.form \in AllForms /\ i \in 1 .. Len(w.up.form) /\ i \in Nat /\ i > 0
           /\ w.up.form[i] \in Parts
           /\ Before(w.up.form, i) \in Nat /\ BodyAt(w.up.form[i]) \in Nat
           /\ Len(w.up.form[i].file) \in Nat
           /\ w.up.values \in Seq(Entries) /\ w.up.name \in Seq(Bytes)
<1>1. /\ w \in Puts /\ w.at - 1 <= Len(w.view) /\ OpenIsThere(w)
      /\ w.up.form \in AllForms /\ i \in 1 .. Len(w.up.form)
    BY DEF Ready
<1>2. w.up.form[i] \in Parts /\ i \in Nat /\ i > 0
    BY <1>1, FormFacts
<1>3. BodyAt(w.up.form[i]) \in Nat /\ Len(w.up.form[i].file) \in Nat
    BY <1>2, PartFacts
<1>4. LaidOut(w.up.form, i, Sent[w.up.form])
    BY <1>1, Layout
<1>5. Before(w.up.form, i) \in Nat
    BY <1>4 DEF LaidOut
<1>6. w.up.values \in Seq(Entries) /\ w.up.name \in Seq(Bytes)
    BY <1>1, PutHas, ReaderHas
<1> QED
    BY <1>1, <1>2, <1>3, <1>5, <1>6

(* The entry of the part that is being read. *)
LEMMA EntryIs ==
    ASSUME NEW w, NEW i, Ready(w, i), Len(w.up.values) = i
    PROVE  w.up.values[i].content \in Seq(Bytes)
<1>1. i \in 1 .. Len(w.up.values) /\ w.up.values \in Seq(Entries)
    BY ReadyHas
<1>2. w.up.values[i] \in Entries
    BY <1>1, ElementOfSeq
<1> QED
    BY <1>2 DEF Entries

(* What is written of a part leaves the parts before it. *)
LEMMA WriteStaysReady ==
    ASSUME NEW w, NEW i, Ready(w, i),
           Len(w.up.values) <= i,
           w.up.state \in {"filename", "content"} => Len(w.up.values) = i,
           w.up.file \in {Absent, w.up.form[i].file}
    PROVE  LET w1 == WritePart(w)
           IN  Ready(w1, i) /\ w1.error = w.error /\ w1.from = w.at /\ Keeps(w, w1)
<1> DEFINE w1 == WritePart(w)
           f == w.up.file
<1>1. /\ w1 \in Puts /\ Keeps(w, w1)
      /\ w1.error = w.error /\ w1.from = w.at
      /\ w1.up.file = w.up.file /\ w1.up.wrote = w.up.wrote
      /\ w.up.short => w1.up.short
      /\ SameBut(w.up.values, w1.up.values)
      /\ w.up.state # "file" => Leaves(w, w1)
      /\ w.up.state = "name" => w1.up.values = w.up.values
      /\ w.up.state = "file" => w1.up.values = w.up.values
      /\ \A g \in FileNames : /\ g # f => w1.files[g] = w.files[g]
                              /\ w.files[g] # Absent => w1.files[g] # Absent
    BY ReadyHas, WritePartIs
<1>2. /\ w \in Puts /\ w.at - 1 <= Len(w.view) /\ OpenIsThere(w)
      /\ w.up.form \in AllForms /\ i \in 1 .. Len(w.up.form) /\ i \in Nat /\ i > 0
      /\ w.up.values \in Seq(Entries) /\ Earlier(w.up, w.files, i)
    BY ReadyHas DEF Ready
<1>s. w.up.state \in {"name", "filename", "file", "content"}
    BY <1>2, PutHas, ReaderHas
<1> HIDE DEF w1
<1>3. OpenIsThere(w1)
    BY <1>1, <1>2 DEF OpenIsThere
<1>4. w1.up.form = w.up.form /\ w1.at = w.at /\ w1.view = w.view
    BY <1>1 DEF Keeps
<1>5. \A j \in 1 .. i - 1 : w1.up.values[j] = w.up.values[j]
  <2>1. CASE w.up.state \in {"filename", "content"}
    BY <1>1, <2>1 DEF SameBut
  <2>2. CASE w.up.state \in {"name", "file"}
    BY <1>1, <2>2
  <2> QED
    BY <1>s, <2>1, <2>2
<1>6. \A j \in 1 .. i - 1 : IsFile(w.up.form[j]) =>
          w1.files[w.up.form[j].file] = w.files[w.up.form[j].file]
  <2> TAKE j \in 1 .. i - 1
  <2> HAVE IsFile(w.up.form[j])
  <2>1. w.up.form[j].file # w.up.form[i].file /\ w.up.form[j].file \in FileNames
    BY <1>2, OtherFiles
  <2>2. w.up.form[j].file # Absent
    BY <2>1, NotAbsent
  <2> QED
    BY <1>1, <2>1, <2>2
<1>7. Earlier(w1.up, w1.files, i)
    BY <1>1, <1>2, <1>4, <1>5, <1>6, EarlierStays
<1>8. Ready(w1, i)
    BY <1>1, <1>2, <1>3, <1>4, <1>7 DEF Ready
<1> QED
    BY <1>1, <1>8 DEF w1

(* Writing what is left of a name takes it up to here. *)
LEMMA NameWritten ==
    ASSUME NEW w, NEW i, Ready(w, i), Right(w), InName(w.up, i, Written(w))
    PROVE  LET w1 == WritePart(w)
           IN  /\ Ready(w1, i) /\ w1.error = w.error /\ w1.from = w.at /\ Keeps(w, w1)
               /\ InName(w1.up, i, Base(w) + w.at - 1)
               /\ w1.files = w.files /\ w1.opened = w.opened
<1> DEFINE w1 == WritePart(w)
<1>0. /\ w \in Puts /\ w.at - 1 <= Len(w.view) /\ OpenIsThere(w)
      /\ w.up.name \in Seq(Bytes) /\ Before(w.up.form, i) + 1 \in Int /\ i \in Nat
    BY ReadyHas
<1>1. /\ w.up.state = "name" /\ w.up.is_writable
      /\ Len(w.up.values) = i - 1 /\ w.up.file = Absent
      /\ Taken(w.up.name, Sent[w.up.form], Before(w.up.form, i) + 1, Written(w))
    BY DEF InName
<1>a. Len(w.up.values) <= i /\ w.up.state \notin {"filename", "content"}
      /\ w.up.file \in {Absent, w.up.form[i].file}
    BY <1>0, <1>1
<1>2. Ready(w1, i) /\ w1.error = w.error /\ w1.from = w.at /\ Keeps(w, w1)
    BY <1>a, WriteStaysReady
<1>3. /\ w1.up.state = "name" /\ w1.up.is_writable = w.up.is_writable
      /\ w1.up.file = w.up.file
      /\ w1.up.name = w.up.name \o Cut(w) /\ w1.up.values = w.up.values
      /\ Leaves(w, w1)
    BY <1>0, <1>1, WritePartIs
<1>4. Taken(w.up.name \o Cut(w), Sent[w.up.form], Before(w.up.form, i) + 1, Base(w) + w.at - 1)
    BY <1>0, <1>1, TakenGrows
<1> HIDE DEF w1
<1>5. w1.up.form = w.up.form
    BY <1>2 DEF Keeps
<1>6. InName(w1.up, i, Base(w) + w.at - 1)
    BY <1>1, <1>3, <1>4, <1>5 DEF InName
<1>7. w1.files = w.files /\ w1.opened = w.opened
    BY <1>3 DEF Leaves
<1> QED
    BY <1>2, <1>6, <1>7 DEF w1

(* A value that was entered stays the value of its part. *)
LEMMA EnteredStays ==
    ASSUME NEW up, NEW up1, NEW i \in Nat \ {0}, Entered(up, i), SameBut(up.values, up1.values),
           up1.name = up.name, up1.form = up.form
    PROVE  Entered(up1, i)
BY DEF Entered, SameBut

(* Writing what is left of a file name takes it up to here. *)
LEMMA FilenameWritten ==
    ASSUME NEW w, NEW i, Ready(w, i), Right(w), InFilename(w.up, i, Written(w))
    PROVE  LET w1 == WritePart(w)
           IN  /\ Ready(w1, i) /\ w1.error = w.error /\ w1.from = w.at /\ Keeps(w, w1)
               /\ InFilename(w1.up, i, Base(w) + w.at - 1)
<1> DEFINE w1 == WritePart(w)
           a == Before(w.up.form, i) + 5
<1>0. /\ w \in Puts /\ w.at - 1 <= Len(w.view) /\ OpenIsThere(w)
      /\ a \in Int /\ i \in Nat /\ i > 0
    BY ReadyHas
<1>1. /\ w.up.state = "filename" /\ w.up.is_writable
      /\ Entered(w.up, i) /\ w.up.values[i].written /\ w.up.file = Absent
      /\ Taken(w.up.values[i].content, Sent[w.up.form], a, Written(w))
    BY DEF InFilename
<1>a. Len(w.up.values) = i
    BY <1>1 DEF Entered
<1>2. Ready(w1, i) /\ w1.error = w.error /\ w1.from = w.at /\ Keeps(w, w1)
    BY <1>0, <1>1, <1>a, WriteStaysReady
<1>3. /\ w1.up.state = "filename" /\ w1.up.is_writable = w.up.is_writable
      /\ w1.up.file = w.up.file /\ SameBut(w.up.values, w1.up.values) /\ w1.up.name = w.up.name
      /\ w1.up.values[i].content = w.up.values[i].content \o Cut(w)
      /\ w1.up.values[i].written = w.up.values[i].written
    BY <1>0, <1>1, <1>a, WritePartIs
<1>4. w.up.values[i].content \in Seq(Bytes)
    BY <1>a, EntryIs
<1> HIDE DEF a
<1>5. Taken(w.up.values[i].content \o Cut(w), Sent[w.up.form], a, Base(w) + w.at - 1)
    BY <1>0, <1>1, <1>4, TakenGrows
<1> HIDE DEF w1
<1>6. w1.up.form = w.up.form
    BY <1>2 DEF Keeps
<1>7. Entered(w1.up, i)
  <2>1. i \in Nat \ {0}
    BY <1>0
  <2> QED
    BY <2>1, <1>1, <1>3, <1>6, EnteredStays, Zenon
<1>8. InFilename(w1.up, i, Base(w) + w.at - 1)
    BY <1>1, <1>3, <1>5, <1>6, <1>7 DEF InFilename, a
<1> QED
    BY <1>2, <1>8 DEF w1

(* Writing what is left of a content takes it up to here. *)
LEMMA ContentWritten ==
    ASSUME NEW w, NEW i, Ready(w, i), Right(w), InContent(w.up, i, Written(w))
    PROVE  LET w1 == WritePart(w)
           IN  /\ Ready(w1, i) /\ w1.error = w.error /\ w1.from = w.at /\ Keeps(w, w1)
               /\ InContent(w1.up, i, Base(w) + w.at - 1)
<1> DEFINE w1 == WritePart(w)
           a == Before(w.up.form, i) + BodyAt(w.up.form[i])
<1>0. /\ w \in Puts /\ w.at - 1 <= Len(w.view) /\ OpenIsThere(w)
      /\ a \in Int /\ i \in Nat /\ i > 0
    BY ReadyHas
<1>1. /\ w.up.state = "content" /\ w.up.is_writable
      /\ Entered(w.up, i) /\ w.up.file = Absent
      /\ Taken(w.up.values[i].content, Sent[w.up.form], a, Written(w))
    BY DEF InContent
<1>a. Len(w.up.values) = i
    BY <1>1 DEF Entered
<1>2. Ready(w1, i) /\ w1.error = w.error /\ w1.from = w.at /\ Keeps(w, w1)
    BY <1>0, <1>1, <1>a, WriteStaysReady
<1>3. /\ w1.up.state = "content" /\ w1.up.is_writable = w.up.is_writable
      /\ w1.up.file = w.up.file /\ SameBut(w.up.values, w1.up.values) /\ w1.up.name = w.up.name
      /\ w1.up.values[i].content = w.up.values[i].content \o Cut(w)
    BY <1>0, <1>1, <1>a, WritePartIs
<1>4. w.up.values[i].content \in Seq(Bytes)
    BY <1>a, EntryIs
<1> HIDE DEF a
<1>5. Taken(w.up.values[i].content \o Cut(w), Sent[w.up.form], a, Base(w) + w.at - 1)
    BY <1>0, <1>1, <1>4, TakenGrows
<1> HIDE DEF w1
<1>6. w1.up.form = w.up.form
    BY <1>2 DEF Keeps
<1>7. Entered(w1.up, i)
  <2>1. i \in Nat \ {0}
    BY <1>0
  <2> QED
    BY <2>1, <1>1, <1>3, <1>6, EnteredStays, Zenon
<1>8. InContent(w1.up, i, Base(w) + w.at - 1)
    BY <1>1, <1>3, <1>5, <1>6, <1>7 DEF InContent, a
<1> QED
    BY <1>2, <1>8 DEF w1

(* Writing what is left of a file takes it up to here, unless a write was  *)
(* short.                                                                  *)
LEMMA FileWritten ==
    ASSUME NEW w, NEW i, Ready(w, i), Right(w), IsFile(w.up.form[i]),
           InFile(w.up, w.files, i, Written(w))
    PROVE  LET w1 == WritePart(w)
           IN  /\ Ready(w1, i) /\ w1.error = w.error /\ w1.from = w.at /\ Keeps(w, w1)
               /\ InFile(w1.up, w1.files, i, Base(w) + w.at - 1)
<1> DEFINE w1 == WritePart(w)
           f == w.up.form[i].file
           a == Before(w.up.form, i) + BodyAt(w.up.form[i])
           q == Base(w) + w.at - 1
<1>0. /\ w \in Puts /\ w.at - 1 <= Len(w.view) /\ OpenIsThere(w)
      /\ a \in Int /\ i \in Nat /\ i > 0 /\ w.up.form[i] \in Parts
    BY ReadyHas
<1>f. f \in FileNames /\ f # Absent
    BY <1>0, PartFacts, NotAbsent
<1>1. /\ w.up.state = "file" /\ w.up.is_writable
      /\ Entered(w.up, i) /\ w.up.values[i].content = f
      /\ ~w.up.values[i].written => w.up.file = Absent
      /\ w.up.values[i].written =>
            /\ w.up.file = f /\ f \in w.up.wrote
            /\ ~w.up.short =>
                  w.up.offset = Len(w.files[f]) /\ Taken(w.files[f], Sent[w.up.form], a, Written(w))
    BY DEF InFile
<1>a. Len(w.up.values) = i
    BY <1>1 DEF Entered
<1>b. w.up.file \in {Absent, f}
    BY <1>1
<1>2. Ready(w1, i) /\ w1.error = w.error /\ w1.from = w.at /\ Keeps(w, w1)
    BY <1>0, <1>1, <1>a, <1>b, WriteStaysReady
<1>3. /\ w1.up.state = "file" /\ w1.up.is_writable = w.up.is_writable
      /\ w1.up.file = w.up.file /\ w1.up.values = w.up.values /\ w1.up.name = w.up.name
      /\ SameBut(w.up.values, w1.up.values)
      /\ w1.up.wrote = w.up.wrote /\ (w.up.short => w1.up.short)
      /\ ~w1.up.short /\ w.up.file \in FileNames /\ w.up.file # Absent
         /\ w.up.offset = Len(w.files[w.up.file]) =>
            /\ w1.files[w.up.file] = w.files[w.up.file] \o Cut(w)
            /\ w1.up.offset = w.up.offset + Len(Cut(w))
    BY <1>0, <1>1, WritePartIs
<1> HIDE DEF a, w1, q, f
<1>5. ASSUME w.up.values[i].written, ~w1.up.short
      PROVE  w1.up.offset = Len(w1.files[f]) /\ Taken(w1.files[f], Sent[w.up.form], a, q)
  <2>1. /\ w.up.file = f /\ w.up.offset = Len(w.files[f])
        /\ Taken(w.files[f], Sent[w.up.form], a, Written(w))
    BY <1>1, <1>3, <1>5
  <2>2. w1.files[f] = w.files[f] \o Cut(w) /\ w1.up.offset = w.up.offset + Len(Cut(w))
    BY <1>3, <1>5, <1>f, <2>1
  <2>3. w.files[f] # Absent
    BY <1>0, <1>f, <2>1 DEF OpenIsThere
  <2>4. w.files[f] \in Seq(Data)
    BY <1>0, <1>f, <2>3, PutHas
  <2>5. /\ Len(w.files[f] \o Cut(w)) = Len(w.files[f]) + Len(Cut(w))
        /\ Taken(w.files[f] \o Cut(w), Sent[w.up.form], a, Base(w) + w.at - 1)
    BY <1>0, <2>1, <2>4, DataAre, TakenGrows
  <2> QED
    BY <2>1, <2>2, <2>5 DEF q
<1>6. w1.up.form = w.up.form
    BY <1>2 DEF Keeps
<1>7. Entered(w1.up, i)
  <2>1. i \in Nat \ {0}
    BY <1>0
  <2> QED
    BY <2>1, <1>1, <1>3, <1>6, EnteredStays, Zenon
<1>8. InFile(w1.up, w1.files, i, q)
    BY <1>1, <1>3, <1>5, <1>6, <1>7 DEF InFile, a, f
<1> QED
    BY <1>2, <1>8 DEF w1, q

(* What has been looked at, with the byte that is being looked at. *)
RightOn(w) ==
    /\ w.from <= w.at + 1
    /\ \A p \in w.from .. w.at : w.view[p] = Sent[w.up.form][Base(w) + p]

(* What no event of a part changes leaves the places in the stream. *)
LEMMA KeepsBase ==
    ASSUME NEW w, NEW w1, Keeps(w, w1)
    PROVE  /\ Base(w1) = Base(w) /\ w1.up.form = w.up.form /\ w1.view = w.view /\ w1.at = w.at
           /\ w1.up.mode = w.up.mode
BY DEF Keeps, Base

(* Keeping is transitive. *)
LEMMA KeepsOn ==
    ASSUME NEW w, NEW w0, NEW w1, Keeps(w, w0), Keeps(w0, w1)
    PROVE  Keeps(w, w1)
BY DEF Keeps

(* A put stays ready when the earlier values and the files are left alone. *)
LEMMA ReadyLeaves ==
    ASSUME NEW w, NEW i, Ready(w, i), NEW w1 \in Puts, Keeps(w, w1), Leaves(w, w1),
           \A j \in 1 .. i - 1 : w1.up.values[j] = w.up.values[j]
    PROVE  Ready(w1, i)
<1>1. w1.up.form = w.up.form /\ w1.view = w.view /\ w1.at = w.at
    BY DEF Keeps
<1>2. w1.up.wrote = w.up.wrote /\ w1.up.short = w.up.short /\ w1.files = w.files /\ w1.up.file = w.up.file
    BY DEF Leaves
<1>3. Earlier(w.up, w.files, i) /\ w.up.form \in AllForms /\ i \in 1 .. Len(w.up.form)
      /\ w.at - 1 <= Len(w.view) /\ OpenIsThere(w)
    BY DEF Ready
<1>4. Earlier(w1.up, w1.files, i)
    BY <1>1, <1>2, <1>3, EarlierStays
<1>5. OpenIsThere(w1)
    BY <1>2, <1>3 DEF OpenIsThere
<1> QED
    BY <1>1, <1>3, <1>4, <1>5 DEF Ready

(* Nothing is taken at the beginning. *)
LEMMA NothingTaken ==
    ASSUME NEW s, NEW a \in Int
    PROVE  Taken(<< >>, s, a, a)
BY EmptySeq DEF Taken

(* A part begins. *)
LEMMA Begins1 ==
    ASSUME NEW w, NEW i, Ready(w, i)
    PROVE  LET w1 == BeginPart(w)
           IN  /\ Ready(w1, i) /\ Keeps(w, w1) /\ Leaves(w, w1)
               /\ w1.error = w.error /\ Written(w1) = Base(w) + w.at
               /\ w1.up.is_writable /\ RightOn(w1)
               /\ w1.up.state = w.up.state /\ w1.up.name = w.up.name /\ w1.up.values = w.up.values
<1> DEFINE w1 == BeginPart(w)
<1>0. w \in Puts
    BY ReadyHas
<1>1. /\ w1 \in Puts /\ Keeps(w, w1) /\ Leaves(w, w1)
      /\ w1.error = w.error /\ w1.from = w.at + 1
      /\ w1.up.is_writable
      /\ w1.up.state = w.up.state /\ w1.up.name = w.up.name /\ w1.up.values = w.up.values
    BY <1>0, BeginPartIs
<1> HIDE DEF w1
<1>2. Ready(w1, i)
    BY <1>1, ReadyLeaves
<1>3. Base(w1) = Base(w) /\ w1.at = w.at
    BY <1>1, KeepsBase
<1>4. Base(w) \in Int /\ w.at \in Nat
    BY <1>0, BaseIs, PutHas
<1>5. Written(w1) = Base(w) + w.at
    BY <1>1, <1>3, <1>4 DEF Written
<1>6. w1.from <= w1.at + 1 /\ w1.from .. w1.at = {}
    BY <1>1, <1>3, <1>4
<1>7. RightOn(w1)
    BY <1>6 DEF RightOn
<1> QED
    BY <1>1, <1>2, <1>5, <1>7 DEF w1

(* The name of a part begins where it is sent. *)
LEMMA BeginName ==
    ASSUME NEW w, NEW i, Ready(w, i), AtStart(w.up, i), Base(w) + w.at = Before(w.up.form, i) + 1
    PROVE  LET w1 == PartEvent(w, "begin_name")
           IN  /\ Ready(w1, i) /\ Keeps(w, w1) /\ w1.error = w.error /\ RightOn(w1)
               /\ InName(w1.up, i, Written(w1))
<1> DEFINE w1 == BeginPart(w)
<1>0. PartEvent(w, "begin_name") = w1
    BY DEF PartEvent
<1>1. /\ Ready(w1, i) /\ Keeps(w, w1) /\ Leaves(w, w1)
      /\ w1.error = w.error /\ Written(w1) = Base(w) + w.at
      /\ w1.up.is_writable /\ RightOn(w1)
      /\ w1.up.state = w.up.state /\ w1.up.name = w.up.name /\ w1.up.values = w.up.values
    BY Begins1
<1> HIDE DEF w1
<1>2. w1.up.file = w.up.file /\ w1.up.form = w.up.form
    BY <1>1 DEF Leaves, Keeps
<1>3. /\ w.up.state = "name" /\ Len(w.up.values) = i - 1 /\ w.up.name = << >> /\ w.up.file = Absent
    BY DEF AtStart
<1>4. Before(w.up.form, i) + 1 \in Int
    BY ReadyHas
<1>5. Taken(w1.up.name, Sent[w1.up.form], Before(w1.up.form, i) + 1, Written(w1))
    BY <1>1, <1>2, <1>3, <1>4, NothingTaken
<1>6. InName(w1.up, i, Written(w1))
    BY <1>1, <1>2, <1>3, <1>5 DEF InName
<1> QED
    BY <1>0, <1>1, <1>6

(* The file name of a part begins where it is sent. *)
LEMMA BeginFilename ==
    ASSUME NEW w, NEW i, Ready(w, i), BehindName(w.up, i), IsFile(w.up.form[i]),
           Base(w) + w.at = Before(w.up.form, i) + 5
    PROVE  LET w1 == PartEvent(w, "begin_filename")
           IN  /\ Ready(w1, i) /\ Keeps(w, w1) /\ w1.error = w.error /\ RightOn(w1)
               /\ InFilename(w1.up, i, Written(w1))
<1> DEFINE v == Emplace(w, TRUE)
           v1 == [v EXCEPT !.up = [v.up EXCEPT !.state = "filename"]]
           w1 == BeginPart(v1)
<1>0. w \in Puts /\ i \in Nat /\ i > 0 /\ Before(w.up.form, i) + 5 \in Int
    BY ReadyHas
<1>1. /\ w.up.state = "content" /\ ~w.up.is_writable
      /\ Len(w.up.values) = i - 1 /\ w.up.file = Absent
      /\ w.up.name = <<w.up.form[i].name>>
    BY DEF BehindName
<1>2. /\ v \in Puts /\ Keeps(w, v) /\ Leaves(w, v)
      /\ v.error = w.error
      /\ v.up.name = << >>
      /\ Len(v.up.values) = Len(w.up.values) + 1
      /\ \A j \in 1 .. Len(w.up.values) : v.up.values[j] = w.up.values[j]
      /\ v.up.values[Len(w.up.values) + 1].name = w.up.name
      /\ v.up.values[Len(w.up.values) + 1].is_file = TRUE
      /\ v.up.values[Len(w.up.values) + 1].written = TRUE
      /\ v.up.values[Len(w.up.values) + 1].content = << >>
    BY <1>0, EmplaceIs
<1>3. PartEvent(w, "begin_filename") = w1
  <2>1. PartEvent(w, "begin_filename") = BeginPart([v EXCEPT !.up.state = "filename"])
    BY DEF PartEvent
  <2>2. [v EXCEPT !.up.state = "filename"] = v1
    OBVIOUS
  <2> QED
    BY <2>1, <2>2
<1> HIDE DEF v
<1>4. /\ v1 \in Puts /\ Keeps(v, v1) /\ Leaves(v, v1)
      /\ v1.error = v.error
      /\ v1.up.state = "filename"
      /\ v1.up.name = v.up.name /\ v1.up.values = v.up.values
    BY <1>2, SetState
<1> HIDE DEF v1
<1>5. Ready(v, i)
    BY <1>0, <1>1, <1>2, ReadyLeaves
<1>6. Ready(v1, i)
    BY <1>4, <1>5, ReadyLeaves
<1>7. /\ Ready(w1, i) /\ Keeps(v1, w1) /\ Leaves(v1, w1)
      /\ w1.error = v1.error /\ Written(w1) = Base(v1) + v1.at
      /\ w1.up.is_writable /\ RightOn(w1)
      /\ w1.up.state = v1.up.state /\ w1.up.name = v1.up.name /\ w1.up.values = v1.up.values
    BY <1>6, Begins1
<1> HIDE DEF w1
<1>8. Keeps(w, v1) /\ Keeps(w, w1)
    BY <1>2, <1>4, <1>7, KeepsOn
<1>9. Base(v1) = Base(w) /\ v1.at = w.at /\ w1.up.form = w.up.form
    BY <1>8, KeepsBase
<1>10. w1.up.file = Absent
    BY <1>1, <1>2, <1>4, <1>7 DEF Leaves
<1>11. Len(w1.up.values) = i
    BY <1>0, <1>1, <1>2, <1>4, <1>7
<1>12. /\ w1.up.values[i].name = w.up.name /\ w1.up.values[i].is_file = TRUE
       /\ w1.up.values[i].written /\ w1.up.values[i].content = << >>
  <2>1. Len(w.up.values) + 1 = i
    BY <1>0, <1>1
  <2> QED
    BY <2>1, <1>2, <1>4, <1>7
<1>13. Entered(w1.up, i)
    BY <1>1, <1>2, <1>4, <1>7, <1>9, <1>11, <1>12 DEF Entered
<1>14. Taken(w1.up.values[i].content, Sent[w1.up.form], Before(w1.up.form, i) + 5, Written(w1))
    BY <1>0, <1>7, <1>9, <1>12, NothingTaken
<1>15. InFilename(w1.up, i, Written(w1))
    BY <1>4, <1>7, <1>10, <1>12, <1>13, <1>14 DEF InFilename
<1>16. w1.error = w.error
    BY <1>2, <1>4, <1>7
<1> QED
    BY <1>3, <1>7, <1>8, <1>15, <1>16

(* The content of a part begins where it is sent. *)
LEMMA BeginBody ==
    ASSUME NEW w, NEW i, Ready(w, i),
           IF IsFile(w.up.form[i]) THEN BehindFilename(w.up, w.files, i) ELSE BehindName(w.up, i),
           Base(w) + w.at = Before(w.up.form, i) + BodyAt(w.up.form[i])
    PROVE  LET w1 == PartEvent(w, "begin_body")
           IN  /\ Ready(w1, i) /\ Keeps(w, w1) /\ w1.error = w.error /\ RightOn(w1)
               /\ IF IsFile(w.up.form[i]) THEN InFile(w1.up, w1.files, i, Written(w1))
                  ELSE InContent(w1.up, i, Written(w1))
<1> DEFINE w1 == PartEvent(w, "begin_body")
           a == Before(w.up.form, i) + BodyAt(w.up.form[i])
<1>0. w \in Puts /\ i \in Nat /\ i > 0 /\ a \in Int
    BY ReadyHas
<1>a. w1 = BeginPart(IF w.up.state = "content" THEN Emplace(w, FALSE) ELSE w)
    BY DEF PartEvent
<1> HIDE DEF w1
<1> SUFFICES /\ Ready(w1, i) /\ Keeps(w, w1) /\ w1.error = w.error /\ RightOn(w1)
             /\ IF IsFile(w.up.form[i]) THEN InFile(w1.up, w1.files, i, Written(w1))
                ELSE InContent(w1.up, i, Written(w1))
    BY DEF w1
<1>1. CASE IsFile(w.up.form[i])
  <2> DEFINE f == w.up.form[i].file
  <2>1. /\ w.up.state = "file" /\ ~w.up.is_writable
        /\ Entered(w.up, i) /\ w.up.values[i].content = f
        /\ ~w.up.values[i].written => w.up.file = Absent
        /\ w.up.values[i].written =>
              w.up.file = f /\ f \in w.up.wrote /\ w.up.offset = 0 /\ w.files[f] = << >>
    BY <1>1 DEF BehindFilename
  <2>2. w1 = BeginPart(w)
    BY <1>a, <2>1
  <2>3. /\ Ready(w1, i) /\ Keeps(w, w1) /\ Leaves(w, w1)
        /\ w1.error = w.error /\ Written(w1) = Base(w) + w.at
        /\ w1.up.is_writable /\ RightOn(w1)
        /\ w1.up.state = w.up.state /\ w1.up.name = w.up.name /\ w1.up.values = w.up.values
    BY <2>2, Begins1
  <2>4. /\ w1.up.form = w.up.form /\ w1.up.file = w.up.file /\ w1.up.wrote = w.up.wrote
        /\ w1.up.offset = w.up.offset /\ w1.files = w.files
    BY <2>3 DEF Keeps, Leaves
  <2>5. Entered(w1.up, i)
    BY <2>1, <2>3, <2>4 DEF Entered
  <2>6. Taken(<< >>, Sent[w1.up.form], a, Written(w1)) /\ Len(<< >>) = 0
    BY <1>0, <2>3, NothingTaken, EmptySeq
  <2>7. InFile(w1.up, w1.files, i, Written(w1))
    BY <2>1, <2>3, <2>4, <2>5, <2>6 DEF InFile
  <2> QED
    BY <1>1, <2>3, <2>7
<1>2. CASE ~IsFile(w.up.form[i])
  <2> DEFINE v == Emplace(w, FALSE)
  <2>1. /\ w.up.state = "content" /\ ~w.up.is_writable
        /\ Len(w.up.values) = i - 1 /\ w.up.file = Absent
        /\ w.up.name = <<w.up.form[i].name>>
    BY <1>2 DEF BehindName
  <2>2. /\ v \in Puts /\ Keeps(w, v) /\ Leaves(w, v)
        /\ v.error = w.error
        /\ v.up.name = << >> /\ v.up.state = w.up.state
        /\ Len(v.up.values) = Len(w.up.values) + 1
        /\ \A j \in 1 .. Len(w.up.values) : v.up.values[j] = w.up.values[j]
        /\ v.up.values[Len(w.up.values) + 1].name = w.up.name
        /\ v.up.values[Len(w.up.values) + 1].is_file = FALSE
        /\ v.up.values[Len(w.up.values) + 1].content = << >>
    BY <1>0, EmplaceIs
  <2>3. w1 = BeginPart(v)
    BY <1>a, <2>1
  <2> HIDE DEF v
  <2>4. Ready(v, i)
    BY <1>0, <2>1, <2>2, ReadyLeaves
  <2>5. /\ Ready(w1, i) /\ Keeps(v, w1) /\ Leaves(v, w1)
        /\ w1.error = v.error /\ Written(w1) = Base(v) + v.at
        /\ w1.up.is_writable /\ RightOn(w1)
        /\ w1.up.state = v.up.state /\ w1.up.name = v.up.name /\ w1.up.values = v.up.values
    BY <2>3, <2>4, Begins1
  <2>6. Keeps(w, w1) /\ w1.error = w.error
    BY <2>2, <2>5, KeepsOn
  <2>7. Base(v) = Base(w) /\ v.at = w.at /\ w1.up.form = w.up.form
    BY <2>2, <2>6, KeepsBase
  <2>8. w1.up.file = Absent
    BY <2>1, <2>2, <2>5 DEF Leaves
  <2>9. Len(w1.up.values) = i
    BY <1>0, <2>1, <2>2, <2>5
  <2>10. /\ w1.up.values[i].name = w.up.name /\ w1.up.values[i].is_file = FALSE
         /\ w1.up.values[i].content = << >>
    <3>1. Len(w.up.values) + 1 = i
        BY <1>0, <2>1
    <3> QED
        BY <3>1, <2>2, <2>5
  <2>e. IsFile(w.up.form[i]) = FALSE
    BY <1>2 DEF IsFile
  <2>f. w1.up.values[i].name = <<w1.up.form[i].name>> /\ w1.up.name = << >>
    BY <2>1, <2>2, <2>5, <2>7, <2>10
  <2>11. Entered(w1.up, i)
    BY <2>e, <2>f, <2>7, <2>9, <2>10 DEF Entered
  <2>12. Taken(w1.up.values[i].content, Sent[w1.up.form], a, Written(w1))
    BY <1>0, <2>5, <2>7, <2>10, NothingTaken
  <2>13. InContent(w1.up, i, Written(w1))
    BY <2>1, <2>2, <2>5, <2>7, <2>8, <2>11, <2>12 DEF InContent
  <2> QED
    BY <1>2, <2>5, <2>6, <2>13
<1> QED
    BY <1>1, <1>2

(* What is sent of a part, where it is in what is sent. *)
LEMMA PartIsSent ==
    ASSUME NEW form \in AllForms, NEW i \in 1 .. Len(form)
    PROVE  /\ Before(form, i) \in Nat /\ Len(EncodedPart(form[i])) \in Nat
           /\ Behind(form, i) = Before(form, i) + Len(EncodedPart(form[i]))
           /\ \A k \in 1 .. Len(EncodedPart(form[i])) :
                 Sent[form][Before(form, i) + k] = EncodedPart(form[i])[k]
BY Layout DEF LaidOut, Behind

(* The number of bytes of a part before its content. *)
LEMMA BodyAtIs ==
    ASSUME NEW part \in Parts
    PROVE  /\ BodyAt(part) \in Nat /\ BodyAt(part) >= 7
           /\ IsFile(part) => BodyAt(part) = 14 + Len(part.file)
           /\ ~IsFile(part) => BodyAt(part) = 7
           /\ Len(part.file) \in Nat /\ Len(part.content) \in Nat
<1>1. Len(part.file) \in Nat /\ Len(part.content) \in Nat
    BY PartFacts
<1>2. CASE IsFile(part)
    BY <1>1, <1>2 DEF BodyAt
<1>3. CASE ~IsFile(part)
    BY <1>1, <1>3 DEF BodyAt
<1> QED
    BY <1>2, <1>3

(* The name of a part ends. *)
LEMMA EndName ==
    ASSUME NEW w, NEW i, Ready(w, i), Right(w), InName(w.up, i, Written(w)),
           Base(w) + w.at = Before(w.up.form, i) + 3
    PROVE  LET w1 == PartEvent(w, "end_name")
           IN  /\ Ready(w1, i) /\ Keeps(w, w1) /\ w1.error = w.error
               /\ BehindName(w1.up, i)
<1> DEFINE v == WritePart(w)
           v1 == EndPart(w)
           w1 == PartEvent(w, "end_name")
           part == w.up.form[i]
           a == Before(w.up.form, i)
<1>0. w \in Puts /\ i \in Nat /\ i > 0 /\ a \in Int /\ part \in Parts
      /\ w.up.form \in AllForms /\ i \in 1 .. Len(w.up.form)
    BY ReadyHas
<1>1. /\ Ready(v, i) /\ v.error = w.error /\ v.from = w.at /\ Keeps(w, v)
      /\ InName(v.up, i, Base(w) + w.at - 1)
    BY NameWritten
<1>2. v \in Puts
    BY <1>1, ReadyHas
<1>3. /\ v1 \in Puts /\ Keeps(v, v1) /\ Leaves(v, v1)
      /\ v1.error = v.error /\ ~v1.up.is_writable
      /\ v1.up.name = v.up.name /\ v1.up.values = v.up.values
    BY <1>0, <1>2, EndPartIs
<1>4. /\ w1 \in Puts /\ Keeps(v1, w1) /\ Leaves(v1, w1)
      /\ w1.error = v1.error
      /\ w1.up.state = "content" /\ w1.up.is_writable = v1.up.is_writable
      /\ w1.up.name = v1.up.name /\ w1.up.values = v1.up.values
    BY <1>0, <1>3, EndNameIs
<1> HIDE DEF v, v1, w1
<1>5. Ready(v1, i)
    BY <1>1, <1>3, ReadyLeaves
<1>6. Ready(w1, i)
    BY <1>4, <1>5, ReadyLeaves
<1>7. Keeps(w, w1)
    BY <1>1, <1>3, <1>4, KeepsOn
<1>8. w1.up.form = w.up.form /\ v.up.form = w.up.form
    BY <1>1, <1>7 DEF Keeps
<1>9. /\ Len(v.up.values) = i - 1 /\ v.up.file = Absent
      /\ Taken(v.up.name, Sent[w.up.form], a + 1, Base(w) + w.at - 1)
    BY <1>1, <1>8 DEF InName
<1>10. w1.up.file = Absent
    BY <1>3, <1>4, <1>9 DEF Leaves
<1>11. v.up.name = <<part.name>>
  <2>1. v.up.name \in Seq(Bytes) /\ part.name \in Bytes
    BY <1>0, <1>1, ReadyHas, PartFacts
  <2> DEFINE q == Base(w) + w.at - 1
             a1 == a + 1
  <2>2. q - a1 = 1 /\ a1 + 1 = a + 2
    <3>1. Base(w) \in Int /\ w.at \in Nat /\ Base(w) + w.at = a + 3 /\ a \in Int
        BY <1>0, BaseIs, PutHas
    <3> HIDE DEF a
    <3> QED
        BY <3>1
  <2>a. Taken(v.up.name, Sent[w.up.form], a1, q)
    BY <1>9
  <2>3. Len(v.up.name) = 1 /\ v.up.name[1] = Sent[w.up.form][a + 2]
    <3> HIDE DEF q, a1, a
    <3> QED
        BY <2>a, <2>2 DEF Taken
  <2>4. Sent[w.up.form][a + 2] = part.name
    <3>1. EncodedPart(part)[2] = part.name /\ Len(EncodedPart(part)) = BodyAt(part) + Len(part.content)
        BY <1>0, PartIs
    <3>2. 2 \in 1 .. Len(EncodedPart(part))
        <4>1. BodyAt(part) \in Nat /\ BodyAt(part) >= 7 /\ Len(part.content) \in Nat
            BY <1>0, BodyAtIs, Zenon
        <4> DEFINE m == Len(EncodedPart(part))
                   body == BodyAt(part)
                   len == Len(part.content)
        <4>2. body \in Nat /\ body >= 7 /\ len \in Nat /\ m = body + len
            BY <3>1, <4>1, Zenon
        <4> HIDE DEF m, body, len
        <4>3. 2 \in 1 .. m
            BY <4>2
        <4> QED
            BY <4>3 DEF m
    <3> QED
        BY <1>0, <3>1, <3>2, PartIsSent
  <2>5. Len(<<part.name>>) = 1 /\ <<part.name>>[1] = part.name /\ <<part.name>> \in Seq(Bytes)
    BY <2>1
  <2> HIDE DEF part, a
  <2>6. \A j \in 1 .. Len(v.up.name) : v.up.name[j] = <<part.name>>[j]
    BY <2>3, <2>4, <2>5
  <2> QED
    BY <2>1, <2>3, <2>5, <2>6, SeqEqual
<1>12. BehindName(w1.up, i)
    BY <1>3, <1>4, <1>8, <1>9, <1>10, <1>11 DEF BehindName
<1>13. w1.error = w.error
    BY <1>1, <1>3, <1>4
<1> QED
    BY <1>6, <1>7, <1>12, <1>13 DEF w1

(* The files of the parts before are others. *)
LEMMA EarlierFiles ==
    ASSUME NEW up, NEW up1, NEW fs, NEW fs1, NEW i, Earlier(up, fs, i),
           up.form \in AllForms, i \in 1 .. Len(up.form),
           up1.form = up.form,
           \A j \in 1 .. i - 1 : up1.values[j] = up.values[j],
           up.wrote \subseteq up1.wrote, up.short => up1.short,
           \A g \in FileNames : g # up.form[i].file => fs1[g] = fs[g]
    PROVE  Earlier(up1, fs1, i)
<1>1. \A j \in 1 .. i - 1 : IsFile(up.form[j]) => fs1[up.form[j].file] = fs[up.form[j].file]
    BY OtherFiles
<1> QED
    BY <1>1, EarlierStays

(* The name of a file ends: it is made, or emptied, or not written at all. *)
LEMMA EndFilename1 ==
    ASSUME NEW w, NEW i, Ready(w, i), Right(w), InFilename(w.up, i, Written(w)),
           IsFile(w.up.form[i]), dir \/ w.up.mode = "ignore",
           w.works.opens = FileNames \/ ~PartEvent(w, "end_filename").error,
           Base(w) + w.at = Before(w.up.form, i) + 6 + Len(w.up.form[i].file)
    PROVE  LET w1 == PartEvent(w, "end_filename")
           IN  /\ Ready(w1, i) /\ Keeps(w, w1) /\ w1.error = w.error
               /\ BehindFilename(w1.up, w1.files, i)
<1> DEFINE v == WritePart(w)
           v1 == EndPart(w)
           f == w.up.form[i].file
           v2 == Open(v1, f)
           w1 == PartEvent(w, "end_filename")
           part == w.up.form[i]
           a == Before(w.up.form, i)
<1>0. w \in Puts /\ i \in Nat /\ i > 0 /\ a \in Int /\ part \in Parts
      /\ w.up.form \in AllForms /\ i \in 1 .. Len(w.up.form)
    BY ReadyHas
<1>f. f \in FileNames /\ f # Absent /\ f \in Seq(Bytes) /\ Len(f) \in Nat
    BY <1>0, PartFacts, NotAbsent
<1>1. /\ Ready(v, i) /\ v.error = w.error /\ v.from = w.at /\ Keeps(w, v)
      /\ InFilename(v.up, i, Base(w) + w.at - 1)
    BY FilenameWritten
<1>2. v \in Puts
    BY <1>1, ReadyHas
<1>3. /\ v1 \in Puts /\ Keeps(v, v1) /\ Leaves(v, v1)
      /\ v1.error = v.error /\ ~v1.up.is_writable
      /\ v1.up.name = v.up.name /\ v1.up.values = v.up.values
    BY <1>0, <1>2, EndPartIs
<1>4. w1 = [Open(v1, Content(v1)) EXCEPT !.up.state = "file"]
    BY DEF PartEvent, EndFilename
<1> HIDE DEF v, v1, w1
<1>5. Ready(v1, i)
    BY <1>1, <1>3, ReadyLeaves
<1>6. v.up.form = w.up.form /\ v1.up.form = w.up.form /\ v1.up.mode = w.up.mode /\ Keeps(w, v1)
    BY <1>1, <1>3, KeepsOn DEF Keeps
<1>c. v1.works.opens = FileNames \/ ~w1.error
    BY <1>6 DEF Keeps, w1
<1>7. /\ Entered(v.up, i) /\ v.up.values[i].written /\ v.up.file = Absent
      /\ Taken(v.up.values[i].content, Sent[w.up.form], a + 5, Base(w) + w.at - 1)
    BY <1>1, <1>6 DEF InFilename
<1>8. Entered(v1.up, i) /\ v1.up.values[i].written /\ v1.up.file = Absent /\ Len(v1.up.values) = i
    BY <1>3, <1>6, <1>7 DEF Entered, Leaves
<1>9. v.up.values[i].content = f
  <2>1. v.up.values[i].content \in Seq(Bytes)
    BY <1>1, <1>7, EntryIs DEF Entered
  <2> DEFINE q == Base(w) + w.at - 1
             a1 == a + 5
             n == Len(f)
             seq == v.up.values[i].content
  <2>2. q - a1 = n
    <3>1. Base(w) \in Int /\ w.at \in Nat /\ Base(w) + w.at = a + 6 + n /\ a \in Int /\ n \in Nat
        <4>1. Base(w) \in Int /\ w.at \in Nat
            BY <1>0, BaseIs, PutHas, Zenon
        <4> QED
            BY <1>0, <1>f, <4>1
    <3> DEFINE b == Base(w)
               x == w.at
    <3>2. b \in Int /\ x \in Int /\ b + x = a + 6 + n /\ a \in Int /\ n \in Int
        BY <3>1
    <3>3. (b + x - 1) - (a + 5) = n
        <4> HIDE DEF a, n, b, x
        <4> QED
            BY <3>2
    <3> QED
        BY <3>3, Zenon
  <2>a. Taken(seq, Sent[w.up.form], a1, q)
    BY <1>7
  <2>3. Len(v.up.values[i].content) = Len(f)
        /\ \A j \in 1 .. Len(f) : v.up.values[i].content[j] = Sent[w.up.form][a + 5 + j]
    <3> HIDE DEF q, a1, seq, n
    <3>1. Len(seq) = n /\ \A j \in 1 .. n : seq[j] = Sent[w.up.form][a1 + j]
        BY <2>a, <2>2 DEF Taken
    <3> QED
        BY <3>1 DEF seq, n, a1
  <2>4. ASSUME NEW j \in 1 .. Len(f) PROVE Sent[w.up.form][a + 5 + j] = f[j]
    <3>1. EncodedPart(part)[5 + j] = f[j] /\ Len(EncodedPart(part)) = BodyAt(part) + Len(part.content)
        BY <1>0, PartIs
    <3>2. BodyAt(part) = 14 + Len(f) /\ Len(part.content) \in Nat
        BY <1>0, PartFacts DEF BodyAt
    <3> DEFINE m == Len(EncodedPart(part))
               c == Len(part.content)
    <3>3. m = 14 + n + c /\ c \in Nat /\ n \in Nat /\ j \in 1 .. n
        BY <3>1, <3>2, <1>f
    <3>4. 5 + j \in 1 .. m
        <4> HIDE DEF m, n, c
        <4> QED
            BY <3>3
    <3>5. Sent[w.up.form][a + (5 + j)] = EncodedPart(part)[5 + j]
        BY <1>0, <3>4, PartIsSent
    <3>6. a + (5 + j) = a + 5 + j
        <4> HIDE DEF a, f
        <4> QED
            BY <1>0, <1>f
    <3> QED
        BY <3>1, <3>5, <3>6
  <2> HIDE DEF f, a, part
  <2> QED
    BY <2>1, <2>3, <2>4, <1>f, SeqEqual
<1>10. Content(v1) = f
    BY <1>3, <1>8, <1>9 DEF Content
<1>11. w1 = [v2 EXCEPT !.up = [v2.up EXCEPT !.state = "file"]]
    BY <1>4, <1>10
<1>a. /\ v2 \in Puts /\ Keeps(v1, v2) /\ v2.from = v1.from
      /\ v2.up.state = v1.up.state /\ v2.up.is_writable = v1.up.is_writable
      /\ v2.up.name = v1.up.name /\ SameBut(v1.up.values, v2.up.values)
      /\ Len(v1.up.values) > 0 =>
            v2.up.values[Len(v1.up.values)].content = v1.up.values[Len(v1.up.values)].content
      /\ v2.up.short = v1.up.short
      /\ \/ /\ v2.up.file = v1.up.file /\ v2.up.wrote = v1.up.wrote
            /\ v2.files = v1.files /\ v2.opened = v1.opened
            /\ v2.error = v1.error
            /\ Len(v1.up.values) > 0 => v2.up.values[Len(v1.up.values)].written = FALSE
         \/ /\ v1.up.mode # "ignore" /\ (dir => f \notin v1.works.opens)
            /\ v2.up = v1.up /\ v2.files = v1.files /\ v2.opened = v1.opened
            /\ v2.error = TRUE
         \/ /\ dir /\ v2.error = v1.error /\ ~Refused(v1, f)
            /\ v2.up.values = v1.up.values
            /\ v2.up.file = f /\ v2.up.offset = 0
            /\ v2.up.wrote = v1.up.wrote \cup {f} /\ v2.opened = v1.opened \cup {f}
            /\ \A g \in FileNames \ {f} : v2.files[g] = v1.files[g]
            /\ f \in FileNames => v2.files[f] = << >>
    BY <1>3, <1>f, OpenIs
<1> HIDE DEF v2
<1>12. /\ v2 \in Puts /\ Keeps(v1, v2)
       /\ v2.up.is_writable = v1.up.is_writable
       /\ v2.up.name = v1.up.name /\ SameBut(v1.up.values, v2.up.values)
       /\ v2.up.values[i].content = v1.up.values[i].content
       /\ v2.up.short = v1.up.short
       /\ \/ /\ v2.up.file = v1.up.file /\ v2.up.wrote = v1.up.wrote
             /\ v2.files = v1.files /\ v2.error = v1.error
             /\ v2.up.values[i].written = FALSE
          \/ v1.up.mode # "ignore" /\ v2.error /\ (dir => f \notin v1.works.opens)
          \/ /\ v2.error = v1.error
             /\ v2.up.values = v1.up.values
             /\ v2.up.file = f /\ v2.up.offset = 0
             /\ v2.up.wrote = v1.up.wrote \cup {f}
             /\ \A g \in FileNames \ {f} : v2.files[g] = v1.files[g]
             /\ v2.files[f] = << >>
    BY <1>0, <1>f, <1>8, <1>a
<1>13. /\ w1 \in Puts /\ Keeps(v2, w1) /\ Leaves(v2, w1)
       /\ w1.error = v2.error
       /\ w1.up.state = "file" /\ w1.up.is_writable = v2.up.is_writable
       /\ w1.up.name = v2.up.name /\ w1.up.values = v2.up.values
    BY <1>11, <1>12, SetState
<1>14. Keeps(w, w1) /\ Keeps(w, v2)
    BY <1>6, <1>12, <1>13, KeepsOn
<1>15. /\ w1.up.form = w.up.form /\ w1.at = v1.at /\ w1.view = v1.view
       /\ v2.up.form = w.up.form
    BY <1>12, <1>13, <1>14 DEF Keeps
<1>16. /\ w1.up.file = v2.up.file /\ w1.up.offset = v2.up.offset /\ w1.files = v2.files
       /\ w1.up.wrote = v2.up.wrote /\ w1.up.short = v2.up.short
    BY <1>13 DEF Leaves
<1>17. \/ /\ v2.up.file = v1.up.file /\ v2.up.wrote = v1.up.wrote
          /\ v2.files = v1.files /\ v2.error = v1.error
          /\ v2.up.values[i].written = FALSE
       \/ /\ v2.error = v1.error
          /\ v2.up.values = v1.up.values
          /\ v2.up.file = f /\ v2.up.offset = 0
          /\ v2.up.wrote = v1.up.wrote \cup {f}
          /\ \A g \in FileNames \ {f} : v2.files[g] = v1.files[g]
          /\ v2.files[f] = << >>
    BY <1>f, <1>6, <1>c, <1>12, <1>13
<1>18. w1.error = w.error /\ v1.up.wrote \subseteq w1.up.wrote
       /\ \A g \in FileNames : g # f => w1.files[g] = v1.files[g]
    BY <1>1, <1>3, <1>13, <1>16, <1>17
<1>19. \A j \in 1 .. i - 1 : w1.up.values[j] = v1.up.values[j]
    BY <1>0, <1>8, <1>12, <1>13 DEF SameBut
<1>20. Earlier(v1.up, v1.files, i) /\ v1.at - 1 <= Len(v1.view)
    BY <1>5 DEF Ready
<1>b. /\ v1.up.form \in AllForms /\ i \in 1 .. Len(v1.up.form) /\ w1.up.form = v1.up.form
      /\ v1.up.short => w1.up.short
      /\ \A g \in FileNames : g # v1.up.form[i].file => w1.files[g] = v1.files[g]
    BY <1>0, <1>6, <1>12, <1>15, <1>16, <1>18
<1>21. Earlier(w1.up, w1.files, i)
    BY <1>b, <1>18, <1>19, <1>20, EarlierFiles
<1>22. OpenIsThere(w1)
  <2>1. w1.up.file = Absent \/ (w1.up.file = f /\ w1.files[f] = << >>)
    BY <1>8, <1>16, <1>17
  <2> QED
    BY <2>1, NotAbsent DEF OpenIsThere
<1>23. Ready(w1, i)
    BY <1>0, <1>13, <1>15, <1>20, <1>21, <1>22 DEF Ready
<1>24. Entered(w1.up, i)
  <2>1. Entered(v2.up, i)
    BY <1>0, <1>6, <1>8, <1>12, <1>15, EnteredStays
  <2> QED
    BY <2>1, <1>13, <1>15 DEF Entered
<1>25. w1.up.state = "file" /\ ~w1.up.is_writable /\ w1.up.values[i].content = f
    BY <1>3, <1>9, <1>12, <1>13
<1>26. /\ ~w1.up.values[i].written => w1.up.file = Absent
       /\ w1.up.values[i].written =>
             w1.up.file = f /\ f \in w1.up.wrote /\ w1.up.offset = 0 /\ w1.files[f] = << >>
    BY <1>8, <1>13, <1>16, <1>17
<1>27. BehindFilename(w1.up, w1.files, i)
    BY <1>15, <1>24, <1>25, <1>26 DEF BehindFilename
<1> QED
    BY <1>14, <1>18, <1>23, <1>27 DEF w1

(* What has been taken of a content is the content. *)
LEMMA ContentIs ==
    ASSUME NEW form \in AllForms, NEW i \in 1 .. Len(form), NEW S, Bytes \subseteq S, NEW seq \in Seq(S),
           Taken(seq, Sent[form], Before(form, i) + BodyAt(form[i]), Behind(form, i))
    PROVE  seq = form[i].content
<1> DEFINE part == form[i]
           a == Before(form, i)
           b == BodyAt(part)
           c == part.content
           m == Len(EncodedPart(part))
           n == Len(c)
           s == Sent[form]
           ab == a + b
           q == Behind(form, i)
<1>0. part \in Parts
    BY FormFacts
<1>1. b \in Nat /\ n \in Nat /\ c \in Seq(S)
    BY <1>0, PartFacts, SeqMonotonic
<1>2. m = b + n /\ \A j \in 1 .. n : EncodedPart(part)[b + j] = c[j]
    BY <1>0, PartIs
<1>3. a \in Nat /\ q = a + m /\ \A k \in 1 .. m : s[a + k] = EncodedPart(part)[k]
    BY PartIsSent
<1>4. Taken(seq, s, ab, q)
    OBVIOUS
<1>5. ab = a + b
    OBVIOUS
<1> HIDE DEF part, a, b, m, n, s, ab, q
<1>6. q - ab = n
    BY <1>1, <1>2, <1>3, <1>5
<1>7. Len(seq) = n /\ \A j \in 1 .. n : seq[j] = s[ab + j]
    BY <1>4, <1>6 DEF Taken
<1>8. ASSUME NEW j \in 1 .. n PROVE seq[j] = c[j]
  <2>1. b + j \in 1 .. m /\ a + (b + j) = ab + j
    BY <1>1, <1>2, <1>3, <1>5
  <2> QED
    BY <1>2, <1>3, <1>7, <2>1
<1>9. Len(seq) = Len(c)
    BY <1>7 DEF n
<1>10. \A j \in 1 .. Len(seq) : seq[j] = c[j]
    BY <1>7, <1>8
<1>11. seq = c
  <2> HIDE DEF c
  <2> QED
    BY <1>1, <1>9, <1>10, SeqEqual
<1> QED
    BY <1>11 DEF c, part

(* A part ends: it has been taken. *)
LEMMA BodyEnds ==
    ASSUME NEW w, NEW i, Ready(w, i), Right(w),
           IF IsFile(w.up.form[i]) THEN InFile(w.up, w.files, i, Written(w))
           ELSE InContent(w.up, i, Written(w)),
           Base(w) + w.at - 1 = Behind(w.up.form, i),
           w.works.closes \/ ~PartEvent(w, "end_body").error
    PROVE  LET w1 == PartEvent(w, "end_body")
           IN  /\ w1 \in Puts /\ Keeps(w, w1) /\ w1.error = w.error /\ OpenIsThere(w1)
               /\ Earlier(w1.up, w1.files, i + 1) /\ AtStart(w1.up, i + 1)
<1> DEFINE v == WritePart(w)
           v1 == EndPart(w)
           f == w.up.form[i].file
           w1 == PartEvent(w, "end_body")
           part == w.up.form[i]
           q == Base(w) + w.at - 1
<1>0. w \in Puts /\ i \in Nat /\ i > 0 /\ part \in Parts
      /\ w.up.form \in AllForms /\ i \in 1 .. Len(w.up.form)
    BY ReadyHas
<1>1. /\ Ready(v, i) /\ v.error = w.error /\ v.from = w.at /\ Keeps(w, v)
      /\ IF IsFile(part) THEN InFile(v.up, v.files, i, q) ELSE InContent(v.up, i, q)
  <2>1. CASE IsFile(part)
    BY <2>1, FileWritten
  <2>2. CASE ~IsFile(part)
    BY <2>2, ContentWritten
  <2> QED
    BY <2>1, <2>2
<1>2. v \in Puts
    BY <1>1, ReadyHas
<1>3. /\ v1 \in Puts /\ Keeps(v, v1) /\ Leaves(v, v1)
      /\ v1.error = v.error /\ ~v1.up.is_writable
      /\ v1.up.name = v.up.name /\ v1.up.values = v.up.values
    BY <1>0, <1>2, EndPartIs
<1>4. /\ w1 \in Puts /\ Keeps(v1, w1)
      /\ v1.error => w1.error
      /\ w1.error => v1.error \/ ~w.works.closes
      /\ w1.up.state = "name" /\ w1.up.is_writable = v1.up.is_writable
      /\ w1.up.name = v1.up.name /\ w1.up.values = v1.up.values
      /\ w1.up.file = Absent /\ w1.up.short = v1.up.short
      /\ w1.up.wrote = v1.up.wrote /\ w1.files = v1.files
    BY <1>0, <1>3, EndBodyIs
<1>q. q = Behind(w.up.form, i)
    OBVIOUS
<1>c. w.works.closes \/ ~w1.error
    OBVIOUS
<1> HIDE DEF v, v1, w1, q
<1>5. Keeps(w, w1)
    BY <1>1, <1>3, <1>4, KeepsOn
<1>d. v1.error = w1.error
  <2>1. w1.error \in BOOLEAN /\ v1.error \in BOOLEAN
    BY <1>3, <1>4, PutHas
  <2> QED
    BY <1>4, <1>c, <2>1
<1>6. w1.up.form = w.up.form /\ v.up.form = w.up.form /\ v1.up.form = w.up.form
    BY <1>1, <1>3, <1>5 DEF Keeps
<1>7. w1.up.values = v.up.values /\ w1.up.wrote = v.up.wrote /\ w1.up.short = v.up.short
      /\ w1.files = v.files
    BY <1>3, <1>4 DEF Leaves
<1>8. Entered(v.up, i)
    BY <1>1 DEF InFile, InContent
<1>9. /\ Len(v.up.values) = i /\ v.up.name = << >>
      /\ v.up.values[i].name = <<part.name>>
      /\ v.up.values[i].is_file = IsFile(part)
    BY <1>6, <1>8 DEF Entered
<1>10. Kept1(v.up, v.files, v.up.values[i], part)
  <2>1. CASE IsFile(part)
    <3>1. /\ v.up.values[i].content = f
          /\ v.up.values[i].written =>
                /\ v.up.file = f /\ f \in v.up.wrote
                /\ ~v.up.short => Taken(v.files[f], Sent[w.up.form], Before(w.up.form, i) + BodyAt(part), q)
        BY <1>1, <1>6, <2>1 DEF InFile
    <3>2. ASSUME v.up.values[i].written, ~v.up.short PROVE v.files[f] = part.content
      <4>1. f \in FileNames /\ v.up.file = f
          BY <1>0, <2>1, <3>1, <3>2, PartFacts
      <4>2. v.files[f] # Absent
          BY <1>1, <4>1, ReadyHas DEF OpenIsThere
      <4>3. v.files[f] \in Seq(Data)
          BY <1>2, <4>1, <4>2, PutHas
      <4>4. Taken(v.files[f], Sent[w.up.form], Before(w.up.form, i) + BodyAt(part), Behind(w.up.form, i))
          BY <1>q, <3>1, <3>2
      <4> QED
          BY <1>0, <4>3, <4>4, DataAre, ContentIs
    <3> QED
        BY <1>9, <2>1, <3>1, <3>2 DEF Kept1
  <2>2. CASE ~IsFile(part)
    <3>1. Taken(v.up.values[i].content, Sent[w.up.form], Before(w.up.form, i) + BodyAt(part), Behind(w.up.form, i))
        BY <1>1, <1>6, <1>q, <2>2 DEF InContent
    <3>2. v.up.values[i].content \in Seq(Bytes)
        BY <1>1, <1>9, EntryIs
    <3>3. v.up.values[i].content = part.content
        BY <1>0, <3>1, <3>2, ContentIs
    <3> QED
        BY <1>9, <2>2, <3>3 DEF Kept1
  <2> QED
    BY <2>1, <2>2
<1>11. Earlier(v.up, v.files, i)
    BY <1>1, <1>6 DEF Ready
<1>12. Earlier(w1.up, w1.files, i + 1)
  <2> SUFFICES ASSUME NEW j \in 1 .. i
               PROVE  Kept1(w1.up, w1.files, w1.up.values[j], w1.up.form[j])
    BY <1>0 DEF Earlier
  <2>1. Kept1(v.up, v.files, v.up.values[j], w.up.form[j])
    <3>1. CASE j = i
        BY <1>10, <3>1
    <3>2. CASE j # i
      <4>1. j \in 1 .. i - 1
          BY <1>0, <3>2
      <4> QED
          BY <1>6, <1>11, <4>1 DEF Earlier
    <3> QED
        BY <3>1, <3>2
  <2> QED
    BY <2>1, <1>6, <1>7 DEF Kept1
<1>13. AtStart(w1.up, i + 1)
  <2>1. ~w1.up.is_writable /\ w1.up.name = << >> /\ Len(w1.up.values) = i
    BY <1>3, <1>4, <1>9
  <2>2. w1.up.state = "name" /\ w1.up.file = Absent
    BY <1>4
  <2> QED
    BY <1>0, <2>1, <2>2 DEF AtStart
<1>14. OpenIsThere(w1)
    BY <1>4, NotAbsent DEF OpenIsThere
<1>15. w1.error = w.error
    BY <1>1, <1>3, <1>d
<1> QED
    BY <1>4, <1>5, <1>12, <1>13, <1>14, <1>15 DEF w1

(* A byte that is looked at, and means nothing yet. *)
LEMMA RightGoesOn ==
    ASSUME NEW w, w \in Puts, Right(w), w.view[w.at] = Sent[w.up.form][Base(w) + w.at]
    PROVE  RightOn(w)
<1>1. w.from \in Nat /\ w.at \in Nat /\ w.from <= w.at
    BY PutHas DEF Right
<1>2. ASSUME NEW p \in w.from .. w.at PROVE w.view[p] = Sent[w.up.form][Base(w) + p]
  <2>1. p \in w.from .. w.at - 1 \/ p = w.at
    BY <1>1
  <2> QED
    BY <2>1 DEF Right
<1> QED
    BY <1>1, <1>2 DEF RightOn

(* What is written when the phase is that of l bytes. *)
LEMMA WhileWritten ==
    ASSUME NEW up, NEW fs, NEW i, NEW l, NEW q, Current(up, fs, i, l, q), ~up.is_writable, NEW q1
    PROVE  Current(up, fs, i, l, q1)
BY DEF Current, InName, InFilename, InFile, InContent

(* One byte of a part further. *)
LEMMA CurrentStep ==
    ASSUME NEW w, NEW i, Ready(w, i), NEW l \in Nat, l < Len(EncodedPart(w.up.form[i])),
           Current(w.up, w.files, i, l, Written(w)),
           w.up.is_writable => Right(w),
           Base(w) + w.at = Before(w.up.form, i) + l + 1,
           w.view[w.at] = Sent[w.up.form][Base(w) + w.at],
           dir \/ w.up.mode = "ignore",
           w.works.opens = FileNames \/ ~PartEvent(w, EventAt(w.up.form[i], l + 1)).error
    PROVE  LET w1 == PartEvent(w, EventAt(w.up.form[i], l + 1))
           IN  /\ Ready(w1, i) /\ Keeps(w, w1) /\ w1.error = w.error
               /\ Current(w1.up, w1.files, i, l + 1, Written(w1))
               /\ w1.up.is_writable => RightOn(w1)
<1> DEFINE part == w.up.form[i]
           n == Len(part.file)
           b == BodyAt(part)
           a == Before(w.up.form, i)
           e == EventAt(part, l + 1)
           w1 == PartEvent(w, e)
           Fine(x) == /\ Ready(x, i) /\ Keeps(w, x) /\ x.error = w.error
                      /\ Current(x.up, x.files, i, l + 1, Written(x))
                      /\ x.up.is_writable => RightOn(x)
<1> SUFFICES Fine(w1)
    OBVIOUS
<1>0. /\ w \in Puts /\ part \in Parts /\ a \in Nat
      /\ b \in Nat /\ b >= 7 /\ n \in Nat
      /\ IsFile(part) => b = 14 + n
      /\ ~IsFile(part) => b = 7
    BY ReadyHas, BodyAtIs
<1>i. w.works.opens = FileNames \/ ~PartEvent(w, e).error
    BY Zenon DEF e, part
<1>1. /\ Base(w) + w.at = a + l + 1 /\ l \in Nat
      /\ e = IF l + 1 = 1 THEN "begin_name"
             ELSE IF l + 1 = 3 THEN "end_name"
             ELSE IF l + 1 = b THEN "begin_body"
             ELSE IF IsFile(part) /\ l + 1 = 5 THEN "begin_filename"
             ELSE IF IsFile(part) /\ l + 1 = 6 + n THEN "end_filename"
             ELSE "none"
    BY DEF EventAt
<1>2. \/ l = 0 /\ AtStart(w.up, i)
      \/ l \in 1 .. 2 /\ InName(w.up, i, Written(w))
      \/ l >= 3 /\ l < b /\ (IsFile(part) => l < 5) /\ BehindName(w.up, i)
      \/ IsFile(part) /\ l \in 5 .. 5 + n /\ InFilename(w.up, i, Written(w))
      \/ IsFile(part) /\ l >= 6 + n /\ l < b /\ BehindFilename(w.up, w.files, i)
      \/ IsFile(part) /\ l >= b /\ InFile(w.up, w.files, i, Written(w))
      \/ ~IsFile(part) /\ l >= b /\ InContent(w.up, i, Written(w))
    BY DEF Current
<1>3. ASSUME NEW x, Keeps(w, x) PROVE x.up.form[i] = part
    BY <1>3 DEF Keeps
<1>4. ASSUME NEW x, x.up.form[i] = part,
             \/ l + 1 = 0 /\ AtStart(x.up, i)
             \/ l + 1 \in 1 .. 2 /\ InName(x.up, i, Written(x))
             \/ l + 1 >= 3 /\ l + 1 < b /\ (IsFile(part) => l + 1 < 5) /\ BehindName(x.up, i)
             \/ IsFile(part) /\ l + 1 \in 5 .. 5 + n /\ InFilename(x.up, i, Written(x))
             \/ IsFile(part) /\ l + 1 >= 6 + n /\ l + 1 < b /\ BehindFilename(x.up, x.files, i)
             \/ IsFile(part) /\ l + 1 >= b /\ InFile(x.up, x.files, i, Written(x))
             \/ ~IsFile(part) /\ l + 1 >= b /\ InContent(x.up, i, Written(x))
      PROVE  Current(x.up, x.files, i, l + 1, Written(x))
    BY <1>4 DEF Current
<1>h. Keeps(w, w)
    BY DEF Keeps
<1>g. part = w.up.form[i] /\ b = BodyAt(part) /\ n = Len(part.file) /\ a = Before(w.up.form, i)
    OBVIOUS
<1> HIDE DEF part, n, b, a, e
<1>5. CASE l = 0
  <2>1. AtStart(w.up, i) /\ e = "begin_name" /\ Base(w) + w.at = a + 1
    BY <1>0, <1>1, <1>2, <1>5
  <2>2. /\ Ready(w1, i) /\ Keeps(w, w1) /\ w1.error = w.error /\ RightOn(w1)
        /\ InName(w1.up, i, Written(w1))
    BY <1>g, <2>1, BeginName
  <2> HIDE DEF w1
  <2>3. l + 1 \in 1 .. 2
    BY <1>5
  <2>4. Current(w1.up, w1.files, i, l + 1, Written(w1))
    BY <1>3, <1>4, <2>2, <2>3
  <2> QED
    BY <2>2, <2>4
<1>6. CASE l = 2
  <2>1. InName(w.up, i, Written(w)) /\ e = "end_name" /\ Base(w) + w.at = a + 3
    BY <1>0, <1>1, <1>2, <1>6
  <2>2. Right(w)
    BY <2>1 DEF InName
  <2>3. /\ Ready(w1, i) /\ Keeps(w, w1) /\ w1.error = w.error
        /\ BehindName(w1.up, i)
    BY <1>g, <2>1, <2>2, EndName
  <2> HIDE DEF w1
  <2>4. l + 1 >= 3 /\ l + 1 < b /\ l + 1 < 5 /\ ~w1.up.is_writable
    BY <1>0, <1>6, <2>3 DEF BehindName
  <2>5. Current(w1.up, w1.files, i, l + 1, Written(w1))
    BY <1>3, <1>4, <2>3, <2>4
  <2> QED
    BY <2>3, <2>4, <2>5
<1>7. CASE l + 1 = b
  <2>1. /\ IF IsFile(part) THEN BehindFilename(w.up, w.files, i) ELSE BehindName(w.up, i)
        /\ e = "begin_body" /\ Base(w) + w.at = a + b
    BY <1>0, <1>1, <1>2, <1>7
  <2>3. /\ Ready(w1, i) /\ Keeps(w, w1) /\ w1.error = w.error /\ RightOn(w1)
        /\ IF IsFile(part) THEN InFile(w1.up, w1.files, i, Written(w1))
           ELSE InContent(w1.up, i, Written(w1))
    BY <1>g, <2>1, BeginBody
  <2> HIDE DEF w1
  <2>4. l + 1 >= b
    BY <1>0, <1>7
  <2>5. Current(w1.up, w1.files, i, l + 1, Written(w1))
    BY <1>3, <1>4, <2>3, <2>4
  <2> QED
    BY <2>3, <2>5
<1>8. CASE IsFile(part) /\ l = 4
  <2>1. BehindName(w.up, i) /\ e = "begin_filename" /\ Base(w) + w.at = a + 5
    BY <1>0, <1>1, <1>2, <1>8
  <2>2. /\ Ready(w1, i) /\ Keeps(w, w1) /\ w1.error = w.error /\ RightOn(w1)
        /\ InFilename(w1.up, i, Written(w1))
    BY <1>g, <1>8, <2>1, BeginFilename
  <2> HIDE DEF w1
  <2>3. l + 1 \in 5 .. 5 + n
    BY <1>0, <1>8
  <2>4. Current(w1.up, w1.files, i, l + 1, Written(w1))
    BY <1>3, <1>4, <1>8, <2>2, <2>3
  <2> QED
    BY <2>2, <2>4
<1>9. CASE IsFile(part) /\ l = 5 + n
  <2>1. InFilename(w.up, i, Written(w)) /\ e = "end_filename" /\ Base(w) + w.at = a + 6 + n
    BY <1>0, <1>1, <1>2, <1>9
  <2>2. Right(w)
    BY <2>1 DEF InFilename
  <2>3. /\ Ready(w1, i) /\ Keeps(w, w1) /\ w1.error = w.error
        /\ BehindFilename(w1.up, w1.files, i)
    <3>1. w.works.opens = FileNames \/ ~PartEvent(w, "end_filename").error
        BY <1>i, <2>1, Zenon
    <3> QED
        BY <1>g, <1>9, <2>1, <2>2, <3>1, EndFilename1
  <2> HIDE DEF w1
  <2>4. l + 1 >= 6 + n /\ l + 1 < b /\ ~w1.up.is_writable
    BY <1>0, <1>9, <2>3 DEF BehindFilename
  <2>5. Current(w1.up, w1.files, i, l + 1, Written(w1))
    BY <1>3, <1>4, <1>9, <2>3, <2>4
  <2> QED
    BY <2>3, <2>4, <2>5
<1>10. CASE /\ l # 0 /\ l # 2 /\ l + 1 # b
            /\ IsFile(part) => l # 4 /\ l # 5 + n
  <2>1. e = "none"
    <3>1. /\ l + 1 # 1 /\ l + 1 # 3 /\ l + 1 # b
          /\ IsFile(part) => l + 1 # 5 /\ l + 1 # 6 + n
      <4>1. l \in Nat /\ n \in Nat
          BY <1>0
      <4> HIDE DEF n, b
      <4> QED
          BY <4>1, <1>10
    <3> HIDE DEF part, e
    <3> QED
        BY <3>1, <1>1, Zenon
  <2>2. w1 = w
    BY <2>1 DEF PartEvent
  <2>3. Current(w.up, w.files, i, l + 1, Written(w))
    <3>1. CASE l = 1
      <4>1. InName(w.up, i, Written(w)) /\ l + 1 \in 1 .. 2
          BY <1>0, <1>2, <3>1
      <4> QED
          BY <1>h, <1>3, <1>4, <4>1
    <3>2. CASE l >= 3 /\ l < b /\ (IsFile(part) => l < 5)
      <4>1. BehindName(w.up, i) /\ l + 1 >= 3 /\ l + 1 < b /\ (IsFile(part) => l + 1 < 5)
          BY <1>0, <1>1, <1>2, <1>10, <3>2
      <4> QED
          BY <1>h, <1>3, <1>4, <4>1
    <3>3. CASE IsFile(part) /\ l \in 5 .. 5 + n
      <4>1. InFilename(w.up, i, Written(w)) /\ l + 1 \in 5 .. 5 + n
          BY <1>0, <1>1, <1>2, <1>10, <3>3
      <4> QED
          BY <1>h, <1>3, <1>4, <3>3, <4>1
    <3>4. CASE IsFile(part) /\ l >= 6 + n /\ l < b
      <4>1. BehindFilename(w.up, w.files, i) /\ l + 1 >= 6 + n /\ l + 1 < b
          BY <1>0, <1>1, <1>2, <1>10, <3>4
      <4> QED
          BY <1>h, <1>3, <1>4, <3>4, <4>1
    <3>5. CASE l >= b
      <4>1. l + 1 >= b /\ IF IsFile(part) THEN InFile(w.up, w.files, i, Written(w))
                          ELSE InContent(w.up, i, Written(w))
          BY <1>0, <1>1, <1>2, <1>10, <3>5
      <4> QED
          BY <1>h, <1>3, <1>4, <4>1
    <3> QED
        BY <1>0, <1>1, <1>10, <3>1, <3>2, <3>3, <3>4, <3>5
  <2>4. w.up.is_writable => RightOn(w)
    BY <1>0, RightGoesOn
  <2> HIDE DEF w1
  <2> QED
    BY <1>h, <2>2, <2>3, <2>4
<1> QED
    BY <1>5, <1>6, <1>7, <1>8, <1>9, <1>10

(* Nothing that was looked at has been copied wrong, no file of this put   *)
(* was replaced or removed meanwhile, and the disk has made no error. *)
Sound(w) ==
    /\ ~w.up.torn /\ ~w.up.crossed
    /\ Serves(w.works) \/ ~w.error

(* l bytes of the i-th part have been looked at. *)
MidOf(w, i, l) ==
    /\ Ready(w, i) /\ ~w.error
    /\ Reads(w.up.form[i], w.up.header, l)
    /\ Current(w.up, w.files, i, l, Written(w))
    /\ w.up.is_writable => Right(w)

(* What came now is what was sent, and what was kept is, unless it was     *)
(* copied wrong. *)
ViewIs(w) ==
    \A p \in 1 .. Len(w.view) :
        (p > Len(w.up.pending) \/ ~w.up.stale) => w.view[p] = Sent[w.up.form][Base(w) + p]

(* The header is set. *)
LEMMA HeardIs ==
    ASSUME NEW w \in Puts, NEW h \in Headers
    PROVE  LET t == w.up.torn \/ (w.up.stale /\ w.at <= Len(w.up.pending))
               w2 == [w EXCEPT !.up = [w.up EXCEPT !.header = h, !.torn = t]]
           IN  /\ w2 \in Puts /\ Looked(w, h) = PartEvent(w2, h.event)
               /\ w2.files = w.files /\ w2.opened = w.opened /\ w2.error = w.error
               /\ w2.works = w.works
               /\ w2.view = w.view /\ w2.at = w.at /\ w2.from = w.from
               /\ w2.up.form = w.up.form /\ w2.up.mode = w.up.mode /\ w2.up.sent = w.up.sent
               /\ w2.up.pending = w.up.pending
               /\ w2.up.state = w.up.state /\ w2.up.is_writable = w.up.is_writable
               /\ w2.up.name = w.up.name /\ w2.up.values = w.up.values
               /\ w2.up.file = w.up.file /\ w2.up.offset = w.up.offset
               /\ w2.up.short = w.up.short /\ w2.up.wrote = w.up.wrote
               /\ w2.up.header = h
<1> DEFINE t == w.up.torn \/ (w.up.stale /\ w.at <= Len(w.up.pending))
           up1 == [w.up EXCEPT !.header = h]
           up2 == [up1 EXCEPT !.torn = t]
           w2 == [w EXCEPT !.up = up2]
<1>0. w.up \in Readers /\ t \in BOOLEAN
    BY PutHas, ReaderHas
<1>1. up1 \in Readers
    BY <1>0, SetReader
<1>2. up2 \in Readers
  <2> HIDE DEF up1, t
  <2> QED
    BY <1>0, <1>1, SetReader
<1>3. w2 \in Puts
  <2> HIDE DEF up2
  <2> QED
    BY <1>2, SetPut
<1>4. up2 = [w.up EXCEPT !.header = h, !.torn = t]
    OBVIOUS
<1>5. Looked(w, h) = PartEvent(w2, h.event)
    BY DEF Looked, Puts, Readers
<1>6. /\ w2.up = up2 /\ w2.files = w.files /\ w2.opened = w.opened /\ w2.error = w.error
      /\ w2.works = w.works
      /\ w2.view = w.view /\ w2.at = w.at /\ w2.from = w.from
    BY DEF Puts
<1> HIDE DEF t
<1>7. /\ up2.form = w.up.form /\ up2.mode = w.up.mode /\ up2.sent = w.up.sent
      /\ up2.pending = w.up.pending
      /\ up2.state = w.up.state /\ up2.is_writable = w.up.is_writable
      /\ up2.name = w.up.name /\ up2.values = w.up.values
      /\ up2.file = w.up.file /\ up2.offset = w.up.offset
      /\ up2.short = w.up.short /\ up2.wrote = w.up.wrote
      /\ up2.header = h
    BY <1>0 DEF Readers
<1> HIDE DEF up2
<1>8. w2 = [w EXCEPT !.up = [w.up EXCEPT !.header = h, !.torn = t]]
    BY <1>4
<1> HIDE DEF w2
<1> SUFFICES /\ w2 \in Puts /\ Looked(w, h) = PartEvent(w2, h.event)
             /\ w2.files = w.files /\ w2.opened = w.opened /\ w2.error = w.error
             /\ w2.works = w.works
             /\ w2.view = w.view /\ w2.at = w.at /\ w2.from = w.from
             /\ w2.up.form = w.up.form /\ w2.up.mode = w.up.mode /\ w2.up.sent = w.up.sent
             /\ w2.up.pending = w.up.pending
             /\ w2.up.state = w.up.state /\ w2.up.is_writable = w.up.is_writable
             /\ w2.up.name = w.up.name /\ w2.up.values = w.up.values
             /\ w2.up.file = w.up.file /\ w2.up.offset = w.up.offset
             /\ w2.up.short = w.up.short /\ w2.up.wrote = w.up.wrote
             /\ w2.up.header = h
    BY <1>8, Zenon DEF t
<1> QED
    BY <1>3, <1>5, <1>6, <1>7

(* Two puts that differ only in what is not about the part. *)
Alike(w, v) ==
    /\ v.files = w.files /\ v.view = w.view /\ v.at = w.at /\ v.from = w.from
    /\ v.up.form = w.up.form /\ v.up.sent = w.up.sent /\ v.up.pending = w.up.pending
    /\ v.up.state = w.up.state /\ v.up.is_writable = w.up.is_writable
    /\ v.up.name = w.up.name /\ v.up.values = w.up.values
    /\ v.up.file = w.up.file /\ v.up.offset = w.up.offset
    /\ v.up.short = w.up.short /\ v.up.wrote = w.up.wrote

(* What differs only in the states of the parsers has taken the same. *)
LEMMA AlikePhase ==
    ASSUME NEW w, NEW v, Alike(w, v), NEW i
    PROVE  /\ Base(v) = Base(w) /\ Written(v) = Written(w)
           /\ v \in Puts /\ Ready(w, i) => Ready(v, i)
           /\ \A l : Current(w.up, w.files, i, l, Written(w)) => Current(v.up, v.files, i, l, Written(v))
           /\ Right(w) => Right(v)
           /\ RightOn(w) => RightOn(v)
           /\ \A j : Earlier(w.up, w.files, j) => Earlier(v.up, v.files, j)
           /\ AtStart(w.up, i) => AtStart(v.up, i)
           /\ OpenIsThere(w) => OpenIsThere(v)
<1>1. Base(v) = Base(w) /\ Written(v) = Written(w)
    BY DEF Alike, Base, Written
<1>2. \A j : Earlier(w.up, w.files, j) => Earlier(v.up, v.files, j)
    BY DEF Alike, Earlier, Kept1
<1>3. OpenIsThere(w) => OpenIsThere(v)
    BY DEF Alike, OpenIsThere
<1>4. v \in Puts /\ Ready(w, i) => Ready(v, i)
    BY <1>2, <1>3 DEF Alike, Ready
<1>5. (Right(w) => Right(v)) /\ (RightOn(w) => RightOn(v))
    BY <1>1 DEF Alike, Right, RightOn
<1>6. AtStart(w.up, i) => AtStart(v.up, i)
    BY DEF Alike, AtStart
<1>7. Entered(w.up, i) => Entered(v.up, i)
    BY DEF Alike, Entered
<1>8. ASSUME NEW q PROVE /\ InName(w.up, i, q) => InName(v.up, i, q)
                         /\ BehindName(w.up, i) => BehindName(v.up, i)
                         /\ InFilename(w.up, i, q) => InFilename(v.up, i, q)
                         /\ BehindFilename(w.up, w.files, i) => BehindFilename(v.up, v.files, i)
                         /\ InFile(w.up, w.files, i, q) => InFile(v.up, v.files, i, q)
                         /\ InContent(w.up, i, q) => InContent(v.up, i, q)
  <2>1. InName(w.up, i, q) => InName(v.up, i, q)
    BY DEF Alike, InName
  <2>2. BehindName(w.up, i) => BehindName(v.up, i)
    BY DEF Alike, BehindName
  <2>3. InFilename(w.up, i, q) => InFilename(v.up, i, q)
    BY <1>7 DEF Alike, InFilename
  <2>4. BehindFilename(w.up, w.files, i) => BehindFilename(v.up, v.files, i)
    BY <1>7 DEF Alike, BehindFilename
  <2>5. InFile(w.up, w.files, i, q) => InFile(v.up, v.files, i, q)
    BY <1>7 DEF Alike, InFile
  <2>6. InContent(w.up, i, q) => InContent(v.up, i, q)
    BY <1>7 DEF Alike, InContent
  <2> QED
    BY <2>1, <2>2, <2>3, <2>4, <2>5, <2>6
<1>9. v.up.form = w.up.form
    BY DEF Alike
<1>10. \A l : Current(w.up, w.files, i, l, Written(w)) => Current(v.up, v.files, i, l, Written(v))
    BY <1>1, <1>6, <1>8, <1>9 DEF Current
<1> QED
    BY <1>1, <1>2, <1>3, <1>4, <1>5, <1>6, <1>10

(* What it is to be within a part. *)
LEMMA MidHas ==
    ASSUME NEW w, NEW i, NEW l, MidOf(w, i, l)
    PROVE  /\ Ready(w, i) /\ ~w.error
           /\ Reads(w.up.form[i], w.up.header, l)
           /\ Current(w.up, w.files, i, l, Written(w))
           /\ w.up.is_writable => Right(w)
BY DEF MidOf

(* A byte of a part is settled. *)
LEMMA SettleMid ==
    ASSUME NEW w, Typed(w), w.up.message, w.at <= Len(w.view), ViewIs(w),
           NEW i, NEW l \in Nat, l < Len(EncodedPart(w.up.form[i])),
           Sound(w) => MidOf(w, i, l),
           Sound(w) => dir \/ w.up.mode = "ignore",
           Base(w) + w.at = Before(w.up.form, i) + l + 1
    PROVE  Sound(Settle(w)) => MidOf(Settle(w), i, l + 1)
<1> DEFINE h == HandleMessageChar(w.up.header, w.view[w.at])
           t == w.up.torn \/ (w.up.stale /\ w.at <= Len(w.up.pending))
           w2 == [w EXCEPT !.up = [w.up EXCEPT !.header = h, !.torn = t]]
           v == Looked(w, h)
           w1 == Settle(w)
           part == w.up.form[i]
<1> SUFFICES ASSUME Sound(w1)
             PROVE  MidOf(w1, i, l + 1)
    OBVIOUS
<1>0. /\ w \in Puts /\ w.at - 1 <= Len(w.view) /\ OpenIsThere(w)
      /\ w.up.header.state = "filename_body" => Len(w.up.values) > 0
    BY DEF Typed
<1>1. /\ w.up.header \in Headers /\ w.at \in Nat /\ w.at > 0 /\ Len(w.view) \in Nat
      /\ Len(w.up.pending) \in Nat /\ w.up.stale \in BOOLEAN /\ w.up.torn \in BOOLEAN
    BY <1>0, PutHas, ReaderHas, LenProperties
<1>2. HeaderMay(w.up.header, h)
    BY <1>1, HeaderType
<1>3. h \in Headers
    BY <1>2 DEF HeaderMay
<1>a. w1 = [v EXCEPT !.at = @ + 1]
    BY DEF Settle
<1>b. h = HandleMessageChar(w.up.header, w.view[w.at])
    OBVIOUS
<1> HIDE DEF h
<1>4. /\ Typed(v) /\ SamePut(w, v)
      /\ v.at = w.at
      /\ v.up.header = h
      /\ v.up.torn = (w.up.torn \/ (w.up.stale /\ w.at <= Len(w.up.pending)))
    BY <1>0, <1>2, <1>3, LookedIs
<1>5. /\ w2 \in Puts /\ v = PartEvent(w2, h.event)
      /\ w2.files = w.files /\ w2.opened = w.opened /\ w2.error = w.error
      /\ w2.works = w.works
      /\ w2.view = w.view /\ w2.at = w.at /\ w2.from = w.from
      /\ w2.up.form = w.up.form /\ w2.up.mode = w.up.mode /\ w2.up.sent = w.up.sent
      /\ w2.up.pending = w.up.pending
      /\ w2.up.state = w.up.state /\ w2.up.is_writable = w.up.is_writable
      /\ w2.up.name = w.up.name /\ w2.up.values = w.up.values
      /\ w2.up.file = w.up.file /\ w2.up.offset = w.up.offset
      /\ w2.up.short = w.up.short /\ w2.up.wrote = w.up.wrote
      /\ w2.up.header = h
    BY <1>0, <1>3, HeardIs
<1> HIDE DEF v, w2, w1
<1>6. v \in Puts /\ w.at + 1 \in Nat \ {0}
    BY <1>1, <1>4 DEF Typed
<1>7. w1 = [v EXCEPT !.at = w.at + 1]
    BY <1>4, <1>a
<1>8. /\ w1 \in Puts /\ w1.up = v.up /\ w1.files = v.files
      /\ w1.error = v.error /\ w1.at = w.at + 1 /\ w1.from = v.from
      /\ w1.view = v.view
    BY <1>6, <1>7, SetAt
<1>c. w1.works = w.works /\ (w.error => w1.error)
  <2> USE DEF w1
  <2> QED
    BY SettleIs DEF SamePut
<1>9. Sound(w) /\ (w.at <= Len(w.up.pending) => ~w.up.stale)
  <2>1. ~v.up.torn /\ ~v.up.crossed
    BY <1>8 DEF Sound
  <2>2. v.up.crossed = w.up.crossed
    BY <1>4 DEF SamePut
  <2>3. ~(w.up.torn \/ (w.up.stale /\ w.at <= Len(w.up.pending)))
    BY <1>4, <2>1
  <2> QED
    BY <1>c, <2>1, <2>2, <2>3 DEF Sound
<1>10. w.view[w.at] = Sent[w.up.form][Base(w) + w.at]
  <2>1. w.at \in 1 .. Len(w.view) /\ (w.at > Len(w.up.pending) \/ ~w.up.stale)
    BY <1>1, <1>9
  <2> QED
    BY <2>1 DEF ViewIs
<1>11. /\ Ready(w, i) /\ ~w.error
       /\ Reads(part, w.up.header, l)
       /\ Current(w.up, w.files, i, l, Written(w))
       /\ w.up.is_writable => Right(w)
       /\ dir \/ w.up.mode = "ignore"
    BY <1>9, MidHas
<1>12. Alike(w, w2)
    BY <1>5 DEF Alike
<1>13. /\ Base(w2) = Base(w) /\ Ready(w2, i)
       /\ Current(w2.up, w2.files, i, l, Written(w2))
       /\ w2.up.is_writable => Right(w2)
    BY <1>5, <1>11, <1>12, AlikePhase
<1>14. part \in Parts /\ w.up.form \in AllForms /\ i \in 1 .. Len(w.up.form)
       /\ Before(w.up.form, i) \in Nat
    BY <1>11, ReadyHas
<1>15. w.view[w.at] = EncodedPart(part)[l + 1]
  <2> DEFINE m == Len(EncodedPart(part))
  <2>1. m \in Nat /\ l < m
    BY <1>14, PartIsSent
  <2>2. l + 1 \in 1 .. m
    <3> HIDE DEF m
    <3> QED
        BY <2>1
  <2>3. Sent[w.up.form][Before(w.up.form, i) + (l + 1)] = EncodedPart(part)[l + 1]
    BY <1>14, <2>2, PartIsSent
  <2>4. Before(w.up.form, i) + (l + 1) = Base(w) + w.at
    BY <1>14
  <2> QED
    BY <1>10, <2>3, <2>4
<1>16. Reads(part, h, l + 1) /\ h.event = EventAt(part, l + 1)
    BY <1>b, <1>11, <1>14, <1>15, HeaderStep
<1>17. /\ w2.up.form[i] = part /\ w2.up.form = w.up.form
       /\ Base(w2) + w2.at = Before(w2.up.form, i) + l + 1
       /\ w2.view[w2.at] = Sent[w2.up.form][Base(w2) + w2.at]
       /\ dir \/ w2.up.mode = "ignore"
       /\ l < Len(EncodedPart(w2.up.form[i]))
    BY <1>5, <1>10, <1>11, <1>13
<1>18. v = PartEvent(w2, EventAt(w2.up.form[i], l + 1))
    BY <1>5, <1>16, <1>17
<1>19. /\ Ready(v, i) /\ Keeps(w2, v) /\ v.error = w2.error
       /\ Current(v.up, v.files, i, l + 1, Written(v))
       /\ v.up.is_writable => RightOn(v)
  <2>1. w2.works.opens = FileNames \/ ~PartEvent(w2, EventAt(w2.up.form[i], l + 1)).error
    <3>1. w1.works.opens = FileNames \/ ~w1.error
        BY DEF Sound, Serves
    <3> QED
        BY <1>5, <1>8, <1>18, <1>c, <3>1
  <2> QED
    BY <1>13, <1>17, <1>18, <2>1, CurrentStep
<1>20. v.up.form = w.up.form /\ v.view = w.view /\ v.at = w.at
    BY <1>5, <1>19 DEF Keeps
<1>21. Base(w1) = Base(v) /\ Written(w1) = Written(v)
    BY <1>8 DEF Base, Written
<1>22. Ready(w1, i)
  <2>1. Earlier(v.up, v.files, i) /\ OpenIsThere(v) /\ v.up.form \in AllForms /\ i \in 1 .. Len(v.up.form)
    BY <1>19 DEF Ready
  <2>2. OpenIsThere(w1)
    BY <1>8, <2>1 DEF OpenIsThere
  <2>3. w1.at - 1 <= Len(w1.view)
    BY <1>1, <1>8, <1>20
  <2> QED
    BY <1>8, <2>1, <2>2, <2>3 DEF Ready
<1>23. w1.up.is_writable => Right(w1)
  <2> HAVE w1.up.is_writable
  <2>1. RightOn(v)
    BY <1>8, <1>19
  <2>2. w1.at - 1 = v.at /\ v.at + 1 = w1.at
    BY <1>1, <1>8, <1>20
  <2> QED
    BY <1>8, <1>21, <2>1, <2>2 DEF Right, RightOn
<1>24. ~w1.error
    BY <1>5, <1>8, <1>11, <1>19
<1>25. Reads(w1.up.form[i], w1.up.header, l + 1)
    BY <1>4, <1>8, <1>16, <1>20
<1>26. Current(w1.up, w1.files, i, l + 1, Written(w1))
    BY <1>8, <1>19, <1>21
<1> QED
    BY <1>22, <1>23, <1>24, <1>25, <1>26 DEF MidOf

-----------------------------------------------------------------------------
(* What a put does, from one byte to a later one *)

Runs(w, w1) ==
    /\ Typed(w1) /\ SamePut(w, w1)
    /\ w.up.torn => w1.up.torn
    /\ w.error => w1.error
    /\ \A w0 : Framed(w0, w) => Framed(w0, w1)

(* Running is transitive. *)
LEMMA RunsOn ==
    ASSUME NEW w, NEW w0, NEW w1, Runs(w, w0), Runs(w0, w1)
    PROVE  Runs(w, w1)
<1>1. SamePut(w, w1)
    BY DEF Runs, SamePut
<1> QED
    BY <1>1 DEF Runs

(* Doing nothing runs. *)
LEMMA RunsNowhere ==
    ASSUME NEW w, Typed(w)
    PROVE  Runs(w, w)
BY DEF Runs, SamePut

(* Settling a byte runs: the put stays typed and within its frame. *)
LEMMA SettleRuns ==
    ASSUME NEW w, Typed(w), w.at <= Len(w.view)
    PROVE  Runs(w, Settle(w))
<1>1. /\ Typed(Settle(w)) /\ SamePut(w, Settle(w)) /\ Touches(w, Settle(w))
      /\ w.up.torn => Settle(w).up.torn
      /\ w.error => Settle(w).error
    BY SettleIs
<1>2. \A w0 : Framed(w0, w) => Framed(w0, Settle(w))
    BY <1>1, FramedStep
<1> QED
    BY <1>1, <1>2 DEF Runs

(* In one put the view and the place of its first byte stay. *)
LEMMA SameBase ==
    ASSUME NEW w, NEW w1, SamePut(w, w1)
    PROVE  /\ Base(w1) = Base(w) /\ w1.up.form = w.up.form /\ w1.up.mode = w.up.mode
           /\ w1.view = w.view /\ w1.up.pending = w.up.pending
           /\ ViewIs(w) => ViewIs(w1)
           /\ (w.up.torn => w1.up.torn) /\ (w.error => w1.error) => (Sound(w1) => Sound(w))
BY DEF SamePut, Base, ViewIs, Sound

================================================================================
