---------------------------- MODULE MultipartProofs ----------------------------
(***************************************************************************)
(* Theorems about Multipart: wherever the bytes of an upload are cut, the  *)
(* reader stands between two puts where they say, and an upload that is    *)
(* answered has stored what was sent; for any well-formed forms, and any   *)
(* pieces.                                                                 *)
(***************************************************************************)
EXTENDS MultipartLemmas

(* Bytes are settled. *)
LEMMA AdvanceRuns ==
    ASSUME NEW w, Typed(w), NEW n \in Nat, w.at - 1 + n <= Len(w.view)
    PROVE  LET w1 == Advance(w, n)
           IN  /\ Runs(w, w1) /\ w1.at = w.at + n
               /\ w1.up.parser = w.up.parser /\ w1.up.message = w.up.message
               /\ ~w.up.message => /\ w1.up = w.up /\ w1.files = w.files /\ w1.error = w.error
                                   /\ w1.from = w.from
<1> DEFINE w1 == Advance(w, n)
<1>0. w.at \in Nat /\ w.at > 0 /\ Len(w.view) \in Nat /\ w \in Puts
    BY PutHas, LenProperties DEF Typed
<1>a. PICK s : Walk(s, w, n)
    BY AdvanceIs
<1>1. /\ s[0] = w
      /\ \A k \in 1 .. n : s[k] = Settle(s[k - 1])
      /\ w1 = s[n]
    BY <1>a DEF Walk
<1> HIDE DEF w1
<1> DEFINE P(x, k) == /\ Runs(w, x) /\ x.at = w.at + k
                      /\ x.up.parser = w.up.parser /\ x.up.message = w.up.message
                      /\ ~w.up.message => /\ x.up = w.up /\ x.files = w.files /\ x.error = w.error
                                          /\ x.from = w.from
           T == {k \in 0 .. n : P(s[k], k)}
<1>2. 0 \in T
    BY <1>0, <1>1, RunsNowhere
<1>3. ASSUME NEW k \in 0 .. n - 1, k \in T PROVE k + 1 \in T
  <2> DEFINE x == s[k]
             y == s[k + 1]
  <2>1. P(x, k)
    BY <1>3
  <2>2. y = Settle(x)
    <3>1. k + 1 \in 1 .. n /\ (k + 1) - 1 = k
        OBVIOUS
    <3> QED
        BY <1>1, <3>1
  <2>3. k + 1 \in 0 .. n
    OBVIOUS
  <2> HIDE DEF x, y
  <2>4. Typed(x) /\ x.view = w.view
    BY <2>1 DEF Runs, SamePut
  <2>5. x.at <= Len(x.view)
    BY <1>0, <2>1, <2>4
  <2>6. /\ y.at = x.at + 1 /\ y.up.parser = x.up.parser /\ y.up.message = x.up.message
        /\ ~x.up.message => /\ y.up = x.up /\ y.files = x.files /\ y.error = x.error
                            /\ y.from = x.from
    BY <2>2, <2>4, <2>5, SettleIs
  <2>7. Runs(w, y)
    BY <2>1, <2>2, <2>4, <2>5, SettleRuns, RunsOn
  <2>8. y.at = w.at + (k + 1)
    BY <1>0, <2>1, <2>6
  <2>9. P(y, k + 1)
    BY <2>1, <2>6, <2>7, <2>8
  <2> HIDE DEF P
  <2> QED
    BY <2>3, <2>9 DEF y
<1>4. n \in T
  <2> HIDE DEF T
  <2>1. 0 .. n \subseteq T
    BY <1>2, <1>3, InductionUpTo
  <2> QED
    BY <2>1
<1>5. P(w1, n)
    BY <1>1, <1>4
<1> QED
    BY <1>5 DEF w1

(* Bytes of a part are settled. *)
LEMMA AdvanceMid ==
    ASSUME NEW w, Typed(w), NEW n \in Nat, w.at - 1 + n <= Len(w.view),
           w.up.message, ViewIs(w),
           NEW i, NEW l \in Nat, l + n <= Len(EncodedPart(w.up.form[i])),
           Len(EncodedPart(w.up.form[i])) \in Nat,
           Sound(w) => MidOf(w, i, l),
           Sound(w) => dir \/ w.up.mode = "ignore",
           Base(w) + w.at = Before(w.up.form, i) + l + 1,
           Before(w.up.form, i) \in Int
    PROVE  Sound(Advance(w, n)) => MidOf(Advance(w, n), i, l + n)
<1> DEFINE w1 == Advance(w, n)
           m == Len(EncodedPart(w.up.form[i]))
           a == Before(w.up.form, i)
<1>0. /\ w.at \in Nat /\ w.at > 0 /\ Len(w.view) \in Nat /\ w \in Puts /\ Base(w) \in Int
      /\ l + n <= m /\ m \in Nat /\ a \in Int /\ Base(w) + w.at = a + l + 1
    BY PutHas, LenProperties, BaseIs DEF Typed
<1>a. PICK s : Walk(s, w, n)
    BY AdvanceIs
<1>1. /\ s[0] = w
      /\ \A k \in 1 .. n : s[k] = Settle(s[k - 1])
      /\ w1 = s[n]
    BY <1>a DEF Walk
<1> HIDE DEF w1
<1> DEFINE P(x, k) == /\ Runs(w, x) /\ x.at = w.at + k /\ x.up.message
                      /\ Sound(x) => MidOf(x, i, l + k)
           T == {k \in 0 .. n : P(s[k], k)}
<1>2. 0 \in T
  <2>1. l + 0 = l /\ w.at + 0 = w.at /\ 0 \in 0 .. n
    BY <1>0
  <2>2. Runs(w, w)
    BY <1>0, RunsNowhere
  <2>3. P(s[0], 0)
    BY <1>1, <2>1, <2>2
  <2> HIDE DEF P
  <2> QED
    BY <2>1, <2>3
<1>3. ASSUME NEW k \in 0 .. n - 1, k \in T PROVE k + 1 \in T
  <2> DEFINE x == s[k]
             y == s[k + 1]
             j == l + k
  <2>1. P(x, k)
    BY <1>3
  <2>2. y = Settle(x)
    <3>1. k + 1 \in 1 .. n /\ (k + 1) - 1 = k
        OBVIOUS
    <3> QED
        BY <1>1, <3>1
  <2>3. k + 1 \in 0 .. n
    OBVIOUS
  <2> HIDE DEF x, y
  <2>4. Typed(x) /\ SamePut(w, x) /\ (w.up.torn => x.up.torn) /\ (w.error => x.error)
    BY <2>1 DEF Runs
  <2>5. /\ Base(x) = Base(w) /\ x.up.form = w.up.form /\ x.up.mode = w.up.mode /\ x.view = w.view
        /\ ViewIs(x) /\ (Sound(x) => Sound(w))
    BY <2>4, SameBase
  <2>6. x.at <= Len(x.view) /\ x.up.message /\ x.at = w.at + k
    <3>1. x.up.message /\ x.at = w.at + k /\ x.view = w.view
        BY <2>1, <2>5, Zenon
    <3> DEFINE lw == Len(w.view)
               wa == w.at
    <3>2. lw \in Nat /\ wa \in Nat /\ (wa - 1) + n <= lw
        BY <1>0
    <3> HIDE DEF lw, wa
    <3>3. wa + k <= lw
        BY <3>2
    <3> QED
        BY <3>1, <3>3, Zenon DEF lw, wa
  <2>7. j \in Nat /\ j < m /\ Base(x) + x.at = a + j + 1 /\ j + 1 = l + (k + 1)
    <3>1. l + n <= m /\ m \in Nat /\ a \in Int /\ Base(w) + w.at = a + l + 1 /\ Base(w) \in Int
          /\ w.at \in Nat
        BY <1>0
    <3>2. Base(x) = Base(w) /\ x.at = w.at + k
        BY <2>5, <2>6
    <3> HIDE DEF m, a
    <3>3. j \in Nat /\ j < m /\ j + 1 = l + (k + 1)
        BY <3>1
    <3>4. Base(x) + x.at = a + j + 1
      <4> DEFINE bw == Base(w)
                 wa == w.at
                 bx == Base(x)
                 xa == x.at
      <4>1. /\ bw + wa = a + l + 1 /\ bx = bw /\ xa = wa + k /\ bw \in Int /\ wa \in Int /\ a \in Int
            /\ j = l + k /\ k \in Int /\ l \in Int
          BY <3>1, <3>2
      <4>2. bx + xa = a + j + 1
        <5> HIDE DEF bw, wa, bx, xa, j
        <5> QED
            BY <4>1
      <4> QED
          BY <4>2
    <3> QED
        BY <3>3, <3>4
  <2>8. Sound(x) => MidOf(x, i, j)
    BY <2>1
  <2>9. /\ j < Len(EncodedPart(x.up.form[i])) /\ Base(x) + x.at = Before(x.up.form, i) + j + 1
        /\ Sound(x) => dir \/ x.up.mode = "ignore"
    BY <2>5, <2>7
  <2> HIDE DEF j
  <2>10. Sound(y) => MidOf(y, i, j + 1)
    BY <2>2, <2>4, <2>5, <2>6, <2>7, <2>8, <2>9, SettleMid
  <2>a. y.at = x.at + 1 /\ y.up.message = x.up.message
    BY <2>2, <2>4, <2>6, SettleIs
  <2>11. y.at = w.at + (k + 1) /\ y.up.message
    <3> DEFINE wa == w.at
    <3>1. wa \in Nat
        BY <1>0
    <3> HIDE DEF wa
    <3>2. (wa + k) + 1 = wa + (k + 1)
        BY <3>1
    <3>4. y.at = w.at + (k + 1)
        BY <2>6, <2>a, <3>2, Zenon DEF wa
    <3>3. y.up.message
        BY <2>a, <2>6, Zenon
    <3> QED
        BY <3>3, <3>4, Zenon
  <2>12. Runs(w, y)
    BY <2>1, <2>2, <2>4, <2>6, SettleRuns, RunsOn
  <2>13. P(y, k + 1)
    BY <2>7, <2>10, <2>11, <2>12
  <2> HIDE DEF P
  <2> QED
    BY <2>3, <2>13 DEF y
<1>4. n \in T
  <2> HIDE DEF T
  <2>1. 0 .. n \subseteq T
    BY <1>2, <1>3, InductionUpTo
  <2> QED
    BY <2>1
<1>5. P(w1, n)
    BY <1>1, <1>4
<1> QED
    BY <1>5 DEF w1

(* A put of which only the parsers are in another state. *)
Retold(w, v) ==
    /\ v \in Puts /\ Alike(w, v) /\ SamePut(w, v)
    /\ v.error = w.error /\ v.opened = w.opened /\ v.up.torn = w.up.torn

(* A put whose parser is within a part, or is not, is otherwise the same. *)
LEMMA SetMessage ==
    ASSUME NEW w \in Puts, NEW x \in BOOLEAN
    PROVE  LET v == [w EXCEPT !.up = [w.up EXCEPT !.message = x]]
           IN  /\ Retold(w, v) /\ v.up.message = x /\ v.up.header = w.up.header
               /\ v.up.parser = w.up.parser
<1> DEFINE up1 == [w.up EXCEPT !.message = x]
           v == [w EXCEPT !.up = up1]
<1>0. w.up \in Readers
    BY PutHas
<1>1. up1 \in Readers
    BY <1>0, SetReader
<1>2. v \in Puts
  <2> HIDE DEF up1
  <2> QED
    BY <1>1, SetPut
<1>3. /\ v.up = up1 /\ v.files = w.files /\ v.opened = w.opened /\ v.error = w.error
      /\ v.works = w.works /\ v.view = w.view /\ v.at = w.at /\ v.from = w.from
    BY DEF Puts
<1>4. /\ up1.status = w.up.status /\ up1.form = w.up.form /\ up1.mode = w.up.mode /\ up1.sent = w.up.sent
      /\ up1.parser = w.up.parser /\ up1.message = x /\ up1.header = w.up.header
      /\ up1.state = w.up.state /\ up1.is_writable = w.up.is_writable
      /\ up1.name = w.up.name /\ up1.values = w.up.values
      /\ up1.file = w.up.file /\ up1.offset = w.up.offset
      /\ up1.pending = w.up.pending /\ up1.stale = w.up.stale /\ up1.torn = w.up.torn
      /\ up1.short = w.up.short /\ up1.wrote = w.up.wrote /\ up1.crossed = w.up.crossed
    BY <1>0 DEF Readers
<1> HIDE DEF up1
<1> HIDE DEF v
<1>5. Alike(w, v)
    BY <1>3, <1>4 DEF Alike
<1>6. SamePut(w, v)
    BY <1>3, <1>4 DEF SamePut
<1>7. Retold(w, v)
    BY <1>2, <1>3, <1>4, <1>5, <1>6 DEF Retold
<1> QED
    BY <1>3, <1>4, <1>7 DEF v, up1

(* A put with another state of the header parser is otherwise the same. *)
LEMMA SetHeader ==
    ASSUME NEW w \in Puts, NEW x \in Headers
    PROVE  LET v == [w EXCEPT !.up = [w.up EXCEPT !.header = x]]
           IN  /\ Retold(w, v) /\ v.up.header = x /\ v.up.message = w.up.message
               /\ v.up.parser = w.up.parser
<1> DEFINE up1 == [w.up EXCEPT !.header = x]
           v == [w EXCEPT !.up = up1]
<1>0. w.up \in Readers
    BY PutHas
<1>1. up1 \in Readers
    BY <1>0, SetReader
<1>2. v \in Puts
  <2> HIDE DEF up1
  <2> QED
    BY <1>1, SetPut
<1>3. /\ v.up = up1 /\ v.files = w.files /\ v.opened = w.opened /\ v.error = w.error
      /\ v.works = w.works /\ v.view = w.view /\ v.at = w.at /\ v.from = w.from
    BY DEF Puts
<1>4. /\ up1.status = w.up.status /\ up1.form = w.up.form /\ up1.mode = w.up.mode /\ up1.sent = w.up.sent
      /\ up1.parser = w.up.parser /\ up1.header = x /\ up1.message = w.up.message
      /\ up1.state = w.up.state /\ up1.is_writable = w.up.is_writable
      /\ up1.name = w.up.name /\ up1.values = w.up.values
      /\ up1.file = w.up.file /\ up1.offset = w.up.offset
      /\ up1.pending = w.up.pending /\ up1.stale = w.up.stale /\ up1.torn = w.up.torn
      /\ up1.short = w.up.short /\ up1.wrote = w.up.wrote /\ up1.crossed = w.up.crossed
    BY <1>0 DEF Readers
<1> HIDE DEF up1
<1> HIDE DEF v
<1>5. Alike(w, v)
    BY <1>3, <1>4 DEF Alike
<1>6. SamePut(w, v)
    BY <1>3, <1>4 DEF SamePut
<1>7. Retold(w, v)
    BY <1>2, <1>3, <1>4, <1>5, <1>6 DEF Retold
<1> QED
    BY <1>3, <1>4, <1>7 DEF v, up1

(* A put with another state of the parser is otherwise the same. *)
LEMMA SetParser ==
    ASSUME NEW w \in Puts, NEW x \in [state : ParserStates, matched : Nat]
    PROVE  LET v == [w EXCEPT !.up = [w.up EXCEPT !.parser = x]]
           IN  /\ Retold(w, v) /\ v.up.parser = x /\ v.up.message = w.up.message
               /\ v.up.header = w.up.header
<1> DEFINE up1 == [w.up EXCEPT !.parser = x]
           v == [w EXCEPT !.up = up1]
<1>0. w.up \in Readers
    BY PutHas
<1>1. up1 \in Readers
    BY <1>0, SetReader
<1>2. v \in Puts
  <2> HIDE DEF up1
  <2> QED
    BY <1>1, SetPut
<1>3. /\ v.up = up1 /\ v.files = w.files /\ v.opened = w.opened /\ v.error = w.error
      /\ v.works = w.works /\ v.view = w.view /\ v.at = w.at /\ v.from = w.from
    BY DEF Puts
<1>4. /\ up1.status = w.up.status /\ up1.form = w.up.form /\ up1.mode = w.up.mode /\ up1.sent = w.up.sent
      /\ up1.parser = x /\ up1.header = w.up.header /\ up1.message = w.up.message
      /\ up1.state = w.up.state /\ up1.is_writable = w.up.is_writable
      /\ up1.name = w.up.name /\ up1.values = w.up.values
      /\ up1.file = w.up.file /\ up1.offset = w.up.offset
      /\ up1.pending = w.up.pending /\ up1.stale = w.up.stale /\ up1.torn = w.up.torn
      /\ up1.short = w.up.short /\ up1.wrote = w.up.wrote /\ up1.crossed = w.up.crossed
    BY <1>0 DEF Readers
<1> HIDE DEF up1
<1> HIDE DEF v
<1>5. Alike(w, v)
    BY <1>3, <1>4 DEF Alike
<1>6. SamePut(w, v)
    BY <1>3, <1>4 DEF SamePut
<1>7. Retold(w, v)
    BY <1>2, <1>3, <1>4, <1>5, <1>6 DEF Retold
<1> QED
    BY <1>3, <1>4, <1>7 DEF v, up1

(* Another state of the parsers is a way of running. *)
LEMMA RetoldRuns ==
    ASSUME NEW w, NEW v, Typed(w), Retold(w, v),
           v.up.header.state = "filename_body" => Len(v.up.values) > 0
    PROVE  Runs(w, v) /\ Touches(w, v) /\ \A w1 : Touches(v, w1) => Touches(w, w1)
<1>1. /\ v \in Puts /\ Alike(w, v) /\ SamePut(w, v)
      /\ v.error = w.error /\ v.opened = w.opened /\ v.up.torn = w.up.torn
    BY DEF Retold
<1>2. /\ v.files = w.files /\ v.view = w.view /\ v.at = w.at
      /\ v.up.file = w.up.file /\ v.up.wrote = w.up.wrote
    BY <1>1 DEF Alike
<1>3. v.up.mode = w.up.mode
    BY <1>1 DEF SamePut
<1>4. OpenIsThere(v) /\ v.at - 1 <= Len(v.view)
    BY <1>2 DEF Typed, OpenIsThere
<1>5. Typed(v)
    BY <1>1, <1>4 DEF Typed
<1>6. Touches(w, v)
    BY <1>1, <1>2 DEF Touches, Writes
<1>7. \A w1 : Touches(v, w1) => Touches(w, w1)
    BY <1>1, <1>2, <1>3 DEF Touches, Writes, Makes
<1>8. \A w0 : Framed(w0, w) => Framed(w0, v)
    BY <1>1, <1>6, FramedStep
<1>9. Runs(w, v)
    BY <1>1, <1>5, <1>8 DEF Runs
<1> QED
    BY <1>6, <1>7, <1>9

(* The header parser begins with content-disposition. *)
LEMMA FirstHeaderIs ==
    FirstHeader \in Headers /\ Done(FirstHeader, "content_disposition", 1, "none")
<1>1. Done(FirstHeader, "content_disposition", 1, "none")
    BY GoesOn DEF FirstHeader
<1>2. FirstHeader \in Headers
    BY DEF FirstHeader, At, Headers, HeaderStates, TextStates, Events
<1> QED
    BY <1>1, <1>2

(* The first i - 1 parts have been taken, and the next has not begun. *)
BetweenOf(w, i) ==
    /\ ~w.error
    /\ w.up.form \in AllForms
    /\ Earlier(w.up, w.files, i) /\ AtStart(w.up, i)
    /\ Expects(w.up.header, "content_disposition", 1)

(* An event of a part, in a put. *)
LEMMA PassesRuns ==
    ASSUME NEW w, Typed(w), NEW w1, Passes(w, w1),
           w1.up.header.state = "filename_body" => Len(w1.up.values) > 0
    PROVE  Runs(w, w1)
<1>1. /\ w1 \in Puts /\ Keeps(w, w1) /\ OpenIsThere(w1)
      /\ w.error => w1.error
      /\ Touches(w, w1)
    BY DEF Passes
<1>2. SamePut(w, w1)
    BY <1>1 DEF Keeps, SamePut
<1>3. w1.at = w.at /\ w1.view = w.view /\ (w.up.torn => w1.up.torn)
    BY <1>1 DEF Keeps
<1>4. w1.at - 1 <= Len(w1.view)
    BY <1>3 DEF Typed
<1>5. Typed(w1)
    BY <1>1, <1>4 DEF Typed
<1>6. \A w0 : Framed(w0, w) => Framed(w0, w1)
    BY <1>1, <1>2, FramedStep
<1> QED
    BY <1>1, <1>2, <1>3, <1>5, <1>6 DEF Runs

(* The number of bytes of a part. *)
LEMMA LengthIs ==
    ASSUME NEW part \in Parts
    PROVE  LET m == Len(EncodedPart(part))
               b == BodyAt(part)
               n == Len(part.file)
           IN  /\ m \in Nat /\ m >= b /\ b \in Nat /\ b >= 7 /\ n \in Nat
               /\ IsFile(part) => b = 14 + n
<1> DEFINE m == Len(EncodedPart(part))
           b == BodyAt(part)
           c == Len(part.content)
<1>1. m = b + c
    BY PartIs
<1>2. b \in Nat /\ b >= 7 /\ c \in Nat /\ Len(part.file) \in Nat
      /\ (IsFile(part) => b = 14 + Len(part.file))
    BY BodyAtIs
<1>3. m \in Nat /\ m >= b
  <2> HIDE DEF m, b, c
  <2> QED
    BY <1>1, <1>2
<1> QED
    BY <1>2, <1>3

(* A whole part has been read. *)
LEMMA WholeRead ==
    ASSUME NEW part \in Parts, NEW h, Reads(part, h, Len(EncodedPart(part)))
    PROVE  Expects(h, "body", 1)
<1> DEFINE m == Len(EncodedPart(part))
           b == BodyAt(part)
           n == Len(part.file)
<1>1. m \in Nat /\ m >= b /\ b \in Nat /\ b >= 7 /\ n \in Nat /\ (IsFile(part) => b = 14 + n)
    BY LengthIs
<1>2. \/ m = 0
      \/ m \in 1 .. 2
      \/ m = 3
      \/ IsFile(part) /\ m = 4
      \/ IsFile(part) /\ m \in 5 .. n + 5
      \/ IsFile(part) /\ m = n + 6
      \/ IsFile(part) /\ m = n + 7
      \/ IsFile(part) /\ m = n + 8
      \/ IsFile(part) /\ m \in n + 9 .. n + 10
      \/ m = b - 3
      \/ m = b - 2
      \/ m = b - 1
      \/ m >= b /\ Expects(h, "body", 1)
    BY Zenon DEF Reads
<1> HIDE DEF m, b, n
<1> QED
    BY <1>1, <1>2

(* At the end of a part its content is being taken. *)
LEMMA WholeTaken ==
    ASSUME NEW up, NEW fs, NEW i, NEW q, up.form[i] \in Parts,
           Current(up, fs, i, Len(EncodedPart(up.form[i])), q)
    PROVE  IF IsFile(up.form[i]) THEN InFile(up, fs, i, q) ELSE InContent(up, i, q)
<1> DEFINE part == up.form[i]
           m == Len(EncodedPart(part))
           b == BodyAt(part)
           n == Len(part.file)
<1>1. m \in Nat /\ m >= b /\ b \in Nat /\ b >= 7 /\ n \in Nat /\ (IsFile(part) => b = 14 + n)
    BY LengthIs
<1>2. \/ m = 0
      \/ m \in 1 .. 2
      \/ m < b
      \/ IsFile(part) /\ m \in 5 .. 5 + n
      \/ IsFile(part) /\ InFile(up, fs, i, q)
      \/ ~IsFile(part) /\ InContent(up, i, q)
    BY Zenon DEF Current
<1>3. \/ IsFile(part) /\ InFile(up, fs, i, q)
      \/ ~IsFile(part) /\ InContent(up, i, q)
  <2> HIDE DEF m, b, n
  <2> QED
    BY <1>1, <1>2
<1> QED
    BY <1>3

(* A part ends. *)
LEMMA EndMessageRuns ==
    ASSUME NEW w, Typed(w), w.up.message, NEW i,
           Sound(w) => MidOf(w, i, Len(EncodedPart(w.up.form[i]))),
           Base(w) + w.at - 1 = Behind(w.up.form, i)
    PROVE  LET w1 == EndMessage(w)
           IN  /\ Runs(w, w1) /\ w1.at = w.at /\ w1.up.parser = w.up.parser /\ ~w1.up.message
               /\ Sound(w1) => BetweenOf(w1, i + 1)
<1> DEFINE v == [w EXCEPT !.up = [w.up EXCEPT !.message = FALSE]]
           v1 == [v EXCEPT !.up = [v.up EXCEPT !.header = FirstHeader]]
           w1 == EndMessage(w)
           part == w.up.form[i]
<1>0. /\ w \in Puts /\ w.at - 1 <= Len(w.view) /\ OpenIsThere(w)
      /\ w.up.header.state = "filename_body" => Len(w.up.values) > 0
    BY DEF Typed
<1>1. Retold(w, v) /\ v.up.message = FALSE /\ v.up.header = w.up.header /\ v.up.parser = w.up.parser
    BY <1>0, SetMessage
<1>2. v \in Puts /\ Alike(w, v) /\ v.up.torn = w.up.torn
    BY <1>1 DEF Retold
<1>3. w1 = IF w.up.header.state # "body" THEN v ELSE PartEvent(v1, "end_body")
  <2>1. [w EXCEPT !.up.message = FALSE] = v
    OBVIOUS
  <2>2. w1 = IF v.up.header.state # "body" THEN v
             ELSE PartEvent([v EXCEPT !.up.header = FirstHeader], "end_body")
    <3> HIDE DEF v
    <3>1. w1 = LET x == [w EXCEPT !.up.message = FALSE]
               IN  IF w.up.header.state # "body" THEN x
                   ELSE PartEvent([x EXCEPT !.up.header = FirstHeader], "end_body")
        BY DEF EndMessage
    <3> QED
        BY <3>1, <2>1, <1>1
  <2> HIDE DEF v, w1
  <2> QED
    BY <1>1, <2>2
<1> HIDE DEF v
<1>4. Retold(v, v1) /\ v1.up.header = FirstHeader /\ v1.up.message = v.up.message
      /\ v1.up.parser = v.up.parser
    BY <1>2, FirstHeaderIs, SetHeader
<1> HIDE DEF v1, w1
<1>5. v1 \in Puts /\ Alike(v, v1) /\ v1.up.torn = v.up.torn /\ v1.error = v.error
    BY <1>4 DEF Retold
<1>6. v.up.values = w.up.values /\ v1.up.values = w.up.values
    BY <1>2, <1>5 DEF Alike
<1>7. Runs(w, v) /\ Typed(v)
  <2>1. v.up.header.state = "filename_body" => Len(v.up.values) > 0
    BY <1>0, <1>1, <1>6
  <2> QED
    BY <1>1, <2>1, RetoldRuns DEF Runs
<1>8. Runs(w, v1) /\ Typed(v1)
  <2>1. v1.up.header.state # "filename_body"
    BY <1>4, FirstHeaderIs DEF Done
  <2>2. Runs(v, v1)
    BY <1>4, <1>7, <2>1, RetoldRuns
  <2> QED
    BY <1>7, <2>2, RunsOn DEF Runs
<1>9. v.at = w.at /\ v1.at = w.at
    BY <1>2, <1>5 DEF Alike
<1>10. CASE w.up.header.state # "body"
  <2>1. w1 = v
    BY <1>3, <1>10
  <2>2. ~Sound(v)
    <3> SUFFICES ASSUME Sound(v) PROVE FALSE
        OBVIOUS
    <3>1. Sound(w)
        BY <1>1, <1>2 DEF Sound, Retold, SamePut
    <3>2. Reads(part, w.up.header, Len(EncodedPart(part))) /\ Ready(w, i)
        BY <3>1, MidHas
    <3>3. part \in Parts
        BY <3>2, ReadyHas
    <3>8. Expects(w.up.header, "body", 1)
        BY <3>2, <3>3, WholeRead
    <3> QED
        BY <3>8, <1>10 DEF Expects
  <2> QED
    BY <1>1, <1>7, <1>9, <2>1, <2>2 DEF w1
<1>11. CASE w.up.header.state = "body"
  <2>1. w1 = PartEvent(v1, "end_body")
    BY <1>3, <1>11
  <2>2. v1.at - 1 <= Len(v1.view) /\ OpenIsThere(v1)
    BY <1>8 DEF Typed
  <2>3. Passes(v1, w1)
    BY <1>5, <2>1, <2>2, PartEventPasses DEF PartEvents
  <2>4. /\ w1.at = v1.at /\ w1.up.parser = v1.up.parser /\ w1.up.message = v1.up.message
        /\ w1.up.header = v1.up.header /\ w1.up.torn = v1.up.torn /\ w1.up.crossed = v1.up.crossed
        /\ w1.up.form = v1.up.form
    BY <2>3 DEF Passes, Keeps
  <2>5. w1.up.header.state # "filename_body" /\ Expects(w1.up.header, "content_disposition", 1)
    BY <1>4, <2>4, FirstHeaderIs DEF Done, Expects
  <2>6. Runs(w, w1)
    BY <1>8, <2>3, <2>5, PassesRuns, RunsOn
  <2>7. w1.at = w.at /\ w1.up.parser = w.up.parser /\ ~w1.up.message
    BY <1>1, <1>4, <1>9, <2>4
  <2>8. ASSUME Sound(w1) PROVE BetweenOf(w1, i + 1)
    <3>1. Sound(w)
        BY <2>6, <2>8, SameBase DEF Runs
    <3>2. MidOf(w, i, Len(EncodedPart(part)))
        BY <3>1
    <3>3. /\ Ready(w, i) /\ ~w.error
          /\ Current(w.up, w.files, i, Len(EncodedPart(part)), Written(w))
          /\ w.up.is_writable => Right(w)
        BY <3>2, MidHas
    <3>4. part \in Parts
        BY <3>3, ReadyHas
    <3>9. IF IsFile(part) THEN InFile(w.up, w.files, i, Written(w))
          ELSE InContent(w.up, i, Written(w))
        BY <3>3, <3>4, WholeTaken
    <3>10. Right(w)
        BY <3>3, <3>9 DEF InFile, InContent
    <3>11. Alike(w, v1)
        BY <1>2, <1>5 DEF Alike
    <3>12. Ready(v1, i) /\ Right(v1) /\ Base(v1) = Base(w) /\ Written(v1) = Written(w)
        BY <1>5, <3>3, <3>10, <3>11, AlikePhase
    <3>13. v1.up.form = w.up.form
        BY <3>11 DEF Alike
    <3>14. IF IsFile(v1.up.form[i]) THEN InFile(v1.up, v1.files, i, Written(v1))
           ELSE InContent(v1.up, i, Written(v1))
        <4>1. Entered(w.up, i) => Entered(v1.up, i)
            BY <3>11 DEF Alike, Entered
        <4>2. CASE IsFile(part)
            BY <3>9, <3>11, <3>12, <3>13, <4>1, <4>2 DEF InFile, Alike
        <4>3. CASE ~IsFile(part)
            BY <3>9, <3>11, <3>12, <3>13, <4>1, <4>3 DEF InContent, Alike
        <4> QED
            BY <4>2, <4>3, <3>13
    <3>15. Base(v1) + v1.at - 1 = Behind(v1.up.form, i)
        BY <1>9, <3>12, <3>13
    <3>16. /\ w1 \in Puts /\ Keeps(v1, w1) /\ w1.error = v1.error
           /\ Earlier(w1.up, w1.files, i + 1) /\ AtStart(w1.up, i + 1)
        <4>1. v1.works.closes \/ ~PartEvent(v1, "end_body").error
            BY <2>1, <2>3, <2>8 DEF Sound, Serves, Passes, Keeps
        <4> QED
            BY <2>1, <3>12, <3>14, <3>15, <4>1, BodyEnds
    <3>17. ~w1.error
        BY <1>1, <1>5, <3>3, <3>16 DEF Retold
    <3>18. w1.up.form \in AllForms
        BY <2>4, <3>3, <3>13, ReadyHas
    <3> QED
        BY <2>5, <3>16, <3>17, <3>18 DEF BetweenOf
  <2> QED
    BY <2>6, <2>7, <2>8 DEF w1
<1> QED
    BY <1>10, <1>11

-----------------------------------------------------------------------------
(* Where the parser of the stream is, when it has read k bytes *)

Settled(w) == Base(w) + w.at - 1

InPreamble(w, k) ==
    /\ w.up.parser.state = "preamble" /\ w.up.parser.matched = k /\ k \in 0 .. 4
    /\ ~w.up.message /\ Settled(w) = 0
    /\ Sound(w) => BetweenOf(w, 1)

(* What is held back may be the beginning of the delimiter. *)
InPart(w, k, i) ==
    LET m == w.up.parser.matched
        s == Settled(w)
        a == Before(w.up.form, i)
        e == Behind(w.up.form, i)
    IN  /\ w.up.parser.state \in {"first_message", "encapsulation"} /\ w.up.message
        /\ m \in 0 .. 4 /\ k = s + m
        /\ a <= s /\ s <= e /\ k <= e + 4 /\ (k > e => s = e)
        /\ \A j \in 1 .. m : Sent[w.up.form][s + j] = Encapsulation[j]
        /\ Sound(w) => MidOf(w, i, s - a)

BehindPart(w, k, i) ==
    LET e == Behind(w.up.form, i)
    IN  /\ ~w.up.message /\ Settled(w) = e + 5
        /\ \/ w.up.parser.state = "maybe_end_or_encapsulation" /\ k = e + 5
           \/ w.up.parser.state = "maybe_encapsulation" /\ k = e + 6 /\ i < Len(w.up.form)
           \/ w.up.parser.state = "maybe_end" /\ k = e + 6 /\ i = Len(w.up.form)
        /\ Sound(w) => BetweenOf(w, i + 1)

InEpilogue(w, k) ==
    LET n == Len(w.up.form)
    IN  /\ w.up.parser.state = "epilogue" /\ ~w.up.message
        /\ Settled(w) = k /\ k >= Behind(w.up.form, n) + 7
        /\ Sound(w) => BetweenOf(w, n + 1)

Stands(w, k) ==
    /\ w.up.form \in AllForms
    /\ \/ InPreamble(w, k)
       \/ \E i \in 1 .. Len(w.up.form) : InPart(w, k, i) \/ BehindPart(w, k, i)
       \/ InEpilogue(w, k)

(* What differs only in the states of the parsers is at the same place. *)
LEMMA RetoldPhase ==
    ASSUME NEW w, NEW v, Retold(w, v), v.up.header = w.up.header
    PROVE  /\ Settled(v) = Settled(w) /\ Base(v) = Base(w) /\ v.up.form = w.up.form /\ v.at = w.at
           /\ v.view = w.view /\ v.up.mode = w.up.mode
           /\ Sound(v) => Sound(w)
           /\ ViewIs(w) => ViewIs(v)
           /\ \A i, l : MidOf(w, i, l) => MidOf(v, i, l)
           /\ \A i : BetweenOf(w, i) => BetweenOf(v, i)
<1>1. /\ v \in Puts /\ Alike(w, v) /\ SamePut(w, v)
      /\ v.error = w.error /\ v.up.torn = w.up.torn
    BY DEF Retold
<1>2. v.at = w.at /\ v.up.form = w.up.form /\ v.up.is_writable = w.up.is_writable
    BY <1>1 DEF Alike
<1>3. Base(v) = Base(w) /\ (ViewIs(w) => ViewIs(v)) /\ (Sound(v) => Sound(w)) /\ v.view = w.view
      /\ v.up.mode = w.up.mode
    BY <1>1, SameBase
<1>4. Settled(v) = Settled(w)
    BY <1>2, <1>3 DEF Settled
<1>5. ASSUME NEW i, NEW l, MidOf(w, i, l) PROVE MidOf(v, i, l)
  <2>1. /\ Ready(w, i) /\ ~w.error
        /\ Reads(w.up.form[i], w.up.header, l)
        /\ Current(w.up, w.files, i, l, Written(w))
        /\ w.up.is_writable => Right(w)
    BY <1>5, MidHas
  <2>2. Ready(v, i) /\ Current(v.up, v.files, i, l, Written(v)) /\ (Right(w) => Right(v))
    BY <1>1, <2>1, AlikePhase
  <2> QED
    BY <1>1, <1>2, <2>1, <2>2 DEF MidOf
<1>6. ASSUME NEW i, BetweenOf(w, i) PROVE BetweenOf(v, i)
  <2>1. /\ ~w.error /\ w.up.form \in AllForms
        /\ Earlier(w.up, w.files, i) /\ AtStart(w.up, i)
        /\ Expects(w.up.header, "content_disposition", 1)
    BY <1>6 DEF BetweenOf
  <2>2. Earlier(v.up, v.files, i) /\ AtStart(v.up, i)
    BY <1>1, <2>1, AlikePhase
  <2> QED
    BY <1>1, <1>2, <2>1, <2>2 DEF BetweenOf
<1> QED
    BY <1>2, <1>3, <1>4, <1>5, <1>6

-----------------------------------------------------------------------------
(* A byte of the stream *)

(* The fields of a step of the parser. *)
LEMMA StepIs ==
    ASSUME NEW state, NEW matched, NEW advance, NEW event
    PROVE  LET p == Step(state, matched, advance, event)
           IN  p.state = state /\ p.matched = matched /\ p.advance = advance /\ p.event = event
BY DEF Step

Parsing(w, state, matched) == [w EXCEPT !.up = [w.up EXCEPT !.parser = [state |-> state, matched |-> matched]]]

(* The reader v is w with that parser. *)
ParsesAs(w, v, state, matched) ==
    /\ Retold(w, v) /\ Runs(w, v) /\ Typed(v)
    /\ v.up.parser.state = state /\ v.up.parser.matched = matched
    /\ v.up.message = w.up.message /\ v.up.header = w.up.header

(* Another state of the parser changes nothing else. *)
LEMMA ParsingIs ==
    ASSUME NEW w, Typed(w), NEW state \in ParserStates, NEW matched \in Nat
    PROVE  ParsesAs(w, Parsing(w, state, matched), state, matched)
<1> DEFINE p == [state |-> state, matched |-> matched]
           v == [w EXCEPT !.up = [w.up EXCEPT !.parser = p]]
<1>0. w \in Puts /\ (w.up.header.state = "filename_body" => Len(w.up.values) > 0)
    BY DEF Typed
<1>1. p \in [state : ParserStates, matched : Nat] /\ p.state = state /\ p.matched = matched
    OBVIOUS
<1>2. Parsing(w, state, matched) = v
    BY DEF Parsing
<1> HIDE DEF p
<1>3. /\ Retold(w, v) /\ v.up.parser = p /\ v.up.message = w.up.message
      /\ v.up.header = w.up.header
    BY <1>0, <1>1, SetParser
<1> HIDE DEF v
<1>4. v.up.values = w.up.values
    BY <1>3 DEF Retold, Alike
<1>5. Runs(w, v)
    BY <1>0, <1>3, <1>4, RetoldRuns
<1>6. Typed(v)
    BY <1>5 DEF Runs
<1>7. v.up.parser.state = state /\ v.up.parser.matched = matched
    BY <1>1, <1>3
<1>8. ParsesAs(w, v, state, matched)
    BY <1>3, <1>5, <1>6, <1>7, Zenon DEF ParsesAs
<1> QED
    BY <1>2, <1>8, Zenon

(* What a byte of the stream does, by the event of the parser. *)
LEMMA ByteIs ==
    ASSUME NEW w, ~w.error, NEW c, NEW state, NEW matched, NEW advance, NEW event,
           HandleChar(w.up.parser, c) = Step(state, matched, advance, event)
    PROVE  LET v == Parsing(w, state, matched)
           IN  /\ event = "none" => Byte(w, c) = Advance(v, advance)
               /\ event = "message_begin" => Byte(w, c) = [Advance(v, advance) EXCEPT !.up.message = TRUE]
               /\ event = "message_end" => Byte(w, c) = Advance(EndMessage(v), advance)
<1> DEFINE v == Parsing(w, state, matched)
           p == Step(state, matched, advance, event)
<1>1. p.state = state /\ p.matched = matched /\ p.advance = advance /\ p.event = event
    BY StepIs
<1> HIDE DEF p
<1>2. Byte(w, c) = Stepped(w, p)
    BY DEF Byte, p
<1>3. Stepped(w, p) = Handled([w EXCEPT !.up.parser = [state |-> p.state, matched |-> p.matched]], p)
    BY DEF Stepped
<1>4. [w EXCEPT !.up.parser = [state |-> p.state, matched |-> p.matched]] = v
    BY <1>1 DEF Parsing
<1> HIDE DEF v
<1>5. Byte(w, c) = Handled(v, p)
    BY <1>2, <1>3, <1>4
<1>6. /\ event = "none" => Handled(v, p) = Advance(v, advance)
      /\ event = "message_begin" => Handled(v, p) = [Advance(v, advance) EXCEPT !.up.message = TRUE]
      /\ event = "message_end" => Handled(v, p) = Advance(EndMessage(v), advance)
    BY <1>1 DEF Handled
<1> QED
    BY <1>5, <1>6 DEF v

(* What the parser of the stream does with a byte. *)
LEMMA HandleCharIs ==
    ASSUME NEW p, NEW c
    PROVE  /\ p.state = "preamble" =>
                HandleChar(p, c) = Check("preamble", p.matched, Search(Preamble, p.matched, c))
           /\ p.state \in {"first_message", "encapsulation"} =>
                HandleChar(p, c) = Check(p.state, p.matched, Search(Encapsulation, p.matched, c))
           /\ p.state = "maybe_end_or_encapsulation" /\ c = Dash =>
                HandleChar(p, c) = Step("maybe_end", 0, 0, "none")
           /\ p.state = "maybe_end_or_encapsulation" /\ c = CR =>
                HandleChar(p, c) = Step("maybe_encapsulation", 0, 0, "none")
           /\ p.state = "maybe_end" /\ c = Dash => HandleChar(p, c) = Step("epilogue", 0, 2, "none")
           /\ p.state = "maybe_encapsulation" /\ c = LF =>
                HandleChar(p, c) = Step("encapsulation", 0, 2, "message_begin")
           /\ p.state = "epilogue" => HandleChar(p, c) = Step("epilogue", 0, 1, "none")
<1>0. CR # Dash
    BY BytesDiffer
<1>1. p.state = "preamble" =>
                HandleChar(p, c) = Check("preamble", p.matched, Search(Preamble, p.matched, c))
    BY DEF HandleChar, Delimiter
<1>2. p.state = "first_message" =>
                HandleChar(p, c) = Check(p.state, p.matched, Search(Encapsulation, p.matched, c))
    BY DEF HandleChar, Delimiter
<1>3. p.state = "encapsulation" =>
                HandleChar(p, c) = Check(p.state, p.matched, Search(Encapsulation, p.matched, c))
    BY DEF HandleChar, Delimiter
<1>4. p.state = "maybe_end_or_encapsulation" /\ c = Dash =>
                HandleChar(p, c) = Step("maybe_end", 0, 0, "none")
    BY DEF HandleChar
<1>5. p.state = "maybe_end_or_encapsulation" /\ c = CR =>
                HandleChar(p, c) = Step("maybe_encapsulation", 0, 0, "none")
    BY <1>0 DEF HandleChar
<1>6. p.state = "maybe_end" /\ c = Dash => HandleChar(p, c) = Step("epilogue", 0, 2, "none")
    BY DEF HandleChar
<1>7. p.state = "maybe_encapsulation" /\ c = LF =>
                HandleChar(p, c) = Step("encapsulation", 0, 2, "message_begin")
    BY DEF HandleChar
<1>8. p.state = "epilogue" => HandleChar(p, c) = Step("epilogue", 0, 1, "none")
    BY DEF HandleChar
<1>9. p.state \in {"first_message", "encapsulation"} =>
                HandleChar(p, c) = Check(p.state, p.matched, Search(Encapsulation, p.matched, c))
  <2> DEFINE x == HandleChar(p, c)
             y == Check(p.state, p.matched, Search(Encapsulation, p.matched, c))
  <2>1. (p.state = "first_message" => x = y) /\ (p.state = "encapsulation" => x = y)
    BY <1>2, <1>3
  <2> HIDE DEF x, y
  <2>2. p.state \in {"first_message", "encapsulation"} => x = y
    BY <2>1
  <2> QED
    BY <2>2 DEF x, y
<1> QED
    BY <1>1, <1>4, <1>5, <1>6, <1>7, <1>8, <1>9

(* What the parser does when n bytes match: it goes on, or the delimiter is*)
(* complete.                                                               *)
LEMMA CheckIs ==
    ASSUME NEW matched \in 0 .. 4, NEW n \in 0 .. 5, NEW state
    PROVE  /\ n < 5 =>
                Check(state, matched, n) = Step(state, n, matched + 1 - n, "none")
           /\ n = 5 => Check("preamble", matched, n) = Step("first_message", 0, 5, "message_begin")
           /\ n = 5 /\ state # "preamble" =>
                Check(state, matched, n) = Step("maybe_end_or_encapsulation", 0, 5, "message_end")
<1>1. Len(Delimiter(state)) = 5 /\ Len(Delimiter("preamble")) = 5
    BY DelimitersAre DEF Delimiter
<1>2. ASSUME n < 5 PROVE Check(state, matched, n) = Step(state, n, matched + 1 - n, "none")
  <2>1. n < Len(Delimiter(state))
    BY <1>1, <1>2
  <2> QED
    BY <2>1 DEF Check
<1>3. ASSUME n = 5 PROVE Check("preamble", matched, n) = Step("first_message", 0, 5, "message_begin")
  <2> DEFINE m == Len(Delimiter("preamble"))
  <2>0. m = 5
    BY <1>1
  <2>1. ~(n < m)
    <3> HIDE DEF m
    <3> QED
        BY <1>3, <2>0
  <2> QED
    BY <1>3, <2>1 DEF Check
<1>4. ASSUME n = 5, state # "preamble"
      PROVE  Check(state, matched, n) = Step("maybe_end_or_encapsulation", 0, 5, "message_end")
  <2> DEFINE m == Len(Delimiter(state))
  <2>0. m = 5
    BY <1>1
  <2>1. ~(n < m)
    <3> HIDE DEF m
    <3> QED
        BY <1>4, <2>0
  <2> QED
    BY <1>4, <2>1 DEF Check
<1> QED
    BY <1>2, <1>3, <1>4

(* The (k + 1)-th byte is the next. *)
Meets1(w, k) ==
    /\ Typed(w) /\ ~w.error /\ ViewIs(w) /\ k \in Nat
    /\ k + 1 <= Base(w) + Len(w.view)
    /\ w.up.form \in AllForms /\ k + 1 <= Len(Sent[w.up.form])
    /\ Sound(w) => dir \/ w.up.mode = "ignore"

(* What holds where the next byte is read. *)
LEMMA MeetsHas ==
    ASSUME NEW w, NEW k, Meets1(w, k)
    PROVE  /\ Typed(w) /\ ~w.error /\ ViewIs(w) /\ k \in Nat /\ w \in Puts
           /\ k + 1 <= Base(w) + Len(w.view) /\ Base(w) \in Int /\ Len(w.view) \in Nat
           /\ w.up.form \in AllForms /\ k + 1 <= Len(Sent[w.up.form])
           /\ Sound(w) => dir \/ w.up.mode = "ignore"
           /\ w.at \in Nat /\ w.at > 0 /\ Settled(w) \in Int /\ w.at = Settled(w) - Base(w) + 1
<1>1. /\ Typed(w) /\ ~w.error /\ ViewIs(w) /\ k \in Nat
      /\ k + 1 <= Base(w) + Len(w.view)
      /\ w.up.form \in AllForms /\ k + 1 <= Len(Sent[w.up.form])
      /\ Sound(w) => dir \/ w.up.mode = "ignore"
    BY DEF Meets1
<1>2. w \in Puts
    BY <1>1 DEF Typed
<1>3. Base(w) \in Int /\ Len(w.view) \in Nat /\ w.at \in Nat /\ w.at > 0
    BY <1>2, BaseIs, PutHas, LenProperties
<1>4. Settled(w) \in Int /\ w.at = Settled(w) - Base(w) + 1
    BY <1>3 DEF Settled
<1> QED
    BY <1>1, <1>2, <1>3, <1>4

(* Bytes that belong to no part are settled. *)
LEMMA AdvanceQuiet ==
    ASSUME NEW v, Typed(v), ~v.up.message, NEW n \in Nat,
           Settled(v) + n <= Base(v) + Len(v.view)
    PROVE  LET w1 == Advance(v, n)
           IN  /\ Runs(v, w1) /\ Typed(w1) /\ Settled(w1) = Settled(v) + n
               /\ w1.up = v.up
               /\ Sound(w1) => Sound(v)
               /\ \A i : BetweenOf(v, i) => BetweenOf(w1, i)
<1> DEFINE w1 == Advance(v, n)
           bv == Base(v)
           lv == Len(v.view)
           at == v.at
           b1 == Base(w1)
           at1 == w1.at
<1>0. v \in Puts
    BY DEF Typed
<1>1. bv \in Int /\ lv \in Nat /\ at \in Nat /\ bv + at - 1 + n <= bv + lv
    BY <1>0, BaseIs, PutHas, LenProperties DEF Settled
<1>2. at - 1 + n <= lv
  <2> HIDE DEF bv, lv, at
  <2> QED
    BY <1>1
<1>3. /\ Runs(v, w1) /\ w1.at = v.at + n
      /\ w1.up = v.up /\ w1.files = v.files /\ w1.error = v.error
      /\ w1.from = v.from
    BY <1>2, AdvanceRuns
<1> HIDE DEF w1
<1>4. b1 = bv
    BY <1>3 DEF Base
<1>5. Settled(w1) = Settled(v) + n
  <2>1. b1 + at1 - 1 = bv + at - 1 + n
    <3>1. at1 = at + n /\ b1 = bv /\ bv \in Int /\ at \in Nat
        BY <1>1, <1>3, <1>4
    <3> HIDE DEF b1, at1, bv, at
    <3> QED
        BY <3>1
  <2> QED
    BY <2>1 DEF Settled
<1>6. \A i : BetweenOf(v, i) => BetweenOf(w1, i)
    BY <1>3 DEF BetweenOf
<1>7. Sound(w1) => Sound(v)
    BY <1>3, SameBase DEF Runs
<1> QED
    BY <1>3, <1>5, <1>6, <1>7 DEF w1, Runs

(* A part begins. *)
LEMMA BeginMessage ==
    ASSUME NEW x, Typed(x)
    PROVE  LET y == [x EXCEPT !.up.message = TRUE]
           IN  /\ Runs(x, y) /\ Settled(y) = Settled(x) /\ y.up.form = x.up.form
               /\ y.up.parser = x.up.parser /\ y.up.message
               /\ Sound(y) => Sound(x)
               /\ \A i \in 1 .. Len(x.up.form) : BetweenOf(x, i) => MidOf(y, i, 0)
<1> DEFINE y == [x EXCEPT !.up = [x.up EXCEPT !.message = TRUE]]
<1>0. x \in Puts /\ (x.up.header.state = "filename_body" => Len(x.up.values) > 0)
    BY DEF Typed
<1>1. [x EXCEPT !.up.message = TRUE] = y
    OBVIOUS
<1>2. Retold(x, y) /\ y.up.message = TRUE /\ y.up.header = x.up.header
      /\ y.up.parser = x.up.parser
    BY <1>0, SetMessage
<1> HIDE DEF y
<1>3. y.up.values = x.up.values
    BY <1>2 DEF Retold, Alike
<1>4. Runs(x, y)
    BY <1>0, <1>2, <1>3, RetoldRuns
<1>5. /\ Settled(y) = Settled(x) /\ y.up.form = x.up.form
      /\ Sound(y) => Sound(x)
      /\ \A i : BetweenOf(x, i) => BetweenOf(y, i)
    BY <1>2, RetoldPhase
<1>6. ASSUME NEW i \in 1 .. Len(x.up.form), BetweenOf(x, i)
      PROVE  MidOf(y, i, 0)
  <2>1. /\ ~y.error /\ y.up.form \in AllForms
        /\ Earlier(y.up, y.files, i) /\ AtStart(y.up, i)
        /\ Expects(y.up.header, "content_disposition", 1)
    BY <1>5, <1>6 DEF BetweenOf
  <2>2. y \in Puts /\ y.at - 1 <= Len(y.view) /\ OpenIsThere(y)
    BY <1>4 DEF Runs, Typed
  <2>3. Ready(y, i)
    BY <1>5, <2>1, <2>2 DEF Ready
  <2>4. Reads(y.up.form[i], y.up.header, 0)
    BY <2>1 DEF Reads
  <2>5. Current(y.up, y.files, i, 0, Written(y))
    BY <2>1 DEF Current
  <2>6. ~y.up.is_writable
    BY <2>1 DEF AtStart
  <2> QED
    BY <2>1, <2>3, <2>4, <2>5, <2>6 DEF MidOf
<1> QED
    BY <1>1, <1>2, <1>4, <1>5, <1>6

-----------------------------------------------------------------------------
(* The first delimiter *)

(* A byte of the first delimiter keeps the reader where it should stand. *)
LEMMA PreambleByte ==
    ASSUME NEW w, NEW k, Meets1(w, k), InPreamble(w, k)
    PROVE  LET w1 == Byte(w, Sent[w.up.form][k + 1])
           IN  Runs(w, w1) /\ Stands(w1, k + 1)
<1> DEFINE form == w.up.form
           c == Sent[form][k + 1]
           w1 == Byte(w, c)
<1>0. /\ Typed(w) /\ ~w.error /\ k \in Nat /\ w \in Puts
      /\ k + 1 <= Base(w) + Len(w.view) /\ Base(w) \in Int /\ Len(w.view) \in Nat
      /\ form \in AllForms
    BY MeetsHas
<1>1. /\ w.up.parser.state = "preamble" /\ w.up.parser.matched = k /\ k \in 0 .. 4
      /\ ~w.up.message /\ Settled(w) = 0
      /\ Sound(w) => BetweenOf(w, 1)
    BY DEF InPreamble
<1>2. c = Preamble[k + 1]
  <2>1. k + 1 \in 1 .. 5
    BY <1>1
  <2> QED
    BY <1>0, <2>1, Layout
<1>3. Search(Preamble, k, c) = k + 1
    BY <1>1, <1>2, SearchPreamble
<1>4. HandleChar(w.up.parser, c) = Check("preamble", k, k + 1)
    BY <1>1, <1>3, HandleCharIs
<1> HIDE DEF c
<1>5. CASE k < 4
  <2> DEFINE v == Parsing(w, "preamble", k + 1)
  <2>1. HandleChar(w.up.parser, c) = Step("preamble", k + 1, 0, "none")
    <3>1. k + 1 \in 0 .. 5 /\ k + 1 < 5 /\ k + 1 - (k + 1) = 0
        BY <1>1, <1>5
    <3> QED
        BY <1>1, <1>4, <3>1, CheckIs
  <2>2. w1 = Advance(v, 0)
    BY <1>0, <2>1, ByteIs
  <2>3. /\ Retold(w, v) /\ Runs(w, v) /\ Typed(v)
        /\ v.up.parser.state = "preamble" /\ v.up.parser.matched = k + 1
        /\ v.up.message = w.up.message /\ v.up.header = w.up.header
    <3>1. "preamble" \in ParserStates /\ k + 1 \in Nat
        BY <1>0 DEF ParserStates
    <3>2. ParsesAs(w, v, "preamble", k + 1)
        BY <1>0, <3>1, ParsingIs, Zenon
    <3> QED
        BY <3>2, Zenon DEF ParsesAs
  <2> HIDE DEF v, w1
  <2>4. /\ Settled(v) = 0 /\ Base(v) = Base(w) /\ v.view = w.view /\ v.up.form = form
        /\ Sound(v) => BetweenOf(v, 1)
    BY <1>1, <2>3, RetoldPhase
  <2>5. Settled(v) + 0 <= Base(v) + Len(v.view) /\ ~v.up.message
    BY <1>0, <1>1, <2>3, <2>4
  <2>6. /\ Runs(v, w1) /\ Typed(w1) /\ Settled(w1) = Settled(v) + 0
        /\ w1.up = v.up
        /\ Sound(w1) => Sound(v)
        /\ \A i : BetweenOf(v, i) => BetweenOf(w1, i)
    BY <2>2, <2>3, <2>5, AdvanceQuiet
  <2>7. Runs(w, w1)
    BY <2>3, <2>6, RunsOn
  <2>8. InPreamble(w1, k + 1)
    <3>1. k + 1 \in 0 .. 4 /\ Settled(w1) = 0
        BY <1>1, <1>5, <2>4, <2>6
    <3> QED
        BY <2>3, <2>4, <2>5, <2>6, <3>1 DEF InPreamble
  <2>9. w1.up.form = form
    BY <2>4, <2>6
  <2>10. Stands(w1, k + 1)
    BY <1>0, <2>8, <2>9 DEF Stands
  <2> QED
    BY <2>7, <2>10 DEF w1, c
<1>6. CASE k = 4
  <2> DEFINE v == Parsing(w, "first_message", 0)
             x == Advance(v, 5)
  <2>1. HandleChar(w.up.parser, c) = Step("first_message", 0, 5, "message_begin")
    <3>1. k + 1 \in 0 .. 5 /\ k + 1 = 5
        BY <1>6
    <3> QED
        BY <1>1, <1>4, <3>1, CheckIs
  <2>2. w1 = [x EXCEPT !.up.message = TRUE]
    BY <1>0, <2>1, ByteIs
  <2>3. /\ Retold(w, v) /\ Runs(w, v) /\ Typed(v)
        /\ v.up.parser.state = "first_message" /\ v.up.parser.matched = 0
        /\ v.up.message = w.up.message /\ v.up.header = w.up.header
    <3>1. "first_message" \in ParserStates /\ 0 \in Nat
        BY DEF ParserStates
    <3>2. ParsesAs(w, v, "first_message", 0)
        BY <1>0, <3>1, ParsingIs, Zenon
    <3> QED
        BY <3>2, Zenon DEF ParsesAs
  <2> HIDE DEF v
  <2>4. /\ Settled(v) = 0 /\ Base(v) = Base(w) /\ v.view = w.view /\ v.up.form = form
        /\ Sound(v) => BetweenOf(v, 1)
    BY <1>1, <2>3, RetoldPhase
  <2>5. Settled(v) + 5 <= Base(v) + Len(v.view) /\ ~v.up.message
    BY <1>0, <1>1, <1>6, <2>3, <2>4
  <2>6. /\ Runs(v, x) /\ Typed(x) /\ Settled(x) = Settled(v) + 5
        /\ x.up = v.up
        /\ Sound(x) => Sound(v)
        /\ \A i : BetweenOf(v, i) => BetweenOf(x, i)
    BY <2>3, <2>5, AdvanceQuiet
  <2> HIDE DEF x, w1
  <2>7. /\ Runs(x, w1) /\ Settled(w1) = Settled(x) /\ w1.up.form = x.up.form
        /\ w1.up.parser = x.up.parser /\ w1.up.message
        /\ Sound(w1) => Sound(x)
        /\ \A i \in 1 .. Len(x.up.form) : BetweenOf(x, i) => MidOf(w1, i, 0)
    BY <2>2, <2>6, BeginMessage
  <2>8. Runs(w, w1)
    BY <2>3, <2>6, <2>7, RunsOn
  <2>9. /\ Before(form, 1) = 5 /\ 1 \in 1 .. Len(form) /\ Behind(form, 1) \in Nat /\ Behind(form, 1) >= 5
    <3>1. Before(form, 1) = 5
        BY <1>0, Layout
    <3>2. 1 \in 1 .. Len(form)
        BY <1>0, FormFacts
    <3>3. Len(EncodedPart(form[1])) \in Nat
        BY <1>0, <3>2, PartIsSent
    <3> QED
        BY <3>1, <3>2, <3>3 DEF Behind
  <2>10. w1.up.form = form /\ Settled(w1) = 5
    BY <2>4, <2>6, <2>7
  <2>11. Sound(w1) => MidOf(w1, 1, 0)
    BY <2>4, <2>6, <2>7, <2>9
  <2>12. InPart(w1, k + 1, 1)
    <3>1. w1.up.parser.state = "first_message" /\ w1.up.parser.matched = 0 /\ w1.up.message
        BY <2>3, <2>6, <2>7
    <3> DEFINE e == Behind(form, 1)
    <3>2. 5 <= e /\ 5 <= e + 4 /\ (5 > e => 5 = e) /\ 5 - 5 = 0
        <4>1. e \in Nat /\ e >= 5
            BY <2>9
        <4> HIDE DEF e
        <4> QED
            BY <4>1
    <3>3. k + 1 = 5
        BY <1>6
    <3> QED
        BY <2>9, <2>10, <2>11, <3>1, <3>2, <3>3 DEF InPart
  <2>13. Stands(w1, k + 1)
    BY <1>0, <2>9, <2>10, <2>12 DEF Stands
  <2> QED
    BY <2>8, <2>13 DEF w1, c
<1> QED
    BY <1>1, <1>5, <1>6

(* What is held back is the beginning of a delimiter, and becomes a whole  *)
(* one only where the part ends.  s bytes are settled and m held back.     *)
Holds(form, i, s, m) ==
    LET a == Before(form, i)
        e == Behind(form, i)
    IN  /\ m \in 0 .. 4 /\ s \in Int
        /\ a <= s /\ s <= e /\ s + m <= e + 4 /\ (s + m > e => s = e)
        /\ \A j \in 1 .. m : Sent[form][s + j] = Encapsulation[j]

(* Where a part is in the stream, and what is behind it. *)
LEMMA PlacesOf ==
    ASSUME NEW form \in AllForms, NEW i \in 1 .. Len(form)
    PROVE  LET a == Before(form, i)
               e == Behind(form, i)
               l == Len(EncodedPart(form[i]))
           IN  /\ a \in Nat /\ l \in Nat /\ e \in Nat /\ e = a + l
               /\ \A j \in 1 .. l : Sent[form][a + j] = EncodedPart(form[i])[j]
               /\ \A j \in 1 .. 5 : Sent[form][e + j] = Encapsulation[j]
<1>1. LaidOut(form, i, Sent[form])
    BY Layout
<1> DEFINE a == Before(form, i)
           e == Behind(form, i)
           l == Len(EncodedPart(form[i]))
<1>2. /\ a \in Nat /\ l \in Nat
      /\ \A j \in 1 .. l : Sent[form][a + j] = EncodedPart(form[i])[j]
      /\ \A j \in 1 .. 5 : Sent[form][e + j] = Encapsulation[j]
    BY <1>1 DEF LaidOut
<1>3. e = a + l
    BY DEF Behind
<1> HIDE DEF a, l, e
<1>4. e \in Nat
    BY <1>2, <1>3
<1> QED
    BY <1>2, <1>3, <1>4 DEF a, l, e

(* A part begins at a byte, and the one behind it at the sum *)
LEMMA SpanOf ==
    ASSUME NEW form \in AllForms, NEW i \in 1 .. Len(form)
    PROVE  /\ Before(form, i) \in Nat
           /\ Len(EncodedPart(form[i])) \in Nat
           /\ Behind(form, i) = Before(form, i) + Len(EncodedPart(form[i]))
    BY PlacesOf, Zenon

(* Within a part, what matches is always a beginning of the delimiter, and *)
(* a whole one only behind the part.                                       *)
LEMMA PartSearch ==
    ASSUME NEW form \in AllForms, NEW i \in 1 .. Len(form), NEW s, NEW m, Holds(form, i, s, m),
           NEW c, c = Sent[form][s + m + 1]
    PROVE  LET n == Search(Encapsulation, m, c)
           IN  /\ n \in 0 .. 5 /\ n <= m + 1
               /\ n < 5 => Holds(form, i, s + (m + 1 - n), n)
               /\ n = 5 => m = 4 /\ s = Behind(form, i)
<1> DEFINE n == Search(Encapsulation, m, c)
           a == Before(form, i)
           e == Behind(form, i)
           l == Len(EncodedPart(form[i]))
<1>1. /\ m \in 0 .. 4 /\ s \in Int
      /\ a <= s /\ s <= e /\ s + m <= e + 4 /\ (s + m > e => s = e)
      /\ \A j \in 1 .. m : Sent[form][s + j] = Encapsulation[j]
    BY DEF Holds
<1>2. /\ a \in Nat /\ l \in Nat /\ e \in Nat /\ e = a + l
      /\ \A j \in 1 .. l : Sent[form][a + j] = EncodedPart(form[i])[j]
      /\ \A j \in 1 .. 5 : Sent[form][e + j] = Encapsulation[j]
    BY PlacesOf, Zenon
<1>3. n = IF Encapsulation[m + 1] = c THEN m + 1 ELSE IF c = CR THEN 1 ELSE 0
    BY <1>1, SearchEncapsulation
<1>4. Encapsulation[1] = CR /\ \A j \in 2 .. 5 : Encapsulation[j] # CR
  <2>1. \A j \in 2 .. 5 : j = 2 \/ j = 3 \/ j = 4 \/ j = 5
    OBVIOUS
  <2> QED
    BY <2>1, DelimitersAre, BytesDiffer, Zenon
<1>5. n \in 0 .. 5 /\ n <= m + 1
  <2> HIDE DEF n
  <2> QED
    BY <1>1, <1>3
(* The whole delimiter *)
<1>6. n = 5 => m = 4 /\ s = e
  <2> SUFFICES ASSUME n = 5 PROVE m = 4 /\ s = e
    OBVIOUS
  <2>1. m = 4 /\ c = Encapsulation[5]
    <3> HIDE DEF n
    <3> QED
        BY <1>1, <1>3
  <2>2. CASE s + m < e
    <3> DEFINE d == s - a
    <3>1. d \in 0 .. l - 5 /\ \A j \in 1 .. 5 : d + j \in 1 .. l /\ a + (d + j) = s + j
      <4>1. m = 4 /\ a \in Nat /\ l \in Nat /\ e = a + l /\ s \in Int /\ a <= s /\ s + m < e
        BY <1>1, <1>2, <2>1, <2>2
      <4> HIDE DEF a, l, e
      <4> QED
        BY <4>1
    <3>2. \A j \in 1 .. 5 : Sent[form][s + j] = Encapsulation[j]
      <4> SUFFICES ASSUME NEW j \in 1 .. 5 PROVE Sent[form][s + j] = Encapsulation[j]
        OBVIOUS
      <4>1. CASE j <= 4
        BY <1>1, <2>1, <4>1
      <4>2. CASE j = 5
        <5>1. s + m + 1 = s + j
            BY <1>1, <2>1, <4>2
        <5> QED
            BY <2>1, <4>2, <5>1
      <4> QED
        BY <4>1, <4>2
    <3> HIDE DEF d, a, l
    <3>3. \A j \in 1 .. 5 : EncodedPart(form[i])[d + j] = Encapsulation[j]
        BY <1>2, <3>1, <3>2
    <3>4. Delimited(EncodedPart(form[i]))
        BY <3>1, <3>3, DelimitersAre DEF Delimited, l
    <3> QED
        BY <3>4, FormFacts
  <2>3. CASE s + m = e
    <3>1. s + m + 1 = e + 1 /\ 1 \in 1 .. 5
        BY <2>3
    <3>2. c = Encapsulation[1]
        BY <1>2, <3>1
    <3>3. 5 \in 2 .. 5
        OBVIOUS
    <3> QED
        BY <1>4, <2>1, <3>2, <3>3
  <2>4. CASE s + m > e
    BY <1>1, <2>1, <2>4
  <2>5. s + m < e \/ s + m = e \/ s + m > e
    <3>1. s \in Int /\ m \in Int /\ e \in Int
        BY <1>1, <1>2
    <3> HIDE DEF e
    <3> QED
        BY <3>1
  <2> QED
    BY <2>2, <2>3, <2>4, <2>5
(* A beginning of it, or nothing *)
<1>7. n < 5 => Holds(form, i, s + (m + 1 - n), n)
  <2> SUFFICES ASSUME n < 5 PROVE Holds(form, i, s + (m + 1 - n), n)
    OBVIOUS
  <2> DEFINE t == s + (m + 1 - n)
  <2>0. s \in Int /\ m \in Int /\ e \in Int /\ a \in Int /\ n \in Int
    <3>1. m \in 0 .. 4 /\ s \in Int
        BY <1>1, Zenon
    <3>2. a \in Nat /\ e \in Nat
        BY <1>2, Zenon
    <3> HIDE DEF a, e, n
    <3> QED
        BY <1>5, <3>1, <3>2
  <2>1. t \in Int /\ t >= s /\ t + n = s + m + 1
    <3> HIDE DEF n
    <3> QED
        BY <2>0, <1>5
  <2>2. \A j \in 1 .. n : Sent[form][t + j] = Encapsulation[j]
    <3> HIDE DEF n, t
    <3> SUFFICES ASSUME NEW j \in 1 .. n PROVE Sent[form][t + j] = Encapsulation[j]
        OBVIOUS
    <3>1. CASE Encapsulation[m + 1] = c
      <4>1. n = m + 1 /\ t = s
        BY <1>3, <2>0, <2>1, <3>1
      <4>2. CASE j = m + 1
        <5>1. t + j = s + m + 1
            BY <2>0, <4>1, <4>2
        <5> QED
            BY <3>1, <4>2, <5>1
      <4>3. CASE j # m + 1
        <5>1. j \in 1 .. m
            BY <2>0, <4>1, <4>3
        <5> QED
            BY <1>1, <4>1, <5>1
      <4> QED
        BY <4>2, <4>3
    <3>2. CASE Encapsulation[m + 1] # c
      <4>1. n = 1 /\ c = CR
        BY <1>3, <2>0, <3>2
      <4>2. j = 1 /\ t + j = s + m + 1
        BY <2>0, <2>1, <4>1
      <4> QED
        BY <1>4, <4>1, <4>2
    <3> QED
        BY <3>1, <3>2
  <2>3. t <= e /\ t + n <= e + 4 /\ (t + n > e => t = e)
    <3>1. CASE s + m < e
      <4> HIDE DEF n, t, e
      <4>1. t + n <= e /\ n >= 0
        BY <2>0, <2>1, <3>1, <1>5
      <4> QED
        BY <2>0, <2>1, <4>1
    <3>2. CASE s + m = e
      <4>1. s + m + 1 = e + 1 /\ 1 \in 1 .. 5
        BY <3>2
      <4>2. c = CR
        BY <1>2, <1>4, <4>1
      <4>3. n = 1
        <5> HIDE DEF n
        <5>1. CASE m = 0
            BY <1>3, <1>4, <4>2, <5>1
        <5>2. CASE m # 0
            <6>1. m + 1 \in 2 .. 5
                BY <1>1, <5>2
            <6> QED
                BY <1>3, <1>4, <4>2, <6>1
        <5> QED
            BY <5>1, <5>2
      <4> HIDE DEF n, t, e
      <4> QED
        BY <2>0, <2>1, <3>2, <4>3
    <3>3. CASE s + m > e
      <4>1. s = e
        BY <1>1, <3>3
      <4>2. m + 1 \in 1 .. 5 /\ s + m + 1 = e + (m + 1)
        BY <1>1, <2>0, <4>1
      <4>3. c = Encapsulation[m + 1]
        <5>1. Sent[form][e + (m + 1)] = Encapsulation[m + 1]
            BY <1>2, <4>2, Zenon
        <5> QED
            BY <4>2, <5>1, Zenon
      <4>4. n = m + 1
        BY <1>3, <4>3
      <4> HIDE DEF n, t, e
      <4> QED
        BY <2>0, <2>1, <4>1, <4>4
    <3>4. s + m < e \/ s + m = e \/ s + m > e
      <4> HIDE DEF e
      <4> QED
        BY <2>0
    <3> QED
        BY <3>1, <3>2, <3>3, <3>4
  <2>4. n \in 0 .. 4 /\ a <= t
    <3> HIDE DEF n, t, a
    <3> QED
        BY <1>1, <1>5, <2>0, <2>1
  <2> QED
    <3> HIDE DEF n, t
    <3>1. Holds(form, i, t, n)
        BY <2>1, <2>2, <2>3, <2>4 DEF Holds
    <3> QED
        BY <3>1 DEF t, n
<1> QED
    <2> HIDE DEF n, e
    <2>1. n \in 0 .. 5 /\ n <= m + 1 /\ (n < 5 => Holds(form, i, s + (m + 1 - n), n))
          /\ (n = 5 => m = 4 /\ s = e)
        BY <1>5, <1>6, <1>7
    <2> QED
        BY <2>1 DEF n, e

InPartState(w) == w.up.parser.state = "first_message" \/ w.up.parser.state = "encapsulation"

(* What it is to stand within a part. *)
LEMMA InPartIs ==
    ASSUME NEW w, NEW k, NEW i
    PROVE  InPart(w, k, i) <=>
               /\ InPartState(w) /\ w.up.message
               /\ k = Settled(w) + w.up.parser.matched
               /\ w.up.parser.matched \in 0 .. 4
               /\ LET a == Before(w.up.form, i)
                      e == Behind(w.up.form, i)
                      s == Settled(w)
                  IN  /\ a <= s /\ s <= e /\ k <= e + 4 /\ (k > e => s = e)
                      /\ \A j \in 1 .. w.up.parser.matched : Sent[w.up.form][s + j] = Encapsulation[j]
               /\ Sound(w) => MidOf(w, i, Settled(w) - Before(w.up.form, i))
    BY ZenonT(60) DEF InPart, InPartState

(* Where the reader stands within a part, with what it holds back. *)
LEMMA InPartHolds ==
    ASSUME NEW w, NEW k, NEW i, InPart(w, k, i), Settled(w) \in Int
    PROVE  /\ InPartState(w) /\ w.up.message
           /\ k = Settled(w) + w.up.parser.matched
           /\ Holds(w.up.form, i, Settled(w), w.up.parser.matched)
           /\ Sound(w) => MidOf(w, i, Settled(w) - Before(w.up.form, i))
<1> DEFINE m == w.up.parser.matched
           s == Settled(w)
           a == Before(w.up.form, i)
           e == Behind(w.up.form, i)
           form == w.up.form
<1>1. /\ InPartState(w) /\ w.up.message
      /\ k = s + m /\ m \in 0 .. 4
      /\ a <= s /\ s <= e /\ k <= e + 4 /\ (k > e => s = e)
      /\ \A j \in 1 .. m : Sent[form][s + j] = Encapsulation[j]
      /\ Sound(w) => MidOf(w, i, s - a)
    BY InPartIs, ZenonT(60)
<1>2. s + m <= e + 4 /\ (s + m > e => s = e)
    BY <1>1, Zenon
<1>3. Holds(form, i, s, m)
    BY <1>1, <1>2, Zenon DEF Holds
<1> QED
    BY <1>1, <1>3

(* The other way: with that it stands within the part. *)
LEMMA HoldsInPart ==
    ASSUME NEW w, NEW k, NEW i,
           InPartState(w), w.up.message,
           k = Settled(w) + w.up.parser.matched,
           Holds(w.up.form, i, Settled(w), w.up.parser.matched),
           Sound(w) => MidOf(w, i, Settled(w) - Before(w.up.form, i))
    PROVE  InPart(w, k, i)
<1> DEFINE m == w.up.parser.matched
           s == Settled(w)
           a == Before(w.up.form, i)
           e == Behind(w.up.form, i)
           form == w.up.form
<1>1. /\ m \in 0 .. 4
      /\ a <= s /\ s <= e /\ s + m <= e + 4 /\ (s + m > e => s = e)
      /\ \A j \in 1 .. m : Sent[form][s + j] = Encapsulation[j]
    BY Zenon DEF Holds
<1>2. k <= e + 4 /\ (k > e => s = e)
    BY <1>1, Zenon
<1> QED
    BY <1>1, <1>2, InPartIs, ZenonT(60)

(* What is held back of a part goes on, or is settled. *)
LEMMA PartGoesOn ==
    ASSUME NEW w, NEW k, Meets1(w, k), NEW i \in 1 .. Len(w.up.form), InPart(w, k, i),
           NEW n \in Nat, n < 5, n <= w.up.parser.matched + 1,
           Holds(w.up.form, i, Settled(w) + (w.up.parser.matched + 1 - n), n)
    PROVE  LET w1 == Advance(Parsing(w, w.up.parser.state, n), w.up.parser.matched + 1 - n)
           IN  Runs(w, w1) /\ Stands(w1, k + 1)
<1> DEFINE form == w.up.form
           state == w.up.parser.state
           m == w.up.parser.matched
           d == m + 1 - n
           s == Settled(w)
           a == Before(form, i)
           e == Behind(form, i)
           len == Len(EncodedPart(form[i]))
           bw == Base(w)
           lw == Len(w.view)
           v == Parsing(w, state, n)
           w1 == Advance(v, d)
<1>0. /\ Typed(w) /\ ~w.error /\ ViewIs(w) /\ k \in Nat /\ w \in Puts
      /\ k + 1 <= bw + lw /\ bw \in Int /\ lw \in Nat
      /\ form \in AllForms
      /\ Sound(w) => dir \/ w.up.mode = "ignore"
      /\ w.at \in Nat /\ s \in Int /\ w.at = s - bw + 1
    BY MeetsHas
<1>1. /\ InPartState(w) /\ w.up.message
      /\ k = s + m /\ Holds(form, i, s, m)
      /\ Sound(w) => MidOf(w, i, s - a)
    BY <1>0, InPartHolds
<1>2. /\ m \in 0 .. 4 /\ a <= s /\ s <= e
    BY <1>1, Zenon DEF Holds
<1>3. s + d \in Int /\ s + d <= e /\ Holds(form, i, s + d, n)
    BY Zenon DEF Holds
<1>4. a \in Nat /\ len \in Nat /\ e = a + len
    BY <1>0, PlacesOf
<1>5. d \in Nat
  <2>1. m \in Nat /\ n <= m + 1
    BY <1>2
  <2> HIDE DEF m
  <2> QED
    BY <2>1
<1>6. /\ Retold(w, v) /\ Runs(w, v) /\ Typed(v)
      /\ v.up.parser.state = state /\ v.up.parser.matched = n
      /\ v.up.message = w.up.message /\ v.up.header = w.up.header
  <2>1. state \in ParserStates
    BY <1>1, Zenon DEF InPartState, ParserStates
  <2>2. ParsesAs(w, v, state, n)
    BY <1>0, <2>1, ParsingIs, Zenon
  <2> QED
    BY <2>2, Zenon DEF ParsesAs
<1> HIDE DEF v, w1
<1>7. /\ Settled(v) = s /\ Base(v) = bw /\ v.view = w.view /\ v.up.form = form /\ v.at = w.at
      /\ v.up.mode = w.up.mode
      /\ Sound(v) => Sound(w)
      /\ ViewIs(v)
      /\ Sound(v) => MidOf(v, i, s - a)
    BY <1>0, <1>1, <1>6, RetoldPhase
<1>8. /\ v.at - 1 + d <= Len(v.view) /\ s - a \in Nat /\ (s - a) + d <= len
      /\ Base(v) + v.at = a + (s - a) + 1 /\ a \in Int
  <2>1. /\ s \in Int /\ bw \in Int /\ lw \in Int /\ m \in Int /\ a \in Int /\ len \in Int /\ e \in Int
        /\ w.at = s - bw + 1 /\ k = s + m /\ k + 1 <= bw + lw /\ e = a + len /\ a <= s
        /\ s + d <= e /\ d = m + 1 - n
    <3>1. s \in Int /\ bw \in Int /\ lw \in Nat /\ m \in 0 .. 4 /\ a \in Nat /\ len \in Nat
        BY <1>0, <1>2, <1>4, Zenon
    <3>2. e \in Int
      <4>1. e = a + len
        BY <1>4
      <4> HIDE DEF e, a, len
      <4> QED
        BY <3>1, <4>1
    <3>3. /\ w.at = s - bw + 1 /\ k = s + m /\ k + 1 <= bw + lw /\ e = a + len /\ a <= s
          /\ s + d <= e
        BY <1>0, <1>1, <1>2, <1>3, <1>4, Zenon
    <3>4. lw \in Int /\ m \in Int /\ a \in Int /\ len \in Int
      <4> HIDE DEF lw, m, a, len
      <4> QED
        BY <3>1
    <3> QED
        BY <3>1, <3>2, <3>3, <3>4, Zenon
  <2> DEFINE at == w.at
             lv == Len(v.view)
             bv == Base(v)
             av == v.at
  <2>2. av = at /\ lv = lw /\ bv = bw /\ at = s - bw + 1
    BY <1>7, <2>1
  <2> HIDE DEF at, lv, bv, av, s, bw, lw, m, a, len, e, d
  <2>3. at - 1 + d <= lw
    <3>1. s - bw + 1 - 1 + (m + 1 - n) <= lw
        BY <2>1
    <3>2. at = s - bw + 1 /\ s \in Int /\ bw \in Int /\ lw \in Int /\ m + 1 - n = d
      <4>1. d = m + 1 - n
        BY <2>1, Zenon
      <4> QED
        BY <2>1, <2>2, <4>1, Zenon
    <3>3. at - 1 + d <= lw
      <4> HIDE DEF at
      <4>1. d \in Int
        BY <2>1
      <4> QED
        BY <3>1, <3>2, <4>1
    <3> QED
        BY <3>3
  <2>4. s - a \in Nat /\ (s - a) + d <= len
    BY <2>1
  <2>5. bw + at = a + (s - a) + 1
    BY <2>1, <2>2
  <2>6. av - 1 + d <= lv /\ bv + av = a + (s - a) + 1
    BY <2>2, <2>3, <2>5
  <2> QED
    BY <2>1, <2>4, <2>6 DEF av, lv, bv
<1>9. v.up.message /\ (Sound(v) => dir \/ v.up.mode = "ignore")
    BY <1>0, <1>1, <1>6, <1>7
<1>10. Sound(w1) => MidOf(w1, i, (s - a) + d)
  <2> DEFINE l == s - a
  <2>1. /\ Typed(v) /\ d \in Nat /\ v.at - 1 + d <= Len(v.view) /\ v.up.message /\ ViewIs(v)
        /\ l \in Nat /\ l + d <= Len(EncodedPart(v.up.form[i]))
        /\ Len(EncodedPart(v.up.form[i])) \in Nat
        /\ Sound(v) => MidOf(v, i, l)
        /\ Sound(v) => dir \/ v.up.mode = "ignore"
        /\ Base(v) + v.at = Before(v.up.form, i) + l + 1
        /\ Before(v.up.form, i) \in Int
    BY <1>4, <1>5, <1>6, <1>7, <1>8, <1>9, Zenon
  <2> HIDE DEF d, l
  <2>2. Sound(w1) => MidOf(w1, i, l + d)
    BY <2>1, AdvanceMid, Zenon DEF w1
  <2> QED
    BY <2>2 DEF l
<1>11. /\ Runs(v, w1) /\ w1.at = v.at + d
       /\ w1.up.parser = v.up.parser /\ w1.up.message = v.up.message
  <2> HIDE DEF d
  <2> QED
    BY <1>5, <1>6, <1>8, AdvanceRuns DEF w1
<1>12. Runs(w, w1)
    BY <1>6, <1>11, RunsOn
<1>13. SamePut(v, w1)
    BY <1>11 DEF Runs
<1>14. Base(w1) = Base(v) /\ w1.up.form = v.up.form
    BY <1>13, SameBase
<1>15. Settled(w1) = s + d
  <2>1. Base(w1) = bw /\ w1.at = w.at + d /\ bw \in Int /\ w.at \in Int /\ w.at = s - bw + 1 /\ s \in Int /\ d \in Int
    BY <1>0, <1>5, <1>7, <1>11, <1>14
  <2> DEFINE at == w.at
             b1 == Base(w1)
             a1 == w1.at
  <2> HIDE DEF d, s, bw, at, b1, a1
  <2>2. b1 + a1 - 1 = s + d
    <3>1. b1 = bw /\ a1 = at + d /\ at = s - bw + 1 /\ bw \in Int /\ s \in Int /\ d \in Int
        BY <2>1 DEF b1, a1, at
    <3> QED
        BY <3>1
  <2> QED
    BY <2>2 DEF Settled, b1, a1
<1>16. InPart(w1, k + 1, i)
  <2>1. w1.up.form = form /\ w1.up.parser.state = state /\ w1.up.parser.matched = n /\ w1.up.message
    BY <1>6, <1>7, <1>9, <1>11, <1>14
  <2>2. InPartState(w1)
    BY <1>1, <2>1 DEF InPartState
  <2>3. Holds(w1.up.form, i, Settled(w1), w1.up.parser.matched)
    <3> HIDE DEF s, d
    <3> QED
        BY <1>3, <1>15, <2>1
  <2>4. k + 1 = Settled(w1) + w1.up.parser.matched
    <3>1. k + 1 = (s + d) + n
      <4>1. s \in Int /\ m \in Int /\ k = s + m /\ d = m + 1 - n
        <5>1. m \in Int
            BY <1>2
        <5> QED
            BY <5>1, <1>0, <1>1, Zenon
      <4> HIDE DEF s, m, d
      <4> QED
        BY <4>1
    <3> HIDE DEF s, d
    <3> QED
        BY <1>15, <2>1, <3>1
  <2>5. Sound(w1) => MidOf(w1, i, Settled(w1) - Before(w1.up.form, i))
    <3>1. (s - a) + d = (s + d) - a
      <4>1. s \in Int /\ a \in Int /\ d \in Int
        BY <1>0, <1>4, <1>5
      <4> HIDE DEF s, a, d
      <4> QED
        BY <4>1
    <3>2. Settled(w1) - Before(w1.up.form, i) = (s - a) + d
      <4> HIDE DEF s, d
      <4> QED
        BY <1>15, <2>1, <3>1
    <3> HIDE DEF s, a, d
    <3> QED
        BY <1>10, <3>2
  <2> QED
    BY <2>1, <2>2, <2>3, <2>4, <2>5, HoldsInPart
<1>17. Stands(w1, k + 1)
    BY <1>0, <1>7, <1>14, <1>16 DEF Stands
<1> QED
    BY <1>12, <1>17 DEF w1, v

(* The delimiter is complete: the part ends. *)
LEMMA PartEnds ==
    ASSUME NEW w, NEW k, Meets1(w, k), NEW i \in 1 .. Len(w.up.form), InPart(w, k, i),
           w.up.parser.matched = 4, Settled(w) = Behind(w.up.form, i)
    PROVE  LET w1 == Advance(EndMessage(Parsing(w, "maybe_end_or_encapsulation", 0)), 5)
           IN  Runs(w, w1) /\ Stands(w1, k + 1)
<1> DEFINE form == w.up.form
           a == Before(form, i)
           e == Behind(form, i)
           len == Len(EncodedPart(form[i]))
           v == Parsing(w, "maybe_end_or_encapsulation", 0)
           y == EndMessage(v)
           w1 == Advance(y, 5)
<1>0. /\ Typed(w) /\ k \in Nat /\ w \in Puts
      /\ k + 1 <= Base(w) + Len(w.view) /\ Base(w) \in Int /\ Len(w.view) \in Nat
      /\ form \in AllForms
      /\ w.at \in Nat /\ Settled(w) \in Int /\ w.at = Settled(w) - Base(w) + 1
    BY MeetsHas
<1>1. /\ w.up.message /\ k = e + 4
      /\ Sound(w) => MidOf(w, i, Settled(w) - a)
    BY <1>0, InPartHolds
<1>2. a \in Nat /\ len \in Nat /\ e = a + len /\ e \in Nat
    BY <1>0, PlacesOf
<1>3. /\ Retold(w, v) /\ Runs(w, v) /\ Typed(v)
      /\ v.up.parser.state = "maybe_end_or_encapsulation" /\ v.up.parser.matched = 0
      /\ v.up.message = w.up.message /\ v.up.header = w.up.header
  <2>1. "maybe_end_or_encapsulation" \in ParserStates /\ 0 \in Nat
    BY DEF ParserStates
  <2>2. ParsesAs(w, v, "maybe_end_or_encapsulation", 0)
    BY <1>0, <2>1, ParsingIs, Zenon
  <2> QED
    BY <2>2, Zenon DEF ParsesAs
<1> HIDE DEF v
<1>4. /\ Settled(v) = e /\ Base(v) = Base(w) /\ v.view = w.view /\ v.up.form = form
      /\ v.up.message
      /\ Sound(v) => MidOf(v, i, Settled(w) - a)
    BY <1>1, <1>3, RetoldPhase
<1>5. Settled(w) - a = len
  <2>1. Settled(w) = e
    OBVIOUS
  <2> HIDE DEF e, a, len
  <2>2. e - a = len
    BY <1>2
  <2> QED
    BY <2>1, <2>2
<1>6. Sound(v) => MidOf(v, i, Len(EncodedPart(v.up.form[i])))
    BY <1>4, <1>5, Zenon
<1>7. Base(v) + v.at - 1 = Behind(v.up.form, i)
    BY <1>4 DEF Settled
<1>8. /\ Runs(v, y) /\ y.at = v.at /\ y.up.parser = v.up.parser /\ ~y.up.message
      /\ Sound(y) => BetweenOf(y, i + 1)
    BY <1>3, <1>4, <1>6, <1>7, EndMessageRuns, Zenon
<1> HIDE DEF y
<1>9. SamePut(v, y) /\ Typed(y)
    BY <1>8 DEF Runs
<1>10. Base(y) = Base(v) /\ y.up.form = form /\ y.view = v.view
    BY <1>4, <1>9, SameBase
<1>11. Settled(y) = e
    BY <1>4, <1>8, <1>10 DEF Settled
<1>12. Settled(y) + 5 <= Base(y) + Len(y.view) /\ 5 \in Nat
  <2>1. Settled(y) + 5 = k + 1
    <3> HIDE DEF e
    <3> QED
        BY <1>1, <1>2, <1>11
  <2> QED
    BY <1>0, <1>4, <1>10, <2>1
<1>13. /\ Runs(y, w1) /\ Settled(w1) = Settled(y) + 5
       /\ w1.up = y.up
       /\ Sound(w1) => Sound(y)
       /\ \A j : BetweenOf(y, j) => BetweenOf(w1, j)
    BY <1>8, <1>9, <1>12, AdvanceQuiet
<1> HIDE DEF w1
<1>14. Runs(w, w1)
    BY <1>3, <1>8, <1>13, RunsOn
<1>15. BehindPart(w1, k + 1, i)
  <2>1. /\ w1.up.form = form /\ Settled(w1) = e + 5 /\ ~w1.up.message
        /\ w1.up.parser.state = "maybe_end_or_encapsulation"
        /\ Sound(w1) => BetweenOf(w1, i + 1)
    BY <1>3, <1>8, <1>10, <1>11, <1>13
  <2>2. k + 1 = e + 5
    <3> HIDE DEF e
    <3> QED
        BY <1>1, <1>2
  <2>3. Behind(w1.up.form, i) = e
    BY <2>1, Zenon
  <2> DEFINE e1 == Behind(w1.up.form, i)
             s1 == Settled(w1)
             form1 == w1.up.form
             state1 == w1.up.parser.state
  <2>4. (/\ ~w1.up.message /\ s1 = e1 + 5
         /\ \/ state1 = "maybe_end_or_encapsulation" /\ k + 1 = e1 + 5
            \/ state1 = "maybe_encapsulation" /\ k + 1 = e1 + 6 /\ i < Len(form1)
            \/ state1 = "maybe_end" /\ k + 1 = e1 + 6 /\ i = Len(form1)
         /\ Sound(w1) => BetweenOf(w1, i + 1))
        => BehindPart(w1, k + 1, i)
    BY Zenon DEF BehindPart
  <2>5. e1 = e /\ s1 = e + 5 /\ ~w1.up.message /\ state1 = "maybe_end_or_encapsulation"
        /\ (Sound(w1) => BetweenOf(w1, i + 1))
    BY <2>1, <2>3, Zenon
  <2> HIDE DEF e, e1, s1, form1, state1
  <2> QED
    BY <2>2, <2>4, <2>5
<1>16. Stands(w1, k + 1)
    BY <1>0, <1>10, <1>13, <1>15 DEF Stands
<1> QED
    BY <1>14, <1>16 DEF w1, y, v

(* A byte of a part keeps the reader where it should stand. *)
LEMMA PartByte ==
    ASSUME NEW w, NEW k, Meets1(w, k), NEW i \in 1 .. Len(w.up.form), InPart(w, k, i)
    PROVE  LET w1 == Byte(w, Sent[w.up.form][k + 1])
           IN  Runs(w, w1) /\ Stands(w1, k + 1)
<1> DEFINE form == w.up.form
           c == Sent[form][k + 1]
           state == w.up.parser.state
           m == w.up.parser.matched
           n == Search(Encapsulation, m, c)
           w1 == Byte(w, c)
<1>0. /\ ~w.error /\ form \in AllForms /\ Settled(w) \in Int
    BY MeetsHas
<1>1. /\ InPartState(w)
      /\ k = Settled(w) + m /\ Holds(form, i, Settled(w), m)
    BY <1>0, InPartHolds
<1>2. m \in 0 .. 4
    BY <1>1, Zenon DEF Holds
<1>3. c = Sent[form][Settled(w) + m + 1]
  <2>1. k + 1 = Settled(w) + m + 1
    BY <1>1, Zenon
  <2> QED
    BY <2>1, Zenon
<1> HIDE DEF c
<1>4. /\ n \in 0 .. 5 /\ n <= m + 1
      /\ n < 5 => Holds(form, i, Settled(w) + (m + 1 - n), n)
      /\ n = 5 => m = 4 /\ Settled(w) = Behind(form, i)
    BY <1>0, <1>1, <1>3, PartSearch
<1>5. HandleChar(w.up.parser, c) = Check(state, m, n)
  <2>1. w.up.parser.state \in {"first_message", "encapsulation"}
    BY <1>1, Zenon DEF InPartState
  <2> QED
    BY <2>1, HandleCharIs
<1>6. state # "preamble"
    BY <1>1 DEF InPartState
<1> HIDE DEF n
<1>7. CASE n < 5
  <2>1. HandleChar(w.up.parser, c) = Step(state, n, m + 1 - n, "none")
    BY <1>2, <1>4, <1>5, <1>7, CheckIs
  <2>2. w1 = Advance(Parsing(w, state, n), m + 1 - n)
    BY <1>0, <2>1, ByteIs
  <2>3. n \in Nat
    BY <1>4
  <2>4. Runs(w, w1) /\ Stands(w1, k + 1)
    BY <1>4, <1>7, <2>2, <2>3, PartGoesOn
  <2> QED
    BY <2>4 DEF c
<1>8. CASE n = 5
  <2>1. HandleChar(w.up.parser, c) = Step("maybe_end_or_encapsulation", 0, 5, "message_end")
    BY <1>2, <1>4, <1>5, <1>6, <1>8, CheckIs
  <2>2. w1 = Advance(EndMessage(Parsing(w, "maybe_end_or_encapsulation", 0)), 5)
    BY <1>0, <2>1, ByteIs
  <2>3. Runs(w, w1) /\ Stands(w1, k + 1)
    BY <1>4, <1>8, <2>2, PartEnds
  <2> QED
    BY <2>3 DEF c
<1>9. n < 5 \/ n = 5
    BY <1>4
<1> QED
    BY <1>7, <1>8, <1>9

(* Between the parts, nothing is done but that the parser goes on. *)
LEMMA QuietStep ==
    ASSUME NEW w, NEW k, Meets1(w, k), ~w.up.message, NEW state \in ParserStates, NEW d \in Nat,
           Settled(w) + d <= k + 1
    PROVE  LET w1 == Advance(Parsing(w, state, 0), d)
           IN  /\ Runs(w, w1) /\ w1.up.form = w.up.form
               /\ w1.up.parser.state = state /\ w1.up.parser.matched = 0 /\ ~w1.up.message
               /\ Settled(w1) = Settled(w) + d
               /\ \A i : (Sound(w) => BetweenOf(w, i)) => (Sound(w1) => BetweenOf(w1, i))
<1> DEFINE v == Parsing(w, state, 0)
           w1 == Advance(v, d)
           sw == Settled(w)
           bw == Base(w)
           lw == Len(w.view)
<1>0. /\ Typed(w) /\ k \in Nat
      /\ k + 1 <= bw + lw /\ bw \in Int /\ lw \in Nat /\ sw \in Int
    BY MeetsHas
<1>1. /\ Retold(w, v) /\ Runs(w, v) /\ Typed(v)
      /\ v.up.parser.state = state /\ v.up.parser.matched = 0
      /\ v.up.message = w.up.message /\ v.up.header = w.up.header
  <2>1. 0 \in Nat
    OBVIOUS
  <2>2. ParsesAs(w, v, state, 0)
    BY <1>0, <2>1, ParsingIs, Zenon
  <2> QED
    BY <2>2, Zenon DEF ParsesAs
<1> HIDE DEF v
<1>2. /\ Settled(v) = sw /\ Base(v) = bw /\ v.view = w.view /\ v.up.form = w.up.form
      /\ Sound(v) => Sound(w)
      /\ \A i : BetweenOf(w, i) => BetweenOf(v, i)
    BY <1>1, RetoldPhase
<1>3. Settled(v) + d <= Base(v) + Len(v.view) /\ ~v.up.message
  <2>1. sw + d <= bw + lw
    <3> HIDE DEF sw, bw, lw
    <3>1. sw + d <= k + 1
        BY DEF sw
    <3> QED
        BY <1>0, <3>1
  <2> QED
    BY <1>1, <1>2, <2>1
<1>4. /\ Runs(v, w1) /\ Settled(w1) = Settled(v) + d
      /\ w1.up = v.up
      /\ Sound(w1) => Sound(v)
      /\ \A i : BetweenOf(v, i) => BetweenOf(w1, i)
    BY <1>1, <1>3, AdvanceQuiet
<1> HIDE DEF w1
<1>5. Runs(w, w1)
    BY <1>1, <1>4, RunsOn
<1> QED
    BY <1>1, <1>2, <1>4, <1>5 DEF w1, v

(* What a part begins with *)
LEMMA PartBegins ==
    ASSUME NEW x, NEW y, NEW k, NEW i, x.up.form \in AllForms, i \in 1 .. Len(x.up.form),
           y.up.form = x.up.form, Settled(y) = Settled(x), y.up.parser = x.up.parser, y.up.message,
           Sound(y) => Sound(x), BetweenOf(x, i) => MidOf(y, i, 0),
           InPartState(x), x.up.parser.matched = 0, Settled(x) = k, k = Before(x.up.form, i),
           Sound(x) => BetweenOf(x, i)
    PROVE  InPart(y, k, i)
<1> DEFINE form == x.up.form
           a == Before(form, i)
           e == Behind(form, i)
           l == Len(EncodedPart(form[i]))
<1>1. a \in Nat /\ l \in Nat /\ e = a + l
  <2>1. form \in AllForms /\ i \in 1 .. Len(form)
    OBVIOUS
  <2> HIDE DEF form
  <2> QED
    BY <2>1, SpanOf
<1>2. k = a /\ k \in Int /\ k <= e /\ k + 0 <= e + 4 /\ (k + 0 > e => k = e) /\ a <= k /\ k - a = 0
      /\ k = k + 0
  <2>1. k = a
    OBVIOUS
  <2> HIDE DEF a, e, l
  <2> QED
    BY <1>1, <2>1
<1>3. Holds(form, i, k, 0)
  <2>1. 0 \in 0 .. 4 /\ \A j \in 1 .. 0 : Sent[form][k + j] = Encapsulation[j]
    OBVIOUS
  <2> QED
    BY <1>2, <2>1, Zenon DEF Holds
<1>4. InPartState(y)
    BY DEF InPartState
<1>5. y.up.parser.matched = 0 /\ Settled(y) = k /\ y.up.form = form
    OBVIOUS
<1>6. k = Settled(y) + y.up.parser.matched
  <2>1. k = k + 0
    BY <1>2, Zenon
  <2> QED
    BY <1>5, <2>1, Zenon
<1>7. Sound(y) => MidOf(y, i, Settled(y) - Before(y.up.form, i))
  <2>1. Settled(y) - Before(y.up.form, i) = 0
    BY <1>2, <1>5, Zenon
  <2> QED
    BY <2>1, Zenon
<1>8. Holds(y.up.form, i, Settled(y), y.up.parser.matched)
    BY <1>3, <1>5, Zenon
<1> QED
    BY <1>4, <1>6, <1>7, <1>8, HoldsInPart, Zenon

(* Where the reader stands behind a part, and which byte is next. *)
LEMMA BehindPartHas ==
    ASSUME NEW w, NEW k, NEW i, BehindPart(w, k, i), i \in 1 .. Len(w.up.form),
           w.up.form \in AllForms
    PROVE  LET e == Behind(w.up.form, i)
               s == Sent[w.up.form]
               n == Len(w.up.form)
           IN  /\ ~w.up.message /\ Settled(w) = e + 5 /\ e \in Nat
               /\ Sound(w) => BetweenOf(w, i + 1)
               /\ \/ /\ w.up.parser.state = "maybe_end_or_encapsulation" /\ k = e + 5
                     /\ \/ i < n /\ s[k + 1] = CR
                        \/ i = n /\ s[k + 1] = Dash
                  \/ /\ w.up.parser.state = "maybe_encapsulation" /\ k = e + 6 /\ i < n
                     /\ s[k + 1] = LF /\ Before(w.up.form, i + 1) = e + 7 /\ i + 1 \in 1 .. n
                  \/ /\ w.up.parser.state = "maybe_end" /\ k = e + 6 /\ i = n
                     /\ s[k + 1] = Dash
<1> DEFINE form == w.up.form
           e == Behind(form, i)
           s == Sent[form]
           n == Len(form)
           state == w.up.parser.state
<1>1. /\ ~w.up.message /\ Settled(w) = e + 5
      /\ Sound(w) => BetweenOf(w, i + 1)
      /\ \/ state = "maybe_end_or_encapsulation" /\ k = e + 5
         \/ state = "maybe_encapsulation" /\ k = e + 6 /\ i < n
         \/ state = "maybe_end" /\ k = e + 6 /\ i = n
    BY Zenon DEF BehindPart
<1>2. e \in Nat
  <2>1. form \in AllForms /\ i \in 1 .. Len(form)
    OBVIOUS
  <2> HIDE DEF form
  <2> QED
    BY <2>1, PlacesOf, Zenon
<1>3. LaidOut(form, i, s)
    BY Layout
<1>4. /\ i < n => Before(form, i + 1) = e + 7 /\ s[e + 6] = CR /\ s[e + 7] = LF
      /\ i = n => s[e + 6] = Dash /\ s[e + 7] = Dash
    BY <1>3, Zenon DEF LaidOut
<1>5. n \in Nat /\ (i < n \/ i = n)
  <2>1. n \in Nat
    BY FormFacts
  <2>2. i \in 1 .. n
    OBVIOUS
  <2> HIDE DEF n
  <2> QED
    BY <2>1, <2>2
<1>6. /\ i < n => i + 1 \in 1 .. n
      /\ (k = e + 5 => k + 1 = e + 6) /\ (k = e + 6 => k + 1 = e + 7)
  <2>2. i \in 1 .. n
    OBVIOUS
  <2> HIDE DEF n, e
  <2> QED
    BY <1>2, <1>5, <2>2
<1>7. /\ k = e + 5 /\ i < n => s[k + 1] = CR
      /\ k = e + 5 /\ i = n => s[k + 1] = Dash
      /\ k = e + 6 /\ i < n => s[k + 1] = LF
      /\ k = e + 6 /\ i = n => s[k + 1] = Dash
    BY <1>4, <1>6, Zenon
<1> HIDE DEF e, s, n, state
<1>8. \/ /\ state = "maybe_end_or_encapsulation" /\ k = e + 5
         /\ \/ i < n /\ s[k + 1] = CR
            \/ i = n /\ s[k + 1] = Dash
      \/ /\ state = "maybe_encapsulation" /\ k = e + 6 /\ i < n
         /\ s[k + 1] = LF /\ Before(form, i + 1) = e + 7 /\ i + 1 \in 1 .. n
      \/ /\ state = "maybe_end" /\ k = e + 6 /\ i = n
         /\ s[k + 1] = Dash
    BY <1>1, <1>4, <1>5, <1>6, <1>7, ZenonT(60)
<1> QED
    BY <1>1, <1>2, <1>8, ZenonT(60) DEF e, s, n, state

(* A byte behind a part keeps the reader where it should stand. *)
LEMMA BehindByte ==
    ASSUME NEW w, NEW k, Meets1(w, k), NEW i \in 1 .. Len(w.up.form), BehindPart(w, k, i)
    PROVE  LET w1 == Byte(w, Sent[w.up.form][k + 1])
           IN  Runs(w, w1) /\ Stands(w1, k + 1)
<1> DEFINE form == w.up.form
           c == Sent[form][k + 1]
           e == Behind(form, i)
           n == Len(form)
           state == w.up.parser.state
           w1 == Byte(w, c)
<1>0. ~w.error /\ form \in AllForms
    BY MeetsHas
<1>1. /\ ~w.up.message /\ Settled(w) = e + 5 /\ e \in Nat
      /\ Sound(w) => BetweenOf(w, i + 1)
    BY <1>0, BehindPartHas
<1>2. \/ /\ state = "maybe_end_or_encapsulation" /\ k = e + 5
         /\ \/ i < n /\ c = CR
            \/ i = n /\ c = Dash
      \/ /\ state = "maybe_encapsulation" /\ k = e + 6 /\ i < n
         /\ c = LF /\ Before(form, i + 1) = e + 7 /\ i + 1 \in 1 .. n
      \/ /\ state = "maybe_end" /\ k = e + 6 /\ i = n
         /\ c = Dash
    BY <1>0, BehindPartHas
<1> HIDE DEF c, e
<1>3. ASSUME state = "maybe_end_or_encapsulation", k = e + 5,
             NEW to, to \in {"maybe_encapsulation", "maybe_end"},
             to = "maybe_encapsulation" => i < n,
             to = "maybe_end" => i = n,
             HandleChar(w.up.parser, c) = Step(to, 0, 0, "none")
      PROVE  Runs(w, w1) /\ Stands(w1, k + 1)
  <2>1. w1 = Advance(Parsing(w, to, 0), 0)
    BY <1>0, <1>3, ByteIs
  <2>2. to \in ParserStates
    BY <1>3, Zenon DEF ParserStates
  <2>3. Settled(w) + 0 <= k + 1 /\ 0 \in Nat /\ Settled(w) + 0 = e + 5 /\ k + 1 = e + 6
    BY <1>1, <1>3
  <2> HIDE DEF w1
  <2>4. /\ Runs(w, w1) /\ w1.up.form = form
        /\ w1.up.parser.state = to /\ ~w1.up.message
        /\ Settled(w1) = e + 5
        /\ Sound(w1) => BetweenOf(w1, i + 1)
    <3>1. LET x == Advance(Parsing(w, to, 0), 0)
          IN  /\ Runs(w, x) /\ x.up.form = w.up.form
              /\ x.up.parser.state = to /\ x.up.parser.matched = 0 /\ ~x.up.message
              /\ Settled(x) = Settled(w) + 0
              /\ \A j : (Sound(w) => BetweenOf(w, j)) => (Sound(x) => BetweenOf(x, j))
        BY <1>1, <2>2, <2>3, QuietStep
    <3> QED
        BY <1>1, <2>1, <2>3, <3>1, Zenon
  <2>5. BehindPart(w1, k + 1, i)
    <3>1. Behind(w1.up.form, i) = e /\ Len(w1.up.form) = n
        BY <2>4 DEF e
    <3>2. \/ to = "maybe_encapsulation" /\ i < n
          \/ to = "maybe_end" /\ i = n
        BY <1>3, Zenon
    <3> HIDE DEF n
    <3> QED
        BY <2>3, <2>4, <3>1, <3>2, Zenon DEF BehindPart
  <2> QED
    BY <1>0, <2>4, <2>5 DEF Stands
<1>4. CASE state = "maybe_end_or_encapsulation"
  <2>1. k = e + 5 /\ ((i < n /\ c = CR) \/ (i = n /\ c = Dash))
    BY <1>2, <1>4
  <2>2. CASE i < n /\ c = CR
    <3>1. HandleChar(w.up.parser, c) = Step("maybe_encapsulation", 0, 0, "none")
        BY <1>4, <2>2, HandleCharIs
    <3>2. Runs(w, w1) /\ Stands(w1, k + 1)
        BY <1>3, <1>4, <2>1, <2>2, <3>1
    <3> QED
        BY <3>2 DEF c
  <2>3. CASE i = n /\ c = Dash
    <3>1. HandleChar(w.up.parser, c) = Step("maybe_end", 0, 0, "none")
        BY <1>4, <2>3, HandleCharIs
    <3>2. Runs(w, w1) /\ Stands(w1, k + 1)
        BY <1>3, <1>4, <2>1, <2>3, <3>1
    <3> QED
        BY <3>2 DEF c
  <2> QED
    BY <2>1, <2>2, <2>3
<1>5. CASE state = "maybe_encapsulation"
  <2> DEFINE x == Advance(Parsing(w, "encapsulation", 0), 2)
  <2>1. k = e + 6 /\ i < n /\ c = LF /\ Before(form, i + 1) = e + 7 /\ i + 1 \in 1 .. n
    BY <1>2, <1>5
  <2>2. HandleChar(w.up.parser, c) = Step("encapsulation", 0, 2, "message_begin")
    BY <1>5, <2>1, HandleCharIs
  <2>3. w1 = [x EXCEPT !.up.message = TRUE]
    BY <1>0, <2>2, ByteIs
  <2>4. "encapsulation" \in ParserStates
    BY DEF ParserStates
  <2>5. Settled(w) + 2 <= k + 1 /\ 2 \in Nat /\ Settled(w) + 2 = e + 7 /\ k + 1 = e + 7
    BY <1>1, <2>1
  <2>6. /\ Runs(w, x) /\ x.up.form = w.up.form
        /\ x.up.parser.state = "encapsulation" /\ x.up.parser.matched = 0 /\ ~x.up.message
        /\ Settled(x) = Settled(w) + 2
        /\ \A j : (Sound(w) => BetweenOf(w, j)) => (Sound(x) => BetweenOf(x, j))
    BY <1>1, <2>4, <2>5, QuietStep
  <2> HIDE DEF x, w1
  <2>7. Typed(x)
    BY <2>6 DEF Runs
  <2>8. /\ Runs(x, w1) /\ Settled(w1) = Settled(x) /\ w1.up.form = x.up.form
        /\ w1.up.parser = x.up.parser /\ w1.up.message
        /\ Sound(w1) => Sound(x)
        /\ \A j \in 1 .. Len(x.up.form) : BetweenOf(x, j) => MidOf(w1, j, 0)
    BY <2>3, <2>7, BeginMessage
  <2>9. Runs(w, w1)
    BY <2>6, <2>8, RunsOn
  <2>10. InPart(w1, k + 1, i + 1)
    <3>1. x.up.form \in AllForms /\ i + 1 \in 1 .. Len(x.up.form)
        BY <1>0, <2>1, <2>6
    <3>2. BetweenOf(x, i + 1) => MidOf(w1, i + 1, 0)
        BY <2>8, <3>1
    <3>3. InPartState(x)
        BY <2>6 DEF InPartState
    <3>4. Settled(x) = k + 1 /\ k + 1 = Before(x.up.form, i + 1)
        BY <2>1, <2>5, <2>6
    <3>5. Sound(x) => BetweenOf(x, i + 1)
        BY <1>1, <2>6
    <3> QED
        BY <2>6, <2>8, <3>1, <3>2, <3>3, <3>4, <3>5, PartBegins, Zenon
  <2>11. Stands(w1, k + 1)
    BY <1>0, <2>1, <2>6, <2>8, <2>10 DEF Stands
  <2> QED
    BY <2>9, <2>11 DEF w1, c
<1>6. CASE state = "maybe_end"
  <2>1. k = e + 6 /\ i = n /\ c = Dash
    BY <1>2, <1>6
  <2>2. HandleChar(w.up.parser, c) = Step("epilogue", 0, 2, "none")
    BY <1>6, <2>1, HandleCharIs
  <2>3. w1 = Advance(Parsing(w, "epilogue", 0), 2)
    BY <1>0, <2>2, ByteIs
  <2>4. "epilogue" \in ParserStates
    BY DEF ParserStates
  <2>5. Settled(w) + 2 <= k + 1 /\ 2 \in Nat /\ Settled(w) + 2 = k + 1 /\ k + 1 >= e + 7
    BY <1>1, <2>1
  <2>6. /\ Runs(w, w1) /\ w1.up.form = w.up.form
        /\ w1.up.parser.state = "epilogue" /\ w1.up.parser.matched = 0 /\ ~w1.up.message
        /\ Settled(w1) = Settled(w) + 2
        /\ \A j : (Sound(w) => BetweenOf(w, j)) => (Sound(w1) => BetweenOf(w1, j))
    BY <1>1, <2>3, <2>4, <2>5, QuietStep
  <2> HIDE DEF w1
  <2>7. Behind(w1.up.form, Len(w1.up.form)) = e /\ Len(w1.up.form) + 1 = i + 1
    BY <2>1, <2>6 DEF e
  <2>8. InEpilogue(w1, k + 1)
    BY <1>1, <2>5, <2>6, <2>7 DEF InEpilogue
  <2>9. Stands(w1, k + 1)
    BY <1>0, <2>6, <2>8 DEF Stands
  <2> QED
    BY <2>6, <2>9 DEF w1, c
<1> QED
    BY <1>2, <1>4, <1>5, <1>6

(* A byte behind the last part keeps the reader where it should stand. *)
LEMMA EpilogueByte ==
    ASSUME NEW w, NEW k, Meets1(w, k), InEpilogue(w, k)
    PROVE  LET w1 == Byte(w, Sent[w.up.form][k + 1])
           IN  Runs(w, w1) /\ Stands(w1, k + 1)
<1> DEFINE form == w.up.form
           c == Sent[form][k + 1]
           n == Len(form)
           e == Behind(form, n)
           w1 == Byte(w, c)
<1>0. ~w.error /\ form \in AllForms /\ k \in Nat
    BY MeetsHas
<1>1. /\ w.up.parser.state = "epilogue" /\ ~w.up.message
      /\ Settled(w) = k /\ k >= e + 7
      /\ Sound(w) => BetweenOf(w, n + 1)
    BY DEF InEpilogue
<1>2. e \in Nat
  <2>1. n \in 1 .. n
    BY <1>0, FormFacts
  <2> QED
    BY <1>0, <2>1, PlacesOf
<1> HIDE DEF c
<1>3. HandleChar(w.up.parser, c) = Step("epilogue", 0, 1, "none")
    BY <1>1, HandleCharIs
<1>4. w1 = Advance(Parsing(w, "epilogue", 0), 1)
    BY <1>0, <1>3, ByteIs
<1>5. "epilogue" \in ParserStates
    BY DEF ParserStates
<1>6. Settled(w) + 1 <= k + 1 /\ 1 \in Nat /\ Settled(w) + 1 = k + 1 /\ k + 1 >= e + 7
  <2> HIDE DEF e
  <2> QED
    BY <1>0, <1>1, <1>2
<1>7. /\ Runs(w, w1) /\ w1.up.form = w.up.form
      /\ w1.up.parser.state = "epilogue" /\ w1.up.parser.matched = 0 /\ ~w1.up.message
      /\ Settled(w1) = Settled(w) + 1
      /\ \A j : (Sound(w) => BetweenOf(w, j)) => (Sound(w1) => BetweenOf(w1, j))
    BY <1>1, <1>4, <1>5, <1>6, QuietStep
<1> HIDE DEF w1
<1>8. InEpilogue(w1, k + 1)
    BY <1>1, <1>6, <1>7 DEF InEpilogue
<1>9. Stands(w1, k + 1)
    BY <1>0, <1>7, <1>8 DEF Stands
<1> QED
    BY <1>7, <1>9 DEF w1, c

(* One byte of the stream, wherever the parser is *)
LEMMA ByteStands ==
    ASSUME NEW w, NEW k, Meets1(w, k), Stands(w, k)
    PROVE  LET w1 == Byte(w, Sent[w.up.form][k + 1])
           IN  Runs(w, w1) /\ Stands(w1, k + 1)
<1> DEFINE w1 == Byte(w, Sent[w.up.form][k + 1])
<1>1. CASE InPreamble(w, k)
    BY <1>1, PreambleByte
<1>2. ASSUME NEW i \in 1 .. Len(w.up.form), InPart(w, k, i) \/ BehindPart(w, k, i)
      PROVE  Runs(w, w1) /\ Stands(w1, k + 1)
    BY <1>2, PartByte, BehindByte
<1>3. CASE InEpilogue(w, k)
    BY <1>3, EpilogueByte
<1> QED
    BY <1>1, <1>2, <1>3 DEF Stands

-----------------------------------------------------------------------------
(* The bytes of a put *)

(* What is left of a part is written. *)
Flushed(w) == IF w.up.is_writable /\ ~w.error THEN WritePart(w) ELSE w

(* Each state of a parse is the one before, with one byte more; there is a *)
(* parse. *)
Parse(s, w, n) ==
    /\ s[0] = w
    /\ \A i \in 1 .. n : s[i] = Byte(s[i - 1], w.view[Len(w.up.pending) + i])
    /\ Parsed(w, n) = Flushed(s[n])

(* Reading n bytes of a put is n single bytes, one after the other. *)
LEMMA ParsedIs ==
    ASSUME NEW w, NEW n \in Nat
    PROVE  \E s : Parse(s, w, n)
<1> DEFINE old == Len(w.up.pending)
           Next1(v, i) == IF i = 0 THEN w ELSE Byte(v[i - 1], w.view[old + i])
           Parses(m, v) == v = [i \in 0 .. m |-> Next1(v, i)]
           T == {m \in Nat : \E v : Parses(m, v)}
<1>2. 0 \in T
  <2> DEFINE v == [i \in 0 .. 0 |-> w]
  <2>1. v = [i \in 0 .. 0 |-> Next1(v, i)]
    OBVIOUS
  <2> QED
    BY <2>1
<1>3. \A m \in 0 .. n - 1 : m \in T => m + 1 \in T
  <2>0. SUFFICES ASSUME NEW m \in Nat, NEW u, Parses(m, u)
               PROVE  m + 1 \in T
    OBVIOUS
  <2> DEFINE v == [i \in 0 .. m + 1 |-> IF i = m + 1 THEN Next1(u, m + 1) ELSE u[i]]
  <2>1. ASSUME NEW i \in 0 .. m + 1 PROVE v[i] = Next1(v, i)
    <3>1. i - 1 \in 0 .. m \/ i = 0
        OBVIOUS
    <3>2. i # 0 => v[i - 1] = u[i - 1]
        BY <3>1
    <3>3. Next1(v, i) = Next1(u, i)
        BY <3>2
    <3>4. CASE i = m + 1
        BY <3>3, <3>4
    <3>5. CASE i # m + 1
      <4>1. i \in 0 .. m
          BY <3>5
      <4>2. u[i] = Next1(u, i)
          BY <4>1, <2>0
      <4> QED
          BY <3>3, <3>5, <4>2
    <3> QED
        BY <3>4, <3>5
  <2>2. Parses(m + 1, v)
    BY <2>1
  <2> HIDE DEF v
  <2>3. \E x : Parses(m + 1, x)
    BY <2>2
  <2> QED
    BY <2>3
<1>4. n \in T
  <2> HIDE DEF T
  <2>1. 0 .. n \subseteq T
    BY <1>2, <1>3, InductionUpTo
  <2> QED
    BY <2>1
<1> DEFINE found == CHOOSE v : Parses(n, v)
<1>5. Parses(n, found)
    BY <1>4
<1>6. Parsed(w, n) = Flushed(found[n])
    BY DEF Parsed, Flushed
<1> HIDE DEF found
<1>7. \A i \in 0 .. n : found[i] = Next1(found, i)
    BY <1>5
<1>8. /\ found[0] = w
      /\ \A i \in 1 .. n : found[i] = Byte(found[i - 1], w.view[Len(w.up.pending) + i])
    BY <1>7
<1> QED
    BY <1>6, <1>8 DEF Parse

(* A put begins: the bytes of it are those that are sent next. *)
Starts(w, n) ==
    /\ Typed(w) /\ ~w.error /\ ViewIs(w) /\ n \in Nat
    /\ Stands(w, w.up.sent)
    /\ Base(w) + Len(w.view) = w.up.sent + n /\ w.up.sent + n <= Len(Sent[w.up.form])
    /\ \A i \in 1 .. n : w.view[Len(w.up.pending) + i] = Sent[w.up.form][w.up.sent + i]
    /\ Sound(w) => dir \/ w.up.mode = "ignore"

(* An upload that nothing has disturbed runs into no error. *)
LEMMA StandsSound ==
    ASSUME NEW w, NEW k, Stands(w, k), Sound(w)
    PROVE  ~w.error
<1>1. \A i : ~BetweenOf(w, i) \/ ~w.error
    BY DEF BetweenOf
<1>2. \A i, l : ~MidOf(w, i, l) \/ ~w.error
    BY DEF MidOf
<1>3. InPreamble(w, k) => ~w.error
    BY <1>1, Zenon DEF InPreamble
<1>4. \A i : InPart(w, k, i) => ~w.error
    BY <1>2, InPartIs, Zenon
<1>5. \A i : BehindPart(w, k, i) => ~w.error
    BY <1>1, Zenon DEF BehindPart
<1>6. InEpilogue(w, k) => ~w.error
    BY <1>1, Zenon DEF InEpilogue
<1> QED
    BY <1>3, <1>4, <1>5, <1>6 DEF Stands

(* Where a put is when i bytes of it have been read. *)
Comes(w0, w, i) ==
    /\ Runs(w0, w)
    /\ ~w.error => Stands(w, w0.up.sent + i)
    /\ w.error => ~Sound(w)

(* The next byte of a put keeps the reader where it should stand. *)
LEMMA ByteComes ==
    ASSUME NEW w0, NEW n, Starts(w0, n), NEW i \in 1 .. n, NEW w, Comes(w0, w, i - 1)
    PROVE  Comes(w0, Byte(w, w0.view[Len(w0.up.pending) + i]), i)
<1> DEFINE c == w0.view[Len(w0.up.pending) + i]
           w1 == Byte(w, c)
           form == w0.up.form
           sent == w0.up.sent
           k == sent + i - 1
<1>1. /\ Typed(w0) /\ ViewIs(w0) /\ n \in Nat
      /\ Base(w0) + Len(w0.view) = sent + n /\ sent + n <= Len(Sent[form])
      /\ c = Sent[form][sent + i]
      /\ Sound(w0) => dir \/ w0.up.mode = "ignore"
    BY DEF Starts
<1>2. /\ Runs(w0, w)
      /\ ~w.error => Stands(w, sent + (i - 1))
      /\ w.error => ~Sound(w)
    BY DEF Comes
<1>3. /\ w0 \in Puts /\ Typed(w) /\ SamePut(w0, w) /\ (w0.up.torn => w.up.torn)
      /\ w0.error => w.error
    BY <1>1, <1>2 DEF Runs, Typed
<1>4. sent \in Nat
    BY <1>3, PutHas, ReaderHas
<1>5. k \in Nat /\ k + 1 = sent + i /\ k + 1 <= sent + n /\ sent + (i - 1) = k
  <2> HIDE DEF sent
  <2> QED
    BY <1>1, <1>4
<1>6. /\ Base(w) = Base(w0) /\ w.up.form = form /\ w.up.mode = w0.up.mode
      /\ w.view = w0.view /\ ViewIs(w)
      /\ Sound(w) => Sound(w0)
    BY <1>1, <1>3, SameBase
<1> HIDE DEF c
<1>7. CASE w.error
  <2>1. w1 = w
    BY <1>7 DEF Byte
  <2> QED
    BY <1>2, <1>7, <2>1 DEF Comes, c
<1>8. CASE ~w.error
  <2>1. Stands(w, k)
    BY <1>2, <1>5, <1>8
  <2>2. w.up.form \in AllForms
    BY <2>1 DEF Stands
  <2>3. /\ k + 1 <= Base(w) + Len(w.view)
        /\ k + 1 <= Len(Sent[w.up.form])
    <3>1. Base(w) + Len(w.view) = sent + n
        BY <1>1, <1>6
    <3> DEFINE len == Len(Sent[form])
    <3>2. len \in Nat
        BY <1>6, <2>2, Layout, LenProperties
    <3> HIDE DEF k, sent, len
    <3>3. k + 1 <= len
        BY <1>1, <1>4, <1>5, <3>2 DEF len
    <3> QED
        BY <1>5, <1>6, <3>1, <3>3 DEF len
  <2>4. Meets1(w, k)
    BY <1>1, <1>3, <1>5, <1>6, <1>8, <2>2, <2>3 DEF Meets1
  <2>5. c = Sent[w.up.form][k + 1]
    BY <1>1, <1>5, <1>6
  <2>6. Runs(w, w1) /\ Stands(w1, k + 1)
    BY <2>1, <2>4, <2>5, ByteStands
  <2> HIDE DEF w1
  <2>7. Runs(w0, w1)
    BY <1>2, <2>6, RunsOn
  <2>8. w1.error => ~Sound(w1)
    BY <2>6, StandsSound
  <2>9. Stands(w1, w0.up.sent + i)
    BY <1>5, <2>6
  <2> QED
    BY <2>7, <2>8, <2>9 DEF Comes, w1, c
<1> QED
    BY <1>7, <1>8

(* After all its bytes the reader stands where it should. *)
LEMMA AllCome ==
    ASSUME NEW w, NEW n, Starts(w, n), NEW s, Parse(s, w, n)
    PROVE  Comes(w, s[n], n)
<1> DEFINE T == {i \in 0 .. n : Comes(w, s[i], i)}
<1>1. /\ Typed(w) /\ ~w.error /\ n \in Nat /\ Stands(w, w.up.sent) /\ w.up.sent \in Nat
  <2>1. /\ Typed(w) /\ ~w.error /\ n \in Nat /\ Stands(w, w.up.sent)
    BY DEF Starts
  <2>2. w \in Puts
    BY <2>1 DEF Typed
  <2>3. w.up \in Readers
    BY <2>2, PutHas
  <2>4. w.up.sent \in Nat
    BY <2>3, ReaderHas
  <2> QED
    BY <2>1, <2>4
<1>2. 0 \in T
  <2>1. s[0] = w /\ w.up.sent + 0 = w.up.sent
    <3>1. s[0] = w
        BY DEF Parse
    <3> QED
        BY <1>1, <3>1
  <2>2. Runs(w, w)
    BY <1>1, RunsNowhere
  <2>3. Comes(w, s[0], 0)
    BY <1>1, <2>1, <2>2, Zenon DEF Comes
  <2> QED
    BY <1>1, <2>3
<1>3. ASSUME NEW i \in 0 .. n - 1, i \in T PROVE i + 1 \in T
  <2> DEFINE j == i + 1
  <2>1. j \in 1 .. n /\ j - 1 = i /\ j \in 0 .. n
    BY <1>1
  <2> HIDE DEF j
  <2>2. s[j] = Byte(s[j - 1], w.view[Len(w.up.pending) + j])
    BY <2>1, Zenon DEF Parse
  <2>3. Comes(w, s[j - 1], j - 1)
    BY <1>3, <2>1, Zenon
  <2>4. Comes(w, Byte(s[j - 1], w.view[Len(w.up.pending) + j]), j)
    BY <2>1, <2>3, ByteComes, Zenon
  <2>5. Comes(w, s[j], j)
    BY <2>2, <2>4, Zenon
  <2> QED
    BY <2>1, <2>5, Zenon DEF j
<1>4. 0 .. n \subseteq T
  <2> HIDE DEF T
  <2> QED
    BY <1>1, <1>2, <1>3, InductionUpTo
<1> QED
    BY <1>1, <1>4

(* What the parser of the stream stands on *)
LEMMA StandsOver ==
    ASSUME NEW w, NEW k, Stands(w, k), NEW x,
           x.up.form = w.up.form, x.up.parser = w.up.parser, x.up.message = w.up.message,
           Settled(x) = Settled(w),
           Sound(x) => Sound(w),
           \A i \in 1 .. Len(w.up.form) + 1 : Sound(x) /\ BetweenOf(w, i) => BetweenOf(x, i),
           \A i, l : Sound(x) /\ MidOf(w, i, l) => MidOf(x, i, l)
    PROVE  Stands(x, k)
<1>0. /\ 1 \in 1 .. Len(w.up.form) + 1
      /\ \A i \in 1 .. Len(w.up.form) : i + 1 \in 1 .. Len(w.up.form) + 1
      /\ Len(w.up.form) + 1 \in 1 .. Len(w.up.form) + 1
  <2> DEFINE n == Len(w.up.form)
  <2>1. n \in Nat
    BY FormFacts DEF Stands
  <2> HIDE DEF n
  <2>2. 1 \in 1 .. n + 1 /\ (\A i \in 1 .. n : i + 1 \in 1 .. n + 1) /\ n + 1 \in 1 .. n + 1
    BY <2>1
  <2> QED
    BY <2>2 DEF n
<1>1. InPreamble(w, k) => InPreamble(x, k)
    BY <1>0, ZenonT(60) DEF InPreamble
<1>2. \A i : InPart(w, k, i) => InPart(x, k, i)
  <2>1. SUFFICES ASSUME NEW i, InPart(w, k, i) PROVE InPart(x, k, i)
    OBVIOUS
  <2>2. InPartState(w) => InPartState(x)
    BY Zenon DEF InPartState
  <2> QED
    BY <2>1, <2>2, InPartIs, ZenonT(60)
<1>3. \A i \in 1 .. Len(w.up.form) : BehindPart(w, k, i) => BehindPart(x, k, i)
    BY <1>0, ZenonT(60) DEF BehindPart
<1>4. InEpilogue(w, k) => InEpilogue(x, k)
    BY <1>0, ZenonT(60) DEF InEpilogue
<1> QED
    BY <1>1, <1>2, <1>3, <1>4, ZenonT(60) DEF Stands

(* What is left of a part is written. *)
LEMMA PartWritten ==
    ASSUME NEW w, NEW i, NEW l, MidOf(w, i, l), w.up.is_writable
    PROVE  LET x == WritePart(w)
           IN  MidOf(x, i, l) /\ x.from = x.at
<1> DEFINE x == WritePart(w)
           q == Base(w) + w.at - 1
           part == w.up.form[i]
           n == Len(part.file)
           b == BodyAt(part)
<1>1. /\ Ready(w, i) /\ ~w.error
      /\ Reads(part, w.up.header, l)
      /\ Current(w.up, w.files, i, l, Written(w))
      /\ Right(w)
    BY MidHas
<1>2. \/ l \in 1 .. 2 /\ InName(w.up, i, Written(w))
      \/ IsFile(part) /\ l \in 5 .. 5 + n /\ InFilename(w.up, i, Written(w))
      \/ IsFile(part) /\ l >= b /\ InFile(w.up, w.files, i, Written(w))
      \/ ~IsFile(part) /\ l >= b /\ InContent(w.up, i, Written(w))
  <2>1. ~AtStart(w.up, i) /\ ~BehindName(w.up, i) /\ ~BehindFilename(w.up, w.files, i)
    BY Zenon DEF AtStart, BehindName, BehindFilename
  <2> QED
    BY <1>1, <2>1, ZenonT(60) DEF Current
<1> DEFINE Good == /\ Ready(x, i) /\ x.error = w.error /\ x.from = w.at /\ Keeps(w, x)
                   /\ \/ l \in 1 .. 2 /\ InName(x.up, i, q)
                      \/ IsFile(part) /\ l \in 5 .. 5 + n /\ InFilename(x.up, i, q)
                      \/ IsFile(part) /\ l >= b /\ InFile(x.up, x.files, i, q)
                      \/ ~IsFile(part) /\ l >= b /\ InContent(x.up, i, q)
<1>3. Good
  <2> HIDE DEF x, q, b, n
  <2>1. CASE l \in 1 .. 2 /\ InName(w.up, i, Written(w))
    BY <1>1, <2>1, NameWritten, Zenon DEF x, q
  <2>2. CASE IsFile(part) /\ l \in 5 .. 5 + n /\ InFilename(w.up, i, Written(w))
    BY <1>1, <2>2, FilenameWritten, Zenon DEF x, q
  <2>3. CASE IsFile(part) /\ l >= b /\ InFile(w.up, w.files, i, Written(w))
    BY <1>1, <2>3, FileWritten, Zenon DEF x, q
  <2>4. CASE ~IsFile(part) /\ l >= b /\ InContent(w.up, i, Written(w))
    BY <1>1, <2>4, ContentWritten, Zenon DEF x, q
  <2> QED
    BY <1>2, <2>1, <2>2, <2>3, <2>4, Zenon
<1> HIDE DEF x
<1>4. Ready(x, i) /\ x.error = w.error /\ x.from = w.at /\ Keeps(w, x)
    BY <1>3, Zenon
<1>5. Base(x) = Base(w) /\ x.up.form = w.up.form /\ x.at = w.at /\ x.view = w.view
    BY <1>4, KeepsBase
<1>6. Written(x) = q
    BY <1>4, <1>5, Zenon DEF Written
<1>7. Current(x.up, x.files, i, l, Written(x))
  <2> HIDE DEF q
  <2> QED
    BY <1>3, <1>5, <1>6, ZenonT(60) DEF Current
<1>8. Right(x)
  <2>1. x.from = x.at /\ x.at \in Nat
    BY <1>1, <1>4, <1>5, PutHas DEF Ready
  <2>2. x.from <= x.at
    BY <2>1
  <2>3. \A p : p \notin x.from .. x.at - 1
    BY <2>1
  <2> QED
    BY <2>2, <2>3, Zenon DEF Right
<1>9. Reads(x.up.form[i], x.up.header, l)
    BY <1>1, <1>4, <1>5, Zenon DEF Keeps
<1>10. MidOf(x, i, l)
    BY <1>1, <1>4, <1>7, <1>8, <1>9, Zenon DEF MidOf
<1> QED
    BY <1>4, <1>5, <1>10 DEF x

(* Writing what is left is a way of running. *)
LEMMA WriteRuns ==
    ASSUME NEW w, Typed(w)
    PROVE  LET x == WritePart(w)
           IN  Runs(w, x) /\ Keeps(w, x) /\ x.error = w.error
<1> DEFINE x == WritePart(w)
<1>1. w \in Puts /\ w.at - 1 <= Len(w.view) /\ OpenIsThere(w)
      /\ (w.up.header.state = "filename_body" => Len(w.up.values) > 0)
    BY DEF Typed
<1>2. /\ x \in Puts /\ Keeps(w, x) /\ x.error = w.error /\ x.opened = w.opened
      /\ x.up.file = w.up.file /\ x.up.wrote = w.up.wrote
      /\ SameBut(w.up.values, x.up.values)
      /\ \A g \in FileNames : /\ g # w.up.file => x.files[g] = w.files[g]
                              /\ w.files[g] # Absent => x.files[g] # Absent
    BY <1>1, WritePartIs
<1> HIDE DEF x
<1>3. OpenIsThere(x)
    BY <1>1, <1>2, Zenon DEF OpenIsThere
<1>4. Len(x.up.values) = Len(w.up.values) /\ Len(w.up.values) \in Nat
    BY <1>1, <1>2, PutValues DEF SameBut
<1>5. Writes(w, x)
  <2>1. x.up.file \in {w.up.file, Absent}
    BY <1>2
  <2> QED
    BY <1>2, <2>1, Zenon DEF Writes
<1>6. Passes(w, x)
  <2>1. Len(x.up.values) >= Len(w.up.values)
    BY <1>4
  <2> QED
    BY <1>2, <1>3, <1>5, <2>1, Zenon DEF Passes, Touches
<1>7. x.up.header.state = "filename_body" => Len(x.up.values) > 0
    BY <1>1, <1>2, <1>4 DEF Keeps
<1>8. Runs(w, x)
    BY <1>6, <1>7, PassesRuns
<1> QED
    BY <1>2, <1>8 DEF x

(* Writing what is left at the end of a put leaves the reader where it     *)
(* stands.                                                                 *)
LEMMA FlushedStands ==
    ASSUME NEW w, NEW k, Typed(w), Stands(w, k), ~w.error
    PROVE  LET x == Flushed(w)
           IN  /\ Runs(w, x) /\ Stands(x, k) /\ ~x.error
               /\ Sound(x) /\ x.up.is_writable => x.from = x.at
<1> DEFINE x == Flushed(w)
<1>1. CASE ~w.up.is_writable
  <2>1. x = w
    BY <1>1 DEF Flushed
  <2>2. Runs(w, w)
    BY RunsNowhere
  <2> HIDE DEF x
  <2>3. Runs(w, x) /\ Stands(x, k) /\ ~x.error /\ ~x.up.is_writable
    BY <1>1, <2>1, <2>2
  <2> QED
    BY <2>3 DEF x
<1>2. CASE w.up.is_writable
  <2>1. x = WritePart(w)
    BY <1>2 DEF Flushed
  <2>2. Runs(w, x) /\ Keeps(w, x) /\ x.error = w.error
    BY <2>1, WriteRuns
  <2>3. \A i, l : MidOf(w, i, l) => MidOf(x, i, l) /\ x.from = x.at
    BY <1>2, <2>1, PartWritten
  <2> HIDE DEF x
  <2>4. \A i : ~BetweenOf(w, i)
    BY <1>2 DEF BetweenOf, AtStart
  <2>5. /\ Base(x) = Base(w) /\ x.up.form = w.up.form /\ x.at = w.at
        /\ x.up.parser = w.up.parser /\ x.up.message = w.up.message
        /\ x.up.torn = w.up.torn /\ x.up.crossed = w.up.crossed /\ x.works = w.works
    BY <2>2, KeepsBase DEF Keeps
  <2>6. Settled(x) = Settled(w)
    BY <2>5 DEF Settled
  <2>7. Sound(x) => Sound(w)
    BY <2>2, <2>5 DEF Sound
  <2>8. Stands(x, k)
    BY <2>3, <2>4, <2>5, <2>6, <2>7, StandsOver
  <2>9. Sound(x) => x.from = x.at
    <3> SUFFICES ASSUME Sound(x) PROVE x.from = x.at
        OBVIOUS
    <3>0. Sound(w)
        BY <2>7
    <3>1. \A i : ~InPart(w, k, i) \/ x.from = x.at
        BY <2>3, <3>0, InPartIs, Zenon
    <3>2. ~InPreamble(w, k) /\ ~InEpilogue(w, k)
        BY <2>4, <3>0 DEF InPreamble, InEpilogue
    <3>3. \A i : ~BehindPart(w, k, i)
        BY <2>4, <3>0, Zenon DEF BehindPart
    <3> QED
        BY <3>1, <3>2, <3>3, Zenon DEF Stands
  <2>10. ~x.error
    BY <2>2
  <2> QED
    BY <2>2, <2>8, <2>9, <2>10 DEF x
<1> QED
    BY <1>1, <1>2

-----------------------------------------------------------------------------
(* Between two puts *)

(* A reader, as if a put of no bytes had just begun *)
Rest(up, fs) ==
    [up |-> up, files |-> fs, works |-> AllWorks, error |-> FALSE, opened |-> {},
     at |-> 1, from |-> 1, view |-> up.pending]

Safe(up, fs) ==
    LET r == Rest(up, fs)
    IN  Typed(r) /\ Stands(r, up.sent) /\ ViewIs(r)

(* All parts have been taken. *)
Stored(up, fs) ==
    /\ Len(up.values) = Len(up.form)
    /\ up.form \in AllForms
    /\ Earlier(up, fs, Len(up.form) + 1)

(* What holds of an upload by itself, with the files fs of the directory,  *)
(* which is there if d. *)
Upright(up, fs, d) ==
    /\ up.status = "reading" =>
          Safe(up, fs) /\ (up.mode = "ignore" \/ d \/ up.crossed)
    /\ up.status # "reading" => up.file = Absent
    /\ up.file \in FileNames => up.file \in up.wrote
    /\ \A f \in FileNames : f \in up.wrote /\ fs[f] = Absent => up.crossed
    /\ Answered(up) /\ ~up.torn /\ ~up.crossed => Stored(up, fs)
    /\ up.status = "dropped" => up.torn \/ up.crossed

FilesType == [FileNames -> Seq(Data) \cup {Absent}]

(* Only one upload writes a file, or the others are crossed. *)
Apart(up, up1) ==
    up.file \in FileNames /\ up.file \in up1.wrote => up1.crossed

UploadsInv ==
    /\ files \in FilesType /\ dir \in BOOLEAN /\ upload \in [Uploads -> Readers]
    /\ \A u \in Uploads : Upright(upload[u], files, dir)
    /\ \A u, v \in Uploads : u # v => Apart(upload[u], upload[v])

(* Where a reader is in the stream between two puts. *)
LEMMA RestPlaces ==
    ASSUME NEW up \in Readers, NEW fs
    PROVE  LET r == Rest(up, fs)
               b == up.sent - Len(up.pending)
           IN  /\ b \in Int /\ Base(r) = b /\ Settled(r) = b /\ Written(r) = b
               /\ Right(r)
               /\ fs \in FilesType => r \in Puts
<1> DEFINE r == Rest(up, fs)
           b == up.sent - Len(up.pending)
<1>1. /\ r.up = up /\ r.files = fs /\ r.error = FALSE /\ r.opened = {}
      /\ r.at = 1 /\ r.from = 1 /\ r.view = up.pending /\ r.works = AllWorks
    BY DEF Rest
<1>2. up.sent \in Nat /\ up.pending \in Seq(Bytes)
    BY ReaderHas
<1>3. b \in Int
    BY <1>2, LenProperties
<1>4. fs \in FilesType => r \in Puts
  <2>1. AllWorks \in Works
    BY DEF AllWorks, Works
  <2> QED
    BY <1>2, <2>1 DEF Rest, Puts, FilesType
<1> HIDE DEF r
<1>5. Base(r) = b
    BY <1>1 DEF Base
<1> HIDE DEF b
<1>6. Settled(r) = b /\ Written(r) = b
    BY <1>1, <1>3, <1>5 DEF Settled, Written
<1>7. Right(r)
  <2>1. r.from <= r.at /\ \A p : p \notin r.from .. r.at - 1
    BY <1>1
  <2> QED
    BY <2>1, Zenon DEF Right
<1> QED
    BY <1>3, <1>4, <1>5, <1>6, <1>7 DEF r, b

(* What others do meanwhile does not matter, or the upload is crossed. *)
SameReading(up, up1) ==
    /\ up1.form = up.form /\ up1.state = up.state /\ up1.is_writable = up.is_writable
    /\ up1.values = up.values /\ up1.name = up.name /\ up1.file = up.file
    /\ up1.offset = up.offset /\ up1.short = up.short /\ up1.wrote = up.wrote

SameFile(up, fs, fs1, i) ==
    IsFile(up.form[i]) /\ up.form[i].file \in up.wrote => fs1[up.form[i].file] = fs[up.form[i].file]

(* What has been taken of the current part stays when the reader and its   *)
(* file do.                                                                *)
LEMMA CurrentStays ==
    ASSUME NEW up, NEW up1, NEW fs, NEW fs1, NEW i, NEW l, NEW q,
           SameReading(up, up1), SameFile(up, fs, fs1, i), Current(up, fs, i, l, q)
    PROVE  Current(up1, fs1, i, l, q)
<1>0. /\ up1.form = up.form /\ up1.state = up.state /\ up1.is_writable = up.is_writable
      /\ up1.values = up.values /\ up1.name = up.name /\ up1.file = up.file
      /\ up1.offset = up.offset /\ up1.short = up.short /\ up1.wrote = up.wrote
    BY Zenon DEF SameReading
<1>a. LET f == up.form[i].file
      IN  IsFile(up.form[i]) /\ f \in up.wrote => fs1[f] = fs[f]
    BY Zenon DEF SameFile
<1>1. Entered(up, i) => Entered(up1, i)
    BY <1>0, Zenon DEF Entered
<1>2. AtStart(up, i) => AtStart(up1, i)
    BY <1>0, Zenon DEF AtStart
<1>3. InName(up, i, q) => InName(up1, i, q)
    BY <1>0, Zenon DEF InName
<1>4. BehindName(up, i) => BehindName(up1, i)
    BY <1>0, Zenon DEF BehindName
<1>5. InFilename(up, i, q) => InFilename(up1, i, q)
    BY <1>0, <1>1, Zenon DEF InFilename
<1>6. IsFile(up.form[i]) /\ BehindFilename(up, fs, i) => BehindFilename(up1, fs1, i)
    BY <1>0, <1>a, <1>1, ZenonT(60) DEF BehindFilename
<1>7. IsFile(up.form[i]) /\ InFile(up, fs, i, q) => InFile(up1, fs1, i, q)
    BY <1>0, <1>a, <1>1, ZenonT(60) DEF InFile
<1>8. InContent(up, i, q) => InContent(up1, i, q)
    BY <1>0, <1>1, Zenon DEF InContent
<1> QED
    BY <1>0, <1>2, <1>3, <1>4, <1>5, <1>6, <1>7, <1>8, ZenonT(60) DEF Current

(* What the earlier parts left stays while nobody disturbs their files. *)
LEMMA EarlierGoesOn ==
    ASSUME NEW up, NEW up1, NEW fs, NEW fs1, NEW i,
           up1.form = up.form, up1.values = up.values, up1.short = up.short, up1.wrote = up.wrote,
           \A j \in 1 .. i - 1 :
               LET f == up.form[j].file
               IN  IsFile(up.form[j]) /\ f \in up.wrote => fs1[f] = fs[f],
           Earlier(up, fs, i)
    PROVE  Earlier(up1, fs1, i)
<1>1. \A value, part : /\ IsFile(part) /\ part.file \in up.wrote => fs1[part.file] = fs[part.file]
                       /\ Kept1(up, fs, value, part)
                       => Kept1(up1, fs1, value, part)
    BY ZenonT(60) DEF Kept1
<1> QED
    BY <1>1, Zenon DEF Earlier

(* What others do meanwhile *)
Undisturbed(up, fs, fs1) == \A g \in FileNames : g \in up.wrote => fs1[g] = fs[g]

(* The same upload, crossed or not *)
CrossedAs(up, up1, f, c) == up1 = [up EXCEPT !.file = f, !.crossed = c]

(* The fields of an upload that is crossed, or not. *)
LEMMA CrossedAsHas ==
    ASSUME NEW up \in Readers, NEW up1, NEW f \in Seq(Bytes) \cup {Absent}, NEW c \in BOOLEAN,
           CrossedAs(up, up1, f, c)
    PROVE  /\ up1 \in Readers /\ up1.crossed = c /\ up1.file = f
           /\ up1.status = up.status /\ up1.form = up.form /\ up1.mode = up.mode
           /\ up1.sent = up.sent /\ up1.parser = up.parser /\ up1.message = up.message
           /\ up1.header = up.header /\ up1.state = up.state /\ up1.is_writable = up.is_writable
           /\ up1.name = up.name /\ up1.values = up.values /\ up1.offset = up.offset
           /\ up1.pending = up.pending /\ up1.stale = up.stale /\ up1.torn = up.torn
           /\ up1.short = up.short /\ up1.wrote = up.wrote
<1> DEFINE up0 == [up EXCEPT !.file = f]
<1>1. up1 = [up0 EXCEPT !.crossed = c]
    BY DEF CrossedAs
<1>2. up0 \in Readers
    BY SetReader
<1>3. up1 \in Readers
  <2> HIDE DEF up0
  <2> QED
    BY <1>1, <1>2, SetReader
<1>4. /\ up1.crossed = c /\ up1.file = f
      /\ up1.status = up.status /\ up1.form = up.form /\ up1.mode = up.mode
      /\ up1.sent = up.sent /\ up1.parser = up.parser /\ up1.message = up.message
      /\ up1.header = up.header /\ up1.state = up.state /\ up1.is_writable = up.is_writable
      /\ up1.name = up.name /\ up1.values = up.values /\ up1.offset = up.offset
      /\ up1.pending = up.pending /\ up1.stale = up.stale /\ up1.torn = up.torn
      /\ up1.short = up.short /\ up1.wrote = up.wrote
    BY DEF CrossedAs, Readers
<1> QED
    BY <1>3, <1>4

(* An upload that waits for its next put is safe from what others do, or   *)
(* crossed.                                                                *)
LEMMA SafeGoesOn ==
    ASSUME NEW up \in Readers, NEW up1, NEW f \in Seq(Bytes) \cup {Absent}, NEW c \in BOOLEAN,
           CrossedAs(up, up1, f, c), up.crossed => c,
           NEW fs \in FilesType, NEW fs1 \in FilesType, Safe(up, fs),
           ~c => f = up.file /\ Undisturbed(up, fs, fs1),
           f \in FileNames => fs1[f] # Absent
    PROVE  Safe(up1, fs1)
<1> DEFINE r == Rest(up, fs)
           r1 == Rest(up1, fs1)
           k == up.sent
<1>0. Typed(r) /\ Stands(r, k) /\ ViewIs(r)
    BY DEF Safe
<1>1. /\ up1 \in Readers /\ up1.crossed = c /\ up1.file = f
      /\ up1.form = up.form
      /\ up1.sent = up.sent /\ up1.parser = up.parser /\ up1.message = up.message
      /\ up1.header = up.header /\ up1.state = up.state /\ up1.is_writable = up.is_writable
      /\ up1.name = up.name /\ up1.values = up.values /\ up1.offset = up.offset
      /\ up1.pending = up.pending /\ up1.stale = up.stale /\ up1.torn = up.torn
      /\ up1.short = up.short /\ up1.wrote = up.wrote
    BY CrossedAsHas
<1>2. /\ r.up = up /\ r.files = fs /\ r.error = FALSE /\ r.at = 1 /\ r.view = up.pending
      /\ r1.up = up1 /\ r1.files = fs1 /\ r1.error = FALSE /\ r1.at = 1 /\ r1.view = up1.pending
  <2>1. /\ r.up = up /\ r.files = fs /\ r.error = FALSE /\ r.opened = {}
        /\ r.at = 1 /\ r.from = 1 /\ r.view = up.pending /\ r.works = AllWorks
    BY DEF Rest
  <2>2. /\ r1.up = up1 /\ r1.files = fs1 /\ r1.error = FALSE /\ r1.opened = {}
        /\ r1.at = 1 /\ r1.from = 1 /\ r1.view = up1.pending /\ r1.works = AllWorks
    BY DEF Rest
  <2> HIDE DEF r, r1
  <2> QED
    BY <2>1, <2>2
<1>3. /\ Base(r1) = Base(r) /\ Settled(r1) = Settled(r) /\ Written(r1) = Written(r) /\ Right(r1)
      /\ r1 \in Puts /\ Base(r) \in Int
    BY <1>1, RestPlaces
<1> HIDE DEF r, r1
<1>4. Typed(r1)
  <2>1. OpenIsThere(r1)
    BY <1>1, <1>2 DEF OpenIsThere
  <2>2. r1.at - 1 <= Len(r1.view)
    BY <1>0, <1>1, <1>2, Zenon DEF Typed
  <2>3. r1.up.header.state = "filename_body" => Len(r1.up.values) > 0
    BY <1>0, <1>1, <1>2 DEF Typed
  <2> QED
    BY <1>3, <2>1, <2>2, <2>3, Zenon DEF Typed
<1>5. ViewIs(r1)
    BY <1>0, <1>1, <1>2, <1>3 DEF ViewIs
<1>6. Sound(r1) => Sound(r)
    BY <1>1, <1>2 DEF Sound
<1> DEFINE form == up.form
<1>a. form \in AllForms /\ Len(form) \in Nat
    BY <1>0, <1>2, FormFacts DEF Stands
<1>b. \A j \in 1 .. Len(form) : IsFile(form[j]) => form[j].file \in FileNames
    BY <1>a, FormFacts, PartFacts
<1>7. ASSUME Sound(r1), NEW i \in 1 .. Len(form) + 1, Earlier(r.up, r.files, i)
      PROVE  Earlier(r1.up, r1.files, i)
  <2>1. ~c
    BY <1>1, <1>2, <1>7 DEF Sound
  <2>2. \A j \in 1 .. i - 1 : j \in 1 .. Len(form)
    <3> HIDE DEF form
    <3> QED
        BY <1>a
  <2>3. \A j \in 1 .. i - 1 :
            IsFile(form[j]) /\ form[j].file \in up.wrote => fs1[form[j].file] = fs[form[j].file]
    BY <1>b, <2>1, <2>2, Zenon DEF Undisturbed
  <2> QED
    BY <1>1, <1>2, <1>7, <2>3, EarlierGoesOn
<1>8. ASSUME Sound(r1), NEW i \in 1 .. Len(form) + 1, BetweenOf(r, i)
      PROVE  BetweenOf(r1, i)
  <2>1. ~c
    BY <1>1, <1>2, <1>8 DEF Sound
  <2>2. /\ r.up.form \in AllForms
        /\ Earlier(r.up, r.files, i) /\ AtStart(r.up, i)
        /\ Expects(r.up.header, "content_disposition", 1)
    BY <1>8 DEF BetweenOf
  <2>3. AtStart(r1.up, i)
    BY <1>1, <1>2, <2>1, <2>2 DEF AtStart
  <2>4. Earlier(r1.up, r1.files, i)
    BY <1>7, <1>8, <2>2
  <2> QED
    BY <1>1, <1>2, <2>2, <2>3, <2>4 DEF BetweenOf
<1>9. ASSUME Sound(r1), NEW i, NEW l, MidOf(r, i, l)
      PROVE  MidOf(r1, i, l)
  <2>1. ~c
    BY <1>1, <1>2, <1>9 DEF Sound
  <2>2. /\ Ready(r, i)
        /\ Reads(r.up.form[i], r.up.header, l)
        /\ Current(r.up, r.files, i, l, Written(r))
    BY <1>9, MidHas
  <2>a. i \in 1 .. Len(form)
    BY <1>2, <2>2 DEF Ready
  <2>b. IsFile(form[i]) /\ form[i].file \in up.wrote => fs1[form[i].file] = fs[form[i].file]
    BY <1>b, <2>1, <2>a, Zenon DEF Undisturbed
  <2>3. Current(r1.up, r1.files, i, l, Written(r1))
    <3>1. Current(up, fs, i, l, Written(r))
        BY <1>2, <2>2, Zenon
    <3>2. SameReading(up, up1) /\ SameFile(up, fs, fs1, i)
        BY <1>1, <2>1, <2>b DEF SameReading, SameFile
    <3>3. Current(up1, fs1, i, l, Written(r))
        BY <3>1, <3>2, CurrentStays, Zenon
    <3> QED
        BY <1>2, <1>3, <3>3, Zenon
  <2>4. Earlier(r1.up, r1.files, i)
    <3>1. i \in 1 .. Len(form) + 1
      <4> HIDE DEF form
      <4> QED
        BY <1>a, <2>a
    <3> QED
        BY <1>7, <1>9, <2>2, <3>1 DEF Ready
  <2>5. Ready(r1, i)
    <3>1. r1 \in Puts /\ r1.at - 1 <= Len(r1.view) /\ OpenIsThere(r1)
        BY <1>4 DEF Typed
    <3>2. r1.up.form \in AllForms /\ i \in 1 .. Len(r1.up.form)
        BY <1>1, <1>2, <2>2 DEF Ready
    <3> QED
        BY <2>4, <3>1, <3>2 DEF Ready
  <2>6. ~r1.error /\ Reads(r1.up.form[i], r1.up.header, l)
    BY <1>1, <1>2, <2>2
  <2> QED
    BY <1>3, <2>3, <2>5, <2>6 DEF MidOf
<1>10. Stands(r1, k)
    BY <1>0, <1>1, <1>2, <1>3, <1>6, <1>8, <1>9, StandsOver
<1> QED
    BY <1>1, <1>4, <1>5, <1>10 DEF Safe, r1

(* A piece of a sequence, element by element. *)
LEMMA Piece ==
    ASSUME NEW S, NEW s \in Seq(S), NEW m \in Nat, m > 0, NEW e \in Nat, e <= Len(s), m <= e + 1
    PROVE  /\ SubSeq(s, m, e) \in Seq(S) /\ Len(SubSeq(s, m, e)) = e - m + 1
           /\ \A i \in 1 .. e - m + 1 : SubSeq(s, m, e)[i] = s[m - 1 + i]
<1> DEFINE t == SubSeq(s, m, e)
<1>0. Len(s) \in Nat
    BY LenProperties
<1>1. \A i \in m .. e : s[i] \in S
    BY <1>0, ElementOfSeq
<1>2. /\ t \in Seq(S)
      /\ Len(t) = IF m <= e THEN e - m + 1 ELSE 0
      /\ \A i \in 1 .. e - m + 1 : t[i] = s[m + i - 1]
  <2>1. m \in Int /\ e \in Int
    OBVIOUS
  <2> QED
    BY <1>1, <2>1, SubSeqProperties
<1> HIDE DEF t
<1>3. Len(t) = e - m + 1
    BY <1>2
<1>4. ASSUME NEW i \in 1 .. e - m + 1 PROVE t[i] = s[m - 1 + i]
  <2>1. m + i - 1 = m - 1 + i
    OBVIOUS
  <2>2. t[i] = s[m + i - 1]
    BY <1>2
  <2> QED
    BY <2>1, <2>2
<1> QED
    BY <1>2, <1>3, <1>4 DEF t

(* A put begins with what was kept, and what comes now. *)
LEMMA BegunView ==
    ASSUME NEW up \in Readers, NEW n \in Nat, up.form \in AllForms, up.sent + n <= Len(Sent[up.form])
    PROVE  LET view == up.pending \o SubSeq(Sent[up.form], up.sent + 1, up.sent + n)
               old == Len(up.pending)
           IN  /\ view \in Seq(Bytes) /\ old \in Nat /\ Len(view) = old + n /\ up.sent \in Nat
               /\ \A i \in 1 .. old : view[i] = up.pending[i]
               /\ \A i \in 1 .. n : view[old + i] = Sent[up.form][up.sent + i]
<1> DEFINE s == Sent[up.form]
           sent == up.sent
           pending == up.pending
           come == SubSeq(s, sent + 1, sent + n)
<1>1. sent \in Nat /\ pending \in Seq(Bytes) /\ s \in Seq(Bytes) /\ Len(pending) \in Nat /\ sent + n <= Len(s)
    BY ReaderHas, Layout, LenProperties
<1>2. come \in Seq(Bytes) /\ Len(come) = n /\ \A i \in 1 .. n : come[i] = s[sent + i]
  <2> DEFINE m == sent + 1
             e == sent + n
  <2>1. m \in Nat /\ m > 0 /\ e \in Nat /\ e <= Len(s) /\ m <= e + 1 /\ e - m + 1 = n /\ m - 1 = sent
    <3> HIDE DEF s, sent
    <3> QED
        BY <1>1
  <2> HIDE DEF m, e, s, sent
  <2>2. /\ SubSeq(s, m, e) \in Seq(Bytes) /\ Len(SubSeq(s, m, e)) = e - m + 1
        /\ \A i \in 1 .. e - m + 1 : SubSeq(s, m, e)[i] = s[m - 1 + i]
    BY <1>1, <2>1, Piece
  <2>3. come = SubSeq(s, m, e)
    BY DEF m, e
  <2> HIDE DEF come
  <2>4. come \in Seq(Bytes) /\ Len(come) = n /\ \A i \in 1 .. n : come[i] = s[sent + i]
    BY <2>1, <2>2, <2>3
  <2> QED
    BY <2>4 DEF come, s, sent, m, e
<1> HIDE DEF come
<1>3. Joins(Bytes, pending \o come, pending, come, Len(pending), n)
    BY <1>1, <1>2, Joined
<1>4. \A i \in 1 .. n : (pending \o come)[Len(pending) + i] = s[sent + i]
    BY <1>2, <1>3, Zenon DEF Joins
<1> QED
    BY <1>1, <1>3, <1>4, Zenon DEF Joins, come

(* What is kept for the next put. *)
LEMMA PendingIs ==
    ASSUME NEW w \in Puts, NEW n \in Nat, Len(w.view) = Len(w.up.pending) + n, w.at - 1 <= Len(w.view)
    PROVE  LET p == Pending(w, n)
               len == Len(w.view) - (w.at - 1)
           IN  /\ p \in Seq(Bytes) /\ Len(p) = len
               /\ w.at > Len(w.up.pending) => \A i \in 1 .. len : p[i] = w.view[w.at - 1 + i]
<1> DEFINE view == w.view
           pending == w.up.pending
           old == Len(pending)
           all == Len(view)
           at == w.at
           p == Pending(w, n)
           len == all - (at - 1)
           kept == SubSeq(pending, (at - 1) + 1, old)
<1>1. view \in Seq(Bytes) /\ pending \in Seq(Bytes) /\ at \in Nat /\ at > 0
    BY PutHas, ReaderHas
<1>2. old \in Nat /\ all \in Nat /\ all = old + n /\ at - 1 <= all
    BY <1>1, LenProperties
<1>3. (at - 1) + 1 = at
  <2> HIDE DEF at
  <2> QED
    BY <1>1
<1>4. p = IF kept = << >> THEN SubSeq(view, at, all) ELSE kept \o SubSeq(view, at, (at - 1) + n)
    BY DEF Pending
<1> DEFINE k == SubSeq(pending, at, old)
<1>5. kept = k
    BY <1>3
<1> HIDE DEF p, kept
<1>6. CASE at > old
  <2>1. k = << >>
    <3>1. at \in Int /\ old \in Int /\ old < at
      <4> HIDE DEF at, old
      <4> QED
        BY <1>1, <1>2, <1>6
    <3> QED
        BY <3>1, SubSeqEmpty
  <2>2. p = SubSeq(view, at, all)
    BY <1>4, <1>5, <2>1
  <2>3. at <= all + 1 /\ all - at + 1 = len
    <3> HIDE DEF at, all, old
    <3> QED
        BY <1>1, <1>2
  <2>4. p \in Seq(Bytes) /\ Len(p) = all - at + 1
        /\ \A i \in 1 .. all - at + 1 : p[i] = view[at - 1 + i]
    <3> HIDE DEF at, view
    <3> QED
        BY <1>1, <1>2, <2>2, <2>3, Piece
  <2>5. p \in Seq(Bytes) /\ Len(p) = len /\ \A i \in 1 .. len : p[i] = view[at - 1 + i]
    <3> HIDE DEF at, view, len, all
    <3> QED
        BY <2>3, <2>4
  <2> QED
    BY <2>5 DEF p
<1>7. CASE ~(at > old)
  <2>1. at <= old + 1 /\ old - at + 1 > 0 /\ (at - 1) + n \in Nat /\ (at - 1) + n <= all
        /\ at <= (at - 1) + n + 1 /\ (at - 1) + n - at + 1 = n /\ old - at + 1 + n = len
    <3> HIDE DEF at, all, old
    <3> QED
        BY <1>1, <1>2, <1>7
  <2>2. k \in Seq(Bytes) /\ Len(k) = old - at + 1
    <3> HIDE DEF at, pending
    <3> QED
        BY <1>1, <1>2, <2>1, Piece
  <2> DEFINE more == SubSeq(view, at, (at - 1) + n)
             e == (at - 1) + n
  <2>3. more \in Seq(Bytes) /\ Len(more) = n
    <3>1. e \in Nat /\ e <= Len(view) /\ at <= e + 1 /\ e - at + 1 = n
      <4> HIDE DEF at, all, old
      <4>1. e \in Nat /\ e <= all /\ at <= e + 1 /\ e - at + 1 = n
        BY <1>1, <1>2, <2>1
      <4> QED
        BY <4>1 DEF all
    <3> HIDE DEF at, view, e
    <3>2. SubSeq(view, at, e) \in Seq(Bytes) /\ Len(SubSeq(view, at, e)) = e - at + 1
        BY <1>1, <3>1, Piece
    <3>3. more = SubSeq(view, at, e)
        BY DEF e
    <3> HIDE DEF more
    <3>4. more \in Seq(Bytes) /\ Len(more) = n
        BY <3>1, <3>2, <3>3
    <3> QED
        BY <3>4 DEF more, at, view
  <2> HIDE DEF k, more
  <2>4. k # << >>
    <3>1. Len(k) > 0
        BY <2>1, <2>2
    <3> QED
        BY <3>1
  <2>5. p = k \o more
    BY <1>4, <1>5, <2>4 DEF more
  <2>6. p \in Seq(Bytes) /\ Len(p) = (old - at + 1) + n
    <3> DEFINE a == old - at + 1
    <3>1. Joins(Bytes, k \o more, k, more, a, n)
      <4> HIDE DEF a
      <4>1. a = Len(k)
        BY <2>2 DEF a
      <4> QED
        BY <2>2, <2>3, <4>1, Joined
    <3> QED
        BY <2>5, <3>1, Zenon DEF Joins
  <2>7. Len(p) = len
    <3> HIDE DEF len, at, old
    <3> QED
        BY <2>1, <2>6
  <2> QED
    BY <1>7, <2>6, <2>7 DEF p
<1> QED
    BY <1>6, <1>7

(* A put begins where the last one ended. *)
LEMMA BegunStarts ==
    ASSUME NEW u, upload[u] \in Readers, files \in FilesType, Safe(upload[u], files),
           NEW works \in Works, NEW n \in Nat,
           upload[u].sent + n <= Len(Sent[upload[u].form]),
           upload[u].mode = "ignore" \/ dir \/ upload[u].crossed
    PROVE  LET w == Begun(u, n, works)
           IN  /\ Starts(w, n) /\ w.up = upload[u] /\ w.files = files /\ w.opened = {}
               /\ w.works = works
<1> DEFINE up == upload[u]
           form == up.form
           sent == up.sent
           old == Len(up.pending)
           s == Sent[form]
           come == up.pending \o SubSeq(s, sent + 1, sent + n)
           w == Begun(u, n, works)
           r == Rest(up, files)
           b == sent - old
<1>0. Typed(r) /\ Stands(r, sent) /\ ViewIs(r)
    BY DEF Safe
<1>1. /\ r.up = up /\ r.files = files /\ r.error = FALSE /\ r.opened = {}
      /\ r.at = 1 /\ r.from = 1 /\ r.view = up.pending /\ r.works = AllWorks
    BY DEF Rest
<1>2. /\ b \in Int /\ Base(r) = b /\ Settled(r) = b /\ Written(r) = b
    BY RestPlaces
<1> HIDE DEF r
<1>3. form \in AllForms
    BY <1>0, <1>1 DEF Stands
<1>4. /\ come \in Seq(Bytes) /\ old \in Nat /\ Len(come) = old + n /\ sent \in Nat
      /\ \A i \in 1 .. old : come[i] = up.pending[i]
      /\ \A i \in 1 .. n : come[old + i] = s[sent + i]
    BY <1>3, BegunView
<1> HIDE DEF come
<1>5. /\ w.up = up /\ w.files = files /\ w.error = FALSE /\ w.opened = {}
      /\ w.at = 1 /\ w.from = 1 /\ w.view = come /\ w.works = works
    BY DEF Begun, come
<1>6. w \in Puts
  <2>1. w = [up |-> up, files |-> files, works |-> works, error |-> FALSE, opened |-> {},
             at |-> 1, from |-> 1, view |-> come]
    BY Zenon DEF Begun, come
  <2>2. files \in [FileNames -> Seq(Data) \cup {Absent}] /\ 1 \in Nat \ {0}
    BY DEF FilesType
  <2> HIDE DEF w, up
  <2>3. up \in Readers
    BY DEF up
  <2> QED
    BY <1>4, <2>1, <2>2, <2>3 DEF Puts
<1> HIDE DEF w
<1>7. Base(w) = b /\ Settled(w) = b /\ Written(w) = b
  <2>1. Base(w) = b
    BY <1>5 DEF Base
  <2> HIDE DEF b
  <2> QED
    BY <1>2, <1>5, <2>1 DEF Settled, Written
<1>8. Typed(w)
  <2>1. OpenIsThere(w)
    BY <1>0, <1>1, <1>5 DEF OpenIsThere, Typed
  <2>2. w.at - 1 <= Len(w.view)
    <3> HIDE DEF old
    <3> QED
        BY <1>4, <1>5
  <2>3. w.up.header.state = "filename_body" => Len(w.up.values) > 0
    BY <1>0, <1>1, <1>5 DEF Typed
  <2> QED
    BY <1>6, <2>1, <2>2, <2>3, Zenon DEF Typed
<1>9. Right(w)
  <2>1. w.from <= w.at /\ \A p : p \notin w.from .. w.at - 1
    BY <1>5
  <2> QED
    BY <2>1, Zenon DEF Right
<1>10. \A i : BetweenOf(r, i) => BetweenOf(w, i)
    BY <1>1, <1>5 DEF BetweenOf
<1>11. ASSUME NEW i, NEW l, MidOf(r, i, l) PROVE MidOf(w, i, l)
  <2>1. /\ Ready(r, i)
        /\ Reads(r.up.form[i], r.up.header, l)
        /\ Current(r.up, r.files, i, l, Written(r))
    BY <1>11, MidHas
  <2>2. Ready(w, i)
    BY <1>1, <1>5, <1>8, <2>1 DEF Ready, Typed
  <2>3. Current(w.up, w.files, i, l, Written(w)) /\ Reads(w.up.form[i], w.up.header, l)
    BY <1>1, <1>2, <1>5, <1>7, <2>1
  <2> QED
    BY <1>5, <1>9, <2>2, <2>3 DEF MidOf
<1>12. Stands(w, sent)
  <2>1. Sound(w) => Sound(r)
    BY <1>1, <1>5 DEF Sound
  <2> QED
    BY <1>0, <1>1, <1>2, <1>5, <1>7, <1>10, <1>11, <2>1, StandsOver
<1>13. ViewIs(w)
  <2> SUFFICES ASSUME NEW p \in 1 .. Len(w.view), p > Len(w.up.pending) \/ ~w.up.stale
               PROVE  w.view[p] = Sent[w.up.form][Base(w) + p]
    BY DEF ViewIs
  <2>0. p \in 1 .. old + n /\ (p > old \/ ~up.stale)
    BY <1>4, <1>5
  <2>1. CASE p > old
    <3> DEFINE i == p - old
    <3>1. i \in 1 .. n /\ old + i = p /\ sent + i = b + p
      <4> HIDE DEF old, sent
      <4> QED
        BY <1>4, <2>0, <2>1
    <3> HIDE DEF i
    <3>2. come[old + i] = s[sent + i]
        BY <1>4, <3>1, Zenon
    <3> QED
        BY <1>5, <1>7, <3>1, <3>2, Zenon
  <2>2. CASE ~(p > old)
    <3>1. p \in 1 .. old /\ ~up.stale
      <4> HIDE DEF old
      <4> QED
        BY <1>4, <2>0, <2>2
    <3>2. p \in 1 .. Len(r.view) /\ ~r.up.stale
        BY <1>1, <3>1
    <3>3. r.view[p] = Sent[r.up.form][Base(r) + p]
        BY <1>0, <3>2, Zenon DEF ViewIs
    <3>4. come[p] = up.pending[p]
        BY <1>4, <3>1, Zenon
    <3> QED
        BY <1>1, <1>2, <1>5, <1>7, <3>3, <3>4, Zenon
  <2> QED
    BY <2>1, <2>2
<1>14. Base(w) + Len(w.view) = sent + n
  <2>1. b + (old + n) = sent + n
    <3> HIDE DEF old, sent
    <3> QED
        BY <1>4
  <2> QED
    BY <1>4, <1>5, <1>7, <2>1, Zenon
<1>15. Sound(w) => dir \/ w.up.mode = "ignore"
    BY <1>5 DEF Sound
<1>16. \A i \in 1 .. n : w.view[Len(w.up.pending) + i] = Sent[w.up.form][w.up.sent + i]
    BY <1>4, <1>5, Zenon
<1>17. w.up.sent + n <= Len(Sent[w.up.form])
    BY <1>5
<1>18. Starts(w, n)
    BY <1>5, <1>8, <1>12, <1>13, <1>14, <1>15, <1>16, <1>17, Zenon DEF Starts
<1> QED
    BY <1>5, <1>18 DEF w

(* Where a put stands at the end of its bytes. *)
Read(w, x, n) ==
    /\ Runs(w, x)
    /\ x.error => ~Sound(x)
    /\ ~x.error => /\ Stands(x, w.up.sent + n)
                   /\ Sound(x) /\ x.up.is_writable => x.from = x.at

(* A put that starts where the reader stood ends where it should stand. *)
LEMMA ParsedStands ==
    ASSUME NEW w, NEW n, Starts(w, n)
    PROVE  Read(w, Parsed(w, n), n)
<1> DEFINE x == Parsed(w, n)
           k == w.up.sent + n
<1>0. n \in Nat
    BY DEF Starts
<1>1. PICK s : Parse(s, w, n)
    BY <1>0, ParsedIs
<1> DEFINE y == s[n]
<1>2. x = Flushed(y)
    BY <1>1 DEF Parse
<1>3. Comes(w, y, n)
    BY <1>1, AllCome
<1> HIDE DEF x, y
<1>4. Runs(w, y) /\ (~y.error => Stands(y, k)) /\ (y.error => ~Sound(y))
    BY <1>3 DEF Comes
<1>5. CASE y.error
  <2>1. x = y
    BY <1>2, <1>5 DEF Flushed
  <2> QED
    BY <1>4, <1>5, <2>1 DEF Read, x
<1>6. CASE ~y.error
  <2>1. Typed(y)
    BY <1>4 DEF Runs
  <2>2. /\ Runs(y, x) /\ Stands(x, k) /\ ~x.error
        /\ Sound(x) /\ x.up.is_writable => x.from = x.at
    BY <1>2, <1>4, <1>6, <2>1, FlushedStands
  <2>3. Runs(w, x)
    BY <1>4, <2>2, RunsOn
  <2> QED
    BY <2>2, <2>3 DEF Read, x
<1> QED
    BY <1>5, <1>6

(* The fields of what is kept for the next put. *)
LEMMA KeptHas ==
    ASSUME NEW x \in Puts, NEW n \in Nat, Pending(x, n) \in Seq(Bytes)
    PROVE  LET up == Kept(x, n)
           IN  /\ up \in Readers
               /\ up.pending = Pending(x, n) /\ up.stale = (x.at <= Len(x.up.pending))
               /\ up.sent = x.up.sent + n
               /\ up.status = x.up.status /\ up.form = x.up.form /\ up.mode = x.up.mode
               /\ up.parser = x.up.parser /\ up.message = x.up.message
               /\ up.header = x.up.header /\ up.state = x.up.state
               /\ up.is_writable = x.up.is_writable
               /\ up.name = x.up.name /\ up.values = x.up.values /\ up.file = x.up.file
               /\ up.offset = x.up.offset /\ up.torn = x.up.torn
               /\ up.short = x.up.short /\ up.wrote = x.up.wrote /\ up.crossed = x.up.crossed
<1> DEFINE p == Pending(x, n)
           b == x.at <= Len(x.up.pending)
           t == x.up.sent + n
<1>1. x.up \in Readers
    BY PutHas
<1>2. t \in Nat /\ b \in BOOLEAN
    BY <1>1, ReaderHas
<1>3. Kept(x, n) = [x.up EXCEPT !.pending = p, !.stale = b, !.sent = t]
    BY DEF Kept
<1> HIDE DEF p, b, t
<1>4. [x.up EXCEPT !.pending = p, !.stale = b, !.sent = t] \in Readers
  <2>1. p \in Seq(Bytes)
    BY DEF p
  <2> QED
    BY <1>1, <1>2, <2>1 DEF Readers
<1>5. LET up == [x.up EXCEPT !.pending = p, !.stale = b, !.sent = t]
      IN  /\ up.pending = p /\ up.stale = b /\ up.sent = t
          /\ up.status = x.up.status /\ up.form = x.up.form /\ up.mode = x.up.mode
          /\ up.parser = x.up.parser /\ up.message = x.up.message
          /\ up.header = x.up.header /\ up.state = x.up.state
          /\ up.is_writable = x.up.is_writable
          /\ up.name = x.up.name /\ up.values = x.up.values /\ up.file = x.up.file
          /\ up.offset = x.up.offset /\ up.torn = x.up.torn
          /\ up.short = x.up.short /\ up.wrote = x.up.wrote /\ up.crossed = x.up.crossed
    BY <1>1 DEF Readers
<1> QED
    BY <1>3, <1>4, <1>5 DEF p, b, t

(* What is not settled is kept. *)
LEMMA KeptSafe ==
    ASSUME NEW w, NEW n, Starts(w, n), NEW x, Read(w, x, n), ~x.error
    PROVE  Kept(x, n) \in Readers /\ Safe(Kept(x, n), x.files)
<1> DEFINE up == Kept(x, n)
           p == Pending(x, n)
           r == Rest(up, x.files)
           k == w.up.sent + n
           old == Len(x.up.pending)
           all == Len(x.view)
           at == x.at
           len == all - (at - 1)
           bx == Base(x)
<1>0. /\ Typed(w) /\ ViewIs(w) /\ n \in Nat
      /\ Base(w) + Len(w.view) = w.up.sent + n
    BY DEF Starts
<1>1. /\ Runs(w, x) /\ Stands(x, k)
      /\ Sound(x) /\ x.up.is_writable => x.from = x.at
    BY DEF Read
<1>2. Typed(x) /\ SamePut(w, x) /\ x \in Puts /\ at - 1 <= all /\ OpenIsThere(x)
      /\ (x.up.header.state = "filename_body" => Len(x.up.values) > 0)
    BY <1>1 DEF Runs, Typed
<1>3. /\ Base(x) = Base(w) /\ x.view = w.view /\ x.up.pending = w.up.pending
      /\ ViewIs(x) /\ x.up.sent = w.up.sent
    BY <1>0, <1>2, SameBase DEF SamePut
<1>4. x.up.sent \in Nat /\ old \in Nat /\ all \in Nat /\ at \in Nat /\ at > 0 /\ bx \in Int
    BY <1>2, PutHas, ReaderHas, LenProperties, BaseIs
<1>5. all = old + n /\ bx = x.up.sent - old
  <2>1. bx = x.up.sent - old
    BY DEF Base
  <2>2. bx + all = x.up.sent + n
    BY <1>0, <1>3
  <2> DEFINE sent == x.up.sent
  <2>3. sent \in Nat
    BY <1>4
  <2> HIDE DEF bx, all, old, sent
  <2>4. bx = sent - old /\ bx + all = sent + n
    BY <2>1, <2>2 DEF sent
  <2>5. all = old + n
    BY <1>0, <1>4, <2>3, <2>4
  <2> QED
    BY <2>1, <2>5
<1>6. /\ p \in Seq(Bytes) /\ Len(p) = len
      /\ at > old => \A i \in 1 .. len : p[i] = x.view[at - 1 + i]
    BY <1>0, <1>2, <1>5, PendingIs
<1> HIDE DEF p
<1>7. /\ up \in Readers
      /\ up.pending = p /\ up.stale = (at <= old)
      /\ up.sent = x.up.sent + n
      /\ up.form = x.up.form
      /\ up.parser = x.up.parser /\ up.message = x.up.message
      /\ up.header = x.up.header /\ up.state = x.up.state
      /\ up.is_writable = x.up.is_writable
      /\ up.name = x.up.name /\ up.values = x.up.values /\ up.file = x.up.file
      /\ up.offset = x.up.offset /\ up.torn = x.up.torn
      /\ up.short = x.up.short /\ up.wrote = x.up.wrote /\ up.crossed = x.up.crossed
    BY <1>0, <1>2, <1>6, KeptHas DEF p
<1> HIDE DEF up
<1>8. /\ r.up = up /\ r.files = x.files /\ r.error = FALSE /\ r.opened = {}
      /\ r.at = 1 /\ r.from = 1 /\ r.view = up.pending /\ r.works = AllWorks
    BY DEF Rest
<1>9. x.files \in FilesType
    BY <1>2, PutHas DEF FilesType
<1>10. /\ Base(r) = up.sent - Len(up.pending) /\ Settled(r) = up.sent - Len(up.pending)
       /\ Written(r) = up.sent - Len(up.pending) /\ Right(r) /\ r \in Puts
    BY <1>7, <1>9, RestPlaces
<1> HIDE DEF r
<1>11. /\ up.sent - Len(up.pending) = bx + at - 1
       /\ Settled(x) = bx + at - 1
  <2>1. x.up.sent + n - len = bx + at - 1
    <3> DEFINE sent == x.up.sent
    <3>1. sent \in Nat /\ bx = sent - old
        BY <1>4, <1>5
    <3> HIDE DEF bx, all, old, at, sent
    <3>2. sent + n - (all - (at - 1)) = bx + at - 1
        BY <1>0, <1>4, <1>5, <3>1
    <3> QED
        BY <3>2 DEF sent
  <2>2. Settled(x) = bx + at - 1
    BY DEF Settled
  <2>3. up.sent - Len(up.pending) = x.up.sent + n - len
    <3> DEFINE s1 == up.sent
               l1 == Len(up.pending)
               s0 == x.up.sent
    <3>1. s1 = s0 + n
        BY <1>7, Zenon
    <3>2. l1 = len
      <4>1. up.pending = p /\ Len(p) = len
        BY <1>6, <1>7, Zenon
      <4> HIDE DEF len
      <4> QED
        BY <4>1
    <3>3. s0 \in Int /\ n \in Int /\ len \in Int
      <4> HIDE DEF all, at
      <4> QED
        BY <1>0, <1>4
    <3> HIDE DEF s1, l1, s0, len
    <3>4. s1 - l1 = s0 + n - len
        BY <3>1, <3>2, <3>3
    <3> QED
        BY <3>4 DEF s1, l1, s0
  <2> HIDE DEF bx, len, at
  <2> QED
    BY <2>1, <2>2, <2>3
<1>12. Typed(r)
  <2>1. OpenIsThere(r)
    BY <1>2, <1>7, <1>8 DEF OpenIsThere
  <2>2. r.at - 1 <= Len(r.view)
    <3>1. Len(r.view) \in Nat
        BY <1>7, <1>8, <1>6, LenProperties
    <3> QED
        BY <1>8, <3>1
  <2>3. r.up.header.state = "filename_body" => Len(r.up.values) > 0
    BY <1>2, <1>7, <1>8
  <2> QED
    BY <1>10, <2>1, <2>2, <2>3, Zenon DEF Typed
<1>13. ViewIs(r)
  <2> SUFFICES ASSUME NEW q \in 1 .. Len(r.view), q > Len(r.up.pending) \/ ~r.up.stale
               PROVE  r.view[q] = Sent[r.up.form][Base(r) + q]
    BY DEF ViewIs
  <2>1. q \in 1 .. len /\ ~(at <= old)
    <3>1. Len(r.view) = len /\ Len(r.up.pending) = len /\ r.up.stale = (at <= old)
        BY <1>6, <1>7, <1>8
    <3>2. q \in 1 .. len /\ (q > len \/ ~(at <= old))
        BY <3>1
    <3>3. len \in Int
      <4> HIDE DEF all, at
      <4> QED
        BY <1>4
    <3> HIDE DEF len, at, old
    <3> QED
        BY <3>2, <3>3
  <2> DEFINE j == at - 1 + q
  <2>2. j \in 1 .. all /\ j > old /\ bx + j = (bx + at - 1) + q /\ at > old
    <3> HIDE DEF bx, all, at, old
    <3> QED
        BY <1>4, <2>1
  <2>3. p[q] = x.view[j]
    <3> HIDE DEF len, at, old
    <3> QED
        BY <1>6, <2>1, <2>2
  <2>4. x.view[j] = Sent[x.up.form][Base(x) + j]
    <3> HIDE DEF j
    <3> QED
        BY <1>3, <2>2 DEF ViewIs
  <2>5. Base(r) + q = Base(x) + j
    BY <1>10, <1>11, <2>2, Zenon
  <2> QED
    BY <1>7, <1>8, <2>3, <2>4, <2>5, Zenon
<1>14. Sound(r) => Sound(x)
    BY <1>7, <1>8 DEF Sound
<1>15. ASSUME NEW i, Earlier(x.up, x.files, i) PROVE Earlier(r.up, r.files, i)
  <2>1. /\ r.up.form = x.up.form /\ r.up.values = x.up.values /\ r.up.short = x.up.short
        /\ r.up.wrote = x.up.wrote /\ r.files = x.files
    BY <1>7, <1>8
  <2> HIDE DEF r
  <2> QED
    BY <1>15, <2>1, EarlierGoesOn, Zenon
<1>16. ASSUME NEW i, BetweenOf(x, i) PROVE BetweenOf(r, i)
  <2>1. AtStart(r.up, i)
    BY <1>7, <1>8, <1>16 DEF BetweenOf, AtStart
  <2> QED
    BY <1>7, <1>8, <1>15, <1>16, <2>1 DEF BetweenOf
<1>17. ASSUME Sound(r), NEW i, NEW l, MidOf(x, i, l) PROVE MidOf(r, i, l)
  <2>1. /\ Ready(x, i) /\ ~x.error
        /\ Reads(x.up.form[i], x.up.header, l)
        /\ Current(x.up, x.files, i, l, Written(x))
    BY <1>17, MidHas
  <2>2. Current(x.up, x.files, i, l, Written(r))
    <3>1. CASE x.up.is_writable
      <4>1. x.from = at
        BY <1>1, <1>14, <1>17, <3>1
      <4>2. Written(x) = bx + at - 1
        BY <4>1, Zenon DEF Written
      <4>3. Written(r) = bx + at - 1
        BY <1>10, <1>11, Zenon
      <4> QED
        BY <2>1, <4>2, <4>3, Zenon
    <3>2. CASE ~x.up.is_writable
        BY <2>1, <3>2, WhileWritten
    <3> QED
        BY <3>1, <3>2
  <2>a. SameReading(x.up, r.up) /\ SameFile(x.up, x.files, r.files, i)
    BY <1>7, <1>8 DEF SameReading, SameFile
  <2>3. Current(r.up, r.files, i, l, Written(r))
    BY <2>2, <2>a, CurrentStays, Zenon
  <2>4. Ready(r, i)
    <3>1. Earlier(r.up, r.files, i)
        BY <1>15, <2>1 DEF Ready
    <3>2. r.up.form \in AllForms /\ i \in 1 .. Len(r.up.form)
        BY <1>7, <1>8, <2>1 DEF Ready
    <3> QED
        BY <1>12, <3>1, <3>2, Zenon DEF Ready, Typed
  <2>5. ~r.error /\ Reads(r.up.form[i], r.up.header, l)
    BY <1>7, <1>8, <2>1
  <2> QED
    BY <1>10, <2>3, <2>4, <2>5 DEF MidOf
<1>18. Stands(r, k)
  <2>1. Settled(r) = Settled(x)
    BY <1>10, <1>11, Zenon
  <2>2. r.up.form = x.up.form /\ r.up.parser = x.up.parser /\ r.up.message = x.up.message
    BY <1>7, <1>8
  <2> QED
    BY <1>1, <1>14, <1>16, <1>17, <2>1, <2>2, StandsOver
<1>19. k = up.sent
    BY <1>3, <1>7
<1>20. Safe(up, x.files)
    BY <1>12, <1>13, <1>18, <1>19 DEF Safe, r
<1> QED
    BY <1>7, <1>20 DEF up

(* The file that an upload has open is in the directory. *)
LEMMA FileIsThere ==
    ASSUME NEW up, NEW fs, NEW d, Upright(up, fs, d), up.file \in FileNames
    PROVE  fs[up.file] # Absent
<1>1. up.status = "reading"
    BY NotAbsent DEF Upright
<1>2. Safe(up, fs)
    BY <1>1 DEF Upright
<1>3. OpenIsThere(Rest(up, fs))
    BY <1>2, Zenon DEF Safe, Typed
<1>4. Rest(up, fs).up = up /\ Rest(up, fs).files = fs
    BY DEF Rest
<1> QED
    BY <1>3, <1>4 DEF OpenIsThere

(* What an upload stored stays while nobody disturbs its files. *)
LEMMA StoredGoesOn ==
    ASSUME NEW up, NEW up1, NEW fs, NEW fs1,
           SameReading(up, up1), Undisturbed(up, fs, fs1), Stored(up, fs)
    PROVE  Stored(up1, fs1)
<1> DEFINE form == up.form
<1>1. /\ up1.form = form /\ up1.values = up.values /\ up1.short = up.short
      /\ up1.wrote = up.wrote
    BY Zenon DEF SameReading
<1>2. form \in AllForms /\ Len(form) \in Nat /\ Earlier(up, fs, Len(form) + 1)
    BY FormFacts DEF Stored
<1>3. \A j \in 1 .. Len(form) : form[j] \in Parts
    BY <1>2, FormFacts
<1>4. \A j \in 1 .. (Len(form) + 1) - 1 :
          IsFile(form[j]) /\ form[j].file \in up.wrote => fs1[form[j].file] = fs[form[j].file]
  <2>1. \A j \in 1 .. (Len(form) + 1) - 1 : j \in 1 .. Len(form)
    BY <1>2
  <2> QED
    BY <1>3, <2>1, PartFacts, Zenon DEF Undisturbed
<1>5. Earlier(up1, fs1, Len(form) + 1)
  <2> DEFINE n == Len(form) + 1
  <2>1. Earlier(up, fs, n)
    BY <1>2
  <2>2. \A j \in 1 .. n - 1 :
            LET f == up.form[j].file
            IN  IsFile(up.form[j]) /\ f \in up.wrote => fs1[f] = fs[f]
    BY <1>4
  <2> HIDE DEF n, form
  <2>3. Earlier(up1, fs1, n)
    BY <1>1, <2>1, <2>2, EarlierGoesOn, Zenon DEF form
  <2> QED
    BY <2>3 DEF n
<1> QED
    BY <1>1, <1>2, <1>5 DEF Stored

(* How an upload goes on when others change the files: it may lose the file *)
(* that it writes, and when it is not crossed nothing has happened to it.   *)
GoesOnAs(up, up1, fs, fs1, d, d1, f, c) ==
    /\ c \in BOOLEAN /\ (up.crossed => c)
    /\ f \in {up.file, Absent} /\ CrossedAs(up, up1, f, c)
    /\ ~c => f = up.file /\ Undisturbed(up, fs, fs1) /\ (d => d1)
    /\ f \in FileNames => fs1[f] # Absent

(* An upload stays upright when others change the files, if it is marked   *)
(* where they cross it.                                                    *)
LEMMA UprightGoesOn ==
    ASSUME NEW up \in Readers, NEW fs \in FilesType, NEW d, Upright(up, fs, d),
           NEW fs1 \in FilesType, NEW d1, NEW up1, NEW f, NEW c,
           GoesOnAs(up, up1, fs, fs1, d, d1, f, c)
    PROVE  up1 \in Readers /\ Upright(up1, fs1, d1)
<1>0. c \in BOOLEAN /\ CrossedAs(up, up1, f, c) /\ f \in Seq(Bytes) \cup {Absent}
  <2>1. c \in BOOLEAN /\ CrossedAs(up, up1, f, c) /\ f \in {up.file, Absent}
    BY Zenon DEF GoesOnAs
  <2>2. up.file \in Seq(Bytes) \cup {Absent}
    BY ReaderHas
  <2> QED
    BY <2>1, <2>2
<1>1. /\ up1 \in Readers /\ up1.crossed = c /\ up1.file = f
      /\ up1.status = up.status /\ up1.form = up.form /\ up1.mode = up.mode
      /\ up1.sent = up.sent /\ up1.parser = up.parser /\ up1.message = up.message
      /\ up1.header = up.header /\ up1.state = up.state /\ up1.is_writable = up.is_writable
      /\ up1.name = up.name /\ up1.values = up.values /\ up1.offset = up.offset
      /\ up1.pending = up.pending /\ up1.stale = up.stale /\ up1.torn = up.torn
      /\ up1.short = up.short /\ up1.wrote = up.wrote
    BY <1>0, CrossedAsHas
<1>. c \in BOOLEAN /\ (up.crossed => c) /\ f \in {up.file, Absent} /\ CrossedAs(up, up1, f, c)
     /\ (~c => f = up.file /\ Undisturbed(up, fs, fs1) /\ (d => d1))
     /\ (f \in FileNames => fs1[f] # Absent)
    BY Zenon DEF GoesOnAs
<1>2. up.status = "reading" => Safe(up1, fs1)
  <2>1. SUFFICES ASSUME up.status = "reading" PROVE Safe(up1, fs1)
    OBVIOUS
  <2>2. Safe(up, fs)
    BY <2>1, Zenon DEF Upright
  <2> QED
    BY <1>0, <2>2, SafeGoesOn, Zenon
<1>3. up.status = "reading" => up1.mode = "ignore" \/ d1 \/ c
  <2>1. up.status = "reading" => up.mode = "ignore" \/ d \/ up.crossed
    BY Zenon DEF Upright
  <2> QED
    BY <1>1, <2>1, Zenon
<1>4. up.status # "reading" => f = Absent
    BY Zenon DEF Upright
<1>5. f \in FileNames => f \in up.wrote
    BY NotAbsent, Zenon DEF Upright
<1>6. ASSUME NEW g \in FileNames, g \in up.wrote, fs1[g] = Absent
      PROVE  c
    BY <1>6, Zenon DEF Upright, Undisturbed
<1>7. Answered(up1) /\ ~up1.torn /\ ~up1.crossed => Stored(up1, fs1)
  <2>1. SUFFICES ASSUME Answered(up1), ~up1.torn, ~up1.crossed PROVE Stored(up1, fs1)
    BY Zenon
  <2>2. ~c /\ Answered(up) /\ ~up.torn /\ ~up.crossed
    BY <1>1, <2>1, Zenon DEF Answered
  <2>3. Stored(up, fs)
    BY <2>2, Zenon DEF Upright
  <2>4. up1.file = up.file
    BY <1>1, <2>2, Zenon
  <2>5. SameReading(up, up1) /\ Undisturbed(up, fs, fs1)
    BY <1>1, <2>2, <2>4, Zenon DEF SameReading
  <2> QED
    BY <2>3, <2>5, StoredGoesOn, Zenon
<1>8. up.status = "dropped" => up1.torn \/ c
    BY <1>1, Zenon DEF Upright
<1>9. /\ up1.status = "reading" =>
            Safe(up1, fs1) /\ (up1.mode = "ignore" \/ d1 \/ up1.crossed)
      /\ up1.status # "reading" => up1.file = Absent
      /\ up1.file \in FileNames => up1.file \in up1.wrote
    BY <1>1, <1>2, <1>3, <1>4, <1>5, Zenon
<1>10. /\ \A g \in FileNames : g \in up1.wrote /\ fs1[g] = Absent => up1.crossed
       /\ up1.status = "dropped" => up1.torn \/ up1.crossed
    BY <1>1, <1>6, <1>8, Zenon
<1> QED
    BY <1>1, <1>7, <1>9, <1>10, Zenon DEF Upright

(* Marking an upload as crossed changes nothing else. *)
LEMMA CrossOnly ==
    ASSUME NEW up \in Readers, NEW c
    PROVE  CrossedAs(up, [up EXCEPT !.crossed = c], up.file, c)
BY DEF CrossedAs, Readers

(* An upload that is not crossed is the same. *)
LEMMA CrossNothing ==
    ASSUME NEW up \in Readers
    PROVE  CrossedAs(up, up, up.file, up.crossed)
BY DEF CrossedAs, Readers

(* An upload has ended. *)
LEMMA EndedHas ==
    ASSUME NEW up \in Readers, NEW status \in Statuses
    PROVE  LET up1 == Ended(up, status)
           IN  /\ up1 \in Readers /\ up1.status = status /\ up1.file = Absent
               /\ up1.form = up.form /\ up1.values = up.values /\ up1.torn = up.torn
               /\ up1.short = up.short /\ up1.wrote = up.wrote /\ up1.crossed = up.crossed
<1> DEFINE up1 == Ended(up, status)
<1>1. /\ up1.status = status /\ up1.file = Absent
      /\ up1.form = up.form /\ up1.values = up.values /\ up1.torn = up.torn
      /\ up1.short = up.short /\ up1.wrote = up.wrote /\ up1.crossed = up.crossed
    BY DEF Ended, Fresh
<1>2. Fresh(status, up.form, up.mode) \in Readers
    BY FirstHeaderIs, EmptySeq, ReaderHas DEF Fresh, Readers, ParserStates
<1>3. Ended(up, status) = [[[[[Fresh(status, up.form, up.mode) EXCEPT !.values = up.values]
                               EXCEPT !.torn = up.torn] EXCEPT !.short = up.short]
                               EXCEPT !.wrote = up.wrote] EXCEPT !.crossed = up.crossed]
    BY DEF Ended, Fresh
<1>4. Ended(up, status) \in Readers
  <2> DEFINE x0 == Fresh(status, up.form, up.mode)
             x1 == [x0 EXCEPT !.values = up.values]
             x2 == [x1 EXCEPT !.torn = up.torn]
             x3 == [x2 EXCEPT !.short = up.short]
             x4 == [x3 EXCEPT !.wrote = up.wrote]
             x5 == [x4 EXCEPT !.crossed = up.crossed]
  <2>0. /\ up.values \in Seq(Entries) /\ up.torn \in BOOLEAN /\ up.short \in BOOLEAN
        /\ up.wrote \in SUBSET Seq(Bytes) /\ up.crossed \in BOOLEAN
    BY ReaderHas
  <2>1. x0 \in Readers
    BY <1>2
  <2> HIDE DEF x0
  <2>2. x1 \in Readers
    BY <2>0, <2>1, SetReader
  <2> HIDE DEF x1
  <2>3. x2 \in Readers
    BY <2>0, <2>2, SetReader
  <2> HIDE DEF x2
  <2>4. x3 \in Readers
    BY <2>0, <2>3, SetReader
  <2> HIDE DEF x3
  <2>5. x4 \in Readers
    BY <2>0, <2>4, SetReader
  <2> HIDE DEF x4
  <2>6. x5 \in Readers
    BY <2>0, <2>5, SetReader
  <2> QED
    BY <1>3, <2>6 DEF x0, x1, x2, x3, x4
<1> QED
    BY <1>1, <1>4

(* A put is within its own frame. *)
LEMMA FramedSelf ==
    ASSUME NEW w, w.opened = {}
    PROVE  Framed(w, w)
<1>1. SamePut(w, w)
    BY Zenon DEF SamePut
<1>2. w.up.wrote = w.up.wrote \cup w.opened /\ w.up.file \in {w.up.file, Absent} \cup w.opened
    OBVIOUS
<1>3. \A g : g \notin w.opened
    OBVIOUS
<1> QED
    BY <1>1, <1>2, <1>3, Zenon DEF Framed

(* What a put may do to the files fs, and does to the upload up. *)
Effect(up, up1, fs, fs1, opened) ==
    /\ up1.crossed = up.crossed
    /\ up1.wrote = up.wrote \cup opened
    /\ up1.file \in {up.file, Absent} \cup opened
    /\ \A g \in FileNames :
          /\ fs1[g] # fs[g] => g \in opened \cup {up.file}
          /\ fs[g] # Absent => fs1[g] # Absent
          /\ g \in opened =>
                /\ fs1[g] # Absent
                /\ up.mode = "replace" \/ (up.mode = "add" /\ fs[g] = Absent)

(* A put leaves its upload upright, and the others are disturbed only by   *)
(* the files that it opened.                                               *)
LEMMA PutHasEffect ==
    ASSUME NEW u \in Uploads, UploadsInv, NEW n \in Nat, NEW works \in Works, Receives(u, n)
    PROVE  LET x == Parsed(Begun(u, n, works), n)
               up1 == IF x.error THEN Ended(x.up, Failure(works)) ELSE Kept(x, n)
           IN  /\ x.files \in FilesType
               /\ up1 \in Readers /\ Upright(up1, x.files, dir)
               /\ Effect(upload[u], up1, files, x.files, x.opened)
<1> DEFINE w == Begun(u, n, works)
           x == Parsed(w, n)
           up == upload[u]
           up1 == IF x.error THEN Ended(x.up, Failure(works)) ELSE Kept(x, n)
<1>1. up \in Readers /\ files \in FilesType /\ Upright(up, files, dir)
    BY DEF UploadsInv
<1>2. up.status = "reading" /\ up.sent + n <= Len(Sent[up.form])
    BY DEF Receives
<1>3. Safe(up, files) /\ (up.mode = "ignore" \/ dir \/ up.crossed)
    BY <1>1, <1>2, Zenon DEF Upright
<1>4. Starts(w, n) /\ w.up = up /\ w.files = files /\ w.opened = {} /\ w.works = works
    BY <1>1, <1>2, <1>3, BegunStarts
<1> HIDE DEF w
<1>5. Read(w, x, n)
    BY <1>4, ParsedStands
<1> HIDE DEF x, up
<1>6. Runs(w, x) /\ Typed(x) /\ SamePut(w, x)
    BY <1>5, Zenon DEF Read, Runs
<1>7. Framed(w, x)
    BY <1>4, <1>6, FramedSelf, Zenon DEF Runs
<1>8. x.up \in Readers /\ x.files \in FilesType
    BY <1>6, PutHas DEF Typed, FilesType
<1>9. x.up.crossed = up.crossed /\ x.up.status = "reading" /\ x.up.mode = up.mode
    BY <1>2, <1>4, <1>6, Zenon DEF SamePut, up
<1>10. Effect(up, x.up, files, x.files, x.opened)
    BY <1>4, <1>7, <1>9, ZenonT(60) DEF Framed, Effect
<1>11. \A f \in FileNames : f \in x.up.wrote /\ x.files[f] = Absent => x.up.crossed
  <2>1. \A f \in FileNames : f \in up.wrote /\ files[f] = Absent => up.crossed
    BY <1>1, Zenon DEF Upright, up
  <2> QED
    BY <1>10, <2>1 DEF Effect
<1>12. x.up.file \in FileNames => x.up.file \in x.up.wrote
  <2>1. up.file \in FileNames => up.file \in up.wrote
    BY <1>1, Zenon DEF Upright, up
  <2> QED
    BY <1>10, <2>1, NotAbsent DEF Effect
<1>13. CASE x.error
  <2> DEFINE status == Failure(works)
  <2>1. up1 = Ended(x.up, status)
    BY <1>13, Zenon
  <2>2. /\ status \in Statuses /\ status \in {"dropped", "disk_failed"}
        /\ status = "dropped" => Serves(works)
    BY DEF Statuses, Failure
  <2> HIDE DEF up1, status
  <2>3. /\ up1 \in Readers /\ up1.status = status /\ up1.file = Absent
        /\ up1.torn = x.up.torn /\ up1.wrote = x.up.wrote /\ up1.crossed = x.up.crossed
    BY <1>8, <2>1, <2>2, EndedHas
  <2>4. up1.status = "dropped" => up1.torn \/ up1.crossed
    <3>1. x.works = works
        BY <1>4, <1>6 DEF SamePut
    <3>2. Serves(works) => x.up.torn \/ x.up.crossed
        BY <1>5, <1>13, <3>1, Zenon DEF Read, Sound
    <3> QED
        BY <2>2, <2>3, <3>2, Zenon
  <2>5. Upright(up1, x.files, dir)
    <3>1. up1.status # "reading" /\ ~Answered(up1)
        BY <2>2, <2>3 DEF Answered
    <3>2. up1.file \notin FileNames
        BY <2>3, NotAbsent
    <3> QED
        BY <1>11, <2>3, <2>4, <3>1, <3>2, Zenon DEF Upright
  <2>6. Effect(up, up1, files, x.files, x.opened)
    BY <1>10, <2>3 DEF Effect
  <2> QED
    BY <1>8, <2>3, <2>5, <2>6, Zenon DEF up1, up, x, w
<1>14. CASE ~x.error
  <2>1. up1 = Kept(x, n)
    BY <1>14, Zenon
  <2>2. up1 \in Readers /\ Safe(up1, x.files)
    BY <1>4, <1>5, <1>14, <2>1, KeptSafe
  <2> HIDE DEF up1
  <2>3. /\ up1.status = x.up.status /\ up1.mode = x.up.mode /\ up1.file = x.up.file
        /\ up1.torn = x.up.torn /\ up1.wrote = x.up.wrote /\ up1.crossed = x.up.crossed
    BY <2>1, <1>8 DEF Kept, Readers
  <2>4. up1.mode = "ignore" \/ dir \/ up1.crossed
    BY <1>3, <1>9, <2>3, Zenon DEF up
  <2>5. Upright(up1, x.files, dir)
    <3>1. up1.status = "reading"
        BY <1>9, <2>3
    <3>2. up1.status # "dropped" /\ ~Answered(up1)
        BY <3>1 DEF Answered
    <3>3. /\ up1.file \in FileNames => up1.file \in up1.wrote
          /\ \A f \in FileNames : f \in up1.wrote /\ x.files[f] = Absent => up1.crossed
        BY <1>11, <1>12, <2>3
    <3> QED
        BY <2>2, <2>4, <3>1, <3>2, <3>3, Zenon DEF Upright
  <2>6. Effect(up, up1, files, x.files, x.opened)
    BY <1>10, <2>3 DEF Effect
  <2> QED
    BY <1>8, <2>2, <2>5, <2>6, Zenon DEF up1, up, x, w
<1> QED
    BY <1>13, <1>14, Zenon DEF up, x, w

(* What an upload becomes in a put of u. *)
LEMMA CrossedIs ==
    ASSUME NEW u \in Uploads, NEW up1 \in Readers, NEW opened, NEW v \in Uploads,
           upload[v] \in Readers
    PROVE  LET up2 == Crossed(u, up1, opened)[v]
           IN  IF v = u THEN \E c \in BOOLEAN : /\ CrossedAs(up1, up2, up1.file, c)
                                                /\ c = (up1.crossed \/ Meets(u, opened))
               ELSE \E c \in BOOLEAN :
                       /\ CrossedAs(upload[v], up2, upload[v].file, c)
                       /\ c = (upload[v].crossed \/ (upload[u].mode = "replace"
                                                      /\ opened \cap upload[v].wrote # {}))
<1> DEFINE up2 == Crossed(u, up1, opened)[v]
<1>1. CASE v = u
  <2> DEFINE c == up1.crossed \/ Meets(u, opened)
  <2>1. up2 = [up1 EXCEPT !.crossed = c]
    BY <1>1 DEF Crossed
  <2>2. c \in BOOLEAN
    BY DEF Meets
  <2>3. c = (up1.crossed \/ Meets(u, opened))
    OBVIOUS
  <2> HIDE DEF c, up2
  <2>4. CrossedAs(up1, up2, up1.file, c)
    BY <2>1, CrossOnly
  <2>5. \E c1 \in BOOLEAN : /\ CrossedAs(up1, up2, up1.file, c1)
                            /\ c1 = (up1.crossed \/ Meets(u, opened))
    BY <2>2, <2>3, <2>4, Zenon
  <2> QED
    BY <1>1, <2>5, Zenon DEF up2
<1>2. CASE v # u
  <2> DEFINE m == upload[u].mode = "replace" /\ opened \cap upload[v].wrote # {}
             c == upload[v].crossed \/ m
  <2>1. up2 = [upload[v] EXCEPT !.crossed = c]
    BY <1>2 DEF Crossed, Crossing
  <2>2. c \in BOOLEAN
    OBVIOUS
  <2>3. c = (upload[v].crossed \/ (upload[u].mode = "replace" /\ opened \cap upload[v].wrote # {}))
    OBVIOUS
  <2> HIDE DEF c, up2
  <2>4. CrossedAs(upload[v], up2, upload[v].file, c)
    BY <2>1, CrossOnly
  <2>5. \E c1 \in BOOLEAN :
            /\ CrossedAs(upload[v], up2, upload[v].file, c1)
            /\ c1 = (upload[v].crossed \/ (upload[u].mode = "replace"
                                            /\ opened \cap upload[v].wrote # {}))
    BY <2>2, <2>3, <2>4, Zenon
  <2> QED
    BY <1>2, <2>5, Zenon DEF up2
<1> QED
    BY <1>1, <1>2

(* The upload that a put is of *)
LEMMA PutOfOne ==
    ASSUME NEW u \in Uploads, UploadsInv, NEW up1 \in Readers, NEW fs1 \in FilesType, NEW opened,
           Upright(up1, fs1, dir)
    PROVE  LET up2 == Crossed(u, up1, opened)[u]
           IN  /\ up2 \in Readers /\ Upright(up2, fs1, dir)
               /\ up2.file = up1.file /\ up2.wrote = up1.wrote
               /\ up1.crossed \/ Meets(u, opened) => up2.crossed
<1> DEFINE up2 == Crossed(u, up1, opened)[u]
<1>1. PICK c \in BOOLEAN : CrossedAs(up1, up2, up1.file, c)
                           /\ c = (up1.crossed \/ Meets(u, opened))
    BY CrossedIs DEF UploadsInv
<1> HIDE DEF up2
<1>2. up1.file \in Seq(Bytes) \cup {Absent}
    BY ReaderHas
<1>3. up2.crossed = c /\ up2.file = up1.file /\ up2.wrote = up1.wrote
    BY <1>1, <1>2, CrossedAsHas, Zenon
<1>4. Undisturbed(up1, fs1, fs1)
    BY DEF Undisturbed
<1>5. up1.file \in FileNames => fs1[up1.file] # Absent
    BY FileIsThere, Zenon
<1>6. up1.file \in {up1.file, Absent} /\ (up1.crossed => c)
    BY <1>1
<1>7. ~c => up1.file = up1.file /\ Undisturbed(up1, fs1, fs1) /\ (dir => dir)
    BY <1>4
<1>8. up2 \in Readers /\ Upright(up2, fs1, dir)
  <2>1. GoesOnAs(up1, up2, fs1, fs1, dir, dir, up1.file, c)
    BY <1>1, <1>5, <1>6, <1>7, Zenon DEF GoesOnAs
  <2> QED
    BY <2>1, UprightGoesOn, Zenon
<1>9. up1.crossed \/ Meets(u, opened) => up2.crossed
    BY <1>1, <1>3
<1> QED
    BY <1>3, <1>8, <1>9, Zenon DEF up2

(* And the others *)
LEMMA PutOfOthers ==
    ASSUME NEW u \in Uploads, UploadsInv, NEW up1 \in Readers, NEW fs1 \in FilesType, NEW opened,
           Effect(upload[u], up1, files, fs1, opened),
           NEW v \in Uploads, v # u
    PROVE  LET up2 == Crossed(u, up1, opened)[v]
           IN  /\ up2 \in Readers /\ Upright(up2, fs1, dir)
               /\ up2.file = upload[v].file /\ up2.wrote = upload[v].wrote
               /\ upload[v].crossed => up2.crossed
               /\ \A g \in FileNames : g \in opened /\ g \in upload[v].wrote => up2.crossed
<1> DEFINE up2 == Crossed(u, up1, opened)[v]
           up == upload[v]
           m == upload[u].mode = "replace" /\ opened \cap up.wrote # {}
<1>0. /\ up \in Readers /\ Upright(up, files, dir) /\ Apart(upload[u], up)
      /\ files \in FilesType
    BY DEF UploadsInv
<1>1. PICK c \in BOOLEAN : CrossedAs(up, up2, up.file, c) /\ c = (up.crossed \/ m)
    BY <1>0, CrossedIs, Zenon
<1> HIDE DEF up2
<1>a. CrossedAs(up, up2, up.file, c)
    BY <1>1, Zenon
<1>2. up.file \in Seq(Bytes) \cup {Absent}
    BY <1>0, ReaderHas
<1>3. up2.crossed = c /\ up2.file = up.file /\ up2.wrote = up.wrote
  <2> HIDE DEF up
  <2> QED
    BY <1>0, <1>a DEF CrossedAs, Readers
<1>4. ASSUME NEW g \in FileNames, g \in opened, g \in up.wrote
      PROVE  c
  <2>1. upload[u].mode = "replace" \/ files[g] = Absent
    BY <1>4 DEF Effect
  <2>2. files[g] = Absent => up.crossed
    BY <1>0, <1>4, Zenon DEF Upright
  <2>3. upload[u].mode = "replace" => m
    BY <1>4
  <2> QED
    BY <1>1, <2>1, <2>2, <2>3
<1> HIDE DEF m
<1>5. up.crossed => c
    BY <1>1
<1>6. ASSUME NEW g \in FileNames, g \in up.wrote, fs1[g] # files[g]
      PROVE  c
  <2>1. g \in opened \/ g = upload[u].file
    BY <1>6 DEF Effect
  <2>2. g = upload[u].file => up.crossed
    BY <1>0, <1>6, Zenon DEF Apart
  <2> QED
    BY <1>4, <1>5, <1>6, <2>1, <2>2
<1>7. ~c => up.file = up.file /\ Undisturbed(up, files, fs1) /\ (dir => dir)
    BY <1>6 DEF Undisturbed
<1>8. up.file \in FileNames => fs1[up.file] # Absent
  <2>1. up.file \in FileNames => files[up.file] # Absent
    BY <1>0, FileIsThere, Zenon
  <2> QED
    BY <2>1 DEF Effect
<1>9. up.file \in {up.file, Absent}
    OBVIOUS
<1>10. up2 \in Readers /\ Upright(up2, fs1, dir)
  <2>1. GoesOnAs(up, up2, files, fs1, dir, dir, up.file, c)
    BY <1>1, <1>5, <1>7, <1>8, <1>9, Zenon DEF GoesOnAs
  <2> QED
    BY <1>0, <2>1, UprightGoesOn, Zenon
<1>11. /\ up.crossed => up2.crossed
       /\ \A g \in FileNames : g \in opened /\ g \in up.wrote => up2.crossed
    BY <1>3, <1>4, <1>5
<1> QED
    BY <1>3, <1>10, <1>11, Zenon DEF up2, up

(* With the marks of those that it crossed, every upload is upright and    *)
(* every two are apart.                                                    *)
LEMMA PutOnward ==
    ASSUME NEW u \in Uploads, UploadsInv, NEW up1 \in Readers, NEW fs1 \in FilesType, NEW opened,
           Upright(up1, fs1, dir), Effect(upload[u], up1, files, fs1, opened)
    PROVE  LET uploads1 == Crossed(u, up1, opened)
           IN  /\ uploads1 \in [Uploads -> Readers]
               /\ \A v \in Uploads : Upright(uploads1[v], fs1, dir)
               /\ \A a, b \in Uploads : a # b => Apart(uploads1[a], uploads1[b])
<1> DEFINE uploads1 == Crossed(u, up1, opened)
<1>0. \A a, b \in Uploads : a # b => Apart(upload[a], upload[b])
    BY DEF UploadsInv
<1>1. /\ uploads1[u] \in Readers /\ Upright(uploads1[u], fs1, dir)
      /\ uploads1[u].file = up1.file /\ uploads1[u].wrote = up1.wrote
      /\ up1.crossed \/ Meets(u, opened) => uploads1[u].crossed
    BY PutOfOne, Zenon
<1>2. \A v \in Uploads : v # u =>
            /\ uploads1[v] \in Readers /\ Upright(uploads1[v], fs1, dir)
            /\ uploads1[v].file = upload[v].file /\ uploads1[v].wrote = upload[v].wrote
            /\ upload[v].crossed => uploads1[v].crossed
            /\ \A g \in FileNames : g \in opened /\ g \in upload[v].wrote => uploads1[v].crossed
    BY PutOfOthers, Zenon
<1>3. uploads1 \in [Uploads -> Readers]
  <2>1. \A v \in Uploads : uploads1[v] \in Readers
    BY <1>1, <1>2, Zenon
  <2>2. uploads1 = [v \in Uploads |-> uploads1[v]]
    BY DEF Crossed
  <2> HIDE DEF uploads1
  <2> QED
    BY <2>1, <2>2, Zenon
<1> HIDE DEF uploads1
<1>4. /\ up1.wrote = upload[u].wrote \cup opened
      /\ up1.crossed = upload[u].crossed
      /\ up1.file \in FileNames => up1.file = upload[u].file \/ up1.file \in opened
    BY NotAbsent DEF Effect
<1>5. ASSUME NEW a \in Uploads, NEW b \in Uploads, a # b,
             uploads1[a].file \in FileNames, uploads1[a].file \in uploads1[b].wrote
      PROVE  uploads1[b].crossed
  <2>1. CASE a = u
    <3>1. b # u /\ up1.file \in FileNames /\ up1.file \in upload[b].wrote
        BY <1>1, <1>2, <1>5, <2>1
    <3>2. up1.file \in opened => uploads1[b].crossed
        BY <1>2, <3>1, Zenon
    <3>3. up1.file = upload[u].file => upload[b].crossed
        BY <1>0, <3>1, Zenon DEF Apart
    <3> QED
        BY <1>2, <1>4, <3>1, <3>2, <3>3, Zenon
  <2>2. CASE b = u
    <3>1. a # u /\ upload[a].file \in FileNames
          /\ (upload[a].file \in upload[u].wrote \/ upload[a].file \in opened)
        BY <1>1, <1>2, <1>4, <1>5, <2>2
    <3>2. upload[a].file \in upload[u].wrote => upload[u].crossed
        BY <1>0, <3>1, Zenon DEF Apart
    <3>3. upload[a].file \in opened => Meets(u, opened)
        BY <3>1, Zenon DEF Meets
    <3> QED
        BY <1>1, <1>4, <2>2, <3>1, <3>2, <3>3
  <2>3. CASE a # u /\ b # u
    <3>1. upload[a].file \in FileNames /\ upload[a].file \in upload[b].wrote
        BY <1>2, <1>5, <2>3
    <3> QED
        BY <1>0, <1>2, <1>5, <2>3, <3>1, Zenon DEF Apart
  <2> QED
    BY <2>1, <2>2, <2>3
<1>6. \A a, b \in Uploads : a # b => Apart(uploads1[a], uploads1[b])
    BY <1>5, Zenon DEF Apart
<1>7. \A v \in Uploads : Upright(uploads1[v], fs1, dir)
    BY <1>1, <1>2, Zenon
<1> QED
    BY <1>3, <1>6, <1>7, Zenon DEF uploads1

(* A put keeps the invariant. *)
LEMMA PutKeeps ==
    ASSUME NEW u \in Uploads, UploadsInv, NEW n \in Nat, NEW works \in Works, Put(u, n, works)
    PROVE  UploadsInv'
<1> DEFINE x == Parsed(Begun(u, n, works), n)
           up1 == IF x.error THEN Ended(x.up, Failure(works)) ELSE Kept(x, n)
           opened == x.opened
           uploads1 == Crossed(u, up1, opened)
<1>1. Receives(u, n) /\ files' = x.files /\ upload' = uploads1 /\ dir' = dir
    BY Zenon DEF Put
<1>2. /\ x.files \in FilesType
      /\ up1 \in Readers /\ Upright(up1, x.files, dir)
      /\ Effect(upload[u], up1, files, x.files, opened)
    BY <1>1, PutHasEffect, Zenon
<1> HIDE DEF x, up1, opened
<1>3. /\ uploads1 \in [Uploads -> Readers]
      /\ \A v \in Uploads : Upright(uploads1[v], x.files, dir)
      /\ \A a, b \in Uploads : a # b => Apart(uploads1[a], uploads1[b])
    BY <1>2, PutOnward, Zenon
<1> HIDE DEF uploads1
<1>4. dir' \in BOOLEAN
    BY <1>1 DEF UploadsInv
<1> QED
    BY <1>1, <1>2, <1>3, <1>4, Zenon DEF UploadsInv, FilesType

(* All that is sent has come. *)
LEMMA StandsAtEnd ==
    ASSUME NEW w, NEW k, Stands(w, k), k = Len(Sent[w.up.form]), Sound(w)
    PROVE  BetweenOf(w, Len(w.up.form) + 1)
<1> DEFINE form == w.up.form
           n == Len(form)
           len == Len(Sent[form])
<1>1. form \in AllForms /\ n \in Nat /\ n > 0
    BY FormFacts DEF Stands
<1>2. \A i \in 1 .. n : /\ Behind(form, i) \in Nat
                        /\ Before(form, i) \in Nat /\ Before(form, i) >= 5
                        /\ Before(form, i) <= Behind(form, i)
                        /\ Behind(form, i) + 9 <= len
  <2>1. SUFFICES ASSUME NEW i \in 1 .. n
                 PROVE  /\ Behind(form, i) \in Nat
                        /\ Before(form, i) \in Nat /\ Before(form, i) >= 5
                        /\ Before(form, i) <= Behind(form, i)
                        /\ Behind(form, i) + 9 <= len
    OBVIOUS
  <2>2. LaidOut(form, i, Sent[form])
    BY <1>1, <2>1, Layout
  <2>3. Before(form, i) \in Nat /\ Before(form, i) >= 5 /\ Behind(form, i) + 9 <= len
    BY <2>2, Zenon DEF LaidOut
  <2> DEFINE a == Before(form, i)
             l == Len(EncodedPart(form[i]))
             e == Behind(form, i)
  <2>4. a \in Nat /\ l \in Nat /\ e \in Nat /\ e = a + l
    BY <1>1, <2>1, PlacesOf
  <2> HIDE DEF a, l, e
  <2>5. a <= e
    BY <2>4
  <2> QED
    BY <2>3, <2>4, <2>5, Zenon DEF a, e
<1>3. len \in Nat
    BY <1>1, Layout
<1> HIDE DEF len
<1>4. k = len
    BY DEF len
<1>5. ~InPreamble(w, k)
  <2>1. Behind(form, 1) \in Nat /\ Behind(form, 1) + 9 <= len
    <3>1. 1 \in 1 .. n
      <4> HIDE DEF n
      <4> QED
        BY <1>1
    <3> QED
        BY <1>2, <3>1
  <2>2. InPreamble(w, k) => k \in 0 .. 4
    BY DEF InPreamble
  <2> DEFINE e == Behind(form, 1)
  <2>3. e \in Nat /\ e + 9 <= len
    BY <2>1
  <2> HIDE DEF e
  <2>4. k \notin 0 .. 4
    BY <1>3, <1>4, <2>3
  <2> QED
    BY <2>2, <2>4
<1>6. ASSUME NEW i \in 1 .. n PROVE ~InPart(w, k, i) /\ ~BehindPart(w, k, i)
  <2> DEFINE e == Behind(form, i)
  <2>1. e \in Nat /\ e + 9 <= len
    BY <1>2, <1>6
  <2>2. InPart(w, k, i) => k <= e + 4
    BY InPartIs, Zenon
  <2>3. BehindPart(w, k, i) => k = e + 5 \/ k = e + 6
    BY Zenon DEF BehindPart
  <2> HIDE DEF e
  <2>4. ~(k <= e + 4) /\ k # e + 5 /\ k # e + 6
    BY <1>3, <1>4, <2>1
  <2> QED
    BY <2>2, <2>3, <2>4, Zenon
<1>7. InEpilogue(w, k)
    BY <1>5, <1>6, Zenon DEF Stands
<1> QED
    BY <1>7, Zenon DEF InEpilogue

(* At the end of its bytes an upload that nothing disturbed has stored its *)
(* form.                                                                   *)
LEMMA AtEnd ==
    ASSUME NEW up, NEW fs, Safe(up, fs), up.sent = Len(Sent[up.form]),
           ~up.torn, ~up.crossed
    PROVE  up.state = "name" /\ Stored(up, fs)
<1> DEFINE r == Rest(up, fs)
           n == Len(up.form)
<1>1. r.up = up /\ r.files = fs /\ ~r.error
    BY DEF Rest
<1>2. Stands(r, up.sent)
    BY Zenon DEF Safe
<1> HIDE DEF r
<1>3. Sound(r)
    BY <1>1 DEF Sound
<1>4. BetweenOf(r, Len(r.up.form) + 1)
    BY <1>1, <1>2, <1>3, StandsAtEnd
<1>5. up.form \in AllForms /\ Earlier(up, fs, n + 1) /\ AtStart(up, n + 1)
    BY <1>1, <1>4 DEF BetweenOf
<1>6. up.state = "name" /\ Len(up.values) = (n + 1) - 1
    BY <1>5, Zenon DEF AtStart
<1>7. n \in Nat
    BY <1>5, FormFacts
<1>8. Len(up.values) = n
  <2> HIDE DEF n
  <2> QED
    BY <1>6, <1>7
<1> QED
    BY <1>5, <1>6, <1>8, Zenon DEF Stored

(* Every upload goes on. *)
LEMMA AllGoOn ==
    ASSUME UploadsInv, NEW fs1 \in FilesType, NEW d1, NEW uploads1,
           uploads1 = [v \in Uploads |-> uploads1[v]],
           \A v \in Uploads : \E f, c : GoesOnAs(upload[v], uploads1[v], files, fs1, dir, d1, f, c)
    PROVE  /\ uploads1 \in [Uploads -> Readers]
           /\ \A v \in Uploads : Upright(uploads1[v], fs1, d1)
           /\ \A a, b \in Uploads : a # b => Apart(uploads1[a], uploads1[b])
<1>0. /\ files \in FilesType
      /\ \A v \in Uploads : upload[v] \in Readers /\ Upright(upload[v], files, dir)
      /\ \A a, b \in Uploads : a # b => Apart(upload[a], upload[b])
    BY DEF UploadsInv
<1>1. ASSUME NEW v \in Uploads
      PROVE  /\ uploads1[v] \in Readers /\ Upright(uploads1[v], fs1, d1)
             /\ uploads1[v].file \in {upload[v].file, Absent}
             /\ uploads1[v].wrote = upload[v].wrote
             /\ upload[v].crossed => uploads1[v].crossed
  <2> DEFINE up == upload[v]
             up1 == uploads1[v]
  <2>1. PICK f, c : GoesOnAs(up, up1, files, fs1, dir, d1, f, c)
    OBVIOUS
  <2>2. up \in Readers /\ Upright(up, files, dir)
    BY <1>0, Zenon
  <2> HIDE DEF up, up1
  <2>3. up1 \in Readers /\ Upright(up1, fs1, d1)
    BY <1>0, <2>1, <2>2, UprightGoesOn, Zenon
  <2>4. CrossedAs(up, up1, f, c) /\ (up.crossed => c) /\ f \in {up.file, Absent}
    BY <2>1, Zenon DEF GoesOnAs
  <2>5. up1.file = f /\ up1.wrote = up.wrote /\ up1.crossed = c
    BY <2>2, <2>4 DEF CrossedAs, Readers
  <2>6. up1.file \in {up.file, Absent} /\ (up.crossed => up1.crossed)
    BY <2>4, <2>5
  <2> QED
    BY <2>3, <2>5, <2>6, Zenon DEF up, up1
<1>2. uploads1 \in [Uploads -> Readers]
    BY <1>1, Zenon
<1>3. \A a, b \in Uploads : a # b => Apart(uploads1[a], uploads1[b])
  <2>1. SUFFICES ASSUME NEW a \in Uploads, NEW b \in Uploads, a # b,
                        uploads1[a].file \in FileNames, uploads1[a].file \in uploads1[b].wrote
                 PROVE  uploads1[b].crossed
    BY Zenon DEF Apart
  <2>2. uploads1[a].file = upload[a].file
    BY <1>1, <2>1, NotAbsent
  <2>3. upload[a].file \in FileNames /\ upload[a].file \in upload[b].wrote
    BY <1>1, <2>1, <2>2
  <2>4. upload[b].crossed
    BY <1>0, <2>1, <2>3, Zenon DEF Apart
  <2> QED
    BY <1>1, <2>4
<1> QED
    BY <1>1, <1>2, <1>3, Zenon

(* One upload changes, and no file. *)
LEMMA OneChanges ==
    ASSUME UploadsInv, NEW u \in Uploads, NEW up1 \in Readers, Upright(up1, files, dir),
           up1.file = Absent,
           \A f \in up1.wrote : f \in upload[u].wrote /\ (upload[u].crossed => up1.crossed),
           NEW uploads1, uploads1 = [upload EXCEPT ![u] = up1]
    PROVE  /\ uploads1 \in [Uploads -> Readers]
           /\ \A v \in Uploads : Upright(uploads1[v], files, dir)
           /\ \A a, b \in Uploads : a # b => Apart(uploads1[a], uploads1[b])
<1>0. /\ upload \in [Uploads -> Readers]
      /\ \A v \in Uploads : Upright(upload[v], files, dir)
      /\ \A a, b \in Uploads : a # b => Apart(upload[a], upload[b])
    BY DEF UploadsInv
<1>1. uploads1 \in [Uploads -> Readers]
    BY <1>0
<1>2. uploads1[u] = up1 /\ \A v \in Uploads : v # u => uploads1[v] = upload[v]
    BY <1>0
<1>3. \A v \in Uploads : Upright(uploads1[v], files, dir)
    BY <1>0, <1>2, Zenon
<1>4. ASSUME NEW a \in Uploads, NEW b \in Uploads, a # b,
             uploads1[a].file \in FileNames, uploads1[a].file \in uploads1[b].wrote
      PROVE  uploads1[b].crossed
  <2>1. a # u
    BY <1>2, <1>4, NotAbsent
  <2>2. uploads1[a] = upload[a]
    BY <1>2, <2>1
  <2>3. b = u => upload[a].file \in upload[u].wrote /\ (upload[u].crossed => up1.crossed)
    BY <1>2, <1>4, <2>2
  <2>4. b # u => uploads1[b] = upload[b]
    BY <1>2
  <2>5. upload[a].file \in upload[b].wrote => upload[b].crossed
    BY <1>0, <1>4, <2>2 DEF Apart
  <2> QED
    BY <1>2, <1>4, <2>2, <2>3, <2>4, <2>5
<1>5. \A a, b \in Uploads : a # b => Apart(uploads1[a], uploads1[b])
    BY <1>4, Zenon DEF Apart
<1> QED
    BY <1>1, <1>3, <1>5

(* An upload starts. *)
LEMMA FreshHas ==
    ASSUME NEW status \in Statuses, NEW form \in AllForms \cup {<< >>},
           NEW mode \in {"add", "replace", "ignore"}
    PROVE  LET up == Fresh(status, form, mode)
           IN  /\ up \in Readers
               /\ up.status = status /\ up.form = form /\ up.mode = mode /\ up.sent = 0
               /\ up.parser.state = "preamble" /\ up.parser.matched = 0 /\ ~up.message
               /\ up.header = FirstHeader /\ up.state = "name" /\ ~up.is_writable
               /\ up.name = << >> /\ up.values = << >> /\ up.file = Absent
               /\ up.pending = << >> /\ up.wrote = {} /\ ~up.crossed
<1>1. Fresh(status, form, mode) \in Readers
    BY FirstHeaderIs, EmptySeq DEF Fresh, Readers, ParserStates
<1> QED
    BY <1>1 DEF Fresh

(* A new upload stands at the beginning of its bytes. *)
LEMMA FreshSafe ==
    ASSUME NEW form \in AllForms, NEW mode \in {"add", "replace", "ignore"}, NEW fs \in FilesType
    PROVE  Safe(Fresh("reading", form, mode), fs)
<1> DEFINE up == Fresh("reading", form, mode)
           r == Rest(up, fs)
<1>1. /\ up \in Readers
      /\ up.form = form /\ up.sent = 0
      /\ up.parser.state = "preamble" /\ up.parser.matched = 0 /\ ~up.message
      /\ up.header = FirstHeader /\ up.state = "name" /\ ~up.is_writable
      /\ up.name = << >> /\ up.values = << >> /\ up.file = Absent
      /\ up.pending = << >>
  <2>1. "reading" \in Statuses /\ form \in AllForms \cup {<< >>}
    BY DEF Statuses
  <2> QED
    BY <2>1, FreshHas
<1> HIDE DEF up
<1>2. /\ r.up = up /\ r.files = fs /\ r.error = FALSE /\ r.opened = {}
      /\ r.at = 1 /\ r.from = 1 /\ r.view = up.pending /\ r.works = AllWorks
    BY DEF Rest
<1>3. Settled(r) = 0 /\ r \in Puts
  <2>1. Settled(r) = up.sent - Len(up.pending) /\ r \in Puts
    BY <1>1, RestPlaces
  <2>2. Len(<< >>) = 0
    BY EmptySeq
  <2>3. Settled(r) = 0 - 0
    BY <1>1, <2>1, <2>2, Zenon
  <2> QED
    BY <2>1, <2>3
<1> HIDE DEF r
<1>4. up.header.state = "content_disposition" /\ Expects(up.header, "content_disposition", 1)
    BY <1>1, FirstHeaderIs DEF Done, Expects
<1>5. Typed(r)
  <2>1. OpenIsThere(r)
    BY <1>1, <1>2, NotAbsent DEF OpenIsThere
  <2>2. r.at - 1 <= Len(r.view)
    BY <1>1, <1>2, EmptySeq
  <2>3. r.up.header.state # "filename_body"
    BY <1>2, <1>4
  <2> QED
    BY <1>3, <2>1, <2>2, <2>3, Zenon DEF Typed
<1>6. BetweenOf(r, 1)
  <2>1. Earlier(r.up, r.files, 1)
    BY DEF Earlier
  <2>2. AtStart(r.up, 1)
    BY <1>1, <1>2, EmptySeq DEF AtStart
  <2> QED
    BY <1>1, <1>2, <1>4, <2>1, <2>2 DEF BetweenOf
<1>7. Stands(r, 0)
  <2>1. InPreamble(r, 0)
    BY <1>1, <1>2, <1>3, <1>6 DEF InPreamble
  <2> QED
    BY <1>1, <1>2, <2>1 DEF Stands
<1>8. ViewIs(r)
  <2>1. Len(r.view) = 0
    BY <1>1, <1>2, EmptySeq
  <2> QED
    BY <2>1 DEF ViewIs
<1> QED
    BY <1>1, <1>5, <1>7, <1>8 DEF Safe, r, up

(* The start of an upload keeps the invariant. *)
LEMMA StartKeeps ==
    ASSUME UploadsInv, NEW u \in Uploads, NEW form \in AllForms, NEW mode \in {"add", "replace"},
           Start(u, form, mode)
    PROVE  UploadsInv'
<1> DEFINE m == IF dir THEN mode ELSE "ignore"
           up1 == Fresh("reading", form, m)
<1>1. upload' = [upload EXCEPT ![u] = up1] /\ files' = files /\ dir' = dir
    BY DEF Start
<1>2. m \in {"add", "replace", "ignore"} /\ (m = "ignore" \/ dir)
    OBVIOUS
<1>3. files \in FilesType /\ dir \in BOOLEAN
    BY DEF UploadsInv
<1> HIDE DEF m
<1>4. Safe(up1, files)
    BY <1>2, <1>3, FreshSafe
<1>5. /\ up1 \in Readers /\ up1.status = "reading" /\ up1.mode = m
      /\ up1.file = Absent /\ up1.wrote = {}
  <2>1. "reading" \in Statuses /\ form \in AllForms \cup {<< >>}
    BY DEF Statuses
  <2> QED
    BY <1>2, <2>1, FreshHas
<1> HIDE DEF up1
<1>6. Upright(up1, files, dir)
  <2>1. up1.mode = "ignore" \/ dir
    BY <1>2, <1>5
  <2>2. up1.status # "dropped" /\ ~Answered(up1)
    BY <1>5 DEF Answered
  <2>3. up1.file \notin FileNames /\ \A f : f \notin up1.wrote
    BY <1>5, NotAbsent
  <2> QED
    BY <1>4, <1>5, <2>1, <2>2, <2>3, Zenon DEF Upright
<1>7. \A f \in up1.wrote : f \in upload[u].wrote /\ (upload[u].crossed => up1.crossed)
    BY <1>5
<1> DEFINE uploads1 == [upload EXCEPT ![u] = up1]
<1>8. /\ uploads1 \in [Uploads -> Readers]
      /\ \A v \in Uploads : Upright(uploads1[v], files, dir)
      /\ \A a, b \in Uploads : a # b => Apart(uploads1[a], uploads1[b])
    BY <1>5, <1>6, <1>7, OneChanges, Zenon
<1>9. upload' = uploads1
    BY <1>1
<1> HIDE DEF uploads1
<1> QED
    BY <1>1, <1>3, <1>8, <1>9, Zenon DEF UploadsInv, FilesType

(* An upload ends. *)
LEMMA EndKeeps ==
    ASSUME UploadsInv, NEW u \in Uploads, NEW status \in Statuses, status # "reading",
           upload[u].status = "reading",
           status = "dropped" => upload[u].torn \/ upload[u].crossed,
           status \in {"ok", "conflict", "not_found"} /\ ~upload[u].torn /\ ~upload[u].crossed =>
               Stored(upload[u], files),
           upload' = [upload EXCEPT ![u] = Ended(@, status)], files' = files, dir' = dir
    PROVE  UploadsInv'
<1> DEFINE up == upload[u]
           up1 == Ended(up, status)
           uploads1 == [upload EXCEPT ![u] = up1]
<1>1. files \in FilesType /\ dir \in BOOLEAN /\ up \in Readers /\ Upright(up, files, dir)
    BY DEF UploadsInv
<1>2. upload' = uploads1
    BY DEF UploadsInv
<1>3. /\ up1 \in Readers /\ up1.status = status /\ up1.file = Absent
      /\ up1.form = up.form /\ up1.values = up.values /\ up1.torn = up.torn
      /\ up1.short = up.short /\ up1.wrote = up.wrote /\ up1.crossed = up.crossed
    BY <1>1, EndedHas
<1> HIDE DEF up1
<1>4. Upright(up1, files, dir)
  <2>1. up1.status # "reading" /\ up1.file \notin FileNames
    BY <1>3, NotAbsent
  <2>2. \A f \in FileNames : f \in up1.wrote /\ files[f] = Absent => up1.crossed
    <3>1. \A f \in FileNames : f \in up.wrote /\ files[f] = Absent => up.crossed
        BY <1>1, Zenon DEF Upright
    <3> QED
        BY <1>3, <3>1
  <2>3. up1.status = "dropped" => up1.torn \/ up1.crossed
    BY <1>3
  <2>4. Answered(up1) /\ ~up1.torn /\ ~up1.crossed => Stored(up1, files)
    <3>1. SUFFICES ASSUME Answered(up1), ~up1.torn, ~up1.crossed PROVE Stored(up1, files)
        BY Zenon
    <3>2. status \in {"ok", "conflict", "not_found"}
        BY <1>3, <3>1 DEF Answered
    <3>3. Stored(up, files)
        BY <1>3, <3>1, <3>2
    <3> HIDE DEF up
    <3> QED
        BY <1>3, <3>3, ZenonT(60) DEF Stored, Earlier, Kept1
  <2> QED
    BY <1>3, <2>1, <2>2, <2>3, <2>4, Zenon DEF Upright
<1>5. \A f \in up1.wrote : f \in upload[u].wrote /\ (upload[u].crossed => up1.crossed)
    BY <1>3
<1>6. up1 \in Readers /\ up1.file = Absent /\ uploads1 = [upload EXCEPT ![u] = up1]
    BY <1>3
<1> HIDE DEF uploads1
<1>7. /\ uploads1 \in [Uploads -> Readers]
      /\ \A v \in Uploads : Upright(uploads1[v], files, dir)
      /\ \A a, b \in Uploads : a # b => Apart(uploads1[a], uploads1[b])
    BY <1>4, <1>5, <1>6, OneChanges, Zenon
<1> QED
    BY <1>1, <1>2, <1>7, Zenon DEF UploadsInv, FilesType

(* The answer to an upload keeps the invariant. *)
LEMMA AnswerKeeps ==
    ASSUME UploadsInv, NEW u \in Uploads, Answer(u)
    PROVE  UploadsInv'
<1> DEFINE up == upload[u]
           status == IF up.state = "name" THEN Status(up) ELSE "dropped"
<1>1. /\ up.status = "reading" /\ up.sent = Len(Sent[up.form])
      /\ upload' = [upload EXCEPT ![u] = Ended(@, status)] /\ files' = files /\ dir' = dir
    BY DEF Answer
<1>2. Upright(up, files, dir)
    BY DEF UploadsInv
<1>3. ~up.torn /\ ~up.crossed => up.state = "name" /\ Stored(up, files)
  <2>1. Safe(up, files)
    BY <1>1, <1>2, Zenon DEF Upright
  <2> QED
    BY <1>1, <2>1, AtEnd, Zenon
<1>4. Status(up) \in {"ok", "conflict", "not_found"}
    BY DEF Status
<1>5. status \in Statuses /\ status # "reading"
    BY <1>4 DEF Statuses
<1>6. status = "dropped" => up.state # "name"
    BY <1>4
<1>7. status = "dropped" => up.torn \/ up.crossed
    BY <1>3, <1>6, Zenon
<1>8. status \in {"ok", "conflict", "not_found"} /\ ~up.torn /\ ~up.crossed => Stored(up, files)
    BY <1>3
<1> HIDE DEF status
<1> QED
    BY <1>1, <1>5, <1>7, <1>8, EndKeeps, Zenon

(* A connection that ends keeps the invariant. *)
LEMMA BreaksOffKeeps ==
    ASSUME UploadsInv, NEW u \in Uploads, BreaksOff(u)
    PROVE  UploadsInv'
<1> DEFINE status == "broken_off"
<1>1. /\ upload[u].status = "reading"
      /\ upload' = [upload EXCEPT ![u] = Ended(@, status)] /\ files' = files /\ dir' = dir
    BY DEF BreaksOff
<1>2. /\ status \in Statuses /\ status # "reading" /\ status # "dropped"
      /\ status \notin {"ok", "conflict", "not_found"}
    BY DEF Statuses
<1> HIDE DEF status
<1> QED
    BY <1>1, <1>2, EndKeeps, Zenon

(* Files are removed. *)
LEMMA LostIs ==
    ASSUME NEW up \in Readers, NEW fs
    PROVE  CrossedAs(up, Lost(up, fs), IF up.file \in fs THEN Absent ELSE up.file,
                     up.crossed \/ up.wrote \cap fs # {})
BY DEF CrossedAs, Lost, Readers

(* A file that is removed from outside keeps the invariant. *)
LEMMA RemovedKeeps ==
    ASSUME UploadsInv, NEW f \in FileNames, Removed(f)
    PROVE  UploadsInv'
<1> DEFINE fs1 == [files EXCEPT ![f] = Absent]
           uploads1 == [u \in Uploads |-> Lost(upload[u], {f})]
<1>1. files' = fs1 /\ upload' = uploads1 /\ dir' = dir
    BY DEF Removed
<1>2. /\ files \in FilesType /\ dir \in BOOLEAN
      /\ \A v \in Uploads : upload[v] \in Readers /\ Upright(upload[v], files, dir)
    BY DEF UploadsInv
<1>3. fs1 \in FilesType /\ \A g \in FileNames : g # f => fs1[g] = files[g]
    BY <1>2 DEF FilesType
<1> HIDE DEF fs1
<1>4. ASSUME NEW v \in Uploads
      PROVE  \E g, c : GoesOnAs(upload[v], uploads1[v], files, fs1, dir, dir, g, c)
  <2> DEFINE up == upload[v]
             up1 == uploads1[v]
             g == IF up.file \in {f} THEN Absent ELSE up.file
             c == up.crossed \/ up.wrote \cap {f} # {}
  <2>0. up \in Readers /\ Upright(up, files, dir)
    BY <1>2
  <2>1. up1 = Lost(up, {f})
    OBVIOUS
  <2> HIDE DEF up, up1
  <2>2. CrossedAs(up, up1, g, c)
    BY <2>0, <2>1, LostIs
  <2>3. c \in BOOLEAN /\ (up.crossed => c)
    OBVIOUS
  <2>4. g \in {up.file, Absent} /\ g # f /\ (up.file # f => g = up.file)
    BY NotAbsent
  <2>5. f \in up.wrote => c
    OBVIOUS
  <2>6. up.file = f => f \in up.wrote
    BY <2>0, Zenon DEF Upright
  <2>7. g \in FileNames => fs1[g] # Absent
    <3>1. g \in FileNames => g = up.file
        BY <2>4, NotAbsent
    <3>2. up.file \in FileNames => files[up.file] # Absent
        BY <2>0, FileIsThere
    <3> HIDE DEF g
    <3> QED
        BY <1>3, <2>4, <3>1, <3>2
  <2> HIDE DEF g, c
  <2>8. ~c => g = up.file /\ Undisturbed(up, files, fs1) /\ (dir => dir)
    BY <1>3, <2>4, <2>5, <2>6 DEF Undisturbed
  <2>9. GoesOnAs(up, up1, files, fs1, dir, dir, g, c)
    BY <2>2, <2>3, <2>4, <2>7, <2>8, Zenon DEF GoesOnAs
  <2> QED
    BY <2>9, Zenon DEF up, up1
<1>5. uploads1 = [v \in Uploads |-> uploads1[v]]
    OBVIOUS
<1> HIDE DEF uploads1
<1>6. /\ uploads1 \in [Uploads -> Readers]
      /\ \A v \in Uploads : Upright(uploads1[v], fs1, dir)
      /\ \A a, b \in Uploads : a # b => Apart(uploads1[a], uploads1[b])
    BY <1>3, <1>4, <1>5, AllGoOn, Zenon
<1> QED
    BY <1>1, <1>2, <1>3, <1>6, Zenon DEF UploadsInv, FilesType

(* A directory that is removed keeps the invariant. *)
LEMMA DirectoryRemovedKeeps ==
    ASSUME UploadsInv, DirectoryRemoved
    PROVE  UploadsInv'
<1> DEFINE fs1 == [f \in FileNames |-> Absent]
           uploads1 == [u \in Uploads |-> [Lost(upload[u], FileNames) EXCEPT !.crossed = TRUE]]
<1>1. files' = fs1 /\ upload' = uploads1 /\ dir' = FALSE
    BY DEF DirectoryRemoved
<1>2. /\ files \in FilesType
      /\ \A v \in Uploads : upload[v] \in Readers /\ Upright(upload[v], files, dir)
    BY DEF UploadsInv
<1>3. fs1 \in FilesType
    BY DEF FilesType
<1> HIDE DEF fs1
<1>4. ASSUME NEW v \in Uploads
      PROVE  \E g, c : GoesOnAs(upload[v], uploads1[v], files, fs1, dir, FALSE, g, c)
  <2> DEFINE up == upload[v]
             up1 == uploads1[v]
             g == IF up.file \in FileNames THEN Absent ELSE up.file
  <2>0. up \in Readers
    BY <1>2
  <2>1. up1 = [Lost(up, FileNames) EXCEPT !.crossed = TRUE]
    OBVIOUS
  <2> HIDE DEF up, up1
  <2>2. CrossedAs(up, up1, g, TRUE)
    BY <2>0, <2>1 DEF CrossedAs, Lost, Readers
  <2>3. g \in {up.file, Absent} /\ g \notin FileNames
    BY NotAbsent
  <2> HIDE DEF g
  <2>4. GoesOnAs(up, up1, files, fs1, dir, FALSE, g, TRUE)
    BY <2>2, <2>3 DEF GoesOnAs
  <2> QED
    BY <2>4, Zenon DEF up, up1
<1>5. uploads1 = [v \in Uploads |-> uploads1[v]]
    OBVIOUS
<1> HIDE DEF uploads1
<1>6. /\ uploads1 \in [Uploads -> Readers]
      /\ \A v \in Uploads : Upright(uploads1[v], fs1, FALSE)
      /\ \A a, b \in Uploads : a # b => Apart(uploads1[a], uploads1[b])
    BY <1>3, <1>4, <1>5, AllGoOn, Zenon
<1>7. dir' \in BOOLEAN
    BY <1>1
<1> QED
    BY <1>1, <1>3, <1>6, <1>7, Zenon DEF UploadsInv, FilesType

(* A directory that is made again keeps the invariant. *)
LEMMA DirectoryMadeKeeps ==
    ASSUME UploadsInv, DirectoryMade
    PROVE  UploadsInv'
<1>1. files' = files /\ upload' = upload /\ dir' = TRUE
    BY DEF DirectoryMade
<1>2. /\ files \in FilesType /\ upload \in [Uploads -> Readers]
      /\ \A v \in Uploads : upload[v] \in Readers /\ Upright(upload[v], files, dir)
    BY DEF UploadsInv
<1>3. ASSUME NEW v \in Uploads
      PROVE  \E g, c : GoesOnAs(upload[v], upload[v], files, files, dir, TRUE, g, c)
  <2> DEFINE up == upload[v]
             c == up.crossed
  <2>0. up \in Readers /\ Upright(up, files, dir)
    BY <1>2
  <2> HIDE DEF up
  <2>1. CrossedAs(up, up, up.file, c) /\ c \in BOOLEAN
    BY <2>0, CrossNothing, ReaderHas
  <2>2. up.file \in FileNames => files[up.file] # Absent
    BY <2>0, FileIsThere
  <2>3. Undisturbed(up, files, files) /\ (up.crossed => c) /\ up.file \in {up.file, Absent}
    BY DEF Undisturbed
  <2> HIDE DEF c
  <2>4. GoesOnAs(up, up, files, files, dir, TRUE, up.file, c)
    BY <2>1, <2>2, <2>3, Zenon DEF GoesOnAs
  <2> QED
    BY <2>4, Zenon DEF up
<1>4. upload = [v \in Uploads |-> upload[v]]
    BY <1>2
<1>5. /\ \A v \in Uploads : Upright(upload[v], files, TRUE)
      /\ \A a, b \in Uploads : a # b => Apart(upload[a], upload[b])
    BY <1>2, <1>3, <1>4, AllGoOn, Zenon
<1>6. dir' \in BOOLEAN
    BY <1>1
<1> QED
    BY <1>1, <1>2, <1>5, <1>6, Zenon DEF UploadsInv, FilesType

-----------------------------------------------------------------------------
(* The theorems *)

(* In the beginning there is no upload. *)
LEMMA UploadsInvInit == Init => UploadsInv
<1> SUFFICES ASSUME Init PROVE UploadsInv
    OBVIOUS
<1>1. /\ files = [f \in FileNames |-> Absent] /\ dir \in BOOLEAN
      /\ upload = [u \in Uploads |-> NoUpload]
    BY DEF Init
<1>2. /\ NoUpload \in Readers /\ NoUpload.status = "none" /\ NoUpload.file = Absent
      /\ NoUpload.wrote = {}
  <2>1. "none" \in Statuses /\ << >> \in AllForms \cup {<< >>} /\ "add" \in {"add", "replace", "ignore"}
    BY DEF Statuses
  <2> QED
    BY <2>1, FreshHas DEF NoUpload
<1>3. Upright(NoUpload, files, dir)
  <2>1. NoUpload.status # "reading" /\ NoUpload.status # "dropped" /\ ~Answered(NoUpload)
    BY <1>2 DEF Answered
  <2>2. NoUpload.file \notin FileNames /\ \A f : f \notin NoUpload.wrote
    BY <1>2, NotAbsent
  <2> QED
    BY <1>2, <2>1, <2>2, Zenon DEF Upright
<1>4. \A u \in Uploads : upload[u] = NoUpload
    BY <1>1
<1>5. upload \in [Uploads -> Readers] /\ files \in FilesType
    BY <1>1, <1>2 DEF FilesType
<1>6. Apart(NoUpload, NoUpload)
    BY <1>2, NotAbsent DEF Apart
<1> QED
    BY <1>1, <1>3, <1>4, <1>5, <1>6 DEF UploadsInv

(* Every step keeps the invariant. *)
LEMMA UploadsInvStep == UploadsInv /\ [Next]_vars => UploadsInv'
<1> SUFFICES ASSUME UploadsInv, [Next]_vars PROVE UploadsInv'
    OBVIOUS
<1>1. CASE files' = files /\ dir' = dir /\ upload' = upload
    BY <1>1, Zenon DEF UploadsInv, FilesType
<1>2. ASSUME NEW u \in Uploads, OfUpload(u) PROVE UploadsInv'
  <2>1. ASSUME NEW form \in Forms[u], NEW mode \in {"add", "replace"}, Start(u, form, mode)
        PROVE  UploadsInv'
    <3>1. form \in AllForms
        BY DEF AllForms
    <3> QED
        BY <2>1, <3>1, StartKeeps
  <2>2. ASSUME NEW n \in Chunks[u], NEW works \in Works, Put(u, n, works) PROVE UploadsInv'
    <3>1. n \in Nat
        BY MultipartAssumption
    <3> QED
        BY <2>2, <3>1, PutKeeps
  <2>3. ASSUME NEW n \in Chunks[u], Dies(u, n) PROVE UploadsInv'
    BY <1>1, <2>3, Zenon DEF Dies
  <2>4. CASE Answer(u)
    BY <2>4, AnswerKeeps
  <2>5. CASE BreaksOff(u)
    BY <2>5, BreaksOffKeeps
  <2> QED
    BY <1>2, <2>1, <2>2, <2>3, <2>4, <2>5, Zenon DEF OfUpload
<1>3. ASSUME NEW f \in FileNames, Removed(f) PROVE UploadsInv'
    BY <1>3, RemovedKeeps
<1>4. CASE DirectoryRemoved
    BY <1>4, DirectoryRemovedKeeps
<1>5. CASE DirectoryMade
    BY <1>5, DirectoryMadeKeeps
<1> QED
    BY <1>1, <1>2, <1>3, <1>4, <1>5 DEF Next, vars

(* Every upload is upright and every two are apart, in every reachable     *)
(* state: the parser of the stream, the parser of the headers, the writer  *)
(* and the files of the directory stand, between two calls of              *)
(* basic_multipart_form_body's put, where the bytes that were sent up to   *)
(* then say.                                                               *)
THEOREM UploadsAreUpright == Spec => []UploadsInv
<1>1. Init => UploadsInv
    BY UploadsInvInit
<1>2. UploadsInv /\ [Next]_vars => UploadsInv'
    BY UploadsInvStep
<1> QED
    BY <1>1, <1>2, PTL DEF Spec

(* An upright upload that was dropped was disturbed, or its directory was  *)
(* gone.                                                                   *)
LEMMA UprightIsAnswered == UploadsInv => WellFormedIsAnswered
BY DEF UploadsInv, Upright, WellFormedIsAnswered

(* A well-formed form is answered wherever it is cut into puts, unless its  *)
(* bytes were torn (the beginning of a delimiter in three puts or more) or  *)
(* another upload or a change of the directory crossed it.                  *)
THEOREM SpecAnswers == Spec => []WellFormedIsAnswered
BY UploadsAreUpright, UprightIsAnswered, PTL

(* An upright upload that was answered has stored its form. *)
LEMMA UprightIsStored == UploadsInv => AnsweredIsStored
<1> SUFFICES ASSUME UploadsInv, NEW u \in Uploads,
                    Answered(upload[u]), ~upload[u].torn, ~upload[u].short, ~upload[u].crossed
             PROVE  /\ Len(upload[u].values) = Len(upload[u].form)
                    /\ \A i \in 1 .. Len(upload[u].form) :
                          PartIsKept(upload[u].values[i], upload[u].form[i])
    BY DEF AnsweredIsStored
<1> DEFINE up == upload[u]
           n == Len(up.form)
<1>1. Stored(up, files)
    BY DEF UploadsInv, Upright
<1> HIDE DEF up
<1>2. Len(up.values) = n /\ up.form \in AllForms /\ Earlier(up, files, n + 1)
    BY <1>1, Zenon DEF Stored
<1>3. n \in Nat
    BY <1>2, FormFacts
<1>4. \A i \in 1 .. n : Kept1(up, files, up.values[i], up.form[i])
  <2>1. \A i \in 1 .. (n + 1) - 1 : Kept1(up, files, up.values[i], up.form[i])
    BY <1>2, Zenon DEF Earlier
  <2> HIDE DEF n
  <2>2. 1 .. (n + 1) - 1 = 1 .. n
    BY <1>3
  <2> QED
    BY <2>1, <2>2, Zenon
<1>5. ~up.short
    BY DEF up
<1>6. \A i \in 1 .. n : PartIsKept(up.values[i], up.form[i])
    BY <1>4, <1>5, ZenonT(60) DEF Kept1, PartIsKept
<1> QED
    BY <1>2, <1>6, Zenon DEF up

(* An upload that is answered has kept every part of its form as it was     *)
(* sent, the values in memory and the files in the directory, unless a      *)
(* write to the disk was short, its bytes were torn or it was crossed.      *)
THEOREM SpecStores == Spec => []AnsweredIsStored
BY UploadsAreUpright, UprightIsStored, PTL

================================================================================
