----------------------------- MODULE HttpWire_proofs -----------------------------
(***************************************************************************)
(* HttpWire for every stream, every way recv() may cut it, and every       *)
(* redirect: what getString() returns is what the received tokens mean,    *)
(* and a URL that is printed and parsed again is the same URL.             *)
(***************************************************************************)
EXTENDS HttpWire, SequenceTheorems, WellFoundedInduction, TLAPS

-------------------------------------------------------------------------------
(* Least and greatest positions *)

\* A nonempty set of naturals has a least element.
LEMMA NatLeast ==
    ASSUME NEW T \in SUBSET Nat, T # {}
    PROVE  \E x \in T : \A y \in T : x <= y
<1> DEFINE R == OpToRel(<, Nat)
<1>1. IsWellFoundedOn(R, Nat)
  BY NatLessThanWellFounded
<1>2. \A x, y \in Nat : x < y => <<x, y>> \in R
  BY DEF OpToRel
<1> HIDE DEF R
<1>3. PICK x \in T : \A y \in T : ~ (<<y, x>> \in R)
  BY <1>1, WFMin
<1>4. ASSUME NEW y \in T PROVE x <= y
  <2>1. ~ (y < x)
    BY <1>2, <1>3
  <2> QED BY <2>1
<1> QED BY <1>3, <1>4

\* Min and Max of a set of positions.
LEMMA MinIs ==
    ASSUME NEW T \in SUBSET Nat, T # {}
    PROVE  Min(T) \in T /\ \A y \in T : Min(T) <= y
BY NatLeast DEF Min

\* The largest of numbers that have a bound.
LEMMA MaxIs ==
    ASSUME NEW n \in Nat, NEW T \in SUBSET (0 .. n), T # {}
    PROVE  Max(T) \in T /\ \A y \in T : y <= Max(T)
<1> DEFINE U == {k \in Nat : k <= n /\ n - k \in T}
<1>1. U # {}
  <2>1. PICK y : y \in T
    OBVIOUS
  <2>2. n - y \in U
    BY <2>1
  <2> QED BY <2>2
<1>2. PICK k \in U : \A j \in U : k <= j
  BY <1>1, NatLeast
<1>3. n - k \in T /\ \A y \in T : y <= n - k
  <2>1. ASSUME NEW y \in T PROVE y <= n - k
    <3>1. n - y \in U
      BY <2>1
    <3>2. k <= n - y /\ k \in Nat /\ y \in Nat
      BY <1>2, <3>1
    <3> QED BY <3>2
  <2> QED BY <1>2, <2>1
<1> HIDE DEF U
<1> QED BY <1>3 DEF Max

\* What the searches find.
LEMMA FindIs ==
    ASSUME NEW text \in Text, NEW tokens
    PROVE  /\ Find(text, tokens) \in 0 .. Len(text)
           /\ Find(text, tokens) = 0 => \A i \in 1 .. Len(text) : text[i] \notin tokens
           /\ Find(text, tokens) # 0 =>
                 /\ text[Find(text, tokens)] \in tokens
                 /\ \A i \in 1 .. Find(text, tokens) - 1 : text[i] \notin tokens
<1> DEFINE P == Places(text, tokens)
<1>1. P = {i \in 1 .. Len(text) : text[i] \in tokens} /\ Len(text) \in Nat
  BY LenProperties DEF Places, Text
<1>2. P # {} => Min(P) \in P /\ \A y \in P : Min(P) <= y
  <2>1. P \in SUBSET Nat
    BY <1>1
  <2> HIDE DEF P
  <2> QED BY <1>1, <2>1, MinIs
<1> HIDE DEF P
<1>3. CASE P = {}
  BY <1>1, <1>3 DEF Find, P
<1>4. CASE P # {}
  <2>1. Find(text, tokens) = Min(P)
    BY <1>4 DEF Find, P
  <2>2. Min(P) \in 1 .. Len(text) /\ text[Min(P)] \in tokens
    BY <1>1, <1>2, <1>4
  <2>3. \A i \in 1 .. Min(P) - 1 : text[i] \notin tokens
    <3>1. ASSUME NEW i \in 1 .. Min(P) - 1, text[i] \in tokens PROVE FALSE
      <4>1. i \in P
        BY <1>1, <2>2, <3>1
      <4> QED BY <1>2, <1>4, <2>2, <4>1
    <3> QED BY <3>1
  <2> QED BY <1>1, <2>1, <2>2, <2>3
<1> QED BY <1>3, <1>4

\* What rfind() returns.
LEMMA RFindIs ==
    ASSUME NEW text \in Text, NEW tokens
    PROVE  /\ RFind(text, tokens) \in 0 .. Len(text)
           /\ RFind(text, tokens) = 0 => \A i \in 1 .. Len(text) : text[i] \notin tokens
           /\ RFind(text, tokens) # 0 =>
                 /\ text[RFind(text, tokens)] \in tokens
                 /\ \A i \in RFind(text, tokens) + 1 .. Len(text) : text[i] \notin tokens
<1> DEFINE P == Places(text, tokens)
<1>1. P = {i \in 1 .. Len(text) : text[i] \in tokens} /\ Len(text) \in Nat
  BY LenProperties DEF Places, Text
<1>2. P # {} => Max(P) \in P /\ \A y \in P : y <= Max(P)
  <2>1. P \in SUBSET (0 .. Len(text))
    BY <1>1
  <2> HIDE DEF P
  <2> QED BY <1>1, <2>1, MaxIs
<1> HIDE DEF P
<1>3. CASE P = {}
  BY <1>1, <1>3 DEF RFind, P
<1>4. CASE P # {}
  <2>1. RFind(text, tokens) = Max(P)
    BY <1>4 DEF RFind, P
  <2>2. Max(P) \in 1 .. Len(text) /\ text[Max(P)] \in tokens
    BY <1>1, <1>2, <1>4
  <2>3. \A i \in Max(P) + 1 .. Len(text) : text[i] \notin tokens
    <3>1. ASSUME NEW i \in Max(P) + 1 .. Len(text), text[i] \in tokens PROVE FALSE
      <4>1. i \in P
        BY <1>1, <2>2, <3>1
      <4> QED BY <1>2, <1>4, <2>2, <4>1
    <3> QED BY <3>1
  <2> QED BY <1>1, <2>1, <2>2, <2>3
<1> QED BY <1>3, <1>4

-------------------------------------------------------------------------------
(* Pieces of text and lines *)

\* Pieces of a text.
LEMMA PieceIs ==
    ASSUME NEW text \in Text, NEW i \in Nat \ {0}, NEW j \in 0 .. Len(text), i <= j + 1
    PROVE  /\ SubSeq(text, i, j) \in Text
           /\ Len(SubSeq(text, i, j)) = j - i + 1
           /\ \A k \in 1 .. j - i + 1 : SubSeq(text, i, j)[k] = text[i + k - 1]
<1>1. Len(text) \in Nat /\ text \in [1 .. Len(text) -> Tokens]
  BY LenProperties DEF Text
<1>2. \A k \in i .. j : text[k] \in Tokens
  BY <1>1
<1> QED BY <1>1, <1>2, SubSeqProperties DEF Text

\* Two texts are equal when they are position by position.
LEMMA SameText ==
    ASSUME NEW s \in Text, NEW t \in Text, Len(s) = Len(t),
           \A k \in 1 .. Len(s) : s[k] = t[k]
    PROVE  s = t
BY SeqEqual DEF Text

\* Texts put together.
LEMMA JoinIs ==
    ASSUME NEW s \in Text, NEW t \in Text
    PROVE  /\ s \o t \in Text /\ Len(s) \in Nat /\ Len(t) \in Nat
           /\ Len(s \o t) = Len(s) + Len(t)
           /\ \A k \in 1 .. Len(s) : (s \o t)[k] = s[k]
           /\ \A k \in 1 .. Len(t) : (s \o t)[Len(s) + k] = t[k]
<1>1. Len(s) \in Nat /\ Len(t) \in Nat
  BY LenProperties DEF Text
<1>2. s \o t \in Text /\ Len(s \o t) = Len(s) + Len(t)
      /\ \A k \in 1 .. Len(s) + Len(t) : (s \o t)[k] = IF k <= Len(s) THEN s[k] ELSE t[k - Len(s)]
  BY ConcatProperties DEF Text
<1>3. ASSUME NEW k \in 1 .. Len(t) PROVE (s \o t)[Len(s) + k] = t[k]
  <2>1. Len(s) + k \in 1 .. Len(s) + Len(t) /\ ~ (Len(s) + k <= Len(s)) /\ (Len(s) + k) - Len(s) = k
    BY <1>1
  <2> QED BY <1>2, <2>1
<1> QED BY <1>1, <1>2, <1>3

\* The empty text.
LEMMA EmptyText ==
    /\ << >> \in Text /\ Len(<< >>) = 0
    /\ \A t \in Text : Len(t) \in Nat /\ (t = << >> <=> Len(t) = 0) /\ DOMAIN t = 1 .. Len(t)
BY EmptySeq, LenProperties DEF Text

\* What is left of a line without its CR.
LEMMA StrippedIs ==
    ASSUME NEW text \in Text
    PROVE  /\ Stripped(text) \in Text
           /\ Stripped(text) = << >> <=> \/ Len(text) = 0
                                         \/ Len(text) = 1 /\ text[1] = "CR"
<1> DEFINE r == RFind(text, {"CR"})
<1>1. Len(text) \in Nat /\ (text = << >> <=> Len(text) = 0)
  BY EmptyText
<1>2. /\ r \in 0 .. Len(text) /\ (r # 0 => text[r] = "CR")
      /\ r = 0 => \A i \in 1 .. Len(text) : text[i] # "CR"
      /\ r # 0 => \A i \in r + 1 .. Len(text) : text[i] # "CR"
  BY RFindIs
<1>3. text # << >> => Front(text) \in Text /\ Len(Front(text)) = Len(text) - 1
  <2> SUFFICES ASSUME text # << >> PROVE Front(text) \in Text /\ Len(Front(text)) = Len(text) - 1
    OBVIOUS
  <2> DEFINE j == Len(text) - 1
  <2>1. j \in 0 .. Len(text) /\ 1 <= j + 1 /\ 1 \in Nat \ {0} /\ j - 1 + 1 = j
    BY <1>1
  <2> HIDE DEF j
  <2>2. SubSeq(text, 1, j) \in Text /\ Len(SubSeq(text, 1, j)) = j - 1 + 1
    BY <2>1, PieceIs
  <2> QED BY <2>1, <2>2 DEF Front, j
<1> HIDE DEF r
<1>4. CASE text # << >> /\ r = Len(text)
  <2>1. Stripped(text) = Front(text)
    BY <1>4 DEF Stripped, r
  <2>2. Front(text) = << >> <=> Len(text) = 1
    BY <1>1, <1>3, <1>4, EmptyText
  <2> QED BY <1>1, <1>2, <1>3, <1>4, <2>1, <2>2
<1>5. CASE text = << >> \/ r # Len(text)
  <2>1. Stripped(text) = text
    BY <1>5 DEF Stripped, r
  <2>2. Len(text) = 1 /\ text[1] = "CR" => FALSE
    BY <1>1, <1>2, <1>5
  <2> QED BY <1>1, <2>1, <2>2
<1> QED BY <1>4, <1>5

\* The first line end decides what a line is.
LEMMA LineIs ==
    ASSUME NEW text \in Text, NEW i \in 1 .. Len(text) + 1
    PROVE  /\ LineAt(text, i).text \in Text
           /\ LineAt(text, i).next \in {0} \cup (i + 1 .. Len(text) + 1)
           /\ (\A j \in i .. Len(text) : text[j] = "LF" => j - i > MaxLine) => LineAt(text, i).next = 0
           /\ \A j \in i .. Len(text) :
                 text[j] = "LF" /\ j - i <= MaxLine /\ (\A k \in i .. j - 1 : text[k] # "LF")
                     => LineAt(text, i) = [text |-> Stripped(SubSeq(text, i, j - 1)), next |-> j + 1]
<1> DEFINE E == {j \in i .. Len(text) : text[j] = "LF"}
           m == Min(E)
<1>0. Len(text) \in Nat /\ MaxLine \in Nat
  BY EmptyText, WireAssumption
<1>1. E # {} => m \in E /\ \A y \in E : m <= y
  <2>1. E \in SUBSET Nat
    BY <1>0
  <2> QED BY <2>1, MinIs
<1>2. LineAt(text, i) = IF E = {} \/ m - i > MaxLine THEN [text |-> << >>, next |-> 0]
                        ELSE [text |-> Stripped(SubSeq(text, i, m - 1)), next |-> m + 1]
  BY DEF LineAt
<1> HIDE DEF m
<1>3. CASE E = {} \/ m - i > MaxLine
  <2>1. LineAt(text, i).text = << >> /\ LineAt(text, i).next = 0
    BY <1>2, <1>3
  <2>2. ASSUME NEW j \in i .. Len(text), text[j] = "LF", j - i <= MaxLine PROVE FALSE
    <3>1. j \in E
      BY <2>2
    <3>2. m <= j /\ m \in i .. Len(text)
      BY <1>1, <3>1
    <3> QED BY <1>0, <1>3, <2>2, <3>1, <3>2
  <2> QED BY <2>1, <2>2, EmptyText
<1>4. CASE ~ (E = {} \/ m - i > MaxLine)
  <2>0. m \in i .. Len(text) /\ text[m] = "LF" /\ m - i <= MaxLine
    BY <1>0, <1>1, <1>4
  <2>1. LineAt(text, i) = [text |-> Stripped(SubSeq(text, i, m - 1)), next |-> m + 1]
    BY <1>2, <1>4
  <2>2. SubSeq(text, i, m - 1) \in Text
    <3>1. i \in Nat \ {0} /\ m - 1 \in 0 .. Len(text) /\ i <= (m - 1) + 1
      BY <1>0, <2>0
    <3> QED BY <3>1, PieceIs
  <2>3. LineAt(text, i).text \in Text /\ LineAt(text, i).next = m + 1
    BY <2>1, <2>2, StrippedIs
  <2>4. ASSUME NEW j \in i .. Len(text), text[j] = "LF", \A k \in i .. j - 1 : text[k] # "LF"
        PROVE  j = m
    <3>1. j \in E
      BY <2>4
    <3>2. m <= j
      BY <1>1, <3>1
    <3>3. m \notin i .. j - 1
      BY <2>0, <2>4
    <3> QED BY <1>0, <2>0, <3>2, <3>3
  <2> QED BY <1>0, <2>0, <2>1, <2>3, <2>4
<1> QED BY <1>3, <1>4

-------------------------------------------------------------------------------
(* Chunks *)

Outcomes == {"ok", "Io"} \X Text

\* The digits of a size line, and what they say.
Digits(text) == IF Find(text, {";"}) = 0 THEN text ELSE To(text, Find(text, {";"}) - 1)

\* A number is an integer.
LEMMA NumberIs == \A text \in Text : Number(text) \in Int
<1>1. \A n \in DOMAIN Numerals : Numerals[n] \in Int
  BY DEF Numerals
<1> QED BY <1>1 DEF Number

\* The digits of a chunk's size are text.
LEMMA DigitsAre == \A text \in Text : Digits(text) \in Text
<1> SUFFICES ASSUME NEW text \in Text PROVE Digits(text) \in Text
  OBVIOUS
<1> DEFINE f == Find(text, {";"})
<1>1. f \in 0 .. Len(text) /\ Len(text) \in Nat
  BY FindIs, EmptyText
<1> HIDE DEF f
<1>2. CASE f # 0
  <2>1. f - 1 \in 0 .. Len(text) /\ 1 <= (f - 1) + 1 /\ 1 \in Nat \ {0}
    BY <1>1, <1>2
  <2>2. SubSeq(text, 1, f - 1) \in Text
    BY <2>1, PieceIs
  <2> QED BY <1>2, <2>2 DEF Digits, To, f
<1> QED BY <1>2 DEF Digits, f

\* A chunk, with its parts named.
LEMMA ChunkIs ==
    ASSUME NEW text \in Text, NEW i \in 1 .. Len(text) + 1, NEW D
    PROVE  LET l == LineAt(text, i)
               size == Number(Digits(l.text))
               after == LineAt(text, l.next + size)
               data == SubSeq(text, l.next, l.next + size - 1)
           IN /\ l.next = 0 \/ ~ IsNumber(Digits(l.text)) \/ size < 0 =>
                    ChunkAt(text, i, D) = <<"Io", << >> >>
              /\ l.next # 0 /\ IsNumber(Digits(l.text)) /\ size = 0 =>
                    ChunkAt(text, i, D) = <<"ok", << >> >>
              /\ l.next # 0 /\ IsNumber(Digits(l.text)) /\ size > 0 =>
                    /\ Len(text) + 1 - l.next < size =>
                          ChunkAt(text, i, D) = <<"Io", From(text, l.next)>>
                    /\ Len(text) + 1 - l.next >= size /\ after.next = 0 =>
                          ChunkAt(text, i, D) = <<"Io", data>>
                    /\ Len(text) + 1 - l.next >= size /\ after.next # 0 =>
                          ChunkAt(text, i, D) = <<D[after.next][1], data \o D[after.next][2]>>
<1> DEFINE l == LineAt(text, i)
           size == Number(Digits(l.text))
           after == LineAt(text, l.next + size)
           data == SubSeq(text, l.next, l.next + size - 1)
<1>1. l.text \in Text /\ l.next \in Nat /\ Len(text) \in Nat /\ size \in Int
  BY LineIs, EmptyText, DigitsAre, NumberIs
<1>2. ChunkAt(text, i, D) =
         IF l.next = 0 \/ ~ IsNumber(Digits(l.text)) \/ size < 0 THEN <<"Io", << >> >>
         ELSE IF size = 0 THEN <<"ok", << >> >>
         ELSE IF Len(text) + 1 - l.next < size THEN <<"Io", From(text, l.next)>>
         ELSE IF after.next = 0 THEN <<"Io", data>>
         ELSE <<D[after.next][1], data \o D[after.next][2]>>
  BY DEF ChunkAt, Digits
<1> HIDE DEF l, size, after, data
<1>3. /\ l.next = 0 \/ ~ IsNumber(Digits(l.text)) \/ size < 0 =>
            ChunkAt(text, i, D) = <<"Io", << >> >>
      /\ l.next # 0 /\ IsNumber(Digits(l.text)) /\ size = 0 =>
            ChunkAt(text, i, D) = <<"ok", << >> >>
      /\ l.next # 0 /\ IsNumber(Digits(l.text)) /\ size > 0 =>
            /\ Len(text) + 1 - l.next < size =>
                  ChunkAt(text, i, D) = <<"Io", From(text, l.next)>>
            /\ Len(text) + 1 - l.next >= size /\ after.next = 0 =>
                  ChunkAt(text, i, D) = <<"Io", data>>
            /\ Len(text) + 1 - l.next >= size /\ after.next # 0 =>
                  ChunkAt(text, i, D) = <<D[after.next][1], data \o D[after.next][2]>>
  BY <1>1, <1>2
<1> QED BY <1>3 DEF l, size, after, data

\* A chunk depends on the chunks behind it only, and ends as they do.
LEMMA ChunkBehind ==
    ASSUME NEW text \in Text, NEW i \in 1 .. Len(text) + 1, NEW D, NEW F
    PROVE  /\ (\A j \in i + 1 .. Len(text) + 1 : D[j] = F[j]) => ChunkAt(text, i, D) = ChunkAt(text, i, F)
           /\ (\A j \in i + 1 .. Len(text) + 1 : D[j] \in Outcomes) => ChunkAt(text, i, D) \in Outcomes
<1> DEFINE l == LineAt(text, i)
           size == Number(Digits(l.text))
           after == LineAt(text, l.next + size)
           data == SubSeq(text, l.next, l.next + size - 1)
           Io == <<"Io", << >> >>
<1>0. /\ l.text \in Text /\ l.next \in {0} \cup (i + 1 .. Len(text) + 1) /\ Len(text) \in Nat /\ size \in Int
      /\ << >> \in Text
  BY LineIs, EmptyText, DigitsAre, NumberIs
<1>1. CASE l.next = 0 \/ ~ IsNumber(Digits(l.text)) \/ size < 0
  <2>1. ChunkAt(text, i, D) = Io /\ ChunkAt(text, i, F) = Io
    BY <1>1, ChunkIs
  <2> QED BY <1>0, <2>1 DEF Outcomes
<1>2. CASE l.next # 0 /\ IsNumber(Digits(l.text)) /\ size = 0
  <2>1. ChunkAt(text, i, D) = <<"ok", << >> >> /\ ChunkAt(text, i, F) = <<"ok", << >> >>
    BY <1>2, ChunkIs
  <2> QED BY <1>0, <2>1 DEF Outcomes
<1>3. CASE l.next # 0 /\ IsNumber(Digits(l.text)) /\ size > 0 /\ Len(text) + 1 - l.next < size
  <2>1. /\ ChunkAt(text, i, D) = <<"Io", From(text, l.next)>>
        /\ ChunkAt(text, i, F) = <<"Io", From(text, l.next)>>
    BY <1>3, ChunkIs
  <2> HIDE DEF l
  <2>2. SubSeq(text, l.next, Len(text)) \in Text
    <3>1. l.next \in Nat \ {0} /\ Len(text) \in 0 .. Len(text) /\ l.next <= Len(text) + 1
      BY <1>0, <1>3
    <3> QED BY <3>1, PieceIs
  <2>3. From(text, l.next) \in Text
    BY <2>2 DEF From
  <2> QED BY <2>1, <2>3 DEF Outcomes
<1>4. CASE l.next # 0 /\ IsNumber(Digits(l.text)) /\ size > 0 /\ Len(text) + 1 - l.next >= size
  <2>1. data \in Text
    <3> HIDE DEF l, size
    <3>1. l.next \in Nat \ {0} /\ l.next + size - 1 \in 0 .. Len(text) /\ l.next <= (l.next + size - 1) + 1
      BY <1>0, <1>4
    <3> QED BY <3>1, PieceIs
  <2>2. after.next \in {0} \cup (i + 1 .. Len(text) + 1)
    <3> HIDE DEF l, size
    <3>1. l.next + size \in 1 .. Len(text) + 1 /\ l.next + size > i
      BY <1>0, <1>4
    <3>2. after.next \in {0} \cup ((l.next + size) + 1 .. Len(text) + 1)
      BY <3>1, LineIs
    <3> HIDE DEF after
    <3> QED BY <1>0, <3>1, <3>2
  <2>3. CASE after.next = 0
    <3>1. ChunkAt(text, i, D) = <<"Io", data>> /\ ChunkAt(text, i, F) = <<"Io", data>>
      BY <1>4, <2>3, ChunkIs
    <3> HIDE DEF data
    <3> QED BY <2>1, <3>1 DEF Outcomes
  <2>4. CASE after.next # 0
    <3>1. /\ ChunkAt(text, i, D) = <<D[after.next][1], data \o D[after.next][2]>>
          /\ ChunkAt(text, i, F) = <<F[after.next][1], data \o F[after.next][2]>>
      BY <1>4, <2>4, ChunkIs
    <3> HIDE DEF data, after
    <3>2. after.next \in i + 1 .. Len(text) + 1
      BY <2>2, <2>4
    <3>3. ASSUME D[after.next] \in Outcomes PROVE ChunkAt(text, i, D) \in Outcomes
      <4>1. data \o D[after.next][2] \in Text
        BY <2>1, <3>3, JoinIs DEF Outcomes
      <4>2. D[after.next][1] \in {"ok", "Io"}
        BY <3>3 DEF Outcomes
      <4>3. <<D[after.next][1], data \o D[after.next][2]>> \in Outcomes
        BY <4>1, <4>2, Zenon DEF Outcomes
      <4> QED BY <3>1, <4>3
    <3> QED BY <3>1, <3>2, <3>3
  <2> QED BY <2>3, <2>4
<1> QED
  <2>1. size < 0 \/ size = 0 \/ size > 0
    BY <1>0
  <2>2. Len(text) + 1 - l.next < size \/ Len(text) + 1 - l.next >= size
    BY <1>0
  <2> QED BY <1>1, <1>2, <1>3, <1>4, <2>1, <2>2

\* There is a function that says of every position how the chunks from there on
\* end: position by position, from the last to the first.
LEMMA ChunksExist ==
    ASSUME NEW text \in Text
    PROVE  \E D : D = [i \in 1 .. Len(text) + 1 |-> ChunkAt(text, i, D)]
<1> DEFINE n == Len(text) + 1
           Part(k) == \E D : D = [i \in n - k + 1 .. n |-> ChunkAt(text, i, D)]
           Missing == {k \in 0 .. n : ~ Part(k)}
<1>0. n \in Nat \ {0}
  BY EmptyText
<1> HIDE DEF n
<1>1. Part(0)
  <2>1. n - 0 + 1 .. n = {}
    BY <1>0
  <2>2. \A D : [i \in {} |-> ChunkAt(text, i, D)] = [i \in {} |-> 0]
    OBVIOUS
  <2> QED BY <2>1, <2>2
<1>2. ASSUME NEW k \in 0 .. n - 1, Part(k) PROVE Part(k + 1)
  <2>1. PICK F : F = [i \in n - k + 1 .. n |-> ChunkAt(text, i, F)]
    BY <1>2
  <2> DEFINE m == n - k
             G == [i \in m .. n |-> IF i = m THEN ChunkAt(text, m, F) ELSE F[i]]
  <2>2. m \in 1 .. n /\ n - (k + 1) + 1 = m /\ n - k + 1 = m + 1
    BY <1>0
  <2> HIDE DEF m
  <2>3. \A j \in m + 1 .. n : G[j] = F[j]
    BY <1>0, <2>2
  <2> HIDE DEF G
  <2>4. ASSUME NEW i \in m .. n PROVE ChunkAt(text, i, G) = ChunkAt(text, i, F)
    <3>1. i \in 1 .. Len(text) + 1 /\ \A j \in i + 1 .. Len(text) + 1 : j \in m + 1 .. n
      BY <1>0, <2>2 DEF n
    <3>2. \A j \in i + 1 .. Len(text) + 1 : G[j] = F[j]
      BY <2>3, <3>1
    <3> QED BY <3>1, <3>2, ChunkBehind
  <2>5. ASSUME NEW i \in m .. n PROVE G[i] = ChunkAt(text, i, G)
    <3>1. CASE i = m
      BY <2>4, <3>1 DEF G
    <3>2. CASE i # m
      <4>1. i \in m + 1 .. n
        BY <1>0, <2>2, <3>2
      <4>2. F[i] = ChunkAt(text, i, F)
        BY <2>1, <2>2, <4>1
      <4> QED BY <2>3, <2>4, <4>1, <4>2
    <3> QED BY <3>1, <3>2
  <2>6. G = [i \in m .. n |-> ChunkAt(text, i, G)]
    <3>1. G = [i \in m .. n |-> G[i]]
      BY DEF G
    <3> QED BY <2>5, <3>1
  <2>7. \E D : D = [i \in m .. n |-> ChunkAt(text, i, D)]
    BY <2>6
  <2> QED BY <2>2, <2>7
<1>3. Missing = {}
  <2> SUFFICES ASSUME Missing # {} PROVE FALSE
    OBVIOUS
  <2>1. PICK k \in Missing : \A j \in Missing : k <= j
    <3>1. Missing \in SUBSET Nat
      BY <1>0
    <3> HIDE DEF Missing
    <3> QED BY <3>1, NatLeast
  <2>2. k \in 0 .. n /\ ~ Part(k) /\ k # 0
    BY <1>1, <2>1
  <2>3. k - 1 \in 0 .. n - 1 /\ k - 1 \in 0 .. n /\ (k - 1) + 1 = k
    BY <1>0, <2>2
  <2>4. ~ Part(k - 1)
    BY <1>2, <2>2, <2>3
  <2>5. k - 1 \in Missing
    BY <2>3, <2>4
  <2>6. k <= k - 1
    BY <2>1, <2>5
  <2> QED BY <1>0, <2>2, <2>6
<1>4. Part(n)
  <2>1. n \notin Missing
    <3> HIDE DEF Missing
    <3> QED BY <1>3
  <2>2. n \in 0 .. n
    BY <1>0
  <2> QED BY <2>1, <2>2
<1> QED
  <2>1. n - n + 1 = 1
    BY <1>0
  <2> QED BY <1>4, <2>1 DEF n

\* ChunksFrom is that function.
LEMMA ChunksUnfold ==
    ASSUME NEW text \in Text, NEW i \in 1 .. Len(text) + 1
    PROVE  /\ ChunksFrom(text)[i] = ChunkAt(text, i, ChunksFrom(text))
           /\ ChunksFrom(text)[i] \in Outcomes
<1> DEFINE D == ChunksFrom(text)
           n == Len(text) + 1
           Wrong == {k \in 0 .. n : n - k \in 1 .. n /\ D[n - k] \notin Outcomes}
<1>0. n \in Nat \ {0}
  BY EmptyText
<1>1. D = [j \in 1 .. n |-> ChunkAt(text, j, D)]
  <2>1. D = CHOOSE E : E = [j \in 1 .. Len(text) + 1 |-> ChunkAt(text, j, E)]
    BY DEF ChunksFrom
  <2> HIDE DEF D
  <2> QED BY <2>1, ChunksExist
<1> HIDE DEF D, n
<1>2. \A j \in 1 .. n : D[j] = ChunkAt(text, j, D)
  BY <1>1
<1>3. Wrong = {}
  <2> SUFFICES ASSUME Wrong # {} PROVE FALSE
    OBVIOUS
  <2>1. PICK k \in Wrong : \A j \in Wrong : k <= j
    <3>1. Wrong \in SUBSET Nat
      BY <1>0
    <3> HIDE DEF Wrong
    <3> QED BY <3>1, NatLeast
  <2> DEFINE m == n - k
  <2>2. m \in 1 .. n /\ D[m] \notin Outcomes /\ k = n - m
    BY <1>0, <2>1
  <2> HIDE DEF m
  <2>3. ASSUME NEW j \in m + 1 .. n PROVE D[j] \in Outcomes
    <3>1. n - j \in 0 .. n /\ n - (n - j) = j /\ j \in 1 .. n /\ ~ (k <= n - j)
      BY <1>0, <2>2
    <3>2. n - j \notin Wrong
      BY <2>1, <3>1
    <3> QED BY <3>1, <3>2
  <2>4. ChunkAt(text, m, D) \in Outcomes
    <3>1. m \in 1 .. Len(text) + 1 /\ \A j \in m + 1 .. Len(text) + 1 : D[j] \in Outcomes
      BY <2>2, <2>3 DEF n
    <3> QED BY <3>1, ChunkBehind
  <2> QED BY <1>2, <2>2, <2>4
<1>4. i \in 1 .. n /\ n - i \in 0 .. n /\ n - (n - i) = i
  BY <1>0 DEF n
<1>5. D[i] \in Outcomes
  BY <1>3, <1>4
<1> QED BY <1>2, <1>4, <1>5 DEF D

-------------------------------------------------------------------------------
(* Pieces of pieces *)

\* A piece of a piece is a piece.
LEMMA PieceOfPiece ==
    ASSUME NEW s \in Text, NEW b \in Nat \ {0}, NEW m \in 0 .. Len(s), b <= m + 1,
           NEW i \in Nat \ {0}, NEW j \in Nat, j <= m - b + 1, i <= j + 1
    PROVE  SubSeq(SubSeq(s, b, m), i, j) = SubSeq(s, b + i - 1, b + j - 1)
<1> DEFINE t == SubSeq(s, b, m)
           u == SubSeq(t, i, j)
           v == SubSeq(s, b + i - 1, b + j - 1)
<1>0. Len(s) \in Nat
  BY EmptyText
<1>1. t \in Text /\ Len(t) = m - b + 1 /\ \A k \in 1 .. m - b + 1 : t[k] = s[b + k - 1]
  BY PieceIs
<1> HIDE DEF t
<1>2. u \in Text /\ Len(u) = j - i + 1 /\ \A k \in 1 .. j - i + 1 : u[k] = t[i + k - 1]
  <2>1. j \in 0 .. Len(t)
    BY <1>0, <1>1
  <2> QED BY <1>1, <2>1, PieceIs
<1>3. v \in Text /\ Len(v) = j - i + 1 /\ \A k \in 1 .. j - i + 1 : v[k] = s[b + i - 1 + k - 1]
  <2> DEFINE x == b + i - 1
             y == b + j - 1
  <2>1. /\ x \in Nat \ {0} /\ y \in 0 .. Len(s) /\ x <= y + 1 /\ y - x + 1 = j - i + 1
    BY <1>0
  <2> HIDE DEF x, y
  <2>2. /\ SubSeq(s, x, y) \in Text /\ Len(SubSeq(s, x, y)) = y - x + 1
        /\ \A k \in 1 .. y - x + 1 : SubSeq(s, x, y)[k] = s[x + k - 1]
    BY <2>1, PieceIs
  <2> QED BY <2>1, <2>2 DEF x, y
<1> HIDE DEF u, v
<1>4. ASSUME NEW k \in 1 .. Len(u) PROVE u[k] = v[k]
  <2>1. /\ k \in 1 .. j - i + 1 /\ i + k - 1 \in 1 .. m - b + 1
        /\ b + (i + k - 1) - 1 = b + i - 1 + k - 1
    BY <1>0, <1>2
  <2>2. t[i + k - 1] = s[b + (i + k - 1) - 1]
    BY <1>1, <2>1
  <2> QED BY <1>2, <1>3, <2>1, <2>2
<1>5. u = v
  BY <1>2, <1>3, <1>4, SameText
<1> QED BY <1>5 DEF u, v, t

\* Two pieces side by side are one.
LEMMA JoinPieces ==
    ASSUME NEW s \in Text, NEW i \in Nat \ {0}, NEW j \in Nat, NEW k \in 0 .. Len(s),
           i <= j + 1, j <= k
    PROVE  SubSeq(s, i, j) \o SubSeq(s, j + 1, k) = SubSeq(s, i, k)
<1> DEFINE t == SubSeq(s, i, j)
           u == SubSeq(s, j + 1, k)
           v == SubSeq(s, i, k)
<1>0. Len(s) \in Nat
  BY EmptyText
<1>1. t \in Text /\ Len(t) = j - i + 1 /\ \A x \in 1 .. j - i + 1 : t[x] = s[i + x - 1]
  <2>1. j \in 0 .. Len(s)
    BY <1>0
  <2> QED BY <2>1, PieceIs
<1>2. u \in Text /\ Len(u) = k - (j + 1) + 1 /\ \A x \in 1 .. k - (j + 1) + 1 : u[x] = s[(j + 1) + x - 1]
  <2>1. j + 1 \in Nat \ {0} /\ j + 1 <= k + 1
    BY <1>0
  <2> QED BY <2>1, PieceIs
<1>3. v \in Text /\ Len(v) = k - i + 1 /\ \A x \in 1 .. k - i + 1 : v[x] = s[i + x - 1]
  <2>1. i <= k + 1
    BY <1>0
  <2> QED BY <2>1, PieceIs
<1> HIDE DEF t, u, v
<1>4. /\ t \o u \in Text /\ Len(t \o u) = Len(t) + Len(u)
      /\ \A x \in 1 .. Len(t) : (t \o u)[x] = t[x]
      /\ \A x \in 1 .. Len(u) : (t \o u)[Len(t) + x] = u[x]
  BY <1>1, <1>2, JoinIs
<1>5. Len(t \o u) = Len(v)
  BY <1>0, <1>1, <1>2, <1>3, <1>4
<1>6. ASSUME NEW x \in 1 .. Len(t \o u) PROVE (t \o u)[x] = v[x]
  <2>1. x \in 1 .. k - i + 1
    BY <1>3, <1>5
  <2>2. CASE x <= Len(t)
    <3>1. x \in 1 .. Len(t) /\ x \in 1 .. j - i + 1
      BY <1>1, <2>2
    <3> QED BY <1>1, <1>3, <1>4, <2>1, <3>1
  <2>3. CASE ~ (x <= Len(t))
    <3> DEFINE y == x - Len(t)
    <3>1. /\ y \in 1 .. Len(u) /\ y \in 1 .. k - (j + 1) + 1 /\ Len(t) + y = x
          /\ (j + 1) + y - 1 = i + x - 1
      BY <1>0, <1>1, <1>2, <2>1, <2>3
    <3> HIDE DEF y
    <3>2. (t \o u)[Len(t) + y] = u[y] /\ u[y] = s[(j + 1) + y - 1]
      BY <1>2, <1>4, <3>1
    <3> QED BY <1>3, <2>1, <3>1, <3>2
  <2> QED BY <2>2, <2>3
<1>7. t \o u = v
  BY <1>3, <1>4, <1>5, <1>6, SameText
<1> QED BY <1>7 DEF t, u, v

\* The neutral element, and associativity.
LEMMA JoinEmpty == \A t \in Text : t \o << >> = t /\ << >> \o t = t
BY ConcatEmptySeq DEF Text

\* Joining is associative.
LEMMA JoinJoin == \A s, t, u \in Text : (s \o t) \o u = s \o (t \o u)
BY ConcatAssociative DEF Text

\* An empty piece.
LEMMA NoPiece ==
    ASSUME NEW s \in Text, NEW i \in Nat \ {0}, i <= Len(s) + 1
    PROVE  SubSeq(s, i, i - 1) = << >>
<1> DEFINE j == i - 1
<1>1. j \in 0 .. Len(s) /\ i <= j + 1 /\ j - i + 1 = 0
  BY EmptyText
<1> HIDE DEF j
<1>2. SubSeq(s, i, j) \in Text /\ Len(SubSeq(s, i, j)) = j - i + 1
  BY <1>1, PieceIs
<1> QED BY <1>1, <1>2, EmptyText DEF j

\* The line that starts at position q of a stream, in the piece from b to m.
LEMMA LineCut ==
    ASSUME NEW s \in Text, NEW b \in Nat \ {0}, NEW q \in Nat, b <= q, NEW m \in 0 .. Len(s), q <= m + 1
    PROVE  LET text == SubSeq(s, b, m)
               p == q - b + 1
           IN /\ text \in Text /\ Len(text) = m - b + 1 /\ p \in 1 .. Len(text) + 1
              /\ (\A j \in q .. m : s[j] = "LF" => j - q > MaxLine) => LineAt(text, p).next = 0
              /\ \A j \in q .. m :
                    s[j] = "LF" /\ j - q <= MaxLine /\ (\A k \in q .. j - 1 : s[k] # "LF")
                        => LineAt(text, p) = [text |-> Stripped(SubSeq(s, q, j - 1)), next |-> j - b + 2]
<1> DEFINE text == SubSeq(s, b, m)
           p == q - b + 1
<1>0. Len(s) \in Nat /\ MaxLine \in Nat
  BY EmptyText, WireAssumption
<1>1. text \in Text /\ Len(text) = m - b + 1 /\ \A k \in 1 .. m - b + 1 : text[k] = s[b + k - 1]
  <2>1. b <= m + 1
    BY <1>0
  <2> QED BY <2>1, PieceIs
<1> HIDE DEF text
<1>2. p \in 1 .. Len(text) + 1 /\ p \in Nat
  BY <1>0, <1>1
<1>3. \A k \in p .. Len(text) : b + k - 1 \in q .. m /\ text[k] = s[b + k - 1] /\ k - p = (b + k - 1) - q
  BY <1>0, <1>1
<1>4. ASSUME \A j \in q .. m : s[j] = "LF" => j - q > MaxLine
      PROVE  LineAt(text, p).next = 0
  <2>1. \A k \in p .. Len(text) : text[k] = "LF" => k - p > MaxLine
    BY <1>3, <1>4
  <2> HIDE DEF p
  <2> QED BY <1>1, <1>2, <2>1, LineIs
<1>5. ASSUME NEW j \in q .. m, s[j] = "LF", j - q <= MaxLine, \A k \in q .. j - 1 : s[k] # "LF"
      PROVE  LineAt(text, p) = [text |-> Stripped(SubSeq(s, q, j - 1)), next |-> j - b + 2]
  <2> DEFINE i == j - b + 1
  <2>1. /\ i \in p .. Len(text) /\ b + i - 1 = j /\ i - p = j - q /\ i + 1 = j - b + 2
        /\ p \in Nat \ {0} /\ i - 1 \in Nat /\ i - 1 <= m - b + 1 /\ p <= (i - 1) + 1
        /\ b <= m + 1 /\ b + p - 1 = q /\ b + (i - 1) - 1 = j - 1
    BY <1>0, <1>1
  <2>2. ASSUME NEW k \in p .. i - 1 PROVE text[k] # "LF"
    <3>1. b + k - 1 \in q .. j - 1 /\ k \in p .. Len(text)
      BY <1>0, <1>1
    <3> QED BY <1>3, <1>5, <3>1
  <2> HIDE DEF i, p
  <2>3. text[i] = "LF" /\ i - p <= MaxLine
    BY <1>3, <1>5, <2>1
  <2>4. LineAt(text, p) = [text |-> Stripped(SubSeq(text, p, i - 1)), next |-> i + 1]
    BY <1>1, <1>2, <2>1, <2>2, <2>3, LineIs
  <2>5. SubSeq(text, p, i - 1) = SubSeq(s, b + p - 1, b + (i - 1) - 1)
    BY <2>1, PieceOfPiece DEF text
  <2> QED BY <2>1, <2>4, <2>5
<1> QED BY <1>1, <1>2, <1>4, <1>5 DEF text

\* The end of the head, in what has been received.
LEMMA HeadCut ==
    ASSUME NEW s \in Text, NEW n \in 0 .. Len(s), NEW b \in 2 .. n + 1,
           BlankAt(s, b - 1), \A i \in 1 .. b - 2 : ~ BlankAt(s, i)
    PROVE  BodyStart(To(s, n)) = b /\ From(To(s, n), b) = SubSeq(s, b, n)
<1> DEFINE t == SubSeq(s, 1, n)
           B == {j \in DOMAIN t : BlankAt(t, j)}
<1>0. Len(s) \in Nat
  BY EmptyText
<1>1. t \in Text /\ Len(t) = n /\ DOMAIN t = 1 .. n /\ \A k \in 1 .. n : t[k] = s[k]
  <2>1. 1 \in Nat \ {0} /\ 1 <= n + 1 /\ n - 1 + 1 = n
    BY <1>0
  <2>2. t \in Text /\ Len(t) = n - 1 + 1 /\ \A k \in 1 .. n - 1 + 1 : t[k] = s[1 + k - 1]
    BY <2>1, PieceIs
  <2>3. \A k \in 1 .. n : 1 + k - 1 = k
    BY <1>0
  <2> HIDE DEF t
  <2> QED BY <2>1, <2>2, <2>3, EmptyText
<1> HIDE DEF t
<1>2. ASSUME NEW j \in 1 .. n PROVE BlankAt(t, j) <=> BlankAt(s, j)
  <2>1. t[j] = s[j]
    BY <1>1
  <2>2. ASSUME NEW i \in {j - 1, j - 2}, i > 0
        PROVE  t[i] = s[i] /\ \A k \in i + 1 .. j - 1 : t[k] = s[k]
    <3>1. i \in 1 .. n /\ \A k \in i + 1 .. j - 1 : k \in 1 .. n
      BY <1>0, <2>2
    <3> QED BY <1>1, <3>1
  <2> QED BY <2>1, <2>2 DEF BlankAt
<1>3. b - 1 \in B /\ \A j \in B : b - 1 <= j
  <2>1. b - 1 \in 1 .. n /\ \A j \in 1 .. n : ~ (b - 1 <= j) => j \in 1 .. b - 2
    BY <1>0
  <2> QED BY <1>1, <1>2, <2>1
<1>4. Min(B) = b - 1
  <2>1. B \in SUBSET Nat /\ B # {}
    BY <1>0, <1>1, <1>3
  <2>2. Min(B) \in B /\ \A y \in B : Min(B) <= y
    BY <2>1, MinIs
  <2>3. Min(B) <= b - 1 /\ b - 1 <= Min(B) /\ Min(B) \in Nat
    BY <1>3, <2>1, <2>2
  <2> QED BY <1>0, <2>3
<1>5. BodyStart(t) = b
  BY <1>0, <1>4 DEF BodyStart
<1>6. SubSeq(t, b, n) = SubSeq(s, b, n)
  <2>1. /\ 1 \in Nat \ {0} /\ 1 <= n + 1 /\ b \in Nat \ {0} /\ n \in Nat /\ n <= n - 1 + 1 /\ b <= n + 1
        /\ 1 + b - 1 = b /\ 1 + n - 1 = n
    BY <1>0
  <2>2. SubSeq(SubSeq(s, 1, n), b, n) = SubSeq(s, 1 + b - 1, 1 + n - 1)
    BY <2>1, PieceOfPiece
  <2> QED BY <2>1, <2>2 DEF t
<1> QED BY <1>1, <1>5, <1>6 DEF To, From, t

-------------------------------------------------------------------------------
(* How the rest of a chunked body ends *)

\* Behind the data of a chunk, where the line that closes it starts.
Ending(text, p) ==
    LET after == LineAt(text, p)
    IN IF after.next = 0 THEN <<"Io", << >> >> ELSE ChunksFrom(text)[after.next]

\* With n tokens of a chunk still to come.
Within(text, p, n) ==
    IF Len(text) + 1 - p < n THEN <<"Io", From(text, p)>>
    ELSE <<Ending(text, p + n)[1], SubSeq(text, p, p + n - 1) \o Ending(text, p + n)[2]>>

\* What follows a chunk's data has an outcome.
LEMMA EndingIs ==
    ASSUME NEW text \in Text, NEW p \in 1 .. Len(text) + 1
    PROVE  Ending(text, p) \in Outcomes
<1> DEFINE next == LineAt(text, p).next
<1>0. Len(text) \in Nat /\ << >> \in Text
  BY EmptyText
<1>1. next \in {0} \cup (p + 1 .. Len(text) + 1)
  BY LineIs
<1> HIDE DEF next
<1>2. CASE next = 0
  BY <1>0, <1>2 DEF Ending, next, Outcomes
<1>3. CASE next # 0
  <2>1. next \in 1 .. Len(text) + 1
    BY <1>0, <1>1, <1>3
  <2>2. ChunksFrom(text)[next] \in Outcomes
    BY <2>1, ChunksUnfold
  <2> QED BY <1>3, <2>2 DEF Ending, next
<1> QED BY <1>2, <1>3

\* An outcome is the pair of its parts.
LEMMA OutcomeIs ==
    ASSUME NEW x \in Outcomes
    PROVE  x = <<x[1], x[2]>> /\ x[1] \in {"ok", "Io"} /\ x[2] \in Text
BY DEF Outcomes

\* A size line without a size ends the body, a zero size too, and any other one
\* is followed by its data.
LEMMA ChunkRead ==
    ASSUME NEW text \in Text, NEW i \in 1 .. Len(text) + 1
    PROVE  LET l == LineAt(text, i)
               size == Number(Digits(l.text))
           IN /\ l.next = 0 \/ ~ IsNumber(Digits(l.text)) \/ size < 0 =>
                    ChunksFrom(text)[i] = <<"Io", << >> >>
              /\ l.next # 0 /\ IsNumber(Digits(l.text)) /\ size = 0 =>
                    ChunksFrom(text)[i] = <<"ok", << >> >>
              /\ l.next # 0 /\ IsNumber(Digits(l.text)) /\ size > 0 =>
                    ChunksFrom(text)[i] = Within(text, l.next, size)
<1> DEFINE D == ChunksFrom(text)
           l == LineAt(text, i)
           size == Number(Digits(l.text))
           p == l.next + size
           after == LineAt(text, p)
           data == SubSeq(text, l.next, l.next + size - 1)
<1>0. /\ l.text \in Text /\ l.next \in {0} \cup (i + 1 .. Len(text) + 1) /\ Len(text) \in Nat /\ size \in Int
      /\ << >> \in Text
  BY LineIs, EmptyText, DigitsAre, NumberIs
<1>1. D[i] = ChunkAt(text, i, D)
  BY ChunksUnfold
<1>2. /\ l.next = 0 \/ ~ IsNumber(Digits(l.text)) \/ size < 0 => D[i] = <<"Io", << >> >>
      /\ l.next # 0 /\ IsNumber(Digits(l.text)) /\ size = 0 => D[i] = <<"ok", << >> >>
  BY <1>1, ChunkIs
<1>3. ASSUME l.next # 0, IsNumber(Digits(l.text)), size > 0
      PROVE  D[i] = Within(text, l.next, size)
  <2>1. CASE Len(text) + 1 - l.next < size
    <3>1. D[i] = <<"Io", From(text, l.next)>>
      BY <1>1, <1>3, <2>1, ChunkIs
    <3> QED BY <2>1, <3>1 DEF Within
  <2>2. CASE Len(text) + 1 - l.next >= size
    <3>0. ~ (Len(text) + 1 - l.next < size)
      <4> HIDE DEF l, size
      <4> QED BY <1>0, <2>2
    <3>1. data \in Text
      <4> HIDE DEF l, size
      <4>1. l.next \in Nat \ {0} /\ l.next + size - 1 \in 0 .. Len(text) /\ l.next <= (l.next + size - 1) + 1
        BY <1>0, <1>3, <2>2
      <4> QED BY <4>1, PieceIs
    <3>2. Within(text, l.next, size) = <<Ending(text, p)[1], data \o Ending(text, p)[2]>>
      BY <3>0 DEF Within
    <3>3. CASE after.next = 0
      <4>1. D[i] = <<"Io", data>>
        BY <1>1, <1>3, <2>2, <3>3, ChunkIs
      <4>2. Ending(text, p) = <<"Io", << >> >>
        BY <3>3 DEF Ending
      <4> HIDE DEF D, data, p
      <4>3. data \o << >> = data
        BY <3>1, JoinEmpty
      <4>4. Ending(text, p)[1] = "Io" /\ Ending(text, p)[2] = << >>
        BY <4>2
      <4> HIDE DEF l, size
      <4>5. Within(text, l.next, size) = <<"Io", data>>
        BY <3>2, <4>3, <4>4
      <4> QED BY <4>1, <4>5
    <3>4. CASE after.next # 0
      <4>1. D[i] = <<D[after.next][1], data \o D[after.next][2]>>
        BY <1>1, <1>3, <2>2, <3>4, ChunkIs
      <4>2. Ending(text, p) = D[after.next]
        BY <3>4 DEF Ending
      <4> HIDE DEF D, data, p
      <4> QED BY <3>2, <4>1, <4>2
    <3> QED BY <3>3, <3>4
  <2> QED
    <3> HIDE DEF l, size
    <3>1. Len(text) + 1 - l.next < size \/ Len(text) + 1 - l.next >= size
      BY <1>0
    <3> QED BY <2>1, <2>2, <3>1
<1> QED BY <1>2, <1>3

\* The first k of the n tokens still to come are those at hand.
LEMMA WithinStep ==
    ASSUME NEW text \in Text, NEW p \in 1 .. Len(text) + 1, NEW n \in Nat, NEW k \in 0 .. n,
           k <= Len(text) + 1 - p
    PROVE  /\ Within(text, p + k, n - k) \in Outcomes
           /\ Within(text, p, n) = <<Within(text, p + k, n - k)[1],
                                     SubSeq(text, p, p + k - 1) \o Within(text, p + k, n - k)[2]>>
<1> DEFINE L == Len(text)
           q == p + k
           a == SubSeq(text, p, q - 1)
           c == SubSeq(text, q, L)
           d == SubSeq(text, q, p + n - 1)
           e == Ending(text, p + n)
<1>0. L \in Nat /\ p \in Nat \ {0} /\ q \in 1 .. L + 1 /\ q >= p
  BY EmptyText
<1>1. a \in Text /\ c \in Text /\ a \o c = SubSeq(text, p, L)
  <2> HIDE DEF q
  <2>1. /\ q - 1 \in 0 .. L /\ p <= (q - 1) + 1 /\ q \in Nat \ {0} /\ L \in 0 .. L /\ q <= L + 1
        /\ q - 1 \in Nat /\ q - 1 <= L /\ (q - 1) + 1 = q
    BY <1>0
  <2>2. a \in Text /\ c \in Text
    BY <1>0, <2>1, PieceIs
  <2> HIDE DEF a
  <2>3. SubSeq(text, p, q - 1) \o SubSeq(text, (q - 1) + 1, L) = SubSeq(text, p, L)
    BY <1>0, <2>1, JoinPieces
  <2> QED BY <2>1, <2>2, <2>3 DEF a
<1>2. q - 1 = p + k - 1 /\ q + (n - k) = p + n /\ (L + 1 - p < n <=> L + 1 - q < n - k)
  BY <1>0
<1>3. CASE L + 1 - p < n
  <2>1. Within(text, p, n) = <<"Io", SubSeq(text, p, L)>>
    BY <1>3 DEF Within, From
  <2>2. L + 1 - q < n - k
    BY <1>2, <1>3
  <2>3. Within(text, q, n - k) = <<"Io", c>>
    BY <2>2 DEF Within, From
  <2> HIDE DEF a, c, L, q
  <2>4. <<"Io", c>> \in Outcomes
    BY <1>1, Zenon DEF Outcomes
  <2>5. Within(text, q, n - k) \in Outcomes /\ Within(text, q, n - k)[1] = "Io" /\ Within(text, q, n - k)[2] = c
    BY <2>3, <2>4
  <2>6. Within(text, p, n) = <<Within(text, q, n - k)[1], a \o Within(text, q, n - k)[2]>>
    BY <1>1, <2>1, <2>5
  <2> QED BY <1>2, <2>5, <2>6 DEF a, q
<1>4. CASE ~ (L + 1 - p < n)
  <2>1. Within(text, p, n) = <<e[1], SubSeq(text, p, p + n - 1) \o e[2]>>
    BY <1>4 DEF Within
  <2>2. ~ (L + 1 - q < n - k)
    BY <1>2, <1>4
  <2>3. Within(text, q, n - k) = <<Ending(text, q + (n - k))[1],
                                  SubSeq(text, q, q + (n - k) - 1) \o Ending(text, q + (n - k))[2]>>
    BY <2>2 DEF Within
  <2>4. Within(text, q, n - k) = <<e[1], d \o e[2]>>
    <3> DEFINE r == q + (n - k)
    <3>1. r = p + n /\ r - 1 = p + n - 1 /\ r - 1 = q + (n - k) - 1
      BY <1>0, <1>2
    <3>2. Within(text, q, n - k) = <<Ending(text, r)[1], SubSeq(text, q, r - 1) \o Ending(text, r)[2]>>
      BY <2>3, <3>1, Zenon
    <3>3. Ending(text, r) = e /\ SubSeq(text, q, r - 1) = d
      <4> HIDE DEF r, q
      <4> QED BY <3>1, Zenon
    <3> HIDE DEF r, q, e, d
    <3> QED BY <3>2, <3>3, Zenon
  <2>5. e \in Outcomes
    <3>1. p + n \in 1 .. L + 1
      BY <1>0, <1>4
    <3> QED BY <3>1, EndingIs
  <2> HIDE DEF e
  <2>6. e[1] \in {"ok", "Io"} /\ e[2] \in Text
    BY <2>5, OutcomeIs
  <2>7. d \in Text /\ a \o d = SubSeq(text, p, p + n - 1)
    <3> DEFINE r == p + n - 1
    <3> HIDE DEF q
    <3>1. /\ r \in 0 .. L /\ q <= r + 1 /\ q \in Nat \ {0} /\ (q - 1) + 1 = q
          /\ q - 1 \in Nat /\ p <= (q - 1) + 1 /\ q - 1 <= r
      BY <1>0, <1>2, <1>4
    <3> HIDE DEF r
    <3>2. SubSeq(text, q, r) \in Text
      BY <3>1, PieceIs
    <3>3. SubSeq(text, p, q - 1) \o SubSeq(text, (q - 1) + 1, r) = SubSeq(text, p, r)
      BY <1>0, <3>1, JoinPieces
    <3> QED BY <3>1, <3>2, <3>3 DEF r
  <2> HIDE DEF a, d, q
  <2>8. d \o e[2] \in Text /\ a \o (d \o e[2]) = (a \o d) \o e[2]
    <3>1. d \o e[2] \in Text
      BY <2>6, <2>7, JoinIs
    <3>2. (a \o d) \o e[2] = a \o (d \o e[2])
      BY <1>1, <2>6, <2>7, JoinJoin
    <3> QED BY <3>1, <3>2
  <2>9. <<e[1], d \o e[2]>> \in Outcomes
    BY <2>6, <2>8, Zenon DEF Outcomes
  <2>10. /\ Within(text, q, n - k) \in Outcomes
         /\ Within(text, q, n - k)[1] = e[1] /\ Within(text, q, n - k)[2] = d \o e[2]
    <3>1. Within(text, q, n - k) \in Outcomes
      BY <2>4, <2>9, Zenon
    <3>2. Within(text, q, n - k)[1] = e[1] /\ Within(text, q, n - k)[2] = d \o e[2]
      BY <2>4
    <3> QED BY <3>1, <3>2
  <2>11. Within(text, p, n) = <<Within(text, q, n - k)[1], a \o Within(text, q, n - k)[2]>>
    BY <2>1, <2>7, <2>8, <2>10
  <2> QED BY <1>2, <2>10, <2>11 DEF a, q
<1> QED BY <1>3, <1>4

\* No more tokens to come.
LEMMA WithinZero ==
    ASSUME NEW text \in Text, NEW p \in 1 .. Len(text) + 1
    PROVE  Within(text, p, 0) = Ending(text, p)
<1> DEFINE e == Ending(text, p)
<1>0. Len(text) \in Nat
  BY EmptyText
<1>1. p + 0 = p /\ p + 0 - 1 = p - 1 /\ ~ (Len(text) + 1 - p < 0) /\ p \in Nat \ {0} /\ p <= Len(text) + 1
  BY <1>0
<1>2. Within(text, p, 0) = <<e[1], SubSeq(text, p, p - 1) \o e[2]>>
  BY <1>1 DEF Within
<1>3. SubSeq(text, p, p - 1) = << >>
  BY <1>1, NoPiece
<1>4. e \in Outcomes
  BY EndingIs
<1> HIDE DEF e
<1>5. e = <<e[1], e[2]>> /\ e[2] \in Text
  BY <1>4, OutcomeIs
<1>6. << >> \o e[2] = e[2]
  BY <1>5, JoinEmpty
<1>7. <<e[1], SubSeq(text, p, p - 1) \o e[2]>> = e
  BY <1>3, <1>5, <1>6
<1> QED BY <1>2, <1>7 DEF e

-------------------------------------------------------------------------------
(* URLs *)

Urls == [scheme : Tokens, host : Text, port : Text, target : Text]

\* What parseUrl() makes sure of.
UrlOK(u) ==
    /\ u \in Urls /\ u.scheme \in {"http", "https"}
    /\ u.host # << >> /\ Range(u.host) \cap {"/", "?", "#", "@"} = {}
    /\ u.port # << >> /\ Range(u.port) \subseteq DOMAIN Numerals
    /\ u.target # << >> /\ u.target[1] = "/" /\ "#" \notin Range(u.target)

\* The tokens of a text, and of a piece of it.
LEMMA RangeIs ==
    ASSUME NEW text \in Text
    PROVE  Range(text) = {text[i] : i \in 1 .. Len(text)}
BY EmptyText DEF Range

\* The tokens of a piece.
LEMMA PieceRange ==
    ASSUME NEW text \in Text, NEW i \in Nat \ {0}, NEW j \in 0 .. Len(text), i <= j + 1
    PROVE  Range(SubSeq(text, i, j)) = {text[k] : k \in i .. j}
<1> DEFINE t == SubSeq(text, i, j)
<1>0. Len(text) \in Nat
  BY EmptyText
<1>1. t \in Text /\ Len(t) = j - i + 1 /\ \A k \in 1 .. j - i + 1 : t[k] = text[i + k - 1]
  BY PieceIs
<1> HIDE DEF t
<1>2. Range(t) = {t[k] : k \in 1 .. j - i + 1}
  BY <1>1, RangeIs
<1>3. \A k \in 1 .. j - i + 1 : i + k - 1 \in i .. j
  BY <1>0
<1>4. \A k \in i .. j : k - i + 1 \in 1 .. j - i + 1 /\ i + (k - i + 1) - 1 = k
  BY <1>0
<1>5. ASSUME NEW x \in Range(t) PROVE x \in {text[k] : k \in i .. j}
  <2>1. PICK k \in 1 .. j - i + 1 : x = t[k]
    BY <1>2, <1>5
  <2>2. x = text[i + k - 1] /\ i + k - 1 \in i .. j
    BY <1>1, <1>3, <2>1
  <2> QED BY <2>2
<1>6. ASSUME NEW k \in i .. j PROVE text[k] \in Range(t)
  <2>1. t[k - i + 1] = text[k]
    BY <1>1, <1>4
  <2> QED BY <1>2, <1>4, <2>1
<1> QED BY <1>5, <1>6 DEF t

\* The pieces From and To cut.
LEMMA FromIs ==
    ASSUME NEW text \in Text, NEW i \in Nat \ {0}, i <= Len(text) + 1
    PROVE  /\ From(text, i) \in Text /\ Len(From(text, i)) = Len(text) - i + 1
           /\ \A k \in 1 .. Len(text) - i + 1 : From(text, i)[k] = text[i + k - 1]
           /\ Range(From(text, i)) = {text[k] : k \in i .. Len(text)}
<1> DEFINE n == Len(text)
<1>1. n \in 0 .. n /\ n \in 0 .. Len(text) /\ i <= n + 1
  BY EmptyText
<1> HIDE DEF n
<1>2. /\ SubSeq(text, i, n) \in Text /\ Len(SubSeq(text, i, n)) = n - i + 1
      /\ \A k \in 1 .. n - i + 1 : SubSeq(text, i, n)[k] = text[i + k - 1]
  BY <1>1, PieceIs
<1>3. Range(SubSeq(text, i, n)) = {text[k] : k \in i .. n}
  BY <1>1, PieceRange
<1> QED BY <1>2, <1>3 DEF From, n

\* The front of a text.
LEMMA ToIs ==
    ASSUME NEW text \in Text, NEW j \in 0 .. Len(text)
    PROVE  /\ To(text, j) \in Text /\ Len(To(text, j)) = j
           /\ \A k \in 1 .. j : To(text, j)[k] = text[k]
           /\ Range(To(text, j)) = {text[k] : k \in 1 .. j}
<1> DEFINE i == 1
<1>0. Len(text) \in Nat /\ j \in Nat
  BY EmptyText
<1>1. i \in Nat \ {0} /\ i <= j + 1 /\ j - i + 1 = j /\ \A k \in 1 .. j : i + k - 1 = k
  BY <1>0
<1>2. i = 1
  OBVIOUS
<1> HIDE DEF i
<1>3. /\ SubSeq(text, i, j) \in Text /\ Len(SubSeq(text, i, j)) = j - i + 1
      /\ \A k \in 1 .. j - i + 1 : SubSeq(text, i, j)[k] = text[i + k - 1]
  BY <1>1, PieceIs
<1>4. Range(SubSeq(text, i, j)) = {text[k] : k \in i .. j}
  BY <1>1, PieceRange
<1> QED BY <1>1, <1>2, <1>3, <1>4 DEF To

\* The tokens of a join.
LEMMA JoinRange ==
    ASSUME NEW s \in Text, NEW t \in Text
    PROVE  Range(s \o t) = Range(s) \cup Range(t)
<1> DEFINE u == s \o t
<1>1. /\ u \in Text /\ Len(s) \in Nat /\ Len(t) \in Nat
      /\ Len(u) = Len(s) + Len(t)
      /\ \A k \in 1 .. Len(s) : u[k] = s[k]
      /\ \A k \in 1 .. Len(t) : u[Len(s) + k] = t[k]
  BY JoinIs
<1> HIDE DEF u
<1>2. /\ Range(u) = {u[i] : i \in 1 .. Len(u)} /\ Range(s) = {s[i] : i \in 1 .. Len(s)}
      /\ Range(t) = {t[i] : i \in 1 .. Len(t)}
  BY <1>1, RangeIs
<1>3. ASSUME NEW x \in Range(u) PROVE x \in Range(s) \cup Range(t)
  <2>1. PICK k \in 1 .. Len(u) : x = u[k]
    BY <1>2, <1>3
  <2>2. CASE k <= Len(s)
    <3>1. k \in 1 .. Len(s)
      BY <1>1, <2>2
    <3> QED BY <1>1, <1>2, <2>1, <3>1
  <2>3. CASE ~ (k <= Len(s))
    <3>1. k - Len(s) \in 1 .. Len(t) /\ Len(s) + (k - Len(s)) = k
      BY <1>1, <2>3
    <3>2. x = t[k - Len(s)]
      BY <1>1, <2>1, <3>1
    <3> QED BY <1>2, <3>1, <3>2
  <2> QED BY <2>2, <2>3
<1>4. ASSUME NEW k \in 1 .. Len(s) PROVE s[k] \in Range(u)
  <2>1. k \in 1 .. Len(u)
    BY <1>1
  <2> QED BY <1>1, <1>2, <2>1
<1>5. ASSUME NEW k \in 1 .. Len(t) PROVE t[k] \in Range(u)
  <2>1. Len(s) + k \in 1 .. Len(u)
    BY <1>1
  <2> QED BY <1>1, <1>2, <2>1
<1>6. Range(s) \cup Range(t) \subseteq Range(u)
  BY <1>2, <1>4, <1>5
<1> QED BY <1>3, <1>6 DEF u

\* Where the scheme ends.
LEMMA SchemeIs ==
    ASSUME NEW text \in Text
    PROVE  /\ SchemeEnd(text) = 2 => /\ Len(text) >= 4
                                     /\ text[2] = ":" /\ text[3] = "/" /\ text[4] = "/"
           /\ Len(text) >= 4 /\ text[1] # ":" /\ text[2] = ":" /\ text[3] = "/" /\ text[4] = "/"
                 => SchemeEnd(text) = 2
<1> DEFINE H == {i \in 1 .. Len(text) - 2 : SubSeq(text, i, i + 2) = <<":", "/", "/">>}
           w == <<":", "/", "/">>
<1>0. Len(text) \in Nat
  BY EmptyText
<1>1. SchemeEnd(text) = IF H = {} THEN 0 ELSE Min(H)
  BY DEF SchemeEnd
<1>2. H # {} => Min(H) \in H /\ \A y \in H : Min(H) <= y
  <2>1. H \in SUBSET Nat
    BY <1>0
  <2> HIDE DEF H
  <2> QED BY <2>1, MinIs
<1>w. w \in Text /\ Len(w) = 3 /\ w[1] = ":" /\ w[2] = "/" /\ w[3] = "/"
  <2>2. w \in Seq(Tokens)
    <3>1. ":" \in Tokens /\ "/" \in Tokens
      BY WireAssumption
    <3> QED BY <3>1
  <2>3. Len(w) = 3 /\ w[1] = ":" /\ w[2] = "/" /\ w[3] = "/"
    OBVIOUS
  <2> QED BY <2>2, <2>3 DEF Text
<1>3. ASSUME NEW i \in 1 .. Len(text) - 2
      PROVE  SubSeq(text, i, i + 2) = w <=> text[i] = ":" /\ text[i + 1] = "/" /\ text[i + 2] = "/"
  <2> DEFINE j == i + 2
             t == SubSeq(text, i, j)
  <2>1. /\ i \in Nat \ {0} /\ j \in 0 .. Len(text) /\ i <= j + 1 /\ j - i + 1 = 3
        /\ i + 1 - 1 = i /\ i + 2 - 1 = i + 1 /\ i + 3 - 1 = i + 2
    BY <1>0
  <2> HIDE DEF j
  <2>2. t \in Text /\ Len(t) = j - i + 1 /\ \A k \in 1 .. j - i + 1 : t[k] = text[i + k - 1]
    BY <2>1, PieceIs
  <2> HIDE DEF t
  <2>3. Len(t) = 3 /\ t[1] = text[i] /\ t[2] = text[i + 1] /\ t[3] = text[i + 2]
    <3>1. 1 \in 1 .. 3 /\ 2 \in 1 .. 3 /\ 3 \in 1 .. 3
      OBVIOUS
    <3> QED BY <2>1, <2>2, <3>1
  <2>4. ASSUME text[i] = ":" /\ text[i + 1] = "/" /\ text[i + 2] = "/" PROVE t = w
    <3>1. \A k \in 1 .. 3 : k = 1 \/ k = 2 \/ k = 3
      OBVIOUS
    <3> HIDE DEF w
    <3>2. \A k \in 1 .. Len(t) : t[k] = w[k]
      BY <1>w, <2>3, <2>4, <3>1
    <3> QED BY <1>w, <2>2, <2>3, <3>2, SameText
  <2>5. t = w => text[i] = ":" /\ text[i + 1] = "/" /\ text[i + 2] = "/"
    <3> HIDE DEF w
    <3> QED BY <1>w, <2>3
  <2> QED BY <2>4, <2>5 DEF t, j
<1>4. ASSUME SchemeEnd(text) = 2
      PROVE  Len(text) >= 4 /\ text[2] = ":" /\ text[3] = "/" /\ text[4] = "/"
  <2>1. 2 \in H
    BY <1>1, <1>2, <1>4
  <2>2. 2 \in 1 .. Len(text) - 2 /\ SubSeq(text, 2, 2 + 2) = w
    BY <2>1
  <2> HIDE DEF H, w
  <2>3. text[2] = ":" /\ text[2 + 1] = "/" /\ text[2 + 2] = "/"
    BY <1>3, <2>2
  <2> QED BY <1>0, <2>2, <2>3
<1>5. ASSUME Len(text) >= 4, text[1] # ":", text[2] = ":", text[3] = "/", text[4] = "/"
      PROVE  SchemeEnd(text) = 2
  <2>1. 2 \in 1 .. Len(text) - 2 /\ 1 \in 1 .. Len(text) - 2 /\ 2 + 1 = 3 /\ 2 + 2 = 4
    BY <1>0, <1>5
  <2>2. SubSeq(text, 2, 2 + 2) = w /\ SubSeq(text, 1, 1 + 2) # w
    <3> HIDE DEF w
    <3> QED BY <1>3, <1>5, <2>1
  <2>3. 2 \in H /\ 1 \notin H /\ H \subseteq Nat \ {0}
    BY <1>0, <2>1, <2>2
  <2> HIDE DEF H
  <2>4. Min(H) \in Nat \ {0} /\ Min(H) <= 2 /\ Min(H) # 1
    BY <1>2, <2>3
  <2> QED BY <1>1, <2>3, <2>4
<1> QED BY <1>4, <1>5

\* The host of an authority is made of its tokens.
LEMMA HostPortIs ==
    ASSUME NEW a \in Text, a # << >>
    PROVE  HostPort(a)[1] \in Text /\ HostPort(a)[2] \in Text /\ Range(HostPort(a)[1]) \subseteq Range(a)
<1> DEFINE close == Find(a, {"]"})
           rest == From(a, close + 1)
           colon == RFind(a, {":"})
           hp == HostPort(a)
           port == IF rest # << >> /\ rest[1] = ":" THEN From(rest, 2) ELSE << >>
<1>0. Len(a) \in Nat \ {0} /\ << >> \in Text /\ Range(a) = {a[k] : k \in 1 .. Len(a)}
  BY EmptyText, RangeIs
<1>e. Range(<< >>) = {}
  BY DEF Range
<1>1. close \in 0 .. Len(a) /\ colon \in 0 .. Len(a)
  BY FindIs, RFindIs
<1>2. hp = IF a[1] = "["
           THEN IF close = 0 THEN << << >>, << >> >> ELSE <<SubSeq(a, 2, close - 1), port>>
           ELSE IF colon = 0 THEN <<a, << >> >> ELSE <<To(a, colon - 1), From(a, colon + 1)>>
  BY DEF HostPort
<1>3. port \in Text
  <2> HIDE DEF close
  <2>1. close + 1 \in Nat \ {0} /\ close + 1 <= Len(a) + 1
    BY <1>0, <1>1
  <2>2. rest \in Text
    BY <2>1, FromIs
  <2> HIDE DEF rest
  <2>3. ASSUME rest # << >> PROVE From(rest, 2) \in Text
    <3>1. 2 \in Nat \ {0} /\ 2 <= Len(rest) + 1
      BY <2>2, <2>3, EmptyText
    <3> QED BY <2>2, <3>1, FromIs
  <2> QED BY <1>0, <2>3
<1> HIDE DEF close, colon, hp, port
<1>4. CASE a[1] = "[" /\ close = 0
  BY <1>0, <1>2, <1>4, <1>e DEF hp
<1>5. CASE a[1] = "[" /\ close # 0
  <2>1. close # 1
    <3>1. close # 0 => a[close] \in {"]"}
      BY FindIs DEF close
    <3> QED BY <1>5, <3>1
  <2> DEFINE t == SubSeq(a, 2, close - 1)
  <2>2. t \in Text /\ Range(t) \subseteq Range(a)
    <3> DEFINE i == 2
               j == close - 1
    <3>1. i \in Nat \ {0} /\ j \in 0 .. Len(a) /\ i <= j + 1 /\ \A k \in i .. j : k \in 1 .. Len(a)
      BY <1>0, <1>1, <1>5, <2>1
    <3>2. t = SubSeq(a, i, j)
      OBVIOUS
    <3> HIDE DEF i, j
    <3>3. SubSeq(a, i, j) \in Text /\ Range(SubSeq(a, i, j)) = {a[k] : k \in i .. j}
      BY <3>1, PieceIs, PieceRange
    <3> HIDE DEF t
    <3> QED BY <1>0, <3>1, <3>2, <3>3
  <2>3. hp = <<t, port>>
    BY <1>2, <1>5
  <2> HIDE DEF t
  <2>4. hp[1] = t /\ hp[2] = port
    BY <2>3
  <2> QED BY <1>3, <2>2, <2>4 DEF hp
<1>6. CASE a[1] # "[" /\ colon = 0
  BY <1>0, <1>2, <1>6 DEF hp
<1>7. CASE a[1] # "[" /\ colon # 0
  <2>1. /\ colon - 1 \in 0 .. Len(a) /\ colon + 1 \in Nat \ {0} /\ colon + 1 <= Len(a) + 1
        /\ \A k \in 1 .. colon - 1 : k \in 1 .. Len(a)
    BY <1>0, <1>1, <1>7
  <2> DEFINE t == To(a, colon - 1)
             u == From(a, colon + 1)
  <2>2. t \in Text /\ u \in Text /\ Range(t) = {a[k] : k \in 1 .. colon - 1}
    BY <2>1, ToIs, FromIs
  <2>3. hp = <<t, u>>
    BY <1>2, <1>7
  <2> HIDE DEF t, u
  <2>4. hp[1] = t /\ hp[2] = u
    BY <2>3
  <2> QED BY <1>0, <2>1, <2>2, <2>4 DEF hp
<1> QED BY <1>4, <1>5, <1>6, <1>7

\* A URL that parses is one.
LEMMA ParsedIs ==
    ASSUME NEW text \in Text, parseUrl(text) # Bad
    PROVE  UrlOK(parseUrl(text))
<1> DEFINE sep == SchemeEnd(text)
           after == From(text, sep + 3)
           end == Find(after, {"/", "?", "#"})
           whole == IF end = 0 THEN after ELSE To(after, end - 1)
           at == RFind(whole, {"@"})
           authority == From(whole, at + 1)
           hp == HostPort(authority)
           rest == IF end = 0 THEN <<"/">> ELSE From(after, end)
           target == IF rest[1] = "/" THEN rest ELSE <<"/">> \o rest
           fragment == Find(target, {"#"})
           port == IF hp[2] = << >> THEN DefaultPort(text[1]) ELSE hp[2]
           path == IF fragment = 0 THEN target ELSE To(target, fragment - 1)
           u == [scheme |-> text[1], host |-> hp[1], port |-> port, target |-> path]
           slash == <<"/">>
<1>1. /\ sep = 2 /\ text[1] \in {"http", "https"} /\ authority # << >>
      /\ hp[1] # << >> /\ Range(port) \subseteq DOMAIN Numerals
      /\ parseUrl(text) = u
  BY DEF parseUrl
<1>2. Len(text) \in Nat /\ Len(text) >= 4
  BY <1>1, SchemeIs, EmptyText
<1>3. after \in Text
  <2>1. sep + 3 \in Nat \ {0} /\ sep + 3 <= Len(text) + 1
    <3> HIDE DEF sep
    <3> QED BY <1>1, <1>2
  <2> HIDE DEF sep
  <2> QED BY <2>1, FromIs
<1> HIDE DEF after
<1>4. /\ end \in 0 .. Len(after) /\ Len(after) \in Nat
      /\ end = 0 => \A k \in 1 .. Len(after) : after[k] \notin {"/", "?", "#"}
      /\ end # 0 => \A k \in 1 .. end - 1 : after[k] \notin {"/", "?", "#"}
  BY <1>3, FindIs, EmptyText
<1> HIDE DEF end
<1>5. whole \in Text /\ Range(whole) \cap {"/", "?", "#"} = {}
  <2>1. CASE end = 0
    <3>1. Range(after) = {after[k] : k \in 1 .. Len(after)}
      BY <1>3, RangeIs
    <3> QED BY <1>3, <1>4, <2>1, <3>1
  <2>2. CASE end # 0
    <3>1. end - 1 \in 0 .. Len(after)
      BY <1>4, <2>2
    <3>2. To(after, end - 1) \in Text /\ Range(To(after, end - 1)) = {after[k] : k \in 1 .. end - 1}
      BY <1>3, <3>1, ToIs
    <3> QED BY <1>4, <2>2, <3>2
  <2> QED BY <2>1, <2>2
<1> HIDE DEF whole
<1>6. authority \in Text /\ Range(authority) \cap {"/", "?", "#", "@"} = {}
  <2>1. /\ at \in 0 .. Len(whole) /\ Len(whole) \in Nat
        /\ at = 0 => \A k \in 1 .. Len(whole) : whole[k] \notin {"@"}
        /\ at # 0 => \A k \in at + 1 .. Len(whole) : whole[k] \notin {"@"}
    BY <1>5, RFindIs, EmptyText
  <2> HIDE DEF at
  <2>2. at + 1 \in Nat \ {0} /\ at + 1 <= Len(whole) + 1
    BY <2>1
  <2>3. authority \in Text /\ Range(authority) = {whole[k] : k \in at + 1 .. Len(whole)}
    BY <1>5, <2>2, FromIs
  <2>4. \A k \in at + 1 .. Len(whole) : whole[k] # "@" /\ k \in 1 .. Len(whole)
    BY <2>1
  <2>5. Range(whole) = {whole[k] : k \in 1 .. Len(whole)}
    BY <1>5, RangeIs
  <2> HIDE DEF authority
  <2>6. \A x \in Range(authority) : x # "@" /\ x \in Range(whole)
    BY <2>3, <2>4, <2>5
  <2> QED BY <1>5, <2>3, <2>6
<1> HIDE DEF authority
<1>7. hp[1] \in Text /\ hp[2] \in Text /\ Range(hp[1]) \subseteq Range(authority)
  BY <1>1, <1>6, HostPortIs
<1> HIDE DEF hp
<1>8. text[1] \in Tokens /\ slash \in Text /\ Len(slash) = 1 /\ slash[1] = "/" /\ slash # << >>
  <2>1. text[1] \in Tokens /\ "/" \in Tokens
    BY <1>1, WireAssumption
  <2> QED BY <2>1 DEF Text
<1>9. port \in Text /\ port # << >>
  <2>1. <<"443">> \in Seq(Tokens) /\ <<"80">> \in Seq(Tokens)
    <3>1. "443" \in Tokens /\ "80" \in Tokens
      BY WireAssumption
    <3> QED BY <3>1
  <2>2. DefaultPort(text[1]) \in Text /\ DefaultPort(text[1]) # << >>
    BY <2>1 DEF DefaultPort, Text
  <2> QED BY <1>7, <2>2
<1> HIDE DEF port
<1>10. rest \in Text /\ rest # << >>
  <2>1. CASE end = 0
    BY <1>8, <2>1
  <2>2. CASE end # 0
    <3>1. end \in Nat \ {0} /\ end <= Len(after) + 1 /\ Len(after) - end + 1 # 0
      BY <1>4, <2>2
    <3>2. From(after, end) \in Text /\ Len(From(after, end)) = Len(after) - end + 1
      BY <1>3, <3>1, FromIs
    <3> QED BY <2>2, <3>1, <3>2, EmptyText
  <2> QED BY <2>1, <2>2
<1> HIDE DEF rest
<1>11. target \in Text /\ Len(target) \in Nat \ {0} /\ target[1] = "/"
  <2>1. CASE rest[1] = "/"
    BY <1>10, <2>1, EmptyText
  <2>2. CASE rest[1] # "/"
    <3> HIDE DEF slash
    <3>1. /\ slash \o rest \in Text /\ Len(rest) \in Nat
          /\ Len(slash \o rest) = Len(slash) + Len(rest)
          /\ \A k \in 1 .. Len(slash) : (slash \o rest)[k] = slash[k]
      BY <1>8, <1>10, JoinIs
    <3>2. Len(slash \o rest) \in Nat \ {0} /\ (slash \o rest)[1] = "/"
      BY <1>8, <3>1
    <3> QED BY <2>2, <3>1, <3>2 DEF slash
  <2> QED BY <2>1, <2>2
<1> HIDE DEF target
<1>12. path \in Text /\ path # << >> /\ path[1] = "/" /\ "#" \notin Range(path)
  <2>1. /\ fragment \in 0 .. Len(target)
        /\ fragment = 0 => \A k \in 1 .. Len(target) : target[k] \notin {"#"}
        /\ fragment # 0 => target[fragment] \in {"#"} /\ \A k \in 1 .. fragment - 1 : target[k] \notin {"#"}
    BY <1>11, FindIs
  <2> HIDE DEF fragment
  <2>2. CASE fragment = 0
    <3>1. Range(target) = {target[k] : k \in 1 .. Len(target)}
      BY <1>11, RangeIs
    <3> QED BY <1>11, <2>1, <2>2, <3>1, EmptyText
  <2>3. CASE fragment # 0
    <3>1. fragment # 1
      BY <1>11, <2>1, <2>3
    <3>2. fragment - 1 \in 0 .. Len(target) /\ fragment - 1 # 0 /\ 1 \in 1 .. fragment - 1
      BY <1>11, <2>1, <2>3, <3>1
    <3> DEFINE t == To(target, fragment - 1)
    <3>3. /\ t \in Text /\ Len(t) = fragment - 1
          /\ \A k \in 1 .. fragment - 1 : t[k] = target[k]
          /\ Range(t) = {target[k] : k \in 1 .. fragment - 1}
      BY <1>11, <3>2, ToIs
    <3>4. path = t
      BY <2>3
    <3> HIDE DEF t, path
    <3>5. t # << >> /\ t[1] = "/"
      BY <1>11, <3>2, <3>3, EmptyText
    <3>6. "#" \notin Range(t)
      BY <2>1, <2>3, <3>3
    <3> QED BY <3>3, <3>4, <3>5, <3>6
  <2> QED BY <2>2, <2>3
<1> HIDE DEF path
<1>13. u \in Urls
  BY <1>7, <1>8, <1>9, <1>12 DEF Urls
<1>14. u.scheme = text[1] /\ u.host = hp[1] /\ u.port = port /\ u.target = path
  OBVIOUS
<1> HIDE DEF u
<1>15. UrlOK(u)
  BY <1>1, <1>6, <1>7, <1>9, <1>12, <1>13, <1>14 DEF UrlOK
<1> QED BY <1>1, <1>15

-------------------------------------------------------------------------------
(* Printing a URL and parsing it again *)

\* The first and the last of the tokens searched for.
LEMMA FoundAt ==
    ASSUME NEW text \in Text, NEW tokens, NEW j \in 1 .. Len(text), text[j] \in tokens
    PROVE  /\ (\A i \in 1 .. j - 1 : text[i] \notin tokens) => Find(text, tokens) = j
           /\ (\A i \in j + 1 .. Len(text) : text[i] \notin tokens) => RFind(text, tokens) = j
<1> DEFINE f == Find(text, tokens)
           r == RFind(text, tokens)
<1>0. Len(text) \in Nat
  BY EmptyText
<1>1. /\ f \in 0 .. Len(text)
      /\ f = 0 => \A i \in 1 .. Len(text) : text[i] \notin tokens
      /\ f # 0 => text[f] \in tokens /\ \A i \in 1 .. f - 1 : text[i] \notin tokens
  BY FindIs
<1>2. /\ r \in 0 .. Len(text)
      /\ r = 0 => \A i \in 1 .. Len(text) : text[i] \notin tokens
      /\ r # 0 => text[r] \in tokens /\ \A i \in r + 1 .. Len(text) : text[i] \notin tokens
  BY RFindIs
<1> HIDE DEF f, r
<1>3. ASSUME \A i \in 1 .. j - 1 : text[i] \notin tokens PROVE f = j
  <2>1. f # 0 /\ ~ (j \in 1 .. f - 1) /\ ~ (f \in 1 .. j - 1)
    BY <1>1, <1>3
  <2> QED BY <1>0, <1>1, <2>1
<1>4. ASSUME \A i \in j + 1 .. Len(text) : text[i] \notin tokens PROVE r = j
  <2>1. r # 0 /\ ~ (j \in r + 1 .. Len(text)) /\ ~ (r \in j + 1 .. Len(text))
    BY <1>2, <1>4
  <2> QED BY <1>0, <1>2, <2>1
<1> QED BY <1>3, <1>4 DEF f, r

\* A token that is not there is not found.
LEMMA NotFound ==
    ASSUME NEW text \in Text, NEW tokens, Range(text) \cap tokens = {}
    PROVE  Find(text, tokens) = 0 /\ RFind(text, tokens) = 0
<1>1. Range(text) = {text[i] : i \in 1 .. Len(text)}
  BY RangeIs
<1>2. \A i \in 1 .. Len(text) : text[i] \notin tokens
  BY <1>1
<1>3. Find(text, tokens) # 0 => Find(text, tokens) \in 1 .. Len(text) /\ text[Find(text, tokens)] \in tokens
  <2>1. Find(text, tokens) \in 0 .. Len(text) /\ (Find(text, tokens) # 0 => text[Find(text, tokens)] \in tokens)
    BY FindIs
  <2> QED BY <2>1, EmptyText
<1>4. RFind(text, tokens) # 0 => RFind(text, tokens) \in 1 .. Len(text) /\ text[RFind(text, tokens)] \in tokens
  <2>1. RFind(text, tokens) \in 0 .. Len(text) /\ (RFind(text, tokens) # 0 => text[RFind(text, tokens)] \in tokens)
    BY RFindIs
  <2> QED BY <2>1, EmptyText
<1> QED BY <1>2, <1>3, <1>4

\* Cutting two texts apart again.
LEMMA JoinCut ==
    ASSUME NEW s \in Text, NEW t \in Text
    PROVE  To(s \o t, Len(s)) = s /\ From(s \o t, Len(s) + 1) = t
<1> DEFINE u == s \o t
           a == To(u, Len(s))
           c == From(u, Len(s) + 1)
<1>1. /\ u \in Text /\ Len(s) \in Nat /\ Len(t) \in Nat
      /\ Len(u) = Len(s) + Len(t)
      /\ \A k \in 1 .. Len(s) : u[k] = s[k]
      /\ \A k \in 1 .. Len(t) : u[Len(s) + k] = t[k]
  BY JoinIs
<1> HIDE DEF u
<1>2. a \in Text /\ Len(a) = Len(s) /\ \A k \in 1 .. Len(s) : a[k] = u[k]
  <2>1. Len(s) \in 0 .. Len(u)
    BY <1>1
  <2> QED BY <1>1, <2>1, ToIs
<1>3. c \in Text /\ Len(c) = Len(t) /\ \A k \in 1 .. Len(t) : c[k] = u[Len(s) + k]
  <2> DEFINE i == Len(s) + 1
  <2>1. /\ i \in Nat \ {0} /\ i <= Len(u) + 1 /\ Len(u) - i + 1 = Len(t)
        /\ \A k \in 1 .. Len(t) : i + k - 1 = Len(s) + k
    BY <1>1
  <2>2. i = Len(s) + 1
    OBVIOUS
  <2> HIDE DEF i
  <2>3. /\ From(u, i) \in Text /\ Len(From(u, i)) = Len(u) - i + 1
        /\ \A k \in 1 .. Len(u) - i + 1 : From(u, i)[k] = u[i + k - 1]
    BY <1>1, <2>1, FromIs
  <2> QED BY <2>1, <2>2, <2>3
<1> HIDE DEF a, c
<1>4. a = s
  <2>1. \A k \in 1 .. Len(a) : a[k] = s[k]
    BY <1>1, <1>2
  <2> QED BY <1>2, <2>1, SameText
<1>5. c = t
  <2>1. \A k \in 1 .. Len(c) : c[k] = t[k]
    BY <1>1, <1>3
  <2> QED BY <1>3, <2>1, SameText
<1> QED BY <1>4, <1>5 DEF a, c, u

\* All of a text.
LEMMA FromOne == \A t \in Text : From(t, 1) = t
<1> SUFFICES ASSUME NEW t \in Text PROVE From(t, 1) = t
  OBVIOUS
<1>1. << >> \in Text /\ Len(<< >>) = 0 /\ << >> \o t = t
  BY EmptyText, JoinEmpty
<1>2. From(<< >> \o t, Len(<< >>) + 1) = t
  BY <1>1, JoinCut
<1> QED BY <1>1, <1>2

\* A text of one token.
LEMMA OneToken ==
    ASSUME NEW x \in Tokens
    PROVE  <<x>> \in Text /\ Len(<<x>>) = 1 /\ <<x>>[1] = x /\ Range(<<x>>) = {x}
<1>1. <<x>> \in Text /\ Len(<<x>>) = 1 /\ <<x>>[1] = x
  BY DEF Text
<1> DEFINE t == <<x>>
<1>2. Range(t) = {t[i] : i \in 1 .. Len(t)}
  BY <1>1, RangeIs
<1> HIDE DEF t
<1>3. t \in Text /\ Len(t) = 1 /\ t[1] = x
  BY <1>1 DEF t
<1>4. Range(t) = {x}
  BY <1>2, <1>3
<1> QED BY <1>1, <1>4 DEF t

\* A host that comes back from its own text: a bracket at the front or behind a
\* colon would be read as one of toString()'s.
Printable(host) == IF ":" \in Range(host) THEN "]" \notin Range(host) ELSE host[1] # "["

\* A URL but for its fragment, which toString() would print with it.
SiteOK(u) ==
    /\ u \in Urls /\ u.scheme \in {"http", "https"}
    /\ u.host # << >> /\ Range(u.host) \cap {"/", "?", "#", "@"} = {}
    /\ u.port # << >> /\ Range(u.port) \subseteq DOMAIN Numerals
    /\ u.target # << >> /\ u.target[1] = "/"

Bare(u) == IF ":" \in Range(u.host) THEN <<"[">> \o u.host \o <<"]">> ELSE u.host
PortPart(u) == IF u.port = DefaultPort(u.scheme) THEN << >> ELSE <<":">> \o u.port

\* The host header is the host, in brackets or not, and the port behind a colon
\* or not; no token in it would end it.
LEMMA HostHeaderIs ==
    ASSUME NEW u, SiteOK(u)
    PROVE  /\ Bare(u) \in Text /\ Bare(u) # << >> /\ PortPart(u) \in Text
           /\ hostHeader(u) = Bare(u) \o PortPart(u)
           /\ hostHeader(u) \in Text /\ hostHeader(u) # << >>
           /\ Range(hostHeader(u)) \cap {"/", "?", "#", "@"} = {}
<1> DEFINE h == u.host
           p == u.port
           o == <<"[">>
           c == <<"]">>
           d == <<":">>
           b == Bare(u)
<1>1. h \in Text /\ p \in Text /\ h # << >> /\ << >> \in Text
  BY EmptyText DEF SiteOK, Urls
<1>2. /\ o \in Text /\ c \in Text /\ d \in Text /\ Len(o) = 1
      /\ Range(o) = {"["} /\ Range(c) = {"]"} /\ Range(d) = {":"}
  <2>1. "[" \in Tokens /\ "]" \in Tokens /\ ":" \in Tokens
    BY WireAssumption
  <2> QED BY <2>1, OneToken
<1> HIDE DEF o, c, d, h, p
<1>3. /\ o \o h \in Text /\ (o \o h) \o c \in Text /\ Range((o \o h) \o c) = {"[", "]"} \cup Range(h)
      /\ (o \o h) \o c # << >>
  <2>1. o \o h \in Text /\ Len(o \o h) = 1 + Len(h) /\ Range(o \o h) = {"["} \cup Range(h) /\ Len(h) \in Nat
    <3>1. o \o h \in Text /\ Len(o \o h) = Len(o) + Len(h) /\ Len(h) \in Nat
      BY <1>1, <1>2, JoinIs
    <3>2. Range(o \o h) = Range(o) \cup Range(h)
      BY <1>1, <1>2, JoinRange
    <3> QED BY <1>2, <3>1, <3>2
  <2>2. (o \o h) \o c \in Text /\ Len((o \o h) \o c) = Len(o \o h) + Len(c) /\ Len(c) \in Nat
    BY <1>2, <2>1, JoinIs
  <2>3. Range((o \o h) \o c) = Range(o \o h) \cup Range(c)
    BY <1>2, <2>1, JoinRange
  <2>4. Len((o \o h) \o c) # 0
    BY <2>1, <2>2
  <2> QED BY <1>2, <2>1, <2>2, <2>3, <2>4, EmptyText
<1>4. b = IF ":" \in Range(h) THEN (o \o h) \o c ELSE h
  BY DEF Bare, h, o, c
<1>5. b \in Text /\ b # << >> /\ Range(b) \subseteq {"[", "]"} \cup Range(h)
  <2> HIDE DEF b
  <2> QED BY <1>1, <1>3, <1>4
<1>6. d \o p \in Text /\ Range(d \o p) = {":"} \cup Range(p)
  BY <1>1, <1>2, JoinIs, JoinRange
<1>e. Range(<< >>) = {}
  BY DEF Range
<1>7. PortPart(u) \in Text /\ Range(PortPart(u)) \subseteq {":"} \cup Range(p)
  <2>1. PortPart(u) = << >> \/ PortPart(u) = d \o p
    BY DEF PortPart, d, p
  <2> QED BY <1>1, <1>6, <1>e, <2>1
<1>8. hostHeader(u) = b \o PortPart(u)
  <2>1. hostHeader(u) = IF u.port = DefaultPort(u.scheme) THEN b ELSE (b \o d) \o p
    BY DEF hostHeader, Bare, d, p
  <2>2. PortPart(u) = IF u.port = DefaultPort(u.scheme) THEN << >> ELSE d \o p
    BY DEF PortPart, d, p
  <2> HIDE DEF b
  <2>3. b \o << >> = b /\ (b \o d) \o p = b \o (d \o p)
    BY <1>1, <1>2, <1>5, JoinEmpty, JoinJoin
  <2> QED BY <2>1, <2>2, <2>3
<1> HIDE DEF b
<1> DEFINE x == PortPart(u)
<1> HIDE DEF x
<1>9. /\ b \o x \in Text /\ Len(b \o x) = Len(b) + Len(x) /\ Len(b) \in Nat \ {0} /\ Len(x) \in Nat
      /\ Range(b \o x) = Range(b) \cup Range(x)
  <2>1. x \in Text
    BY <1>7 DEF x
  <2> QED BY <1>5, <2>1, JoinIs, JoinRange, EmptyText
<1>10. b \o x # << >>
  BY <1>9, EmptyText
<1>11. Range(b \o x) \cap {"/", "?", "#", "@"} = {}
  <2>1. Range(h) \cap {"/", "?", "#", "@"} = {} /\ Range(p) \subseteq DOMAIN Numerals
    BY DEF SiteOK, h, p
  <2>2. DOMAIN Numerals \cap {"/", "?", "#", "@"} = {}
    BY DEF Numerals
  <2>3. Range(b \o x) \subseteq {"[", "]", ":"} \cup Range(h) \cup DOMAIN Numerals
    BY <1>5, <1>7, <1>9, <2>1 DEF x
  <2>4. {"[", "]", ":"} \cap {"/", "?", "#", "@"} = {}
    OBVIOUS
  <2> QED BY <2>1, <2>2, <2>3, <2>4
<1> QED BY <1>5, <1>7, <1>8, <1>9, <1>10, <1>11 DEF b, x

\* The port part says where the port is, and has no other colon.
LEMMA PortPartIs ==
    ASSUME NEW u, SiteOK(u)
    PROVE  /\ PortPart(u) \in Text
           /\ PortPart(u) = << >> <=> u.port = DefaultPort(u.scheme)
           /\ PortPart(u) # << >> =>
                 /\ PortPart(u)[1] = ":" /\ From(PortPart(u), 2) = u.port
                 /\ \A k \in 2 .. Len(PortPart(u)) : PortPart(u)[k] # ":"
<1> DEFINE p == u.port
           d == <<":">>
           x == PortPart(u)
<1>1. p \in Text /\ << >> \in Text /\ Range(p) \subseteq DOMAIN Numerals
  BY EmptyText DEF SiteOK, Urls
<1>2. d \in Text /\ Len(d) = 1 /\ d[1] = ":"
  <2>1. ":" \in Tokens
    BY WireAssumption
  <2> QED BY <2>1, OneToken
<1>3. x = IF p = DefaultPort(u.scheme) THEN << >> ELSE d \o p
  BY DEF PortPart
<1> HIDE DEF p, d, x
<1>4. /\ d \o p \in Text /\ Len(d \o p) = 1 + Len(p) /\ Len(p) \in Nat
      /\ (d \o p)[1] = ":" /\ \A k \in 1 .. Len(p) : (d \o p)[1 + k] = p[k]
  <2>1. /\ d \o p \in Text /\ Len(d \o p) = Len(d) + Len(p) /\ Len(p) \in Nat
        /\ \A k \in 1 .. Len(d) : (d \o p)[k] = d[k]
        /\ \A k \in 1 .. Len(p) : (d \o p)[Len(d) + k] = p[k]
    BY <1>1, <1>2, JoinIs
  <2> QED BY <1>2, <2>1
<1>5. From(d \o p, 2) = p
  <2>1. From(d \o p, Len(d) + 1) = p
    BY <1>1, <1>2, JoinCut
  <2> QED BY <1>2, <2>1
<1>6. d \o p # << >>
  BY <1>4, EmptyText
<1>7. ASSUME NEW k \in 2 .. Len(d \o p) PROVE (d \o p)[k] # ":"
  <2>1. k - 1 \in 1 .. Len(p) /\ 1 + (k - 1) = k
    BY <1>4
  <2>2. (d \o p)[k] = p[k - 1]
    BY <1>4, <2>1
  <2>3. p[k - 1] \in Range(p)
    BY <1>1, <2>1, RangeIs
  <2>4. ":" \notin DOMAIN Numerals
    BY DEF Numerals
  <2> QED BY <1>1, <2>2, <2>3, <2>4
<1>8. CASE p = DefaultPort(u.scheme)
  <2>1. x = << >>
    BY <1>3, <1>8
  <2> QED BY <1>1, <1>8, <2>1 DEF x, p
<1>9. CASE p # DefaultPort(u.scheme)
  <2>1. x = d \o p
    BY <1>3, <1>9
  <2> QED BY <1>4, <1>5, <1>6, <1>7, <1>9, <2>1 DEF x, p
<1> QED BY <1>8, <1>9

\* A host with a colon stands in brackets in its host header.
LEMMA Bracketed ==
    ASSUME NEW u, SiteOK(u), ":" \in Range(u.host)
    PROVE  LET h == u.host
               a == hostHeader(u)
           IN /\ 2 + Len(h) \in 1 .. Len(a) /\ a[1] = "[" /\ a[2 + Len(h)] = "]"
              /\ \A k \in 1 .. Len(h) : a[1 + k] = h[k]
              /\ Len(Bare(u)) = 2 + Len(h)
<1> DEFINE h == u.host
           x == PortPart(u)
           b == Bare(u)
           a == hostHeader(u)
<1>a. h \in Text /\ Len(h) \in Nat \ {0}
  BY EmptyText DEF SiteOK, Urls
<1>b. b \in Text /\ x \in Text /\ a = b \o x /\ a \in Text
  BY HostHeaderIs
<1> HIDE DEF h, x, a
<1>e. /\ Len(a) = Len(b) + Len(x) /\ Len(b) \in Nat /\ Len(x) \in Nat
      /\ \A k \in 1 .. Len(b) : a[k] = b[k]
  BY <1>b, JoinIs
<1> DEFINE o == <<"[">>
           c == <<"]">>
<1>1. /\ o \in Text /\ c \in Text /\ Len(o) = 1 /\ Len(c) = 1 /\ o[1] = "[" /\ c[1] = "]"
  <2>1. "[" \in Tokens /\ "]" \in Tokens
    BY WireAssumption
  <2> QED BY <2>1, OneToken
<1>2. b = (o \o h) \o c
  BY DEF Bare, h
<1> HIDE DEF o, c, b
<1>3. /\ o \o h \in Text /\ Len(o \o h) = 1 + Len(h)
      /\ (o \o h)[1] = "[" /\ \A k \in 1 .. Len(h) : (o \o h)[1 + k] = h[k]
  <2>1. /\ o \o h \in Text /\ Len(o \o h) = Len(o) + Len(h)
        /\ \A k \in 1 .. Len(o) : (o \o h)[k] = o[k]
        /\ \A k \in 1 .. Len(h) : (o \o h)[Len(o) + k] = h[k]
    BY <1>a, <1>1, JoinIs
  <2> QED BY <1>1, <2>1
<1>4. /\ Len(b) = 2 + Len(h) /\ b[1] = "[" /\ b[2 + Len(h)] = "]"
      /\ \A k \in 1 .. Len(h) : b[1 + k] = h[k]
  <2>1. /\ Len(b) = Len(o \o h) + Len(c)
        /\ \A k \in 1 .. Len(o \o h) : b[k] = (o \o h)[k]
        /\ \A k \in 1 .. Len(c) : b[Len(o \o h) + k] = c[k]
    BY <1>1, <1>2, <1>3, JoinIs
  <2>2. Len(b) = 2 + Len(h) /\ 1 \in 1 .. Len(o \o h) /\ Len(o \o h) + 1 = 2 + Len(h)
        /\ \A k \in 1 .. Len(h) : 1 + k \in 1 .. Len(o \o h)
    BY <1>a, <1>1, <1>3, <2>1
  <2>3. b[Len(o \o h) + 1] = c[1]
    BY <1>1, <2>1
  <2> QED BY <1>1, <1>3, <2>1, <2>2, <2>3
<1> DEFINE n == 2 + Len(h)
<1>5. /\ n \in 1 .. Len(a) /\ a[1] = "[" /\ a[n] = "]"
      /\ \A k \in 1 .. Len(h) : a[1 + k] = h[k]
  <2>1. n \in 1 .. Len(a) /\ n \in 1 .. Len(b) /\ 1 \in 1 .. Len(b)
        /\ \A k \in 1 .. Len(h) : 1 + k \in 1 .. Len(b)
    BY <1>a, <1>e, <1>4
  <2> QED BY <1>e, <1>4, <2>1
<1> QED BY <1>4, <1>5 DEF a, h, b

\* The host and the port come back from a host header.
LEMMA HostBack ==
    ASSUME NEW u, SiteOK(u), Printable(u.host)
    PROVE  /\ HostPort(hostHeader(u))[1] = u.host
           /\ HostPort(hostHeader(u))[2] = IF u.port = DefaultPort(u.scheme) THEN << >> ELSE u.port
<1> DEFINE h == u.host
           x == PortPart(u)
           b == Bare(u)
           a == hostHeader(u)
           port == IF u.port = DefaultPort(u.scheme) THEN << >> ELSE u.port
           close == Find(a, {"]"})
           rest == From(a, close + 1)
           colon == RFind(a, {":"})
           late == IF rest # << >> /\ rest[1] = ":" THEN From(rest, 2) ELSE << >>
<1>1. h \in Text /\ u.port \in Text /\ Len(h) \in Nat \ {0} /\ Range(h) = {h[k] : k \in 1 .. Len(h)}
  BY EmptyText, RangeIs DEF SiteOK, Urls
<1>2. /\ b \in Text /\ x \in Text /\ a = b \o x /\ a \in Text
  BY HostHeaderIs
<1>3. /\ x = << >> <=> u.port = DefaultPort(u.scheme)
      /\ x # << >> => /\ x[1] = ":" /\ From(x, 2) = u.port
                      /\ \A k \in 2 .. Len(x) : x[k] # ":"
  BY PortPartIs
<1>4. HostPort(a) = IF a[1] = "["
                    THEN IF close = 0 THEN << << >>, << >> >> ELSE <<SubSeq(a, 2, close - 1), late>>
                    ELSE IF colon = 0 THEN <<a, << >> >> ELSE <<To(a, colon - 1), From(a, colon + 1)>>
  BY DEF HostPort
<1> HIDE DEF h, x, a
<1>5. /\ Len(a) = Len(b) + Len(x) /\ Len(b) \in Nat /\ Len(x) \in Nat
      /\ \A k \in 1 .. Len(b) : a[k] = b[k]
      /\ \A k \in 1 .. Len(x) : a[Len(b) + k] = x[k]
  BY <1>2, JoinIs
<1>6. /\ ":" \in Range(h) => "]" \notin Range(h)
      /\ ":" \notin Range(h) => h[1] # "["
  BY DEF Printable, h
<1>7. CASE ":" \in Range(h)
  <2> DEFINE n == 2 + Len(h)
  <2>5. /\ n \in 1 .. Len(a) /\ a[1] = "[" /\ a[n] = "]"
        /\ \A k \in 1 .. Len(h) : a[1 + k] = h[k]
        /\ Len(b) = n
    BY <1>7, Bracketed DEF a, h
  <2> HIDE DEF b
  <2>6. close = n
    <3>1. ASSUME NEW i \in 1 .. n - 1 PROVE a[i] \notin {"]"}
      <4>1. i = 1 \/ (i - 1 \in 1 .. Len(h) /\ 1 + (i - 1) = i)
        BY <1>1
      <4>2. CASE i = 1
        BY <2>5, <4>2
      <4>3. CASE i - 1 \in 1 .. Len(h) /\ 1 + (i - 1) = i
        <5>1. a[i] = h[i - 1]
          BY <2>5, <4>3
        <5> QED BY <1>1, <1>6, <1>7, <4>3, <5>1
      <4> QED BY <4>1, <4>2, <4>3
    <3>2. a[n] \in {"]"}
      BY <2>5
    <3> HIDE DEF n
    <3> QED BY <1>2, <2>5, <3>1, <3>2, FoundAt
  <2>7. rest = x
    <3>1. From(b \o x, Len(b) + 1) = x
      BY <1>2, JoinCut
    <3>2. close + 1 = Len(b) + 1
      BY <2>5, <2>6
    <3> QED BY <1>2, <3>1, <3>2
  <2> HIDE DEF rest, close
  <2>8. late = port
    BY <1>3, <2>7
  <2>9. SubSeq(a, 2, n - 1) = h
    <3> DEFINE i == 2
               j == n - 1
               t == SubSeq(a, i, j)
    <3>1. /\ i \in Nat \ {0} /\ j \in 0 .. Len(a) /\ i <= j + 1 /\ j - i + 1 = Len(h)
          /\ \A k \in 1 .. Len(h) : i + k - 1 = 1 + k
      BY <1>1, <1>5, <2>5
    <3> HIDE DEF i, j
    <3>2. t \in Text /\ Len(t) = j - i + 1 /\ \A k \in 1 .. j - i + 1 : t[k] = a[i + k - 1]
      BY <1>2, <3>1, PieceIs
    <3> HIDE DEF t
    <3>3. \A k \in 1 .. Len(t) : t[k] = h[k]
      BY <2>5, <3>1, <3>2
    <3>4. t = h
      BY <1>1, <3>1, <3>2, <3>3, SameText
    <3> QED BY <3>4 DEF t, i, j
  <2> HIDE DEF late, port, n
  <2>10. n # 0
    BY <1>1 DEF n
  <2>11. HostPort(a) = <<h, port>>
    BY <1>4, <2>5, <2>6, <2>8, <2>9, <2>10
  <2> QED BY <2>11 DEF a, h, port
<1>8. CASE ":" \notin Range(h)
  <2>1. b = h
    BY <1>8 DEF Bare, h
  <2>2. a[1] # "["
    <3>1. 1 \in 1 .. Len(b)
      BY <1>1, <2>1
    <3> QED BY <1>5, <1>6, <1>8, <2>1, <3>1
  <2> HIDE DEF b
  <2>3. CASE x = << >>
    <3>1. a = h
      BY <1>1, <1>2, <2>1, <2>3, JoinEmpty
    <3>2. Range(a) \cap {":"} = {}
      BY <1>8, <3>1
    <3>3. colon = 0
      BY <1>2, <3>2, NotFound
    <3> HIDE DEF colon, late
    <3>4. HostPort(a) = <<h, << >> >>
      BY <1>4, <2>2, <3>1, <3>3
    <3>5. port = << >>
      BY <1>3, <2>3
    <3> QED BY <3>4, <3>5 DEF a, h
  <2>4. CASE x # << >>
    <3> DEFINE n == Len(h) + 1
    <3>1. Len(x) \in Nat \ {0}
      BY <1>2, <2>4, EmptyText
    <3>2. n \in 1 .. Len(a) /\ a[n] = ":" /\ \A i \in n + 1 .. Len(a) : a[i] # ":"
      <4>1. n \in 1 .. Len(a) /\ 1 \in 1 .. Len(x)
        BY <1>1, <1>5, <2>1, <3>1
      <4>2. a[n] = ":"
        BY <1>3, <1>5, <2>1, <2>4, <4>1
      <4>3. ASSUME NEW i \in n + 1 .. Len(a) PROVE a[i] # ":"
        <5>1. /\ i - Len(h) \in 2 .. Len(x) /\ i - Len(h) \in 1 .. Len(x)
              /\ Len(b) + (i - Len(h)) = i
          BY <1>1, <1>5, <2>1, <3>1
        <5>2. a[i] = x[i - Len(h)]
          BY <1>5, <5>1
        <5> QED BY <1>3, <2>4, <5>1, <5>2
      <4> QED BY <4>1, <4>2, <4>3
    <3>3. colon = n
      <4> HIDE DEF n
      <4>1. a[n] \in {":"} /\ \A i \in n + 1 .. Len(a) : a[i] \notin {":"}
        BY <3>2
      <4> QED BY <1>2, <3>2, <4>1, FoundAt
    <3>4. To(a, n - 1) = h
      <4>1. n - 1 = Len(h)
        BY <1>1
      <4>2. To(h \o x, Len(h)) = h
        BY <1>1, <1>2, JoinCut
      <4> QED BY <1>2, <2>1, <4>1, <4>2
    <3>5. From(a, n + 1) = u.port
      <4> DEFINE d == <<":">>
                 p == u.port
      <4>1. d \in Text /\ Len(d) = 1
        <5>1. ":" \in Tokens
          BY WireAssumption
        <5> QED BY <5>1, OneToken
      <4>2. x = d \o p
        BY <2>4 DEF x, PortPart
      <4> HIDE DEF d, p
      <4>3. p \in Text
        BY <1>1 DEF p
      <4>4. (h \o d) \o p = h \o (d \o p) /\ h \o d \in Text /\ Len(h \o d) = Len(h) + 1
        <5>1. (h \o d) \o p = h \o (d \o p)
          BY <1>1, <4>1, <4>3, JoinJoin
        <5>2. h \o d \in Text /\ Len(h \o d) = Len(h) + Len(d)
          BY <1>1, <4>1, JoinIs
        <5> QED BY <4>1, <5>1, <5>2
      <4>5. From((h \o d) \o p, Len(h \o d) + 1) = p
        BY <4>3, <4>4, JoinCut
      <4>6. a = (h \o d) \o p
        BY <1>2, <2>1, <4>2, <4>4
      <4>7. Len(h \o d) + 1 = n + 1
        BY <4>4
      <4> QED BY <4>5, <4>6, <4>7 DEF p
    <3>6. port = u.port
      BY <1>3, <2>4
    <3>7. n # 0
      BY <1>1
    <3> HIDE DEF colon, late, n, port
    <3>8. HostPort(a) = <<h, port>>
      BY <1>4, <2>2, <3>3, <3>4, <3>5, <3>6, <3>7
    <3> QED BY <3>8 DEF a, h, port
  <2> QED BY <2>3, <2>4
<1> QED BY <1>7, <1>8

\* No other host comes back.
LEMMA HostLost ==
    ASSUME NEW u, SiteOK(u), ~ Printable(u.host)
    PROVE  HostPort(hostHeader(u))[1] # u.host
<1> DEFINE h == u.host
           x == PortPart(u)
           a == hostHeader(u)
           close == Find(a, {"]"})
           rest == From(a, close + 1)
           late == IF rest # << >> /\ rest[1] = ":" THEN From(rest, 2) ELSE << >>
           cut == SubSeq(a, 2, close - 1)
<1>1. /\ h \in Text /\ h # << >> /\ Len(h) \in Nat \ {0}
      /\ Range(h) = {h[k] : k \in 1 .. Len(h)} /\ a \in Text /\ Len(a) \in Nat
  BY EmptyText, RangeIs, HostHeaderIs DEF SiteOK, Urls
<1>2. a[1] = "[" => HostPort(a) = IF close = 0 THEN << << >>, << >> >> ELSE <<cut, late>>
  BY DEF HostPort
<1>3. ~ Printable(h) /\ SiteOK(u)
  OBVIOUS
<1>4. /\ close \in 0 .. Len(a) /\ (close # 0 => a[close] = "]")
      /\ close = 0 => \A k \in 1 .. Len(a) : a[k] # "]"
      /\ \A k \in 1 .. close - 1 : a[k] # "]"
  <2>1. /\ close \in 0 .. Len(a) /\ (close # 0 => a[close] \in {"]"})
        /\ close = 0 => \A k \in 1 .. Len(a) : a[k] \notin {"]"}
        /\ close # 0 => \A k \in 1 .. close - 1 : a[k] \notin {"]"}
    BY <1>1, FindIs
  <2> HIDE DEF close
  <2>2. close = 0 => 1 .. close - 1 = {}
    OBVIOUS
  <2> QED BY <2>1, <2>2
<1>5. ASSUME a[1] = "[", close >= 2
      PROVE  HostPort(a)[1] = cut /\ Len(cut) = close - 2 /\ \A k \in 1 .. Len(cut) : cut[k] = a[1 + k]
  <2> DEFINE i == 2
             j == close - 1
  <2>1. i \in Nat \ {0} /\ j \in 0 .. Len(a) /\ i <= j + 1 /\ j - i + 1 = close - 2
        /\ \A k \in 1 .. j - i + 1 : i + k - 1 = 1 + k
    <3> HIDE DEF close
    <3> QED BY <1>1, <1>4, <1>5
  <2>2. HostPort(a)[1] = cut
    <3>1. close # 0
      BY <1>4, <1>5
    <3> HIDE DEF close, cut, late
    <3> QED BY <1>2, <1>5, <3>1
  <2> HIDE DEF i, j
  <2>3. /\ Len(SubSeq(a, i, j)) = j - i + 1
        /\ \A k \in 1 .. j - i + 1 : SubSeq(a, i, j)[k] = a[i + k - 1]
    BY <1>1, <2>1, PieceIs
  <2>4. cut = SubSeq(a, i, j)
    BY DEF i, j
  <2> HIDE DEF cut
  <2> QED BY <2>1, <2>2, <2>3, <2>4
<1>6. ASSUME a[1] = "[", close < 2
      PROVE  HostPort(a)[1] = << >>
  <2> HIDE DEF close, a
  <2>1. close = 0
    <3>1. close = 1 => a[1] = "]"
      BY <1>4
    <3> QED BY <1>1, <1>4, <1>6, <3>1
  <2> QED BY <1>2, <1>6, <2>1
<1> HIDE DEF h, cut, late
<1>7. CASE ":" \in Range(h)
  <2>1. PICK k \in 1 .. Len(h) : h[k] = "]"
    BY <1>1, <1>3, <1>7 DEF Printable
  <2>2. a[1] = "[" /\ a[1 + k] = h[k] /\ 1 + k \in 1 .. Len(a)
    <3>1. 2 + Len(h) \in 1 .. Len(a) /\ a[1] = "[" /\ \A m \in 1 .. Len(h) : a[1 + m] = h[m]
      BY <1>7, Bracketed DEF h
    <3> QED BY <1>1, <3>1
  <2> HIDE DEF close, a
  <2>3. close # 0 /\ close <= 1 + k
    <3>1. close # 0
      BY <1>4, <2>1, <2>2
    <3>2. ~ (1 + k \in 1 .. close - 1)
      BY <1>4, <2>1, <2>2
    <3> QED BY <1>1, <1>4, <3>1, <3>2
  <2>4. CASE close >= 2
    <3>1. Len(cut) # Len(h)
      BY <1>1, <1>4, <1>5, <2>2, <2>3, <2>4
    <3> QED BY <1>5, <2>2, <2>4, <3>1 DEF a, h
  <2>5. CASE close < 2
    BY <1>1, <1>6, <2>2, <2>5 DEF a, h
  <2> QED BY <1>4, <2>4, <2>5
<1>8. CASE ":" \notin Range(h)
  <2>1. h[1] = "["
    BY <1>3, <1>8 DEF Printable
  <2>2. a = h \o x /\ x \in Text
    BY <1>8, HostHeaderIs DEF Bare, h
  <2> HIDE DEF close, a, x
  <2>3. /\ Len(a) = Len(h) + Len(x) /\ Len(x) \in Nat /\ a[1] = "["
        /\ \A k \in 1 .. Len(x) : a[Len(h) + k] = x[k]
    <3>1. /\ Len(a) = Len(h) + Len(x) /\ Len(x) \in Nat
          /\ \A k \in 1 .. Len(h) : a[k] = h[k]
          /\ \A k \in 1 .. Len(x) : a[Len(h) + k] = x[k]
      BY <1>1, <2>2, JoinIs
    <3>2. 1 \in 1 .. Len(h)
      BY <1>1
    <3> QED BY <2>1, <3>1, <3>2
  <2>4. CASE close >= 2
    <3> SUFFICES ASSUME cut = h PROVE FALSE
      BY <1>5, <2>3, <2>4 DEF a, h
    <3>1. close = Len(h) + 2 /\ 1 \in 1 .. Len(x) /\ Len(h) \in 1 .. Len(h)
      BY <1>1, <1>4, <1>5, <2>3, <2>4
    <3>2. x[1] = ":"
      <4>1. x # << >>
        BY <2>2, <3>1, EmptyText
      <4> QED BY <1>3, <4>1, PortPartIs DEF x
    <3>3. a[1 + Len(h)] = x[1]
      <4>1. 1 + Len(h) = Len(h) + 1
        BY <1>1
      <4> QED BY <2>3, <3>1, <4>1
    <3>4. h[Len(h)] = a[1 + Len(h)]
      BY <1>5, <2>3, <2>4, <3>1
    <3> QED BY <1>1, <1>8, <3>1, <3>2, <3>3, <3>4
  <2>5. CASE close < 2
    BY <1>1, <1>6, <2>3, <2>5 DEF a, h
  <2> QED BY <1>4, <2>4, <2>5
<1> QED BY <1>7, <1>8

\* A target without its fragment.
NoFragment(target) ==
    IF Find(target, {"#"}) = 0 THEN target ELSE To(target, Find(target, {"#"}) - 1)

\* The text of a URL, taken apart as parseUrl() does.
LEMMA PrintedIs ==
    ASSUME NEW u, SiteOK(u)
    PROVE  /\ toString(u) \in Text /\ toString(u)[1] = u.scheme /\ SchemeEnd(toString(u)) = 2
           /\ From(toString(u), 5) = hostHeader(u) \o u.target
<1> DEFINE a == hostHeader(u)
           t == u.target
           s == u.scheme
           f == <<s, ":", "/", "/">>
           text == toString(u)
<1>1. a \in Text /\ t \in Text
  BY HostHeaderIs DEF SiteOK, Urls
<1>2. f \in Text /\ Len(f) = 4 /\ f[1] = s /\ f[2] = ":" /\ f[3] = "/" /\ f[4] = "/"
  <2>1. s \in Tokens /\ ":" \in Tokens /\ "/" \in Tokens
    BY WireAssumption DEF SiteOK, Urls
  <2> HIDE DEF s
  <2> QED BY <2>1 DEF Text
<1>3. text = (f \o a) \o t
  BY DEF toString
<1> HIDE DEF f, a, t
<1>4. (f \o a) \o t = f \o (a \o t) /\ a \o t \in Text
  BY <1>1, <1>2, JoinIs, JoinJoin
<1> DEFINE r == a \o t
<1> HIDE DEF r
<1>5. r \in Text /\ text = f \o r
  BY <1>3, <1>4 DEF r
<1> HIDE DEF text
<1>6. /\ text \in Text /\ Len(r) \in Nat /\ Len(text) = Len(f) + Len(r)
      /\ \A k \in 1 .. Len(f) : text[k] = f[k]
  BY <1>2, <1>5, JoinIs
<1>7. Len(text) >= 4 /\ text[1] = s /\ text[2] = ":" /\ text[3] = "/" /\ text[4] = "/"
  <2>1. 1 \in 1 .. Len(f) /\ 2 \in 1 .. Len(f) /\ 3 \in 1 .. Len(f) /\ 4 \in 1 .. Len(f)
    BY <1>2
  <2>2. Len(text) >= 4
    BY <1>2, <1>6
  <2> QED BY <1>2, <1>6, <2>1, <2>2
<1>8. s # ":"
  BY DEF SiteOK
<1>9. SchemeEnd(text) = 2
  BY <1>6, <1>7, <1>8, SchemeIs
<1>10. From(text, 5) = r
  <2>1. From(f \o r, Len(f) + 1) = r
    BY <1>2, <1>5, JoinCut
  <2>2. Len(f) + 1 = 5
    BY <1>2
  <2> QED BY <1>5, <2>1, <2>2
<1> QED BY <1>6, <1>7, <1>9, <1>10 DEF text, r, a, t

\* The target begins where the host header ends.
LEMMA TargetBack ==
    ASSUME NEW u, SiteOK(u)
    PROVE  LET after == hostHeader(u) \o u.target
               end == Find(after, {"/", "?", "#"})
           IN /\ end # 0 /\ To(after, end - 1) = hostHeader(u) /\ From(after, end) = u.target
              /\ From(hostHeader(u), RFind(hostHeader(u), {"@"}) + 1) = hostHeader(u)
<1> DEFINE a == hostHeader(u)
           t == u.target
           after == a \o t
           stops == {"/", "?", "#"}
           n == Len(a) + 1
<1>1. a \in Text /\ Range(a) \cap {"/", "?", "#", "@"} = {} /\ t \in Text /\ t # << >> /\ t[1] = "/"
  BY HostHeaderIs DEF SiteOK, Urls
<1> HIDE DEF a, t
<1>2. /\ after \in Text /\ Len(a) \in Nat /\ Len(t) \in Nat \ {0} /\ Len(after) = Len(a) + Len(t)
      /\ \A k \in 1 .. Len(a) : after[k] = a[k]
      /\ \A k \in 1 .. Len(t) : after[Len(a) + k] = t[k]
  <2>1. /\ after \in Text /\ Len(a) \in Nat /\ Len(t) \in Nat /\ Len(after) = Len(a) + Len(t)
        /\ \A k \in 1 .. Len(a) : after[k] = a[k]
        /\ \A k \in 1 .. Len(t) : after[Len(a) + k] = t[k]
    BY <1>1, JoinIs
  <2>2. Len(t) # 0
    BY <1>1, EmptyText
  <2> QED BY <2>1, <2>2
<1>3. To(after, Len(a)) = a /\ From(after, n) = t
  BY <1>1, JoinCut
<1> HIDE DEF after
<1>4. n \in 1 .. Len(after) /\ after[n] \in stops
  <2>1. n \in 1 .. Len(after) /\ 1 \in 1 .. Len(t)
    BY <1>2
  <2>2. after[n] = "/"
    BY <1>1, <1>2, <2>1
  <2> QED BY <2>1, <2>2
<1>5. ASSUME NEW i \in 1 .. n - 1 PROVE after[i] \notin stops
  <2>1. i \in 1 .. Len(a)
    BY <1>2
  <2>2. a[i] \in Range(a)
    BY <1>1, <2>1, RangeIs
  <2>3. after[i] = a[i]
    BY <1>2, <2>1
  <2> QED BY <1>1, <2>2, <2>3
<1>6. Find(after, stops) = n
  <2> HIDE DEF n, stops
  <2> QED BY <1>2, <1>4, <1>5, FoundAt
<1>7. n # 0 /\ n - 1 = Len(a)
  BY <1>2
<1>8. From(a, RFind(a, {"@"}) + 1) = a
  <2>1. Range(a) \cap {"@"} = {}
    BY <1>1
  <2>2. RFind(a, {"@"}) = 0
    BY <1>1, <2>1, NotFound
  <2>3. From(a, 1) = a
    BY <1>1, FromOne
  <2> QED BY <2>2, <2>3
<1> HIDE DEF n
<1>9. Find(after, stops) # 0 /\ To(after, Find(after, stops) - 1) = a /\ From(after, Find(after, stops)) = t
  BY <1>3, <1>6, <1>7
<1> QED BY <1>8, <1>9 DEF after, a, t

\* A printed URL parses back to itself, without its fragment, when its host does.
LEMMA Reparse ==
    ASSUME NEW u, SiteOK(u), Printable(u.host)
    PROVE  parseUrl(toString(u)) = [u EXCEPT !.target = NoFragment(u.target)]
<1> DEFINE text == toString(u)
           after == From(text, SchemeEnd(text) + 3)
           a == hostHeader(u)
           t == u.target
           end == Find(after, {"/", "?", "#"})
           whole == IF end = 0 THEN after ELSE To(after, end - 1)
           authority == From(whole, RFind(whole, {"@"}) + 1)
           hp == HostPort(authority)
           rest == IF end = 0 THEN <<"/">> ELSE From(after, end)
           target == IF rest[1] = "/" THEN rest ELSE <<"/">> \o rest
           port == IF hp[2] = << >> THEN DefaultPort(text[1]) ELSE hp[2]
           v == [scheme |-> text[1], host |-> hp[1], port |-> port, target |-> NoFragment(target)]
<1>1. SchemeEnd(text) = 2 /\ text[1] = u.scheme /\ From(text, 5) = a \o t
  BY PrintedIs
<1>2. after = a \o t
  BY <1>1
<1>3. parseUrl(text) =
        IF \/ SchemeEnd(text) # 2 \/ text[1] \notin {"http", "https"} \/ authority = << >>
           \/ hp[1] = << >> \/ ~ Range(port) \subseteq DOMAIN Numerals
        THEN Bad ELSE v
  BY DEF parseUrl, NoFragment
<1>4. end # 0 /\ To(after, end - 1) = a /\ From(after, end) = t /\ From(a, RFind(a, {"@"}) + 1) = a
  <2> HIDE DEF after
  <2> QED BY <1>2, TargetBack
<1> HIDE DEF text, after, end
<1>5. whole = a /\ rest = t
  BY <1>4
<1>6. authority = a
  BY <1>4, <1>5
<1>7. a # << >> /\ u \in Urls /\ u.scheme \in {"http", "https"} /\ t[1] = "/"
      /\ u.host # << >> /\ u.port # << >> /\ Range(u.port) \subseteq DOMAIN Numerals
  BY HostHeaderIs DEF SiteOK
<1> HIDE DEF authority, rest, whole
<1>8. hp[1] = u.host /\ hp[2] = IF u.port = DefaultPort(u.scheme) THEN << >> ELSE u.port
  BY <1>6, HostBack
<1>9. target = t
  BY <1>5, <1>7
<1> HIDE DEF hp
<1>10. port = u.port
  BY <1>1, <1>7, <1>8
<1> HIDE DEF target, port
<1>11. parseUrl(text) = v
  BY <1>1, <1>3, <1>6, <1>7, <1>8, <1>10
<1>12. v = [u EXCEPT !.target = NoFragment(u.target)]
  <2> DEFINE x == NoFragment(u.target)
  <2>1. v = [scheme |-> u.scheme, host |-> u.host, port |-> u.port, target |-> x]
    BY <1>1, <1>8, <1>9, <1>10
  <2> HIDE DEF x, v
  <2>2. [u EXCEPT !.target = x] = [scheme |-> u.scheme, host |-> u.host, port |-> u.port, target |-> x]
    BY <1>7 DEF Urls
  <2> QED BY <2>1, <2>2 DEF x
<1> QED BY <1>11, <1>12 DEF text

\* A URL has no fragment to lose.
LEMMA OwnText ==
    ASSUME NEW u, UrlOK(u), Printable(u.host)
    PROVE  parseUrl(toString(u)) = u
<1>1. SiteOK(u) /\ u.target \in Text /\ u \in Urls
  BY DEF UrlOK, SiteOK, Urls
<1>2. Find(u.target, {"#"}) = 0
  <2>1. Range(u.target) \cap {"#"} = {}
    BY DEF UrlOK
  <2> QED BY <1>1, <2>1, NotFound
<1>3. NoFragment(u.target) = u.target
  BY <1>2 DEF NoFragment
<1>4. [u EXCEPT !.target = u.target] = u
  BY <1>1 DEF Urls
<1> QED BY <1>1, <1>3, <1>4, Reparse

\* A URL whose text parses to one on its host has a printable host.
LEMMA OnlyPrintable ==
    ASSUME NEW u, SiteOK(u), parseUrl(toString(u)) # Bad, parseUrl(toString(u)).host = u.host
    PROVE  Printable(u.host)
<1> DEFINE text == toString(u)
           after == From(text, SchemeEnd(text) + 3)
           a == hostHeader(u)
           end == Find(after, {"/", "?", "#"})
           whole == IF end = 0 THEN after ELSE To(after, end - 1)
           authority == From(whole, RFind(whole, {"@"}) + 1)
           hp == HostPort(authority)
<1>1. SchemeEnd(text) = 2 /\ From(text, 5) = a \o u.target
  BY PrintedIs
<1>2. parseUrl(text) = Bad \/ parseUrl(text).host = hp[1]
  BY DEF parseUrl
<1>3. after = a \o u.target
  BY <1>1
<1>4. end # 0 /\ To(after, end - 1) = a /\ From(a, RFind(a, {"@"}) + 1) = a
  <2> HIDE DEF after
  <2> QED BY <1>3, TargetBack
<1> HIDE DEF text, after, end, a
<1>5. authority = a
  BY <1>4
<1> HIDE DEF authority
<1>6. hp[1] = u.host
  BY <1>2 DEF text
<1> QED BY <1>5, <1>6, HostLost DEF a

\* A location without a scheme is put behind the host it came from.
LEMMA RedirectIs ==
    ASSUME NEW u, UrlOK(u), NEW location \in Text
    PROVE  /\ resolveRedirect(u, location) \in Text
           /\ location # << >> /\ SchemeEnd(location) = 0 =>
                 \E path \in Text : /\ path # << >> /\ path[1] = "/"
                                    /\ resolveRedirect(u, location) = toString([u EXCEPT !.target = path])
<1> DEFINE d == Directory(u.target)
           path == IF location[1] = "/" THEN location ELSE d \o location
<1>1. u \in Urls /\ u.target \in Text /\ u.target # << >> /\ u.target[1] = "/"
  BY DEF UrlOK, Urls
<1>2. d \in Text /\ Len(d) \in Nat \ {0} /\ d[1] = "/"
  <2> DEFINE t == u.target
             r == RFind(t, {"/"})
  <2>1. Len(t) \in Nat \ {0}
    BY <1>1, EmptyText
  <2>2. r \in 0 .. Len(t) /\ (r = 0 => \A i \in 1 .. Len(t) : t[i] \notin {"/"})
    BY <1>1, RFindIs
  <2>3. r # 0 /\ r \in 0 .. Len(t) /\ 1 \in 1 .. r
    <3> HIDE DEF r
    <3>1. 1 \in 1 .. Len(t) /\ t[1] \in {"/"}
      BY <1>1, <2>1
    <3>2. r # 0
      BY <2>2, <3>1
    <3> QED BY <2>1, <2>2, <3>2
  <2> HIDE DEF r
  <2>4. To(t, r) \in Text /\ Len(To(t, r)) = r /\ \A k \in 1 .. r : To(t, r)[k] = t[k]
    BY <1>1, <2>3, ToIs
  <2>5. d = To(t, r)
    BY DEF Directory, r
  <2> HIDE DEF d, t
  <2> QED BY <1>1, <2>1, <2>3, <2>4, <2>5 DEF t
<1> HIDE DEF d
<1>3. ASSUME location # << >> PROVE path \in Text /\ path # << >> /\ path[1] = "/"
  <2>1. CASE location[1] = "/"
    BY <1>3, <2>1
  <2>2. CASE location[1] # "/"
    <3>1. /\ d \o location \in Text /\ Len(location) \in Nat /\ Len(d \o location) = Len(d) + Len(location)
          /\ \A k \in 1 .. Len(d) : (d \o location)[k] = d[k]
      BY <1>2, JoinIs
    <3>2. Len(d \o location) # 0 /\ (d \o location)[1] = "/"
      BY <1>2, <3>1
    <3> QED BY <2>2, <3>1, <3>2, EmptyText
  <2> QED BY <2>1, <2>2
<1>4. resolveRedirect(u, location) =
        IF location = << >> \/ SchemeEnd(location) # 0 THEN location ELSE toString([u EXCEPT !.target = path])
  BY DEF resolveRedirect, d
<1> HIDE DEF path
<1>5. CASE location = << >> \/ SchemeEnd(location) # 0
  BY <1>4, <1>5
<1>6. CASE location # << >> /\ SchemeEnd(location) = 0
  <2> DEFINE v == [u EXCEPT !.target = path]
  <2>1. v \in Urls /\ v.scheme = u.scheme /\ v.host = u.host /\ v.port = u.port /\ v.target = path
    BY <1>1, <1>3, <1>6 DEF Urls
  <2>2. resolveRedirect(u, location) = toString(v)
    BY <1>4, <1>6
  <2> HIDE DEF v
  <2>3. SiteOK(v)
    BY <1>3, <1>6, <2>1 DEF SiteOK, UrlOK
  <2>4. toString(v) \in Text
    BY <2>3, PrintedIs
  <2> QED BY <1>3, <1>6, <2>2, <2>4 DEF v
<1> QED BY <1>5, <1>6

\* A redirect without a scheme leads to the host it came from.
LEMMA SameHost ==
    ASSUME NEW u, UrlOK(u), Printable(u.host), NEW location \in Text,
           location # << >>, SchemeEnd(location) = 0
    PROVE  LET next == parseUrl(resolveRedirect(u, location))
           IN next # Bad /\ [next EXCEPT !.target = u.target] = u
<1>1. PICK path \in Text : /\ path # << >> /\ path[1] = "/"
                           /\ resolveRedirect(u, location) = toString([u EXCEPT !.target = path])
  BY RedirectIs
<1> DEFINE v == [u EXCEPT !.target = path]
           w == [v EXCEPT !.target = NoFragment(v.target)]
<1>2. u \in Urls /\ u.scheme \in {"http", "https"}
  BY DEF UrlOK
<1>3. v \in Urls /\ v.scheme = u.scheme /\ v.host = u.host /\ v.port = u.port /\ v.target = path
  BY <1>2 DEF Urls
<1> HIDE DEF v
<1>4. SiteOK(v) /\ Printable(v.host)
  BY <1>1, <1>3 DEF SiteOK, UrlOK
<1>5. parseUrl(toString(v)) = w
  BY <1>4, Reparse
<1>6. w.scheme = v.scheme /\ [w EXCEPT !.target = u.target] = [v EXCEPT !.target = u.target]
  BY <1>3 DEF Urls
<1>7. [v EXCEPT !.target = u.target] = u
  BY <1>2 DEF v, Urls
<1>8. Bad.scheme = ""
  BY DEF Bad
<1> HIDE DEF w
<1>9. w # Bad
  BY <1>2, <1>3, <1>6, <1>8
<1>10. parseUrl(resolveRedirect(u, location)) = w
  BY <1>1, <1>5 DEF v
<1> QED BY <1>6, <1>7, <1>9, <1>10

\* Only from a printable host it does.
LEMMA SameHostOnly ==
    ASSUME NEW u, UrlOK(u), NEW location \in Text, location # << >>, SchemeEnd(location) = 0,
           LET next == parseUrl(resolveRedirect(u, location))
           IN next # Bad /\ [next EXCEPT !.target = u.target] = u
    PROVE  Printable(u.host)
<1>1. PICK path \in Text : /\ path # << >> /\ path[1] = "/"
                           /\ resolveRedirect(u, location) = toString([u EXCEPT !.target = path])
  BY RedirectIs
<1> DEFINE v == [u EXCEPT !.target = path]
           next == parseUrl(toString(v))
<1>2. u \in Urls
  BY DEF UrlOK
<1>3. v \in Urls /\ v.scheme = u.scheme /\ v.host = u.host /\ v.port = u.port /\ v.target = path
  BY <1>2 DEF Urls
<1>4. next # Bad /\ [next EXCEPT !.target = u.target] = u
  BY <1>1
<1> HIDE DEF v
<1>5. SiteOK(v)
  BY <1>1, <1>3 DEF SiteOK, UrlOK
<1>6. next \in Urls
  <2>1. toString(v) \in Text
    BY <1>5, PrintedIs
  <2> QED BY <1>4, <2>1, ParsedIs DEF UrlOK
<1> HIDE DEF next
<1>7. next.host = u.host
  <2>1. [next EXCEPT !.target = u.target].host = next.host
    BY <1>6 DEF Urls
  <2> QED BY <1>4, <2>1
<1> QED BY <1>3, <1>4, <1>5, <1>7, OnlyPrintable DEF next

-------------------------------------------------------------------------------
(* The inductive invariant of the reader *)

\* How much of the stream is behind the reader, and behind the lines it has
\* finished.
Consumed == pos - Len(buffer)
LineStart == Consumed - Len(line)

Pcs == {"parse", "plain", "data", "refused", "done"} \cup LineStates
ChunkPcs == {"size", "data", "crlf", "trailer"}

Typed ==
    /\ pc \in Pcs /\ stream \in Text /\ pos \in 0 .. Len(stream)
    /\ buffer \in Text /\ line \in Text /\ body \in Text /\ left \in Int
    /\ head \in [code : Int, items : Seq(Text \X Text)]
    /\ current \in Text /\ hop \in Nat

\* The buffer and the unfinished line are the pieces of the stream they stand
\* for; nothing that was received is lost or seen twice.
ReaderOK ==
    /\ Consumed \in 0 .. pos /\ LineStart \in 0 .. Consumed
    /\ buffer = SubSeq(stream, Consumed + 1, pos)
    /\ line = SubSeq(stream, LineStart + 1, Consumed)
    /\ \A k \in LineStart + 1 .. Consumed : stream[k] # "LF"
    /\ pc \in {"plain", "data"} => line = << >>

\* The head has not ended in what the reader has consumed.
HeadOK ==
    pc \in {"status", "headers"} =>
        /\ \A j \in 1 .. Consumed : ~ BlankAt(stream, j)
        /\ pc = "status" => LineStart = 0
        /\ pc = "headers" => LineStart > 0 /\ stream[LineStart] = "LF"
        /\ body = << >>

FirstBlank(j) == BlankAt(stream, j) /\ \A i \in 1 .. j - 1 : ~ BlankAt(stream, i)

\* What comes of the rest of a text, from p on, for a reader that is in the given
\* part of a chunk and still wants n tokens.
Rest(part, n, text, p) ==
    CASE part = "size" -> ChunksFrom(text)[p]
      [] part = "data" -> Within(text, p, n)
      [] part = "crlf" -> Ending(text, p)
      [] part = "trailer" -> <<"ok", << >> >>

IsChunked == "chunked" \in Range(Header(<<"Transfer-Encoding">>))

\* The body starts at b, and whatever more is received, all of it means the body
\* so far followed by what the rest means.
PlainFrom(b) ==
    /\ ~ IsChunked /\ body = SubSeq(stream, b, Consumed)
    /\ IF ContentLength < 0 THEN left < 0
       ELSE left >= 0 /\ left = ContentLength - Len(body)
ChunksSoFar(b) ==
    /\ IsChunked /\ (pc = "data" => left >= 0)
    /\ \A m \in Consumed .. Len(stream) :
          LET text == SubSeq(stream, b, m)
              rest == Rest(pc, left, text, LineStart + 1 - b + 1)
          IN Chunks(text) = <<rest[1], body \o rest[2]>>
BodyOK ==
    pc \in {"plain"} \cup ChunkPcs =>
        \E b \in 2 .. LineStart + 1 :
            /\ FirstBlank(b - 1) /\ Len(body) <= MaxBytes
            /\ pc = "plain" => PlainFrom(b)
            /\ pc \in ChunkPcs => ChunksSoFar(b)

BodyLater == pc = "parse" => body = << >>

\* Every URL is one parseUrl() made, and after a redirect the next one is what
\* resolveRedirect() made of the location.
HopOK ==
    /\ url = Bad \/ UrlOK(url)
    /\ pc \notin {"parse", "refused"} => url # Bad
    /\ pc = "parse" /\ hop > 0 =>
          /\ url # Bad /\ Header(<<"Location">>) # << >>
          /\ current = resolveRedirect(url, Header(<<"Location">>))

\* A redirect without a scheme has just been followed.
Relative == pc = "parse" /\ hop > 0 /\ SchemeEnd(Header(<<"Location">>)) = 0

WireInv == Typed /\ ReaderOK /\ HeadOK /\ BodyOK /\ BodyLater /\ HopOK /\ MeaningKept

\* Where the reader is.
LEMMA Spots ==
    ASSUME Typed, ReaderOK
    PROVE  /\ Len(stream) \in Nat /\ pos \in Nat /\ Consumed \in Nat /\ LineStart \in Nat
           /\ pos <= Len(stream) /\ Consumed <= pos /\ LineStart <= Consumed
           /\ Len(buffer) = pos - Consumed /\ Len(line) = Consumed - LineStart
           /\ \A k \in 1 .. Len(buffer) : buffer[k] = stream[Consumed + k]
<1>1. Len(stream) \in Nat /\ pos \in Nat /\ pos <= Len(stream) /\ Len(buffer) \in Nat /\ Len(line) \in Nat
  BY EmptyText DEF Typed
<1>2. /\ Consumed \in Nat /\ LineStart \in Nat /\ Consumed <= pos /\ LineStart <= Consumed
  BY <1>1 DEF ReaderOK
<1>3. Len(buffer) = pos - Consumed /\ Len(line) = Consumed - LineStart
  BY <1>1, <1>2 DEF Consumed, LineStart
<1>4. /\ Consumed + 1 \in Nat \ {0} /\ pos \in 0 .. Len(stream) /\ Consumed + 1 <= pos + 1
      /\ pos - (Consumed + 1) + 1 = pos - Consumed
      /\ \A k \in Nat : (Consumed + 1) + k - 1 = Consumed + k
  BY <1>1, <1>2
<1>5. buffer = SubSeq(stream, Consumed + 1, pos) /\ stream \in Text
  BY DEF ReaderOK, Typed
<1>6. \A k \in 1 .. pos - (Consumed + 1) + 1 : buffer[k] = stream[(Consumed + 1) + k - 1]
  BY <1>4, <1>5, PieceIs
<1>7. ASSUME NEW k \in 1 .. Len(buffer) PROVE buffer[k] = stream[Consumed + k]
  <2>1. k \in 1 .. pos - (Consumed + 1) + 1 /\ (Consumed + 1) + k - 1 = Consumed + k
    BY <1>1, <1>2, <1>3, <1>4
  <2> QED BY <1>6, <2>1
<1> QED BY <1>1, <1>2, <1>3, <1>7

\* What readLine() sees of a line in the buffer.
LEMMA LineSeen ==
    ASSUME Typed, ReaderOK
    PROVE  LET lf == Find(buffer, {"LF"})
               text == line \o (IF lf = 0 THEN buffer ELSE To(buffer, lf - 1))
               q == LineStart + 1
               j == Consumed + lf
           IN /\ lf \in Nat
              /\ lf = 0 => /\ text = SubSeq(stream, q, pos) /\ Len(text) = pos - LineStart
                           /\ \A k \in q .. pos : stream[k] # "LF"
              /\ lf # 0 => /\ j \in Consumed + 1 .. pos /\ stream[j] = "LF"
                           /\ \A k \in q .. j - 1 : stream[k] # "LF"
                           /\ text = SubSeq(stream, q, j - 1) /\ Len(text) = j - q
                           /\ Unread(lf) = SubSeq(stream, j + 1, pos) /\ Len(Unread(lf)) = pos - j
<1> DEFINE lf == Find(buffer, {"LF"})
           q == LineStart + 1
           c == Consumed
           j == c + lf
<1>0. /\ Len(stream) \in Nat /\ pos \in Nat /\ c \in Nat /\ LineStart \in Nat
      /\ pos <= Len(stream) /\ c <= pos /\ LineStart <= c
      /\ Len(buffer) = pos - c /\ \A k \in 1 .. Len(buffer) : buffer[k] = stream[c + k]
  BY Spots
<1>1. /\ stream \in Text /\ buffer \in Text /\ buffer = SubSeq(stream, c + 1, pos) /\ line = SubSeq(stream, q, c)
      /\ \A k \in q .. c : stream[k] # "LF"
  BY DEF Typed, ReaderOK
<1>2. /\ lf \in 0 .. Len(buffer)
      /\ lf = 0 => \A i \in 1 .. Len(buffer) : buffer[i] # "LF"
      /\ lf # 0 => buffer[lf] = "LF" /\ \A i \in 1 .. lf - 1 : buffer[i] # "LF"
  <2>1. buffer \in Text
    BY <1>1
  <2>2. /\ lf \in 0 .. Len(buffer)
        /\ lf = 0 => \A i \in 1 .. Len(buffer) : buffer[i] \notin {"LF"}
        /\ lf # 0 => buffer[lf] \in {"LF"} /\ \A i \in 1 .. lf - 1 : buffer[i] \notin {"LF"}
    BY <2>1, FindIs
  <2> QED BY <2>2
<1> HIDE DEF lf, c, q
<1>3. q \in Nat \ {0} /\ q = LineStart + 1 /\ q <= c + 1
  BY <1>0 DEF q
<1>4. CASE lf = 0
  <2>1. line \o buffer = SubSeq(stream, q, pos)
    <3>1. pos \in 0 .. Len(stream)
      BY <1>0
    <3>2. SubSeq(stream, q, c) \o SubSeq(stream, c + 1, pos) = SubSeq(stream, q, pos)
      BY <1>0, <1>1, <1>3, <3>1, JoinPieces
    <3> QED BY <1>1, <3>2
  <2>2. Len(SubSeq(stream, q, pos)) = pos - LineStart
    <3>1. pos \in 0 .. Len(stream) /\ q <= pos + 1 /\ pos - q + 1 = pos - LineStart
      BY <1>0, <1>3
    <3> QED BY <1>1, <1>3, <3>1, PieceIs
  <2>3. ASSUME NEW k \in q .. pos PROVE stream[k] # "LF"
    <3>1. CASE k <= c
      BY <1>0, <1>1, <1>3, <3>1
    <3>2. CASE k > c
      <4>1. k - c \in 1 .. Len(buffer) /\ c + (k - c) = k
        BY <1>0, <1>3, <3>2
      <4> QED BY <1>0, <1>2, <1>4, <4>1
    <3> QED BY <1>0, <1>3, <3>1, <3>2
  <2>4. lf \in Nat
    BY <1>4
  <2> QED BY <1>4, <2>1, <2>2, <2>3, <2>4 DEF lf, q, c
<1>5. CASE lf # 0
  <2>0. /\ j \in c + 1 .. pos /\ lf \in 1 .. Len(buffer) /\ j - 1 \in 0 .. Len(stream) /\ j - 1 \in Nat
        /\ c <= j - 1 /\ q <= (j - 1) + 1 /\ (j - 1) - q + 1 = j - q
    BY <1>0, <1>2, <1>3, <1>5
  <2>1. stream[j] = "LF"
    BY <1>0, <1>2, <1>5, <2>0
  <2>2. ASSUME NEW k \in q .. j - 1 PROVE stream[k] # "LF"
    <3>1. CASE k <= c
      BY <1>0, <1>1, <1>3, <3>1
    <3>2. CASE k > c
      <4>1. k - c \in 1 .. Len(buffer) /\ k - c \in 1 .. lf - 1 /\ c + (k - c) = k
        BY <1>0, <1>3, <2>0, <3>2
      <4>2. buffer[k - c] # "LF" /\ buffer[k - c] = stream[c + (k - c)]
        BY <1>0, <1>2, <1>5, <4>1
      <4> QED BY <4>1, <4>2
    <3> QED BY <1>0, <1>3, <3>1, <3>2
  <2>3. To(buffer, lf - 1) = SubSeq(stream, c + 1, j - 1)
    <3>1. /\ c + 1 \in Nat \ {0} /\ pos \in 0 .. Len(stream) /\ c + 1 <= pos + 1
          /\ lf - 1 \in Nat /\ lf - 1 <= pos - (c + 1) + 1 /\ 1 <= (lf - 1) + 1 /\ 1 \in Nat \ {0}
          /\ (c + 1) + 1 - 1 = c + 1 /\ (c + 1) + (lf - 1) - 1 = j - 1
      BY <1>0, <2>0
    <3>2. SubSeq(SubSeq(stream, c + 1, pos), 1, lf - 1) = SubSeq(stream, (c + 1) + 1 - 1, (c + 1) + (lf - 1) - 1)
      BY <1>1, <3>1, PieceOfPiece
    <3> HIDE DEF j
    <3> QED BY <1>1, <3>1, <3>2 DEF To
  <2>4. line \o To(buffer, lf - 1) = SubSeq(stream, q, j - 1)
    <3> HIDE DEF j
    <3>1. SubSeq(stream, q, c) \o SubSeq(stream, c + 1, j - 1) = SubSeq(stream, q, j - 1)
      BY <1>0, <1>1, <1>3, <2>0, JoinPieces
    <3> QED BY <1>1, <2>3, <3>1
  <2>5. Len(SubSeq(stream, q, j - 1)) = j - q
    <3> HIDE DEF j
    <3> QED BY <1>1, <1>3, <2>0, PieceIs
  <2>6. Unread(lf) = SubSeq(stream, j + 1, pos) /\ Len(Unread(lf)) = pos - j
    <3> DEFINE n == Len(buffer)
    <3>1. /\ c + 1 \in Nat \ {0} /\ pos \in 0 .. Len(stream) /\ c + 1 <= pos + 1
          /\ lf + 1 \in Nat \ {0} /\ n \in Nat /\ n <= pos - (c + 1) + 1 /\ lf + 1 <= n + 1
          /\ (c + 1) + (lf + 1) - 1 = j + 1 /\ (c + 1) + n - 1 = pos
          /\ j + 1 \in Nat \ {0} /\ j + 1 <= pos + 1 /\ pos - (j + 1) + 1 = pos - j
      BY <1>0, <2>0
    <3>2. SubSeq(SubSeq(stream, c + 1, pos), lf + 1, n)
             = SubSeq(stream, (c + 1) + (lf + 1) - 1, (c + 1) + n - 1)
      <4> DEFINE x == lf + 1
                 y == c + 1
      <4>1. /\ y \in Nat \ {0} /\ pos \in 0 .. Len(stream) /\ y <= pos + 1
            /\ x \in Nat \ {0} /\ n \in Nat /\ n <= pos - y + 1 /\ x <= n + 1
        BY <3>1
      <4> HIDE DEF n, x, y
      <4>2. SubSeq(SubSeq(stream, y, pos), x, n) = SubSeq(stream, y + x - 1, y + n - 1)
        BY <1>1, <4>1, PieceOfPiece
      <4> QED BY <4>2 DEF x, y
    <3>3. Len(SubSeq(stream, j + 1, pos)) = pos - (j + 1) + 1
      <4> HIDE DEF j, n
      <4> QED BY <1>1, <3>1, PieceIs
    <3>4. Unread(lf) = SubSeq(buffer, lf + 1, n)
      BY DEF Unread, From
    <3> HIDE DEF j, n
    <3> QED BY <1>1, <3>1, <3>2, <3>3, <3>4
  <2>7. lf \in Nat
    BY <2>0, <1>0
  <2> QED BY <1>5, <2>0, <2>1, <2>2, <2>4, <2>5, <2>6, <2>7 DEF lf, q, c
<1> QED BY <1>4, <1>5

-------------------------------------------------------------------------------
(* Types *)

\* The first value of a header is text.
LEMMA HeaderIs ==
    ASSUME Typed, NEW name
    PROVE  Header(name) \in Text
<1> DEFINE hits == {i \in DOMAIN head.items : head.items[i][1] = name}
<1>1. head.items \in Seq(Text \X Text)
  BY DEF Typed
<1>2. DOMAIN head.items = 1 .. Len(head.items) /\ Len(head.items) \in Nat
      /\ \A i \in 1 .. Len(head.items) : head.items[i] \in Text \X Text
  BY <1>1, LenProperties
<1>3. CASE hits = {}
  BY <1>3, EmptyText DEF Header
<1>4. CASE hits # {}
  <2>1. Header(name) = head.items[Min(hits)][2]
    BY <1>4 DEF Header
  <2>2. hits \in SUBSET Nat
    BY <1>2
  <2>3. Min(hits) \in hits
    <3> HIDE DEF hits
    <3> QED BY <1>4, <2>2, MinIs
  <2>4. head.items[Min(hits)] \in Text \X Text
    BY <1>2, <2>3
  <2> HIDE DEF hits
  <2> QED BY <2>1, <2>4
<1> QED BY <1>3, <1>4

\* The content length is a number, if not a sensible one.
LEMMA ContentLengthIs ==
    ASSUME Typed
    PROVE  ContentLength \in Int
<1>1. Header(<<"Content-Length">>) \in Text
  BY HeaderIs
<1> QED BY <1>1, NumberIs DEF ContentLength

\* A finished line is text.
LEMMA LineText ==
    ASSUME Typed, ReaderOK
    PROVE  LET lf == Find(buffer, {"LF"})
               text == line \o (IF lf = 0 THEN buffer ELSE To(buffer, lf - 1))
           IN text \in Text /\ Unread(lf) \in Text
<1> DEFINE lf == Find(buffer, {"LF"})
           x == IF lf = 0 THEN buffer ELSE To(buffer, lf - 1)
<1>1. buffer \in Text /\ line \in Text
  BY DEF Typed
<1>2. lf \in 0 .. Len(buffer) /\ Len(buffer) \in Nat
  BY <1>1, FindIs, EmptyText
<1> HIDE DEF lf
<1>3. x \in Text
  <2>1. lf # 0 => lf - 1 \in 0 .. Len(buffer)
    BY <1>2
  <2> QED BY <1>1, <2>1, ToIs
<1>4. lf + 1 \in Nat \ {0} /\ lf + 1 <= Len(buffer) + 1
  BY <1>2
<1>5. From(buffer, lf + 1) \in Text
  BY <1>1, <1>4, FromIs
<1> HIDE DEF x
<1>6. line \o x \in Text
  BY <1>1, <1>3, JoinIs
<1> QED BY <1>5, <1>6 DEF x, lf, Unread

\* What the line that ends a step may do to the types.
LineTyped ==
    /\ pc' \in Pcs /\ left' \in Int /\ current' \in Text /\ hop' \in Nat
    /\ head' \in [code : Int, items : Seq(Text \X Text)]

\* An exchange that ends is refused or done.
LEMMA FinishTyped ==
    ASSUME NEW err, Finish(err)
    PROVE  pc' \in {"refused", "done"} /\ pc' \in Pcs
BY DEF Finish, Pcs

\* A whole line leaves a state of the right type.
LEMMA LineDoneTyped ==
    ASSUME Typed, HopOK, pc \in LineStates, NEW text \in Text, LineDone(text)
    PROVE  LineTyped
<1>1. /\ pc \in Pcs /\ left \in Int /\ current \in Text /\ hop \in Nat
      /\ head \in [code : Int, items : Seq(Text \X Text)]
  BY DEF Typed
<1>p. /\ "parse" \in Pcs /\ "headers" \in Pcs /\ "size" \in Pcs /\ "plain" \in Pcs
      /\ "trailer" \in Pcs /\ "data" \in Pcs /\ "crlf" \in Pcs
  BY DEF Pcs, LineStates
<1>2. CASE StatusLine(text)
  <2> DEFINE n == Find(text, {" "})
             code == Number(From(text, n + 1))
  <2>1. code \in Int
    <3>1. n \in 0 .. Len(text) /\ Len(text) \in Nat
      BY FindIs, EmptyText
    <3> HIDE DEF n
    <3>2. n + 1 \in Nat \ {0} /\ n + 1 <= Len(text) + 1
      BY <3>1
    <3>3. From(text, n + 1) \in Text
      BY <3>2, FromIs
    <3> QED BY <3>3, NumberIs
  <2>2. [head EXCEPT !.code = code] \in [code : Int, items : Seq(Text \X Text)]
    <3> HIDE DEF code
    <3> QED BY <1>1, <2>1
  <2>3. \/ head' = [head EXCEPT !.code = code] /\ pc' = "headers" /\ UNCHANGED <<current, hop, left>>
        \/ Finish("Io") /\ UNCHANGED <<current, hop, left, head>>
    BY <1>2 DEF StatusLine
  <2> HIDE DEF code
  <2> QED BY <1>1, <1>p, <2>2, <2>3, FinishTyped DEF LineTyped
<1>3. CASE HeaderLine(text)
  <2> DEFINE n == Find(text, {":"})
             item == <<To(text, n - 1), From(text, n + 1)>>
             more == [head EXCEPT !.items = Append(@, item)]
  <2>1. n # 0 => item \in Text \X Text
    <3>1. n \in 0 .. Len(text) /\ Len(text) \in Nat
      BY FindIs, EmptyText
    <3> HIDE DEF n
    <3> SUFFICES ASSUME n # 0 PROVE item \in Text \X Text
      OBVIOUS
    <3>2. n - 1 \in 0 .. Len(text) /\ n + 1 \in Nat \ {0} /\ n + 1 <= Len(text) + 1
      BY <3>1
    <3>3. To(text, n - 1) \in Text /\ From(text, n + 1) \in Text
      BY <3>2, ToIs, FromIs
    <3> QED BY <3>3
  <2>2. n # 0 => more \in [code : Int, items : Seq(Text \X Text)]
    <3> HIDE DEF item
    <3> SUFFICES ASSUME n # 0 PROVE more \in [code : Int, items : Seq(Text \X Text)]
      OBVIOUS
    <3>1. Append(head.items, item) \in Seq(Text \X Text)
      BY <1>1, <2>1, AppendProperties
    <3> QED BY <1>1, <3>1
  <2>3. /\ \/ Finish("TooLarge") /\ UNCHANGED head
           \/ head' = (IF n = 0 THEN head ELSE more) /\ UNCHANGED pc
        /\ UNCHANGED <<current, hop, left>>
    BY <1>3 DEF HeaderLine
  <2> HIDE DEF more, n
  <2> QED BY <1>1, <2>2, <2>3, FinishTyped DEF LineTyped
<1>4. CASE HeadEnds /\ pc = "headers"
  <2> DEFINE location == Header(<<"Location">>)
  <2>1. location \in Text /\ ContentLength \in Int
    BY HeaderIs, ContentLengthIs
  <2>2. UrlOK(url)
    BY <1>4 DEF HopOK
  <2>3. resolveRedirect(url, location) \in Text
    BY <2>1, <2>2, RedirectIs
  <2>4. /\ \/ current' = resolveRedirect(url, location) /\ hop' = hop + 1 /\ pc' = "parse" /\ UNCHANGED left
           \/ Finish("Io") /\ UNCHANGED <<current, hop, left>>
           \/ Finish("HttpStatus") /\ UNCHANGED <<current, hop, left>>
           \/ pc' \in {"size", "plain"} /\ left' = ContentLength /\ UNCHANGED <<current, hop>>
        /\ UNCHANGED head
    BY <1>4 DEF HeadEnds
  <2> HIDE DEF location
  <2>5. hop + 1 \in Nat
    BY <1>1
  <2> QED BY <1>1, <1>p, <2>1, <2>3, <2>4, <2>5, FinishTyped DEF LineTyped
<1>5. CASE SizeLine(text)
  <2> DEFINE size == Number(Digits(text))
  <2>1. size \in Int
    BY DigitsAre, NumberIs
  <2>2. /\ \/ Finish("Io") /\ UNCHANGED left
           \/ pc' \in {"trailer", "data"} /\ left' = size
        /\ UNCHANGED <<current, hop, head>>
    BY <1>5 DEF SizeLine, Digits
  <2> HIDE DEF size
  <2> QED BY <1>1, <1>p, <2>1, <2>2, FinishTyped DEF LineTyped
<1>6. CASE CrlfLine(text)
  BY <1>1, <1>6, <1>p DEF CrlfLine, LineTyped
<1>7. CASE TrailerLine(text)
  <2>1. (Finish("ok") \/ UNCHANGED pc) /\ UNCHANGED <<current, hop, head, left>>
    BY <1>7 DEF TrailerLine
  <2> QED BY <1>1, <2>1, FinishTyped DEF LineTyped
<1> QED BY <1>2, <1>3, <1>4, <1>5, <1>6, <1>7 DEF LineDone, LineStates

\* Every step keeps the types.
LEMMA TypedNext ==
    ASSUME Typed, ReaderOK, HopOK, [Next]_vars
    PROVE  Typed'
<1>0. /\ pc \in Pcs /\ stream \in Text /\ pos \in 0 .. Len(stream) /\ pos \in Nat /\ Len(stream) \in Nat
      /\ buffer \in Text /\ line \in Text /\ body \in Text /\ left \in Int
      /\ head \in [code : Int, items : Seq(Text \X Text)]
      /\ current \in Text /\ hop \in Nat
  BY EmptyText DEF Typed
<1>e. << >> \in Text
  BY EmptyText
<1>n. NoHead \in [code : Int, items : Seq(Text \X Text)]
  BY EmptySeq DEF NoHead
<1>1. CASE StartHop
  <2>1. Streams \subseteq Text
    BY WireAssumption
  <2>2. stream' \in Text
    BY <1>0, <1>1, <2>1 DEF StartHop
  <2>3. pc' \in Pcs
    BY <1>1, FinishTyped DEF StartHop, Pcs, LineStates
  <2>4. pos' \in 0 .. Len(stream')
    BY <1>1, <2>2, EmptyText DEF StartHop
  <2> QED BY <1>0, <1>1, <1>e, <1>n, <2>2, <2>3, <2>4 DEF StartHop, Typed
<1>2. CASE Fill
  <2>1. PICK n \in 1 .. BufferSize : /\ pos + n <= Len(stream) /\ pos' = pos + n
                                     /\ buffer' = SubSeq(stream, pos + 1, pos + n)
    BY <1>2 DEF Fill
  <2>2. BufferSize \in Nat
    BY WireAssumption
  <2>3. pos + n \in 0 .. Len(stream) /\ pos + 1 \in Nat \ {0} /\ pos + 1 <= (pos + n) + 1
    BY <1>0, <2>1, <2>2
  <2>4. SubSeq(stream, pos + 1, pos + n) \in Text
    BY <1>0, <2>3, PieceIs
  <2> QED BY <1>0, <1>2, <2>1, <2>3, <2>4 DEF Fill, Typed
<1>3. CASE \E silent \in BOOLEAN : Eof(silent)
  <2>1. /\ pc' \in Pcs
        /\ UNCHANGED <<current, hop, url, stream, pos, buffer, line, head, left, body>>
    BY <1>3, FinishTyped DEF Eof
  <2> QED BY <1>0, <2>1 DEF Typed
<1>4. CASE ReadLine
  <2> DEFINE lf == Find(buffer, {"LF"})
             text == line \o (IF lf = 0 THEN buffer ELSE To(buffer, lf - 1))
  <2>1. text \in Text /\ Unread(lf) \in Text
    BY LineText
  <2>2. UNCHANGED <<url, stream, pos, body>> /\ pc \in LineStates
    BY <1>4 DEF ReadLine
  <2>3. /\ LineTyped /\ buffer' \in Text /\ line' \in Text
    <3>1. CASE /\ Finish(IF pc = "trailer" THEN "ok" ELSE "Io")
               /\ UNCHANGED <<current, hop, head, left, buffer, line>>
      BY <1>0, <3>1, FinishTyped DEF LineTyped
    <3>2. CASE /\ line' = text /\ buffer' = << >>
               /\ UNCHANGED <<current, hop, head, left, pc>>
      <4> HIDE DEF text
      <4> QED BY <1>0, <1>e, <2>1, <3>2 DEF LineTyped
    <3>3. CASE line' = << >> /\ buffer' = Unread(lf) /\ LineDone(Stripped(text))
      <4>1. Stripped(text) \in Text
        <5> HIDE DEF text
        <5> QED BY <2>1, StrippedIs
      <4>2. LineTyped
        <5> HIDE DEF text
        <5> QED BY <2>2, <3>3, <4>1, LineDoneTyped
      <4> QED BY <1>e, <2>1, <3>3, <4>2
    <3> QED BY <1>4, <3>1, <3>2, <3>3 DEF ReadLine
  <2> QED BY <1>0, <2>2, <2>3 DEF LineTyped, Typed
<1>5. CASE Pump
  <2> DEFINE n == Slice(Len(buffer))
  <2>1. Len(buffer) \in Nat /\ Len(buffer) # 0 /\ left # 0
    BY <1>0, <1>5, EmptyText DEF Pump
  <2>2. n \in 0 .. Len(buffer) /\ (left < 0 \/ n <= left) /\ n \in Nat
    BY <1>0, <2>1 DEF Slice
  <2> HIDE DEF n
  <2>3. /\ \/ Finish("TooLarge") /\ body' = << >> /\ UNCHANGED <<left, buffer>>
           \/ /\ body' = body \o To(buffer, n) /\ buffer' = Unread(n)
              /\ left' = IF left < 0 THEN left ELSE left - n
              /\ UNCHANGED pc
        /\ UNCHANGED <<current, hop, url, stream, pos, line, head>>
    BY <1>5 DEF Pump, n
  <2>4. To(buffer, n) \in Text
    BY <1>0, <2>2, ToIs
  <2>5. body \o To(buffer, n) \in Text
    BY <1>0, <2>4, JoinIs
  <2>6. Unread(n) \in Text
    <3>1. n + 1 \in Nat \ {0} /\ n + 1 <= Len(buffer) + 1
      BY <2>1, <2>2
    <3> QED BY <1>0, <3>1, FromIs DEF Unread
  <2>7. left - n \in Int
    BY <1>0, <2>2
  <2> QED BY <1>0, <1>e, <2>3, <2>5, <2>6, <2>7, FinishTyped DEF Typed
<1>6. CASE PumpDone
  <2>1. /\ pc' \in Pcs
        /\ UNCHANGED <<current, hop, url, stream, pos, buffer, line, head, left, body>>
    <3>1. "crlf" \in Pcs
      BY DEF Pcs, LineStates
    <3> QED BY <1>6, <3>1, FinishTyped DEF PumpDone
  <2> QED BY <1>0, <2>1 DEF Typed
<1>7. CASE UNCHANGED vars
  BY <1>0, <1>7 DEF vars, Typed
<1> QED BY <1>1, <1>2, <1>3, <1>4, <1>5, <1>6, <1>7 DEF Next

-------------------------------------------------------------------------------
(* Where each step leaves the reader *)

\* A buffer and a line that are the next pieces of the stream.
LEMMA ReaderIs ==
    ASSUME Typed', NEW c \in Nat, NEW l \in Nat, c <= pos', l <= c,
           buffer' = SubSeq(stream', c + 1, pos'), line' = SubSeq(stream', l + 1, c),
           \A k \in l + 1 .. c : stream'[k] # "LF",
           pc' \in {"plain", "data"} => line' = << >>
    PROVE  ReaderOK' /\ Consumed' = c /\ LineStart' = l
<1>0. stream' \in Text /\ Len(stream') \in Nat /\ pos' \in 0 .. Len(stream')
  BY EmptyText DEF Typed
<1>1. stream' \in Text /\ Len(stream') \in Nat /\ pos' \in 0 .. Len(stream') /\ pos' \in Nat
  BY <1>0
<1>2. Len(buffer') = pos' - (c + 1) + 1
  <2> DEFINE i == c + 1
             s == stream'
             m == pos'
  <2>0. m \in Nat /\ c <= m
    BY <1>1
  <2> HIDE DEF s, m
  <2>1. i \in Nat \ {0} /\ i <= m + 1
    BY <2>0
  <2> HIDE DEF i
  <2>2. s \in Text /\ m \in 0 .. Len(s)
    BY <1>1 DEF s, m
  <2>3. Len(SubSeq(s, i, m)) = m - i + 1
    BY <2>1, <2>2, PieceIs
  <2> QED BY <2>3 DEF i, s, m
<1>3. Len(line') = c - (l + 1) + 1
  <2> DEFINE i == l + 1
             s == stream'
  <2>1. i \in Nat \ {0} /\ i <= c + 1 /\ c \in 0 .. Len(s)
    BY <1>1
  <2> HIDE DEF i, s
  <2>2. s \in Text
    BY <1>1 DEF s
  <2>3. Len(SubSeq(s, i, c)) = c - i + 1
    BY <2>1, <2>2, PieceIs
  <2> QED BY <2>3 DEF i, s
<1>4. Consumed' = c
  <2>1. Consumed' = pos' - Len(buffer')
    BY DEF Consumed
  <2> DEFINE m == pos'
             n == Len(buffer')
  <2>2. m \in Nat /\ n = m - (c + 1) + 1
    BY <1>1, <1>2
  <2> HIDE DEF m, n
  <2>3. m - n = c
    BY <2>2
  <2> QED BY <2>1, <2>3 DEF m, n
<1>5. LineStart' = l
  BY <1>3, <1>4 DEF LineStart
<1>6. c \in 0 .. pos' /\ l \in 0 .. c
  BY <1>1
<1> QED BY <1>4, <1>5, <1>6 DEF ReaderOK

\* A new exchange has read nothing.
LEMMA StartHopReads ==
    ASSUME Typed', StartHop
    PROVE  ReaderOK' /\ Consumed' = 0 /\ LineStart' = 0
<1> DEFINE s == stream'
<1>1. pos' = 0 /\ buffer' = << >> /\ line' = << >>
  BY DEF StartHop
<1>2. SubSeq(s, 1, 0) = << >>
  <2>1. s \in Text /\ 1 \in Nat \ {0} /\ 1 <= Len(s) + 1
    BY EmptyText DEF Typed
  <2> HIDE DEF s
  <2>2. SubSeq(s, 1, 1 - 1) = << >>
    BY <2>1, NoPiece
  <2> QED BY <2>2
<1>3. /\ 0 \in Nat /\ 0 <= pos' /\ 0 <= 0
      /\ buffer' = SubSeq(s, 0 + 1, pos') /\ line' = SubSeq(s, 0 + 1, 0)
      /\ \A k \in 0 + 1 .. 0 : s[k] # "LF"
  BY <1>1, <1>2
<1> QED BY <1>1, <1>3, ReaderIs

\* The reader does not move.
LEMMA Unmoved ==
    ASSUME Typed, Typed', ReaderOK, UNCHANGED <<stream, pos, buffer, line>>,
           pc' \in {"plain", "data"} => line = << >>
    PROVE  ReaderOK' /\ Consumed' = Consumed /\ LineStart' = LineStart
<1>1. Consumed \in Nat /\ LineStart \in Nat /\ Consumed <= pos /\ LineStart <= Consumed
  BY Spots
<1> QED BY <1>1, ReaderIs DEF ReaderOK

\* Receiving consumes nothing.
LEMMA FillReads ==
    ASSUME Typed, Typed', ReaderOK, Fill
    PROVE  ReaderOK' /\ Consumed' = Consumed /\ LineStart' = LineStart
<1>0. /\ Len(stream) \in Nat /\ pos \in Nat /\ Consumed \in Nat /\ LineStart \in Nat
      /\ pos <= Len(stream) /\ Consumed <= pos /\ LineStart <= Consumed
      /\ Len(buffer) = pos - Consumed
  BY Spots
<1>1. Consumed = pos
  <2>1. Len(buffer) = 0
    BY EmptyText DEF Fill, NeedsMore
  <2> QED BY <1>0, <2>1
<1>2. /\ UNCHANGED <<stream, line, pc>> /\ pos' \in Nat /\ pos' >= pos
      /\ buffer' = SubSeq(stream', Consumed + 1, pos')
  <2>1. BufferSize \in Nat
    BY WireAssumption
  <2> QED BY <1>0, <1>1, <2>1 DEF Fill
<1>3. Consumed <= pos'
  BY <1>0, <1>2
<1> QED BY <1>0, <1>2, <1>3, ReaderIs DEF ReaderOK

\* readLine() moves to the end of the buffer, or behind the line end.
LEMMA ReadLineReads ==
    ASSUME Typed, Typed', ReaderOK, pc \in LineStates, UNCHANGED <<stream, pos>>
    PROVE  LET lf == Find(buffer, {"LF"})
               text == line \o (IF lf = 0 THEN buffer ELSE To(buffer, lf - 1))
           IN /\ lf = 0 /\ line' = text /\ buffer' = << >> /\ pc' = pc =>
                    ReaderOK' /\ Consumed' = pos /\ LineStart' = LineStart
              /\ lf # 0 /\ line' = << >> /\ buffer' = Unread(lf) =>
                    ReaderOK' /\ Consumed' = Consumed + lf /\ LineStart' = Consumed + lf
<1> DEFINE lf == Find(buffer, {"LF"})
           text == line \o (IF lf = 0 THEN buffer ELSE To(buffer, lf - 1))
           q == LineStart + 1
           j == Consumed + lf
<1>0. /\ Len(stream) \in Nat /\ pos \in Nat /\ Consumed \in Nat /\ LineStart \in Nat
      /\ pos <= Len(stream) /\ Consumed <= pos /\ LineStart <= Consumed /\ stream \in Text
  BY Spots DEF Typed
<1>1. /\ lf \in Nat
      /\ lf = 0 => /\ text = SubSeq(stream, q, pos)
                   /\ \A k \in q .. pos : stream[k] # "LF"
      /\ lf # 0 => /\ j \in Consumed + 1 .. pos
                   /\ Unread(lf) = SubSeq(stream, j + 1, pos)
  BY LineSeen
<1> HIDE DEF lf, text
<1>2. ASSUME lf = 0, line' = text, buffer' = << >>, pc' = pc
      PROVE  ReaderOK' /\ Consumed' = pos /\ LineStart' = LineStart
  <2>1. SubSeq(stream, pos + 1, pos) = << >>
    <3>1. pos + 1 \in Nat \ {0} /\ pos + 1 <= Len(stream) + 1 /\ (pos + 1) - 1 = pos
      BY <1>0
    <3>2. SubSeq(stream, pos + 1, (pos + 1) - 1) = << >>
      BY <1>0, <3>1, NoPiece
    <3> QED BY <3>1, <3>2
  <2>2. /\ pos \in Nat /\ LineStart \in Nat /\ pos <= pos' /\ LineStart <= pos
        /\ buffer' = SubSeq(stream', pos + 1, pos') /\ line' = SubSeq(stream', LineStart + 1, pos)
        /\ \A k \in LineStart + 1 .. pos : stream'[k] # "LF"
    BY <1>0, <1>1, <1>2, <2>1
  <2>3. pc' \notin {"plain", "data"}
    BY <1>2 DEF LineStates
  <2> QED BY <2>2, <2>3, ReaderIs
<1>3. ASSUME lf # 0, line' = << >>, buffer' = Unread(lf)
      PROVE  ReaderOK' /\ Consumed' = j /\ LineStart' = j
  <2>1. j \in Nat /\ j <= pos' /\ j <= j
    BY <1>0, <1>1, <1>3
  <2>2. SubSeq(stream, j + 1, j) = << >>
    <3> HIDE DEF j
    <3>1. j + 1 \in Nat \ {0} /\ j + 1 <= Len(stream) + 1 /\ (j + 1) - 1 = j
      BY <1>0, <2>1
    <3>2. SubSeq(stream, j + 1, (j + 1) - 1) = << >>
      BY <1>0, <3>1, NoPiece
    <3> QED BY <3>1, <3>2
  <2>3. /\ buffer' = SubSeq(stream', j + 1, pos') /\ line' = SubSeq(stream', j + 1, j)
        /\ \A k \in j + 1 .. j : stream'[k] # "LF"
    BY <1>1, <1>3, <2>1, <2>2
  <2> HIDE DEF j
  <2> QED BY <1>3, <2>1, <2>3, ReaderIs
<1> QED BY <1>2, <1>3 DEF lf, text

\* pumpPlain() moves over what it hands on, and that is the next piece of the
\* stream.
LEMMA PumpReads ==
    ASSUME Typed, Typed', ReaderOK, pc \in {"plain", "data"}, NEW n \in 0 .. Len(buffer)
    PROVE  /\ To(buffer, n) = SubSeq(stream, Consumed + 1, Consumed + n) /\ Consumed + n <= pos
           /\ UNCHANGED <<stream, pos, line>> /\ buffer' = Unread(n) =>
                 ReaderOK' /\ Consumed' = Consumed + n /\ LineStart' = Consumed + n
<1> DEFINE c == Consumed
           j == c + n
           y == c + 1
<1>0. /\ Len(stream) \in Nat /\ pos \in Nat /\ c \in Nat /\ LineStart \in Nat
      /\ pos <= Len(stream) /\ c <= pos /\ LineStart <= c
      /\ Len(buffer) = pos - c /\ Len(line) = c - LineStart /\ stream \in Text
  BY Spots DEF Typed
<1>1. buffer = SubSeq(stream, y, pos) /\ line = << >>
  BY DEF ReaderOK
<1> HIDE DEF c
<1>2. /\ y \in Nat \ {0} /\ pos \in 0 .. Len(stream) /\ y <= pos + 1
      /\ n \in Nat /\ n <= pos - y + 1 /\ 1 <= n + 1 /\ 1 \in Nat \ {0}
      /\ y + 1 - 1 = y /\ y + n - 1 = j /\ j \in Nat /\ j <= pos
  BY <1>0
<1> HIDE DEF y, j
<1>3. To(buffer, n) = SubSeq(stream, y, j)
  <2>1. SubSeq(SubSeq(stream, y, pos), 1, n) = SubSeq(stream, y + 1 - 1, y + n - 1)
    BY <1>0, <1>2, PieceOfPiece
  <2> QED BY <1>1, <1>2, <2>1 DEF To
<1>4. ASSUME UNCHANGED <<stream, pos, line>>, buffer' = Unread(n)
      PROVE  ReaderOK' /\ Consumed' = j /\ LineStart' = j
  <2> DEFINE x == n + 1
             z == Len(buffer)
  <2>1. /\ x \in Nat \ {0} /\ z \in Nat /\ z <= pos - y + 1 /\ x <= z + 1
        /\ y + x - 1 = j + 1 /\ y + z - 1 = pos
    BY <1>0, <1>2 DEF y, j
  <2>2. Unread(n) = SubSeq(buffer, x, z)
    BY DEF Unread, From
  <2> HIDE DEF x, z
  <2>3. SubSeq(SubSeq(stream, y, pos), x, z) = SubSeq(stream, y + x - 1, y + z - 1)
    BY <1>0, <1>2, <2>1, PieceOfPiece
  <2>4. buffer' = SubSeq(stream', j + 1, pos')
    BY <1>1, <1>4, <2>1, <2>2, <2>3
  <2>5. SubSeq(stream, j + 1, j) = << >>
    <3>1. j + 1 \in Nat \ {0} /\ j + 1 <= Len(stream) + 1 /\ (j + 1) - 1 = j
      BY <1>0, <1>2
    <3>2. SubSeq(stream, j + 1, (j + 1) - 1) = << >>
      BY <1>0, <3>1, NoPiece
    <3> QED BY <3>1, <3>2
  <2>6. /\ j \in Nat /\ j <= pos' /\ j <= j /\ line' = SubSeq(stream', j + 1, j) /\ line' = << >>
        /\ \A k \in j + 1 .. j : stream'[k] # "LF"
    BY <1>1, <1>2, <1>4, <2>5
  <2> QED BY <2>4, <2>6, ReaderIs
<1> QED BY <1>2, <1>3, <1>4 DEF c, j, y

-------------------------------------------------------------------------------
(* Lines and what they mean *)

\* The line between l and the line end at j is blank when the head ends at j.
LEMMA BlankLine ==
    ASSUME NEW s \in Text, NEW l \in Nat, NEW j \in l + 1 .. Len(s), s[j] = "LF",
           \A k \in l + 1 .. j - 1 : s[k] # "LF"
    PROVE  /\ l = 0 => ~ BlankAt(s, j)
           /\ l > 0 /\ s[l] = "LF" => (BlankAt(s, j) <=> Stripped(SubSeq(s, l + 1, j - 1)) = << >>)
<1> DEFINE q == l + 1
           t == SubSeq(s, q, j - 1)
<1>0. Len(s) \in Nat /\ j \in Nat /\ q <= j
  BY EmptyText
<1>1. t \in Text /\ Len(t) = j - q /\ \A k \in 1 .. j - q : t[k] = s[l + k]
  <2> DEFINE e == j - 1
  <2>1. /\ q \in Nat \ {0} /\ e \in 0 .. Len(s) /\ q <= e + 1 /\ e - q + 1 = j - q
        /\ \A k \in Nat : q + k - 1 = l + k
    BY <1>0
  <2> HIDE DEF e, q
  <2>2. /\ SubSeq(s, q, e) \in Text /\ Len(SubSeq(s, q, e)) = e - q + 1
        /\ \A k \in 1 .. e - q + 1 : SubSeq(s, q, e)[k] = s[q + k - 1]
    BY <2>1, PieceIs
  <2>3. \A k \in 1 .. j - q : SubSeq(s, q, e)[k] = s[l + k]
    <3> SUFFICES ASSUME NEW k \in 1 .. j - q PROVE SubSeq(s, q, e)[k] = s[l + k]
      OBVIOUS
    <3>1. k \in 1 .. e - q + 1 /\ q + k - 1 = l + k
      BY <1>0, <2>1
    <3> QED BY <2>2, <3>1
  <2> QED BY <2>1, <2>2, <2>3 DEF e
<1> HIDE DEF t
<1>2. Stripped(t) = << >> <=> Len(t) = 0 \/ (Len(t) = 1 /\ t[1] = "CR")
  BY <1>1, StrippedIs
<1>3. ASSUME BlankAt(s, j) PROVE l > 0 /\ (s[l] = "LF" => Stripped(t) = << >>)
  <2>1. PICK i \in {j - 1, j - 2} : i > 0 /\ s[i] = "LF" /\ \A k \in i + 1 .. j - 1 : s[k] = "CR"
    BY <1>3 DEF BlankAt
  <2>2. i \in Nat /\ i <= l /\ i < j
    BY <1>0, <2>1
  <2>3. ASSUME s[l] = "LF" PROVE l = i
    <3>1. l \notin i + 1 .. j - 1
      BY <2>1, <2>3
    <3> QED BY <1>0, <2>2, <3>1
  <2>4. ASSUME s[l] = "LF" PROVE Len(t) = 0 \/ (Len(t) = 1 /\ t[1] = "CR")
    <3>1. l = j - 1 \/ l = j - 2
      BY <2>1, <2>3, <2>4
    <3>2. CASE l = j - 1
      BY <1>0, <1>1, <3>2
    <3>3. CASE l = j - 2
      <4>a. j = l + 2
        BY <1>0, <3>3
      <4>b. j - q = 1 /\ l + 1 = j - 1
        BY <1>0, <4>a
      <4>0. l = i /\ l + 1 = j - 1 /\ j - q = 1
        BY <2>3, <2>4, <4>b
      <4>1. j - q = 1 /\ l + 1 \in i + 1 .. j - 1 /\ 1 \in 1 .. j - q
        BY <1>0, <2>2, <4>0
      <4>2. s[l + 1] = "CR"
        BY <2>1, <4>1
      <4> QED BY <1>1, <4>1, <4>2
    <3> QED BY <3>1, <3>2, <3>3
  <2> QED BY <1>2, <2>2, <2>1, <2>4
<1>4. ASSUME l > 0, s[l] = "LF", Stripped(t) = << >> PROVE BlankAt(s, j)
  <2>1. CASE Len(t) = 0
    <3>1. l \in {j - 1, j - 2} /\ \A k \in l + 1 .. j - 1 : s[k] = "CR"
      BY <1>0, <1>1, <2>1
    <3> QED BY <1>4, <3>1 DEF BlankAt
  <2>2. CASE Len(t) = 1 /\ t[1] = "CR"
    <3>0. j - q = 1
      BY <1>1, <2>2
    <3>1. l = j - 2 /\ 1 \in 1 .. j - q /\ j - 1 = l + 1
      BY <1>0, <3>0
    <3>2. s[l + 1] = "CR"
      BY <1>1, <2>2, <3>1
    <3>3. l \in {j - 1, j - 2} /\ \A k \in l + 1 .. j - 1 : k = l + 1
      <4>1. \A k \in l + 1 .. l + 1 : k = l + 1
        OBVIOUS
      <4> QED BY <3>1, <4>1
    <3> QED BY <1>4, <3>2, <3>3 DEF BlankAt
  <2> QED BY <1>2, <1>4, <2>1, <2>2
<1> QED BY <1>0, <1>3, <1>4 DEF t

\* What the line t, read at p and ending before n, means between chunks.
Turns(text, p, n, t) ==
    LET size == Number(Digits(t))
    IN /\ ~ IsNumber(Digits(t)) \/ size < 0 => ChunksFrom(text)[p] = <<"Io", << >> >>
       /\ IsNumber(Digits(t)) /\ size = 0 => ChunksFrom(text)[p] = <<"ok", << >> >>
       /\ IsNumber(Digits(t)) /\ size > 0 => ChunksFrom(text)[p] = Within(text, n, size)
       /\ Ending(text, p) = ChunksFrom(text)[n]

\* A line that has been read, in what has been or will be received.
LEMMA LineTurn ==
    ASSUME NEW s \in Text, NEW b \in Nat \ {0}, NEW l \in Nat, b <= l + 1,
           NEW j \in l + 1 .. Len(s), s[j] = "LF", \A k \in l + 1 .. j - 1 : s[k] # "LF",
           j - (l + 1) <= MaxLine, NEW m \in j .. Len(s)
    PROVE  Turns(SubSeq(s, b, m), l + 1 - b + 1, j + 1 - b + 1, Stripped(SubSeq(s, l + 1, j - 1)))
<1> DEFINE q == l + 1
           text == SubSeq(s, b, m)
           p == q - b + 1
           n == j + 1 - b + 1
           t == Stripped(SubSeq(s, q, j - 1))
           size == Number(Digits(t))
<1>0. Len(s) \in Nat /\ j \in Nat
  BY EmptyText
<1>1. q \in Nat /\ b <= q /\ m \in 0 .. Len(s) /\ q <= m + 1 /\ j \in q .. m
  BY <1>0
<1>2. /\ text \in Text /\ Len(text) = m - b + 1 /\ p \in 1 .. Len(text) + 1
      /\ LineAt(text, p) = [text |-> t, next |-> j - b + 2]
  <2> HIDE DEF q
  <2>1. j - q <= MaxLine /\ \A k \in q .. j - 1 : s[k] # "LF"
    BY DEF q
  <2> QED BY <1>1, <2>1, LineCut
<1>3. n = j - b + 2 /\ n \in 1 .. Len(text) + 1 /\ n # 0
  <2> HIDE DEF text
  <2> QED BY <1>0, <1>1, <1>2
<1> HIDE DEF text, p, n, t
<1>4. LineAt(text, p).text = t /\ LineAt(text, p).next = n
  BY <1>2, <1>3
<1>5. Ending(text, p) = ChunksFrom(text)[n]
  BY <1>3, <1>4 DEF Ending
<1>6. /\ ~ IsNumber(Digits(t)) \/ size < 0 => ChunksFrom(text)[p] = <<"Io", << >> >>
      /\ IsNumber(Digits(t)) /\ size = 0 => ChunksFrom(text)[p] = <<"ok", << >> >>
      /\ IsNumber(Digits(t)) /\ size > 0 => ChunksFrom(text)[p] = Within(text, n, size)
  BY <1>2, <1>3, <1>4, ChunkRead
<1>7. Turns(text, p, n, t)
  BY <1>5, <1>6 DEF Turns
<1> QED BY <1>7 DEF text, p, n, t

\* A line without an end, or too long, ends the chunks.
LEMMA NoLine ==
    ASSUME NEW s \in Text, NEW b \in Nat \ {0}, NEW l \in Nat, b <= l + 1,
           NEW m \in l .. Len(s), \A j \in l + 1 .. m : s[j] = "LF" => j - (l + 1) > MaxLine
    PROVE  LET text == SubSeq(s, b, m)
               p == l + 1 - b + 1
           IN ChunksFrom(text)[p] = <<"Io", << >> >> /\ Ending(text, p) = <<"Io", << >> >>
<1> DEFINE q == l + 1
           text == SubSeq(s, b, m)
           p == q - b + 1
<1>0. Len(s) \in Nat
  BY EmptyText
<1>1. q \in Nat /\ b <= q /\ m \in 0 .. Len(s) /\ q <= m + 1
  BY <1>0
<1>2. text \in Text /\ p \in 1 .. Len(text) + 1 /\ LineAt(text, p).next = 0
  <2> HIDE DEF q
  <2>1. \A j \in q .. m : s[j] = "LF" => j - q > MaxLine
    BY DEF q
  <2> QED BY <1>1, <2>1, LineCut
<1> HIDE DEF text, p
<1>3. Ending(text, p) = <<"Io", << >> >>
  BY <1>2 DEF Ending
<1>4. ChunksFrom(text)[p] = <<"Io", << >> >>
  BY <1>2, ChunkRead
<1> QED BY <1>3, <1>4 DEF text, p

-------------------------------------------------------------------------------
(* The end of an exchange *)

\* The header bag is left alone.
LEMMA SameHead ==
    ASSUME head' = head
    PROVE  /\ IsChunked' = IsChunked /\ ContentLength' = ContentLength
           /\ Header(<<"Location">>)' = Header(<<"Location">>)
BY DEF IsChunked, ContentLength, Header

\* The tokens behind the head, when the exchange ends.
LEMMA Concluded ==
    ASSUME Typed, ReaderOK, NEW b \in 2 .. pos + 1, FirstBlank(b - 1), UNCHANGED <<stream, pos, head>>,
           NEW silent \in BOOLEAN,
           [error |-> error', body |-> body'] = Meaning(SubSeq(stream, b, pos), silent)
    PROVE  MeaningKept'
<1>1. stream \in Text /\ pos \in 0 .. Len(stream) /\ pos \in Nat
  BY EmptyText DEF Typed
<1>2. BlankAt(stream, b - 1) /\ \A i \in 1 .. b - 2 : ~ BlankAt(stream, i)
  <2>1. (b - 1) - 1 = b - 2
    BY <1>1
  <2> QED BY <2>1 DEF FirstBlank
<1>3. BodyStart(To(stream, pos)) = b /\ From(To(stream, pos), b) = SubSeq(stream, b, pos)
  BY <1>1, <1>2, HeadCut
<1> DEFINE text == SubSeq(stream, b, pos)
           n == ContentLength
<1>4. Meaning(text, silent) =
         IF IsChunked THEN Verdict(Chunks(text)[1], Chunks(text)[2])
         ELSE IF n < 0 THEN Verdict(IF silent THEN "Io" ELSE "ok", text)
         ELSE IF Len(text) < n THEN Verdict("Io", text) ELSE Verdict("ok", To(text, n))
  BY DEF Meaning, IsChunked
<1>5. Meaning(From(To(stream, pos), BodyStart(To(stream, pos))), silent)' =
         IF IsChunked' THEN Verdict(Chunks(text)[1], Chunks(text)[2])
         ELSE IF ContentLength' < 0 THEN Verdict(IF silent THEN "Io" ELSE "ok", text)
         ELSE IF Len(text) < ContentLength' THEN Verdict("Io", text) ELSE Verdict("ok", To(text, ContentLength'))
  <2>1. From(To(stream', pos'), BodyStart(To(stream', pos'))) = text
    BY <1>3
  <2> HIDE DEF text
  <2> QED BY <2>1 DEF Meaning, IsChunked
<1>6. Meaning(From(To(stream, pos), BodyStart(To(stream, pos))), silent)' = Meaning(text, silent)
  <2>1. (IsChunked' <=> IsChunked) /\ ContentLength' = ContentLength
    BY SameHead
  <2> DEFINE m == Meaning(From(To(stream, pos), BodyStart(To(stream, pos))), silent)'
  <2> HIDE DEF text, m
  <2> QED BY <1>4, <1>5, <2>1 DEF m
<1> QED BY <1>6 DEF MeaningKept

\* A chunked exchange ends with what the chunks carried.
LEMMA ChunkedEnds ==
    ASSUME Typed, ReaderOK, NEW b \in 2 .. pos + 1, FirstBlank(b - 1), UNCHANGED <<stream, pos, head>>,
           IsChunked, NEW e, NEW r \in Text, Chunks(SubSeq(stream, b, pos)) = <<e, r>>,
           \/ Len(r) <= MaxBytes /\ error' = e /\ body' = r
           \/ Len(r) > MaxBytes /\ error' = "TooLarge" /\ body' = << >>
    PROVE  MeaningKept'
<1> DEFINE text == SubSeq(stream, b, pos)
<1>1. Chunks(text)[1] = e /\ Chunks(text)[2] = r
  <2> HIDE DEF text
  <2> QED BY DEF text
<1>2. Meaning(text, FALSE) = Verdict(e, r)
  BY <1>1 DEF Meaning, IsChunked
<1>3. Len(r) \in Nat /\ MaxBytes \in Nat
  BY EmptyText, WireAssumption
<1>4. Verdict(e, r) = [error |-> error', body |-> body']
  BY <1>3 DEF Verdict
<1> QED BY <1>2, <1>4, Concluded

\* The reader stays in its line and in its chunk.
LEMMA BodyFrame ==
    ASSUME BodyOK, UNCHANGED <<pc, stream, head, left, body>>, LineStart' = LineStart,
           Consumed \in Nat, Consumed' \in Nat, Consumed <= Consumed', Len(stream) \in Nat,
           pc = "plain" => Consumed' = Consumed
    PROVE  BodyOK'
<1> SUFFICES ASSUME pc \in {"plain"} \cup ChunkPcs
             PROVE  BodyOK'
  BY DEF BodyOK
<1>1. PICK b \in 2 .. LineStart + 1 :
            /\ FirstBlank(b - 1) /\ Len(body) <= MaxBytes
            /\ pc = "plain" => PlainFrom(b)
            /\ pc \in ChunkPcs => ChunksSoFar(b)
  BY DEF BodyOK
<1>2. FirstBlank(b - 1)'
  BY <1>1 DEF FirstBlank
<1>3. (IsChunked' <=> IsChunked) /\ ContentLength' = ContentLength
  BY SameHead
<1>4. ASSUME pc = "plain" PROVE PlainFrom(b)'
  BY <1>1, <1>3, <1>4 DEF PlainFrom
<1>5. ASSUME pc \in ChunkPcs PROVE ChunksSoFar(b)'
  <2>1. ChunksSoFar(b)
    BY <1>1, <1>5
  <2>2. IsChunked' /\ (pc' = "data" => left' >= 0)
    BY <1>3, <2>1 DEF ChunksSoFar
  <2>3. ASSUME NEW m \in Consumed' .. Len(stream')
        PROVE  LET text == SubSeq(stream', b, m)
                   rest == Rest(pc', left', text, LineStart' + 1 - b + 1)
               IN Chunks(text) = <<rest[1], body' \o rest[2]>>
    <3>1. m \in Consumed .. Len(stream)
      BY <2>3
    <3> QED BY <2>1, <3>1 DEF ChunksSoFar
  <2> QED BY <2>2, <2>3 DEF ChunksSoFar
<1> QED BY <1>1, <1>2, <1>4, <1>5 DEF BodyOK

\* The step of a reader that waits.
LEMMA FillKeeps ==
    ASSUME WireInv, Typed', Fill
    PROVE  WireInv'
<1> USE DEF WireInv
<1>0. /\ Len(stream) \in Nat /\ Consumed \in Nat /\ LineStart \in Nat /\ LineStart <= Consumed
  BY Spots
<1>1. ReaderOK' /\ Consumed' = Consumed /\ LineStart' = LineStart
  BY FillReads
<1>2. UNCHANGED <<current, hop, url, pc, stream, line, head, left, body, error>> /\ pc \notin {"done", "parse", "refused"}
  BY DEF Fill, NeedsMore, LineStates
<1>3. HeadOK'
  BY <1>1, <1>2 DEF HeadOK
<1>4. BodyOK'
  BY <1>0, <1>1, <1>2, BodyFrame
<1>5. HopOK'
  BY <1>2 DEF HopOK
<1>6. MeaningKept' /\ BodyLater'
  BY <1>2 DEF MeaningKept, BodyLater
<1> QED BY <1>1, <1>3, <1>4, <1>5, <1>6

\* The start of an exchange.
LEMMA StartHopKeeps ==
    ASSUME WireInv, Typed', StartHop
    PROVE  WireInv'
<1> USE DEF WireInv
<1>1. ReaderOK' /\ Consumed' = 0 /\ LineStart' = 0
  BY StartHopReads
<1>2. /\ pc = "parse" /\ body' = body /\ body = << >>
      /\ \/ pc' = "refused" /\ (UNCHANGED url \/ url' = Bad)
         \/ pc' = "status" /\ url' = parseUrl(current) /\ url' # Bad
      /\ UNCHANGED <<current, hop>>
  BY DEF StartHop, Finish, BodyLater
<1>3. HeadOK'
  BY <1>1, <1>2 DEF HeadOK
<1>4. BodyOK' /\ BodyLater' /\ MeaningKept'
  BY <1>2 DEF BodyOK, BodyLater, MeaningKept, ChunkPcs
<1>5. HopOK'
  <2>1. current \in Text
    BY DEF Typed
  <2>2. url' = Bad \/ UrlOK(url')
    BY <1>2, <2>1, ParsedIs DEF HopOK
  <2> QED BY <1>2, <2>2 DEF HopOK
<1> QED BY <1>1, <1>3, <1>4, <1>5

\* The ways an exchange ends before there is a body.
LEMMA RefusedKeeps ==
    ASSUME WireInv, Typed', ReaderOK', pc' = "refused", UNCHANGED url
    PROVE  WireInv'
<1> USE DEF WireInv
<1>1. HeadOK' /\ BodyOK' /\ BodyLater' /\ MeaningKept'
  BY DEF HeadOK, BodyOK, BodyLater, MeaningKept, ChunkPcs
<1>2. HopOK'
  BY DEF HopOK
<1> QED BY <1>1, <1>2

\* What else holds when it ends in the body.
LEMMA DoneKeeps ==
    ASSUME WireInv, Typed', ReaderOK', MeaningKept', pc' = "done",
           pc \in {"plain"} \cup ChunkPcs, UNCHANGED url
    PROVE  WireInv'
<1> USE DEF WireInv
<1>1. HeadOK' /\ BodyOK' /\ BodyLater'
  BY DEF HeadOK, BodyOK, BodyLater, ChunkPcs
<1>2. HopOK'
  BY DEF HopOK, ChunkPcs
<1> QED BY <1>1, <1>2

\* The body so far, when the exchange ends with it.
LEMMA VerdictIs ==
    ASSUME NEW err, NEW bytes \in Text
    PROVE  /\ Len(bytes) <= MaxBytes => Verdict(err, bytes) = [error |-> err, body |-> bytes]
           /\ Len(bytes) > MaxBytes => Verdict(err, bytes) = [error |-> "TooLarge", body |-> << >>]
<1>1. Len(bytes) \in Nat /\ MaxBytes \in Nat
  BY EmptyText, WireAssumption
<1> QED BY <1>1 DEF Verdict

\* A chunked body ends with nothing more to come but how it ends.
LEMMA ChunkedStops ==
    ASSUME Typed, ReaderOK, NEW b \in 2 .. LineStart + 1, FirstBlank(b - 1), UNCHANGED <<stream, pos, head, body>>,
           ChunksSoFar(b), Len(body) <= MaxBytes,
           Rest(pc, left, SubSeq(stream, b, pos), LineStart + 1 - b + 1) = <<error', << >> >>
    PROVE  MeaningKept'
<1>0. /\ Len(stream) \in Nat /\ pos \in Nat /\ Consumed \in Nat /\ LineStart \in Nat
      /\ pos <= Len(stream) /\ Consumed <= pos /\ LineStart <= Consumed /\ body \in Text
  BY Spots DEF Typed
<1>1. pos \in Consumed .. Len(stream) /\ b \in 2 .. pos + 1
  BY <1>0
<1> DEFINE text == SubSeq(stream, b, pos)
           rest == Rest(pc, left, text, LineStart + 1 - b + 1)
<1>2. Chunks(text) = <<rest[1], body \o rest[2]>> /\ IsChunked
  BY <1>1 DEF ChunksSoFar
<1>3. rest[1] = error' /\ rest[2] = << >>
  <2> HIDE DEF rest
  <2>1. rest = <<error', << >> >>
    BY DEF rest
  <2> QED BY <2>1
<1>4. body \o << >> = body
  BY <1>0, JoinEmpty
<1> HIDE DEF rest, text
<1>5. Chunks(text) = <<error', body>>
  BY <1>2, <1>3, <1>4
<1> QED BY <1>0, <1>1, <1>2, <1>5, ChunkedEnds DEF text

\* The peer closes.
LEMMA EofKeeps ==
    ASSUME WireInv, Typed', NEW silent \in BOOLEAN, Eof(silent)
    PROVE  WireInv'
<1> USE DEF WireInv
<1>0. /\ Len(stream) \in Nat /\ pos \in Nat /\ Consumed \in Nat /\ LineStart \in Nat
      /\ pos <= Len(stream) /\ Consumed <= pos /\ LineStart <= Consumed
      /\ Len(buffer) = pos - Consumed /\ stream \in Text /\ body \in Text /\ left \in Int
  BY Spots DEF Typed
<1>1. UNCHANGED <<current, hop, url, stream, pos, buffer, line, head, left, body>> /\ NeedsMore
  BY DEF Eof
<1>2. Consumed = pos
  <2>1. Len(buffer) = 0
    BY <1>1, EmptyText DEF NeedsMore
  <2> QED BY <1>0, <2>1
<1>3. pc' \notin {"plain", "data"}
  BY DEF Eof, Finish
<1>4. ReaderOK'
  BY <1>1, <1>3, Unmoved
<1>5. CASE pc \in {"status", "headers"}
  <2>1. pc' = "refused"
    BY <1>5 DEF Eof, Finish
  <2> QED BY <1>1, <1>4, <2>1, RefusedKeeps
<1>6. CASE pc \in {"plain"} \cup ChunkPcs
  <2>1. pc' = "done" /\ error' = IF pc = "trailer" \/ (pc = "plain" /\ left < 0 /\ ~ silent) THEN "ok" ELSE "Io"
    BY <1>6 DEF Eof, Finish, ChunkPcs
  <2>2. PICK b \in 2 .. LineStart + 1 :
            /\ FirstBlank(b - 1) /\ Len(body) <= MaxBytes
            /\ pc = "plain" => PlainFrom(b)
            /\ pc \in ChunkPcs => ChunksSoFar(b)
    BY <1>6 DEF BodyOK
  <2>3. b \in 2 .. pos + 1 /\ b \in Nat \ {0} /\ b <= LineStart + 1
    BY <1>0, <2>2
  <2> DEFINE text == SubSeq(stream, b, pos)
             p == LineStart + 1 - b + 1
  <2>4. MeaningKept'
    <3>1. CASE pc = "plain"
      <4>1. /\ ~ IsChunked /\ body = text
            /\ IF ContentLength < 0 THEN left < 0 ELSE left >= 0 /\ left = ContentLength - Len(body)
        BY <1>2, <2>2, <3>1 DEF PlainFrom
      <4>2. left # 0 /\ Len(body) \in Nat /\ ContentLength \in Int
        BY <1>0, <1>1, <3>1, ContentLengthIs, EmptyText DEF NeedsMore, LineStates
      <4>3. Meaning(text, silent) = Verdict(error', body)
        <5>1. CASE ContentLength < 0
          <6>1. left < 0
            BY <4>1, <5>1
          <6>2. error' = IF silent THEN "Io" ELSE "ok"
            BY <2>1, <3>1, <6>1
          <6>3. Meaning(text, silent) = Verdict(IF silent THEN "Io" ELSE "ok", text)
            BY <4>1, <5>1 DEF Meaning, IsChunked
          <6> QED BY <4>1, <6>2, <6>3
        <5>2. CASE ~ (ContentLength < 0)
          <6>1. left > 0 /\ Len(body) < ContentLength
            BY <1>0, <4>1, <4>2, <5>2
          <6>2. error' = "Io"
            BY <1>0, <2>1, <3>1, <6>1
          <6>3. Meaning(text, silent) = Verdict("Io", text)
            <7>1. Len(text) < ContentLength
              BY <4>1, <6>1
            <7> QED BY <4>1, <5>2, <7>1 DEF Meaning, IsChunked
          <6> QED BY <4>1, <6>2, <6>3
        <5> QED BY <5>1, <5>2
      <4>4. Verdict(error', body) = [error |-> error', body |-> body']
        BY <1>0, <1>1, <2>2, VerdictIs
      <4> QED BY <1>1, <2>2, <2>3, <4>3, <4>4, Concluded
    <3>2. CASE pc \in ChunkPcs
      <4>1. Rest(pc, left, text, p) = <<error', << >> >>
        <5>1. ASSUME NEW k \in LineStart + 1 .. pos PROVE stream[k] # "LF"
          BY <1>2 DEF ReaderOK
        <5>2. ChunksFrom(text)[p] = <<"Io", << >> >> /\ Ending(text, p) = <<"Io", << >> >>
          <6>1. pos \in LineStart .. Len(stream)
            BY <1>0
          <6> QED BY <1>0, <2>3, <5>1, <6>1, NoLine
        <5>3. CASE pc = "size"
          <6>1. error' = "Io"
            BY <2>1, <5>3
          <6> QED BY <5>2, <5>3, <6>1 DEF Rest
        <5>4. CASE pc = "crlf"
          <6>1. error' = "Io"
            BY <2>1, <5>4
          <6> QED BY <5>2, <5>4, <6>1 DEF Rest
        <5>5. CASE pc = "trailer"
          <6>1. error' = "ok"
            BY <2>1, <5>5
          <6> QED BY <5>5, <6>1 DEF Rest
        <5>6. CASE pc = "data"
          <6>1. error' = "Io" /\ left > 0
            <7>1. left # 0 /\ left >= 0
              BY <1>1, <2>2, <3>2, <5>6 DEF NeedsMore, LineStates, ChunksSoFar
            <7> QED BY <1>0, <2>1, <5>6, <7>1
          <6>2. line = << >>
            BY <5>6 DEF ReaderOK
          <6>3. LineStart = pos
            BY <1>0, <1>2, <6>2, EmptyText DEF LineStart
          <6>4. text \in Text /\ Len(text) = pos - b + 1
            <7>1. pos \in 0 .. Len(stream) /\ b <= pos + 1
              BY <1>0, <2>3
            <7> QED BY <1>0, <2>3, <7>1, PieceIs
          <6> HIDE DEF text
          <6>5. p \in Nat \ {0} /\ p = Len(text) + 1 /\ Len(text) + 1 - p < left /\ p <= Len(text) + 1 /\ Len(text) = p - 1
            BY <1>0, <2>3, <6>1, <6>3, <6>4
          <6> HIDE DEF p
          <6>6. SubSeq(text, p, p - 1) = << >>
            BY <6>4, <6>5, NoPiece
          <6>7. From(text, p) = << >>
            BY <6>5, <6>6 DEF From
          <6>8. Within(text, p, left) = <<"Io", << >> >>
            BY <6>5, <6>7 DEF Within
          <6> QED BY <5>6, <6>1, <6>8 DEF Rest
        <5> QED BY <3>2, <5>3, <5>4, <5>5, <5>6 DEF ChunkPcs
      <4>2. ChunksSoFar(b)
        BY <2>2, <3>2
      <4> QED BY <1>1, <2>2, <4>1, <4>2, ChunkedStops
    <3> QED BY <1>6, <3>1, <3>2
  <2> QED BY <1>1, <1>4, <1>6, <2>1, <2>4, DoneKeeps
<1>7. pc \in {"status", "headers"} \cup {"plain"} \cup ChunkPcs
  BY <1>1 DEF NeedsMore, LineStates, ChunkPcs
<1> QED BY <1>5, <1>6, <1>7

\* All that was wanted is there.
LEMMA PumpDoneKeeps ==
    ASSUME WireInv, Typed', PumpDone
    PROVE  WireInv'
<1> USE DEF WireInv
<1>0. /\ Len(stream) \in Nat /\ pos \in Nat /\ Consumed \in Nat /\ LineStart \in Nat
      /\ pos <= Len(stream) /\ Consumed <= pos /\ LineStart <= Consumed
      /\ stream \in Text /\ body \in Text /\ Len(body) \in Nat
  BY Spots, EmptyText DEF Typed
<1>1. /\ UNCHANGED <<current, hop, url, stream, pos, buffer, line, head, left, body>>
      /\ pc \in {"plain", "data"} /\ left = 0
      /\ pc = "plain" => pc' = "done" /\ error' = "ok"
      /\ pc = "data" => pc' = "crlf"
  BY DEF PumpDone, Finish
<1>2. ReaderOK' /\ Consumed' = Consumed /\ LineStart' = LineStart
  <2>1. pc' \notin {"plain", "data"}
    BY <1>1
  <2> QED BY <1>1, <2>1, Unmoved
<1>3. LineStart = Consumed
  <2>1. line = << >>
    BY <1>1 DEF ReaderOK
  <2> QED BY <1>0, <2>1, EmptyText DEF LineStart
<1>4. PICK b \in 2 .. LineStart + 1 :
          /\ FirstBlank(b - 1) /\ Len(body) <= MaxBytes
          /\ pc = "plain" => PlainFrom(b)
          /\ pc \in ChunkPcs => ChunksSoFar(b)
  BY <1>1 DEF BodyOK, ChunkPcs
<1>5. b \in 2 .. pos + 1 /\ b \in Nat \ {0} /\ b <= LineStart + 1
  BY <1>0, <1>4
<1>6. CASE pc = "plain"
  <2> DEFINE text == SubSeq(stream, b, pos)
             n == Len(body)
  <2>1. /\ ~ IsChunked /\ body = SubSeq(stream, b, Consumed)
        /\ IF ContentLength < 0 THEN left < 0 ELSE left >= 0 /\ left = ContentLength - Len(body)
    BY <1>4, <1>6 DEF PlainFrom
  <2>2. ContentLength = n /\ ~ (ContentLength < 0)
    <3>1. ContentLength \in Int
      BY ContentLengthIs
    <3> QED BY <1>0, <1>1, <2>1, <3>1
  <2>3. n = Consumed - b + 1
    <3>1. Consumed \in 0 .. Len(stream) /\ b <= Consumed + 1
      BY <1>0, <1>3, <1>5
    <3> QED BY <1>0, <1>5, <2>1, <3>1, PieceIs
  <2>4. text \in Text /\ Len(text) = pos - b + 1
    <3>1. pos \in 0 .. Len(stream) /\ b <= pos + 1
      BY <1>0, <1>5
    <3> QED BY <1>0, <1>5, <3>1, PieceIs
  <2>5. To(text, n) = body
    <3> HIDE DEF n
    <3>1. /\ pos \in 0 .. Len(stream) /\ b <= pos + 1 /\ 1 \in Nat \ {0} /\ n \in Nat
          /\ n <= pos - b + 1 /\ 1 <= n + 1 /\ b + 1 - 1 = b /\ b + n - 1 = Consumed
      BY <1>0, <1>3, <1>5, <2>3
    <3>2. SubSeq(SubSeq(stream, b, pos), 1, n) = SubSeq(stream, b + 1 - 1, b + n - 1)
      BY <1>0, <1>5, <3>1, PieceOfPiece
    <3> QED BY <2>1, <3>1, <3>2 DEF To
  <2>6. Meaning(text, FALSE) = Verdict("ok", body)
    <3>1. ~ (Len(text) < ContentLength)
      <4> HIDE DEF text
      <4> QED BY <1>0, <2>2, <2>3, <2>4, <1>5
    <3> QED BY <2>1, <2>2, <2>5, <3>1 DEF Meaning, IsChunked
  <2>7. Verdict("ok", body) = [error |-> error', body |-> body']
    BY <1>0, <1>1, <1>4, <1>6, VerdictIs
  <2>8. MeaningKept'
    BY <1>1, <1>4, <1>5, <2>6, <2>7, Concluded
  <2> QED BY <1>1, <1>2, <1>6, <2>8, DoneKeeps
<1>7. CASE pc = "data"
  <2>1. HeadOK' /\ BodyLater' /\ MeaningKept'
    BY <1>1, <1>7 DEF HeadOK, BodyLater, MeaningKept
  <2>2. HopOK'
    BY <1>1, <1>7 DEF HopOK
  <2>3. BodyOK'
    <3>1. ChunksSoFar(b)'
      <4>1. ChunksSoFar(b) /\ (IsChunked' <=> IsChunked)
        BY <1>1, <1>4, <1>7, SameHead DEF ChunkPcs
      <4>2. ASSUME NEW m \in Consumed' .. Len(stream')
            PROVE  LET text == SubSeq(stream', b, m)
                       rest == Rest(pc', left', text, LineStart' + 1 - b + 1)
                   IN Chunks(text) = <<rest[1], body' \o rest[2]>>
        <5> DEFINE text == SubSeq(stream, b, m)
                   p == LineStart + 1 - b + 1
        <5>1. m \in Consumed .. Len(stream) /\ m \in 0 .. Len(stream) /\ b <= m + 1
          BY <1>0, <1>1, <1>2, <1>3, <1>5, <4>2
        <5>2. text \in Text /\ Len(text) = m - b + 1
          BY <1>0, <1>5, <5>1, PieceIs
        <5>3. p \in 1 .. Len(text) + 1
          <6> HIDE DEF text
          <6> QED BY <1>0, <1>3, <1>5, <5>1, <5>2
        <5>4. Chunks(text) = <<Rest(pc, left, text, p)[1], body \o Rest(pc, left, text, p)[2]>>
          BY <4>1, <5>1 DEF ChunksSoFar
        <5> HIDE DEF text, p
        <5>5. Within(text, p, 0) = Ending(text, p)
          BY <5>2, <5>3, WithinZero
        <5>6. Rest(pc, left, text, p) = Rest(pc', left', text, p)
          BY <1>1, <1>7, <5>5 DEF Rest
        <5> QED BY <1>1, <1>2, <5>4, <5>6 DEF text, p
      <4> QED BY <1>1, <1>7, <4>1, <4>2 DEF ChunksSoFar
    <3>2. FirstBlank(b - 1)' /\ Len(body') <= MaxBytes /\ b \in 2 .. LineStart' + 1
      BY <1>1, <1>2, <1>4 DEF FirstBlank
    <3> QED BY <1>1, <1>7, <3>1, <3>2 DEF BodyOK
  <2> QED BY <1>2, <2>1, <2>2, <2>3
<1> QED BY <1>1, <1>6, <1>7

\* A slice goes to the sink.
LEMMA PumpKeeps ==
    ASSUME WireInv, Typed', Pump
    PROVE  WireInv'
<1> USE DEF WireInv
<1> DEFINE n == Slice(Len(buffer))
           c == Consumed
<1>0. /\ Len(stream) \in Nat /\ pos \in Nat /\ c \in Nat /\ LineStart \in Nat
      /\ pos <= Len(stream) /\ c <= pos /\ LineStart <= c /\ Len(buffer) = pos - c
      /\ stream \in Text /\ body \in Text /\ Len(body) \in Nat /\ buffer \in Text /\ left \in Int
      /\ MaxBytes \in Nat
  BY Spots, EmptyText, WireAssumption DEF Typed
<1>1. /\ UNCHANGED <<current, hop, url, stream, pos, line, head>>
      /\ pc \in {"plain", "data"} /\ left # 0 /\ Len(buffer) # 0
      /\ \/ /\ Len(body) + n > MaxBytes
            /\ Finish("TooLarge") /\ body' = << >> /\ UNCHANGED <<left, buffer>>
         \/ /\ Len(body) + n <= MaxBytes
            /\ body' = body \o To(buffer, n)
            /\ buffer' = Unread(n)
            /\ left' = IF left < 0 THEN left ELSE left - n
            /\ UNCHANGED <<pc, error>>
  <2>1. buffer # << >>
    BY DEF Pump
  <2> QED BY <1>0, <2>1, EmptyText DEF Pump
<1>2. n \in 0 .. Len(buffer) /\ n \in Nat /\ (left < 0 => n = Len(buffer))
      /\ (left >= 0 => n <= left /\ (n = left \/ n = Len(buffer)))
  BY <1>0, <1>1 DEF Slice
<1> HIDE DEF n, c
<1>3. LineStart = c
  <2>1. line = << >>
    BY <1>1 DEF ReaderOK
  <2> QED BY <1>0, <2>1, EmptyText DEF LineStart, c
<1>4. PICK b \in 2 .. LineStart + 1 :
          /\ FirstBlank(b - 1) /\ Len(body) <= MaxBytes
          /\ pc = "plain" => PlainFrom(b)
          /\ pc \in ChunkPcs => ChunksSoFar(b)
  BY <1>1 DEF BodyOK, ChunkPcs
<1>5. b \in 2 .. pos + 1 /\ b \in Nat \ {0} /\ b <= c + 1 /\ c + n <= pos /\ c + n \in Nat
  BY <1>0, <1>2, <1>3, <1>4
<1> DEFINE more == SubSeq(stream, c + 1, c + n)
<1>6. /\ To(buffer, n) = more
      /\ UNCHANGED <<stream, pos, line>> /\ buffer' = Unread(n) =>
             ReaderOK' /\ Consumed' = c + n /\ LineStart' = c + n
  BY <1>1, <1>2, PumpReads DEF c
<1>7. more \in Text /\ Len(more) = n
  <2>1. c + 1 \in Nat \ {0} /\ c + n \in 0 .. Len(stream) /\ c + 1 <= (c + n) + 1 /\ (c + n) - (c + 1) + 1 = n
    BY <1>0, <1>2, <1>5
  <2> QED BY <1>0, <2>1, PieceIs
<1> HIDE DEF more
<1>8. \* what the slice is in any text behind the head
      ASSUME NEW m \in c + n .. Len(stream)
      PROVE  LET text == SubSeq(stream, b, m)
                 p == c + 1 - b + 1
             IN /\ text \in Text /\ Len(text) = m - b + 1 /\ p \in 1 .. Len(text) + 1
                /\ n <= Len(text) + 1 - p
                /\ SubSeq(text, p, p + n - 1) = more
  <2> DEFINE text == SubSeq(stream, b, m)
             p == c + 1 - b + 1
             e == p + n - 1
  <2>1. m \in 0 .. Len(stream) /\ b <= m + 1 /\ m \in Nat /\ c + n <= m
    BY <1>0, <1>2, <1>5
  <2>2. text \in Text /\ Len(text) = m - b + 1
    BY <1>0, <1>5, <2>1, PieceIs
  <2> HIDE DEF text
  <2>3. /\ p \in 1 .. Len(text) + 1 /\ n <= Len(text) + 1 - p
        /\ p \in Nat \ {0} /\ e \in Nat /\ e <= m - b + 1 /\ p <= e + 1
        /\ b + p - 1 = c + 1 /\ b + e - 1 = c + n
    BY <1>0, <1>2, <1>5, <2>1, <2>2
  <2> HIDE DEF p, e
  <2>4. SubSeq(SubSeq(stream, b, m), p, e) = SubSeq(stream, b + p - 1, b + e - 1)
    BY <1>0, <1>5, <2>1, <2>3, PieceOfPiece
  <2>5. SubSeq(text, p, e) = more
    BY <2>3, <2>4 DEF text, more
  <2> QED BY <2>2, <2>3, <2>5 DEF text, p, e
<1>9. CASE Finish("TooLarge") /\ Len(body) + n > MaxBytes /\ body' = << >> /\ UNCHANGED <<left, buffer>>
  <2>1. pc' = "done" /\ error' = "TooLarge"
    BY <1>1, <1>9 DEF Finish
  <2>2. ReaderOK'
    BY <1>1, <1>9, <2>1, Unmoved
  <2> DEFINE text == SubSeq(stream, b, pos)
             p == c + 1 - b + 1
  <2>3. /\ text \in Text /\ Len(text) = pos - b + 1 /\ p \in 1 .. Len(text) + 1
        /\ n <= Len(text) + 1 - p /\ SubSeq(text, p, p + n - 1) = more
    <3>1. pos \in c + n .. Len(stream)
      BY <1>0, <1>5
    <3> QED BY <1>8, <3>1
  <2>4. MeaningKept'
    <3>1. CASE pc = "plain"
      <4>1. /\ ~ IsChunked /\ body = SubSeq(stream, b, c)
            /\ IF ContentLength < 0 THEN left < 0 ELSE left >= 0 /\ left = ContentLength - Len(body)
        BY <1>4, <3>1 DEF PlainFrom, c
      <4>2. Len(body) = c - b + 1
        <5>1. c \in 0 .. Len(stream) /\ b <= c + 1
          BY <1>0, <1>5
        <5> QED BY <1>0, <1>5, <4>1, <5>1, PieceIs
      <4>3. ContentLength \in Int
        BY ContentLengthIs
      <4> HIDE DEF text
      <4>4. \E err : \E r \in Text : Meaning(text, FALSE) = Verdict(err, r) /\ Len(r) >= Len(body) + n
        <5>1. CASE ContentLength < 0
          <6>1. Meaning(text, FALSE) = Verdict("ok", text)
            BY <4>1, <5>1 DEF Meaning, IsChunked
          <6>2. Len(text) >= Len(body) + n
            BY <1>0, <1>2, <1>5, <2>3, <4>1, <4>2, <5>1
          <6> QED BY <2>3, <6>1, <6>2
        <5>2. CASE ~ (ContentLength < 0) /\ Len(text) < ContentLength
          <6>1. Meaning(text, FALSE) = Verdict("Io", text)
            BY <4>1, <5>2 DEF Meaning, IsChunked
          <6>2. Len(text) >= Len(body) + n
            BY <1>0, <1>2, <1>5, <2>3, <4>2
          <6> QED BY <2>3, <6>1, <6>2
        <5>3. CASE ~ (ContentLength < 0) /\ ~ (Len(text) < ContentLength)
          <6>1. Meaning(text, FALSE) = Verdict("ok", To(text, ContentLength))
            BY <4>1, <5>3 DEF Meaning, IsChunked
          <6>2. left >= 0 /\ left = ContentLength - Len(body)
            BY <4>1, <5>3
          <6>3. ContentLength \in 0 .. Len(text)
            BY <1>0, <2>3, <4>3, <5>3, <1>5
          <6>4. To(text, ContentLength) \in Text /\ Len(To(text, ContentLength)) = ContentLength
            BY <2>3, <6>3, ToIs
          <6>5. ContentLength >= Len(body) + n
            BY <1>0, <1>2, <4>3, <6>2
          <6> QED BY <6>1, <6>4, <6>5
        <5> QED BY <5>1, <5>2, <5>3
      <4>5. PICK err : \E r \in Text : Meaning(text, FALSE) = Verdict(err, r) /\ Len(r) >= Len(body) + n
        BY <4>4
      <4>6. PICK r \in Text : Meaning(text, FALSE) = Verdict(err, r) /\ Len(r) >= Len(body) + n
        BY <4>5
      <4>7. Len(r) > MaxBytes
        <5>1. Len(r) \in Nat
          BY EmptyText
        <5> QED BY <1>0, <1>2, <1>9, <4>6, <5>1
      <4>8. Verdict(err, r) = [error |-> error', body |-> body']
        BY <1>9, <2>1, <4>7, VerdictIs
      <4>9. [error |-> error', body |-> body'] = Meaning(SubSeq(stream, b, pos), FALSE)
        BY <4>6, <4>8 DEF text
      <4> QED BY <1>1, <1>4, <1>5, <4>9, Concluded
    <3>2. CASE pc = "data"
      <4>1. ChunksSoFar(b) /\ left >= 0
        BY <1>4, <3>2 DEF ChunkPcs, ChunksSoFar
      <4> DEFINE w == Within(text, p, left)
                 x == Within(text, p + n, left - n)
                 r == body \o (more \o x[2])
      <4>2. Chunks(text) = <<w[1], body \o w[2]>> /\ IsChunked
        <5>1. pos \in Consumed .. Len(stream) /\ p = LineStart + 1 - b + 1
          BY <1>0, <1>3 DEF c
        <5>2. Chunks(text) = <<Rest(pc, left, text, p)[1], body \o Rest(pc, left, text, p)[2]>> /\ IsChunked
          BY <4>1, <5>1 DEF ChunksSoFar
        <5>3. Rest(pc, left, text, p) = w
          BY <3>2 DEF Rest
        <5> QED BY <5>2, <5>3
      <4> HIDE DEF text, p
      <4>3. x \in Outcomes /\ w = <<x[1], more \o x[2]>>
        <5>1. left \in Nat /\ n \in 0 .. left
          BY <1>0, <1>2, <4>1
        <5>2. x \in Outcomes /\ w = <<x[1], SubSeq(text, p, p + n - 1) \o x[2]>>
          BY <2>3, <5>1, WithinStep
        <5> QED BY <2>3, <5>2
      <4> HIDE DEF w, x
      <4>4. x[2] \in Text /\ w[1] = x[1] /\ w[2] = more \o x[2]
        BY <4>3, OutcomeIs
      <4>5. more \o x[2] \in Text /\ Len(more \o x[2]) = n + Len(x[2]) /\ Len(x[2]) \in Nat
        BY <1>7, <4>4, JoinIs
      <4>6. r \in Text /\ Len(r) = Len(body) + Len(more \o x[2])
        <5> DEFINE y == more \o x[2]
        <5> HIDE DEF y
        <5>1. y \in Text
          BY <4>5 DEF y
        <5>2. body \o y \in Text /\ Len(body \o y) = Len(body) + Len(y)
          BY <1>0, <5>1, JoinIs
        <5> QED BY <5>2 DEF y
      <4> HIDE DEF r
      <4>7. Len(r) > MaxBytes
        BY <1>0, <1>2, <1>9, <4>5, <4>6
      <4>8. Chunks(text) = <<x[1], r>>
        BY <4>2, <4>4 DEF r
      <4>9. Chunks(SubSeq(stream, b, pos)) = <<x[1], r>>
        BY <4>8 DEF text
      <4> QED BY <1>1, <1>4, <1>5, <1>9, <2>1, <4>2, <4>6, <4>7, <4>9, ChunkedEnds
    <3> QED BY <1>1, <3>1, <3>2
  <2> QED BY <1>1, <2>1, <2>2, <2>4, DoneKeeps DEF ChunkPcs
<1>10. CASE /\ Len(body) + n <= MaxBytes
            /\ body' = body \o To(buffer, n)
            /\ buffer' = Unread(n)
            /\ left' = IF left < 0 THEN left ELSE left - n
            /\ UNCHANGED <<pc, error>>
  <2>1. ReaderOK' /\ Consumed' = c + n /\ LineStart' = c + n
    BY <1>1, <1>6, <1>10
  <2>2. HeadOK' /\ BodyLater' /\ MeaningKept'
    BY <1>1, <1>10 DEF HeadOK, BodyLater, MeaningKept
  <2>3. HopOK'
    BY <1>1, <1>10 DEF HopOK
  <2>4. body' = body \o more /\ Len(body') = Len(body) + n /\ Len(body') <= MaxBytes
    <3>1. Len(body \o more) = Len(body) + Len(more)
      BY <1>0, <1>7, JoinIs
    <3> QED BY <1>6, <1>7, <1>10, <3>1
  <2>5. FirstBlank(b - 1)' /\ b \in 2 .. LineStart' + 1
    <3>1. b \in 2 .. (c + n) + 1
      BY <1>0, <1>2, <1>5
    <3> QED BY <1>1, <1>4, <2>1, <3>1 DEF FirstBlank
  <2>6. (IsChunked' <=> IsChunked) /\ ContentLength' = ContentLength
    BY <1>1, SameHead
  <2>7. ASSUME pc = "plain" PROVE PlainFrom(b)'
    <3>1. /\ ~ IsChunked /\ body = SubSeq(stream, b, c)
          /\ IF ContentLength < 0 THEN left < 0 ELSE left >= 0 /\ left = ContentLength - Len(body)
      BY <1>4, <2>7 DEF PlainFrom, c
    <3>2. SubSeq(stream, b, c) \o SubSeq(stream, c + 1, c + n) = SubSeq(stream, b, c + n)
      <4> DEFINE e == c + n
      <4>1. e \in 0 .. Len(stream) /\ b <= c + 1 /\ c <= e /\ c \in Nat
        BY <1>0, <1>2, <1>5
      <4> HIDE DEF e
      <4>2. SubSeq(stream, b, c) \o SubSeq(stream, c + 1, e) = SubSeq(stream, b, e)
        BY <1>0, <1>5, <4>1, JoinPieces
      <4> QED BY <4>2 DEF e
    <3>3. body' = SubSeq(stream', b, Consumed')
      BY <1>1, <2>1, <2>4, <3>1, <3>2 DEF more
    <3>4. ContentLength < 0 => left' < 0
      BY <1>10, <3>1
    <3>5. ~ (ContentLength < 0) => left' >= 0 /\ left' = ContentLength - Len(body')
      <4> SUFFICES ASSUME ~ (ContentLength < 0) PROVE left' >= 0 /\ left' = ContentLength - Len(body')
        OBVIOUS
      <4>1. ContentLength \in Int /\ left >= 0 /\ left = ContentLength - Len(body)
        BY <3>1, ContentLengthIs
      <4>2. ~ (left < 0) /\ n <= left
        BY <1>0, <1>2, <4>1
      <4>3. left' = left - n
        BY <1>10, <4>2
      <4> QED BY <1>0, <1>2, <2>4, <4>1, <4>2, <4>3
    <3> QED BY <2>6, <3>1, <3>3, <3>4, <3>5 DEF PlainFrom
  <2>8. ASSUME pc = "data" PROVE ChunksSoFar(b)'
    <3>1. ChunksSoFar(b) /\ left >= 0
      BY <1>4, <2>8 DEF ChunkPcs, ChunksSoFar
    <3>2. left \in Nat /\ n \in 0 .. left /\ left' = left - n /\ left' >= 0
      BY <1>0, <1>2, <1>10, <3>1
    <3>3. ASSUME NEW m \in Consumed' .. Len(stream')
          PROVE  LET text == SubSeq(stream', b, m)
                     rest == Rest(pc', left', text, LineStart' + 1 - b + 1)
                 IN Chunks(text) = <<rest[1], body' \o rest[2]>>
      <4> DEFINE text == SubSeq(stream, b, m)
                 p == c + 1 - b + 1
                 w == Within(text, p, left)
                 x == Within(text, p + n, left - n)
      <4>0. m \in c + n .. Len(stream) /\ m \in c .. Len(stream) /\ m \in Consumed .. Len(stream)
        BY <1>0, <1>1, <1>2, <2>1, <3>3 DEF c
      <4>1. /\ text \in Text /\ p \in 1 .. Len(text) + 1
            /\ n <= Len(text) + 1 - p /\ SubSeq(text, p, p + n - 1) = more
        BY <1>8, <4>0
      <4>2. Chunks(text) = <<w[1], body \o w[2]>>
        <5>1. p = LineStart + 1 - b + 1
          BY <1>3
        <5>2. Chunks(text) = <<Rest(pc, left, text, p)[1], body \o Rest(pc, left, text, p)[2]>>
          BY <3>1, <4>0, <5>1 DEF ChunksSoFar
        <5>3. Rest(pc, left, text, p) = w
          BY <2>8 DEF Rest
        <5> QED BY <5>2, <5>3
      <4>3. Rest(pc', left', text, LineStart' + 1 - b + 1) = x
        <5>1. LineStart' + 1 - b + 1 = p + n
          BY <1>0, <1>2, <1>5, <2>1
        <5>2. pc' = "data" /\ left' = left - n
          BY <1>10, <2>8, <3>2
        <5> HIDE DEF text, p
        <5> QED BY <5>1, <5>2 DEF Rest
      <4> HIDE DEF text, p
      <4>4. x \in Outcomes /\ w = <<x[1], more \o x[2]>>
        <5>1. x \in Outcomes /\ w = <<x[1], SubSeq(text, p, p + n - 1) \o x[2]>>
          BY <3>2, <4>1, WithinStep
        <5> QED BY <4>1, <5>1
      <4> HIDE DEF w, x
      <4>5. x[2] \in Text /\ w[1] = x[1] /\ w[2] = more \o x[2]
        BY <4>4, OutcomeIs
      <4>6. (body \o more) \o x[2] = body \o (more \o x[2])
        BY <1>0, <1>7, <4>5, JoinJoin
      <4>7. Chunks(text) = <<x[1], body' \o x[2]>>
        BY <2>4, <4>2, <4>5, <4>6
      <4>8. SubSeq(stream', b, m) = text
        BY <1>1 DEF text
      <4> QED BY <4>3, <4>7, <4>8
    <3> QED BY <1>10, <2>6, <2>8, <3>1, <3>2, <3>3 DEF ChunksSoFar
  <2>9. BodyOK'
    <3>1. pc' = pc /\ (pc' \in ChunkPcs => pc = "data")
      BY <1>1, <1>10 DEF ChunkPcs
    <3> QED BY <2>4, <2>5, <2>7, <2>8, <3>1 DEF BodyOK
  <2> QED BY <2>1, <2>2, <2>3, <2>9
<1> QED BY <1>1, <1>9, <1>10

\* A line at its limit.
LEMMA TooLongKeeps ==
    ASSUME WireInv, Typed', pc \in LineStates,
           LET lf == Find(buffer, {"LF"})
           IN TooLong(line \o (IF lf = 0 THEN buffer ELSE To(buffer, lf - 1))),
           Finish(IF pc = "trailer" THEN "ok" ELSE "Io"),
           UNCHANGED <<current, hop, head, left, buffer, line, url, stream, pos, body>>
    PROVE  WireInv'
<1> USE DEF WireInv
<1> DEFINE lf == Find(buffer, {"LF"})
           text == line \o (IF lf = 0 THEN buffer ELSE To(buffer, lf - 1))
           q == LineStart + 1
           j == Consumed + lf
<1>0. /\ Len(stream) \in Nat /\ pos \in Nat /\ Consumed \in Nat /\ LineStart \in Nat
      /\ pos <= Len(stream) /\ Consumed <= pos /\ LineStart <= Consumed
      /\ stream \in Text /\ body \in Text /\ MaxLine \in Nat
  BY Spots, WireAssumption DEF Typed
<1>1. pc' \notin {"plain", "data"}
  BY DEF Finish
<1>2. ReaderOK'
  BY <1>1, Unmoved
<1>3. CASE pc \in {"status", "headers"}
  <2>1. pc' = "refused"
    BY <1>3 DEF Finish
  <2> QED BY <1>2, <2>1, RefusedKeeps
<1>4. CASE pc \in {"size", "crlf", "trailer"}
  <2>1. pc' = "done" /\ error' = IF pc = "trailer" THEN "ok" ELSE "Io"
    BY <1>4 DEF Finish
  <2>2. PICK b \in 2 .. LineStart + 1 :
            FirstBlank(b - 1) /\ Len(body) <= MaxBytes /\ ChunksSoFar(b)
    BY <1>4 DEF BodyOK, ChunkPcs
  <2>3. b \in Nat \ {0} /\ b <= LineStart + 1 /\ pos \in LineStart .. Len(stream)
    BY <1>0, <2>2
  <2>4. ASSUME NEW k \in LineStart + 1 .. pos, stream[k] = "LF" PROVE k - (LineStart + 1) > MaxLine
    <3>1. /\ lf \in Nat
          /\ lf = 0 => /\ \A i \in q .. pos : stream[i] # "LF"
          /\ lf # 0 => /\ j \in Consumed + 1 .. pos /\ \A i \in q .. j - 1 : stream[i] # "LF"
                       /\ Len(text) = j - q
      BY LineSeen
    <3>2. Len(text) > MaxLine
      BY DEF TooLong
    <3> HIDE DEF text, lf
    <3>3. lf # 0
      BY <2>4, <3>1
    <3>4. k \notin q .. j - 1
      BY <2>4, <3>1, <3>3
    <3>5. k >= j
      BY <1>0, <3>1, <3>3, <3>4
    <3> QED BY <1>0, <3>1, <3>2, <3>3, <3>5
  <2> DEFINE t == SubSeq(stream, b, pos)
             p == LineStart + 1 - b + 1
  <2>5. ChunksFrom(t)[p] = <<"Io", << >> >> /\ Ending(t, p) = <<"Io", << >> >>
    BY <1>0, <2>3, <2>4, NoLine
  <2> HIDE DEF t, p
  <2>6. Rest(pc, left, t, p) = <<error', << >> >>
    <3>1. CASE pc = "size"
      BY <2>1, <2>5, <3>1 DEF Rest
    <3>2. CASE pc = "crlf"
      BY <2>1, <2>5, <3>2 DEF Rest
    <3>3. CASE pc = "trailer"
      BY <2>1, <2>5, <3>3 DEF Rest
    <3> QED BY <1>4, <3>1, <3>2, <3>3
  <2>7. MeaningKept'
    BY <2>2, <2>6, ChunkedStops DEF t, p
  <2> QED BY <1>2, <1>4, <2>1, <2>7, DoneKeeps DEF ChunkPcs
<1> QED BY <1>3, <1>4 DEF LineStates

\* No line end in the buffer.
LEMMA PartKeeps ==
    ASSUME WireInv, Typed', pc \in LineStates,
           LET lf == Find(buffer, {"LF"})
           IN /\ lf = 0 /\ line' = line \o (IF lf = 0 THEN buffer ELSE To(buffer, lf - 1))
              /\ buffer' = << >>,
           UNCHANGED <<current, hop, head, left, pc, error, url, stream, pos, body>>
    PROVE  WireInv'
<1> USE DEF WireInv
<1>0. /\ Len(stream) \in Nat /\ pos \in Nat /\ Consumed \in Nat /\ LineStart \in Nat
      /\ pos <= Len(stream) /\ Consumed <= pos /\ LineStart <= Consumed
  BY Spots
<1>1. ReaderOK' /\ Consumed' = pos /\ LineStart' = LineStart
  BY ReadLineReads
<1>2. \A k \in LineStart + 1 .. pos : stream[k] # "LF"
  BY LineSeen
<1>3. HeadOK'
  <2> SUFFICES ASSUME pc \in {"status", "headers"} PROVE HeadOK'
    BY DEF HeadOK
  <2>1. ASSUME NEW j \in 1 .. pos PROVE ~ BlankAt(stream, j)
    <3>1. CASE j \in 1 .. Consumed
      BY <3>1 DEF HeadOK
    <3>2. CASE j \notin 1 .. Consumed
      <4>1. j \in LineStart + 1 .. pos
        BY <1>0, <3>2
      <4> QED BY <1>2, <4>1 DEF BlankAt
    <3> QED BY <3>1, <3>2
  <2> QED BY <1>1, <2>1 DEF HeadOK
<1>4. BodyOK'
  <2>1. pc # "plain"
    BY DEF LineStates
  <2>2. Consumed' \in Nat /\ Consumed <= Consumed'
    BY <1>0, <1>1
  <2> QED BY <1>0, <1>1, <2>1, <2>2, BodyFrame
<1>5. BodyLater' /\ MeaningKept'
  BY DEF BodyLater, MeaningKept, LineStates
<1>6. HopOK'
  BY SameHead DEF HopOK
<1> QED BY <1>1, <1>3, <1>4, <1>5, <1>6

\* The reader has moved behind the line that ends at j.
LineRead(j) ==
    /\ Typed' /\ ReaderOK' /\ Consumed' = j /\ LineStart' = j
    /\ j \in Nat /\ Consumed < j /\ j <= pos /\ stream[j] = "LF"
    /\ \A k \in LineStart + 1 .. j - 1 : stream[k] # "LF"
    /\ j - (LineStart + 1) <= MaxLine
    /\ UNCHANGED <<url, stream, pos, body>>

LineOf(j) == Stripped(SubSeq(stream, LineStart + 1, j - 1))

\* A line of the head does not end it, or is the blank one that does.
LEMMA HeadLine ==
    ASSUME WireInv, NEW j, LineRead(j), pc \in {"status", "headers"}
    PROVE  /\ pc = "status" \/ LineOf(j) # << >> => \A i \in 1 .. j : ~ BlankAt(stream, i)
           /\ pc = "headers" /\ LineOf(j) = << >> => FirstBlank(j)
<1> USE DEF WireInv
<1>0. /\ Len(stream) \in Nat /\ pos \in Nat /\ Consumed \in Nat /\ LineStart \in Nat
      /\ pos <= Len(stream) /\ Consumed <= pos /\ LineStart <= Consumed /\ stream \in Text
  BY Spots DEF Typed
<1>1. /\ j \in Nat /\ Consumed < j /\ j <= pos /\ stream[j] = "LF"
      /\ \A k \in LineStart + 1 .. j - 1 : stream[k] # "LF"
  BY DEF LineRead
<1>2. ASSUME NEW i \in 1 .. j - 1 PROVE ~ BlankAt(stream, i)
  <2>1. CASE i \in 1 .. Consumed
    BY <2>1 DEF HeadOK
  <2>2. CASE i \notin 1 .. Consumed
    <3>1. i \in LineStart + 1 .. j - 1
      BY <1>0, <1>1, <2>2
    <3> QED BY <1>1, <3>1 DEF BlankAt
  <2> QED BY <2>1, <2>2
<1>3. j \in LineStart + 1 .. Len(stream)
  BY <1>0, <1>1
<1>4. /\ LineStart = 0 => ~ BlankAt(stream, j)
      /\ LineStart > 0 /\ stream[LineStart] = "LF" => (BlankAt(stream, j) <=> LineOf(j) = << >>)
  BY <1>0, <1>1, <1>3, BlankLine DEF LineOf
<1>5. /\ pc = "status" => LineStart = 0
      /\ pc = "headers" => LineStart > 0 /\ stream[LineStart] = "LF"
  BY DEF HeadOK
<1>6. \A i \in 1 .. j : i \in 1 .. j - 1 \/ i = j
  BY <1>1
<1> QED BY <1>2, <1>4, <1>5, <1>6 DEF FirstBlank

\* The status line and the header lines.
LEMMA HeadLineKeeps ==
    ASSUME WireInv, NEW j, LineRead(j),
           pc = "status" \/ (pc = "headers" /\ LineOf(j) # << >>),
           pc' = "headers" \/ pc' = "refused"
    PROVE  WireInv'
<1> USE DEF WireInv
<1>1. /\ Typed' /\ ReaderOK' /\ Consumed' = j /\ LineStart' = j /\ j \in Nat /\ Consumed < j /\ Consumed \in Nat
      /\ stream[j] = "LF" /\ UNCHANGED <<url, stream, pos, body>>
  BY Spots DEF LineRead
<1>2. CASE pc' = "refused"
  BY <1>1, <1>2, RefusedKeeps
<1>3. CASE pc' = "headers"
  <2>1. \A i \in 1 .. j : ~ BlankAt(stream, i)
    BY HeadLine
  <2>2. body = << >> /\ j > 0
    BY <1>1 DEF HeadOK
  <2>3. HeadOK'
    BY <1>1, <1>3, <2>1, <2>2 DEF HeadOK
  <2>4. BodyOK' /\ BodyLater' /\ MeaningKept'
    BY <1>3 DEF BodyOK, BodyLater, MeaningKept, ChunkPcs
  <2>5. HopOK'
    BY <1>1, <1>3 DEF HopOK
  <2> QED BY <1>1, <2>3, <2>4, <2>5
<1> QED BY <1>2, <1>3

\* The blank line.
LEMMA HeadEndsKeeps ==
    ASSUME WireInv, NEW j, LineRead(j), pc = "headers", LineOf(j) = << >>, HeadEnds
    PROVE  WireInv'
<1> USE DEF WireInv
<1>0. /\ Len(stream) \in Nat /\ pos \in Nat /\ pos <= Len(stream) /\ stream \in Text /\ Consumed \in Nat
  BY Spots DEF Typed
<1>1. /\ Typed' /\ ReaderOK' /\ Consumed' = j /\ LineStart' = j /\ j \in Nat /\ j <= pos /\ Consumed < j
      /\ UNCHANGED <<url, stream, pos, body>>
  BY DEF LineRead
<1>2. FirstBlank(j) /\ body = << >> /\ head' = head
  BY HeadLine DEF HeadOK, HeadEnds
<1>3. (IsChunked' <=> IsChunked) /\ ContentLength' = ContentLength
      /\ Header(<<"Location">>)' = Header(<<"Location">>)
  BY <1>2, SameHead
<1>4. CASE /\ isRedirect(head.code) /\ Header(<<"Location">>) # << >>
           /\ current' = resolveRedirect(url, Header(<<"Location">>))
           /\ hop' = hop + 1 /\ pc' = "parse"
  <2>1. HeadOK' /\ BodyOK' /\ MeaningKept'
    BY <1>4 DEF HeadOK, BodyOK, MeaningKept, ChunkPcs
  <2>2. BodyLater'
    BY <1>1, <1>2 DEF BodyLater
  <2>3. HopOK'
    BY <1>1, <1>3, <1>4 DEF HopOK
  <2> QED BY <1>1, <2>1, <2>2, <2>3
<1>5. CASE Finish("Io") \/ Finish("HttpStatus")
  <2>1. pc' = "refused"
    BY <1>5 DEF Finish
  <2> QED BY <1>1, <2>1, RefusedKeeps
<1>6. CASE pc' = (IF IsChunked THEN "size" ELSE "plain") /\ left' = ContentLength
  <2> DEFINE b == j + 1
  <2>1. HeadOK' /\ BodyLater' /\ MeaningKept'
    BY <1>6 DEF HeadOK, BodyLater, MeaningKept
  <2>2. HopOK'
    BY <1>1, <1>6 DEF HopOK
  <2>3. b - 1 = j /\ b \in 2 .. LineStart' + 1 /\ b \in Nat \ {0} /\ b <= Len(stream) + 1
    BY <1>0, <1>1
  <2>4. FirstBlank(b - 1)' /\ Len(body') <= MaxBytes
    <3>1. MaxBytes \in Nat /\ Len(<< >>) = 0
      BY WireAssumption, EmptyText
    <3>2. Len(body') <= MaxBytes
      BY <1>1, <1>2, <3>1
    <3>3. FirstBlank(b - 1)
      BY <1>2, <2>3
    <3>4. FirstBlank(b - 1)'
      <4> HIDE DEF b
      <4> QED BY <1>1, <3>3 DEF FirstBlank
    <3> QED BY <3>2, <3>4
  <2>5. ASSUME pc' = "plain" PROVE PlainFrom(b)'
    <3>1. ~ IsChunked'
      BY <1>3, <1>6, <2>5
    <3>2. body' = SubSeq(stream', b, Consumed')
      <4>1. SubSeq(stream, b, b - 1) = << >>
        <5> HIDE DEF b
        <5> QED BY <1>0, <2>3, NoPiece
      <4> QED BY <1>1, <1>2, <2>3, <4>1
    <3>3. ContentLength' \in Int /\ left' = ContentLength' /\ Len(body') = 0
      BY <1>1, <1>2, <1>3, <1>6, ContentLengthIs, EmptyText
    <3>4. IF ContentLength' < 0 THEN left' < 0 ELSE left' >= 0 /\ left' = ContentLength' - Len(body')
      <4> DEFINE x == ContentLength'
                 y == Len(body')
      <4>1. x \in Int /\ left' = x /\ y = 0
        BY <3>3
      <4> HIDE DEF x, y
      <4>2. IF x < 0 THEN left' < 0 ELSE left' >= 0 /\ left' = x - y
        BY <4>1
      <4> QED BY <4>2 DEF x, y
    <3> QED BY <3>1, <3>2, <3>4 DEF PlainFrom
  <2>6. ASSUME pc' = "size" PROVE ChunksSoFar(b)'
    <3>1. IsChunked'
      BY <1>3, <1>6, <2>6
    <3>2. ASSUME NEW m \in Consumed' .. Len(stream')
          PROVE  LET text == SubSeq(stream', b, m)
                     rest == Rest(pc', left', text, LineStart' + 1 - b + 1)
                 IN Chunks(text) = <<rest[1], body' \o rest[2]>>
      <4> DEFINE text == SubSeq(stream, b, m)
                 x == ChunksFrom(text)[1]
      <4>1. m \in 0 .. Len(stream) /\ b <= m + 1 /\ LineStart' + 1 - b + 1 = 1
        BY <1>0, <1>1, <3>2
      <4>2. text \in Text /\ Len(text) \in Nat
        <5> HIDE DEF b
        <5>1. text \in Text
          BY <1>0, <2>3, <4>1, PieceIs
        <5> QED BY <5>1, EmptyText
      <4> HIDE DEF b, text
      <4>3. x \in Outcomes
        <5>1. 1 \in 1 .. Len(text) + 1
          BY <4>2
        <5> QED BY <4>2, <5>1, ChunksUnfold
      <4>4. x = <<x[1], x[2]>> /\ x[2] \in Text
        BY <4>3, OutcomeIs
      <4>5. << >> \o x[2] = x[2]
        BY <4>4, JoinEmpty
      <4>6. Chunks(text) = x
        BY DEF Chunks
      <4>7. Rest(pc', left', text, LineStart' + 1 - b + 1) = x
        BY <2>6, <4>1 DEF Rest
      <4>8. SubSeq(stream', b, m) = text /\ body' = << >>
        BY <1>1, <1>2 DEF text
      <4> HIDE DEF x
      <4>9. x = <<x[1], body' \o x[2]>>
        BY <4>4, <4>5, <4>8
      <4> QED BY <4>6, <4>7, <4>8, <4>9
    <3> QED BY <2>6, <3>1, <3>2 DEF ChunksSoFar
  <2>7. BodyOK'
    <3> HIDE DEF b
    <3>1. pc' \in {"size", "plain"}
      BY <1>6
    <3> QED BY <2>3, <2>4, <2>5, <2>6, <3>1 DEF BodyOK, ChunkPcs
  <2> QED BY <1>1, <2>1, <2>2, <2>7
<1> QED BY <1>4, <1>5, <1>6 DEF HeadEnds, IsChunked

\* The reader goes on to another part of the chunks.
LEMMA PartTurns ==
    ASSUME WireInv, NEW j, LineRead(j), pc \in {"size", "crlf", "trailer"}, pc' \in ChunkPcs,
           head' = head, pc' = "data" => left' >= 0,
           NEW b \in 2 .. LineStart + 1, FirstBlank(b - 1), Len(body) <= MaxBytes,
           \A m \in j .. Len(stream) :
              LET text == SubSeq(stream, b, m)
              IN Rest(pc, left, text, LineStart + 1 - b + 1) = Rest(pc', left', text, j + 1 - b + 1),
           ChunksSoFar(b)
    PROVE  WireInv'
<1> USE DEF WireInv
<1>0. /\ Len(stream) \in Nat /\ pos \in Nat /\ Consumed \in Nat /\ LineStart \in Nat
      /\ LineStart <= Consumed
  BY Spots
<1>1. /\ Typed' /\ ReaderOK' /\ Consumed' = j /\ LineStart' = j /\ j \in Nat /\ Consumed < j
      /\ UNCHANGED <<url, stream, pos, body>>
  BY DEF LineRead
<1>2. HeadOK' /\ BodyLater' /\ MeaningKept'
  BY DEF HeadOK, BodyLater, MeaningKept, ChunkPcs
<1>3. HopOK'
  BY <1>1 DEF HopOK, ChunkPcs
<1>4. IsChunked' <=> IsChunked
  BY SameHead
<1>5. ASSUME NEW m \in Consumed' .. Len(stream')
      PROVE  LET text == SubSeq(stream', b, m)
                 rest == Rest(pc', left', text, LineStart' + 1 - b + 1)
             IN Chunks(text) = <<rest[1], body' \o rest[2]>>
  <2> DEFINE text == SubSeq(stream, b, m)
             x == Rest(pc, left, text, LineStart + 1 - b + 1)
  <2>1. m \in Consumed .. Len(stream) /\ m \in j .. Len(stream)
    BY <1>0, <1>1, <1>5
  <2>2. Chunks(text) = <<x[1], body \o x[2]>>
    BY <2>1 DEF ChunksSoFar
  <2>3. x = Rest(pc', left', text, j + 1 - b + 1)
    BY <2>1
  <2> HIDE DEF x
  <2> QED BY <1>1, <2>2, <2>3
<1>6. ChunksSoFar(b)'
  BY <1>4, <1>5 DEF ChunksSoFar
<1>7. FirstBlank(b - 1)' /\ Len(body') <= MaxBytes /\ b \in 2 .. LineStart' + 1
  BY <1>0, <1>1 DEF FirstBlank
<1>8. BodyOK'
  <2>1. pc' # "plain"
    BY DEF ChunkPcs
  <2> QED BY <1>6, <1>7, <2>1 DEF BodyOK
<1> QED BY <1>1, <1>2, <1>3, <1>8

\* The lines between chunks.
LEMMA ChunkLineKeeps ==
    ASSUME WireInv, NEW j, LineRead(j), pc \in {"size", "crlf", "trailer"}, LineDone(LineOf(j))
    PROVE  WireInv'
<1> USE DEF WireInv
<1> DEFINE t == LineOf(j)
           size == Number(Digits(t))
<1>0. /\ Len(stream) \in Nat /\ pos \in Nat /\ Consumed \in Nat /\ LineStart \in Nat
      /\ pos <= Len(stream) /\ LineStart <= Consumed /\ stream \in Text
  BY Spots DEF Typed
<1>1. /\ Typed' /\ ReaderOK' /\ j \in Nat /\ Consumed < j /\ j <= pos /\ stream[j] = "LF"
      /\ \A k \in LineStart + 1 .. j - 1 : stream[k] # "LF"
      /\ j - (LineStart + 1) <= MaxLine /\ UNCHANGED <<url, stream, pos, body>>
  BY DEF LineRead
<1>2. PICK b \in 2 .. LineStart + 1 :
          FirstBlank(b - 1) /\ Len(body) <= MaxBytes /\ ChunksSoFar(b)
  BY DEF BodyOK, ChunkPcs
<1>3. b \in Nat \ {0} /\ b <= LineStart + 1 /\ j \in LineStart + 1 .. Len(stream) /\ pos \in j .. Len(stream)
  BY <1>0, <1>1, <1>2
<1>4. ASSUME NEW m \in j .. Len(stream)
      PROVE  LET text == SubSeq(stream, b, m)
                 p == LineStart + 1 - b + 1
                 n == j + 1 - b + 1
             IN /\ ~ IsNumber(Digits(t)) \/ size < 0 => ChunksFrom(text)[p] = <<"Io", << >> >>
                /\ IsNumber(Digits(t)) /\ size = 0 => ChunksFrom(text)[p] = <<"ok", << >> >>
                /\ IsNumber(Digits(t)) /\ size > 0 => ChunksFrom(text)[p] = Within(text, n, size)
                /\ Ending(text, p) = ChunksFrom(text)[n]
  <2> DEFINE l == LineStart
             u == Stripped(SubSeq(stream, l + 1, j - 1))
  <2>1. t = u
    BY DEF LineOf
  <2>2. /\ l \in Nat /\ b <= l + 1 /\ j \in l + 1 .. Len(stream) /\ stream[j] = "LF"
        /\ \A k \in l + 1 .. j - 1 : stream[k] # "LF"
        /\ j - (l + 1) <= MaxLine
    BY <1>0, <1>1, <1>3
  <2>3. stream \in Text /\ b \in Nat \ {0}
    BY <1>0, <1>3
  <2> HIDE DEF l, t, WireInv
  <2>4. Turns(SubSeq(stream, b, m), l + 1 - b + 1, j + 1 - b + 1, u)
    BY <1>4, <2>2, <2>3, LineTurn
  <2> HIDE DEF u
  <2> QED BY <2>1, <2>4 DEF l, Turns
<1> HIDE DEF t
<1>5. ASSUME pc' = "done", UNCHANGED head,
             LET text == SubSeq(stream, b, pos)
             IN Rest(pc, left, text, LineStart + 1 - b + 1) = <<error', << >> >>
      PROVE  WireInv'
  <2>1. MeaningKept'
    BY <1>1, <1>2, <1>5, ChunkedStops
  <2> QED BY <1>1, <1>5, <2>1, DoneKeeps DEF ChunkPcs
<1>6. CASE pc = "size"
  <2>0. SizeLine(t)
    BY <1>6 DEF LineDone, t
  <2>1. /\ UNCHANGED head
        /\ IF ~ IsNumber(Digits(t)) \/ size < 0 THEN Finish("Io")
           ELSE pc' = (IF size = 0 THEN "trailer" ELSE "data") /\ left' = size
    BY <2>0 DEF SizeLine, Digits
  <2>2. size \in Int
    <3>1. t \in Text
      <4> DEFINE i == LineStart + 1
                 e == j - 1
      <4>1. i \in Nat \ {0} /\ e \in 0 .. Len(stream) /\ i <= e + 1
        BY <1>0, <1>1
      <4> HIDE DEF i, e
      <4>2. SubSeq(stream, i, e) \in Text
        BY <1>0, <4>1, PieceIs
      <4> QED BY <4>2, StrippedIs DEF t, LineOf, i, e
    <3> QED BY <3>1, DigitsAre, NumberIs
  <2> HIDE DEF size
  <2>3. CASE ~ IsNumber(Digits(t)) \/ size < 0
    <3>1. pc' = "done" /\ error' = "Io"
      BY <1>6, <2>1, <2>3 DEF Finish
    <3>2. ChunksFrom(SubSeq(stream, b, pos))[LineStart + 1 - b + 1] = <<"Io", << >> >>
      BY <1>3, <1>4, <2>3
    <3>3. Rest(pc, left, SubSeq(stream, b, pos), LineStart + 1 - b + 1) = <<error', << >> >>
      BY <1>6, <3>1, <3>2 DEF Rest
    <3> QED BY <1>5, <2>1, <3>1, <3>3
  <2>4. CASE IsNumber(Digits(t)) /\ size = 0
    <3>1. pc' = "trailer"
      BY <2>1, <2>4
    <3>2. ASSUME NEW m \in j .. Len(stream)
          PROVE  LET text == SubSeq(stream, b, m)
                 IN Rest(pc, left, text, LineStart + 1 - b + 1) = Rest(pc', left', text, j + 1 - b + 1)
      <4>1. ChunksFrom(SubSeq(stream, b, m))[LineStart + 1 - b + 1] = <<"ok", << >> >>
        BY <1>4, <2>4
      <4> QED BY <1>6, <3>1, <4>1 DEF Rest
    <3> QED BY <1>2, <1>6, <2>1, <3>1, <3>2, PartTurns DEF ChunkPcs
  <2>5. CASE IsNumber(Digits(t)) /\ size > 0
    <3>1. pc' = "data" /\ left' = size /\ left' >= 0
      BY <2>1, <2>2, <2>5
    <3>2. ASSUME NEW m \in j .. Len(stream)
          PROVE  LET text == SubSeq(stream, b, m)
                 IN Rest(pc, left, text, LineStart + 1 - b + 1) = Rest(pc', left', text, j + 1 - b + 1)
      <4> DEFINE text == SubSeq(stream, b, m)
      <4>1. ChunksFrom(text)[LineStart + 1 - b + 1] = Within(text, j + 1 - b + 1, size)
        BY <1>4, <2>5
      <4> HIDE DEF text
      <4>2. Rest(pc, left, text, LineStart + 1 - b + 1) = Rest(pc', left', text, j + 1 - b + 1)
        BY <1>6, <3>1, <4>1 DEF Rest
      <4> QED BY <4>2 DEF text
    <3> QED BY <1>2, <1>6, <2>1, <3>1, <3>2, PartTurns DEF ChunkPcs
  <2> QED BY <2>2, <2>3, <2>4, <2>5
<1>7. CASE pc = "crlf"
  <2>1. pc' = "size" /\ UNCHANGED <<head, left>>
    BY <1>7 DEF LineDone, CrlfLine
  <2>2. ASSUME NEW m \in j .. Len(stream)
        PROVE  LET text == SubSeq(stream, b, m)
               IN Rest(pc, left, text, LineStart + 1 - b + 1) = Rest(pc', left', text, j + 1 - b + 1)
    <3> DEFINE text == SubSeq(stream, b, m)
    <3>1. Ending(text, LineStart + 1 - b + 1) = ChunksFrom(text)[j + 1 - b + 1]
      BY <1>4
    <3> HIDE DEF text
    <3>2. Rest(pc, left, text, LineStart + 1 - b + 1) = Rest(pc', left', text, j + 1 - b + 1)
      BY <1>7, <2>1, <3>1 DEF Rest
    <3> QED BY <3>2 DEF text
  <2> QED BY <1>2, <1>7, <2>1, <2>2, PartTurns DEF ChunkPcs
<1>8. CASE pc = "trailer"
  <2>1. TrailerLine(t)
    BY <1>8 DEF LineDone, t
  <2>2. UNCHANGED <<head, left>> /\ (\/ pc' = "done" /\ error' = "ok"
                                    \/ pc' = pc)
    BY <1>8, <2>1 DEF TrailerLine, Finish
  <2>3. CASE pc' = "done" /\ error' = "ok"
    <3>1. Rest(pc, left, SubSeq(stream, b, pos), LineStart + 1 - b + 1) = <<error', << >> >>
      BY <1>8, <2>3 DEF Rest
    <3> QED BY <1>5, <2>2, <2>3, <3>1
  <2>4. CASE pc' = pc
    <3>1. ASSUME NEW m \in j .. Len(stream)
          PROVE  LET text == SubSeq(stream, b, m)
                 IN Rest(pc, left, text, LineStart + 1 - b + 1) = Rest(pc', left', text, j + 1 - b + 1)
      BY <1>8, <2>4 DEF Rest
    <3> QED BY <1>2, <1>8, <2>2, <2>4, <3>1, PartTurns DEF ChunkPcs
  <2> QED BY <2>2, <2>3, <2>4
<1> QED BY <1>6, <1>7, <1>8

\* A line that has ended.
LEMMA LineDoneKeeps ==
    ASSUME WireInv, NEW j, LineRead(j), pc \in LineStates, LineDone(LineOf(j))
    PROVE  WireInv'
<1>1. CASE pc = "status"
  <2>1. StatusLine(LineOf(j))
    BY <1>1 DEF LineDone
  <2>2. pc' = "headers" \/ pc' = "refused"
    BY <1>1, <2>1 DEF StatusLine, Finish
  <2> QED BY <1>1, <2>2, HeadLineKeeps
<1>2. CASE pc = "headers" /\ LineOf(j) # << >>
  <2>1. HeaderLine(LineOf(j))
    BY <1>2 DEF LineDone
  <2>2. pc' = "headers" \/ pc' = "refused"
    BY <1>2, <2>1 DEF HeaderLine, Finish
  <2> QED BY <1>2, <2>2, HeadLineKeeps
<1>3. CASE pc = "headers" /\ LineOf(j) = << >>
  <2>1. HeadEnds
    BY <1>3 DEF LineDone
  <2> QED BY <1>3, <2>1, HeadEndsKeeps
<1>4. CASE pc \in {"size", "crlf", "trailer"}
  BY <1>4, ChunkLineKeeps
<1> QED BY <1>1, <1>2, <1>3, <1>4 DEF LineStates

\* A line, or all that is buffered of one.
LEMMA ReadLineKeeps ==
    ASSUME WireInv, Typed', ReadLine
    PROVE  WireInv'
<1> DEFINE lf == Find(buffer, {"LF"})
           text == line \o (IF lf = 0 THEN buffer ELSE To(buffer, lf - 1))
           j == Consumed + lf
<1>1. pc \in LineStates /\ UNCHANGED <<url, stream, pos, body>>
  BY DEF ReadLine
<1>2. CASE /\ TooLong(text) /\ Finish(IF pc = "trailer" THEN "ok" ELSE "Io")
           /\ UNCHANGED <<current, hop, head, left, buffer, line>>
  BY <1>1, <1>2, TooLongKeeps
<1>3. CASE /\ ~ TooLong(text) /\ lf = 0 /\ line' = text /\ buffer' = << >>
           /\ UNCHANGED <<current, hop, head, left, pc, error>>
  BY <1>1, <1>3, PartKeeps
<1>4. CASE /\ ~ TooLong(text) /\ lf # 0 /\ line' = << >> /\ buffer' = Unread(lf) /\ LineDone(Stripped(text))
  <2>0. /\ pos \in Nat /\ Consumed \in Nat /\ LineStart \in Nat /\ MaxLine \in Nat
    BY Spots, WireAssumption DEF WireInv
  <2>1. /\ lf \in Nat /\ j \in Consumed + 1 .. pos /\ stream[j] = "LF"
        /\ \A k \in LineStart + 1 .. j - 1 : stream[k] # "LF"
        /\ text = SubSeq(stream, LineStart + 1, j - 1) /\ Len(text) = j - (LineStart + 1)
    BY <1>4, LineSeen DEF WireInv
  <2>2. ReaderOK' /\ Consumed' = j /\ LineStart' = j
    BY <1>1, <1>4, ReadLineReads DEF WireInv
  <2>3. LineDone(LineOf(j))
    BY <1>4, <2>1 DEF LineOf
  <2> HIDE DEF text, lf
  <2>4. j \in Nat /\ Consumed < j /\ j <= pos /\ j - (LineStart + 1) <= MaxLine
    BY <1>4, <2>0, <2>1 DEF TooLong
  <2>5. LineRead(j)
    <3> HIDE DEF j
    <3> QED BY <1>1, <2>1, <2>2, <2>4 DEF LineRead
  <2> HIDE DEF j
  <2> QED BY <1>1, <2>3, <2>5, LineDoneKeeps
<1> QED BY <1>2, <1>3, <1>4 DEF ReadLine

-------------------------------------------------------------------------------
(* The theorems *)

\* The invariant holds at the start.
LEMMA WireInit == Init => WireInv
<1> SUFFICES ASSUME Init PROVE WireInv
  OBVIOUS
<1>1. Typed
  <2>1. UrlTexts \subseteq Text /\ << >> \in Text /\ Len(<< >>) = 0
    BY WireAssumption, EmptyText
  <2>2. NoHead \in [code : Int, items : Seq(Text \X Text)]
    BY EmptySeq DEF NoHead
  <2>3. pc \in Pcs
    BY DEF Init, Pcs
  <2> QED BY <2>1, <2>2, <2>3 DEF Init, Typed
<1>2. ReaderOK
  <2>1. << >> \in Text /\ Len(<< >>) = 0
    BY EmptyText
  <2>2. Consumed = 0 /\ LineStart = 0
    <3>1. pos = 0 /\ Len(buffer) = 0 /\ Len(line) = 0
      BY <2>1 DEF Init
    <3>2. Consumed = 0
      BY <3>1 DEF Consumed
    <3> QED BY <3>1, <3>2 DEF LineStart
  <2>3. SubSeq(<< >>, 1, 1 - 1) = << >>
    BY <2>1, NoPiece
  <2>4. SubSeq(stream, 0 + 1, 0) = << >>
    BY <2>3 DEF Init
  <2> QED BY <2>2, <2>4 DEF Init, ReaderOK
<1>3. HeadOK /\ BodyOK /\ BodyLater /\ HopOK /\ MeaningKept
  BY DEF Init, HeadOK, BodyOK, BodyLater, HopOK, MeaningKept, ChunkPcs
<1> QED BY <1>1, <1>2, <1>3 DEF WireInv

\* Every step preserves the invariant.
LEMMA WireStep == WireInv /\ [Next]_vars => WireInv'
<1> SUFFICES ASSUME WireInv, [Next]_vars PROVE WireInv'
  OBVIOUS
<1>0. Typed'
  BY TypedNext DEF WireInv
<1>1. CASE UNCHANGED vars
  <2>1. ReaderOK' /\ HeadOK' /\ BodyLater'
    BY <1>1 DEF vars, WireInv, ReaderOK, HeadOK, BodyLater, Consumed, LineStart
  <2>2. HopOK' /\ MeaningKept'
    BY <1>1 DEF vars, WireInv, HopOK, MeaningKept, Header, Meaning, ContentLength
  <2>3. BodyOK'
    <3>1. Consumed' = Consumed /\ LineStart' = LineStart /\ Consumed \in Nat /\ Len(stream) \in Nat
      BY <1>1, Spots DEF vars, WireInv, Consumed, LineStart
    <3> QED BY <1>1, <3>1, BodyFrame DEF vars, WireInv
  <2> QED BY <1>0, <2>1, <2>2, <2>3 DEF WireInv
<1>2. CASE Next
  BY <1>0, <1>2, StartHopKeeps, FillKeeps, EofKeeps, ReadLineKeeps, PumpKeeps, PumpDoneKeeps DEF Next
<1> QED BY <1>1, <1>2

\* The reader's buffer and line are the pieces of the stream they stand for, the
\* head has not ended too early, and however much more is received, it means the
\* body so far followed by what the rest means (HttpClient.cpp's Reader,
\* readResponseHead(), pumpPlain(), pumpChunked() and get()).
THEOREM WireInvariant == Spec => []WireInv
<1> QED BY WireInit, WireStep, PTL DEF Spec

\* However recv() cuts the stream, and wherever the peer closes, getString()
\* returns what the received tokens mean.
THEOREM WireMeaningKept == Spec => []MeaningKept
<1>1. WireInv => MeaningKept
  BY DEF WireInv
<1> QED BY <1>1, WireInvariant, PTL

\* Exactly the URLs with a printable host are what their own text stands for:
\* toString(), reported as finalUrl, parses back to the URL.
THEOREM WireRoundTrip == Spec => [](RoundTrip <=> (url = Bad \/ Printable(url.host)))
<1>1. WireInv => (RoundTrip <=> (url = Bad \/ Printable(url.host)))
  <2> SUFFICES ASSUME UrlOK(url)
               PROVE  (parseUrl(toString(url)) = url) <=> Printable(url.host)
    <3>1. UrlOK(url) => url # Bad
      <4>1. Bad.scheme = ""
        BY DEF Bad
      <4> QED BY <4>1 DEF UrlOK
    <3> QED BY <3>1 DEF WireInv, HopOK, RoundTrip
  <2>1. SiteOK(url) /\ url.scheme \in {"http", "https"} /\ Bad.scheme = ""
    BY DEF UrlOK, SiteOK, Bad
  <2>2. url # Bad
    BY <2>1
  <2> QED BY <2>1, <2>2, OwnText, OnlyPrintable
<1> QED BY <1>1, WireInvariant, PTL

\* Where a redirect without a scheme leads to a URL that parses, on the same
\* scheme, host and port: exactly from the URLs with a printable host.
THEOREM WireStaysOnHost ==
    Spec => [](StaysOnHost <=> (Relative => Printable(url.host)))
<1>1. WireInv => (StaysOnHost <=> (Relative => Printable(url.host)))
  <2> SUFFICES ASSUME WireInv, Relative
               PROVE  LET next == parseUrl(current)
                      IN (next # Bad /\ [next EXCEPT !.target = url.target] = url)
                            <=> Printable(url.host)
    BY DEF StaysOnHost, Relative
  <2>1. /\ UrlOK(url) /\ Header(<<"Location">>) # << >>
        /\ SchemeEnd(Header(<<"Location">>)) = 0
        /\ current = resolveRedirect(url, Header(<<"Location">>))
    BY DEF WireInv, HopOK, Relative
  <2>2. Header(<<"Location">>) \in Text
    BY HeaderIs DEF WireInv
  <2> QED BY <2>1, <2>2, SameHost, SameHostOnly
<1> QED BY <1>1, WireInvariant, PTL
===============================================================================
