--------------------------- MODULE EventReader_proofs --------------------------
(***************************************************************************)
(* Lemmas about EventReader: what it makes of a line is what the reference *)
(* of ReaderPipeline makes of it, for lines and blocks of any length.      *)
(***************************************************************************)
EXTENDS ReaderPipeline, LineReader_proofs

LEMMA Bytes ==
  /\ "\n" \in Byte /\ ":" \in Byte /\ " " \in Byte
  /\ "data" \in Byte /\ "event" \in Byte /\ "id" \in Byte
BY TextIsOfBytes, Zenon DEF TextIsOfBytes

LEMMA ShortSequences ==
  ASSUME NEW S, NEW x \in S, NEW y \in S
  PROVE  /\ <<x>> \in Seq(S)
         /\ <<x, y>> \in Seq(S) /\ Len(<<x, y>>) = 2 /\ <<x, y>>[1] = x /\ <<x, y>>[2] = y
OBVIOUS

(* The recursive function of Joined. *)
IsJoin(text, values) ==
  /\ text \in [1..Len(values) -> Text]
  /\ text[1] = values[1]
  /\ \A i \in 2..Len(values) : text[i] = text[i - 1] \o <<"\n">> \o values[i]

LEMMA NewlineAdded ==
  ASSUME NEW t \in Text, NEW v \in Text
  PROVE  t \o <<"\n">> \o v \in Text
<1>1. <<"\n">> \in Text
  BY Bytes, ShortSequences, Zenon DEF Text
<1> QED
  BY <1>1, TextsJoined

LEMMA JoinExists ==
  ASSUME NEW values \in Seq(Text), values # <<>>
  PROVE  \E text : IsJoin(text, values) /\ Joined(values) = text[Len(values)]
<1> DEFINE n == Len(values)
           g == [p \in (1..n) \X Text |->
                   IF p[1] = 1 THEN values[1] ELSE p[2] \o <<"\n">> \o values[p[1]]]
           Equation(f) == f = [i \in 1..n |-> IF i = 1 THEN values[1]
                                              ELSE f[i - 1] \o <<"\n">> \o values[i]]
           text == CHOOSE f : Equation(f)
<1>1. n \in Nat \ {0} /\ <<>> \in Text /\ \A i \in 1..n : values[i] \in Text
  BY EmptySeq DEF Text
<1>2. g \in [(1..n) \X Text -> Text]
  BY <1>1, NewlineAdded
<1>3. PICK h : Iterates(h, n, Text, <<>>, g)
  <2> HIDE DEF n, g, Equation, text
  <2> QED
    BY <1>1, <1>2, FiniteRecursion, Zenon
<1> DEFINE f == [i \in 1..n |-> h[i]]
<1>4. f \in [1..n -> Text] /\ \A i \in 1..n : h[i] = g[<<i, h[i - 1]>>] /\ h[i - 1] \in Text
  <2> HIDE DEF g, Equation, text, n
  <2>1. h \in [0..n -> Text] /\ \A i \in 1..n : h[i] = g[<<i, h[i - 1]>>]
    BY <1>3 DEF Iterates
  <2>2. \A i \in 1..n : i \in 0..n /\ i - 1 \in 0..n
    BY <1>1
  <2> QED
    BY <2>1, <2>2
<1>5. ASSUME NEW i \in 1..n
      PROVE  f[i] = IF i = 1 THEN values[1] ELSE f[i - 1] \o <<"\n">> \o values[i]
  <2>1. <<i, h[i - 1]>> \in (1..n) \X Text
    BY <1>4
  <2>2. h[i] = IF i = 1 THEN values[1] ELSE h[i - 1] \o <<"\n">> \o values[i]
    BY <1>4, <2>1
  <2>3. i # 1 => i - 1 \in 1..n
    BY <1>1
  <2> QED
    BY <2>2, <2>3
<1>6. Equation(f)
  <2> HIDE DEF g, f, text
  <2>1. f = [i \in 1..n |-> f[i]]
    BY <1>4
  <2> QED
    BY <1>5, <2>1
<1>7. Equation(text)
  <2> HIDE DEF f
  <2> QED
    BY <1>6
<1>8. Joined(values) = text[n]
  BY DEF Joined
<1> HIDE DEF text, f, n
<1>9. \A i \in 1..n : text[i] = IF i = 1 THEN values[1]
                                ELSE text[i - 1] \o <<"\n">> \o values[i]
  BY <1>7
<1> DEFINE D == {i \in Nat : i + 1 <= n => text[i + 1] = f[i + 1]}
<1>10. 0 \in D
  <2>1. 1 \in 1..n
    BY <1>1
  <2> QED
    BY <1>5, <1>9, <2>1
<1>11. ASSUME NEW i \in Nat, i \in D PROVE i + 1 \in D
  <2> SUFFICES ASSUME (i + 1) + 1 <= n PROVE text[(i + 1) + 1] = f[(i + 1) + 1]
    OBVIOUS
  <2>1. (i + 1) + 1 \in 1..n /\ (i + 1) + 1 # 1 /\ ((i + 1) + 1) - 1 = i + 1
    BY <1>1
  <2>2. text[i + 1] = f[i + 1]
    BY <1>1, <1>11
  <2>3. text[(i + 1) + 1] = text[((i + 1) + 1) - 1] \o <<"\n">> \o values[(i + 1) + 1]
        /\ f[(i + 1) + 1] = f[((i + 1) + 1) - 1] \o <<"\n">> \o values[(i + 1) + 1]
    BY <1>5, <1>9, <2>1
  <2> QED
    BY <2>1, <2>2, <2>3
<1> HIDE DEF D
<1>12. \A i \in 1..n : text[i] = f[i]
  <2>1. \A i \in Nat : i \in D
    BY <1>10, <1>11, Induction
  <2>2. ASSUME NEW i \in 1..n PROVE text[i] = f[i]
    <3>1. i - 1 \in D /\ (i - 1) + 1 = i /\ i <= n
      BY <1>1, <2>1
    <3> QED
      BY <3>1 DEF D
  <2> QED
    BY <2>2
<1>13. text = f
  <2>1. text = [i \in 1..n |-> text[i]] /\ f = [i \in 1..n |-> f[i]]
    BY <1>4, <1>7
  <2> QED
    BY <1>12, <2>1
<1>14. text[1] = values[1] /\ \A i \in 2..n : text[i] = text[i - 1] \o <<"\n">> \o values[i]
  <2>1. 1 \in 1..n /\ \A i \in 2..n : i \in 1..n /\ i # 1
    BY <1>1
  <2> QED
    BY <1>9, <2>1
<1> QED
  BY <1>4, <1>8, <1>13, <1>14 DEF IsJoin, n

LEMMA JoinedType ==
  ASSUME NEW values \in Seq(Text), values # <<>>
  PROVE  Joined(values) \in Text
<1>1. PICK text : IsJoin(text, values) /\ Joined(values) = text[Len(values)]
  BY JoinExists
<1>2. Len(values) \in 1..Len(values)
  BY EmptySeq
<1> QED
  BY <1>1, <1>2 DEF IsJoin

(* One value more is one line more. *)
LEMMA JoinedMore ==
  ASSUME NEW values \in Seq(Text), NEW v \in Text
  PROVE  Joined(Append(values, v))
           = IF values = <<>> THEN v ELSE Joined(values) \o <<"\n">> \o v
<1> DEFINE more == Append(values, v)
           n == Len(values)
<1>1. more \in Seq(Text) /\ more # <<>> /\ Len(more) = n + 1 /\ n \in Nat
      /\ more[n + 1] = v /\ \A i \in 1..n : more[i] = values[i]
  BY AppendProperties
<1>2. PICK t : IsJoin(t, more) /\ Joined(more) = t[n + 1]
  BY <1>1, JoinExists
<1>3. CASE values = <<>>
  <2>1. n = 0
    BY <1>3
  <2> QED
    BY <1>1, <1>2, <1>3, <2>1 DEF IsJoin
<1>4. CASE values # <<>>
  <2>1. n \in Nat \ {0}
    BY <1>4, EmptySeq
  <2>2. PICK u : IsJoin(u, values) /\ Joined(values) = u[n]
    BY <1>4, JoinExists
  <2> HIDE DEF more, n
  <2> DEFINE D == {i \in Nat : i + 1 <= n => t[i + 1] = u[i + 1]}
  <2>3. 0 \in D
    <3>1. t[1] = more[1] /\ u[1] = values[1] /\ 1 \in 1..n
      BY <1>2, <2>1, <2>2 DEF IsJoin
    <3> QED
      BY <1>1, <3>1
  <2>4. ASSUME NEW i \in Nat, i \in D PROVE i + 1 \in D
    <3> SUFFICES ASSUME (i + 1) + 1 <= n PROVE t[(i + 1) + 1] = u[(i + 1) + 1]
      OBVIOUS
    <3> DEFINE j == (i + 1) + 1
    <3>1. j \in 2..n /\ j \in 2..(n + 1) /\ j \in 1..n /\ j - 1 = i + 1
      BY <1>1
    <3>2. t[i + 1] = u[i + 1]
      BY <1>1, <2>4
    <3> HIDE DEF j
    <3>3. t[j] = t[j - 1] \o <<"\n">> \o more[j]
      BY <1>1, <1>2, <3>1 DEF IsJoin
    <3>4. u[j] = u[j - 1] \o <<"\n">> \o values[j]
      BY <2>2, <3>1 DEF IsJoin, n
    <3> QED
      BY <1>1, <3>1, <3>2, <3>3, <3>4 DEF j
  <2> HIDE DEF D
  <2>5. n - 1 \in D
    <3>1. \A i \in Nat : i \in D
      BY <2>3, <2>4, Induction
    <3> QED
      BY <2>1, <3>1
  <2>6. t[n] = u[n]
    <3>1. n - 1 \in Nat /\ (n - 1) + 1 = n
      BY <2>1
    <3> QED
      BY <2>5, <3>1 DEF D
  <2>7. t[n + 1] = t[(n + 1) - 1] \o <<"\n">> \o more[n + 1]
    <3>1. n + 1 \in 2..Len(more)
      BY <1>1, <2>1
    <3> QED
      BY <1>2, <3>1 DEF IsJoin
  <2>8. (n + 1) - 1 = n
    BY <1>1
  <2> QED
    BY <1>1, <1>2, <1>4, <2>2, <2>6, <2>7, <2>8 DEF more
<1> QED
  BY <1>3, <1>4
--------------------------------------------------------------------------------
(* Where the colon is. *)
LEMMA ColonFound ==
  ASSUME NEW line \in Text
  PROVE  /\ ColonPos(line) \in 0..Len(line)
         /\ ColonPos(line) = 0 => \A i \in 1..Len(line) : line[i] # ":"
         /\ ColonPos(line) # 0 => /\ line[ColonPos(line)] = ":"
                                 /\ \A i \in 1..(ColonPos(line) - 1) : line[i] # ":"
<1> DEFINE I == {i \in 1..Len(line) : line[i] = ":"}
<1>1. ColonPos(line) = IF I # {} THEN Min(I) ELSE 0
  BY DEF ColonPos, SelectInSeq
<1>2. Len(line) \in Nat
  BY DEF Text
<1>3. CASE I = {}
  BY <1>1, <1>2, <1>3
<1>4. CASE I # {}
  <2>1. I \in SUBSET Nat
    OBVIOUS
  <2>2. \E n \in I : \A m \in I : n <= m
    <3> HIDE DEF I
    <3> QED
      BY <1>4, <2>1, LeastNatural
  <2>3. Min(I) \in I /\ \A m \in I : Min(I) <= m
    <3> HIDE DEF I
    <3> QED
      BY <2>2 DEF Min
  <2> DEFINE P == Min(I)
  <2>4. ColonPos(line) = P /\ P \in 1..Len(line) /\ line[P] = ":"
    BY <1>1, <1>4, <2>3
  <2>5. ASSUME NEW i \in 1..(P - 1) PROVE line[i] # ":"
    <3> HIDE DEF P
    <3>1. i \in 1..Len(line) /\ ~(P <= i)
      BY <1>2, <2>4
    <3>2. i \notin I
      BY <2>3, <3>1 DEF P
    <3> QED
      BY <3>1, <3>2
  <2> HIDE DEF P, I
  <2> QED
    BY <1>2, <2>4, <2>5
<1> QED
  BY <1>3, <1>4

(* A name, a colon, and what follows. *)
LEMMA AfterName ==
  ASSUME NEW line \in Text, NEW name \in Byte, NEW rest \in Text
  PROVE  line = <<name, ":">> \o rest
           <=> /\ Len(line) >= 2 /\ line[1] = name /\ line[2] = ":"
               /\ rest = SubSeq(line, 3, Len(line))
<1> DEFINE head == <<name, ":">>
           n == Len(line)
<1>1. head \in Text /\ Len(head) = 2 /\ head[1] = name /\ head[2] = ":" /\ n \in Nat
      /\ \A i \in 1..n : line[i] \in Byte
  <2>1. head \in Text /\ Len(head) = 2 /\ head[1] = name /\ head[2] = ":"
    BY Bytes, ShortSequences, Zenon DEF Text
  <2> QED
    BY <2>1 DEF Text
<1>2. /\ head \o rest \in Text
      /\ Len(head \o rest) = 2 + Len(rest) /\ Len(rest) \in Nat
      /\ \A i \in 1..(2 + Len(rest)) :
           (head \o rest)[i] = IF i <= 2 THEN head[i] ELSE rest[i - 2]
  <2>1. head \in Seq(Byte) /\ rest \in Seq(Byte)
    BY <1>1 DEF Text
  <2> HIDE DEF head
  <2>2. Len(head \o rest) = Len(head) + Len(rest) /\ head \o rest \in Seq(Byte)
        /\ Len(rest) \in Nat
    BY <2>1
  <2>3. \A i \in 1..(Len(head) + Len(rest)) :
          (head \o rest)[i] = IF i <= Len(head) THEN head[i] ELSE rest[i - Len(head)]
    BY <2>1
  <2> QED
    BY <1>1, <2>2, <2>3 DEF Text
<1>3. ASSUME n >= 2
      PROVE  /\ SubSeq(line, 3, n) \in Text
             /\ Len(SubSeq(line, 3, n)) = n - 2
             /\ \A i \in 1..(n - 2) : SubSeq(line, 3, n)[i] = line[i + 2]
  <2>1. \A i \in 3..n : line[i] \in Byte
    BY <1>1
  <2> HIDE DEF n
  <2>2. /\ SubSeq(line, 3, n) \in Seq(Byte)
        /\ Len(SubSeq(line, 3, n)) = IF 3 <= n THEN n - 3 + 1 ELSE 0
        /\ \A i \in 1..(n - 3 + 1) : SubSeq(line, 3, n)[i] = line[3 + i - 1]
    BY <1>1, <2>1, SubSeqProperties
  <2> QED
    BY <1>1, <1>3, <2>2 DEF Text
<1> HIDE DEF head, n
<1>4. ASSUME line = head \o rest
      PROVE  n >= 2 /\ line[1] = name /\ line[2] = ":" /\ rest = SubSeq(line, 3, n)
  <2>1. n = 2 + Len(rest)
    BY <1>2, <1>4 DEF n
  <2>2. 1 \in 1..(2 + Len(rest)) /\ 2 \in 1..(2 + Len(rest))
    BY <1>2
  <2>3. line[1] = name /\ line[2] = ":"
    BY <1>1, <1>2, <1>4, <2>2
  <2>4. Len(SubSeq(line, 3, n)) = Len(rest)
    BY <1>2, <1>3, <2>1
  <2>5. ASSUME NEW i \in 1..Len(rest) PROVE SubSeq(line, 3, n)[i] = rest[i]
    <3>1. i + 2 \in 1..(2 + Len(rest)) /\ ~(i + 2 <= 2) /\ (i + 2) - 2 = i /\ i \in 1..(n - 2)
      BY <1>2, <2>1
    <3> QED
      BY <1>2, <1>3, <1>4, <2>1, <3>1
  <2>6. rest = SubSeq(line, 3, n)
    BY <1>2, <1>3, <2>1, <2>4, <2>5, SeqEqual DEF Text
  <2> QED
    BY <1>2, <2>1, <2>3, <2>6
<1>5. ASSUME n >= 2, line[1] = name, line[2] = ":", rest = SubSeq(line, 3, n)
      PROVE  line = head \o rest
  <2>1. Len(head \o rest) = n /\ Len(rest) = n - 2
    BY <1>1, <1>2, <1>3, <1>5
  <2>2. ASSUME NEW i \in 1..n PROVE line[i] = (head \o rest)[i]
    <3>1. i \in 1..(2 + Len(rest))
      BY <1>1, <2>1
    <3>2. CASE i <= 2
      <4>1. i = 1 \/ i = 2
        BY <3>2
      <4> QED
        BY <1>1, <1>2, <1>5, <3>1, <3>2, <4>1
    <3>3. CASE ~(i <= 2)
      <4>1. i - 2 \in 1..(n - 2) /\ (i - 2) + 2 = i
        BY <1>1, <3>3
      <4> QED
        BY <1>2, <1>3, <1>5, <3>1, <3>3, <4>1
    <3> QED
      BY <3>2, <3>3
  <2> QED
    BY <1>2, <2>1, <2>2, SeqEqual DEF Text, n
<1> QED
  BY <1>4, <1>5 DEF head, n

LEMMA HeadPrepended ==
  ASSUME NEW S, NEW x \in S, NEW v \in Seq(S)
  PROVE  <<x>> \o v # <<>> /\ Head(<<x>> \o v) = x /\ Tail(<<x>> \o v) = v
<1>1. <<x>> \o v \in Seq(S) /\ Len(<<x>> \o v) = 1 + Len(v) /\ Len(v) \in Nat
      /\ (<<x>> \o v)[1] = x
  OBVIOUS
<1>2. Tail(<<x>> \o v) = v
  OBVIOUS
<1> QED
  BY <1>1, <1>2, EmptySeq

LEMMA SpaceAfterColon ==
  ASSUME NEW name \in Byte, NEW v \in Text
  PROVE  /\ <<" ">> \o v \in Text
         /\ <<name, ":", " ">> \o v = <<name, ":">> \o (<<" ">> \o v)
<1>1. ASSUME NEW S, NEW a \in S, NEW b \in S, NEW c \in S
      PROVE  <<a, b, c>> = <<a, b>> \o <<c>>
  OBVIOUS
<1>2. ASSUME NEW b \in Byte, NEW c \in Byte
      PROVE  <<c>> \o v \in Text /\ <<name, b, c>> \o v = <<name, b>> \o (<<c>> \o v)
  <2>1. <<name, b, c>> = <<name, b>> \o <<c>>
    BY <1>1, Zenon
  <2>2. <<name, b>> \in Text /\ <<c>> \in Text
    BY ShortSequences, Zenon DEF Text
  <2> QED
    BY <2>1, <2>2, TextsJoined
<1> QED
  BY <1>2, Bytes, Zenon

(* The code takes a field apart the way the format puts it together.       *)
LEMMA FieldIsParsed ==
  ASSUME NEW line \in Text, line # <<>>, Head(line) # ":", NEW name \in Byte, name # ":",
         NEW v \in Text
  PROVE  IsField(line, name, v) <=> FieldName(line) = <<name>> /\ v = FieldValue(line)
<1> DEFINE n == Len(line)
           P == ColonPos(line)
           rest == SubSeq(line, P + 1, n)
<1>1. n \in Nat \ {0} /\ line[1] # ":" /\ \A i \in 1..n : line[i] \in Byte
  <2>1. n \in Nat \ {0}
    BY EmptySeq DEF Text
  <2>2. Head(line) = line[1]
    BY DEF Text
  <2> QED
    BY <2>1, <2>2 DEF Text
<1>2. <<name>> \in Text /\ Len(<<name>>) = 1 /\ <<name>>[1] = name
  BY DEF Text
<1>3. <<" ">> \o v \in Text /\ <<name, ":", " ">> \o v = <<name, ":">> \o (<<" ">> \o v)
  BY SpaceAfterColon
<1>4. ASSUME NEW w \in Text
      PROVE  line = <<name, ":">> \o w
               <=> n >= 2 /\ line[1] = name /\ line[2] = ":" /\ w = SubSeq(line, 3, n)
  BY AfterName
<1>5. CASE P = 0
  <2>1. \A w \in Text : line # <<name, ":">> \o w
    <3>1. n >= 2 => line[2] # ":"
      BY <1>1, <1>5, ColonFound
    <3> QED
      BY <1>4, <3>1
  <2>2. FieldName(line) = line /\ FieldValue(line) = <<>>
    BY <1>5 DEF FieldName, FieldValue
  <2>3. IsField(line, name, v) <=> line = <<name>> /\ v = <<>>
    <3> HIDE DEF n, P
    <3> QED
      BY <1>3, <2>1 DEF IsField
  <2> QED
    BY <2>2, <2>3
<1>6. CASE P # 0
  <2>1. P \in 2..n /\ line[P] = ":" /\ \A i \in 1..(P - 1) : line[i] # ":"
    <3>1. P \in 0..n /\ line[P] = ":" /\ \A i \in 1..(P - 1) : line[i] # ":"
      BY <1>6, ColonFound
    <3>2. P # 1
      BY <1>1, <3>1
    <3> HIDE DEF P, n
    <3> QED
      BY <1>1, <1>6, <3>1, <3>2
  <2>2. ASSUME NEW w \in Text
        PROVE  line = <<name, ":">> \o w <=> P = 2 /\ line[1] = name /\ w = rest
    <3>1. n >= 2 /\ (line[2] = ":" <=> P = 2)
      <4> HIDE DEF P, n
      <4> QED
        BY <1>1, <2>1
    <3>2. P = 2 => rest = SubSeq(line, 3, n)
      OBVIOUS
    <3> HIDE DEF P, n, rest
    <3> QED
      BY <1>4, <3>1, <3>2
  <2>3. FieldName(line) = <<name>> <=> P = 2 /\ line[1] = name
    <3> DEFINE front == SubSeq(line, 1, P - 1)
    <3>1. FieldName(line) = front
      BY <1>6 DEF FieldName
    <3>2. front \in Text /\ Len(front) = P - 1 /\ front[1] = line[1]
      <4>1. P - 1 \in Int /\ \A i \in 1..(P - 1) : line[i] \in Byte
        BY <1>1, <2>1
      <4> HIDE DEF P, n
      <4>2. /\ front \in Seq(Byte)
            /\ Len(front) = IF 1 <= P - 1 THEN P - 1 - 1 + 1 ELSE 0
            /\ \A i \in 1..(P - 1 - 1 + 1) : front[i] = line[1 + i - 1]
        BY <4>1, SubSeqProperties
      <4>3. 1 \in 1..(P - 1 - 1 + 1) /\ 1 + 1 - 1 = 1 /\ P - 1 - 1 + 1 = P - 1 /\ 1 <= P - 1
        BY <1>1, <2>1
      <4> QED
        BY <4>2, <4>3 DEF Text
    <3> HIDE DEF front, P, n
    <3>3. ASSUME P = 2, line[1] = name PROVE front = <<name>>
      <4>1. Len(front) = 1 /\ front[1] = name
        BY <3>2, <3>3
      <4>2. <<name>> \in Seq(Byte) /\ front \in Seq(Byte) /\ Len(<<name>>) = Len(front)
        BY <1>2, <3>2, <4>1 DEF Text
      <4>3. \A i \in 1..Len(<<name>>) : <<name>>[i] = front[i]
        BY <1>2, <4>1
      <4> QED
        BY <4>2, <4>3, SeqEqual
    <3>4. ASSUME front = <<name>> PROVE P = 2 /\ line[1] = name
      BY <1>1, <1>2, <2>1, <3>2, <3>4
    <3> QED
      BY <3>1, <3>3, <3>4
  <2>4. rest \in Text
    <3>1. \A i \in (P + 1)..n : line[i] \in Byte
      BY <1>1, <2>1
    <3> HIDE DEF P, n
    <3> QED
      BY <1>1, <2>1, <3>1, SubSeqProperties DEF Text
  <2>5. line # <<name>>
    <3> HIDE DEF P
    <3> QED
      BY <1>1, <1>2, <2>1
  <2>6. FieldValue(line) = IF rest # <<>> /\ Head(rest) = " " THEN Tail(rest) ELSE rest
    BY <1>6 DEF FieldValue
  <2> HIDE DEF P, n, rest
  <2>7. <<" ">> \o v = rest <=> rest # <<>> /\ Head(rest) = " " /\ v = Tail(rest)
    <3>1. ASSUME NEW c \in Byte
          PROVE  <<c>> \o v = rest <=> rest # <<>> /\ Head(rest) = c /\ v = Tail(rest)
      <4>1. v \in Seq(Byte) /\ rest \in Seq(Byte)
        BY <2>4 DEF Text
      <4>2. rest # <<>> => rest = <<Head(rest)>> \o Tail(rest)
        BY <4>1
      <4>3. <<c>> \o v # <<>> /\ Head(<<c>> \o v) = c /\ Tail(<<c>> \o v) = v
        BY <4>1, HeadPrepended
      <4> QED
        BY <4>2, <4>3, Zenon
    <3> QED
      BY <3>1, Bytes, Zenon
  <2>8. IsField(line, name, v)
          <=> \/ line = <<name, ":">> \o (<<" ">> \o v)
              \/ line = <<name, ":">> \o v /\ (v = <<>> \/ Head(v) # " ")
    BY <1>3, <2>5 DEF IsField
  <2>9. /\ line = <<name, ":">> \o (<<" ">> \o v)
             <=> P = 2 /\ line[1] = name /\ <<" ">> \o v = rest
        /\ line = <<name, ":">> \o v <=> P = 2 /\ line[1] = name /\ v = rest
    BY <1>3, <2>2
  <2> QED
    BY <2>3, <2>6, <2>7, <2>8, <2>9
<1> QED
  BY <1>5, <1>6

LEMMA FieldTypes ==
  ASSUME NEW line \in Text
  PROVE  /\ FieldValue(line) \in Text
         /\ FieldValue(line) \in Suffixes(line)
         /\ Suffixes(line) \subseteq Text
<1> DEFINE n == Len(line)
           P == ColonPos(line)
           rest == SubSeq(line, P + 1, n)
<1>1. n \in Nat /\ (\A i \in 1..n : line[i] \in Byte) /\ P \in 0..n
  BY ColonFound DEF Text
<1>2. <<>> \in Text /\ <<>> \in Suffixes(line)
  BY DEF Text, Suffixes
<1>3. ASSUME NEW i \in 1..n PROVE SubSeq(line, i, n) \in Text
  <2>1. \A j \in i..n : line[j] \in Byte
    BY <1>1
  <2> HIDE DEF n
  <2> QED
    BY <1>1, <2>1, SubSeqProperties DEF Text
<1>4. Suffixes(line) \subseteq Text
  BY <1>2, <1>3 DEF Suffixes
<1>5. ASSUME P # 0 PROVE rest \in Suffixes(line) /\ (rest # <<>> => Tail(rest) \in Suffixes(line))
  <2> HIDE DEF P
  <2>1. CASE P = n
    <3>1. n < P + 1 /\ P + 1 \in Int
      BY <1>1, <2>1
    <3> HIDE DEF n
    <3>2. rest = <<>>
      BY <1>1, <3>1, SubSeqEmpty
    <3> QED
      BY <1>2, <3>2
  <2>2. CASE P # n
    <3>1. P + 1 \in 1..n /\ n \in (P + 1)..n
      BY <1>1, <2>2
    <3>2. rest \in Suffixes(line)
      BY <3>1 DEF Suffixes
    <3>3. Tail(rest) = SubSeq(line, P + 1 + 1, n)
      <4>1. line \in Seq(Byte) /\ n \in (P + 1)..Len(line) /\ P + 1 \in 1..Len(line)
        BY <3>1 DEF Text
      <4> HIDE DEF n
      <4> QED
        BY <4>1, HeadTailOfSubSeq
    <3>4. CASE P + 1 = n
      <4>1. n < P + 1 + 1 /\ P + 1 + 1 \in Int
        BY <1>1, <3>4
      <4> HIDE DEF n, rest
      <4>2. Tail(rest) = <<>>
        BY <1>1, <3>3, <4>1, SubSeqEmpty
      <4> QED
        BY <1>2, <3>2, <4>2
    <3>5. CASE P + 1 # n
      <4>1. P + 1 + 1 \in 1..n
        BY <1>1, <3>1, <3>5
      <4>2. SubSeq(line, P + 1 + 1, n) \in Suffixes(line)
        BY <4>1 DEF Suffixes
      <4> HIDE DEF n, rest
      <4> QED
        BY <3>2, <3>3, <4>2
    <3> QED
      BY <3>4, <3>5
  <2> QED
    BY <2>1, <2>2
<1>6. FieldValue(line) \in Suffixes(line)
  <2>1. CASE P = 0
    BY <1>2, <2>1 DEF FieldValue
  <2>2. CASE P # 0
    <3>1. FieldValue(line) = IF rest # <<>> /\ Head(rest) = " " THEN Tail(rest) ELSE rest
      BY <2>2 DEF FieldValue
    <3> HIDE DEF rest
    <3> QED
      BY <1>5, <2>2, <3>1
  <2> QED
    BY <2>1, <2>2
<1> QED
  BY <1>4, <1>6

(* What the line does to the values of a field of that name.               *)
LEMMA FieldValues ==
  ASSUME NEW line \in Text, line # <<>>, Head(line) # ":", NEW name \in Byte, name # ":",
         NEW values
  PROVE  WithValue(values, line, name)
           = IF FieldName(line) = <<name>> THEN Append(values, FieldValue(line)) ELSE values
<1> DEFINE valueOf == {v \in Suffixes(line) : IsField(line, name, v)}
<1>1. \A v \in Suffixes(line) :
        IsField(line, name, v) <=> FieldName(line) = <<name>> /\ v = FieldValue(line)
  BY FieldTypes, FieldIsParsed
<1>2. valueOf = IF FieldName(line) = <<name>> THEN {FieldValue(line)} ELSE {}
  <2>1. CASE FieldName(line) = <<name>>
    <3>1. \A v : v \in valueOf <=> v = FieldValue(line)
      BY <1>1, <2>1, FieldTypes
    <3> QED
      BY <2>1, <3>1
  <2>2. CASE FieldName(line) # <<name>>
    BY <1>1, <2>2
  <2> QED
    BY <2>1, <2>2
<1>3. WithValue(values, line, name)
        = IF valueOf = {} THEN values ELSE Append(values, CHOOSE v \in valueOf : TRUE)
  BY DEF WithValue
<1> HIDE DEF valueOf
<1>4. CASE FieldName(line) = <<name>>
  <2>1. valueOf = {FieldValue(line)}
    BY <1>2, <1>4
  <2>2. (CHOOSE v \in valueOf : TRUE) = FieldValue(line) /\ valueOf # {}
    BY <2>1
  <2> QED
    BY <1>3, <1>4, <2>2
<1> QED
  BY <1>2, <1>3, <1>4
--------------------------------------------------------------------------------
(* What the reference is, and the generator it stands for. *)

OptText == Text \cup {None}

Item == [kind : {"event"}, type : Text \cup {<<"message">>}, data : Text,
         id : OptText, lastId : OptText]
        \cup [kind : {"comment"}, text : Text] \cup {DecodeError}

Reference ==
  [line : Text, afterCR : BOOLEAN, data : Seq(Text), types : Seq(Text), ids : Seq(Text),
   lastId : OptText, items : Seq(Item), ok : BOOLEAN]

ReaderOf(r) ==
  [type |-> IF r.types = <<>> THEN <<>> ELSE Last(r.types),
   data |-> IF r.data = <<>> THEN None ELSE Joined(r.data),
   id |-> IF r.ids = <<>> THEN None ELSE Last(r.ids),
   lastId |-> r.lastId]

LEMMA NoneIsNot == None \notin Text
  BY TextIsOfBytes, Zenon DEF TextIsOfBytes, Text

LEMMA LastType ==
  ASSUME NEW S, NEW s \in Seq(S), s # <<>>
  PROVE  Last(s) \in S
<1>1. Len(s) \in 1..Len(s)
  BY EmptySeq
<1> QED
  BY <1>1 DEF Last

(* The values as the generator has them. *)
LEMMA ReaderOfValues ==
  ASSUME NEW r \in Reference
  PROVE  /\ r.data = <<>> <=> ReaderOf(r).data = None
         /\ r.ids = <<>> <=> ReaderOf(r).id = None
         /\ r.data # <<>> => ReaderOf(r).data = Joined(r.data) /\ ReaderOf(r).data \in Text
         /\ r.ids # <<>> => ReaderOf(r).id = Last(r.ids) /\ ReaderOf(r).id \in Text
         /\ ReaderOf(r).type \in Text /\ ReaderOf(r).lastId \in OptText
<1>1. r.data \in Seq(Text) /\ r.ids \in Seq(Text) /\ r.types \in Seq(Text) /\ r.lastId \in OptText
  BY DEF Reference
<1>2. r.data # <<>> => Joined(r.data) \in Text
  BY <1>1, JoinedType
<1>3. (r.ids # <<>> => Last(r.ids) \in Text) /\ (r.types # <<>> => Last(r.types) \in Text)
  BY <1>1, LastType
<1>4. <<>> \in Text
  BY DEF Text
<1> QED
  BY <1>1, <1>2, <1>3, <1>4, NoneIsNot DEF ReaderOf

LEMMA BlockEventsAre ==
  ASSUME NEW r \in Reference
  PROVE  /\ BlockEvents(r) = Yielded(ReaderOf(r), <<>>)
         /\ BlockEvents(r) \in Seq(Item)
         /\ IdAfterBlock(r) = Dispatch(ReaderOf(r)).lastId
         /\ IdAfterBlock(r) \in OptText
<1> DEFINE rd == ReaderOf(r)
           type == IF rd.type = <<>> THEN <<"message">> ELSE rd.type
           event == Event(type, rd.data, rd.id, Dispatch(rd).lastId)
<1>1. IdAfterBlock(r) = Dispatch(rd).lastId /\ IdAfterBlock(r) \in OptText
  BY ReaderOfValues DEF IdAfterBlock, Dispatch, NewReader, ReaderOf, OptText
<1>2. CASE r.data = <<>>
  BY <1>1, <1>2, ReaderOfValues DEF BlockEvents, Yielded
<1>3. CASE r.data # <<>>
  <2>1. type = IF r.types = <<>> \/ Last(r.types) = <<>> THEN <<"message">> ELSE Last(r.types)
    BY DEF ReaderOf
  <2>2. rd.data = Joined(r.data) /\ rd.id = IF r.ids = <<>> THEN None ELSE Last(r.ids)
    BY <1>3 DEF ReaderOf
  <2>3. BlockEvents(r) = <<event>>
    <3> HIDE DEF type
    <3> QED
      BY <1>1, <1>3, <2>1, <2>2 DEF BlockEvents
  <2>4. Yielded(rd, <<>>) = <<event>>
    BY <1>3, ReaderOfValues DEF Yielded
  <2>5. event \in Item
    <3>1. type \in Text \cup {<<"message">>} /\ rd.data \in Text /\ rd.id \in OptText
          /\ Dispatch(rd).lastId \in OptText
      BY <1>1, <1>3, ReaderOfValues DEF OptText
    <3> HIDE DEF type, rd
    <3> QED
      BY <3>1 DEF Item, Event
  <2> HIDE DEF event
  <2> QED
    BY <1>1, <2>3, <2>4, <2>5
<1> QED
  BY <1>2, <1>3

(* The values of a block's fields after a field line. *)
LEMMA FieldTaken ==
  ASSUME NEW r \in Reference, NEW line \in Text, line # <<>>, Head(line) # ":"
  PROVE  LET name == FieldName(line)
             value == FieldValue(line)
         IN  TakeField(r, line) =
               [r EXCEPT !.data = IF name = <<"data">> THEN Append(@, value) ELSE @,
                         !.types = IF name = <<"event">> THEN Append(@, value) ELSE @,
                         !.ids = IF name = <<"id">> /\ ~IsNul(value) THEN Append(@, value)
                                                                     ELSE @]
<1> DEFINE name == FieldName(line)
           value == FieldValue(line)
           ids == WithValue(<<>>, line, "id")
<1>1. "data" # ":" /\ "event" # ":" /\ "id" # ":"
  OBVIOUS
<1>2. ASSUME NEW n \in Byte, n # ":", NEW values
      PROVE  WithValue(values, line, n) = IF name = <<n>> THEN Append(values, value) ELSE values
  BY <1>2, FieldValues
<1>3. value \in Text
  BY FieldTypes
<1>4. r.ids \in Seq(Text)
  BY DEF Reference
<1>5. (IF ids = <<>> \/ IsNul(ids[1]) THEN r.ids ELSE r.ids \o ids)
        = IF name = <<"id">> /\ ~IsNul(value) THEN Append(r.ids, value) ELSE r.ids
  <2>1. ids = IF name = <<"id">> THEN Append(<<>>, value) ELSE <<>>
    BY <1>1, <1>2, Bytes, Zenon
  <2>2. Append(<<>>, value) # <<>> /\ Append(<<>>, value)[1] = value
        /\ r.ids \o Append(<<>>, value) = Append(r.ids, value)
    BY <1>3, <1>4
  <2> HIDE DEF ids, name, value
  <2> QED
    BY <2>1, <2>2
<1>6. /\ WithValue(r.data, line, "data") = IF name = <<"data">> THEN Append(r.data, value) ELSE r.data
      /\ WithValue(r.types, line, "event")
           = IF name = <<"event">> THEN Append(r.types, value) ELSE r.types
  BY <1>1, <1>2, Bytes, Zenon
<1>7. TakeField(r, line)
        = [r EXCEPT !.data = WithValue(r.data, line, "data"),
                    !.types = WithValue(r.types, line, "event"),
                    !.ids = IF ids = <<>> \/ IsNul(ids[1]) THEN r.ids ELSE r.ids \o ids]
  BY DEF TakeField
<1> HIDE DEF ids, name, value
<1> QED
  BY <1>5, <1>6, <1>7 DEF name, value

LEMMA NamesDiffer ==
  /\ <<"data">> # <<"event">> /\ <<"data">> # <<"id">> /\ <<"event">> # <<"id">>
OBVIOUS

LEMMA FieldIsSet ==
  ASSUME NEW r \in Reference, NEW line \in Text, line # <<>>, Head(line) # ":"
  PROVE  /\ SetField(ReaderOf(r), FieldName(line), FieldValue(line)) = ReaderOf(TakeField(r, line))
         /\ TakeField(r, line) \in Reference
         /\ TakeField(r, line).items = r.items /\ TakeField(r, line).ok = r.ok
<1> DEFINE name == FieldName(line)
           value == FieldValue(line)
           t == TakeField(r, line)
           rd == ReaderOf(r)
<1>1. value \in Text
  BY FieldTypes
<1>2. t = [r EXCEPT !.data = IF name = <<"data">> THEN Append(@, value) ELSE @,
                    !.types = IF name = <<"event">> THEN Append(@, value) ELSE @,
                    !.ids = IF name = <<"id">> /\ ~IsNul(value) THEN Append(@, value) ELSE @]
  BY FieldTaken
<1>3. r.data \in Seq(Text) /\ r.types \in Seq(Text) /\ r.ids \in Seq(Text)
  BY DEF Reference
<1>4. \A vs \in Seq(Text) : /\ Append(vs, value) \in Seq(Text) /\ Append(vs, value) # <<>>
                            /\ Last(Append(vs, value)) = value
  BY <1>1, LastAppended
<1> HIDE DEF name, value, t, rd
<1>5. t \in Reference /\ t.items = r.items /\ t.ok = r.ok /\ t.lastId = r.lastId
  BY <1>1, <1>2, <1>3, <1>4 DEF Reference
<1>6. rd = [type |-> rd.type, data |-> rd.data, id |-> rd.id, lastId |-> r.lastId]
  BY DEF rd, ReaderOf
<1>7. CASE name = <<"data">>
  <2>1. t.data = Append(r.data, value) /\ t.types = r.types /\ t.ids = r.ids
    BY <1>2, <1>7, NamesDiffer DEF Reference
  <2>2. Joined(t.data) = IF r.data = <<>> THEN value ELSE Joined(r.data) \o <<"\n">> \o value
    BY <1>1, <1>3, <2>1, JoinedMore
  <2>3. Joined(t.data) = IF rd.data = None THEN value ELSE rd.data \o <<"\n">> \o value
    BY <2>2, ReaderOfValues DEF rd
  <2>4. t.data # <<>>
    BY <1>3, <1>4, <2>1
  <2>5. ReaderOf(t) = [rd EXCEPT !.data = Joined(t.data)]
    BY <1>5, <2>1, <2>4 DEF ReaderOf, rd
  <2>6. SetField(rd, name, value)
          = [rd EXCEPT !.data = IF @ = None THEN value ELSE @ \o <<"\n">> \o value]
    BY <1>7, NamesDiffer DEF SetField
  <2> QED
    BY <1>5, <1>6, <2>3, <2>5, <2>6 DEF name, value, t, rd
<1>8. CASE name = <<"event">>
  <2>1. t.data = r.data /\ t.types = Append(r.types, value) /\ t.ids = r.ids
    BY <1>2, <1>8, NamesDiffer DEF Reference
  <2>2. ReaderOf(t) = [rd EXCEPT !.type = value]
    <3>1. t.types # <<>> /\ Last(t.types) = value
      BY <1>3, <1>4, <2>1
    <3> QED
      BY <1>5, <2>1, <3>1 DEF ReaderOf, rd
  <2>3. SetField(rd, name, value) = [rd EXCEPT !.type = value]
    BY <1>8, NamesDiffer DEF SetField
  <2> QED
    BY <1>5, <2>2, <2>3 DEF name, value, t, rd
<1>9. CASE name = <<"id">> /\ ~IsNul(value)
  <2>1. t.data = r.data /\ t.types = r.types /\ t.ids = Append(r.ids, value)
    BY <1>2, <1>9, NamesDiffer DEF Reference
  <2>2. ReaderOf(t) = [rd EXCEPT !.id = value]
    BY <1>3, <1>4, <1>5, <2>1 DEF ReaderOf, rd
  <2>3. SetField(rd, name, value) = [rd EXCEPT !.id = value]
    BY <1>9, NamesDiffer DEF SetField, IsNul
  <2> QED
    BY <1>5, <2>2, <2>3 DEF name, value, t, rd
<1>10. CASE name # <<"data">> /\ name # <<"event">> /\ ~(name = <<"id">> /\ ~IsNul(value))
  <2>1. t.data = r.data /\ t.types = r.types /\ t.ids = r.ids
    BY <1>2, <1>10 DEF Reference
  <2>2. ReaderOf(t) = rd
    BY <1>5, <2>1 DEF ReaderOf, rd
  <2>3. SetField(rd, name, value) = rd
    BY <1>10 DEF SetField, IsNul
  <2> QED
    BY <1>5, <2>2, <2>3 DEF name, value, t, rd
<1> QED
  BY <1>7, <1>8, <1>9, <1>10

(* The generator takes a line as the reference does.                       *)
LEMMA LineTaken ==
  ASSUME NEW r \in Reference, NEW line \in Text
  PROVE  /\ EndLine(r, line) \in Reference
         /\ r.ok /\ Decodable(line) =>
              /\ TakeLine(ReaderOf(r), line) = ReaderOf(EndLine(r, line))
              /\ EndLine(r, line).items = r.items \o Yielded(ReaderOf(r), line)
              /\ EndLine(r, line).ok
         /\ r.ok /\ ~Decodable(line) =>
              EndLine(r, line).items = Append(r.items, DecodeError) /\ ~EndLine(r, line).ok
<1> DEFINE t == EndLine(r, line)
           rd == ReaderOf(r)
<1>1. r.items \in Seq(Item) /\ DecodeError \in Item
  BY DEF Reference, Item
<1>2. CASE ~r.ok
  BY <1>2 DEF EndLine
<1>3. CASE r.ok /\ ~Decodable(line)
  <2>1. t = [r EXCEPT !.ok = FALSE, !.items = Append(@, DecodeError)]
    BY <1>3 DEF EndLine
  <2>2. Append(r.items, DecodeError) \in Seq(Item)
    BY <1>1
  <2> HIDE DEF t
  <2>3. t \in Reference /\ t.items = Append(r.items, DecodeError) /\ ~t.ok
    BY <2>1, <2>2 DEF Reference
  <2> QED
    BY <1>3, <2>3 DEF t
<1>4. CASE r.ok /\ Decodable(line) /\ line = <<>>
  <2>1. t = [r EXCEPT !.items = @ \o BlockEvents(r), !.lastId = IdAfterBlock(r),
                      !.data = <<>>, !.types = <<>>, !.ids = <<>>]
    BY <1>4 DEF EndLine
  <2>2. r.items \o BlockEvents(r) \in Seq(Item)
    BY <1>1, BlockEventsAre
  <2> HIDE DEF t
  <2>3. /\ t \in Reference /\ t.items = r.items \o BlockEvents(r) /\ t.ok = r.ok
        /\ t.lastId = IdAfterBlock(r) /\ t.data = <<>> /\ t.types = <<>> /\ t.ids = <<>>
    <3> DEFINE items == r.items \o BlockEvents(r)
               id == IdAfterBlock(r)
    <3>1. t = [r EXCEPT !.items = items, !.lastId = id, !.data = <<>>, !.types = <<>>,
                        !.ids = <<>>]
      BY <2>1
    <3>2. items \in Seq(Item) /\ id \in OptText /\ <<>> \in Seq(Text)
      BY <2>2, BlockEventsAre
    <3> HIDE DEF items, id
    <3>3. /\ t \in Reference /\ t.items = items /\ t.ok = r.ok
          /\ t.lastId = id /\ t.data = <<>> /\ t.types = <<>> /\ t.ids = <<>>
      BY <3>1, <3>2 DEF Reference
    <3> QED
      BY <3>3 DEF items, id
  <2>4. ReaderOf(t) = NewReader(IdAfterBlock(r))
    BY <2>3 DEF ReaderOf, NewReader
  <2>5. TakeLine(rd, line) = NewReader(Dispatch(rd).lastId)
    BY <1>4 DEF TakeLine, Dispatch, NewReader
  <2> QED
    BY <1>4, <2>3, <2>4, <2>5, BlockEventsAre DEF t
<1>5. CASE r.ok /\ Decodable(line) /\ line # <<>> /\ Head(line) = ":"
  <2>1. t = [r EXCEPT !.items = Append(@, Comment(Tail(line)))]
    BY <1>5 DEF EndLine
  <2>2. Comment(Tail(line)) \in Item
    <3>1. Tail(line) \in Text
      BY <1>5 DEF Text
    <3> QED
      BY <3>1 DEF Comment, Item
  <2>3. Append(r.items, Comment(Tail(line))) \in Seq(Item)
        /\ Append(r.items, Comment(Tail(line))) = r.items \o <<Comment(Tail(line))>>
    BY <1>1, <2>2
  <2>4. Yielded(rd, line) = <<Comment(Tail(line))>> /\ TakeLine(rd, line) = rd
    BY <1>5 DEF Yielded, TakeLine
  <2> HIDE DEF t
  <2>5. /\ t \in Reference /\ t.items = Append(r.items, Comment(Tail(line))) /\ t.ok = r.ok
        /\ t.lastId = r.lastId /\ t.data = r.data /\ t.types = r.types /\ t.ids = r.ids
    BY <2>1, <2>3 DEF Reference
  <2>6. ReaderOf(t) = rd
    BY <2>5 DEF ReaderOf
  <2> QED
    BY <1>5, <2>3, <2>4, <2>5, <2>6 DEF t
<1>6. CASE r.ok /\ Decodable(line) /\ line # <<>> /\ Head(line) # ":"
  <2>1. t = TakeField(r, line)
    BY <1>6 DEF EndLine
  <2>2. Yielded(rd, line) = <<>>
        /\ TakeLine(rd, line) = SetField(rd, FieldName(line), FieldValue(line))
    BY <1>6 DEF Yielded, TakeLine
  <2>3. r.items \o <<>> = r.items
    BY <1>1
  <2> QED
    BY <1>6, <2>1, <2>2, <2>3, FieldIsSet
<1> QED
  BY <1>2, <1>3, <1>4, <1>5, <1>6
================================================================================
