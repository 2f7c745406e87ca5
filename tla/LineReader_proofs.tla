--------------------------- MODULE LineReader_proofs ---------------------------
(***************************************************************************)
(* Lemmas about LineReader, for chunks of any length and any bytes: what   *)
(* it makes of a chunk is what one gets by taking the bytes one by one.    *)
(***************************************************************************)
EXTENDS LineReader, NaturalRecursion, SequenceTheorems

Text == Seq(Byte)

(* The last element of a sequence, and its replacement. *)
LEMMA LastAppended ==
  ASSUME NEW S, NEW s \in Seq(S), NEW x \in S
  PROVE  /\ Append(s, x) # <<>>
         /\ Last(Append(s, x)) = x
         /\ Front(Append(s, x)) = s
<1>1. Append(s, x) # <<>>
  BY AppendProperties
<1>2. Last(Append(s, x)) = x /\ Front(Append(s, x)) = s
  BY DEF Last, Front
<1> QED
  BY <1>1, <1>2

LEMMA LastReplaced ==
  ASSUME NEW S, NEW s \in Seq(S), NEW x \in S, NEW y \in S
  PROVE  [Append(s, x) EXCEPT ![Len(Append(s, x))] = y] = Append(s, y)
<1> DEFINE u == Append(s, x)
           v == [u EXCEPT ![Len(u)] = y]
<1>1. u \in Seq(S) /\ Len(u) = Len(s) + 1 /\ Len(u) \in 1..Len(u)
  OBVIOUS
<1>2. v \in Seq(S) /\ Len(v) = Len(u)
  BY <1>1, ExceptSeq
<1>3. Append(s, y) \in Seq(S) /\ Len(Append(s, y)) = Len(u)
  OBVIOUS
<1>4. ASSUME NEW j \in 1..Len(u) PROVE v[j] = Append(s, y)[j]
  <2>1. v[j] = IF j = Len(u) THEN y ELSE u[j]
    <3>1. u \in [1..Len(u) -> S]
      BY <1>1, LenProperties
    <3> HIDE DEF u
    <3> QED
      BY <3>1
  <2>2. Append(s, y)[j] = IF j = Len(u) THEN y ELSE s[j]
    BY <1>1
  <2>3. j # Len(u) => u[j] = s[j]
    BY <1>1
  <2> QED
    BY <2>1, <2>2, <2>3
<1> HIDE DEF u, v
<1>5. v = Append(s, y)
  BY <1>2, <1>3, <1>4, SeqEqual
<1> QED
  BY <1>5 DEF u, v

LEMMA SameAppended ==
  ASSUME NEW S, NEW s, NEW t, NEW x, NEW y, s \in Seq(S), t \in Seq(S), x \in S, y \in S,
         Append(s, x) = Append(t, y)
  PROVE  s = t /\ x = y
BY AppendInjective

LEMMA TextsJoined ==
  ASSUME NEW p, NEW x, NEW y, p \in Text, x \in Text, y \in Text
  PROVE  p \o x \in Text /\ p \o (x \o y) = (p \o x) \o y
BY DEF Text

Associate(p, x, y) == p \o (x \o y) = (p \o x) \o y

LEMMA TextsAssociate ==
  ASSUME NEW p, NEW x, NEW y, p \in Text, x \in Text, y \in Text
  PROVE  p \o x \in Text /\ Associate(p, x, y)
BY TextsJoined DEF Associate

--------------------------------------------------------------------------------
(* What the recursive function of SplitLines is. *)

LEMMA LinesUpToType ==
  ASSUME NEW chunk \in Text, NEW i \in 1..Len(chunk), NEW lines \in Seq(Text)
  PROVE  LinesUpTo(chunk, i, lines) \in Seq(Text)
<1>1. Strip(chunk[i]) \in Text
  BY DEF Strip, Text
<1>2. Append(lines, Strip(chunk[i])) \in Seq(Text)
  BY <1>1
<1>3. [lines EXCEPT ![Len(lines)] = @ \o Strip(chunk[i])] \in Seq(Text)
  <2>1. CASE lines = <<>>
    <3>1. lines \in [1..Len(lines) -> Text] /\ Len(lines) \notin 1..Len(lines)
      BY <2>1
    <3>2. [lines EXCEPT ![Len(lines)] = @ \o Strip(chunk[i])] = lines
      BY <3>1, Zenon
    <3> QED
      BY <3>2
  <2>2. CASE lines # <<>>
    <3>1. lines[Len(lines)] \o Strip(chunk[i]) \in Text
      BY <1>1, <2>2 DEF Text
    <3> QED
      BY <2>2, <3>1
  <2> QED
    BY <2>1, <2>2
<1> QED
  BY <1>2, <1>3 DEF LinesUpTo

IsSplit(split, chunk) ==
  /\ split \in [0..Len(chunk) -> Seq(Text)]
  /\ split[0] = <<>>
  /\ \A i \in 1..Len(chunk) : split[i] = LinesUpTo(chunk, i, split[i - 1])

LEMMA SplitExists ==
  ASSUME NEW chunk \in Text
  PROVE  \E split : IsSplit(split, chunk) /\ SplitLines(chunk) = split[Len(chunk)]
<1> DEFINE n == Len(chunk)
           S == Seq(Text)
           g == [p \in (1..n) \X S |-> LinesUpTo(chunk, p[1], p[2])]
           Equation(f) == f = [i \in 0..n |-> IF i = 0 THEN <<>>
                                              ELSE LinesUpTo(chunk, i, f[i - 1])]
           split == CHOOSE f : Equation(f)
<1>1. n \in Nat /\ <<>> \in S
  BY DEF Text
<1>2. g \in [(1..n) \X S -> S]
  BY LinesUpToType
<1>3. PICK f : Iterates(f, n, S, <<>>, g)
  <2> HIDE DEF n, S, g, Equation, split
  <2> QED
    BY <1>1, <1>2, FiniteRecursion, Zenon
<1>4. \A i \in 1..n : f[i] = LinesUpTo(chunk, i, f[i - 1])
  <2> SUFFICES ASSUME NEW i \in 1..n PROVE f[i] = LinesUpTo(chunk, i, f[i - 1])
    OBVIOUS
  <2>1. f[i] = g[<<i, f[i - 1]>>] /\ f[i - 1] \in S
    <3> HIDE DEF n, S, g, Equation, split
    <3> QED
      BY <1>1, <1>3 DEF Iterates
  <2>2. <<i, f[i - 1]>> \in (1..n) \X S
    BY <2>1
  <2> QED
    BY <2>1, <2>2
<1>5. Equation(f)
  <2> HIDE DEF n, S, g
  <2> QED
    BY <1>1, <1>3, <1>4 DEF Iterates
<1>6. Equation(split)
  BY <1>5
<1>7. SplitLines(chunk) = split[n]
  BY DEF SplitLines
<1> HIDE DEF split
<1>8. split[0] = <<>> /\ \A i \in 1..n : split[i] = LinesUpTo(chunk, i, split[i - 1])
  <2> HIDE DEF n
  <2> QED
    BY <1>1, <1>6
<1>9. \A i \in 0..n : split[i] = f[i]
  <2> HIDE DEF n, S, g, Equation
  <2>1. StepsAgree(split, f, n)
    BY <1>4, <1>8 DEF StepsAgree
  <2>2. split[0] = f[0] /\ n \in Nat
    BY <1>1, <1>3, <1>8 DEF Iterates
  <2> QED
    BY <2>1, <2>2, SameSteps, Zenon
<1>10. split = f
  <2> HIDE DEF n, Equation
  <2>1. split = [i \in 0..n |-> split[i]] /\ f = [i \in 0..n |-> f[i]]
    BY <1>1, <1>3, <1>6 DEF Equation, Iterates
  <2> QED
    BY <1>9, <2>1
<1> QED
  BY <1>3, <1>7, <1>8, <1>10 DEF IsSplit, Iterates

--------------------------------------------------------------------------------
(* The splitter that takes bytes one by one. *)

Splitter == [partial : Text, lastWasCR : BOOLEAN, lines : Seq(Text)]

OneByte(s, byte) ==
  IF byte = LF /\ s.lastWasCR THEN [s EXCEPT !.lastWasCR = FALSE]
  ELSE IF byte \in {CR, LF}
  THEN [partial |-> <<>>, lastWasCR |-> byte = CR, lines |-> Append(s.lines, s.partial)]
  ELSE [s EXCEPT !.partial = Append(@, byte), !.lastWasCR = FALSE]

WithNoLines(r) == [partial |-> r.partial, lastWasCR |-> r.lastWasCR, lines |-> <<>>]

ByteByByte(after, r, chunk) ==
  /\ after \in [0..Len(chunk) -> Splitter]
  /\ after[0] = WithNoLines(r)
  /\ \A i \in 1..Len(chunk) : after[i] = OneByte(after[i - 1], chunk[i])

(* The locals of lines_from when it waits for a chunk. *)
Resting(r) == /\ r \in [partial : Text, lastWasCR : BOOLEAN]
              /\ r.lastWasCR => r.partial = <<>>

LEMMA OneByteType ==
  ASSUME NEW s \in Splitter, NEW byte \in Byte
  PROVE  OneByte(s, byte) \in Splitter
<1>1. Append(s.lines, s.partial) \in Seq(Text) /\ Append(s.partial, byte) \in Text
      /\ <<>> \in Text
  BY DEF Splitter, Text
<1> QED
  BY <1>1 DEF OneByte, Splitter

LEMMA ByteByByteExists ==
  ASSUME NEW chunk \in Text, NEW r, Resting(r)
  PROVE  \E after : ByteByByte(after, r, chunk)
<1> DEFINE n == Len(chunk)
           a == WithNoLines(r)
           g == [p \in (1..n) \X Splitter |-> OneByte(p[2], chunk[p[1]])]
<1>1. n \in Nat /\ a \in Splitter /\ \A i \in 1..n : chunk[i] \in Byte
  BY DEF Text, Resting, WithNoLines, Splitter
<1>2. g \in [(1..n) \X Splitter -> Splitter]
  BY <1>1, OneByteType
<1>3. PICK after : Iterates(after, n, Splitter, a, g)
  <2> HIDE DEF n, a, g
  <2> QED
    BY <1>1, <1>2, FiniteRecursion, Zenon
<1>4. ASSUME NEW i \in 1..n PROVE after[i] = OneByte(after[i - 1], chunk[i])
  <2>1. after[i] = g[<<i, after[i - 1]>>] /\ after[i - 1] \in Splitter
    <3> HIDE DEF n, a, g
    <3> QED
      BY <1>1, <1>3 DEF Iterates
  <2>2. <<i, after[i - 1]>> \in (1..n) \X Splitter
    BY <2>1
  <2> QED
    BY <2>1, <2>2
<1>5. after \in [0..n -> Splitter] /\ after[0] = a
  BY <1>3 DEF Iterates
<1> QED
  BY <1>4, <1>5 DEF ByteByByte

(* The unfinished line and the list of the lines of a chunk, as ReadChunk  *)
(* puts them together: d says that the first one is dropped.               *)
JoinedFrom(p, d, ls) ==
  LET rest == IF d THEN Tail(ls) ELSE ls
  IN  IF rest = <<>> THEN <<>> ELSE <<p \o Head(rest)>> \o Tail(rest)

LEMMA JoinedAppended ==
  ASSUME NEW p \in Text, NEW d \in BOOLEAN, NEW ls \in Seq(Text), NEW x \in Text,
         d => p = <<>> /\ ls # <<>>
  PROVE  /\ JoinedFrom(p, d, ls) \in Seq(Text)
         /\ JoinedFrom(p, d, Append(ls, x))
              = Append(JoinedFrom(p, d, ls), IF ls = <<>> THEN p \o x ELSE x)
<1> DEFINE rest == IF d THEN Tail(ls) ELSE ls
           more == IF d THEN Tail(Append(ls, x)) ELSE Append(ls, x)
<1>1. rest \in Seq(Text) /\ (~d => rest = ls)
  BY HeadTailProperties
<1>2. more = Append(rest, x) /\ more # <<>>
  <2>1. more = Append(rest, x)
    BY HeadTailAppend
  <2> QED
    BY <1>1, <2>1, AppendProperties
<1>3. Head(more) = IF rest = <<>> THEN x ELSE Head(rest)
  BY <1>1, <1>2, HeadTailAppend
<1>4. Tail(more) = IF rest = <<>> THEN <<>> ELSE Append(Tail(rest), x)
  BY <1>1, <1>2, HeadTailAppend
<1>5. JoinedFrom(p, d, ls) = IF rest = <<>> THEN <<>> ELSE <<p \o Head(rest)>> \o Tail(rest)
  BY DEF JoinedFrom
<1>6. JoinedFrom(p, d, Append(ls, x)) = <<p \o Head(more)>> \o Tail(more)
  BY <1>2 DEF JoinedFrom
<1> HIDE DEF rest, more
<1>7. CASE rest = <<>>
  <2>1. JoinedFrom(p, d, Append(ls, x)) = <<p \o x>> \o <<>>
    BY <1>3, <1>4, <1>6, <1>7
  <2>2. p \o x \in Text
    BY DEF Text
  <2>3. <<p \o x>> \o <<>> = Append(<<>>, p \o x)
    BY <2>2
  <2>4. ls # <<>> => p \o x = x
    <3>1. ls # <<>> => d
      BY <1>1, <1>7
    <3> QED
      BY <3>1 DEF Text
  <2> QED
    BY <1>5, <1>7, <2>1, <2>3, <2>4
<1>8. CASE rest # <<>>
  <2>1. Head(rest) \in Text /\ Tail(rest) \in Seq(Text)
    BY <1>1, <1>8, HeadTailProperties
  <2>2. p \o Head(rest) \in Text
    BY <2>1 DEF Text
  <2>3. <<p \o Head(rest)>> \o Append(Tail(rest), x)
          = Append(<<p \o Head(rest)>> \o Tail(rest), x)
    BY <2>1, <2>2
  <2>4. ls # <<>>
    BY <1>1, <1>8
  <2>5. <<p \o Head(rest)>> \o Tail(rest) \in Seq(Text)
    BY <2>1, <2>2
  <2>6. JoinedFrom(p, d, ls) = <<p \o Head(rest)>> \o Tail(rest)
    BY <1>5, <1>8
  <2>7. JoinedFrom(p, d, Append(ls, x)) = <<p \o Head(rest)>> \o Append(Tail(rest), x)
    BY <1>3, <1>4, <1>6, <1>8
  <2> QED
    BY <2>3, <2>4, <2>5, <2>6, <2>7
<1> QED
  BY <1>7, <1>8

(* The list of splitlines() after a byte, and the splitter after the same. *)
Agree(ls, s, byte, p, d) ==
  /\ ls \in Seq(Text) /\ ls # <<>> /\ s \in Splitter
  /\ s.lastWasCR = (byte = CR)
  /\ byte \in {CR, LF} => s.partial = <<>> /\ JoinedFrom(p, d, ls) = s.lines
  /\ byte \notin {CR, LF} => JoinedFrom(p, d, ls) = Append(s.lines, s.partial)
  /\ d /\ Tail(ls) = <<>> => byte = LF

LEMMA FirstByteAgrees ==
  ASSUME NEW byte \in Byte, NEW p \in Text, NEW cr \in BOOLEAN, cr => p = <<>>,
         NEW d \in BOOLEAN, d <=> cr /\ byte = LF, NEW s,
         s = OneByte([partial |-> p, lastWasCR |-> cr, lines |-> <<>>], byte)
  PROVE  Agree(<<Strip(byte)>>, s, byte, p, d)
<1>1. Strip(byte) \in Text
  BY DEF Strip, Text
<1>2. s \in Splitter
  <2>1. [partial |-> p, lastWasCR |-> cr, lines |-> <<>>] \in Splitter
    BY DEF Splitter
  <2> QED
    BY <2>1, OneByteType
<1>3. <<Strip(byte)>> \in Seq(Text) /\ <<Strip(byte)>> # <<>>
  BY <1>1
<1>4. CASE d
  <2>1. s.partial = <<>> /\ s.lastWasCR = FALSE /\ s.lines = <<>> /\ byte = LF
    BY <1>4 DEF OneByte
  <2>2. Tail(<<Strip(byte)>>) = <<>>
    OBVIOUS
  <2>3. JoinedFrom(p, d, <<Strip(byte)>>) = <<>>
    BY <1>4, <2>2 DEF JoinedFrom
  <2> QED
    BY <1>2, <1>3, <2>1, <2>3 DEF Agree, CR, LF
<1>5. CASE ~d
  <2>1. JoinedFrom(p, d, <<Strip(byte)>>) = <<p \o Strip(byte)>>
    <3>1. Head(<<Strip(byte)>>) = Strip(byte) /\ Tail(<<Strip(byte)>>) = <<>>
      BY <1>1
    <3>2. p \o Strip(byte) \in Text
      BY <1>1 DEF Text
    <3>3. <<p \o Strip(byte)>> \o <<>> = <<p \o Strip(byte)>>
      BY <3>2
    <3> QED
      BY <1>3, <1>5, <3>1, <3>3 DEF JoinedFrom
  <2>2. CASE byte \in {CR, LF}
    <3>1. s.partial = <<>> /\ s.lastWasCR = (byte = CR) /\ s.lines = Append(<<>>, p)
      BY <1>5, <2>2 DEF OneByte
    <3>2. p \o Strip(byte) = p
      BY <2>2 DEF Strip, Text
    <3>3. Append(<<>>, p) = <<p>>
      OBVIOUS
    <3> QED
      BY <1>2, <1>3, <2>1, <2>2, <3>1, <3>2, <3>3 DEF Agree
  <2>3. CASE byte \notin {CR, LF}
    <3>1. s.partial = Append(p, byte) /\ s.lastWasCR = FALSE /\ s.lines = <<>>
      BY <1>5, <2>3 DEF OneByte
    <3>2. p \o Strip(byte) = Append(p, byte)
      BY <2>3 DEF Strip, Text
    <3>3. <<Append(p, byte)>> = Append(<<>>, Append(p, byte))
      BY DEF Text
    <3> QED
      BY <1>2, <1>3, <2>1, <2>3, <3>1, <3>2, <3>3 DEF Agree
  <2> QED
    BY <2>2, <2>3
<1> QED
  BY <1>4, <1>5

LEMMA NextByteAgrees ==
  ASSUME NEW chunk \in Text, NEW i \in 2..Len(chunk), NEW ls, NEW s,
         NEW p \in Text, NEW d \in BOOLEAN, d => p = <<>>,
         Agree(ls, s, chunk[i - 1], p, d)
  PROVE  Agree(LinesUpTo(chunk, i, ls), OneByte(s, chunk[i]), chunk[i], p, d)
<1> DEFINE byte == chunk[i]
           last == chunk[i - 1]
           more == LinesUpTo(chunk, i, ls)
           t == OneByte(s, byte)
           J(l) == JoinedFrom(p, d, l)
<1>1. byte \in Byte /\ last \in Byte /\ i # 1 /\ i > 1
  BY DEF Text
<1>2. Strip(byte) \in Text /\ ls \in Seq(Text) /\ ls # <<>> /\ s \in Splitter
      /\ s.partial \in Text /\ s.lines \in Seq(Text)
  BY <1>1 DEF Strip, Text, Agree, Splitter
<1>3. t \in Splitter /\ more \in Seq(Text)
  <2>1. i \in 1..Len(chunk)
    OBVIOUS
  <2> QED
    BY <1>1, <1>2, <2>1, OneByteType, LinesUpToType
<1>4. CASE last = CR /\ byte = LF
  <2>1. more = ls
    BY <1>1, <1>4 DEF LinesUpTo
  <2>2. t = [s EXCEPT !.lastWasCR = FALSE]
    BY <1>4 DEF OneByte, Agree
  <2>3. t.partial = s.partial /\ t.lines = s.lines /\ t.lastWasCR = FALSE
    BY <1>2, <2>2 DEF Splitter
  <2> QED
    BY <1>2, <1>3, <1>4, <2>1, <2>3 DEF Agree, CR, LF
<1>5. CASE last \in {CR, LF} /\ ~(last = CR /\ byte = LF)
  <2>1. more = Append(ls, Strip(byte))
    BY <1>1, <1>5 DEF LinesUpTo
  <2>2. J(more) = Append(s.lines, Strip(byte)) /\ more # <<>>
    <3> HIDE DEF byte
    <3>1. JoinedFrom(p, d, Append(ls, Strip(byte))) = Append(JoinedFrom(p, d, ls), Strip(byte))
      BY <1>2, JoinedAppended
    <3>2. JoinedFrom(p, d, ls) = s.lines
      BY <1>5 DEF Agree
    <3> QED
      BY <1>2, <2>1, <3>1, <3>2, AppendProperties
  <2>3. s.partial = <<>> /\ ~(byte = LF /\ s.lastWasCR)
    BY <1>5 DEF Agree
  <2>6. d => Tail(more) # <<>>
    <3>1. d => Tail(more) = Append(Tail(ls), Strip(byte)) /\ Tail(ls) \in Seq(Text)
      BY <1>2, <2>1, HeadTailAppend, HeadTailProperties
    <3> QED
      BY <1>2, <3>1, AppendProperties
  <2>4. CASE byte \in {CR, LF}
    BY <1>3, <2>2, <2>3, <2>4, <2>6 DEF OneByte, Strip, Agree
  <2>5. CASE byte \notin {CR, LF}
    <3>1. t.partial = Append(<<>>, byte) /\ t.lastWasCR = FALSE /\ t.lines = s.lines
      BY <1>2, <2>3, <2>5 DEF OneByte, Splitter
    <3>2. Append(<<>>, byte) = Strip(byte)
      BY <1>1, <2>5 DEF Strip
    <3> QED
      BY <1>3, <2>2, <2>5, <2>6, <3>1, <3>2 DEF Agree
  <2> QED
    BY <2>4, <2>5
<1>6. CASE last \notin {CR, LF}
  <2>1. PICK front \in Seq(Text), x \in Text : ls = Append(front, x)
    BY <1>2, SequenceEmptyOrAppend
  <2>2. ls[Len(ls)] = x
    BY <2>1
  <2>3. more = [ls EXCEPT ![Len(ls)] = x \o Strip(byte)]
    BY <1>1, <1>6, <2>2 DEF LinesUpTo
  <2>4. x \o Strip(byte) \in Text
    BY <1>2 DEF Text
  <2>5. more = Append(front, x \o Strip(byte)) /\ more # <<>>
    <3> DEFINE y == x \o Strip(byte)
    <3>1. ASSUME NEW z \in Text
          PROVE  [Append(front, x) EXCEPT ![Len(Append(front, x))] = z] = Append(front, z)
      BY LastReplaced
    <3>2. [Append(front, x) EXCEPT ![Len(Append(front, x))] = y] = Append(front, y)
      BY <2>4, <3>1
    <3> QED
      BY <2>1, <2>3, <2>4, <3>2, AppendProperties
  <2>6. J(ls) = Append(s.lines, s.partial) /\ s.lastWasCR = FALSE
    BY <1>6 DEF Agree
  <2>7. d => front # <<>>
    <3> SUFFICES ASSUME d, front = <<>> PROVE FALSE
      OBVIOUS
    <3>1. Tail(ls) = <<>>
      BY <2>1, HeadTailAppend
    <3>2. J(ls) = <<>>
      BY <3>1 DEF JoinedFrom
    <3> HIDE DEF J
    <3>3. Append(s.lines, s.partial) # <<>>
      BY <1>2, AppendProperties
    <3> QED
      BY <2>6, <3>2, <3>3
  <2>8. J(more) = Append(s.lines, s.partial \o Strip(byte))
    <3>1. J(front) \in Seq(Text)
          /\ J(ls) = Append(J(front), IF front = <<>> THEN p \o x ELSE x)
      BY <2>1, <2>7, JoinedAppended
    <3>2. J(more) = Append(J(front), IF front = <<>> THEN p \o (x \o Strip(byte))
                                                      ELSE x \o Strip(byte))
      BY <2>4, <2>5, <2>7, JoinedAppended
    <3>3. p \o x \in Text /\ p \o (x \o Strip(byte)) = (p \o x) \o Strip(byte)
      <4> HIDE DEF byte, more, t, J
      <4>1. p \o x \in Text /\ Associate(p, x, Strip(byte))
        BY <1>2, TextsAssociate, Zenon
      <4> QED
        BY <4>1 DEF Associate
    <3> DEFINE y == IF front = <<>> THEN p \o x ELSE x
    <3>4. y \in Text /\ J(ls) = Append(J(front), y) /\ J(more) = Append(J(front), y \o Strip(byte))
      BY <3>1, <3>2, <3>3
    <3> HIDE DEF y, byte
    <3>5. J(front) = s.lines /\ y = s.partial
      <4>1. Append(J(front), y) = Append(s.lines, s.partial)
        BY <2>6, <3>4
      <4>2. J(front) \in Seq(Text) /\ y \in Text
            /\ s.lines \in Seq(Text) /\ s.partial \in Text
        BY <1>2, <3>1, <3>4
      <4> QED
        BY <4>1, <4>2, SameAppended
    <3> QED
      BY <3>4, <3>5
  <2>11. d => Tail(more) # <<>>
    <3>1. d => Tail(more) = Append(Tail(front), x \o Strip(byte)) /\ Tail(front) \in Seq(Text)
      BY <2>5, <2>7, HeadTailAppend, HeadTailProperties
    <3> QED
      BY <2>4, <3>1, AppendProperties
  <2>9. CASE byte \in {CR, LF}
    <3>1. s.partial \o Strip(byte) = s.partial
      BY <1>2, <2>9 DEF Strip, Text
    <3> QED
      BY <1>3, <2>5, <2>6, <2>8, <2>9, <2>11, <3>1 DEF OneByte, Agree
  <2>10. CASE byte \notin {CR, LF}
    <3>1. s.partial \o Strip(byte) = Append(s.partial, byte)
      BY <1>1, <1>2, <2>10 DEF Strip, Text
    <3>2. t.partial = Append(s.partial, byte) /\ t.lastWasCR = FALSE /\ t.lines = s.lines
      BY <1>2, <2>6, <2>10 DEF OneByte, Splitter
    <3> QED
      BY <1>3, <2>5, <2>8, <2>10, <2>11, <3>1, <3>2 DEF Agree
  <2> QED
    BY <2>9, <2>10
<1> QED
  BY <1>4, <1>5, <1>6

(* One pass of the loop of lines_from does with a chunk what the splitter  *)
(* does that takes its bytes one by one.                                   *)
LEMMA ChunkIsRead ==
  ASSUME NEW chunk \in Text, NEW r, Resting(r), NEW after, ByteByByte(after, r, chunk)
  PROVE  ReadChunk(r, chunk) = after[Len(chunk)]
<1> DEFINE n == Len(chunk)
           p == r.partial
           d == r.lastWasCR /\ chunk[1] = LF
<1>1. p \in Text /\ r.lastWasCR \in BOOLEAN /\ d \in BOOLEAN /\ (d => p = <<>>)
      /\ n \in Nat /\ WithNoLines(r) \in Splitter
  BY DEF Resting, Text, WithNoLines, Splitter
<1>2. CASE chunk = <<>>
  BY <1>2 DEF ReadChunk, ByteByByte, WithNoLines
<1>3. CASE chunk # <<>>
  <2>1. n \in Nat \ {0}
    BY <1>3, EmptySeq DEF Text
  <2>2. PICK split : IsSplit(split, chunk) /\ SplitLines(chunk) = split[n]
    BY SplitExists
  <2> DEFINE D == {i \in Nat : i + 1 <= n => Agree(split[i + 1], after[i + 1], chunk[i + 1], p, d)}
  <2>3. 0 \in D
    <3>1. chunk[1] \in Byte /\ 1 \in 1..n
      BY <2>1 DEF Text
    <3>2. after[1] = OneByte([partial |-> p, lastWasCR |-> r.lastWasCR, lines |-> <<>>], chunk[1])
      BY <3>1 DEF ByteByByte, WithNoLines
    <3>3. split[1] = <<Strip(chunk[1])>>
      <4>1. Strip(chunk[1]) \in Text
        BY <3>1 DEF Strip, Text
      <4>2. split[1] = LinesUpTo(chunk, 1, split[1 - 1]) /\ split[0] = <<>>
        BY <2>2, <3>1 DEF IsSplit
      <4>3. split[1] = LinesUpTo(chunk, 1, <<>>)
        BY <4>2
      <4>4. LinesUpTo(chunk, 1, <<>>) = Append(<<>>, Strip(chunk[1]))
        BY DEF LinesUpTo
      <4> QED
        BY <4>1, <4>3, <4>4
    <3> HIDE DEF p, n
    <3>4. Agree(split[1], after[1], chunk[1], p, d)
      <4> DEFINE byte == chunk[1]
      <4>1. \A b \in BOOLEAN : \A s : (b <=> r.lastWasCR /\ byte = LF)
              /\ s = OneByte([partial |-> p, lastWasCR |-> r.lastWasCR, lines |-> <<>>], byte)
              => Agree(<<Strip(byte)>>, s, byte, p, b)
        BY <1>1, <3>1, FirstByteAgrees DEF Resting, p
      <4> QED
        BY <1>1, <3>2, <3>3, <4>1
    <3> QED
      BY <3>4
  <2>4. ASSUME NEW i \in Nat, i \in D PROVE i + 1 \in D
    <3> SUFFICES ASSUME (i + 1) + 1 <= n
                 PROVE  Agree(split[(i + 1) + 1], after[(i + 1) + 1], chunk[(i + 1) + 1], p, d)
      OBVIOUS
    <3> DEFINE j == (i + 1) + 1
    <3>1. j \in 2..n /\ j \in 1..n /\ j - 1 = i + 1
      BY <1>1
    <3>2. Agree(split[j - 1], after[j - 1], chunk[j - 1], p, d)
      BY <1>1, <2>4, <3>1
    <3> HIDE DEF j, d, p
    <3>3. split[j] = LinesUpTo(chunk, j, split[j - 1])
          /\ after[j] = OneByte(after[j - 1], chunk[j])
      BY <2>2, <3>1 DEF IsSplit, ByteByByte
    <3>4. Agree(split[j], after[j], chunk[j], p, d)
      BY <1>1, <3>1, <3>2, <3>3, NextByteAgrees
    <3> QED
      BY <3>4 DEF j
  <2> HIDE DEF D
  <2>5. n - 1 \in D
    <3>1. \A i \in Nat : i \in D
      BY <2>3, <2>4, Induction
    <3> QED
      BY <2>1, <3>1
  <2>6. Agree(SplitLines(chunk), after[n], Last(chunk), p, d)
    <3>1. n - 1 \in Nat /\ (n - 1) + 1 = n
      BY <2>1
    <3> HIDE DEF n
    <3> QED
      BY <2>2, <2>5, <3>1 DEF D, Last, n
  <2> DEFINE ls == SplitLines(chunk)
             rest == LinesAfterCR(r, chunk)
             s == after[n]
  <2>7. rest = IF d THEN Tail(ls) ELSE ls
    <3>1. Head(chunk) = chunk[1]
      BY <1>3 DEF Text
    <3> QED
      BY <3>1 DEF LinesAfterCR
  <2>8. s = [partial |-> s.partial, lastWasCR |-> s.lastWasCR, lines |-> s.lines]
        /\ s.lines \in Seq(Text) /\ s.partial \in Text
    BY <2>6 DEF Agree, Splitter
  <2>9. CASE rest = <<>>
    <3>1. d /\ Tail(ls) = <<>> /\ Last(chunk) = LF /\ JoinedFrom(p, d, ls) = <<>>
      BY <2>6, <2>7, <2>9 DEF Agree, JoinedFrom
    <3>2. s.partial = p /\ s.lastWasCR = FALSE /\ s.lines = <<>>
      BY <1>1, <2>6, <3>1 DEF Agree, CR, LF
    <3>3. ReadChunk(r, chunk) = [partial |-> p, lastWasCR |-> FALSE, lines |-> <<>>]
      BY <1>3, <2>9 DEF ReadChunk
    <3> HIDE DEF p, s
    <3> QED
      BY <2>8, <3>2, <3>3 DEF s
  <2>10. CASE rest # <<>>
    <3> DEFINE joined == <<p \o Head(rest)>> \o Tail(rest)
    <3>1. JoinedFrom(p, d, ls) = joined
      <4>1. CASE d
        BY <2>7, <2>10, <4>1 DEF JoinedFrom
      <4>2. CASE ~d
        BY <2>7, <2>10, <4>2 DEF JoinedFrom
      <4> HIDE DEF d
      <4> QED
        BY <4>1, <4>2
    <3>2. CASE Last(chunk) \in {CR, LF}
      <4>1. ReadChunk(r, chunk)
              = [partial |-> <<>>, lastWasCR |-> Last(chunk) = CR, lines |-> joined]
        BY <1>3, <2>10, <3>2 DEF ReadChunk
      <4>2. s.partial = <<>> /\ s.lastWasCR = (Last(chunk) = CR) /\ s.lines = joined
        BY <2>6, <3>1, <3>2 DEF Agree
      <4> HIDE DEF s, joined
      <4> QED
        BY <2>8, <4>1, <4>2 DEF s
    <3>3. CASE Last(chunk) \notin {CR, LF}
      <4>1. ReadChunk(r, chunk)
              = [partial |-> Last(joined), lastWasCR |-> FALSE, lines |-> Front(joined)]
        BY <1>3, <2>10, <3>3 DEF ReadChunk
      <4>2. joined = Append(s.lines, s.partial) /\ s.lastWasCR = FALSE
        BY <2>6, <3>1, <3>3 DEF Agree
      <4> HIDE DEF s, joined
      <4>3. Last(joined) = s.partial /\ Front(joined) = s.lines
        BY <2>8, <4>2, LastAppended
      <4> QED
        BY <2>8, <4>1, <4>2, <4>3 DEF s
    <3> QED
      BY <3>2, <3>3
  <2> QED
    BY <2>9, <2>10
<1> QED
  BY <1>2, <1>3

(* Between two bytes no line holds a terminator or follows a CR, and there *)
(* are at most as many lines as bytes.                                     *)
Clean(text) == {CR, LF} \cap Range(text) = {}

AtRest(s, i) ==
  /\ s.lastWasCR => s.partial = <<>>
  /\ Clean(s.partial)
  /\ Len(s.lines) <= i

LEMMA OneByteRests ==
  ASSUME NEW s \in Splitter, NEW byte \in Byte, NEW i \in Nat, AtRest(s, i)
  PROVE  AtRest(OneByte(s, byte), i + 1)
<1>1. s.partial \in Text /\ s.lines \in Seq(Text) /\ Len(s.lines) \in Nat
  BY DEF Splitter
<1>2. Len(Append(s.lines, s.partial)) = Len(s.lines) + 1
  BY <1>1
<1>3. Clean(<<>>)
  BY DEF Clean, Range
<1>4. ASSUME byte \notin {CR, LF} PROVE Clean(Append(s.partial, byte))
  <2>1. Append(s.partial, byte) \in Text /\ Len(Append(s.partial, byte)) = Len(s.partial) + 1
        /\ Len(s.partial) \in Nat
    BY <1>1 DEF Text
  <2>2. \A j \in 1..(Len(s.partial) + 1) :
          Append(s.partial, byte)[j] = IF j = Len(s.partial) + 1 THEN byte ELSE s.partial[j]
    BY <1>1 DEF Text
  <2>3. \A j \in 1..Len(s.partial) : s.partial[j] \notin {CR, LF}
    <3>1. DOMAIN s.partial = 1..Len(s.partial)
      BY <1>1 DEF Text
    <3>2. \A j \in DOMAIN s.partial : s.partial[j] \in Range(s.partial)
      BY DEF Range
    <3> QED
      BY <3>1, <3>2 DEF AtRest, Clean
  <2>4. DOMAIN Append(s.partial, byte) = 1..(Len(s.partial) + 1)
    BY <2>1 DEF Text
  <2>5. \A j \in DOMAIN Append(s.partial, byte) : Append(s.partial, byte)[j] \notin {CR, LF}
    BY <1>4, <2>1, <2>2, <2>3, <2>4
  <2> QED
    BY <2>5 DEF Clean, Range
<1>5. CASE byte = LF /\ s.lastWasCR
  BY <1>1, <1>5 DEF OneByte, AtRest, Splitter
<1>6. CASE ~(byte = LF /\ s.lastWasCR) /\ byte \in {CR, LF}
  BY <1>1, <1>2, <1>3, <1>6 DEF OneByte, AtRest
<1>7. CASE byte \notin {CR, LF}
  BY <1>1, <1>4, <1>7 DEF OneByte, AtRest, Splitter
<1> QED
  BY <1>5, <1>6, <1>7

LEMMA BytesRest ==
  ASSUME NEW chunk \in Text, NEW r, Resting(r), Clean(r.partial),
         NEW after, ByteByByte(after, r, chunk)
  PROVE  \A i \in 0..Len(chunk) : AtRest(after[i], i)
<1> DEFINE D == {i \in Nat : i <= Len(chunk) => AtRest(after[i], i)}
<1>1. 0 \in D
  BY DEF ByteByByte, WithNoLines, AtRest, Resting
<1>2. ASSUME NEW i \in Nat, i \in D PROVE i + 1 \in D
  <2> SUFFICES ASSUME i + 1 <= Len(chunk) PROVE AtRest(after[i + 1], i + 1)
    OBVIOUS
  <2>1. Len(chunk) \in Nat /\ i + 1 \in 1..Len(chunk) /\ i \in 0..Len(chunk)
        /\ (i + 1) - 1 = i /\ AtRest(after[i], i)
    BY <1>2 DEF Text
  <2>2. after[i] \in Splitter /\ after[i + 1] = OneByte(after[(i + 1) - 1], chunk[i + 1])
    BY <2>1 DEF ByteByByte
  <2>3. chunk[i + 1] \in Byte
    BY <2>1 DEF Text
  <2> QED
    BY <2>1, <2>2, <2>3, OneByteRests
<1> HIDE DEF D
<1>3. \A i \in Nat : i \in D
  BY <1>1, <1>2, Induction
<1> QED
  BY <1>3 DEF D
================================================================================
