-------------------------- MODULE ReaderPipeline_proofs ------------------------
(***************************************************************************)
(* Proofs about ReaderPipeline: whatever the chunks and the sessions, the  *)
(* application gets the items of the reference, for lines and blocks of    *)
(* any length.                                                             *)
(***************************************************************************)
EXTENDS EventReader_proofs

(* The reference with another unfinished line. *)
With(r, text, cr) == [r EXCEPT !.line = text, !.afterCR = cr]

LEMMA WithIsReference ==
  ASSUME NEW r \in Reference, NEW text \in Text, NEW cr \in BOOLEAN
  PROVE  /\ With(r, text, cr) \in Reference
         /\ With(r, text, cr).line = text /\ With(r, text, cr).afterCR = cr
         /\ \A f \in {"data", "types", "ids", "lastId", "items", "ok"} : With(r, text, cr)[f] = r[f]
         /\ With(r, r.line, r.afterCR) = r
BY DEF With, Reference

LEMMA WithTwice ==
  ASSUME NEW r \in Reference, NEW text, NEW cr, NEW x, NEW y
  PROVE  With(With(r, text, cr), x, y) = With(r, x, y)
BY DEF With, Reference

(* A line does the same whatever is unfinished. *)
LEMMA EndLineWith ==
  ASSUME NEW r \in Reference, NEW text \in Text, NEW cr \in BOOLEAN, NEW line \in Text
  PROVE  EndLine(With(r, text, cr), line) = With(EndLine(r, line), text, cr)
<1> DEFINE w == With(r, text, cr)
<1>1. /\ w.data = r.data /\ w.types = r.types /\ w.ids = r.ids /\ w.lastId = r.lastId
      /\ w.items = r.items /\ w.ok = r.ok
  BY DEF With, Reference
<1>2. BlockEvents(w) = BlockEvents(r) /\ IdAfterBlock(w) = IdAfterBlock(r)
  <2> HIDE DEF w
  <2> QED
    BY <1>1 DEF BlockEvents, IdAfterBlock
<1>3. CASE ~r.ok
  BY <1>1, <1>3 DEF EndLine
<1>4. CASE r.ok /\ ~Decodable(line)
  BY <1>1, <1>4 DEF EndLine, With, Reference
<1>5. CASE r.ok /\ Decodable(line) /\ line = <<>>
  BY <1>1, <1>2, <1>5 DEF EndLine, With, Reference
<1>6. CASE r.ok /\ Decodable(line) /\ line # <<>> /\ Head(line) = ":"
  BY <1>1, <1>6 DEF EndLine, With, Reference
<1>7. CASE r.ok /\ Decodable(line) /\ line # <<>> /\ Head(line) # ":"
  <2>1. TakeField(w, line) = With(TakeField(r, line), text, cr)
    BY <1>1 DEF TakeField, With, Reference
  <2> QED
    BY <1>1, <1>7, <2>1 DEF EndLine
<1> QED
  BY <1>3, <1>4, <1>5, <1>6, <1>7

--------------------------------------------------------------------------------
(* s is what is left of r after the lines ls, taken one by one. *)
IsTrace(tr, r, ls) ==
  /\ tr \in [0..Len(ls) -> Reference]
  /\ tr[0] = r
  /\ \A k \in 1..Len(ls) : tr[k] = EndLine(tr[k - 1], ls[k])

Takes(r, ls, s) == \E tr : IsTrace(tr, r, ls) /\ tr[Len(ls)] = s

LEMMA TakesNone ==
  ASSUME NEW r \in Reference
  PROVE  Takes(r, <<>>, r) /\ \A s : Takes(r, <<>>, s) => s = r
<1>1. IsTrace([k \in 0..0 |-> r], r, <<>>)
  BY DEF IsTrace
<1> QED
  BY <1>1 DEF Takes, IsTrace

LEMMA TakesMore ==
  ASSUME NEW r, NEW s, NEW ls \in Seq(Text), NEW line \in Text, Takes(r, ls, s)
  PROVE  Takes(r, Append(ls, line), EndLine(s, line))
<1> DEFINE n == Len(ls)
           more == Append(ls, line)
<1>1. PICK tr : IsTrace(tr, r, ls) /\ tr[n] = s
  BY DEF Takes
<1> DEFINE tt == [k \in 0..(n + 1) |-> IF k <= n THEN tr[k] ELSE EndLine(s, line)]
<1>2. n \in Nat /\ Len(more) = n + 1 /\ more[n + 1] = line /\ \A k \in 1..n : more[k] = ls[k]
  BY AppendProperties
<1>3. s \in Reference /\ EndLine(s, line) \in Reference
  BY <1>1, <1>2, LineTaken DEF IsTrace
<1>4. tt \in [0..(n + 1) -> Reference] /\ tt[0] = r /\ tt[n + 1] = EndLine(s, line)
  BY <1>1, <1>2, <1>3 DEF IsTrace
<1>5. ASSUME NEW k \in 1..(n + 1) PROVE tt[k] = EndLine(tt[k - 1], more[k])
  <2>1. CASE k <= n
    <3>1. k \in 1..n /\ k - 1 <= n /\ k - 1 \in 0..(n + 1)
      BY <1>2, <2>1
    <3>2. tr[k] = EndLine(tr[k - 1], ls[k])
      BY <1>1, <3>1 DEF IsTrace
    <3> HIDE DEF more, n
    <3> QED
      BY <1>2, <2>1, <3>1, <3>2
  <2>2. CASE k = n + 1
    <3>1. k - 1 = n /\ n \in 0..(n + 1) /\ ~(n + 1 <= n)
      BY <1>2, <2>2
    <3> HIDE DEF more, n
    <3> QED
      BY <1>1, <1>2, <2>2, <3>1 DEF n
  <2> QED
    BY <1>2, <2>1, <2>2
<1> HIDE DEF tt
<1>6. IsTrace(tt, r, more) /\ tt[Len(more)] = EndLine(s, line)
  BY <1>2, <1>4, <1>5 DEF IsTrace
<1> QED
  BY <1>6 DEF Takes

LEMMA TakesFirst ==
  ASSUME NEW r, NEW s, NEW ls \in Seq(Text), ls # <<>>, Takes(r, ls, s)
  PROVE  Takes(EndLine(r, Head(ls)), Tail(ls), s)
<1> DEFINE n == Len(ls)
<1>1. PICK tr : IsTrace(tr, r, ls) /\ tr[n] = s
  BY DEF Takes
<1> DEFINE tt == [k \in 0..(n - 1) |-> tr[k + 1]]
<1>2. /\ n \in Nat \ {0} /\ Head(ls) = ls[1] /\ Len(Tail(ls)) = n - 1
      /\ \A k \in 1..(n - 1) : Tail(ls)[k] = ls[k + 1]
  BY EmptySeq, HeadTailProperties
<1> HIDE DEF n
<1>3. tt \in [0..(n - 1) -> Reference] /\ tt[n - 1] = s
  BY <1>1, <1>2 DEF IsTrace, n
<1>4. tt[0] = EndLine(r, Head(ls))
  <2>1. 1 \in 1..n /\ 1 - 1 = 0 /\ 0 + 1 = 1 /\ 0 \in 0..(n - 1)
    BY <1>2
  <2>2. tr[1] = EndLine(tr[1 - 1], ls[1]) /\ tr[0] = r
    BY <1>1, <2>1 DEF IsTrace, n
  <2> QED
    BY <1>2, <2>1, <2>2
<1>5. ASSUME NEW k \in 1..(n - 1) PROVE tt[k] = EndLine(tt[k - 1], Tail(ls)[k])
  <2>1. k + 1 \in 1..n /\ (k + 1) - 1 = (k - 1) + 1 /\ k - 1 \in 0..(n - 1) /\ k \in 0..(n - 1)
    BY <1>2
  <2>2. tr[k + 1] = EndLine(tr[(k + 1) - 1], ls[k + 1])
    BY <1>1, <2>1 DEF IsTrace, n
  <2> QED
    BY <1>2, <2>1, <2>2
<1> HIDE DEF tt
<1>6. IsTrace(tt, EndLine(r, Head(ls)), Tail(ls)) /\ tt[Len(Tail(ls))] = s
  BY <1>2, <1>3, <1>4, <1>5 DEF IsTrace
<1> QED
  BY <1>6 DEF Takes

(* A line makes one item at most, and none once one could not be decoded.  *)
LEMMA YieldedType ==
  ASSUME NEW r \in Reference, NEW line \in Text
  PROVE  Yielded(ReaderOf(r), line) \in Seq(Item) /\ Len(Yielded(ReaderOf(r), line)) <= 1
<1>1. CASE line = <<>>
  <2> DEFINE rd == ReaderOf(r)
             event == Event(IF rd.type = <<>> THEN <<"message">> ELSE rd.type, rd.data, rd.id,
                            Dispatch(rd).lastId)
  <2>1. Yielded(rd, <<>>) \in Seq(Item)
    BY BlockEventsAre
  <2>2. Yielded(rd, <<>>) = IF rd.data # None THEN <<event>> ELSE <<>>
    BY DEF Yielded
  <2>3. Len(<<event>>) <= 1 /\ Len(<<>>) <= 1
    <3> HIDE DEF event
    <3> QED
      OBVIOUS
  <2> HIDE DEF event
  <2> QED
    BY <1>1, <2>1, <2>2, <2>3
<1>2. CASE line # <<>> /\ Head(line) = ":"
  <2>1. Yielded(ReaderOf(r), line) = <<Comment(Tail(line))>>
    BY <1>2 DEF Yielded
  <2>2. Comment(Tail(line)) \in Item
    <3>1. Tail(line) \in Text
      BY <1>2 DEF Text
    <3> QED
      BY <3>1 DEF Comment, Item
  <2> QED
    BY <2>1, <2>2
<1>3. CASE line # <<>> /\ Head(line) # ":"
  BY <1>3 DEF Yielded
<1> QED
  BY <1>1, <1>2, <1>3

LEMMA EndLineItems ==
  ASSUME NEW r \in Reference, NEW line \in Text
  PROVE  \E u \in Seq(Item) : EndLine(r, line).items = r.items \o u /\ Len(u) <= 1
<1>1. r.items \in Seq(Item) /\ DecodeError \in Item
  BY DEF Reference, Item
<1>2. CASE ~r.ok
  <2>1. EndLine(r, line).items = r.items \o <<>>
    BY <1>1, <1>2 DEF EndLine
  <2>2. <<>> \in Seq(Item) /\ Len(<<>>) <= 1
    OBVIOUS
  <2> QED
    BY <2>1, <2>2
<1>3. CASE r.ok /\ ~Decodable(line)
  <2>1. EndLine(r, line).items = r.items \o <<DecodeError>>
    BY <1>1, <1>3, LineTaken, AppendIsConcat
  <2>2. <<DecodeError>> \in Seq(Item) /\ Len(<<DecodeError>>) <= 1
    BY <1>1
  <2> QED
    BY <2>1, <2>2
<1>4. CASE r.ok /\ Decodable(line)
  BY <1>4, LineTaken, YieldedType
<1> QED
  BY <1>2, <1>3, <1>4

LEMMA PrefixJoined ==
  ASSUME NEW S, NEW s \in Seq(S), NEW u \in Seq(S)
  PROVE  IsPrefix(s, s \o u)
<1>1. Len(s) \in Nat /\ Len(u) \in Nat /\ Len(s \o u) = Len(s) + Len(u)
  OBVIOUS
<1>2. SubSeq(s, 1, Len(s)) = SubSeq(s \o u, 1, Len(s))
  <2>1. CASE s = <<>>
    <3>1. SubSeq(s, 1, 0) = <<>> /\ SubSeq(s \o u, 1, 0) = <<>>
      BY SubSeqEmpty
    <3> QED
      BY <2>1, <3>1
  <2>2. CASE s # <<>>
    <3>1. 1 \in 1..Len(s) /\ Len(s) \in 1..Len(s)
      BY <2>2, EmptySeq
    <3> QED
      BY <3>1, SubSeqOfConcat1
  <2> QED
    BY <2>1, <2>2
<1> QED
  BY <1>1, <1>2 DEF IsPrefix


LEMMA TakesItems ==
  ASSUME NEW r, NEW s, NEW ls \in Seq(Text), Takes(r, ls, s)
  PROVE  /\ r \in Reference /\ s \in Reference
         /\ IsPrefix(r.items, s.items)
         /\ Len(s.items) <= Len(r.items) + Len(ls)
<1> DEFINE n == Len(ls)
           Grown(t, k) == \E u \in Seq(Item) : t.items = r.items \o u /\ Len(u) <= k
<1>1. PICK tr : IsTrace(tr, r, ls) /\ tr[n] = s
  BY DEF Takes
<1>2. n \in Nat /\ (\A k \in 1..n : ls[k] \in Text) /\ (\A k \in 0..n : tr[k] \in Reference)
  <2>1. n \in Nat /\ \A k \in 1..n : ls[k] \in Text
    OBVIOUS
  <2>2. \A k \in 0..n : tr[k] \in Reference
    BY <1>1 DEF IsTrace
  <2> QED
    BY <2>1, <2>2
<1>3. r \in Reference /\ s \in Reference /\ r.items \in Seq(Item) /\ tr[0] = r
  <2>1. 0 \in 0..n /\ n \in 0..n
    BY <1>2
  <2> HIDE DEF n
  <2> QED
    BY <1>1, <1>2, <2>1 DEF IsTrace, Reference
<1> HIDE DEF n
<1> DEFINE D == {k \in Nat : k <= n => Grown(tr[k], k)}
<1>4. 0 \in D
  <2>1. r.items = r.items \o <<>> /\ <<>> \in Seq(Item) /\ Len(<<>>) <= 0
    BY <1>3
  <2>2. Grown(tr[0], 0)
    BY <1>3, <2>1
  <2> HIDE DEF Grown
  <2> QED
    BY <2>2
<1>5. ASSUME NEW k \in Nat, k \in D PROVE k + 1 \in D
  <2> SUFFICES ASSUME k + 1 <= n PROVE Grown(tr[k + 1], k + 1)
    OBVIOUS
  <2>1. k + 1 \in 1..n /\ (k + 1) - 1 = k /\ k \in 0..n /\ k <= n
    BY <1>2
  <2>2. tr[k + 1] = EndLine(tr[k], ls[k + 1])
    BY <1>1, <2>1 DEF IsTrace, n
  <2>3. PICK u \in Seq(Item) : tr[k].items = r.items \o u /\ Len(u) <= k
    BY <1>5, <2>1
  <2>4. PICK v \in Seq(Item) : tr[k + 1].items = tr[k].items \o v /\ Len(v) <= 1
    BY <1>2, <2>1, <2>2, EndLineItems
  <2>5. u \o v \in Seq(Item) /\ Len(u \o v) = Len(u) + Len(v) /\ Len(u) \in Nat /\ Len(v) \in Nat
    OBVIOUS
  <2>6. tr[k + 1].items = r.items \o (u \o v)
    <3> HIDE DEF Grown, D
    <3>1. ASSUME NEW x, x \in Seq(Item) PROVE (x \o u) \o v = x \o (u \o v)
      BY <3>1
    <3>2. (r.items \o u) \o v = r.items \o (u \o v)
      BY <1>3, <3>1, Zenon
    <3> QED
      BY <2>3, <2>4, <3>2
  <2>7. Len(u \o v) <= k + 1
    BY <2>3, <2>4, <2>5
  <2> QED
    BY <2>5, <2>6, <2>7
<1> HIDE DEF D
<1>6. n \in D
  BY <1>2, <1>4, <1>5, Induction
<1>7. PICK u \in Seq(Item) : s.items = r.items \o u /\ Len(u) <= n
  <2>1. n <= n
    BY <1>2
  <2> HIDE DEF Grown
  <2>2. Grown(tr[n], n)
    BY <1>6, <2>1 DEF D
  <2> QED
    BY <1>1, <2>2 DEF Grown
<1>8. Len(s.items) = Len(r.items) + Len(u) /\ Len(r.items) \in Nat /\ Len(u) \in Nat
  BY <1>3, <1>7
<1> QED
  BY <1>2, <1>3, <1>7, <1>8, PrefixJoined DEF n

LEMMA TakesFailed ==
  ASSUME NEW r, NEW s, NEW ls \in Seq(Text), Takes(r, ls, s), ~r.ok
  PROVE  s = r
<1> DEFINE n == Len(ls)
<1>1. PICK tr : IsTrace(tr, r, ls) /\ tr[n] = s
  BY DEF Takes
<1>2. n \in Nat
  OBVIOUS
<1> DEFINE D == {k \in Nat : k <= n => tr[k] = r}
<1> HIDE DEF n
<1>3. 0 \in D
  BY <1>1 DEF IsTrace
<1>4. ASSUME NEW k \in Nat, k \in D PROVE k + 1 \in D
  <2> SUFFICES ASSUME k + 1 <= n PROVE tr[k + 1] = r
    OBVIOUS
  <2>1. k + 1 \in 1..n /\ (k + 1) - 1 = k /\ tr[k] = r
    BY <1>2, <1>4
  <2>2. tr[k + 1] = EndLine(tr[k], ls[k + 1])
    BY <1>1, <2>1 DEF IsTrace, n
  <2> QED
    BY <2>1, <2>2 DEF EndLine
<1> HIDE DEF D
<1>5. n \in D
  BY <1>2, <1>3, <1>4, Induction
<1> QED
  BY <1>1, <1>2, <1>5 DEF D
--------------------------------------------------------------------------------
(* The reference takes bytes; the splitter makes lines of the same bytes,  *)
(* and the reference takes them.                                           *)

IsTaking(tb, r, bytes) ==
  /\ tb[0] = r
  /\ \A i \in 1..Len(bytes) : tb[i] = TakeByte(tb[i - 1], bytes[i])

LEMMA TakeByteIs ==
  ASSUME NEW r \in Reference, NEW byte
  PROVE  TakeByte(r, byte) =
           IF byte = LF /\ r.afterCR THEN With(r, r.line, FALSE)
           ELSE IF byte \in {CR, LF} THEN With(EndLine(r, r.line), <<>>, byte = CR)
           ELSE With(r, Append(r.line, byte), FALSE)
BY DEF TakeByte, With, Reference

LEMMA TakeByteType ==
  ASSUME NEW r \in Reference, NEW byte \in Byte
  PROVE  TakeByte(r, byte) \in Reference
<1>1. r.line \in Text /\ EndLine(r, r.line) \in Reference /\ <<>> \in Text
  BY LineTaken DEF Reference, Text
<1>2. Append(r.line, byte) \in Text
  BY <1>1 DEF Text
<1>0. \A text \in Text : With(r, text, FALSE) \in Reference
  <2>1. \A text \in Text : \A cr \in BOOLEAN : With(r, text, cr) \in Reference
    BY WithIsReference
  <2> QED
    BY <2>1, Zenon
<1>3. CASE byte = LF /\ r.afterCR
  <2>1. TakeByte(r, byte) = With(r, r.line, FALSE)
    BY <1>3, TakeByteIs
  <2> QED
    BY <1>1, <1>0, <2>1
<1>4. CASE ~(byte = LF /\ r.afterCR) /\ byte \in {CR, LF}
  <2>1. TakeByte(r, byte) = With(EndLine(r, r.line), <<>>, byte = CR)
    BY <1>4, TakeByteIs
  <2>2. \A cr \in BOOLEAN : With(EndLine(r, r.line), <<>>, cr) \in Reference
    BY <1>1, WithIsReference
  <2> QED
    BY <2>1, <2>2
<1>5. CASE byte \notin {CR, LF}
  <2>1. TakeByte(r, byte) = With(r, Append(r.line, byte), FALSE)
    BY <1>5, TakeByteIs, Zenon
  <2> QED
    BY <1>2, <1>0, <2>1
<1> QED
  BY <1>3, <1>4, <1>5

LEMMA TakingExists ==
  ASSUME NEW r \in Reference, NEW bytes \in Text
  PROVE  \E tb : IsTaking(tb, r, bytes) /\ TakeBytes(r, bytes) = tb[Len(bytes)]
<1> DEFINE n == Len(bytes)
           g == [p \in (1..n) \X Reference |-> TakeByte(p[2], bytes[p[1]])]
           Equation(f) == f = [i \in 0..n |-> IF i = 0 THEN r ELSE TakeByte(f[i - 1], bytes[i])]
           tb == CHOOSE f : Equation(f)
<1>1. n \in Nat /\ \A i \in 1..n : bytes[i] \in Byte
  BY DEF Text
<1>2. g \in [(1..n) \X Reference -> Reference]
  BY <1>1, TakeByteType
<1>3. PICK f : Iterates(f, n, Reference, r, g)
  <2> HIDE DEF n, g, Equation, tb
  <2> QED
    BY <1>1, <1>2, FiniteRecursion, Zenon
<1>4. ASSUME NEW i \in 1..n PROVE f[i] = TakeByte(f[i - 1], bytes[i])
  <2>1. f[i] = g[<<i, f[i - 1]>>] /\ f[i - 1] \in Reference
    <3> HIDE DEF n, g, Equation, tb
    <3> QED
      BY <1>1, <1>3 DEF Iterates
  <2>2. <<i, f[i - 1]>> \in (1..n) \X Reference
    BY <2>1
  <2> QED
    BY <2>1, <2>2
<1>5. Equation(f)
  <2> HIDE DEF n, g
  <2> QED
    BY <1>1, <1>3, <1>4 DEF Iterates
<1>6. Equation(tb)
  BY <1>5
<1>7. TakeBytes(r, bytes) = tb[n]
  BY DEF TakeBytes
<1> HIDE DEF tb
<1>8. tb[0] = r /\ \A i \in 1..n : tb[i] = TakeByte(tb[i - 1], bytes[i])
  <2> HIDE DEF n
  <2> QED
    BY <1>1, <1>6
<1> QED
  BY <1>7, <1>8 DEF IsTaking

LEMMA BytesTaken ==
  ASSUME NEW r \in Reference, NEW q, Resting(q), q.partial = r.line, q.lastWasCR = r.afterCR,
         NEW chunk \in Text, NEW after, ByteByByte(after, q, chunk)
  PROVE  LET last == after[Len(chunk)]
         IN  \E s \in Reference : /\ Takes(r, last.lines, s)
                                 /\ TakeBytes(r, chunk) = With(s, last.partial, last.lastWasCR)
<1> DEFINE n == Len(chunk)
           Good(t, a) == \E s \in Reference : /\ Takes(r, a.lines, s)
                                             /\ t = With(s, a.partial, a.lastWasCR)
<1>1. PICK tb : IsTaking(tb, r, chunk) /\ TakeBytes(r, chunk) = tb[n]
  BY TakingExists
<1>2. n \in Nat /\ (\A i \in 1..n : chunk[i] \in Byte) /\ (\A i \in 0..n : after[i] \in Splitter)
  <2>1. n \in Nat /\ \A i \in 1..n : chunk[i] \in Byte
    BY DEF Text
  <2>2. \A i \in 0..n : after[i] \in Splitter
    BY DEF ByteByByte
  <2> QED
    BY <2>1, <2>2
<1> DEFINE D == {i \in Nat : i <= n => Good(tb[i], after[i])}
<1>3. 0 \in D
  <2>1. after[0].lines = <<>> /\ after[0].partial = r.line /\ after[0].lastWasCR = r.afterCR
        /\ tb[0] = r
    BY <1>1 DEF ByteByByte, WithNoLines, IsTaking
  <2>2. r.line \in Text /\ r.afterCR \in BOOLEAN
    BY DEF Reference
  <2>3. Takes(r, <<>>, r) /\ r = With(r, r.line, r.afterCR)
    BY <2>2, TakesNone, WithIsReference
  <2> QED
    BY <2>1, <2>3
<1>4. ASSUME NEW i \in Nat, i \in D PROVE i + 1 \in D
  <2> SUFFICES ASSUME i + 1 <= n PROVE Good(tb[i + 1], after[i + 1])
    OBVIOUS
  <2> DEFINE a == after[i]
             byte == chunk[i + 1]
             b == after[i + 1]
  <2>1. i + 1 \in 1..n /\ i \in 0..n /\ (i + 1) - 1 = i /\ i <= n
    BY <1>2
  <2>2. byte \in Byte /\ a \in Splitter /\ b = OneByte(a, byte) /\ tb[i + 1] = TakeByte(tb[i], byte)
    <3>1. after[i + 1] = OneByte(after[(i + 1) - 1], chunk[i + 1])
          /\ tb[i + 1] = TakeByte(tb[(i + 1) - 1], chunk[i + 1])
      BY <1>1, <2>1 DEF ByteByByte, IsTaking
    <3> QED
      BY <1>2, <2>1, <3>1
  <2>3. PICK s \in Reference : Takes(r, a.lines, s) /\ tb[i] = With(s, a.partial, a.lastWasCR)
    BY <1>4, <2>1
  <2>4. a.partial \in Text /\ a.lastWasCR \in BOOLEAN /\ a.lines \in Seq(Text) /\ <<>> \in Text
    BY <2>2 DEF Splitter, Text
  <2>5. tb[i].line = a.partial /\ tb[i].afterCR = a.lastWasCR /\ tb[i] \in Reference
    BY <2>3, <2>4, WithIsReference
  <2> HIDE DEF a, byte, b
  <2>6. CASE byte = LF /\ a.lastWasCR
    <3>1. tb[i + 1] = With(tb[i], a.partial, FALSE)
      BY <2>2, <2>5, <2>6, TakeByteIs
    <3>2. With(tb[i], a.partial, FALSE) = With(s, a.partial, FALSE)
      <4>1. With(With(s, a.partial, a.lastWasCR), a.partial, FALSE) = With(s, a.partial, FALSE)
        BY DEF With, Reference
      <4> QED
        BY <2>3, <4>1, Zenon
    <3>3. b.lines = a.lines /\ b.partial = a.partial /\ b.lastWasCR = FALSE
      BY <2>2, <2>6 DEF OneByte, Splitter
    <3>4. Takes(r, b.lines, s) /\ tb[i + 1] = With(s, b.partial, b.lastWasCR)
      BY <2>3, <3>1, <3>2, <3>3
    <3> QED
      BY <3>4 DEF b
  <2>7. CASE ~(byte = LF /\ a.lastWasCR) /\ byte \in {CR, LF}
    <3> DEFINE e == EndLine(s, a.partial)
    <3>1. e \in Reference
      BY <2>4, LineTaken
    <3>2. EndLine(tb[i], a.partial) = With(e, a.partial, a.lastWasCR)
      BY <2>3, <2>4, EndLineWith
    <3> HIDE DEF e
    <3>3. tb[i + 1] = With(EndLine(tb[i], a.partial), <<>>, byte = CR)
      BY <2>2, <2>5, <2>7, TakeByteIs
    <3>4. tb[i + 1] = With(e, <<>>, byte = CR)
      BY <3>1, <3>2, <3>3, WithTwice
    <3>5. b.lines = Append(a.lines, a.partial) /\ b.partial = <<>> /\ b.lastWasCR = (byte = CR)
      BY <2>2, <2>7 DEF OneByte
    <3>6. Takes(r, Append(a.lines, a.partial), e)
      BY <2>3, <2>4, TakesMore DEF e
    <3>7. Takes(r, b.lines, e) /\ tb[i + 1] = With(e, b.partial, b.lastWasCR)
      BY <3>4, <3>5, <3>6
    <3> QED
      BY <3>1, <3>7 DEF b
  <2>8. CASE byte \notin {CR, LF}
    <3>1. tb[i + 1] = With(tb[i], Append(a.partial, byte), FALSE)
      <4>1. TakeByte(tb[i], byte) = With(tb[i], Append(tb[i].line, byte), FALSE)
        BY <2>5, <2>8, TakeByteIs, Zenon
      <4> QED
        BY <2>2, <2>5, <4>1, Zenon
    <3>2. With(tb[i], Append(a.partial, byte), FALSE) = With(s, Append(a.partial, byte), FALSE)
      <4>1. With(With(s, a.partial, a.lastWasCR), Append(a.partial, byte), FALSE)
              = With(s, Append(a.partial, byte), FALSE)
        BY DEF With, Reference
      <4> QED
        BY <2>3, <4>1, Zenon
    <3>3. b.lines = a.lines /\ b.partial = Append(a.partial, byte) /\ b.lastWasCR = FALSE
      BY <2>2, <2>8 DEF OneByte, Splitter
    <3>4. Takes(r, b.lines, s) /\ tb[i + 1] = With(s, b.partial, b.lastWasCR)
      BY <2>3, <3>1, <3>2, <3>3
    <3> QED
      BY <3>4 DEF b
  <2> QED
    BY <2>6, <2>7, <2>8
<1> HIDE DEF D, n, Good
<1>5. n \in D
  BY <1>2, <1>3, <1>4, Induction
<1>6. Good(tb[n], after[n])
  BY <1>2, <1>5 DEF D
<1> QED
  BY <1>1, <1>6 DEF Good, n
--------------------------------------------------------------------------------
(* The inductive invariant: while the generators have lines, the reference *)
(* was r at the line they are at, and s is what the lines left make of r;  *)
(* at rest it is where they are.                                           *)
Drained(r) == [r EXCEPT !.items = <<>>]

AtLine(r, s) ==
  /\ r.ok /\ r.items = got /\ reader = ReaderOf(r)
  /\ Takes(r, lines, s)
  /\ s.items = due
  /\ ref = Drained(With(s, splitter.partial, splitter.lastWasCR))

SplitterInv ==
  /\ Resting(splitter) /\ Clean(splitter.partial)
  /\ lines \in Seq(Text) /\ Len(lines) <= MaxChunk

ReferenceInv ==
  /\ ref \in Reference /\ ref.items = <<>>
  /\ ref.line = splitter.partial /\ ref.afterCR = splitter.lastWasCR

ItemsInv == got \in Seq(Item) /\ due \in Seq(Item) /\ Len(due) <= MaxChunk

IdInv ==
  /\ reader \in [type : Text, data : OptText, id : OptText, lastId : OptText]
  /\ reader.lastId = seenId

StateInv ==
  /\ wire \in Text
  /\ st \in {"blocked", "running", "suspended", "failed"}
  /\ st \in {"blocked", "failed"} => lines = <<>> /\ got = due
  /\ st = "blocked" => ref.ok /\ reader = ReaderOf(ref)
  /\ st \in {"running", "suspended"} => \E r, s \in Reference : AtLine(r, s)

ReadInv == SplitterInv /\ ReferenceInv /\ ItemsInv /\ IdInv /\ StateInv

(* The reference is drained after each chunk, which changes nothing else.  *)
LEMMA DrainedIs ==
  ASSUME NEW s \in Reference, NEW text \in Text, NEW cr \in BOOLEAN
  PROVE  LET d == Drained(With(s, text, cr))
         IN  /\ d \in Reference /\ d.items = <<>> /\ d.line = text /\ d.afterCR = cr
             /\ d.ok = s.ok /\ ReaderOf(d) = ReaderOf(s)
<1> DEFINE d == Drained(With(s, text, cr))
<1>1. /\ d \in Reference /\ d.items = <<>> /\ d.line = text /\ d.afterCR = cr /\ d.ok = s.ok
      /\ d.types = s.types /\ d.data = s.data /\ d.ids = s.ids /\ d.lastId = s.lastId
  <2> DEFINE w == With(s, text, cr)
  <2>0. w \in Reference /\ w.line = text /\ w.afterCR = cr
    BY WithIsReference
  <2>1. /\ w.data = s.data /\ w.types = s.types /\ w.ids = s.ids /\ w.lastId = s.lastId
        /\ w.items = s.items /\ w.ok = s.ok
    BY DEF With, Reference
  <2> HIDE DEF w
  <2>2. Drained(w) \in Reference
    <3>1. \A x \in Reference, is \in Seq(Item) : [x EXCEPT !.items = is] \in Reference
      BY DEF Reference
    <3>2. <<>> \in Seq(Item)
      OBVIOUS
    <3> QED
      BY <2>0, <3>1, <3>2, Zenon DEF Drained
  <2>3. \A f \in {"line", "afterCR", "ok", "types", "data", "ids", "lastId"} :
          Drained(w)[f] = w[f]
    BY <2>0 DEF Drained, Reference
  <2>4. Drained(w).items = <<>>
    BY <2>0 DEF Drained, Reference
  <2> QED
    BY <2>0, <2>1, <2>2, <2>3, <2>4 DEF w
<1> HIDE DEF d
<1>2. ReaderOf(d) = ReaderOf(s)
  BY <1>1 DEF ReaderOf
<1> QED
  BY <1>1, <1>2 DEF d

LEMMA ReaderOfType ==
  ASSUME NEW r \in Reference
  PROVE  ReaderOf(r) \in [type : Text, data : OptText, id : OptText, lastId : OptText]
<1>1. /\ ReaderOf(r).type \in Text /\ ReaderOf(r).lastId \in OptText
      /\ ReaderOf(r).data = None \/ ReaderOf(r).data \in Text
      /\ ReaderOf(r).id = None \/ ReaderOf(r).id \in Text
  BY ReaderOfValues
<1> QED
  BY <1>1 DEF ReaderOf, OptText

(* A new generator is that of a new reference.                             *)
LEMMA NewReferenceIs ==
  ASSUME NEW id \in OptText
  PROVE  LET r == NewReference(id)
         IN  /\ r \in Reference /\ r.items = <<>> /\ r.line = <<>> /\ r.afterCR = FALSE /\ r.ok
             /\ NewReader(id) = ReaderOf(r)
             /\ NewReader(id) \in [type : Text, data : OptText, id : OptText, lastId : OptText]
             /\ NewReader(id).lastId = id
<1>1. <<>> \in Text /\ None \in OptText
  BY DEF Text, OptText
<1> QED
  BY <1>1 DEF NewReference, Reference, NewReader, ReaderOf

LEMMA SplitterStarts ==
  Resting(NoLine) /\ Clean(NoLine.partial) /\ NoLine.partial = <<>> /\ NoLine.lastWasCR = FALSE
BY DEF Resting, NoLine, Clean, Range, Text

(* The id of the reader is that of the last event it made that had one.    *)
LEMMA IdIsThatOfItems ==
  ASSUME NEW rd \in [type : Text, data : OptText, id : OptText, lastId : OptText],
         NEW line \in Text
  PROVE  TakeLine(rd, line).lastId = LastIdAfter(rd.lastId, Yielded(rd, line))
<1>1. CASE line = <<>>
  BY <1>1 DEF TakeLine, Dispatch, NewReader, LastIdAfter, Yielded, Event
<1>2. CASE line # <<>> /\ Head(line) = ":"
  BY <1>2 DEF TakeLine, LastIdAfter, Yielded, Comment
<1>3. CASE line # <<>> /\ Head(line) # ":"
  <2>1. SetField(rd, FieldName(line), FieldValue(line)).lastId = rd.lastId
    BY DEF SetField
  <2> QED
    BY <1>3, <2>1 DEF TakeLine, LastIdAfter, Yielded
<1> QED
  BY <1>1, <1>2, <1>3

(* However the lines left are read, they make the items that are due.      *)
LEMMA AtLineItems ==
  ASSUME ReadInv, NEW r \in Reference, NEW s \in Reference, AtLine(r, s)
  PROVE  IsPrefix(got, due) /\ got \in Seq(Item) /\ Len(got) <= Len(due)
<1>1. IsPrefix(r.items, s.items) /\ r.items = got /\ s.items = due
  BY TakesItems DEF ReadInv, SplitterInv, AtLine
<1> QED
  BY <1>1 DEF IsPrefix, ReadInv, ItemsInv

--------------------------------------------------------------------------------
LEMMA ReadInvInit == Init => ReadInv
<1> SUFFICES ASSUME Init PROVE ReadInv
  OBVIOUS
<1>1. None \in OptText /\ <<>> \in Text /\ MaxChunk \in Nat /\ Len(<<>>) = 0
  BY BoundsAreNatural DEF OptText, Text
<1>2. SplitterInv
  BY <1>1, SplitterStarts DEF SplitterInv, Init
<1>3. ReferenceInv /\ ref.ok /\ reader = ReaderOf(ref) /\ IdInv
  BY <1>1, NewReferenceIs, SplitterStarts DEF ReferenceInv, IdInv, Init
<1>4. ItemsInv
  BY <1>1 DEF ItemsInv, Init
<1>5. StateInv
  BY <1>1, <1>3 DEF StateInv, Init
<1> QED
  BY <1>2, <1>3, <1>4, <1>5 DEF ReadInv

LEMMA SendLineKeeps ==
  ASSUME ReadInv, SendLine
  PROVE  ReadInv'
<1>1. wire' \in Text
  <2>1. PICK line \in Lines, end \in Terminators : wire' = wire \o line \o end
    BY DEF SendLine
  <2>2. line \in Text /\ end \in Text /\ wire \in Text
    BY TextIsOfBytes DEF TextIsOfBytes, Text, ReadInv, StateInv
  <2> QED
    BY <2>1, <2>2 DEF Text
<1>2. UNCHANGED <<st, splitter, lines, reader, got, seenId, ref, due>>
  BY DEF SendLine, codeVars
<1>3. SplitterInv' /\ ReferenceInv' /\ ItemsInv' /\ IdInv'
  BY <1>2 DEF ReadInv, SplitterInv, ReferenceInv, ItemsInv, IdInv
<1>4. StateInv'
  BY <1>1, <1>2 DEF ReadInv, StateInv, AtLine
<1> QED
  BY <1>3, <1>4 DEF ReadInv

LEMMA ReceiveChunkKeeps ==
  ASSUME ReadInv, ReceiveChunk
  PROVE  ReadInv'
<1>1. PICK n \in 0..MaxChunk :
        /\ n <= Len(wire)
        /\ LET read == ReadChunk(splitter, SubSeq(wire, 1, n))
               taken == TakeBytes(ref, SubSeq(wire, 1, n))
           IN  /\ splitter' = [partial |-> read.partial, lastWasCR |-> read.lastWasCR]
               /\ lines' = read.lines
               /\ due' = taken.items
               /\ ref' = Drained(taken)
        /\ wire' = SubSeq(wire, n + 1, Len(wire))
  BY Zenon DEF ReceiveChunk, Drained
<1> DEFINE chunk == SubSeq(wire, 1, n)
           read == ReadChunk(splitter, chunk)
           taken == TakeBytes(ref, chunk)
<1>2. /\ st = "blocked" /\ st' = "running" /\ got' = <<>> /\ reader' = reader /\ seenId' = seenId
      /\ splitter' = [partial |-> read.partial, lastWasCR |-> read.lastWasCR]
      /\ lines' = read.lines /\ due' = taken.items /\ ref' = Drained(taken)
  BY <1>1 DEF ReceiveChunk
<1>3. chunk \in Text /\ Len(chunk) = n /\ n \in Nat /\ n <= MaxChunk /\ MaxChunk \in Nat
      /\ wire' \in Text
  BY <1>1, BoundsAreNatural DEF ReadInv, StateInv, Text
<1> HIDE DEF chunk
<1>4. /\ Resting(splitter) /\ Clean(splitter.partial)
      /\ ref \in Reference /\ ref.items = <<>> /\ ref.ok /\ reader = ReaderOf(ref)
      /\ ref.line = splitter.partial /\ ref.afterCR = splitter.lastWasCR
  BY <1>2 DEF ReadInv, SplitterInv, ReferenceInv, StateInv
<1>5. PICK after : ByteByByte(after, splitter, chunk)
  BY <1>3, <1>4, ByteByByteExists
<1>6. read = after[n] /\ read \in Splitter /\ AtRest(read, n)
  <2>1. read = after[n]
    BY <1>3, <1>4, <1>5, ChunkIsRead
  <2>2. n \in 0..Len(chunk)
    BY <1>3
  <2>3. after[n] \in Splitter
    BY <1>5, <2>2 DEF ByteByByte
  <2>4. AtRest(after[n], n)
    BY <1>3, <1>4, <1>5, <2>2, BytesRest
  <2> HIDE DEF read
  <2> QED
    BY <2>1, <2>3, <2>4
<1>7. PICK s \in Reference : /\ Takes(ref, read.lines, s)
                             /\ taken = With(s, read.partial, read.lastWasCR)
  <2>1. \E s \in Reference :
          /\ Takes(ref, after[Len(chunk)].lines, s)
          /\ TakeBytes(ref, chunk)
               = With(s, after[Len(chunk)].partial, after[Len(chunk)].lastWasCR)
    BY <1>3, <1>4, <1>5, BytesTaken
  <2> QED
    BY <1>3, <1>6, <2>1
<1> HIDE DEF read, taken
<1>8. SplitterInv'
  <2>1. /\ splitter'.partial = read.partial /\ splitter'.lastWasCR = read.lastWasCR
        /\ splitter' \in [partial : Text, lastWasCR : BOOLEAN]
    BY <1>2, <1>6 DEF Splitter
  <2>2. lines' \in Seq(Text) /\ Len(lines') \in Nat /\ Len(lines') <= n
    BY <1>2, <1>6 DEF Splitter, AtRest
  <2>3. Resting(splitter') /\ Clean(splitter'.partial)
    BY <1>6, <2>1 DEF AtRest, Resting
  <2> QED
    BY <1>3, <2>2, <2>3 DEF SplitterInv
<1>9. splitter'.partial = read.partial /\ splitter'.lastWasCR = read.lastWasCR
      /\ read.partial \in Text /\ read.lastWasCR \in BOOLEAN /\ lines' \in Seq(Text)
  BY <1>2, <1>6 DEF Splitter
<1>10. ReferenceInv'
  BY <1>2, <1>7, <1>9, DrainedIs DEF ReferenceInv
<1>11. due' = s.items
  <2>1. taken.items = s.items
    BY <1>7, <1>9, WithIsReference
  <2> QED
    BY <1>2, <2>1
<1>12. ItemsInv'
  <2>1. Takes(ref, lines', s)
    BY <1>2, <1>7
  <2>2. Len(s.items) <= Len(ref.items) + Len(lines')
    BY <1>9, <2>1, TakesItems
  <2>3. s.items \in Seq(Item) /\ Len(s.items) \in Nat /\ Len(ref.items) = 0
    BY <1>4 DEF Reference
  <2>4. Len(lines') \in Nat /\ Len(lines') <= MaxChunk
    BY <1>8 DEF SplitterInv
  <2> QED
    BY <1>2, <1>3, <1>11, <2>2, <2>3, <2>4 DEF ItemsInv
<1>13. IdInv'
  BY <1>2 DEF ReadInv, IdInv
<1>14. PICK r \in Reference : r = ref
  BY <1>4
<1>15. AtLine(r, s)'
  BY <1>2, <1>4, <1>7, <1>9, <1>11, <1>14 DEF AtLine
<1>16. StateInv'
  BY <1>2, <1>3, <1>15 DEF StateInv
<1> QED
  BY <1>8, <1>10, <1>12, <1>13, <1>16 DEF ReadInv

(* The item of a line is the next one of those that are due.               *)
LEMMA ReadLineKeeps ==
  ASSUME ReadInv, ReadLine
  PROVE  ReadInv'
<1> DEFINE line == Head(lines)
           items == Yielded(reader, line)
<1>1. /\ st \in {"running", "suspended"} /\ lines # <<>> /\ Decodable(line)
      /\ st' \in {"running", "suspended"} /\ got' = got \o items
      /\ seenId' = LastIdAfter(seenId, items) /\ reader' = TakeLine(reader, line)
      /\ lines' = Tail(lines)
      /\ UNCHANGED <<wire, splitter, ref, due>>
  BY DEF ReadLine
<1>2. PICK r \in Reference, s \in Reference : AtLine(r, s)
  BY <1>1 DEF ReadInv, StateInv
<1>3. line \in Text /\ lines \in Seq(Text) /\ lines' \in Seq(Text) /\ Len(lines') <= MaxChunk
  <2>1. lines \in Seq(Text) /\ Len(lines) <= MaxChunk /\ MaxChunk \in Nat
    BY BoundsAreNatural DEF ReadInv, SplitterInv
  <2>2. Len(Tail(lines)) = Len(lines) - 1 /\ Tail(lines) \in Seq(Text) /\ Head(lines) \in Text
    BY <1>1, <2>1
  <2>3. Len(lines) \in Nat
    BY <2>1
  <2> QED
    BY <1>1, <2>1, <2>2, <2>3
<1> DEFINE t == EndLine(r, line)
<1>4. t \in Reference /\ t.ok /\ reader' = ReaderOf(t) /\ t.items = got'
  BY <1>1, <1>2, <1>3, LineTaken DEF AtLine
<1>5. Takes(t, lines', s)
  BY <1>1, <1>2, <1>3, TakesFirst DEF AtLine
<1> HIDE DEF t
<1>6. PICK u \in Reference : u = t
  BY <1>4
<1>7. AtLine(u, s)'
  BY <1>1, <1>2, <1>4, <1>5, <1>6 DEF AtLine
<1>8. SplitterInv'
  BY <1>1, <1>3 DEF ReadInv, SplitterInv
<1>9. ReferenceInv'
  BY <1>1 DEF ReadInv, ReferenceInv
<1>10. ItemsInv'
  <2>1. got' \in Seq(Item)
    BY <1>4 DEF Reference
  <2> QED
    BY <1>1, <2>1 DEF ReadInv, ItemsInv
<1>11. IdInv'
  <2>1. reader' \in [type : Text, data : OptText, id : OptText, lastId : OptText]
    BY <1>4, ReaderOfType
  <2>2. reader'.lastId = LastIdAfter(reader.lastId, items)
    BY <1>1, <1>3, IdIsThatOfItems DEF ReadInv, IdInv
  <2> QED
    BY <1>1, <2>1, <2>2 DEF ReadInv, IdInv
<1>12. StateInv'
  BY <1>1, <1>7 DEF ReadInv, StateInv
<1> QED
  BY <1>8, <1>9, <1>10, <1>11, <1>12 DEF ReadInv

(* An error is the last item that is due.                                  *)
LEMMA RaiseDecodeErrorKeeps ==
  ASSUME ReadInv, RaiseDecodeError
  PROVE  ReadInv'
<1> DEFINE line == Head(lines)
<1>1. /\ st \in {"running", "suspended"} /\ lines # <<>> /\ ~Decodable(line)
      /\ got' = Append(got, DecodeError) /\ lines' = <<>> /\ st' = "failed"
      /\ UNCHANGED <<wire, splitter, reader, ref, due, seenId>>
  BY DEF RaiseDecodeError
<1>2. PICK r \in Reference, s \in Reference : AtLine(r, s)
  BY <1>1 DEF ReadInv, StateInv
<1>3. lines \in Seq(Text) /\ line \in Text /\ Tail(lines) \in Seq(Text)
  BY <1>1 DEF ReadInv, SplitterInv
<1> DEFINE t == EndLine(r, line)
<1>4. t \in Reference /\ ~t.ok /\ t.items = got'
  BY <1>1, <1>2, <1>3, LineTaken DEF AtLine
<1>5. Takes(t, Tail(lines), s)
  BY <1>2, <1>1, <1>3, TakesFirst DEF AtLine
<1>6. s = t
  BY <1>3, <1>4, <1>5, TakesFailed
<1> HIDE DEF t
<1>7. got' = due'
  BY <1>1, <1>2, <1>4, <1>6 DEF AtLine
<1>8. SplitterInv'
  BY <1>1, BoundsAreNatural DEF ReadInv, SplitterInv
<1>9. ReferenceInv' /\ IdInv'
  BY <1>1 DEF ReadInv, ReferenceInv, IdInv
<1>10. ItemsInv'
  BY <1>1, <1>7 DEF ReadInv, ItemsInv
<1>11. StateInv'
  BY <1>1, <1>7 DEF ReadInv, StateInv
<1> QED
  BY <1>8, <1>9, <1>10, <1>11 DEF ReadInv

LEMMA AskForChunkKeeps ==
  ASSUME ReadInv, AskForChunk
  PROVE  ReadInv'
<1>1. /\ st \in {"running", "suspended"} /\ lines = <<>> /\ st' = "blocked"
      /\ UNCHANGED <<wire, splitter, lines, reader, got, ref, due, seenId>>
  BY DEF AskForChunk, codeVars
<1>2. PICK r \in Reference, s \in Reference : AtLine(r, s)
  BY <1>1 DEF ReadInv, StateInv
<1>3. s = r
  BY <1>1, <1>2, TakesNone DEF AtLine
<1>4. got = due /\ ref.ok /\ reader = ReaderOf(ref)
  <2>1. splitter.partial \in Text /\ splitter.lastWasCR \in BOOLEAN
    BY DEF ReadInv, SplitterInv, Resting
  <2>2. ReaderOf(ref) = ReaderOf(s) /\ ref.ok = s.ok
    BY <1>2, <2>1, DrainedIs DEF AtLine
  <2> QED
    BY <1>2, <1>3, <2>2 DEF AtLine
<1>5. SplitterInv' /\ ReferenceInv' /\ ItemsInv' /\ IdInv'
  BY <1>1 DEF ReadInv, SplitterInv, ReferenceInv, ItemsInv, IdInv
<1>6. StateInv'
  BY <1>1, <1>4 DEF ReadInv, StateInv
<1> QED
  BY <1>5, <1>6 DEF ReadInv

LEMMA NewSessionKeeps ==
  ASSUME ReadInv, NewSession
  PROVE  ReadInv'
<1>1. /\ wire' = <<>> /\ st' = "blocked" /\ splitter' = NoLine /\ lines' = <<>>
      /\ reader' = NewReader(seenId) /\ ref' = NewReference(seenId)
      /\ got' = <<>> /\ due' = <<>> /\ seenId' = seenId
  BY DEF NewSession, ReadInv, IdInv
<1>2. seenId \in OptText /\ MaxChunk \in Nat
  BY BoundsAreNatural DEF ReadInv, IdInv
<1>3. <<>> \in Text /\ <<>> \in Seq(Text) /\ Len(<<>>) = 0
  BY DEF Text
<1>4. SplitterInv'
  BY <1>1, <1>2, <1>3, SplitterStarts DEF SplitterInv
<1>5. ReferenceInv' /\ ref'.ok /\ reader' = ReaderOf(ref') /\ IdInv'
  BY <1>1, <1>2, SplitterStarts, NewReferenceIs DEF ReferenceInv, IdInv
<1>6. ItemsInv'
  BY <1>1, <1>2 DEF ItemsInv
<1>7. StateInv'
  BY <1>1, <1>3, <1>5 DEF StateInv
<1> QED
  BY <1>4, <1>5, <1>6, <1>7 DEF ReadInv

LEMMA ReadInvNext == ReadInv /\ [Next]_vars => ReadInv'
<1> SUFFICES ASSUME ReadInv, [Next]_vars PROVE ReadInv'
  OBVIOUS
<1>1. CASE UNCHANGED vars
  BY <1>1 DEF vars, codeVars, ReadInv, SplitterInv, ReferenceInv, ItemsInv, IdInv, StateInv, AtLine
<1> QED
  BY <1>1, SendLineKeeps, ReceiveChunkKeeps, ReadLineKeeps, RaiseDecodeErrorKeeps,
     AskForChunkKeeps, NewSessionKeeps DEF Next

--------------------------------------------------------------------------------
(* Type correctness: the locals of the two generators, for bytes cut into  *)
(* any chunks; the unfinished line holds no terminator.                    *)
THEOREM TypeCorrect == Spec => []TypeOK
<1>1. ReadInv => TypeOK
  <2> SUFFICES ASSUME ReadInv PROVE TypeOK
    OBVIOUS
  <2>1. Len(got) <= MaxChunk /\ Len(due) <= MaxChunk
    <3>1. CASE st \in {"blocked", "failed"}
      BY <3>1 DEF ReadInv, StateInv, ItemsInv
    <3>2. CASE st \in {"running", "suspended"}
      <4>1. PICK r \in Reference, s \in Reference : AtLine(r, s)
        BY <3>2 DEF ReadInv, StateInv
      <4>2. got \in Seq(Item) /\ due \in Seq(Item) /\ Len(got) <= Len(due)
            /\ Len(due) <= MaxChunk /\ MaxChunk \in Nat
        BY <4>1, AtLineItems, BoundsAreNatural DEF ReadInv, ItemsInv
      <4>3. Len(got) \in Nat /\ Len(due) \in Nat
        BY <4>2
      <4> QED
        BY <4>2, <4>3
    <3> QED
      BY <3>1, <3>2 DEF ReadInv, StateInv
  <2>2. wire \in Seq(Byte) /\ st \in {"blocked", "running", "suspended", "failed"}
        /\ (st \in {"blocked", "failed"} => lines = <<>>)
    BY DEF ReadInv, StateInv, Text
  <2>3. splitter.partial \in Seq(Byte) /\ splitter.lastWasCR \in BOOLEAN
        /\ {CR, LF} \cap Range(splitter.partial) = {}
        /\ lines \in Seq(Seq(Byte)) /\ Len(lines) <= MaxChunk
    BY DEF ReadInv, SplitterInv, Resting, Clean, Text
  <2>4. reader.type \in Seq(Byte)
        /\ \A v \in {reader.data, reader.id, reader.lastId} : v = None \/ v \in Seq(Byte)
    BY DEF ReadInv, IdInv, OptText, Text
  <2> QED
    BY <2>1, <2>2, <2>3, <2>4 DEF TypeOK
<1> QED
  BY <1>1, ReadInvInit, ReadInvNext, PTL DEF Spec

(* Wherever the bytes are cut into chunks: the application gets the items  *)
(* of the reference in its order, all of them before the next chunk is     *)
(* asked for, and a line that cannot be decoded fails in its turn.         *)
THEOREM ItemsAreSame == Spec => []SameItems
<1>1. ReadInv => SameItems
  <2> SUFFICES ASSUME ReadInv PROVE SameItems
    OBVIOUS
  <2>1. CASE st \in {"blocked", "failed"}
    <3>1. got = due /\ got \in Seq(Item) /\ <<>> \in Seq(Item)
      BY <2>1 DEF ReadInv, StateInv, ItemsInv
    <3>2. IsPrefix(got, got \o <<>>)
      BY <3>1, PrefixJoined, Zenon
    <3>3. got \o <<>> = got
      BY <3>1
    <3> QED
      BY <3>1, <3>2, <3>3 DEF SameItems
  <2>2. CASE st \in {"running", "suspended"}
    <3>1. PICK r \in Reference, s \in Reference : AtLine(r, s)
      BY <2>2 DEF ReadInv, StateInv
    <3> QED
      BY <2>2, <3>1, AtLineItems DEF SameItems
  <2> QED
    BY <2>1, <2>2 DEF ReadInv, StateInv
<1> QED
  BY <1>1, ReadInvInit, ReadInvNext, PTL DEF Spec

(* The id that is sent with the next connection is that of the last event  *)
(* with an id that the application was given, over all sessions.           *)
THEOREM LastIdCorrect == Spec => []LastIdIsOfYielded
<1>1. ReadInv => LastIdIsOfYielded
  BY DEF ReadInv, IdInv, LastIdIsOfYielded
<1> QED
  BY <1>1, ReadInvInit, ReadInvNext, PTL DEF Spec
================================================================================
