------------------------- MODULE HttpExchangeProofs -------------------------
(***************************************************************************)
(* HttpExchange implements RequestReply, and its client fails only for a   *)
(* cause, whatever its programs ask, the file holds and the socket takes   *)
(* at a time.                                                              *)
(*                                                                         *)
(* The first half is about texts: the text of a request or an answer       *)
(* parses to what it was made of, and no part of it parses before the      *)
(* whole is there (RequestTravels, ResponseTravels).  That rests on where  *)
(* a separator is first found: HeadPart says what each line of a text is   *)
(* up to its empty line, Parsed what fromString makes of such a text.      *)
(* The second half is the protocol: at every moment the parts of the       *)
(* question, or of the answer, that are written, under way and read make   *)
(* up the whole (Writing, Reading); so a reader that accepts has it all.   *)
(***************************************************************************)
EXTENDS HttpExchange, TLAPS

-----------------------------------------------------------------------------
(* Texts *)

Names == {Connection, ContentLength, Server}

LEMMA NameFacts ==
    /\ {HeaderOrder[i] : i \in 1 .. 3} = Names
    /\ HeaderOrder[1] = Connection /\ HeaderOrder[2] = ContentLength
    /\ HeaderOrder[3] = Server
    /\ \A n \in Names : IsWord(n)
    /\ Connection # ContentLength /\ Connection # Server /\ ContentLength # Server
    /\ CRLF \in Token /\ Colon \in Token /\ Blank \in Token /\ Slash \in Token
    /\ CRLF # Colon /\ CRLF # Blank /\ CRLF # Slash
    /\ Colon # Blank /\ Colon # Slash /\ Blank # Slash
<1>1. /\ HeaderOrder[1] = Connection /\ HeaderOrder[2] = ContentLength
      /\ HeaderOrder[3] = Server
  BY DEF HeaderOrder
<1>2. 1 .. 3 = {1, 2, 3}
  OBVIOUS
<1>3. {HeaderOrder[i] : i \in 1 .. 3} = Names
  BY <1>1, <1>2 DEF Names
<1>4. \A n \in Names : IsWord(n)
  BY TokenAssumption DEF Names, IsWord, Connection, ContentLength, Server, CRLF, Colon, Blank, Slash
<1>5. Connection # ContentLength /\ Connection # Server /\ ContentLength # Server
  BY DEF Connection, ContentLength, Server
<1>6. /\ CRLF \in Token /\ Colon \in Token /\ Blank \in Token /\ Slash \in Token
      /\ CRLF # Colon /\ CRLF # Blank /\ CRLF # Slash
      /\ Colon # Blank /\ Colon # Slash /\ Blank # Slash
  BY TokenAssumption DEF CRLF, Colon, Blank, Slash
<1> QED
  BY <1>1, <1>3, <1>4, <1>5, <1>6

LEMMA ConcatFacts ==
    ASSUME NEW S, NEW s \in Seq(S), NEW t \in Seq(S)
    PROVE  /\ s \o t \in Seq(S) /\ Len(s \o t) = Len(s) + Len(t)
           /\ Len(s) \in Nat /\ Len(t) \in Nat
           /\ \A i \in 1 .. Len(s) : (s \o t)[i] = s[i]
           /\ \A i \in 1 .. Len(t) : (s \o t)[Len(s) + i] = t[i]
  OBVIOUS

LEMMA SubSeqFacts ==
    ASSUME NEW S, NEW s \in Seq(S), NEW m \in 1 .. Len(s) + 1, NEW n \in m - 1 .. Len(s)
    PROVE  /\ SubSeq(s, m, n) \in Seq(S) /\ Len(SubSeq(s, m, n)) = n - m + 1
           /\ \A i \in 1 .. n - m + 1 : SubSeq(s, m, n)[i] = s[m + i - 1]
  OBVIOUS

LEMMA SeqEqual ==
    ASSUME NEW S, NEW T, NEW s \in Seq(S), NEW t \in Seq(T), Len(s) = Len(t),
           \A i \in 1 .. Len(s) : s[i] = t[i]
    PROVE  s = t
  OBVIOUS

\* str.find returns the first place.
LEMMA FindFirst ==
    ASSUME NEW text, NEW token, NEW from \in Nat, NEW to \in Nat,
           NEW i \in from .. to - 1, text[i] = token,
           \A j \in from .. i - 1 : text[j] # token
    PROVE  Find(text, token, from, to) = i
<1>1. \E k \in from .. to - 1 : text[k] = token
  OBVIOUS
<1> DEFINE P(k) == text[k] = token /\ \A j \in from .. k - 1 : text[j] # token
<1>2. \A k \in from .. to - 1 : P(k) => k = i
  OBVIOUS
<1>3. P(i)
  OBVIOUS
<1>4. (CHOOSE k \in from .. to - 1 : P(k)) = i
  BY <1>2, <1>3
<1> QED
  BY <1>1, <1>4 DEF Find

LEMMA FindNothing ==
    ASSUME NEW text, NEW token, NEW from, NEW to,
           \A j \in from .. to - 1 : text[j] # token
    PROVE  Find(text, token, from, to) = 0
  BY DEF Find

-----------------------------------------------------------------------------
(* The part of a text before its empty line *)

\* The header line from i to its end at e.
LineAt(text, i, e, info) ==
    /\ text[i + 1] = Colon /\ text[e] = CRLF
    /\ \A j \in i .. e - 1 : text[j] # CRLF
    /\ SubSeq(text, i + 2, e - 1) = info

StartsLine(text, first, i) == i \in first + 1 .. Len(text) /\ text[i - 1] = CRLF

\* A first line that ends at first, and the lines of the names in D.
HeadPart(text, first, hs, D) ==
    /\ text \in Seq(Token) /\ first \in 2 .. Len(text)
    /\ text[first] = CRLF /\ \A i \in 1 .. first - 1 : text[i] # CRLF
    /\ text[Len(text)] = CRLF
    /\ \A i \in 2 .. Len(text) : ~IsEmptyLine(text, i)
    /\ \A i : StartsLine(text, first, i) =>
          /\ text[i] \in D
          /\ \E e \in i + 2 .. Len(text) : LineAt(text, i, e, hs[text[i]])
    /\ \A i, j : StartsLine(text, first, i) /\ StartsLine(text, first, j)
                    /\ text[i] = text[j] => i = j
    /\ \A n \in D : \E i : StartsLine(text, first, i) /\ text[i] = n

LEMMA HeadFirst ==
    ASSUME NEW text \in Seq(Token), Len(text) >= 2, text[Len(text)] = CRLF,
           \A i \in 1 .. Len(text) - 1 : text[i] # CRLF, NEW hs
    PROVE  HeadPart(text, Len(text), hs, {})
  BY DEF HeadPart, IsEmptyLine, StartsLine

\* A line that is put behind the text so far.
WithLine(text, n, info) == text \o HeaderLine(n, info)

Longer(text, n, info, u) ==
    /\ u \in Seq(Token) /\ Len(text) \in Nat /\ Len(info) \in Nat
    /\ Len(u) = Len(text) + 3 + Len(info)
    /\ \A i \in 1 .. Len(text) : u[i] = text[i]
    /\ u[Len(text) + 1] = n /\ u[Len(text) + 2] = Colon
    /\ u[Len(text) + 3 + Len(info)] = CRLF
    /\ \A i \in Len(text) + 1 .. Len(text) + 2 + Len(info) : u[i] # CRLF
    /\ SubSeq(u, Len(text) + 3, Len(text) + 2 + Len(info)) = info

LEMMA LineFacts ==
    ASSUME NEW text \in Seq(Token), NEW n \in Names, NEW info \in Seq(Token),
           OneLine(info), NEW u, u = WithLine(text, n, info)
    PROVE  Longer(text, n, info, u)
<1> DEFINE h == HeaderLine(n, info)
<1>1. n \in Token /\ n # CRLF /\ Colon \in Token /\ CRLF \in Token /\ Colon # CRLF
  BY NameFacts DEF IsWord
<1>2. info \in Seq(Token) /\ DOMAIN info = 1 .. Len(info) /\ Len(info) \in Nat
      /\ \A j \in 1 .. Len(info) : info[j] # CRLF
  BY DEF OneLine
<1>3. /\ h \in Seq(Token) /\ Len(h) = 3 + Len(info)
      /\ h[1] = n /\ h[2] = Colon /\ h[3 + Len(info)] = CRLF
      /\ \A j \in 1 .. Len(info) : h[2 + j] = info[j]
  <2> DEFINE a == <<n, Colon>>
             b == <<CRLF>>
             c == a \o info
  <2>1. /\ a \in Seq(Token) /\ Len(a) = 2 /\ a[1] = n /\ a[2] = Colon
        /\ b \in Seq(Token) /\ Len(b) = 1 /\ b[1] = CRLF
    BY <1>1
  <2> HIDE DEF a, b
  <2>2. a \in Seq(Token) /\ b \in Seq(Token)
    BY <2>1
  <2>3. c \in Seq(Token)
    BY <2>2
  <2>5. /\ Len(c) = Len(a) + Len(info)
        /\ \A i \in 1 .. Len(a) : c[i] = a[i]
        /\ \A j \in 1 .. Len(info) : c[Len(a) + j] = info[j]
    BY <2>2, ConcatFacts
  <2> HIDE DEF c
  <2> DEFINE d == c \o b
  <2>6. /\ d \in Seq(Token) /\ Len(d) = Len(c) + Len(b)
        /\ \A i \in 1 .. Len(c) : d[i] = c[i]
        /\ \A i \in 1 .. Len(b) : d[Len(c) + i] = b[i]
    BY <2>2, <2>3, ConcatFacts
  <2>4. h = d
    BY DEF HeaderLine, a, b, c
  <2> HIDE DEF d
  <2>7. Len(c) = 2 + Len(info) /\ d[Len(c) + 1] = CRLF
    BY <2>1, <2>5, <2>6
  <2>8. c[1] = n /\ c[2] = Colon /\ \A j \in 1 .. Len(info) : c[2 + j] = info[j]
    BY <2>1, <2>5
  <2>9. Len(d) = 3 + Len(info) /\ d[3 + Len(info)] = CRLF
    BY <1>2, <2>1, <2>6, <2>7
  <2>10. \A i \in 1 .. 2 + Len(info) : d[i] = c[i]
    BY <1>2, <2>6, <2>7
  <2>11. d[1] = n /\ d[2] = Colon
    BY <1>2, <2>8, <2>10
  <2>12. \A j \in 1 .. Len(info) : d[2 + j] = info[j]
    BY <1>2, <2>8, <2>10
  <2> QED BY <2>4, <2>6, <2>9, <2>11, <2>12
<1> HIDE DEF h
<1>4. /\ u \in Seq(Token) /\ Len(u) = Len(text) + Len(h) /\ Len(text) \in Nat
      /\ \A i \in 1 .. Len(text) : u[i] = text[i]
      /\ \A i \in 1 .. Len(h) : u[Len(text) + i] = h[i]
  <2>1. h \in Seq(Token)
    BY <1>3
  <2>2. u = text \o h
    BY DEF h, WithLine
  <2> QED BY <2>1, <2>2, ConcatFacts
<1>5. u[Len(text) + 1] = n /\ u[Len(text) + 2] = Colon
  BY <1>2, <1>3, <1>4
<1>6. \A j \in 1 .. Len(info) : u[Len(text) + 2 + j] = info[j]
  <2> TAKE j \in 1 .. Len(info)
  <2>1. 2 + j \in 1 .. Len(h) /\ h[2 + j] = info[j]
    BY <1>2, <1>3
  <2>2. u[Len(text) + (2 + j)] = h[2 + j]
    BY <1>4, <2>1
  <2> QED BY <1>4, <2>1, <2>2
<1>7. u[Len(text) + 3 + Len(info)] = CRLF
  <2>1. u[Len(text) + (3 + Len(info))] = h[3 + Len(info)]
    BY <1>2, <1>3, <1>4
  <2> QED BY <1>2, <1>3, <1>4, <2>1
<1>8. \A i \in Len(text) + 1 .. Len(text) + 2 + Len(info) : u[i] # CRLF
  <2> TAKE i \in Len(text) + 1 .. Len(text) + 2 + Len(info)
  <2>1. CASE i = Len(text) + 1 \/ i = Len(text) + 2
    BY <1>1, <1>5, <2>1
  <2>2. CASE i > Len(text) + 2
    <3> DEFINE j == i - Len(text) - 2
    <3>1. j \in 1 .. Len(info) /\ i = Len(text) + 2 + j
      BY <1>2, <1>4, <2>2
    <3> QED BY <1>2, <1>6, <3>1
  <2> QED BY <1>4, <2>1, <2>2
<1>9. SubSeq(u, Len(text) + 3, Len(text) + 2 + Len(info)) = info
  <2> DEFINE m == Len(text) + 3
             k == Len(text) + 2 + Len(info)
             v == SubSeq(u, m, k)
  <2>1. m \in 1 .. Len(u) + 1 /\ k \in m - 1 .. Len(u) /\ k - m + 1 = Len(info)
    BY <1>2, <1>3, <1>4
  <2>2. /\ v \in Seq(Token) /\ Len(v) = k - m + 1
        /\ \A i \in 1 .. k - m + 1 : v[i] = u[m + i - 1]
    <3> HIDE DEF m, k
    <3> QED BY <1>4, <2>1, SubSeqFacts
  <2>3. \A i \in 1 .. Len(info) : m + i - 1 = Len(text) + 2 + i
    BY <1>4
  <2> HIDE DEF v
  <2>4. \A i \in 1 .. Len(info) : v[i] = info[i]
    BY <1>6, <2>1, <2>2, <2>3
  <2>5. v = info
    BY <1>2, <2>1, <2>2, <2>4, SeqEqual
  <2> QED BY <2>5 DEF v
<1> QED
  BY <1>2, <1>3, <1>4, <1>5, <1>7, <1>8, <1>9 DEF Longer

LEMMA SubSeqSame ==
    ASSUME NEW S, NEW s \in Seq(S), NEW t \in Seq(S),
           NEW m \in 1 .. Len(s) + 1, NEW n \in m - 1 .. Len(s), n <= Len(t),
           \A i \in m .. n : t[i] = s[i]
    PROVE  SubSeq(t, m, n) = SubSeq(s, m, n)
<1> DEFINE v == SubSeq(s, m, n)
           w == SubSeq(t, m, n)
<1>1. /\ v \in Seq(S) /\ Len(v) = n - m + 1
      /\ \A i \in 1 .. n - m + 1 : v[i] = s[m + i - 1]
  BY SubSeqFacts
<1>2. m \in 1 .. Len(t) + 1 /\ n \in m - 1 .. Len(t)
  OBVIOUS
<1>3. /\ w \in Seq(S) /\ Len(w) = n - m + 1
      /\ \A i \in 1 .. n - m + 1 : w[i] = t[m + i - 1]
  BY <1>2, SubSeqFacts
<1> HIDE DEF v, w
<1>4. \A i \in 1 .. n - m + 1 : v[i] = w[i]
  BY <1>1, <1>3
<1>5. v = w
  BY <1>1, <1>3, <1>4, SeqEqual
<1> QED
  BY <1>5 DEF v, w

LEMMA LineKept ==
    ASSUME NEW text \in Seq(Token), NEW u \in Seq(Token), Len(text) <= Len(u),
           \A i \in 1 .. Len(text) : u[i] = text[i],
           NEW i \in 1 .. Len(text), NEW e \in i + 2 .. Len(text), NEW info
    PROVE  LineAt(u, i, e, info) <=> LineAt(text, i, e, info)
<1>1. \A j \in i .. e : u[j] = text[j]
  OBVIOUS
<1>2. SubSeq(u, i + 2, e - 1) = SubSeq(text, i + 2, e - 1)
  <2> DEFINE m == i + 2
             n == e - 1
  <2>1. /\ m \in 1 .. Len(text) + 1 /\ n \in m - 1 .. Len(text) /\ n <= Len(u)
        /\ \A j \in m .. n : u[j] = text[j]
    BY <1>1
  <2> HIDE DEF m, n
  <2>2. SubSeq(u, m, n) = SubSeq(text, m, n)
    BY <2>1, SubSeqSame
  <2> QED BY <2>2 DEF m, n
<1>3. u[i + 1] = text[i + 1] /\ u[e] = text[e]
  BY <1>1
<1>4. \A j \in i .. e - 1 : u[j] = text[j]
  BY <1>1
<1> QED
  BY <1>2, <1>3, <1>4 DEF LineAt

\* A header line behind the text so far.
LEMMA HeadAdd ==
    ASSUME NEW text, NEW first, NEW hs, NEW D \in SUBSET Names,
           HeadPart(text, first, hs, D),
           NEW n \in Names, n \notin D, hs[n] \in Seq(Token), OneLine(hs[n])
    PROVE  HeadPart(WithLine(text, n, hs[n]), first, hs, D \union {n})
<1> DEFINE info == hs[n]
           u == WithLine(text, n, info)
           L == Len(text)
           M == L + 3 + Len(info)
<1>1. text \in Seq(Token) /\ first \in 2 .. L /\ info \in Seq(Token)
  BY DEF HeadPart
<1>2. /\ u \in Seq(Token) /\ L \in Nat /\ Len(info) \in Nat /\ Len(u) = M
      /\ \A i \in 1 .. L : u[i] = text[i]
      /\ u[L + 1] = n /\ u[L + 2] = Colon /\ u[M] = CRLF
      /\ \A i \in L + 1 .. M - 1 : u[i] # CRLF
      /\ SubSeq(u, L + 3, M - 1) = info
  <2>1. OneLine(info) /\ u = WithLine(text, n, info)
    OBVIOUS
  <2> HIDE DEF u, info
  <2>2. /\ u \in Seq(Token) /\ L \in Nat /\ Len(info) \in Nat /\ Len(u) = M
        /\ \A i \in 1 .. L : u[i] = text[i]
        /\ u[L + 1] = n /\ u[L + 2] = Colon /\ u[M] = CRLF
        /\ \A i \in L + 1 .. L + 2 + Len(info) : u[i] # CRLF
        /\ SubSeq(u, L + 3, L + 2 + Len(info)) = info
    <3>1. Longer(text, n, info, u)
      BY <1>1, <2>1, LineFacts
    <3> QED BY <3>1 DEF Longer
  <2>3. L + 2 + Len(info) = M - 1
    BY <2>2
  <2> HIDE DEF L, M
  <2> QED BY <2>2, <2>3
<1> HIDE DEF u, info
<1>3. n # CRLF /\ CRLF # Colon
  BY NameFacts DEF IsWord
<1>4. L \in Nat /\ M \in Nat /\ M >= L + 3
  <2>1. L \in Nat /\ Len(info) \in Nat
    BY <1>2
  <2> QED BY <2>1
<1>5. /\ text[first] = CRLF /\ \A i \in 1 .. first - 1 : text[i] # CRLF
      /\ text[L] = CRLF
      /\ \A i \in 2 .. L : ~IsEmptyLine(text, i)
  BY DEF HeadPart
<1>13. /\ \A i : StartsLine(text, first, i) =>
             /\ text[i] \in D
             /\ \E e \in i + 2 .. L : LineAt(text, i, e, hs[text[i]])
       /\ \A i, j : StartsLine(text, first, i) /\ StartsLine(text, first, j)
                       /\ text[i] = text[j] => i = j
       /\ \A m \in D : \E i : StartsLine(text, first, i) /\ text[i] = m
  BY DEF HeadPart
<1> HIDE DEF L, M
<1>14. \A i : StartsLine(text, first, i) => i \in 1 .. L /\ u[i] = text[i]
  BY <1>1, <1>2, <1>4 DEF StartsLine, L
<1>6. \A i : StartsLine(u, first, i) <=> StartsLine(text, first, i) \/ i = L + 1
  <2> TAKE i
  <2>1. ASSUME StartsLine(u, first, i) PROVE StartsLine(text, first, i) \/ i = L + 1
    <3>1. i \in first + 1 .. M /\ u[i - 1] = CRLF
      BY <1>2, <2>1 DEF StartsLine
    <3>2. i - 1 \notin L + 1 .. M - 1
      BY <1>2, <3>1
    <3>3. i <= L + 1
      BY <1>1, <1>4, <3>1, <3>2
    <3>4. i <= L => text[i - 1] = CRLF
      BY <1>1, <1>2, <1>4, <3>1
    <3> QED BY <1>1, <1>4, <3>1, <3>3, <3>4 DEF StartsLine, L
  <2>2. ASSUME StartsLine(text, first, i) PROVE StartsLine(u, first, i)
    <3>1. i \in first + 1 .. L /\ text[i - 1] = CRLF
      BY <2>2 DEF StartsLine, L
    <3>2. i - 1 \in 1 .. L
      BY <1>1, <1>4, <3>1
    <3> QED BY <1>1, <1>2, <1>4, <3>1, <3>2 DEF StartsLine
  <2>3. ASSUME i = L + 1 PROVE StartsLine(u, first, i)
    <3>1. u[L] = CRLF
      BY <1>1, <1>2, <1>4, <1>5
    <3>2. i - 1 = L /\ i \in first + 1 .. M
      BY <1>1, <1>4, <2>3
    <3> QED BY <1>2, <3>1, <3>2 DEF StartsLine
  <2> QED BY <2>1, <2>2, <2>3
<1>7. /\ u[first] = CRLF /\ \A i \in 1 .. first - 1 : u[i] # CRLF
      /\ first \in 2 .. M
  <2>1. first \in 1 .. L /\ \A i \in 1 .. first - 1 : i \in 1 .. L
    BY <1>1, <1>4
  <2>2. u[first] = text[first] /\ \A i \in 1 .. first - 1 : u[i] = text[i]
    BY <1>2, <2>1
  <2>3. first \in 2 .. M
    BY <1>1, <1>4
  <2> QED BY <1>5, <2>2, <2>3
<1>8. ASSUME NEW i \in 2 .. M PROVE ~IsEmptyLine(u, i)
  <2>1. CASE i <= L
    <3>1. ~IsEmptyLine(text, i) /\ u[i] = text[i] /\ u[i - 1] = text[i - 1]
      BY <1>2, <1>4, <1>5, <2>1
    <3> QED BY <3>1 DEF IsEmptyLine
  <2>2. CASE i \in L + 1 .. M - 1
    BY <1>2, <2>2 DEF IsEmptyLine
  <2>3. CASE i = M
    <3>1. M - 1 \in L + 1 .. M - 1
      BY <1>4
    <3> QED BY <1>2, <2>3, <3>1 DEF IsEmptyLine
  <2> QED BY <1>4, <2>1, <2>2, <2>3
<1>9. ASSUME NEW i, StartsLine(u, first, i)
      PROVE  /\ u[i] \in D \union {n}
             /\ \E e \in i + 2 .. M : LineAt(u, i, e, hs[u[i]])
  <2>1. CASE StartsLine(text, first, i)
    <3>1. i \in 1 .. L /\ text[i] \in D /\ u[i] = text[i]
      BY <1>13, <1>14, <2>1
    <3>2. PICK e \in i + 2 .. L : LineAt(text, i, e, hs[text[i]])
      BY <1>13, <2>1
    <3>3. L <= Len(u)
      BY <1>2, <1>4
    <3>4. LineAt(u, i, e, hs[text[i]])
      BY <1>1, <1>2, <3>1, <3>2, <3>3, LineKept DEF L
    <3>5. e \in i + 2 .. M
      BY <1>4, <3>1
    <3> QED BY <3>1, <3>4, <3>5
  <2>2. CASE i = L + 1
    <3>1. LineAt(u, i, M, info)
      <4>1. i + 1 = L + 2 /\ i + 2 = L + 3 /\ i .. M - 1 = L + 1 .. M - 1
        BY <1>4, <2>2
      <4> QED BY <1>2, <4>1 DEF LineAt
    <3>2. M \in i + 2 .. M
      BY <1>4, <2>2
    <3>3. u[i] = n /\ info = hs[n]
      BY <1>2, <2>2 DEF info
    <3> QED BY <3>1, <3>2, <3>3
  <2> QED BY <1>6, <1>9, <2>1, <2>2
<1>10. ASSUME NEW i, NEW j, StartsLine(u, first, i), StartsLine(u, first, j), u[i] = u[j]
       PROVE  i = j
  <2>1. \A k : StartsLine(text, first, k) => k \in 1 .. L /\ u[k] \in D /\ u[k] = text[k]
    BY <1>13, <1>14
  <2>2. u[L + 1] \notin D
    BY <1>2
  <2> QED BY <1>13, <1>6, <1>10, <2>1, <2>2
<1>11. ASSUME NEW m \in D \union {n} PROVE \E i : StartsLine(u, first, i) /\ u[i] = m
  <2>2. CASE m \in D
    BY <1>6, <1>13, <1>14, <2>2
  <2>3. CASE m = n
    BY <1>2, <1>6, <2>3
  <2> QED BY <2>2, <2>3
<1>12. HeadPart(u, first, hs, D \union {n})
  BY <1>2, <1>7, <1>8, <1>9, <1>10, <1>11 DEF HeadPart
<1> QED
  BY <1>12 DEF u, info

\* The line of a name, if the headers have it.
LineOf(hs, n) == IF n \in DOMAIN hs THEN HeaderLine(n, hs[n]) ELSE <<>>

LEMMA LineType ==
    ASSUME NEW hs, NEW n \in Names, n \in DOMAIN hs => OneLine(hs[n])
    PROVE  LineOf(hs, n) \in Seq(Token)
<1>1. CASE n \in DOMAIN hs
  <2>1. n \in Token /\ Colon \in Token /\ CRLF \in Token /\ hs[n] \in Seq(Token)
    BY <1>1, NameFacts DEF IsWord, OneLine
  <2>2. <<n, Colon>> \in Seq(Token) /\ <<CRLF>> \in Seq(Token)
    BY <2>1
  <2> DEFINE a == <<n, Colon>>
             b == <<CRLF>>
  <2> HIDE DEF a, b
  <2>3. (a \o hs[n]) \o b \in Seq(Token)
    BY <2>1, <2>2 DEF a, b
  <2> QED BY <1>1, <2>3 DEF LineOf, HeaderLine, a, b
<1>2. CASE n \notin DOMAIN hs
  BY <1>2 DEF LineOf
<1> QED
  BY <1>1, <1>2

LEMMA HeadLine ==
    ASSUME NEW text, NEW first, NEW hs, NEW D \in SUBSET Names,
           HeadPart(text, first, hs, D), NEW n \in Names, n \notin D,
           n \in DOMAIN hs => OneLine(hs[n])
    PROVE  HeadPart(text \o LineOf(hs, n), first, hs, D \union ({n} \intersect DOMAIN hs))
<1>1. CASE n \in DOMAIN hs
  <2>1. D \union ({n} \intersect DOMAIN hs) = D \union {n}
    BY <1>1
  <2>2. text \o LineOf(hs, n) = WithLine(text, n, hs[n])
    BY <1>1 DEF LineOf, WithLine
  <2>3. hs[n] \in Seq(Token) /\ OneLine(hs[n])
    BY <1>1 DEF OneLine
  <2>4. HeadPart(WithLine(text, n, hs[n]), first, hs, D \union {n})
    BY <2>3, HeadAdd
  <2> QED BY <2>1, <2>2, <2>4
<1>2. CASE n \notin DOMAIN hs
  <2>1. D \union ({n} \intersect DOMAIN hs) = D
    BY <1>2
  <2>2. text \in Seq(Token)
    BY DEF HeadPart
  <2>3. text \o LineOf(hs, n) = text
    BY <1>2, <2>2 DEF LineOf
  <2> QED BY <2>1, <2>3
<1> QED
  BY <1>1, <1>2

\* All the header lines, in the order of the map.
LEMMA HeadAll ==
    ASSUME NEW text, NEW first, NEW hs, NEW body,
           HeadPart(text, first, hs, {}), WellFormed(hs, body)
    PROVE  HeadPart(text \o HeaderText(hs), first, hs, DOMAIN hs)
<1> DEFINE a == LineOf(hs, Connection)
           b == LineOf(hs, ContentLength)
           c == LineOf(hs, Server)
           D1 == {} \union ({Connection} \intersect DOMAIN hs)
           D2 == D1 \union ({ContentLength} \intersect DOMAIN hs)
           D3 == D2 \union ({Server} \intersect DOMAIN hs)
<1>1. DOMAIN hs \subseteq Names /\ \A n \in DOMAIN hs : OneLine(hs[n])
  BY NameFacts DEF WellFormed
<1>2. Connection \in Names /\ ContentLength \in Names /\ Server \in Names
  BY DEF Names
<1>3. /\ {} \in SUBSET Names /\ D1 \in SUBSET Names /\ D2 \in SUBSET Names
      /\ Connection \notin {} /\ ContentLength \notin D1 /\ Server \notin D2
  BY <1>2, NameFacts
<1>4. HeadPart(text \o a, first, hs, D1)
  BY <1>1, <1>2, <1>3, HeadLine
<1>5. HeadPart((text \o a) \o b, first, hs, D2)
  <2> DEFINE t == text \o a
  <2> HIDE DEF t, D1
  <2> QED BY <1>1, <1>2, <1>3, <1>4, HeadLine DEF t
<1>6. HeadPart(((text \o a) \o b) \o c, first, hs, D3)
  <2> DEFINE t == (text \o a) \o b
  <2> HIDE DEF t, D2
  <2> QED BY <1>1, <1>2, <1>3, <1>5, HeadLine DEF t
<1>7. a \in Seq(Token) /\ b \in Seq(Token) /\ c \in Seq(Token) /\ text \in Seq(Token)
  BY <1>1, <1>2, LineType DEF HeadPart
<1>8. HeaderText(hs) = (a \o b) \o c
  BY NameFacts DEF HeaderText, LineOf
<1> HIDE DEF a, b, c
<1>9. text \o ((a \o b) \o c) = ((text \o a) \o b) \o c
  BY <1>7
<1>10. D3 = DOMAIN hs
  BY <1>1 DEF Names
<1> QED
  BY <1>6, <1>8, <1>9, <1>10

-----------------------------------------------------------------------------
(* Parsing *)

\* A text with the head, the empty line and the body.
Joined(text, head, body) ==
    /\ text \in Seq(Token) /\ Len(text) = Len(head) + 1 + Len(body)
    /\ \A i \in 1 .. Len(head) : text[i] = head[i]
    /\ text[Len(head) + 1] = CRLF
    /\ \A i \in 1 .. Len(body) : text[Len(head) + 1 + i] = body[i]

\* What the parsers find in it.
Found(text, first, hs, last) ==
    /\ LineEnd(text, 1) = first /\ EmptyLine(text) = last
    /\ Headers(text) = hs
    /\ \A i \in HeaderStarts(text) : ColonAt(text, i) # 0

LEMMA JoinFacts ==
    ASSUME NEW head \in Seq(Token), NEW body \in Seq(Token)
    PROVE  Joined((head \o <<CRLF>>) \o body, head, body)
<1> DEFINE e == <<CRLF>>
           h == head \o e
           t == h \o body
<1>1. e \in Seq(Token) /\ Len(e) = 1 /\ e[1] = CRLF
  BY NameFacts
<1> HIDE DEF e
<1>0. e \in Seq(Token)
  BY <1>1
<1>2. /\ h \in Seq(Token) /\ Len(h) = Len(head) + Len(e) /\ Len(head) \in Nat
      /\ \A i \in 1 .. Len(head) : h[i] = head[i]
      /\ \A i \in 1 .. Len(e) : h[Len(head) + i] = e[i]
  BY <1>0, ConcatFacts
<1> HIDE DEF h
<1>3. Len(h) = Len(head) + 1 /\ h[Len(head) + 1] = CRLF
  BY <1>1, <1>2
<1>4. h \in Seq(Token)
  BY <1>2
<1>5. /\ t \in Seq(Token) /\ Len(t) = Len(h) + Len(body) /\ Len(body) \in Nat
      /\ \A i \in 1 .. Len(h) : t[i] = h[i]
      /\ \A i \in 1 .. Len(body) : t[Len(h) + i] = body[i]
  BY <1>4, ConcatFacts
<1> HIDE DEF t
<1>6. \A i \in 1 .. Len(head) : t[i] = head[i]
  BY <1>2, <1>3, <1>5
<1>7. t[Len(head) + 1] = CRLF
  BY <1>2, <1>3, <1>5
<1>8. \A i \in 1 .. Len(body) : t[Len(head) + 1 + i] = body[i]
  BY <1>3, <1>5
<1>9. Len(t) = Len(head) + 1 + Len(body)
  BY <1>3, <1>5
<1>10. Joined(t, head, body)
  BY <1>5, <1>6, <1>7, <1>8, <1>9 DEF Joined
<1> QED
  BY <1>10 DEF t, h, e

LEMMA OnlyMax ==
    ASSUME NEW i \in Nat
    PROVE  Max({i}) = i
  BY DEF Max

LEMMA Parsed ==
    ASSUME NEW head, NEW first, NEW hs, NEW body \in Seq(Token), NEW text,
           hs = [n \in DOMAIN hs |-> hs[n]], DOMAIN hs \subseteq Names,
           HeadPart(head, first, hs, DOMAIN hs), Joined(text, head, body)
    PROVE  Found(text, first, hs, Len(head) + 1)
<1> DEFINE L == Len(head)
<1>1. /\ head \in Seq(Token) /\ L \in Nat /\ first \in 2 .. L
      /\ head[first] = CRLF /\ \A i \in 1 .. first - 1 : head[i] # CRLF
      /\ head[L] = CRLF
  BY DEF HeadPart
<1>2. \A i \in 2 .. L : ~IsEmptyLine(head, i)
  BY DEF HeadPart
<1>3. /\ \A i : StartsLine(head, first, i) =>
            /\ head[i] \in DOMAIN hs
            /\ \E e \in i + 2 .. L : LineAt(head, i, e, hs[head[i]])
      /\ \A i, j : StartsLine(head, first, i) /\ StartsLine(head, first, j)
                      /\ head[i] = head[j] => i = j
      /\ \A m \in DOMAIN hs : \E i : StartsLine(head, first, i) /\ head[i] = m
  BY DEF HeadPart
<1>4. /\ text \in Seq(Token) /\ Len(text) = L + 1 + Len(body) /\ Len(body) \in Nat
      /\ \A i \in 1 .. L : text[i] = head[i]
      /\ text[L + 1] = CRLF
  BY DEF Joined
<1>5. Len(text) \in Nat /\ L + 1 <= Len(text)
  BY <1>1, <1>4
<1> HIDE DEF L
<1>6. LineEnd(text, 1) = first
  <2>1. /\ first \in 1 .. (Len(text) + 1) - 1 /\ text[first] = CRLF
        /\ \A j \in 1 .. first - 1 : text[j] # CRLF
    <3>1. first \in 1 .. L /\ \A j \in 1 .. first - 1 : j \in 1 .. L
      BY <1>1
    <3>2. text[first] = CRLF
      BY <1>1, <1>4, <3>1
    <3>3. \A j \in 1 .. first - 1 : text[j] # CRLF
      BY <1>1, <1>4, <3>1
    <3>4. first \in 1 .. (Len(text) + 1) - 1
      BY <1>1, <1>5, <3>1
    <3> QED BY <3>2, <3>3, <3>4
  <2>2. Len(text) + 1 \in Nat /\ 1 \in Nat
    BY <1>5
  <2>3. Find(text, CRLF, 1, Len(text) + 1) = first
    BY <2>1, <2>2, FindFirst
  <2> QED BY <2>3 DEF LineEnd
<1>7. EmptyLine(text) = L + 1
  <2>1. L + 1 \in 2 .. Len(text)
    BY <1>1, <1>5
  <2>2. IsEmptyLine(text, L + 1)
    <3>1. text[L] = CRLF /\ (L + 1) - 1 = L
      BY <1>1, <1>4
    <3> QED BY <1>4, <3>1 DEF IsEmptyLine
  <2>3. \A j \in 2 .. L : ~IsEmptyLine(text, j)
    <3> TAKE j \in 2 .. L
    <3>1. j \in 1 .. L /\ j - 1 \in 1 .. L
      BY <1>1
    <3>2. text[j] = head[j] /\ text[j - 1] = head[j - 1]
      BY <1>4, <3>1
    <3> QED BY <1>2, <3>2 DEF IsEmptyLine
  <2> DEFINE P(i) == IsEmptyLine(text, i) /\ \A j \in 2 .. i - 1 : ~IsEmptyLine(text, j)
  <2>4. P(L + 1)
    BY <1>1, <2>2, <2>3
  <2>5. \A i \in 2 .. Len(text) : P(i) => i = L + 1
    <3> TAKE i \in 2 .. Len(text)
    <3>1. i <= L => ~P(i)
      BY <1>1, <2>3
    <3>2. ASSUME i > L + 1 PROVE ~P(i)
      <4>1. L + 1 \in 2 .. i - 1
        BY <1>1, <2>1, <3>2
      <4> QED BY <2>2, <4>1
    <3>3. i \in Nat /\ L + 1 \in Nat
      BY <1>1
    <3> HIDE DEF P
    <3> QED BY <1>1, <3>1, <3>2, <3>3
  <2>6. (CHOOSE i \in 2 .. Len(text) : P(i)) = L + 1
    <3> HIDE DEF P
    <3> QED BY <2>1, <2>4, <2>5
  <2> QED BY <2>1, <2>2, <2>6 DEF EmptyLine
<1>8. \A i : i \in HeaderStarts(text) <=> StartsLine(head, first, i)
  <2> TAKE i
  <2>1. ASSUME i \in HeaderStarts(text) PROVE StartsLine(head, first, i)
    <3>1. i \in 2 .. L /\ text[i - 1] = CRLF
      BY <1>1, <1>7, <2>1 DEF HeaderStarts
    <3>2. i - 1 \in 1 .. L /\ head[i - 1] = CRLF
      BY <1>1, <1>4, <3>1
    <3>3. i - 1 >= first
      BY <1>1, <3>2
    <3> QED BY <1>1, <3>1, <3>2, <3>3 DEF StartsLine, L
  <2>2. ASSUME StartsLine(head, first, i) PROVE i \in HeaderStarts(text)
    <3>1. i \in first + 1 .. L /\ head[i - 1] = CRLF
      BY <2>2 DEF StartsLine, L
    <3>2. i \in 2 .. (L + 1) - 1 /\ i - 1 \in 1 .. L
      BY <1>1, <3>1
    <3>3. text[i - 1] = CRLF
      BY <1>4, <3>1, <3>2
    <3> QED BY <1>7, <3>2, <3>3 DEF HeaderStarts
  <2> QED BY <2>1, <2>2
<1>9. ASSUME NEW i, i \in HeaderStarts(text)
      PROVE  /\ text[i] = head[i] /\ text[i] \in DOMAIN hs /\ ColonAt(text, i) = i + 1
             /\ i \in Nat
             /\ SubSeq(text, ColonAt(text, i) + 1, LineEnd(text, i) - 1) = hs[text[i]]
  <2>1. StartsLine(head, first, i)
    BY <1>8, <1>9
  <2>2. i \in 1 .. L
    BY <1>1, <2>1 DEF StartsLine, L
  <2>3. text[i] = head[i] /\ text[i] \in DOMAIN hs
    BY <1>3, <1>4, <2>1, <2>2
  <2>4. PICK e \in i + 2 .. L : LineAt(head, i, e, hs[head[i]])
    BY <1>3, <2>1
  <2>5. LineAt(text, i, e, hs[text[i]])
    <3>1. Len(head) <= Len(text) /\ \A j \in 1 .. Len(head) : text[j] = head[j]
      BY <1>4, <1>5, <1>1 DEF L
    <3>2. i \in 1 .. Len(head) /\ e \in i + 2 .. Len(head)
      BY <2>2 DEF L
    <3>3. LineAt(text, i, e, hs[head[i]])
      BY <1>1, <1>4, <2>4, <3>1, <3>2, LineKept
    <3> QED BY <2>3, <3>3
  <2>6. LineEnd(text, i) = e
    <3>1. /\ e \in i .. (Len(text) + 1) - 1 /\ text[e] = CRLF /\ i \in Nat
          /\ \A j \in i .. e - 1 : text[j] # CRLF /\ Len(text) + 1 \in Nat
      BY <1>1, <1>5, <2>2, <2>5 DEF LineAt
    <3>2. Find(text, CRLF, i, Len(text) + 1) = e
      BY <3>1, FindFirst
    <3> QED BY <3>2 DEF LineEnd
  <2>7. ColonAt(text, i) = i + 1
    <3>1. text[i] # Colon /\ text[i + 1] = Colon
      BY <2>3, <2>5, NameFacts DEF LineAt, IsWord
    <3>2. /\ i \in Nat /\ e \in Nat /\ i + 1 \in i .. e - 1
          /\ \A j \in i .. (i + 1) - 1 : text[j] # Colon
      BY <1>1, <2>2, <3>1
    <3>3. Find(text, Colon, i, e) = i + 1
      BY <3>1, <3>2, FindFirst
    <3> QED BY <2>6, <3>3 DEF ColonAt
  <2>8. SubSeq(text, (i + 1) + 1, e - 1) = hs[text[i]]
    <3>1. (i + 1) + 1 = i + 2
      BY <2>2
    <3> QED BY <2>5, <3>1 DEF LineAt
  <2> QED BY <1>1, <2>2, <2>3, <2>6, <2>7, <2>8
<1>10. {text[i] : i \in HeaderStarts(text)} = DOMAIN hs
  <2>1. \A i \in HeaderStarts(text) : text[i] \in DOMAIN hs
    BY <1>9
  <2>2. \A m \in DOMAIN hs : \E i \in HeaderStarts(text) : text[i] = m
    <3> TAKE m \in DOMAIN hs
    <3>1. PICK i : StartsLine(head, first, i) /\ head[i] = m
      BY <1>3
    <3>2. i \in HeaderStarts(text)
      BY <1>8, <3>1
    <3>3. text[i] = head[i]
      BY <1>9, <3>2
    <3> QED BY <3>1, <3>2, <3>3
  <2> QED BY <2>1, <2>2
<1>11. ASSUME NEW n \in DOMAIN hs
       PROVE  \E i \in HeaderStarts(text) :
                 /\ text[i] = n
                 /\ Max({j \in HeaderStarts(text) : text[j] = n}) = i
  <2>1. PICK i : StartsLine(head, first, i) /\ head[i] = n
    BY <1>3
  <2>2. i \in HeaderStarts(text) /\ text[i] = n /\ i \in Nat
    <3>1. i \in HeaderStarts(text)
      BY <1>8, <2>1
    <3> QED BY <1>9, <2>1, <3>1
  <2>3. {j \in HeaderStarts(text) : text[j] = n} = {i}
    <3>1. ASSUME NEW j \in HeaderStarts(text), text[j] = n PROVE j = i
      <4>1. StartsLine(head, first, j) /\ text[j] = head[j]
        BY <1>8, <1>9
      <4> QED BY <1>3, <2>1, <3>1, <4>1
    <3> QED BY <2>2, <3>1
  <2> QED BY <2>2, <2>3, OnlyMax
<1>12. Headers(text) = hs
  <2> DEFINE V(i) == SubSeq(text, ColonAt(text, i) + 1, LineEnd(text, i) - 1)
             W(n) == V(Max({i \in HeaderStarts(text) : text[i] = n}))
  <2>1. \A n \in DOMAIN hs : W(n) = hs[n]
    <3> TAKE n \in DOMAIN hs
    <3>1. PICK i \in HeaderStarts(text) :
             text[i] = n /\ Max({j \in HeaderStarts(text) : text[j] = n}) = i
      BY <1>11
    <3>2. V(i) = hs[n]
      BY <1>9, <3>1
    <3> HIDE DEF V
    <3> QED BY <3>1, <3>2
  <2>2. Headers(text) = [n \in {text[i] : i \in HeaderStarts(text)} |-> W(n)]
    BY DEF Headers
  <2> HIDE DEF W
  <2>3. Headers(text) = [n \in DOMAIN hs |-> W(n)]
    BY <1>10, <2>2
  <2>4. [n \in DOMAIN hs |-> W(n)] = [n \in DOMAIN hs |-> hs[n]]
    BY <2>1
  <2> QED BY <2>3, <2>4
<1>13. \A i \in HeaderStarts(text) : ColonAt(text, i) # 0
  <2> TAKE i \in HeaderStarts(text)
  <2>1. ColonAt(text, i) = i + 1 /\ i \in Nat
    BY <1>9
  <2> QED BY <2>1
<1> QED
  BY <1>6, <1>7, <1>12, <1>13 DEF Found, L

-----------------------------------------------------------------------------
(* Texts that are cut *)

FirstLine(line) ==
    /\ line \in Seq(Token) /\ Len(line) >= 2 /\ line[Len(line)] = CRLF
    /\ \A i \in 1 .. Len(line) - 1 : line[i] # CRLF

\* A message that says how long its body is.
Complete(hs, body) ==
    WellFormed(hs, body) /\ (body # <<>> => ContentLength \in DOMAIN hs)

TextOf(line, hs, body) == line \o HeaderText(hs) \o <<CRLF>> \o body

LEMMA HeaderTextType ==
    ASSUME NEW hs, NEW body, WellFormed(hs, body)
    PROVE  HeaderText(hs) \in Seq(Token)
<1> DEFINE a == LineOf(hs, Connection)
           b == LineOf(hs, ContentLength)
           c == LineOf(hs, Server)
<1>1. DOMAIN hs \subseteq Names /\ \A n \in DOMAIN hs : OneLine(hs[n])
  BY NameFacts DEF WellFormed
<1>2. Connection \in Names /\ ContentLength \in Names /\ Server \in Names
  BY DEF Names
<1>3. a \in Seq(Token) /\ b \in Seq(Token) /\ c \in Seq(Token)
  BY <1>1, <1>2, LineType
<1>4. HeaderText(hs) = (a \o b) \o c
  BY NameFacts DEF HeaderText, LineOf
<1> HIDE DEF a, b, c
<1>5. a \o b \in Seq(Token)
  BY <1>3
<1> DEFINE d == a \o b
<1> HIDE DEF d
<1>6. d \o c \in Seq(Token)
  BY <1>3, <1>5 DEF d
<1> QED
  BY <1>4, <1>6 DEF d

LEMMA PrefixFacts ==
    ASSUME NEW S, NEW s \in Seq(S), NEW k \in 0 .. Len(s)
    PROVE  /\ Prefix(s, k) \in Seq(S) /\ Len(Prefix(s, k)) = k
           /\ \A i \in 1 .. k : Prefix(s, k)[i] = s[i]
<1>1. 1 \in 1 .. Len(s) + 1 /\ k \in 1 - 1 .. Len(s) /\ k - 1 + 1 = k
      /\ \A i \in 1 .. k : 1 + i - 1 = i
  OBVIOUS
<1>2. /\ SubSeq(s, 1, k) \in Seq(S) /\ Len(SubSeq(s, 1, k)) = k - 1 + 1
      /\ \A i \in 1 .. k - 1 + 1 : SubSeq(s, 1, k)[i] = s[1 + i - 1]
  BY <1>1, SubSeqFacts
<1> QED
  BY <1>1, <1>2 DEF Prefix

LEMMA ScanDigits ==
    ASSUME NEW n \in 0 .. MaxNumber
    PROVE  Scan(<<Digits(n)>>) = n
<1>1. \A m \in 0 .. MaxNumber : Digits(m) = Digits(n) => m = n
  <2>1. \A i, j \in 0 .. 599 : Digits(i) = Digits(j) => i = j
    BY DigitsAssumption
  <2>2. \A m \in 0 .. MaxNumber : m \in 0 .. 599
    BY DEF MaxNumber
  <2>3. n \in 0 .. 599
    BY <2>2
  <2> QED BY <2>1, <2>2, <2>3
<1> DEFINE w == <<Digits(n)>>
<1>2. w # <<>> /\ w[1] = Digits(n)
  OBVIOUS
<1> HIDE DEF w
<1>3. (CHOOSE m \in 0 .. MaxNumber : Digits(m) = w[1]) = n
  BY <1>1, <1>2
<1>4. Scan(w) = n
  BY <1>2, <1>3 DEF Scan
<1> QED
  BY <1>4 DEF w

LEMMA TextHead ==
    ASSUME NEW line, NEW hs, NEW body, FirstLine(line), Complete(hs, body),
           NEW head, head = line \o HeaderText(hs)
    PROVE  /\ HeadPart(head, Len(line), hs, DOMAIN hs)
           /\ Joined(TextOf(line, hs, body), head, body)
           /\ head \in Seq(Token) /\ Len(line) \in 2 .. Len(head)
           /\ \A i \in 1 .. Len(line) : head[i] = line[i]
<1> DEFINE h == HeaderText(hs)
<1>1. line \in Seq(Token) /\ h \in Seq(Token) /\ body \in Seq(Token)
  BY HeaderTextType DEF FirstLine, Complete, WellFormed
<1>2. HeadPart(line, Len(line), hs, {})
  BY HeadFirst DEF FirstLine
<1>3. HeadPart(head, Len(line), hs, DOMAIN hs)
  BY <1>2, HeadAll DEF Complete
<1> HIDE DEF h
<1>4. /\ head \in Seq(Token) /\ Len(head) = Len(line) + Len(h)
      /\ Len(line) \in Nat /\ Len(h) \in Nat
      /\ \A i \in 1 .. Len(line) : head[i] = line[i]
  <2>1. head = line \o h
    BY DEF h
  <2>2. line \in Seq(Token) /\ h \in Seq(Token)
    BY <1>1
  <2> QED BY <2>1, <2>2, ConcatFacts
<1>5. Joined((head \o <<CRLF>>) \o body, head, body)
  BY <1>1, <1>4, JoinFacts
<1>6. Len(line) \in 2 .. Len(head)
  BY <1>4 DEF FirstLine
<1> QED
  BY <1>3, <1>4, <1>5, <1>6 DEF TextOf

\* The tokens that a text has in common with what is joined.
LEMMA CutBefore ==
    ASSUME NEW head, NEW first, NEW hs, NEW D, HeadPart(head, first, hs, D),
           NEW p \in Seq(Token), Len(p) <= Len(head),
           \A i \in 1 .. Len(p) : p[i] = head[i]
    PROVE  EmptyLine(p) = 0
<1>1. head \in Seq(Token) /\ \A i \in 2 .. Len(head) : ~IsEmptyLine(head, i)
  BY DEF HeadPart
<1>2. ASSUME NEW i \in 2 .. Len(p) PROVE ~IsEmptyLine(p, i)
  <2>1. i \in 2 .. Len(head) /\ i \in 1 .. Len(p) /\ i - 1 \in 1 .. Len(p)
    BY <1>1
  <2>2. p[i] = head[i] /\ p[i - 1] = head[i - 1]
    BY <2>1
  <2> QED BY <1>1, <2>1, <2>2 DEF IsEmptyLine
<1> QED
  BY <1>2 DEF EmptyLine

LEMMA CutBehind ==
    ASSUME NEW head \in Seq(Token), NEW body \in Seq(Token), NEW text,
           Joined(text, head, body), NEW k \in Len(head) + 1 .. Len(text)
    PROVE  Joined(Prefix(text, k), head, Prefix(body, k - Len(head) - 1))
<1> DEFINE m == k - Len(head) - 1
           p == Prefix(text, k)
           b == Prefix(body, m)
<1>1. /\ text \in Seq(Token) /\ Len(text) = Len(head) + 1 + Len(body)
      /\ \A i \in 1 .. Len(head) : text[i] = head[i]
      /\ text[Len(head) + 1] = CRLF
      /\ \A i \in 1 .. Len(body) : text[Len(head) + 1 + i] = body[i]
  BY DEF Joined
<1>2. /\ Len(head) \in Nat /\ Len(body) \in Nat /\ k \in 0 .. Len(text)
      /\ m \in 0 .. Len(body) /\ k = Len(head) + 1 + m
  BY <1>1
<1> HIDE DEF m
<1>3. p \in Seq(Token) /\ Len(p) = k /\ \A i \in 1 .. k : p[i] = text[i]
  BY <1>1, <1>2, PrefixFacts
<1>4. b \in Seq(Token) /\ Len(b) = m /\ \A i \in 1 .. m : b[i] = body[i]
  BY <1>2, PrefixFacts
<1> HIDE DEF p, b
<1>5. \A i \in 1 .. Len(head) : p[i] = head[i]
  BY <1>1, <1>2, <1>3
<1>6. p[Len(head) + 1] = CRLF
  BY <1>1, <1>2, <1>3
<1>7. \A i \in 1 .. m : p[Len(head) + 1 + i] = b[i]
  <2> TAKE i \in 1 .. m
  <2>1. Len(head) + 1 + i \in 1 .. k /\ i \in 1 .. Len(body)
    BY <1>2
  <2> QED BY <1>1, <1>3, <1>4, <2>1
<1>8. Joined(p, head, b)
  BY <1>2, <1>3, <1>4, <1>5, <1>6, <1>7 DEF Joined
<1> QED
  BY <1>8 DEF p, b, m

LEMMA BodyFound ==
    ASSUME NEW head \in Seq(Token), NEW body \in Seq(Token), NEW text,
           Joined(text, head, body)
    PROVE  SubSeq(text, Len(head) + 1 + 1, Len(text)) = body
<1> DEFINE m == Len(head) + 1 + 1
           n == Len(text)
           v == SubSeq(text, m, n)
<1>1. /\ text \in Seq(Token) /\ Len(text) = Len(head) + 1 + Len(body)
      /\ \A i \in 1 .. Len(body) : text[Len(head) + 1 + i] = body[i]
      /\ Len(head) \in Nat /\ Len(body) \in Nat
  BY DEF Joined
<1>2. /\ m \in 1 .. Len(text) + 1 /\ n \in m - 1 .. Len(text)
      /\ n - m + 1 = Len(body)
      /\ \A i \in 1 .. Len(body) : m + i - 1 = Len(head) + 1 + i
  BY <1>1
<1> HIDE DEF m, n
<1>3. /\ v \in Seq(Token) /\ Len(v) = n - m + 1
      /\ \A i \in 1 .. n - m + 1 : v[i] = text[m + i - 1]
  BY <1>1, <1>2, SubSeqFacts
<1> HIDE DEF v
<1>4. \A i \in 1 .. Len(body) : v[i] = body[i]
  BY <1>1, <1>2, <1>3
<1>5. v = body
  BY <1>2, <1>3, <1>4, SeqEqual
<1> QED
  BY <1>5 DEF v, m, n

\* What is after the first line parses when nothing of the text is missing, and
\* is what was written.
Travels(text, line, hs, body) ==
    /\ text \in Seq(Token) /\ Len(line) \in 2 .. Len(text)
    /\ \A i \in 1 .. Len(line) : text[i] = line[i]
    /\ LineEnd(text, 1) = Len(line)
    /\ Headers(text) = hs /\ Body(text) = body
    /\ \A k \in 0 .. Len(text) : RestParses(Prefix(text, k)) <=> k = Len(text)

LEMMA TextTravels ==
    ASSUME NEW line, NEW hs, NEW body, FirstLine(line), Complete(hs, body)
    PROVE  Travels(TextOf(line, hs, body), line, hs, body)
<1> DEFINE text == TextOf(line, hs, body)
           head == line \o HeaderText(hs)
           L == Len(head)
<1>1. /\ HeadPart(head, Len(line), hs, DOMAIN hs) /\ Joined(text, head, body)
      /\ head \in Seq(Token) /\ Len(line) \in 2 .. Len(head)
      /\ \A i \in 1 .. Len(line) : head[i] = line[i]
  BY TextHead
<1> HIDE DEF text, head
<1>2. /\ text \in Seq(Token) /\ Len(text) = L + 1 + Len(body)
      /\ L \in Nat /\ Len(body) \in Nat
      /\ \A i \in 1 .. L : text[i] = head[i]
  BY <1>1 DEF Joined, Complete, WellFormed
<1>3. /\ hs = [n \in DOMAIN hs |-> hs[n]] /\ DOMAIN hs \subseteq Names
      /\ body \in Seq(Token) /\ Len(body) \in 0 .. MaxNumber
      /\ ContentLength \in DOMAIN hs => hs[ContentLength] = <<Digits(Len(body))>>
      /\ ContentLength \notin DOMAIN hs => body = <<>>
  <2>1. hs \in [DOMAIN hs -> Seq(Token)]
    BY DEF Complete, WellFormed
  <2>2. hs = [n \in DOMAIN hs |-> hs[n]]
    BY <2>1
  <2> QED BY <1>2, <2>2, NameFacts DEF Complete, WellFormed
<1>4. Found(text, Len(line), hs, L + 1)
  BY <1>1, <1>3, Parsed
<1>5. \A i \in 1 .. Len(line) : text[i] = line[i]
  BY <1>1, <1>2
<1>6. Body(text) = body
  <2>1. SubSeq(text, L + 1 + 1, Len(text)) = body
    BY <1>1, <1>3, BodyFound
  <2> QED BY <1>3, <1>4, <2>1 DEF Body, Found
<1>7. ASSUME NEW k \in 0 .. Len(text), k <= L
      PROVE  ~RestParses(Prefix(text, k))
  <2> DEFINE p == Prefix(text, k)
  <2>1. p \in Seq(Token) /\ Len(p) = k /\ \A i \in 1 .. k : p[i] = text[i]
    BY <1>2, PrefixFacts
  <2> HIDE DEF p
  <2>2. Len(p) <= Len(head) /\ \A i \in 1 .. Len(p) : p[i] = head[i]
    BY <1>2, <1>7, <2>1
  <2>3. EmptyLine(p) = 0
    BY <1>1, <2>1, <2>2, CutBefore
  <2> QED BY <2>3 DEF RestParses, p
<1>8. ASSUME NEW k \in L + 1 .. Len(text)
      PROVE  RestParses(Prefix(text, k)) <=> k = Len(text)
  <2> DEFINE p == Prefix(text, k)
             b == Prefix(body, k - L - 1)
  <2>1. p \in Seq(Token) /\ Len(p) = k
    BY <1>2, PrefixFacts
  <2>2. b \in Seq(Token)
    <3>1. k - L - 1 \in 0 .. Len(body)
      BY <1>2
    <3> QED BY <1>3, <3>1, PrefixFacts
  <2>3. Joined(p, head, b)
    BY <1>1, <1>3, CutBehind
  <2> HIDE DEF p, b
  <2>4. Found(p, Len(line), hs, L + 1)
    BY <1>1, <1>3, <2>2, <2>3, Parsed
  <2>5. RestParses(p) <=> BodyFits(p)
    BY <1>2, <2>4 DEF Found, RestParses
  <2>6. BodyFits(p) <=> (ContentLength \in DOMAIN hs => k - (L + 1) = Scan(hs[ContentLength]))
    BY <2>1, <2>4 DEF Found, BodyFits
  <2>7. CASE ContentLength \in DOMAIN hs
    <3>1. Scan(hs[ContentLength]) = Len(body)
      BY <1>3, <2>7, ScanDigits
    <3>2. k - (L + 1) = Len(body) <=> k = Len(text)
      BY <1>2
    <3> QED BY <2>5, <2>6, <2>7, <3>1, <3>2 DEF p
  <2>8. CASE ContentLength \notin DOMAIN hs
    <3>1. k = Len(text)
      BY <1>2, <1>3, <2>8
    <3> QED BY <2>5, <2>6, <2>8, <3>1 DEF p
  <2> QED BY <2>7, <2>8
<1>9. \A k \in 0 .. Len(text) : RestParses(Prefix(text, k)) <=> k = Len(text)
  <2> TAKE k \in 0 .. Len(text)
  <2>1. CASE k <= L
    <3>1. k # Len(text)
      BY <1>2, <2>1
    <3> QED BY <1>7, <2>1, <3>1
  <2>2. CASE k > L
    <3>1. k \in L + 1 .. Len(text)
      BY <1>2, <2>2
    <3> QED BY <1>8, <3>1
  <2> QED BY <1>2, <2>1, <2>2
<1>10. Len(line) \in 2 .. Len(text)
  BY <1>1, <1>2
<1>11. Travels(text, line, hs, body)
  BY <1>2, <1>4, <1>5, <1>6, <1>9, <1>10 DEF Travels, Found
<1> QED
  BY <1>11 DEF text

-----------------------------------------------------------------------------
(* Requests *)

RequestLineHas(line, r) ==
    LET T == Len(r.target)
    IN  /\ T \in Nat /\ line \in Seq(Token) /\ Len(line) = T + 7
        /\ line[1] = r.method /\ line[2] = Blank
        /\ \A i \in 1 .. T : line[2 + i] = r.target[i]
        /\ line[T + 3] = Blank /\ line[T + 4] = "HTTP" /\ line[T + 5] = Slash
        /\ line[T + 6] = r.version /\ line[T + 7] = CRLF

LEMMA RequestLineFacts ==
    ASSUME NEW r, IsRequest(r)
    PROVE  RequestLineHas(RequestLine(r), r)
<1> DEFINE a == <<r.method, Blank>>
           t == r.target
           b == <<Blank, "HTTP", Slash, r.version, CRLF>>
           c == a \o t
           d == c \o b
<1>1. r.method \in Token /\ r.version \in Token /\ t \in Seq(Token)
  BY DEF IsRequest, IsWord, OneLine
<1>2. Blank \in Token /\ Slash \in Token /\ CRLF \in Token /\ "HTTP" \in Token
  BY TokenAssumption
<1>3. a \in Seq(Token) /\ Len(a) = 2 /\ a[1] = r.method /\ a[2] = Blank
  BY <1>1, <1>2
<1>4. /\ b \in Seq(Token) /\ Len(b) = 5 /\ b[1] = Blank /\ b[2] = "HTTP"
      /\ b[3] = Slash /\ b[4] = r.version /\ b[5] = CRLF
  BY <1>1, <1>2
<1>10. RequestLine(r) = d
  BY DEF RequestLine
<1> HIDE DEF a, b, t
<1>5. a \in Seq(Token) /\ b \in Seq(Token) /\ t \in Seq(Token)
  BY <1>1, <1>3, <1>4
<1>6. /\ c \in Seq(Token) /\ Len(c) = Len(a) + Len(t) /\ Len(t) \in Nat
      /\ \A i \in 1 .. Len(a) : c[i] = a[i]
      /\ \A i \in 1 .. Len(t) : c[Len(a) + i] = t[i]
  BY <1>5, ConcatFacts
<1> HIDE DEF c
<1>7. c \in Seq(Token)
  BY <1>6
<1>8. /\ d \in Seq(Token) /\ Len(d) = Len(c) + Len(b)
      /\ \A i \in 1 .. Len(c) : d[i] = c[i]
      /\ \A i \in 1 .. Len(b) : d[Len(c) + i] = b[i]
  BY <1>5, <1>7, ConcatFacts
<1> HIDE DEF d
<1>9. Len(c) = 2 + Len(t) /\ Len(d) = Len(t) + 7
  BY <1>3, <1>4, <1>6, <1>8
<1>11. d[1] = r.method /\ d[2] = Blank
  BY <1>3, <1>6, <1>8, <1>9
<1>12. \A i \in 1 .. Len(t) : d[2 + i] = t[i]
  <2> TAKE i \in 1 .. Len(t)
  <2>1. 2 + i \in 1 .. Len(c) /\ c[2 + i] = t[i]
    BY <1>3, <1>6, <1>9
  <2> QED BY <1>8, <2>1
<1>13. \A i \in 1 .. 5 : d[Len(t) + (2 + i)] = b[i]
  <2> TAKE i \in 1 .. 5
  <2>1. d[Len(c) + i] = b[i]
    BY <1>4, <1>8
  <2>2. Len(c) + i = Len(t) + (2 + i)
    BY <1>6, <1>9
  <2> QED BY <2>1, <2>2
<1>14. /\ d[Len(t) + 3] = Blank /\ d[Len(t) + 4] = "HTTP" /\ d[Len(t) + 5] = Slash
       /\ d[Len(t) + 6] = r.version /\ d[Len(t) + 7] = CRLF
  <2>1. /\ 1 \in 1 .. 5 /\ 2 \in 1 .. 5 /\ 3 \in 1 .. 5 /\ 4 \in 1 .. 5 /\ 5 \in 1 .. 5
        /\ 2 + 1 = 3 /\ 2 + 2 = 4 /\ 2 + 3 = 5 /\ 2 + 4 = 6 /\ 2 + 5 = 7
    OBVIOUS
  <2> QED BY <1>4, <1>13, <2>1
<1>15. RequestLineHas(d, r)
  BY <1>6, <1>8, <1>9, <1>11, <1>12, <1>14 DEF RequestLineHas, t
<1> QED
  BY <1>10, <1>15

LEMMA RequestLineFirst ==
    ASSUME NEW r, IsRequest(r), NEW line, RequestLineHas(line, r)
    PROVE  FirstLine(line)
<1> DEFINE T == Len(r.target)
<1>1. /\ T \in Nat /\ line \in Seq(Token) /\ Len(line) = T + 7
      /\ line[1] = r.method /\ line[2] = Blank
      /\ \A i \in 1 .. T : line[2 + i] = r.target[i]
      /\ line[T + 3] = Blank /\ line[T + 4] = "HTTP" /\ line[T + 5] = Slash
      /\ line[T + 6] = r.version /\ line[T + 7] = CRLF
  BY DEF RequestLineHas
<1>2. /\ r.method # CRLF /\ r.version # CRLF /\ Blank # CRLF /\ Slash # CRLF
      /\ "HTTP" # CRLF /\ \A i \in 1 .. T : r.target[i] # CRLF
  BY NameFacts DEF IsRequest, IsWord, OneLine, CRLF
<1> HIDE DEF T
<1>3. ASSUME NEW i \in 1 .. T + 6 PROVE line[i] # CRLF
  <2>1. CASE i \in 3 .. T + 2
    <3>1. i - 2 \in 1 .. T /\ 2 + (i - 2) = i
      BY <1>1, <2>1
    <3> QED BY <1>1, <1>2, <3>1
  <2>2. CASE i \in {1, 2, T + 3, T + 4, T + 5, T + 6}
    BY <1>1, <1>2, <2>2
  <2> QED BY <1>1, <2>1, <2>2
<1>4. Len(line) - 1 = T + 6 /\ Len(line) >= 2
  BY <1>1
<1> QED
  BY <1>1, <1>3, <1>4 DEF FirstLine

LEMMA RequestPlaces ==
    ASSUME NEW r, IsRequest(r), NEW line, RequestLineHas(line, r), NEW text \in Seq(Token),
           Len(line) \in 2 .. Len(text), \A i \in 1 .. Len(line) : text[i] = line[i],
           LineEnd(text, 1) = Len(line)
    PROVE  /\ FirstBlank(text) = 2 /\ SecondBlank(text) = Len(r.target) + 3
           /\ RequestSlash(text) = Len(r.target) + 5 /\ Len(r.target) \in Nat
           /\ text[1] = r.method /\ text[Len(r.target) + 5 + 1] = r.version
           /\ SubSeq(text, 2 + 1, Len(r.target) + 3 - 1) = r.target
<1> DEFINE T == Len(r.target)
           t == r.target
<1>1. /\ T \in Nat /\ line \in Seq(Token) /\ Len(line) = T + 7
      /\ line[1] = r.method /\ line[2] = Blank
      /\ \A i \in 1 .. T : line[2 + i] = r.target[i]
      /\ line[T + 3] = Blank /\ line[T + 4] = "HTTP" /\ line[T + 5] = Slash
      /\ line[T + 6] = r.version
  BY DEF RequestLineHas
<1>2. /\ r.method # Blank /\ "HTTP" # Slash /\ Blank # Slash
      /\ t \in Seq(Token) /\ \A i \in 1 .. T : t[i] # Blank
  BY NameFacts DEF IsRequest, IsWord, OneLine, Slash
<1> HIDE DEF T, t
<1>3. \A i \in 1 .. T + 7 : text[i] = line[i]
  BY <1>1
<1>4. /\ text[1] = r.method /\ text[2] = Blank /\ text[T + 3] = Blank
      /\ text[T + 4] = "HTTP" /\ text[T + 5] = Slash /\ text[T + 6] = r.version
  BY <1>1, <1>3
<1>5. \A i \in 1 .. T : text[2 + i] = t[i]
  BY <1>1, <1>3 DEF t
<1>6. FirstBlank(text) = 2
  <2>1. /\ 1 \in Nat /\ T + 7 \in Nat /\ 2 \in 1 .. (T + 7) - 1
        /\ \A j \in 1 .. 2 - 1 : text[j] # Blank
    BY <1>1, <1>2, <1>4
  <2>2. Find(text, Blank, 1, T + 7) = 2
    BY <1>4, <2>1, FindFirst
  <2> QED BY <1>1, <2>2 DEF FirstBlank
<1>7. SecondBlank(text) = T + 3
  <2>1. /\ 2 + 1 \in Nat /\ T + 7 \in Nat /\ T + 3 \in 2 + 1 .. (T + 7) - 1
    BY <1>1
  <2>2. \A j \in 2 + 1 .. (T + 3) - 1 : text[j] # Blank
    <3> TAKE j \in 2 + 1 .. (T + 3) - 1
    <3>1. j - 2 \in 1 .. T /\ 2 + (j - 2) = j
      BY <1>1
    <3>2. text[j] = t[j - 2]
      BY <1>5, <3>1
    <3> QED BY <1>2, <3>1, <3>2
  <2>3. Find(text, Blank, 2 + 1, T + 7) = T + 3
    <3> DEFINE from == 2 + 1
               to == T + 7
               i == T + 3
    <3>1. /\ from \in Nat /\ to \in Nat /\ i \in from .. to - 1 /\ text[i] = Blank
          /\ \A j \in from .. i - 1 : text[j] # Blank
      BY <1>4, <2>1, <2>2
    <3> HIDE DEF from, to, i
    <3>2. Find(text, Blank, from, to) = i
      BY <3>1, FindFirst
    <3> QED BY <3>2 DEF from, to, i
  <2> QED BY <1>1, <1>6, <2>3 DEF SecondBlank
<1>8. RequestSlash(text) = T + 5
  <2>1. /\ T + 3 + 1 \in Nat /\ T + 7 \in Nat /\ T + 5 \in T + 3 + 1 .. (T + 7) - 1
        /\ \A j \in T + 3 + 1 .. (T + 5) - 1 : j = T + 4
    BY <1>1
  <2>2. \A j \in T + 3 + 1 .. (T + 5) - 1 : text[j] # Slash
    BY <1>2, <1>4, <2>1
  <2>3. Find(text, Slash, T + 3 + 1, T + 7) = T + 5
    <3> DEFINE from == T + 3 + 1
               to == T + 7
               i == T + 5
    <3>1. /\ from \in Nat /\ to \in Nat /\ i \in from .. to - 1 /\ text[i] = Slash
          /\ \A j \in from .. i - 1 : text[j] # Slash
      BY <1>4, <2>1, <2>2
    <3> HIDE DEF from, to, i
    <3>2. Find(text, Slash, from, to) = i
      BY <3>1, FindFirst
    <3> QED BY <3>2 DEF from, to, i
  <2> QED BY <1>1, <1>7, <2>3 DEF RequestSlash
<1>9. SubSeq(text, 2 + 1, T + 3 - 1) = t
  <2> DEFINE m == 2 + 1
             n == T + 3 - 1
             v == SubSeq(text, m, n)
  <2>1. /\ m \in 1 .. Len(text) + 1 /\ n \in m - 1 .. Len(text) /\ n - m + 1 = T
        /\ \A i \in 1 .. T : m + i - 1 = 2 + i
    BY <1>1
  <2> HIDE DEF m, n
  <2>2. /\ v \in Seq(Token) /\ Len(v) = n - m + 1
        /\ \A i \in 1 .. n - m + 1 : v[i] = text[m + i - 1]
    BY <2>1, SubSeqFacts
  <2> HIDE DEF v
  <2>3. Len(v) = Len(t) /\ \A i \in 1 .. Len(v) : v[i] = t[i]
    <3>1. Len(v) = T /\ T = Len(t)
      BY <2>1, <2>2 DEF T, t
    <3>2. \A i \in 1 .. T : v[i] = t[i]
      BY <1>5, <2>1, <2>2
    <3> QED BY <3>1, <3>2
  <2>4. v = t
    BY <1>2, <2>2, <2>3, SeqEqual
  <2> QED BY <2>4 DEF v, m, n
<1>10. text[T + 5 + 1] = r.version
  <2>1. T + 5 + 1 = T + 6
    BY <1>1
  <2> QED BY <1>4, <2>1
<1> QED
  BY <1>1, <1>4, <1>6, <1>7, <1>8, <1>9, <1>10 DEF T, t

\* The headers after toString has seen to the Content-Length line.
Lengthened(hs, body) ==
    IF ContentLength \notin DOMAIN hs /\ body # <<>>
    THEN AddLine(hs, ContentLength, <<Digits(Len(body))>>) ELSE hs

LEMMA LengthLine ==
    ASSUME NEW n \in 0 .. MaxNumber
    PROVE  <<Digits(n)>> \in Seq(Token) /\ OneLine(<<Digits(n)>>)
<1>1. Digits(n) \in Token /\ Digits(n) # CRLF
  <2>1. n \in 0 .. 599
    BY DEF MaxNumber
  <2>2. \A i \in 0 .. 599 : IsWord(Digits(i))
    BY DigitsAssumption
  <2> QED BY <2>1, <2>2 DEF IsWord
<1> DEFINE w == <<Digits(n)>>
<1>2. w \in Seq(Token) /\ Len(w) = 1 /\ w[1] # CRLF /\ DOMAIN w = 1 .. 1
  BY <1>1
<1> HIDE DEF w
<1>3. OneLine(w)
  BY <1>2 DEF OneLine
<1> QED
  BY <1>2, <1>3 DEF w

LengthOf(body) == <<Digits(Len(body))>>

LEMMA AddedLine ==
    ASSUME NEW hs, NEW body, WellFormed(hs, body), NEW n \in Names,
           NEW info \in Seq(Token), OneLine(info),
           n = ContentLength => info = LengthOf(body)
    PROVE  /\ WellFormed(AddLine(hs, n, info), body)
           /\ DOMAIN AddLine(hs, n, info) = DOMAIN hs \union {n}
           /\ AddLine(hs, n, info)[n] = info
           /\ \A m \in DOMAIN hs : m # n => AddLine(hs, n, info)[m] = hs[m]
<1> DEFINE g == AddLine(hs, n, info)
<1>1. /\ hs \in [DOMAIN hs -> Seq(Token)] /\ DOMAIN hs \subseteq Names
      /\ \A m \in DOMAIN hs : OneLine(hs[m])
      /\ body \in Seq(Token) /\ Len(body) <= MaxNumber
      /\ ContentLength \in DOMAIN hs => hs[ContentLength] = <<Digits(Len(body))>>
  BY NameFacts DEF WellFormed
<1>2. /\ g = [m \in DOMAIN hs \union {n} |-> IF m = n THEN info ELSE hs[m]]
      /\ DOMAIN g = DOMAIN hs \union {n}
  BY DEF AddLine
<1> HIDE DEF g
<1>3. g[n] = info /\ \A m \in DOMAIN hs \ {n} : g[m] = hs[m]
  BY <1>2
<1>4. \A m \in DOMAIN g : g[m] \in Seq(Token) /\ OneLine(g[m])
  BY <1>1, <1>2, <1>3
<1>5. g \in [DOMAIN g -> Seq(Token)]
  BY <1>2, <1>4
<1>6. ContentLength \in DOMAIN g => g[ContentLength] = <<Digits(Len(body))>>
  <2> DEFINE w == <<Digits(Len(body))>>
  <2> HIDE DEF w
  <2>1. (n = ContentLength => info = w) /\ (ContentLength \in DOMAIN hs => hs[ContentLength] = w)
    BY <1>1 DEF w, LengthOf
  <2>2. ContentLength \in DOMAIN g => g[ContentLength] = w
    BY <1>2, <1>3, <2>1
  <2> QED BY <2>2 DEF w
<1>7. DOMAIN g \subseteq Names
  BY <1>1, <1>2
<1>8. WellFormed(g, body)
  BY <1>1, <1>4, <1>5, <1>6, <1>7, NameFacts DEF WellFormed
<1> QED
  BY <1>2, <1>3, <1>8 DEF g

LEMMA LengthenedFacts ==
    ASSUME NEW hs, NEW body, WellFormed(hs, body)
    PROVE  /\ Complete(Lengthened(hs, body), body)
           /\ Connection \in DOMAIN Lengthened(hs, body) <=> Connection \in DOMAIN hs
           /\ Connection \in DOMAIN hs => Lengthened(hs, body)[Connection] = hs[Connection]
<1>1. CASE ContentLength \notin DOMAIN hs /\ body # <<>>
  <2> DEFINE info == <<Digits(Len(body))>>
             g == AddLine(hs, ContentLength, info)
  <2>1. Len(body) \in 0 .. MaxNumber
    BY DEF WellFormed
  <2>2. info \in Seq(Token) /\ OneLine(info) /\ ContentLength \in Names
    BY <2>1, LengthLine DEF Names
  <2>3. info = LengthOf(body)
    BY DEF LengthOf
  <2> HIDE DEF info
  <2>4. /\ WellFormed(g, body) /\ DOMAIN g = DOMAIN hs \union {ContentLength}
        /\ \A m \in DOMAIN hs : m # ContentLength => g[m] = hs[m]
    <3>1. WellFormed(g, body)
      BY <2>2, <2>3, AddedLine
    <3>2. DOMAIN g = DOMAIN hs \union {ContentLength}
      BY <2>2, <2>3, AddedLine
    <3>3. \A m \in DOMAIN hs : m # ContentLength => g[m] = hs[m]
      BY <2>2, <2>3, AddedLine
    <3> QED BY <3>1, <3>2, <3>3
  <2>5. Lengthened(hs, body) = g
    BY <1>1 DEF Lengthened, info
  <2> HIDE DEF g
  <2> QED BY <2>4, <2>5, NameFacts DEF Complete
<1>2. CASE ~(ContentLength \notin DOMAIN hs /\ body # <<>>)
  <2>1. Lengthened(hs, body) = hs
    BY <1>2 DEF Lengthened
  <2> QED BY <1>2, <2>1 DEF Complete
<1> QED
  BY <1>1, <1>2

LEMMA RequestLengthened ==
    ASSUME NEW r, IsRequest(r)
    PROVE  WithLength(r) = [method  |-> r.method, target |-> r.target, version |-> r.version,
                            headers |-> Lengthened(r.headers, r.body), body |-> r.body]
<1>1. r = [method  |-> r.method, target |-> r.target, version |-> r.version,
           headers |-> r.headers, body |-> r.body]
  BY DEF IsRequest
<1> DEFINE g == AddLine(r.headers, ContentLength, <<Digits(Len(r.body))>>)
<1> HIDE DEF g
<1>2. [r EXCEPT !.headers = g] =
        [method  |-> r.method, target |-> r.target, version |-> r.version,
         headers |-> g, body |-> r.body]
  BY <1>1
<1> QED
  BY <1>1, <1>2 DEF WithLength, Lengthened, g

LEMMA WholePrefix ==
    ASSUME NEW S, NEW s \in Seq(S)
    PROVE  Prefix(s, Len(s)) = s
<1>1. Len(s) \in 0 .. Len(s)
  OBVIOUS
<1>2. /\ Prefix(s, Len(s)) \in Seq(S) /\ Len(Prefix(s, Len(s))) = Len(s)
      /\ \A i \in 1 .. Len(s) : Prefix(s, Len(s))[i] = s[i]
  BY <1>1, PrefixFacts
<1> QED
  BY <1>2, SeqEqual

\* A request is read when its text is whole, and it is the one that was sent.
LEMMA RequestTravels ==
    ASSUME NEW r, IsRequest(r), NEW text, text = RequestText(r)
    PROVE  /\ text \in Seq(Token) /\ Len(text) >= 2
           /\ \A k \in 0 .. Len(text) : RequestParses(Prefix(text, k)) <=> k = Len(text)
           /\ RequestOf(text) = WithLength(r)
<1> DEFINE line == RequestLine(r)
           hs == Lengthened(r.headers, r.body)
           body == r.body
<1>1. RequestLineHas(line, r)
  BY RequestLineFacts
<1>2. WithLength(r) = [method  |-> r.method, target |-> r.target, version |-> r.version,
                       headers |-> hs, body |-> body]
  BY RequestLengthened
<1>3. FirstLine(line)
  BY <1>1, RequestLineFirst
<1>4. Complete(hs, body)
  BY LengthenedFacts DEF IsRequest
<1>5. text = TextOf(line, hs, body)
  <2>1. WithLength(r).headers = hs
    <3> HIDE DEF hs, body
    <3> QED BY <1>2
  <2> QED BY <2>1 DEF RequestText, TextOf
<1> HIDE DEF line, hs, body
<1>6. Travels(text, line, hs, body)
  BY <1>3, <1>4, <1>5, TextTravels
<1>7. /\ text \in Seq(Token) /\ Len(line) \in 2 .. Len(text)
      /\ \A i \in 1 .. Len(line) : text[i] = line[i]
      /\ LineEnd(text, 1) = Len(line) /\ Headers(text) = hs /\ Body(text) = body
      /\ \A k \in 0 .. Len(text) : RestParses(Prefix(text, k)) <=> k = Len(text)
  BY <1>6 DEF Travels
<1>8. /\ FirstBlank(text) = 2 /\ SecondBlank(text) = Len(r.target) + 3
      /\ RequestSlash(text) = Len(r.target) + 5 /\ Len(r.target) \in Nat
      /\ text[1] = r.method /\ text[Len(r.target) + 5 + 1] = r.version
      /\ SubSeq(text, 2 + 1, Len(r.target) + 3 - 1) = r.target
  BY <1>1, <1>7, RequestPlaces
<1>9. RequestOf(text) = WithLength(r)
  <2>1. SubSeq(text, FirstBlank(text) + 1, SecondBlank(text) - 1) = r.target
    BY <1>8
  <2>2. text[RequestSlash(text) + 1] = r.version
    BY <1>8
  <2> QED BY <1>2, <1>7, <1>8, <2>1, <2>2 DEF RequestOf
<1>10. RequestParses(text)
  <2>1. Prefix(text, Len(text)) = text /\ Len(text) \in 0 .. Len(text)
    BY <1>7, WholePrefix
  <2>2. RestParses(text)
    BY <1>7, <2>1
  <2>3. Len(line) # 0 /\ Len(r.target) + 3 # 0 /\ Len(r.target) + 5 # 0
    BY <1>7, <1>8
  <2> QED BY <1>7, <1>8, <2>2, <2>3 DEF RequestParses
<1>11. ASSUME NEW k \in 0 .. Len(text)
       PROVE  RequestParses(Prefix(text, k)) <=> k = Len(text)
  <2>1. RequestParses(Prefix(text, k)) => RestParses(Prefix(text, k))
    BY DEF RequestParses
  <2>2. Prefix(text, Len(text)) = text
    BY <1>7, WholePrefix
  <2> QED BY <1>7, <1>10, <2>1, <2>2
<1>12. Len(text) >= 2
  BY <1>7
<1> QED
  BY <1>7, <1>9, <1>11, <1>12

-----------------------------------------------------------------------------
(* Responses *)

IsResponse(a) ==
    /\ a = [version |-> a.version, status |-> a.status, headers |-> a.headers,
            body    |-> a.body]
    /\ IsWord(a.version) /\ a.status \in StatusCode
    /\ WellFormed(a.headers, a.body)

LEMMA StatusFacts ==
    ASSUME NEW code \in StatusCode
    PROVE  /\ IsWord(Digits(code))
           /\ \A c \in StatusCode : Digits(c) = Digits(code) => c = code
<1>1. \A c \in StatusCode : c \in 0 .. 599
  BY DEF StatusCode
<1>2. code \in 0 .. 599
  BY <1>1
<1>3. \A m \in 0 .. 599 : IsWord(Digits(m))
  BY DigitsAssumption
<1>4. \A m, n \in 0 .. 599 : Digits(m) = Digits(n) => m = n
  BY DigitsAssumption
<1> QED
  BY <1>1, <1>2, <1>3, <1>4

LEMMA CodeMessageFacts ==
    ASSUME NEW code
    PROVE  OneLine(CodeMessage(code)) /\ CodeMessage(code) \in Seq(Token)
<1>1. OneLine(<<>>)
  BY DEF OneLine
<1>2. OneLine(<<"Word">>)
  <2> DEFINE w == <<"Word">>
  <2>1. w \in Seq(Token) /\ DOMAIN w = 1 .. 1 /\ w[1] # CRLF
    BY TokenAssumption DEF CRLF
  <2> HIDE DEF w
  <2>2. OneLine(w)
    BY <2>1 DEF OneLine
  <2> QED BY <2>2 DEF w
<1>3. OneLine(<<"Two", Blank, "Words">>)
  <2> DEFINE w == <<"Two", Blank, "Words">>
  <2>1. /\ w \in Seq(Token) /\ DOMAIN w = 1 .. 3
        /\ w[1] # CRLF /\ w[2] # CRLF /\ w[3] # CRLF
    <3>1. "Two" \in Token /\ "Words" \in Token /\ "Two" # CRLF /\ "Words" # CRLF
      BY TokenAssumption DEF CRLF
    <3>2. Blank \in Token /\ Blank # CRLF
      BY NameFacts
    <3> QED BY <3>1, <3>2
  <2> HIDE DEF w
  <2>2. OneLine(w)
    BY <2>1 DEF OneLine
  <2> QED BY <2>2 DEF w
<1>4. OneLine(CodeMessage(code))
  BY <1>1, <1>2, <1>3 DEF CodeMessage
<1> QED
  BY <1>4 DEF OneLine

\* A status line whose words for the status are T tokens.
StatusLineHas(line, a, T) ==
    /\ T \in Nat /\ line \in Seq(Token) /\ Len(line) = T + 7
    /\ line[1] = "HTTP" /\ line[2] = Slash /\ line[3] = a.version
    /\ line[4] = Blank /\ line[5] = Digits(a.status) /\ line[6] = Blank
    /\ \A i \in 1 .. T : line[6 + i] # CRLF
    /\ line[T + 7] = CRLF

LEMMA StatusLineFacts ==
    ASSUME NEW a, IsResponse(a)
    PROVE  StatusLineHas(StatusLine(a), a, Len(CodeMessage(a.status)))
<1> DEFINE s == <<"HTTP", Slash, a.version, Blank, Digits(a.status), Blank>>
           t == CodeMessage(a.status)
           b == <<CRLF>>
           c == s \o t
           d == c \o b
<1>1. /\ a.version \in Token /\ Digits(a.status) \in Token /\ t \in Seq(Token)
      /\ \A i \in 1 .. Len(t) : t[i] # CRLF
  BY StatusFacts, CodeMessageFacts DEF IsResponse, IsWord, OneLine
<1>2. Blank \in Token /\ Slash \in Token /\ CRLF \in Token /\ "HTTP" \in Token
  BY TokenAssumption
<1>3. /\ s \in Seq(Token) /\ Len(s) = 6 /\ s[1] = "HTTP" /\ s[2] = Slash
      /\ s[3] = a.version /\ s[4] = Blank /\ s[5] = Digits(a.status) /\ s[6] = Blank
  BY <1>1, <1>2
<1>4. b \in Seq(Token) /\ Len(b) = 1 /\ b[1] = CRLF
  BY <1>2
<1>10. StatusLine(a) = d
  BY DEF StatusLine
<1> HIDE DEF s, b, t
<1>5. s \in Seq(Token) /\ b \in Seq(Token) /\ t \in Seq(Token)
  BY <1>1, <1>3, <1>4
<1>6. /\ c \in Seq(Token) /\ Len(c) = Len(s) + Len(t) /\ Len(t) \in Nat
      /\ \A i \in 1 .. Len(s) : c[i] = s[i]
      /\ \A i \in 1 .. Len(t) : c[Len(s) + i] = t[i]
  BY <1>5, ConcatFacts
<1> HIDE DEF c
<1>7. c \in Seq(Token)
  BY <1>6
<1>8. /\ d \in Seq(Token) /\ Len(d) = Len(c) + Len(b)
      /\ \A i \in 1 .. Len(c) : d[i] = c[i]
      /\ \A i \in 1 .. Len(b) : d[Len(c) + i] = b[i]
  BY <1>5, <1>7, ConcatFacts
<1> HIDE DEF d
<1>9. Len(c) = 6 + Len(t) /\ Len(d) = Len(t) + 7
  BY <1>3, <1>4, <1>6, <1>8
<1>11. \A i \in 1 .. 6 : d[i] = s[i]
  BY <1>3, <1>6, <1>8, <1>9
<1>12. /\ d[1] = "HTTP" /\ d[2] = Slash /\ d[3] = a.version
       /\ d[4] = Blank /\ d[5] = Digits(a.status) /\ d[6] = Blank
  <2>1. 1 \in 1 .. 6 /\ 2 \in 1 .. 6 /\ 3 \in 1 .. 6 /\ 4 \in 1 .. 6 /\ 5 \in 1 .. 6 /\ 6 \in 1 .. 6
    OBVIOUS
  <2> QED BY <1>3, <1>11, <2>1
<1>13. \A i \in 1 .. Len(t) : d[6 + i] # CRLF
  <2> TAKE i \in 1 .. Len(t)
  <2>1. 6 + i \in 1 .. Len(c) /\ c[6 + i] = t[i]
    BY <1>3, <1>6, <1>9
  <2> QED BY <1>1, <1>8, <2>1
<1>14. d[Len(t) + 7] = CRLF
  <2>1. d[Len(c) + 1] = b[1] /\ Len(c) + 1 = Len(t) + 7
    BY <1>4, <1>6, <1>8, <1>9
  <2> QED BY <1>4, <2>1
<1>15. StatusLineHas(d, a, Len(t))
  BY <1>6, <1>8, <1>9, <1>12, <1>13, <1>14 DEF StatusLineHas
<1> QED
  BY <1>10, <1>15 DEF t

LEMMA StatusLineFirst ==
    ASSUME NEW a, IsWord(a.version), a.status \in StatusCode,
           NEW line, NEW T, StatusLineHas(line, a, T)
    PROVE  FirstLine(line)
<1>1. /\ T \in Nat /\ line \in Seq(Token) /\ Len(line) = T + 7
      /\ line[1] = "HTTP" /\ line[2] = Slash /\ line[3] = a.version
      /\ line[4] = Blank /\ line[5] = Digits(a.status) /\ line[6] = Blank
      /\ \A i \in 1 .. T : line[6 + i] # CRLF
      /\ line[T + 7] = CRLF
  BY DEF StatusLineHas
<1>2. /\ a.version # CRLF /\ Digits(a.status) # CRLF /\ Blank # CRLF /\ Slash # CRLF
      /\ "HTTP" # CRLF
  BY StatusFacts, NameFacts DEF IsWord, CRLF
<1>3. ASSUME NEW i \in 1 .. T + 6 PROVE line[i] # CRLF
  <2>1. CASE i \in 7 .. T + 6
    <3>1. i - 6 \in 1 .. T /\ 6 + (i - 6) = i
      BY <1>1, <2>1
    <3> QED BY <1>1, <3>1
  <2>2. CASE i \in {1, 2, 3, 4, 5, 6}
    BY <1>1, <1>2, <2>2
  <2> QED BY <1>1, <2>1, <2>2
<1>4. Len(line) - 1 = T + 6 /\ Len(line) >= 2
  BY <1>1
<1> QED
  BY <1>1, <1>3, <1>4 DEF FirstLine

LEMMA ResponsePlaces ==
    ASSUME NEW a, IsWord(a.version), a.status \in StatusCode,
           NEW line, NEW T, StatusLineHas(line, a, T), NEW text \in Seq(Token),
           Len(line) \in 2 .. Len(text), \A i \in 1 .. Len(line) : text[i] = line[i],
           LineEnd(text, 1) = Len(line)
    PROVE  /\ FirstBlank(text) = 4 /\ SecondBlank(text) = 6 /\ ResponseSlash(text) = 2
           /\ text[3] = a.version /\ text[5] = Digits(a.status)
<1>1. /\ T \in Nat /\ line \in Seq(Token) /\ Len(line) = T + 7
      /\ line[1] = "HTTP" /\ line[2] = Slash /\ line[3] = a.version
      /\ line[4] = Blank /\ line[5] = Digits(a.status) /\ line[6] = Blank
  BY DEF StatusLineHas
<1>2. /\ a.version # Blank /\ Digits(a.status) # Blank /\ Slash # Blank
      /\ "HTTP" # Blank /\ "HTTP" # Slash
  BY StatusFacts, NameFacts DEF IsWord, Blank, Slash
<1>3. \A i \in 1 .. 6 : text[i] = line[i]
  BY <1>1
<1>4. /\ text[1] = "HTTP" /\ text[2] = Slash /\ text[3] = a.version
      /\ text[4] = Blank /\ text[5] = Digits(a.status) /\ text[6] = Blank
  <2>1. 1 \in 1 .. 6 /\ 2 \in 1 .. 6 /\ 3 \in 1 .. 6 /\ 4 \in 1 .. 6 /\ 5 \in 1 .. 6 /\ 6 \in 1 .. 6
    OBVIOUS
  <2> QED BY <1>1, <1>3, <2>1
<1>5. T + 7 \in Nat /\ 2 \in 1 .. (T + 7) - 1 /\ 4 \in 1 .. (T + 7) - 1 /\ 6 \in 4 + 1 .. (T + 7) - 1
  BY <1>1
<1> DEFINE to == T + 7
<1>6. /\ LineEnd(text, 1) = to /\ to \in Nat
      /\ 2 \in 1 .. to - 1 /\ 4 \in 1 .. to - 1 /\ 6 \in 4 + 1 .. to - 1
  BY <1>1, <1>5
<1> HIDE DEF to
<1>7. FirstBlank(text) = 4
  <2>1. \A j \in 1 .. 4 - 1 : j = 1 \/ j = 2 \/ j = 3
    OBVIOUS
  <2>2. \A j \in 1 .. 4 - 1 : text[j] # Blank
    BY <1>2, <1>4, <2>1
  <2>3. Find(text, Blank, 1, to) = 4
    BY <1>4, <1>6, <2>2, FindFirst
  <2> QED BY <1>6, <2>3 DEF FirstBlank
<1>8. SecondBlank(text) = 6
  <2>1. \A j \in 4 + 1 .. 6 - 1 : j = 5
    OBVIOUS
  <2>2. \A j \in 4 + 1 .. 6 - 1 : text[j] # Blank
    BY <1>2, <1>4, <2>1
  <2>3. Find(text, Blank, 4 + 1, to) = 6
    BY <1>4, <1>6, <2>2, FindFirst
  <2> QED BY <1>6, <1>7, <2>3 DEF SecondBlank
<1>9. ResponseSlash(text) = 2
  <2>1. \A j \in 1 .. 2 - 1 : j = 1
    OBVIOUS
  <2>2. \A j \in 1 .. 2 - 1 : text[j] # Slash
    BY <1>2, <1>4, <2>1
  <2>3. Find(text, Slash, 1, to) = 2
    BY <1>4, <1>6, <2>2, FindFirst
  <2> QED BY <1>6, <2>3 DEF ResponseSlash
<1> QED
  BY <1>4, <1>7, <1>8, <1>9

LEMMA ResponseLengthened ==
    ASSUME NEW a, IsResponse(a)
    PROVE  WithLength(a) = [version |-> a.version, status |-> a.status,
                            headers |-> Lengthened(a.headers, a.body), body |-> a.body]
<1>1. a = [version |-> a.version, status |-> a.status, headers |-> a.headers,
           body    |-> a.body]
  BY DEF IsResponse
<1> DEFINE g == AddLine(a.headers, ContentLength, <<Digits(Len(a.body))>>)
<1> HIDE DEF g
<1>2. [a EXCEPT !.headers = g] =
        [version |-> a.version, status |-> a.status, headers |-> g, body |-> a.body]
  BY <1>1
<1> QED
  BY <1>1, <1>2 DEF WithLength, Lengthened, g

\* So is a response.
LEMMA ResponseTravels ==
    ASSUME NEW a, IsResponse(a), NEW text, text = ResponseText(a)
    PROVE  /\ text \in Seq(Token) /\ Len(text) >= 2
           /\ \A k \in 0 .. Len(text) : ResponseParses(Prefix(text, k)) <=> k = Len(text)
           /\ ResponseOf(text) = WithLength(a)
<1> DEFINE line == StatusLine(a)
           hs == Lengthened(a.headers, a.body)
           body == a.body
<1>1. StatusLineHas(line, a, Len(CodeMessage(a.status)))
  BY StatusLineFacts
<1>0. IsWord(a.version) /\ a.status \in StatusCode
  BY DEF IsResponse
<1>2. WithLength(a) = [version |-> a.version, status |-> a.status, headers |-> hs, body |-> body]
  BY ResponseLengthened
<1>3. FirstLine(line)
  BY <1>0, <1>1, StatusLineFirst
<1>4. Complete(hs, body)
  BY LengthenedFacts DEF IsResponse
<1>5. text = TextOf(line, hs, body)
  <2>1. WithLength(a).headers = hs
    <3> HIDE DEF hs, body
    <3> QED BY <1>2
  <2> QED BY <2>1 DEF ResponseText, TextOf
<1> HIDE DEF line, hs, body
<1>6. Travels(text, line, hs, body)
  BY <1>3, <1>4, <1>5, TextTravels
<1>7. /\ text \in Seq(Token) /\ Len(line) \in 2 .. Len(text)
      /\ \A i \in 1 .. Len(line) : text[i] = line[i]
      /\ LineEnd(text, 1) = Len(line) /\ Headers(text) = hs /\ Body(text) = body
      /\ \A k \in 0 .. Len(text) : RestParses(Prefix(text, k)) <=> k = Len(text)
  BY <1>6 DEF Travels
<1>8. /\ FirstBlank(text) = 4 /\ SecondBlank(text) = 6 /\ ResponseSlash(text) = 2
      /\ text[3] = a.version /\ text[5] = Digits(a.status)
  BY <1>0, <1>1, <1>7, ResponsePlaces
<1>9. /\ a.status \in StatusCode
      /\ \A c \in StatusCode : Digits(c) = Digits(a.status) => c = a.status
  BY StatusFacts DEF IsResponse
<1>10. ResponseOf(text) = WithLength(a)
  <2>1. (CHOOSE code \in StatusCode : Digits(code) = text[FirstBlank(text) + 1]) = a.status
    BY <1>8, <1>9
  <2>2. text[ResponseSlash(text) + 1] = a.version
    BY <1>8
  <2> QED BY <1>2, <1>7, <2>1, <2>2 DEF ResponseOf
<1>11. ResponseParses(text)
  <2>1. Prefix(text, Len(text)) = text /\ Len(text) \in 0 .. Len(text)
    BY <1>7, WholePrefix
  <2>2. RestParses(text) /\ Len(line) # 0
    BY <1>7, <2>1
  <2>3. IsStatus(text[FirstBlank(text) + 1])
    BY <1>8, <1>9 DEF IsStatus
  <2> QED BY <1>7, <1>8, <2>2, <2>3 DEF ResponseParses
<1>12. ASSUME NEW k \in 0 .. Len(text)
       PROVE  ResponseParses(Prefix(text, k)) <=> k = Len(text)
  <2>1. ResponseParses(Prefix(text, k)) => RestParses(Prefix(text, k))
    BY DEF ResponseParses
  <2>2. Prefix(text, Len(text)) = text
    BY <1>7, WholePrefix
  <2> QED BY <1>7, <1>11, <2>1, <2>2
<1>13. Len(text) >= 2
  BY <1>7
<1> QED
  BY <1>7, <1>10, <1>12, <1>13

-----------------------------------------------------------------------------
(* Services *)

LEMMA PlainFacts ==
    ASSUME NEW status \in StatusCode, NEW body \in Seq(Token), Len(body) <= MaxNumber
    PROVE  IsResponse([Plain(status) EXCEPT !.body = body]) /\ IsResponse(Plain(status))
<1> DEFINE hs == [name \in {Server} |-> <<"MyFileServer">>]
<1>1. /\ DOMAIN hs = {Server}
      /\ hs[Server] = <<"MyFileServer">>
  OBVIOUS
<1>2. /\ <<"MyFileServer">> \in Seq(Token) /\ OneLine(<<"MyFileServer">>)
  <2> DEFINE w == <<"MyFileServer">>
  <2>1. w \in Seq(Token) /\ DOMAIN w = 1 .. 1 /\ w[1] # CRLF
    BY TokenAssumption DEF CRLF
  <2> HIDE DEF w
  <2>2. OneLine(w)
    BY <2>1 DEF OneLine
  <2> QED BY <2>1, <2>2 DEF w
<1>3. hs \in [DOMAIN hs -> Seq(Token)]
  BY <1>2
<1> HIDE DEF hs
<1>4. WellFormed(hs, body) /\ WellFormed(hs, <<>>)
  <2>1. DOMAIN hs \subseteq Names /\ ContentLength \notin DOMAIN hs
    BY <1>1, NameFacts DEF Names
  <2>2. <<>> \in Seq(Token) /\ Len(<<>>) <= MaxNumber
    BY DEF MaxNumber
  <2> QED BY <1>1, <1>2, <1>3, <2>1, <2>2, NameFacts DEF WellFormed
<1>5. IsWord("1.1")
  BY TokenAssumption DEF IsWord, CRLF, Colon, Blank, Slash
<1>6. Plain(status) = [version |-> "1.1", status |-> status, body |-> <<>>, headers |-> hs]
  BY DEF Plain, hs
<1>7. [Plain(status) EXCEPT !.body = body] =
        [version |-> "1.1", status |-> status, body |-> body, headers |-> hs]
  BY <1>6
<1>8. IsResponse(Plain(status))
  BY <1>4, <1>5, <1>6 DEF IsResponse
<1>9. IsResponse([Plain(status) EXCEPT !.body = body])
  <2> DEFINE a == [Plain(status) EXCEPT !.body = body]
  <2>1. a = [version |-> "1.1", status |-> status, body |-> body, headers |-> hs]
    BY <1>7
  <2> HIDE DEF a
  <2>2. IsResponse(a)
    BY <1>4, <1>5, <2>1 DEF IsResponse
  <2> QED BY <2>2 DEF a
<1> QED
  BY <1>8, <1>9

LEMMA FileAnswers ==
    ASSUME NEW request
    PROVE  IsResponse(FileAnswer(request))
<1> DEFINE key == Scan(Suffix(request.target, 2))
<1>1. key \in 0 .. MaxNumber
  <2> DEFINE w == Suffix(request.target, 2)
  <2> HIDE DEF w
  <2>1. Scan(w) \in 0 .. MaxNumber
    BY DEF Scan, MaxNumber
  <2> QED BY <2>1 DEF w
<1> HIDE DEF key
<1>2. 200 \in StatusCode /\ 404 \in StatusCode
  BY DEF StatusCode
<1>3. IsResponse(Plain(404))
  <2>1. <<>> \in Seq(Token) /\ Len(<<>>) <= MaxNumber
    BY DEF MaxNumber
  <2> QED BY <1>2, <2>1, PlainFacts
<1>4. ASSUME ~(key >= Len(Entries))
      PROVE  IsResponse([Plain(200) EXCEPT !.body = <<Digits(key), Blank>> \o Entries[key + 1]])
  <2> DEFINE e == Entries[key + 1]
             d == <<Digits(key), Blank>>
  <2>1. key + 1 \in DOMAIN Entries
    BY <1>1, <1>4, ExchangeAssumption
  <2>2. e \in Seq(Token) /\ Len(e) + 2 <= MaxNumber
    BY <2>1, ExchangeAssumption
  <2>3. Digits(key) \in Token /\ Blank \in Token
    <3>1. key \in 0 .. 599
      BY <1>1 DEF MaxNumber
    <3> QED BY <3>1, DigitsAssumption, NameFacts DEF IsWord
  <2>4. d \in Seq(Token) /\ Len(d) = 2
    BY <2>3
  <2> HIDE DEF d, e
  <2>5. d \o e \in Seq(Token) /\ Len(d \o e) = Len(d) + Len(e) /\ Len(e) \in Nat
    <3>1. d \in Seq(Token) /\ e \in Seq(Token)
      BY <2>2, <2>4
    <3> QED BY <3>1, ConcatFacts
  <2> DEFINE b == d \o e
  <2>6. b \in Seq(Token) /\ Len(b) <= MaxNumber
    BY <2>2, <2>4, <2>5
  <2> HIDE DEF b
  <2>7. IsResponse([Plain(200) EXCEPT !.body = b])
    BY <1>2, <2>6, PlainFacts
  <2> QED BY <2>7 DEF b, d, e
<1> QED
  BY <1>3, <1>4 DEF FileAnswer, key

\* The answer that the examples parse from their text.
CannedHeaders == [name \in {ContentLength} |-> <<"5">>]

LEMMA CannedTokens ==
    /\ CannedText \in Seq(Token) /\ Len(CannedText) = 18
    /\ CannedText[1] = "HTTP" /\ CannedText[2] = Slash /\ CannedText[3] = "1.1"
    /\ CannedText[4] = Blank /\ CannedText[5] = "200" /\ CannedText[6] = Blank
    /\ CannedText[7] = "OK" /\ CannedText[8] = CRLF /\ CannedText[9] = ContentLength
    /\ CannedText[10] = Colon /\ CannedText[11] = "5" /\ CannedText[12] = CRLF
    /\ CannedText[13] = CRLF
<1>1. /\ CRLF \in Token /\ Colon \in Token /\ Blank \in Token /\ Slash \in Token
      /\ ContentLength \in Token
  BY TokenAssumption
<1>2. /\ "HTTP" \in Token /\ "1.1" \in Token /\ "OK" \in Token /\ "A" \in Token
      /\ "B" \in Token /\ "C" \in Token /\ "D" \in Token /\ "E" \in Token
  BY TokenAssumption
<1>3. "5" \in Token /\ "200" \in Token
  <2>1. IsWord(Digits(5)) /\ IsWord(Digits(200)) /\ Digits(5) = "5" /\ Digits(200) = "200"
    <3>1. 5 \in 0 .. 599 /\ 200 \in 0 .. 599
      OBVIOUS
    <3> QED BY <3>1, DigitsAssumption
  <2> QED BY <2>1 DEF IsWord
<1>4. CannedText \in Seq(Token)
  BY <1>1, <1>2, <1>3 DEF CannedText
<1> QED
  BY <1>4 DEF CannedText

LEMMA CannedWords ==
    /\ "HTTP" # CRLF /\ "1.1" # CRLF /\ "200" # CRLF /\ "OK" # CRLF /\ "5" # CRLF
    /\ Slash # CRLF /\ Blank # CRLF /\ Colon # CRLF /\ ContentLength # CRLF
BY DEF CRLF, Slash, Blank, Colon, ContentLength

LEMMA CannedHead ==
    ASSUME NEW head \in Seq(Token), Len(head) = 12,
           \A i \in 1 .. 12 : head[i] = CannedText[i]
    PROVE  HeadPart(head, 8, CannedHeaders, {ContentLength})
<1>1. /\ head[1] = "HTTP" /\ head[2] = Slash /\ head[3] = "1.1" /\ head[4] = Blank
      /\ head[5] = "200" /\ head[6] = Blank /\ head[7] = "OK" /\ head[8] = CRLF
      /\ head[9] = ContentLength /\ head[10] = Colon /\ head[11] = "5" /\ head[12] = CRLF
  BY CannedTokens
<1>2. \A i \in 1 .. 12 : head[i] = CRLF => i = 8 \/ i = 12
  <2> TAKE i \in 1 .. 12
  <2>1. CASE i \in {1, 2, 3, 4, 5, 6, 7}
    BY <1>1, <2>1, CannedWords
  <2>2. CASE i \in {9, 10, 11}
    BY <1>1, <2>2, CannedWords
  <2> QED BY <2>1, <2>2
<1>3. \A i : StartsLine(head, 8, i) <=> i = 9
  <2> TAKE i
  <2>1. ASSUME StartsLine(head, 8, i) PROVE i = 9
    <3>1. i \in 9 .. 12 /\ head[i - 1] = CRLF
      BY <2>1 DEF StartsLine
    <3>2. i - 1 \in 1 .. 12
      BY <3>1
    <3> QED BY <1>2, <3>1, <3>2
  <2>2. StartsLine(head, 8, 9)
    BY <1>1 DEF StartsLine
  <2> QED BY <2>1, <2>2
<1>4. ASSUME NEW i \in 2 .. 12 PROVE ~IsEmptyLine(head, i)
  <2>1. i \in 1 .. 12 /\ i - 1 \in 1 .. 12
    OBVIOUS
  <2>2. head[i] = CRLF => i = 8 \/ i = 12
    BY <1>2, <2>1
  <2>3. head[i - 1] = CRLF => i - 1 = 8 \/ i - 1 = 12
    BY <1>2, <2>1
  <2> QED BY <2>1, <2>2, <2>3 DEF IsEmptyLine
<1>5. CannedHeaders[ContentLength] = <<"5">>
  BY DEF CannedHeaders
<1>6. SubSeq(head, 9 + 2, 12 - 1) = <<"5">>
  <2> DEFINE v == SubSeq(head, 11, 11)
             w == <<"5">>
  <2>1. /\ v \in Seq(Token) /\ Len(v) = 11 - 11 + 1
        /\ \A i \in 1 .. 11 - 11 + 1 : v[i] = head[11 + i - 1]
    <3>1. 11 \in 1 .. Len(head) + 1 /\ 11 \in 11 - 1 .. Len(head)
      OBVIOUS
    <3> QED BY <3>1, SubSeqFacts
  <2>2. w \in Seq({"5"}) /\ Len(w) = 1 /\ w[1] = "5"
    OBVIOUS
  <2> HIDE DEF v, w
  <2>3. Len(v) = Len(w) /\ \A i \in 1 .. Len(v) : v[i] = w[i]
    <3>1. \A i \in 1 .. 1 : i = 1 /\ 11 + i - 1 = 11
      OBVIOUS
    <3> QED BY <1>1, <2>1, <2>2, <3>1
  <2>4. v = w
    BY <2>1, <2>2, <2>3, SeqEqual
  <2> QED BY <2>4 DEF v, w
<1>7. LineAt(head, 9, 12, <<"5">>)
  <2>1. \A j \in 9 .. 12 - 1 : head[j] # CRLF
    <3> TAKE j \in 9 .. 12 - 1
    <3>1. j \in 1 .. 12 /\ j # 8 /\ j # 12
      OBVIOUS
    <3> QED BY <1>2, <3>1
  <2>2. head[9 + 1] = Colon
    BY <1>1
  <2> QED BY <1>1, <1>6, <2>1, <2>2 DEF LineAt
<1>8. \A i \in 1 .. 8 - 1 : head[i] # CRLF
  <2> TAKE i \in 1 .. 8 - 1
  <2>1. i \in 1 .. 12 /\ i # 8 /\ i # 12
    OBVIOUS
  <2> QED BY <1>2, <2>1
<1>9. ASSUME NEW i, StartsLine(head, 8, i)
      PROVE  /\ head[i] \in {ContentLength}
             /\ \E e \in i + 2 .. Len(head) : LineAt(head, i, e, CannedHeaders[head[i]])
  <2>1. i = 9 /\ head[i] = ContentLength
    BY <1>1, <1>3, <1>9
  <2>2. 12 \in i + 2 .. Len(head) /\ LineAt(head, i, 12, CannedHeaders[head[i]])
    BY <1>5, <1>7, <2>1
  <2> QED BY <2>1, <2>2
<1>10. \A n \in {ContentLength} : \E i : StartsLine(head, 8, i) /\ head[i] = n
  BY <1>1, <1>3
<1>11. \A i, j : StartsLine(head, 8, i) /\ StartsLine(head, 8, j) /\ head[i] = head[j] => i = j
  BY <1>3
<1> QED
  BY <1>1, <1>4, <1>8, <1>9, <1>10, <1>11 DEF HeadPart

LEMMA CannedResponse ==
    IsResponse(ResponseOf(CannedText))
<1> DEFINE text == CannedText
           head == Prefix(text, 12)
           body == SubSeq(text, 14, 18)
           line == Prefix(text, 8)
           a == [version |-> "1.1", status |-> 200, headers |-> CannedHeaders, body |-> body]
<1>1. /\ text \in Seq(Token) /\ Len(text) = 18
      /\ text[1] = "HTTP" /\ text[2] = Slash /\ text[3] = "1.1"
      /\ text[4] = Blank /\ text[5] = "200" /\ text[6] = Blank
      /\ text[7] = "OK" /\ text[8] = CRLF /\ text[13] = CRLF
  BY CannedTokens
<1>2. /\ head \in Seq(Token) /\ Len(head) = 12
      /\ \A i \in 1 .. 12 : head[i] = CannedText[i]
  <2>1. 12 \in 0 .. Len(text)
    BY <1>1
  <2> HIDE DEF text
  <2>2. /\ head \in Seq(Token) /\ Len(head) = 12
        /\ \A i \in 1 .. 12 : head[i] = text[i]
    BY <1>1, <2>1, PrefixFacts
  <2> QED BY <2>2 DEF text
<1>3. /\ body \in Seq(Token) /\ Len(body) = 5
      /\ \A i \in 1 .. 5 : body[i] = text[14 + i - 1]
  <2>1. 14 \in 1 .. Len(text) + 1 /\ 18 \in 14 - 1 .. Len(text) /\ 18 - 14 + 1 = 5
    BY <1>1
  <2> HIDE DEF text
  <2> DEFINE m == 14
             n == 18
  <2>2. text \in Seq(Token) /\ m \in 1 .. Len(text) + 1 /\ n \in m - 1 .. Len(text)
    BY <1>1, <2>1
  <2> HIDE DEF m, n
  <2>3. /\ SubSeq(text, m, n) \in Seq(Token) /\ Len(SubSeq(text, m, n)) = n - m + 1
        /\ \A i \in 1 .. n - m + 1 : SubSeq(text, m, n)[i] = text[m + i - 1]
    BY <2>2, SubSeqFacts
  <2> QED BY <2>1, <2>3 DEF m, n
<1>4. /\ line \in Seq(Token) /\ Len(line) = 8 /\ \A i \in 1 .. 8 : line[i] = text[i]
  <2>1. 8 \in 0 .. Len(text)
    BY <1>1
  <2> HIDE DEF text
  <2> QED BY <1>1, <2>1, PrefixFacts
<1>5. HeadPart(head, 8, CannedHeaders, {ContentLength})
  BY <1>2, CannedHead
<1>6. /\ CannedHeaders = [n \in DOMAIN CannedHeaders |-> CannedHeaders[n]]
      /\ DOMAIN CannedHeaders = {ContentLength}
      /\ CannedHeaders[ContentLength] = <<"5">>
  BY DEF CannedHeaders
<1> HIDE DEF text, head, body, line
<1>7. Joined(text, head, body)
  <2>1. \A i \in 1 .. 5 : 12 + 1 + i = 14 + i - 1
    OBVIOUS
  <2>2. \A i \in 1 .. Len(body) : text[Len(head) + 1 + i] = body[i]
    BY <1>2, <1>3, <2>1
  <2>3. \A i \in 1 .. Len(head) : text[i] = head[i]
    BY <1>2 DEF text
  <2>4. Len(text) = Len(head) + 1 + Len(body) /\ text[Len(head) + 1] = CRLF
    BY <1>1, <1>2, <1>3
  <2> QED BY <1>1, <2>2, <2>3, <2>4 DEF Joined
<1>8. Found(text, 8, CannedHeaders, 12 + 1)
  <2>1. DOMAIN CannedHeaders \subseteq Names
    BY <1>6 DEF Names
  <2>2. Found(text, 8, CannedHeaders, Len(head) + 1)
    BY <1>3, <1>5, <1>6, <1>7, <2>1, Parsed
  <2> QED BY <1>2, <2>2
<1>9. Body(text) = body
  <2>1. SubSeq(text, 12 + 1 + 1, Len(text)) = body
    <3>1. 12 + 1 + 1 = 14 /\ Len(text) = 18
      BY <1>1
    <3> QED BY <3>1 DEF body
  <2>2. Headers(text) = CannedHeaders /\ EmptyLine(text) = 12 + 1
    BY <1>8 DEF Found
  <2> QED BY <1>6, <2>1, <2>2 DEF Body
<1>10. a.version = "1.1" /\ a.status = 200 /\ a.headers = CannedHeaders /\ a.body = body
  OBVIOUS
<1> HIDE DEF a
<1>11. IsWord(a.version) /\ a.status \in StatusCode
  <2>1. IsWord("1.1")
    BY TokenAssumption DEF IsWord, CRLF, Colon, Blank, Slash
  <2>2. 200 \in StatusCode
    BY DEF StatusCode
  <2> QED BY <1>10, <2>1, <2>2
<1>12. Digits(200) = "200" /\ Digits(5) = "5"
  BY DigitsAssumption
<1>13. StatusLineHas(line, a, 1)
  <2>1. /\ line[1] = "HTTP" /\ line[2] = Slash /\ line[3] = "1.1"
        /\ line[4] = Blank /\ line[5] = "200" /\ line[6] = Blank
        /\ line[7] = "OK" /\ line[8] = CRLF
    BY <1>1, <1>4
  <2>2. \A i \in 1 .. 1 : line[6 + i] # CRLF
    <3>1. \A i \in 1 .. 1 : 6 + i = 7
      OBVIOUS
    <3> QED BY <2>1, <3>1, CannedWords
  <2>3. 1 + 7 = 8
    OBVIOUS
  <2> QED BY <1>4, <1>10, <1>12, <2>1, <2>2, <2>3 DEF StatusLineHas
<1>14. LineEnd(text, 1) = Len(line) /\ Len(line) \in 2 .. Len(text)
       /\ \A i \in 1 .. Len(line) : text[i] = line[i]
  BY <1>1, <1>4, <1>8 DEF Found
<1>15. FirstBlank(text) = 4 /\ ResponseSlash(text) = 2
  BY <1>1, <1>11, <1>13, <1>14, ResponsePlaces
<1>16. (CHOOSE code \in StatusCode : Digits(code) = text[FirstBlank(text) + 1]) = 200
  <2>1. \A c \in StatusCode : Digits(c) = Digits(200) => c = 200
    BY <1>10, <1>11, StatusFacts
  <2>2. text[FirstBlank(text) + 1] = Digits(200)
    BY <1>1, <1>12, <1>15
  <2> QED BY <1>10, <1>11, <2>1, <2>2
<1>17. text[ResponseSlash(text) + 1] = "1.1"
  BY <1>1, <1>15
<1>18. Headers(text) = CannedHeaders
  BY <1>8 DEF Found
<1>19. ResponseOf(text) = a
  BY <1>9, <1>16, <1>17, <1>18 DEF ResponseOf, a
<1>20. <<"5">> \in Seq(Token) /\ OneLine(<<"5">>)
  <2>1. 5 \in 0 .. MaxNumber
    BY DEF MaxNumber
  <2> QED BY <1>12, <2>1, LengthLine
<1>21. WellFormed(CannedHeaders, body)
  <2>1. CannedHeaders \in [DOMAIN CannedHeaders -> Seq(Token)]
    BY <1>20 DEF CannedHeaders
  <2>2. DOMAIN CannedHeaders \subseteq Names
    BY <1>6 DEF Names
  <2>3. \A name \in DOMAIN CannedHeaders : OneLine(CannedHeaders[name])
    BY <1>6, <1>20
  <2>4. CannedHeaders[ContentLength] = <<Digits(Len(body))>>
    BY <1>3, <1>6, <1>12
  <2>5. Len(body) <= MaxNumber
    BY <1>3 DEF MaxNumber
  <2> QED BY <1>3, <2>1, <2>2, <2>3, <2>4, <2>5, NameFacts DEF WellFormed
<1>22. a = [version |-> a.version, status |-> a.status, headers |-> a.headers, body |-> a.body]
  BY <1>10 DEF a
<1>23. IsResponse(a)
  BY <1>10, <1>11, <1>21, <1>22 DEF IsResponse
<1> QED
  BY <1>19, <1>23 DEF text

LEMMA CannedAnswers ==
    ASSUME NEW request
    PROVE  IsResponse(CannedAnswer(request))
<1> DEFINE a == ResponseOf(CannedText)
           info == <<"Keep-Alive">>
           g == AddLine(a.headers, Connection, info)
           b == [a EXCEPT !.headers = g]
<1>1. IsResponse(a)
  BY CannedResponse
<1>2. info \in Seq(Token) /\ OneLine(info)
  <2>1. info \in Seq(Token) /\ DOMAIN info = 1 .. 1 /\ info[1] # CRLF
    BY TokenAssumption DEF CRLF
  <2> HIDE DEF info
  <2>2. OneLine(info)
    BY <2>1 DEF OneLine
  <2> QED BY <2>1, <2>2
<1>3. CannedAnswer(request) = IF DoKeepAlive(request) THEN b ELSE a
  BY DEF CannedAnswer
<1> HIDE DEF a, info
<1>4. WellFormed(g, a.body)
  <2>1. Connection \in Names /\ Connection # ContentLength
    BY NameFacts DEF Names
  <2>2. WellFormed(a.headers, a.body)
    BY <1>1 DEF IsResponse
  <2> QED BY <1>2, <2>1, <2>2, AddedLine
<1> HIDE DEF g
<1>5. a = [version |-> a.version, status |-> a.status, headers |-> a.headers, body |-> a.body]
  BY <1>1 DEF IsResponse
<1>6. b = [version |-> a.version, status |-> a.status, headers |-> g, body |-> a.body]
  BY <1>5
<1> HIDE DEF b
<1>7. IsResponse(b)
  BY <1>1, <1>4, <1>6 DEF IsResponse
<1> QED
  BY <1>1, <1>3, <1>7

\* Every answer is a response that a text can carry, and no service answers
\* otherwise because a request has been sent.
LEMMA ServiceFacts ==
    ASSUME NEW which, NEW r, IsRequest(r)
    PROVE  /\ IsResponse(OnRequest(which, r))
           /\ OnRequest(which, WithLength(r)) = OnRequest(which, r)
           /\ DoKeepAlive(WithLength(r)) <=> DoKeepAlive(r)
<1>1. IsResponse(OnRequest(which, r))
  BY FileAnswers, CannedAnswers DEF OnRequest
<1> DEFINE w == WithLength(r)
           hs == Lengthened(r.headers, r.body)
<1>2. w = [method  |-> r.method, target |-> r.target, version |-> r.version,
           headers |-> hs, body |-> r.body]
  BY RequestLengthened
<1>3. WellFormed(r.headers, r.body)
  BY DEF IsRequest
<1>4. /\ Connection \in DOMAIN hs <=> Connection \in DOMAIN r.headers
      /\ Connection \in DOMAIN r.headers => hs[Connection] = r.headers[Connection]
  BY <1>3, LengthenedFacts
<1> HIDE DEF w, hs
<1>5. w.headers = hs /\ w.target = r.target
  BY <1>2
<1>6. DoKeepAlive(w) <=> DoKeepAlive(r)
  BY <1>4, <1>5 DEF DoKeepAlive
<1>7. FileAnswer(w) = FileAnswer(r)
  BY <1>5 DEF FileAnswer
<1>8. CannedAnswer(w) = CannedAnswer(r)
  BY <1>6 DEF CannedAnswer
<1> QED
  BY <1>1, <1>6, <1>7, <1>8 DEF OnRequest, w

-----------------------------------------------------------------------------
(* The protocol *)

Question == RequestText(program[asked])
Answer   == ResponseText(OnRequest(service, program[asked]))
Keeps    == DoKeepAlive(program[asked])

Requests == {WithLength(program[i]) : i \in 1 .. Len(program)}
Replies  == {ReplyTo(service, program[i]) : i \in 1 .. Len(program)}

ExchangeTypes ==
    /\ program \in Programs /\ asked \in 0 .. Len(program)
    /\ handled \in Seq(Requests) /\ replies \in Seq(Replies)
    /\ reader \in {"exact", "parse", "end"}
    /\ reader = "end" => \A i \in DOMAIN program : ~DoKeepAlive(program[i])
    /\ pc \in {"connect", "ask", "write", "read", "done", "failed"}
    /\ copc \in {"gone", "read", "write"} /\ peer \in {"open", "closed"}
    /\ msg \in Seq(Token) /\ cobuf \in Seq(Token) /\ coleft \in Seq(Token)
    /\ buffer \in Seq(Token) /\ outbox \in Seq(Token) /\ inbox \in Seq(Token)
    /\ answerSize \in Nat
    /\ opened \in BOOLEAN /\ eagain \in BOOLEAN /\ rst \in BOOLEAN
    /\ cokeep \in BOOLEAN /\ timedout \in BOOLEAN /\ dropped \in BOOLEAN

\* The server reads, or it has dropped the connection.
Listening == copc = "read" /\ peer = "open" /\ ~rst
Dropped   == copc = "gone" /\ peer = "closed" /\ dropped

\* No connection: all that was asked is answered.
Connecting ==
    /\ ~opened /\ (socket = "used" => reader = "end")
    /\ buffer = <<>> /\ copc = "gone"
    /\ Len(handled) = asked /\ Len(replies) = asked

\* Connected, and nothing is under way.
Between ==
    /\ opened /\ socket = "used"
    /\ buffer = <<>> /\ inbox = <<>> /\ outbox = <<>>
    /\ Len(handled) = asked /\ Len(replies) = asked
    /\ (Listening /\ cobuf = <<>>) \/ Dropped

\* A request is cut into what the server has read, what is under way and what
\* the client still has.
Writing ==
    /\ opened /\ socket = "used" /\ asked >= 1
    /\ buffer = <<>> /\ inbox = <<>>
    /\ Len(handled) = asked - 1 /\ Len(replies) = asked - 1
    /\ \/ Listening /\ msg # <<>> /\ (cobuf \o outbox) \o msg = Question
       \/ Dropped

\* So is an answer: not yet begun, in part, complete, or never to be completed
\* because the server has dropped the connection.
Asked ==
    /\ Listening /\ cobuf \o outbox = Question
    /\ buffer = <<>> /\ inbox = <<>> /\ Len(handled) = asked - 1
Answering ==
    /\ copc = "write" /\ peer = "open" /\ ~rst /\ outbox = <<>>
    /\ (buffer \o inbox) \o coleft = Answer /\ coleft # <<>>
    /\ (cokeep <=> Keeps) /\ Len(handled) = asked
Answered ==
    /\ outbox = <<>> /\ ~rst /\ buffer \o inbox = Answer /\ Len(handled) = asked
    /\ \/ copc = "read" /\ peer = "open" /\ cobuf = <<>> /\ Keeps
       \/ copc = "gone" /\ peer = "closed" /\ (Keeps => dropped)
CutShort ==
    /\ Dropped /\ Len(handled) \in {asked - 1, asked}
    /\ \E rest \in Seq(Token) :
          rest # <<>> /\ (buffer \o inbox) \o rest = Answer

Reading ==
    /\ socket = "used" /\ (opened \/ (reader = "end" /\ ResponseParses(buffer)))
    /\ asked >= 1 /\ Len(replies) = asked - 1
    /\ reader = "exact" => Len(buffer) <= answerSize
    /\ Asked \/ Answering \/ Answered \/ CutShort

\* The inductive invariant.
ExchangeInv ==
    /\ ExchangeTypes
    /\ pc = "connect" => Connecting
    /\ pc = "ask" => Between
    /\ pc = "write" => Writing
    /\ pc = "read" => Reading
    /\ FailsForCause

-----------------------------------------------------------------------------
(* What is moved from one place to the next *)

LEMMA SuffixFacts ==
    ASSUME NEW S, NEW s \in Seq(S), NEW n \in 0 .. Len(s)
    PROVE  /\ Suffix(s, n) \in Seq(S) /\ Len(Suffix(s, n)) = Len(s) - n
           /\ \A i \in 1 .. Len(s) - n : Suffix(s, n)[i] = s[n + i]
<1> DEFINE m == n + 1
           k == Len(s)
<1>1. /\ m \in 1 .. Len(s) + 1 /\ k \in m - 1 .. Len(s) /\ k - m + 1 = Len(s) - n
      /\ \A i \in 1 .. Len(s) - n : m + i - 1 = n + i
  OBVIOUS
<1> HIDE DEF m, k
<1>2. /\ SubSeq(s, m, k) \in Seq(S) /\ Len(SubSeq(s, m, k)) = k - m + 1
      /\ \A i \in 1 .. k - m + 1 : SubSeq(s, m, k)[i] = s[m + i - 1]
  BY <1>1, SubSeqFacts
<1>3. Suffix(s, n) = SubSeq(s, m, k)
  BY DEF Suffix, m, k
<1> QED
  BY <1>1, <1>2, <1>3

LEMMA Rejoin ==
    ASSUME NEW S, NEW s \in Seq(S), NEW n \in 0 .. Len(s)
    PROVE  Prefix(s, n) \o Suffix(s, n) = s
<1> DEFINE a == Prefix(s, n)
           b == Suffix(s, n)
           c == a \o b
<1>1. a \in Seq(S) /\ Len(a) = n /\ \A i \in 1 .. n : a[i] = s[i]
  BY PrefixFacts
<1>2. /\ b \in Seq(S) /\ Len(b) = Len(s) - n
      /\ \A i \in 1 .. Len(s) - n : b[i] = s[n + i]
  BY SuffixFacts
<1> HIDE DEF a, b
<1>3. /\ c \in Seq(S) /\ Len(c) = Len(a) + Len(b)
      /\ \A i \in 1 .. Len(a) : c[i] = a[i]
      /\ \A i \in 1 .. Len(b) : c[Len(a) + i] = b[i]
  <2>1. a \in Seq(S) /\ b \in Seq(S)
    BY <1>1, <1>2
  <2> QED BY <2>1, ConcatFacts
<1> HIDE DEF c
<1>4. ASSUME NEW i \in 1 .. Len(s) PROVE c[i] = s[i]
  <2>1. CASE i <= n
    BY <1>1, <1>3, <2>1
  <2>2. CASE i > n
    <3>1. i - n \in 1 .. Len(s) - n /\ n + (i - n) = i
      BY <2>2
    <3>2. c[n + (i - n)] = b[i - n]
      BY <1>1, <1>2, <1>3, <3>1
    <3> QED BY <1>2, <3>1, <3>2
  <2> QED BY <2>1, <2>2
<1>5. Len(c) = Len(s)
  BY <1>1, <1>2, <1>3
<1>6. c = s
  BY <1>3, <1>4, <1>5, SeqEqual
<1> QED
  BY <1>6 DEF c, a, b

\* (A name for it keeps the provers from using it again and again.)
SameJoined(a, b, c) == (a \o b) \o c = a \o (b \o c)

LEMMA Assoc ==
    ASSUME NEW S, NEW a \in Seq(S), NEW b \in Seq(S), NEW c \in Seq(S)
    PROVE  SameJoined(a, b, c)
  BY DEF SameJoined

\* The first n tokens of b are put behind a; what is in front of a stays there.
PutBehind(a, b, n) == (a \o Prefix(b, n)) \o Suffix(b, n) = a \o b
PutBetween(c, a, b, n) ==
    (c \o (a \o Prefix(b, n))) \o Suffix(b, n) = (c \o a) \o b

LEMMA Moved ==
    ASSUME NEW S, NEW a \in Seq(S), NEW b \in Seq(S), NEW n \in 0 .. Len(b)
    PROVE  /\ Prefix(b, n) \in Seq(S) /\ Suffix(b, n) \in Seq(S)
           /\ a \o Prefix(b, n) \in Seq(S)
           /\ Len(Suffix(b, n)) = Len(b) - n
           /\ PutBehind(a, b, n)
<1> DEFINE p == Prefix(b, n)
           q == Suffix(b, n)
<1>1. p \in Seq(S) /\ q \in Seq(S) /\ p \o q = b /\ Len(q) = Len(b) - n
  BY PrefixFacts, SuffixFacts, Rejoin
<1> HIDE DEF p, q
<1>2. a \o p \in Seq(S)
  BY <1>1, ConcatFacts
<1>3. SameJoined(a, p, q)
  BY <1>1, Assoc
<1> QED
  BY <1>1, <1>2, <1>3 DEF p, q, SameJoined, PutBehind

LEMMA MovedBehind ==
    ASSUME NEW S, NEW c \in Seq(S), NEW a \in Seq(S), NEW b \in Seq(S),
           NEW n \in 0 .. Len(b)
    PROVE  PutBetween(c, a, b, n)
<1> DEFINE p == Prefix(b, n)
           q == Suffix(b, n)
           d == c \o a
<1>1. p \in Seq(S) /\ q \in Seq(S) /\ p \o q = b
  BY PrefixFacts, SuffixFacts, Rejoin
<1> HIDE DEF p, q
<1>2. d \in Seq(S)
  BY ConcatFacts
<1>3. SameJoined(c, a, p)
  BY <1>1, Assoc
<1> HIDE DEF d
<1>4. SameJoined(d, p, q)
  BY <1>1, <1>2, Assoc
<1>5. c \o (a \o p) = d \o p
  BY <1>3 DEF SameJoined, d
<1>6. (d \o p) \o q = d \o (p \o q)
  BY <1>4 DEF SameJoined
<1> QED
  BY <1>1, <1>5, <1>6 DEF p, q, d, PutBetween

LEMMA Nothing ==
    ASSUME NEW S, NEW s \in Seq(S)
    PROVE  /\ <<>> \in Seq(S) /\ s \o <<>> = s /\ <<>> \o s = s
           /\ Len(s) \in Nat /\ (s = <<>> <=> Len(s) = 0)
  OBVIOUS

\* What is in front of the rest is a prefix.
LEMMA InFront ==
    ASSUME NEW S, NEW a \in Seq(S), NEW b \in Seq(S)
    PROVE  /\ a \o b \in Seq(S) /\ Len(a) \in 0 .. Len(a \o b)
           /\ a = Prefix(a \o b, Len(a))
           /\ (Len(a) = Len(a \o b)) <=> (b = <<>>)
<1> DEFINE t == a \o b
<1>1. /\ t \in Seq(S) /\ Len(t) = Len(a) + Len(b) /\ Len(a) \in Nat /\ Len(b) \in Nat
      /\ \A i \in 1 .. Len(a) : t[i] = a[i]
  BY ConcatFacts
<1> HIDE DEF t
<1>2. Len(a) \in 0 .. Len(t)
  BY <1>1
<1> DEFINE p == Prefix(t, Len(a))
<1>3. p \in Seq(S) /\ Len(p) = Len(a) /\ \A i \in 1 .. Len(a) : p[i] = t[i]
  BY <1>1, <1>2, PrefixFacts
<1> HIDE DEF p
<1>4. a = p
  BY <1>1, <1>3, SeqEqual
<1>5. b = <<>> <=> Len(b) = 0
  BY Nothing
<1> QED
  BY <1>1, <1>2, <1>4, <1>5 DEF t, p

LEMMA EmptyTexts ==
    /\ ~RequestParses(<<>>) /\ ~ResponseParses(<<>>)
<1> DEFINE e == <<>>
<1>1. Len(e) = 0
  OBVIOUS
<1> HIDE DEF e
<1>2. \A j \in 1 .. (Len(e) + 1) - 1 : e[j] # CRLF
  BY <1>1
<1>3. LineEnd(e, 1) = 0
  BY <1>2, FindNothing DEF LineEnd
<1> QED
  BY <1>3 DEF RequestParses, ResponseParses, e

LEMMA ProgramFacts ==
    ASSUME ExchangeTypes
    PROVE  /\ Len(program) \in Nat /\ DOMAIN program = 1 .. Len(program)
           /\ \A i \in 1 .. Len(program) : IsRequest(program[i])
           /\ asked \in Nat
<1>1. program = [i \in 1 .. Len(program) |-> program[i]] /\ Len(program) \in Nat
      /\ \A i \in 1 .. Len(program) : IsRequest(program[i])
  BY ExchangeAssumption DEF ExchangeTypes
<1>2. DOMAIN program = 1 .. Len(program)
  BY <1>1
<1> QED
  BY <1>1, <1>2 DEF ExchangeTypes

\* The texts of the request that the client has made last.
LEMMA QuestionFacts ==
    ASSUME ExchangeTypes, asked >= 1
    PROVE  /\ IsRequest(program[asked]) /\ asked \in 1 .. Len(program)
           /\ Question \in Seq(Token) /\ Question # <<>>
           /\ \A a, b \in Seq(Token) :
                 a \o b = Question => (RequestParses(a) <=> b = <<>>)
           /\ RequestOf(Question) = WithLength(program[asked])
           /\ OnRequest(service, WithLength(program[asked])) =
                 OnRequest(service, program[asked])
           /\ DoKeepAlive(WithLength(program[asked])) <=> Keeps
<1> DEFINE r == program[asked]
           q == RequestText(r)
<1>1. asked \in 1 .. Len(program) /\ IsRequest(r)
  BY ProgramFacts DEF ExchangeTypes
<1> HIDE DEF r
<1>2. /\ q \in Seq(Token) /\ Len(q) >= 2 /\ RequestOf(q) = WithLength(r)
      /\ \A k \in 0 .. Len(q) : RequestParses(Prefix(q, k)) <=> k = Len(q)
  BY <1>1, RequestTravels
<1> HIDE DEF q
<1>3. ASSUME NEW a \in Seq(Token), NEW b \in Seq(Token), a \o b = q
      PROVE  RequestParses(a) <=> b = <<>>
  <2>1. /\ Len(a) \in 0 .. Len(q) /\ a = Prefix(q, Len(a))
        /\ (Len(a) = Len(q)) <=> (b = <<>>)
    BY <1>3, InFront
  <2> QED BY <1>2, <2>1
<1>4. q # <<>>
  BY <1>2, Nothing
<1>5. OnRequest(service, WithLength(r)) = OnRequest(service, r)
      /\ (DoKeepAlive(WithLength(r)) <=> DoKeepAlive(r))
  BY <1>1, ServiceFacts
<1> QED
  BY <1>1, <1>2, <1>3, <1>4, <1>5 DEF r, q, Question, Keeps

LEMMA AnswerFacts ==
    ASSUME ExchangeTypes, asked >= 1
    PROVE  /\ Answer \in Seq(Token) /\ Answer # <<>>
           /\ \A a, b \in Seq(Token) :
                 a \o b = Answer => (ResponseParses(a) <=> b = <<>>)
           /\ ResponseOf(Answer) = ReplyTo(service, program[asked])
           /\ ReplyTo(service, program[asked]) \in Replies
<1> DEFINE r == OnRequest(service, program[asked])
           q == ResponseText(r)
<1>1. asked \in 1 .. Len(program) /\ IsResponse(r)
  BY QuestionFacts, ServiceFacts
<1> HIDE DEF r
<1>2. /\ q \in Seq(Token) /\ Len(q) >= 2 /\ ResponseOf(q) = WithLength(r)
      /\ \A k \in 0 .. Len(q) : ResponseParses(Prefix(q, k)) <=> k = Len(q)
  BY <1>1, ResponseTravels
<1> HIDE DEF q
<1>3. ASSUME NEW a \in Seq(Token), NEW b \in Seq(Token), a \o b = q
      PROVE  ResponseParses(a) <=> b = <<>>
  <2>1. /\ Len(a) \in 0 .. Len(q) /\ a = Prefix(q, Len(a))
        /\ (Len(a) = Len(q)) <=> (b = <<>>)
    BY <1>3, InFront
  <2> QED BY <1>2, <2>1
<1>4. q # <<>>
  BY <1>2, Nothing
<1>5. ReplyTo(service, program[asked]) \in Replies
  BY <1>1 DEF Replies
<1> QED
  BY <1>1, <1>2, <1>3, <1>4, <1>5 DEF r, q, Answer, ReplyTo

-----------------------------------------------------------------------------
(* The client keeps the invariant *)

LEMMA SameQuestion ==
    ASSUME UNCHANGED <<service, program, asked>>
    PROVE  /\ Question' = Question /\ Answer' = Answer /\ Keeps' = Keeps
           /\ Requests' = Requests /\ Replies' = Replies
BY DEF Question, Answer, Keeps, Requests, Replies, ReplyTo

\* What FailsForCause says of the size stays true.
LEMMA SameSize ==
    ASSUME UNCHANGED <<service, program, asked, reader, answerSize>>
    PROVE  WrongSize' <=> WrongSize
BY DEF WrongSize, AnswerLength

LEMMA SameProgram ==
    ASSUME UNCHANGED <<service, program>>
    PROVE  Requests' = Requests /\ Replies' = Replies
BY DEF Requests, Replies, ReplyTo

LEMMA InitKeeps == Init => ExchangeInv
<1> SUFFICES ASSUME Init PROVE ExchangeInv
  OBVIOUS
<1>1. program \in Programs /\ Len(program) \in Nat /\ reader \in {"exact", "parse", "end"}
  BY ExchangeAssumption DEF Init
<1>2. <<>> \in Seq(Requests) /\ <<>> \in Seq(Replies) /\ <<>> \in Seq(Token)
      /\ Len(<<>>) = 0
  OBVIOUS
<1>3. ExchangeTypes
  <2>1. /\ program \in Programs /\ asked \in 0 .. Len(program)
        /\ reader \in {"exact", "parse", "end"}
        /\ reader = "end" => \A i \in DOMAIN program : ~DoKeepAlive(program[i])
    BY <1>1 DEF Init
  <2>2. handled \in Seq(Requests) /\ replies \in Seq(Replies)
    BY <1>2 DEF Init
  <2>3. /\ msg \in Seq(Token) /\ cobuf \in Seq(Token) /\ coleft \in Seq(Token)
        /\ buffer \in Seq(Token) /\ outbox \in Seq(Token) /\ inbox \in Seq(Token)
    BY <1>2 DEF Init, TcpInit
  <2> QED BY <2>1, <2>2, <2>3 DEF ExchangeTypes, Init, TcpInit
<1>4. Connecting
  BY <1>2 DEF Connecting, Init, TcpInit
<1> QED
  BY <1>3, <1>4 DEF ExchangeInv, Init, FailsForCause

LEMMA ConnectsKeeps == ExchangeInv /\ ClientConnects => ExchangeInv'
<1> SUFFICES ASSUME ExchangeInv, ClientConnects PROVE ExchangeInv'
  OBVIOUS
<1>1. ExchangeTypes /\ Connecting
  BY DEF ExchangeInv, ClientConnects
<1>2. UNCHANGED <<service, program, asked>>
  BY DEF ClientConnects, Others, History
<1>3. <<>> \in Seq(Token)
  OBVIOUS
<1>4. ExchangeTypes'
  BY <1>1, <1>2, <1>3, SameQuestion
     DEF ExchangeTypes, ClientConnects, Connect, Others, History
<1>5. Between'
  BY <1>1 DEF Between, Listening, Connecting, ClientConnects, Connect, Others, History
<1> QED
  BY <1>4, <1>5 DEF ExchangeInv, ClientConnects, FailsForCause

LEMMA CannotConnectKeeps == ExchangeInv /\ ClientCannotConnect => ExchangeInv'
<1> SUFFICES ASSUME ExchangeInv, ClientCannotConnect PROVE ExchangeInv'
  OBVIOUS
<1>1. ExchangeTypes /\ Connecting
  BY DEF ExchangeInv, ClientCannotConnect
<1>2. UNCHANGED <<service, program, asked>>
  BY DEF ClientCannotConnect, GiveUp, Others, History
<1>3. <<>> \in Seq(Token)
  OBVIOUS
<1>4. ExchangeTypes'
  BY <1>1, <1>2, <1>3, SameQuestion
     DEF ExchangeTypes, ClientCannotConnect, ConnectFails, GiveUp, Others, History,
         serverVars, tcpVars, objectVars, wireVars
<1>5. FailsForCause'
  BY <1>1 DEF FailsForCause, WrongSize, AnswerLength, Connecting, ClientCannotConnect, ConnectFails, GiveUp, Others
<1> QED
  BY <1>4, <1>5 DEF ExchangeInv, ClientCannotConnect, GiveUp

LEMMA AskKeeps == ExchangeInv /\ Ask => ExchangeInv'
<1> SUFFICES ASSUME ExchangeInv, Ask PROVE ExchangeInv'
  OBVIOUS
<1>1. ExchangeTypes /\ Between
  BY DEF ExchangeInv, Ask
<1>2. /\ UNCHANGED <<service, program>> /\ asked' = asked + 1 /\ asked < Len(program)
      /\ asked \in Nat /\ asked' \in 0 .. Len(program) /\ asked' >= 1
  BY <1>1, ProgramFacts DEF Ask, Others
<1>3. msg' = Question' /\ answerSize' \in Nat
  BY <1>2, ExchangeAssumption DEF Question, Ask, Others
<1>4. IsRequest(program[asked + 1])
  BY <1>1, <1>2, ProgramFacts
<1>5. msg' \in Seq(Token) /\ msg' # <<>>
  <2> DEFINE r == program[asked + 1]
             q == RequestText(r)
  <2>1. msg' = q
    BY DEF Ask
  <2> HIDE DEF r
  <2>2. q \in Seq(Token) /\ Len(q) >= 2
    BY <1>4, RequestTravels DEF r
  <2> HIDE DEF q
  <2> QED BY <2>1, <2>2, Nothing
<1>6. ExchangeTypes'
  BY <1>1, <1>2, <1>3, <1>5, SameProgram
     DEF ExchangeTypes, Ask, Others, serverVars, tcpVars, objectVars, wireVars
<1>7. Writing'
  <2>1. Listening /\ cobuf = <<>> => Listening' /\ cobuf' = <<>>
    BY DEF Listening, Ask, serverVars, tcpVars, wireVars
  <2>2. Dropped => Dropped'
    BY DEF Dropped, Ask, Others, serverVars, tcpVars, wireVars
  <2>3. outbox' = <<>> /\ <<>> \o <<>> = <<>>
    BY <1>1 DEF Between, Ask, tcpVars, wireVars
  <2>4. cobuf' = <<>> => (cobuf' \o outbox') \o msg' = Question'
    BY <1>3, <1>5, <2>3, Nothing
  <2>5. /\ opened' /\ socket' = "used" /\ buffer' = <<>> /\ inbox' = <<>>
        /\ Len(handled') = asked' - 1 /\ Len(replies') = asked' - 1
    BY <1>1, <1>2 DEF Between, Ask, tcpVars, objectVars, wireVars
  <2> QED BY <1>1, <1>2, <1>3, <1>5, <2>1, <2>2, <2>4, <2>5 DEF Between, Writing
<1> QED
  BY <1>6, <1>7 DEF ExchangeInv, Ask, FailsForCause

LEMMA StopKeeps == ExchangeInv /\ Stop => ExchangeInv'
<1> SUFFICES ASSUME ExchangeInv, Stop PROVE ExchangeInv'
  OBVIOUS
<1>1. ExchangeTypes
  BY DEF ExchangeInv
<1>2. UNCHANGED <<service, program, asked>>
  BY DEF Stop, Others, History
<1>4. ExchangeTypes'
  BY <1>1, <1>2, SameQuestion
     DEF ExchangeTypes, Stop, CloseConnection, Others, History, serverVars, wireVars
<1> QED
  BY <1>4 DEF ExchangeInv, Stop, FailsForCause

\* The first n of what the client has to write.
LEMMA WritesKeeps == ExchangeInv /\ ClientWrites => ExchangeInv'
<1> SUFFICES ASSUME ExchangeInv, ClientWrites PROVE ExchangeInv'
  OBVIOUS
<1>1. ExchangeTypes /\ Writing
  BY DEF ExchangeInv, ClientWrites
<1>2. PICK n \in 1 .. Len(msg) :
         /\ WriteSome(msg, n)
         /\ msg' = Suffix(msg, n)
         /\ pc' = IF n = Len(msg) THEN "read" ELSE "write"
  BY DEF ClientWrites
<1>3. /\ UNCHANGED <<service, program, asked, handled, replies, reader, timedout, dropped>>
      /\ UNCHANGED <<answerSize, failure, copc, cobuf, coleft, cokeep>>
      /\ UNCHANGED <<opened, socket, buffer, eagain, inbox, peer, rst>>
  BY <1>2 DEF ClientWrites, WriteSome, Others, History, serverVars, objectVars
<1>4. /\ Question' = Question /\ Answer' = Answer /\ Keeps' = Keeps
      /\ Requests' = Requests /\ Replies' = Replies
  BY <1>3, SameQuestion
<1>5. /\ msg \in Seq(Token) /\ outbox \in Seq(Token) /\ cobuf \in Seq(Token)
      /\ n \in 0 .. Len(msg)
  BY <1>1 DEF ExchangeTypes
<1>6. /\ Suffix(msg, n) \in Seq(Token) /\ outbox \o Prefix(msg, n) \in Seq(Token)
      /\ Len(Suffix(msg, n)) = Len(msg) - n
  BY <1>5, Moved
<1>7. outbox' = outbox \o Prefix(msg, n) /\ peer = "open"
  BY <1>2 DEF WriteSome
<1>8. ExchangeTypes'
  BY <1>1, <1>2, <1>3, <1>4, <1>6, <1>7 DEF ExchangeTypes
<1>9. /\ Listening /\ (cobuf \o outbox) \o msg = Question
      /\ opened /\ socket = "used" /\ asked >= 1
      /\ buffer = <<>> /\ inbox = <<>> /\ Len(buffer) = 0
      /\ Len(handled) = asked - 1 /\ Len(replies) = asked - 1
  BY <1>1, <1>7 DEF Writing, Dropped
<1>10. (cobuf' \o outbox') \o msg' = Question'
  <2>1. (cobuf \o (outbox \o Prefix(msg, n))) \o Suffix(msg, n) = (cobuf \o outbox) \o msg
    <3>1. PutBetween(cobuf, outbox, msg, n)
      BY <1>5, MovedBehind
    <3> QED BY <3>1 DEF PutBetween
  <2> QED BY <1>2, <1>3, <1>4, <1>7, <1>9, <2>1
<1>11. Listening'
  BY <1>3, <1>9 DEF Listening
<1>12. CASE n = Len(msg)
  <2>1. msg' = <<>>
    BY <1>2, <1>5, <1>6, <1>12, Nothing
  <2>2. cobuf' \o outbox' \in Seq(Token)
    <3>1. cobuf' \in Seq(Token) /\ outbox' \in Seq(Token)
      BY <1>8 DEF ExchangeTypes
    <3> QED BY <3>1, ConcatFacts
  <2>3. cobuf' \o outbox' = Question'
    BY <1>10, <2>1, <2>2, Nothing
  <2>4. Asked'
    BY <1>3, <1>9, <1>11, <2>3 DEF Asked
  <2>5. Reading'
    BY <1>1, <1>3, <1>4, <1>9, <2>4 DEF Reading, ExchangeTypes
  <2> QED BY <1>2, <1>8, <1>12, <2>5 DEF ExchangeInv, FailsForCause
<1>13. CASE n # Len(msg)
  <2>1. msg' # <<>>
    BY <1>2, <1>5, <1>6, <1>13, Nothing
  <2>2. Writing'
    BY <1>3, <1>4, <1>9, <1>10, <1>11, <2>1 DEF Writing
  <2> QED BY <1>2, <1>8, <1>13, <2>2 DEF ExchangeInv, FailsForCause
<1> QED
  BY <1>12, <1>13

LEMMA WritesToNobodyKeeps == ExchangeInv /\ ClientWritesToNobody => ExchangeInv'
<1> SUFFICES ASSUME ExchangeInv, ClientWritesToNobody PROVE ExchangeInv'
  OBVIOUS
<1>1. ExchangeTypes /\ Writing
  BY DEF ExchangeInv, ClientWritesToNobody
<1>2. /\ UNCHANGED <<service, program, asked, handled, replies, reader, timedout, dropped>>
      /\ UNCHANGED <<answerSize, failure, copc, cobuf, coleft, cokeep>>
      /\ UNCHANGED <<opened, socket, buffer, eagain, outbox, inbox, peer>>
      /\ rst' = TRUE /\ peer = "closed"
  BY DEF ClientWritesToNobody, WriteToNobody, Others, History, serverVars, objectVars
<1>3. /\ Question' = Question /\ Answer' = Answer /\ Keeps' = Keeps
      /\ Requests' = Requests /\ Replies' = Replies
  BY <1>2, SameQuestion
<1>4. msg' \in Seq(Token) /\ pc' = IF msg' = <<>> THEN "read" ELSE "write"
  <2> DEFINE n == AtMost(Len(msg), Cap)
  <2>1. msg \in Seq(Token)
    BY <1>1 DEF ExchangeTypes
  <2>2. n \in 0 .. Len(msg)
    <3>1. Len(msg) \in Nat
      BY <2>1, Nothing
    <3> QED BY <3>1, CapAssumption DEF AtMost
  <2> HIDE DEF n
  <2>3. Suffix(msg, n) \in Seq(Token)
    BY <2>1, <2>2, SuffixFacts
  <2> QED BY <2>3 DEF ClientWritesToNobody, n
<1>5. ExchangeTypes'
  BY <1>1, <1>2, <1>3, <1>4 DEF ExchangeTypes
<1>6. /\ Dropped /\ opened /\ socket = "used" /\ asked >= 1
      /\ buffer = <<>> /\ inbox = <<>> /\ Len(buffer) = 0
      /\ Len(handled) = asked - 1 /\ Len(replies) = asked - 1
  BY <1>1, <1>2 DEF Writing, Listening
<1>7. Dropped'
  BY <1>2, <1>6 DEF Dropped
<1>8. CASE msg' = <<>>
  <2>1. Answer \in Seq(Token) /\ Answer # <<>>
    BY <1>1, <1>6, AnswerFacts
  <2>2. (<<>> \o <<>>) \o Answer = Answer
    <3>1. <<>> \o <<>> = <<>>
      OBVIOUS
    <3> QED BY <2>1, <3>1, Nothing
  <2>3. CutShort'
    BY <1>2, <1>3, <1>6, <1>7, <2>1, <2>2 DEF CutShort
  <2>4. Reading'
    BY <1>1, <1>2, <1>3, <1>6, <2>3 DEF Reading, ExchangeTypes
  <2> QED BY <1>4, <1>5, <1>8, <2>4 DEF ExchangeInv, FailsForCause
<1>9. CASE msg' # <<>>
  <2>1. Writing'
    BY <1>2, <1>3, <1>6, <1>7 DEF Writing
  <2> QED BY <1>4, <1>5, <1>9, <2>1 DEF ExchangeInv, FailsForCause
<1> QED
  BY <1>8, <1>9

LEMMA KilledKeeps == ExchangeInv /\ ClientKilled => ExchangeInv'
<1> SUFFICES ASSUME ExchangeInv, ClientKilled PROVE ExchangeInv'
  OBVIOUS
<1>1. ExchangeTypes /\ Writing
  BY DEF ExchangeInv, ClientKilled
<1>2. UNCHANGED <<service, program, asked>>
  BY DEF ClientKilled, GiveUp, Others, History
<1>3. <<>> \in Seq(Token)
  OBVIOUS
<1>4. ExchangeTypes'
  BY <1>1, <1>2, <1>3, SameQuestion
     DEF ExchangeTypes, ClientKilled, WriteKills, GiveUp, Others, History, serverVars, wireVars
<1>5. dropped
  BY <1>1 DEF Writing, Listening, Dropped, ClientKilled, WriteKills
<1>6. FailsForCause'
  BY <1>5 DEF FailsForCause, WrongSize, AnswerLength, ClientKilled, GiveUp, Others
<1> QED
  BY <1>4, <1>6 DEF ExchangeInv, ClientKilled, GiveUp

LEMMA WriteTimesOutKeeps == ExchangeInv /\ ClientWriteTimesOut => ExchangeInv'
<1> SUFFICES ASSUME ExchangeInv, ClientWriteTimesOut PROVE ExchangeInv'
  OBVIOUS
<1>1. ExchangeTypes /\ Writing
  BY DEF ExchangeInv, ClientWriteTimesOut
<1>2. /\ UNCHANGED <<service, program, asked, handled, replies, reader, dropped>>
      /\ UNCHANGED <<pc, msg, answerSize, failure, copc, cobuf, coleft, cokeep>>
      /\ UNCHANGED <<opened, socket, buffer, outbox, inbox, peer, rst>>
      /\ eagain' = TRUE /\ timedout' = TRUE /\ pc = "write"
  BY DEF ClientWriteTimesOut, WriteTimesOut, History, clientVars, serverVars, wireVars
<1>3. /\ Question' = Question /\ Answer' = Answer /\ Keeps' = Keeps
      /\ Requests' = Requests /\ Replies' = Replies
  BY <1>2, SameQuestion
<1>4. ExchangeTypes'
  BY <1>1, <1>2, <1>3 DEF ExchangeTypes
<1>5. Listening' = Listening /\ Dropped' = Dropped
  BY <1>2 DEF Listening, Dropped
<1>6. Writing'
  BY <1>1, <1>2, <1>3, <1>5 DEF Writing
<1> QED
  BY <1>2, <1>4, <1>6 DEF ExchangeInv, FailsForCause

\* What the client has read is as long as the answer at most, and parses only
\* when it is the answer.
LEMMA ReadSoFar ==
    ASSUME ExchangeTypes, Reading
    PROVE  /\ Len(buffer) \in 0 .. Len(Answer) /\ Len(Answer) \in Nat
           /\ ResponseParses(buffer) => Answered /\ inbox = <<>> /\ buffer = Answer
           /\ Answered /\ inbox = <<>> => buffer = Answer /\ ResponseParses(buffer)
           /\ Len(buffer) = Len(Answer) => ResponseParses(buffer)
<1>1. asked >= 1 /\ buffer \in Seq(Token) /\ inbox \in Seq(Token) /\ coleft \in Seq(Token)
  BY DEF Reading, ExchangeTypes
<1>2. /\ Answer \in Seq(Token) /\ Answer # <<>> /\ Len(Answer) \in Nat
      /\ \A a, b \in Seq(Token) :
            a \o b = Answer => (ResponseParses(a) <=> b = <<>>)
  <2>1. Answer \in Seq(Token)
    BY <1>1, AnswerFacts
  <2> QED BY <1>1, <2>1, AnswerFacts, Nothing
<1>3. ASSUME NEW rest \in Seq(Token), rest # <<>>, (buffer \o inbox) \o rest = Answer
      PROVE  /\ Len(buffer) \in 0 .. Len(Answer) /\ ~ResponseParses(buffer)
             /\ Len(buffer) # Len(Answer)
  <2> DEFINE b == inbox \o rest
  <2>1. b \in Seq(Token) /\ b # <<>>
    <3>1. b \in Seq(Token) /\ Len(b) = Len(inbox) + Len(rest) /\ Len(inbox) \in Nat
      BY <1>1, <1>3, ConcatFacts
    <3> HIDE DEF b
    <3>2. Len(rest) \in Nat /\ Len(rest) # 0
      BY <1>3, Nothing
    <3>3. Len(b) # 0
      BY <3>1, <3>2
    <3> QED BY <3>1, <3>3, Nothing
  <2>2. SameJoined(buffer, inbox, rest)
    BY <1>1, <1>3, Assoc
  <2>3. buffer \o b = Answer
    BY <1>3, <2>2 DEF SameJoined
  <2> HIDE DEF b
  <2>4. Len(buffer) \in 0 .. Len(buffer \o b) /\ Len(buffer) # Len(buffer \o b)
    BY <1>1, <2>1, InFront
  <2> QED BY <1>1, <1>2, <2>1, <2>3, <2>4
<1>4. ASSUME Answered
      PROVE  /\ Len(buffer) \in 0 .. Len(Answer)
             /\ ResponseParses(buffer) <=> inbox = <<>>
             /\ inbox = <<>> => buffer = Answer
             /\ Len(buffer) = Len(Answer) => inbox = <<>>
  <2>1. buffer \o inbox = Answer
    BY <1>4 DEF Answered
  <2>2. /\ Len(buffer) \in 0 .. Len(buffer \o inbox)
        /\ Len(buffer) = Len(buffer \o inbox) => inbox = <<>>
    BY <1>1, InFront
  <2>3. inbox = <<>> => buffer \o inbox = buffer
    BY <1>1, Nothing
  <2> QED BY <1>1, <1>2, <2>1, <2>2, <2>3
<1>5. CASE Asked
  <2>1. buffer = <<>> /\ Len(buffer) = 0
    BY <1>5 DEF Asked
  <2>2. ~ResponseParses(buffer)
    BY <2>1, EmptyTexts
  <2>3. ~Answered
    <3>1. inbox = <<>>
      BY <1>5 DEF Asked
    <3> QED BY <1>4, <2>2, <3>1
  <2>4. Len(Answer) # 0
    BY <1>2, Nothing
  <2> QED BY <1>2, <2>1, <2>2, <2>3, <2>4
<1>6. CASE Answering
  <2>1. coleft # <<>> /\ (buffer \o inbox) \o coleft = Answer
    BY <1>6 DEF Answering
  <2> QED BY <1>1, <1>2, <1>3, <1>4, <2>1
<1>7. CASE Answered
  BY <1>2, <1>4, <1>7
<1>8. CASE CutShort
  <2>1. PICK rest \in Seq(Token) : rest # <<>> /\ (buffer \o inbox) \o rest = Answer
    BY <1>8 DEF CutShort
  <2> QED BY <1>2, <1>3, <1>4, <2>1
<1> QED
  BY <1>5, <1>6, <1>7, <1>8 DEF Reading

LEMMA ReadsKeeps == ExchangeInv /\ ClientReads => ExchangeInv'
<1> SUFFICES ASSUME ExchangeInv, ClientReads PROVE ExchangeInv'
  OBVIOUS
<1>1. ExchangeTypes /\ Reading /\ pc = "read"
  BY DEF ExchangeInv, ClientReads
<1> DEFINE n == AtMost(Wanted, Len(inbox))
<1>2. /\ UNCHANGED <<service, program, asked, handled, replies, reader, timedout, dropped>>
      /\ UNCHANGED <<pc, msg, answerSize, failure, copc, cobuf, coleft, cokeep>>
      /\ UNCHANGED <<opened, socket, eagain, outbox, peer, rst>>
      /\ buffer' = buffer \o Prefix(inbox, n) /\ inbox' = Suffix(inbox, n)
      /\ opened /\ inbox # <<>>
  BY DEF ClientReads, ReadSome, Others, History, clientVars, serverVars
<1>3. /\ Question' = Question /\ Answer' = Answer /\ Keeps' = Keeps
      /\ Requests' = Requests /\ Replies' = Replies
  BY <1>2, SameQuestion
<1>4. buffer \in Seq(Token) /\ inbox \in Seq(Token) /\ Len(inbox) \in Nat
  <2>1. buffer \in Seq(Token) /\ inbox \in Seq(Token)
    BY <1>1 DEF ExchangeTypes
  <2> QED BY <2>1, Nothing
<1>5. n \in 0 .. Len(inbox)
  <2>1. Wanted \in Nat
    <3>1. Len(buffer) \in Nat /\ answerSize \in Nat
          /\ (reader = "exact" => Len(buffer) <= answerSize)
      BY <1>1, ReadSoFar DEF Reading, ExchangeTypes
    <3> QED BY <3>1, ExchangeAssumption DEF Wanted
  <2> QED BY <1>4, <2>1 DEF AtMost
<1> HIDE DEF n
<1>6. buffer' \in Seq(Token) /\ inbox' \in Seq(Token) /\ PutBehind(buffer, inbox, n)
  BY <1>2, <1>4, <1>5, Moved
<1>7. buffer' \o inbox' = buffer \o inbox
  BY <1>2, <1>6 DEF PutBehind
<1>8. ExchangeTypes'
  BY <1>1, <1>2, <1>3, <1>6 DEF ExchangeTypes
<1>9. ~Asked
  BY <1>2 DEF Asked
<1>10. Answering => Answering'
  BY <1>2, <1>3, <1>7 DEF Answering
<1>11. Answered => Answered'
  BY <1>2, <1>3, <1>7 DEF Answered
<1>12. CutShort => CutShort'
  BY <1>2, <1>3, <1>7 DEF CutShort, Dropped
<1>14. reader = "exact" => Len(buffer') <= answerSize
  <2>1. SUFFICES ASSUME reader = "exact" PROVE Len(buffer') <= answerSize
    OBVIOUS
  <2>2. n <= answerSize - Len(buffer) /\ answerSize \in Nat
    BY <1>1, <1>4, <2>1, ReadSoFar DEF n, Wanted, AtMost, ExchangeTypes, Reading
  <2>3. Len(buffer') = Len(buffer) + n /\ Len(buffer) \in Nat
    <3>1. Prefix(inbox, n) \in Seq(Token) /\ Len(Prefix(inbox, n)) = n
      BY <1>4, <1>5, PrefixFacts
    <3> QED BY <1>2, <1>4, <3>1, ConcatFacts
  <2> QED BY <1>5, <2>2, <2>3
<1>13. Reading'
  BY <1>1, <1>2, <1>3, <1>9, <1>10, <1>11, <1>12, <1>14 DEF Reading
<1> QED
  BY <1>1, <1>2, <1>8, <1>13 DEF ExchangeInv, FailsForCause

\* What a step that leaves the texts alone does to the phases of reading.
LEMMA ReadingKept ==
    ASSUME UNCHANGED <<service, program, asked, handled, replies, reader, dropped,
                       answerSize, copc, cobuf, coleft, cokeep,
                       socket, buffer, outbox, inbox, peer, rst>>,
           Reading, opened' \/ (reader = "end" /\ ResponseParses(buffer))
    PROVE  Reading'
<1>1. Question' = Question /\ Answer' = Answer /\ Keeps' = Keeps
  BY SameQuestion
<1>2. Asked => Asked'
  BY <1>1 DEF Asked, Listening
<1>3. Answering => Answering'
  BY <1>1 DEF Answering
<1>4. Answered => Answered'
  BY <1>1 DEF Answered
<1>5. CutShort => CutShort'
  BY <1>1 DEF CutShort, Dropped
<1> QED
  BY <1>1, <1>2, <1>3, <1>4, <1>5 DEF Reading

LEMMA ReadTimesOutKeeps == ExchangeInv /\ ClientReadTimesOut => ExchangeInv'
<1> SUFFICES ASSUME ExchangeInv, ClientReadTimesOut PROVE ExchangeInv'
  OBVIOUS
<1>1. ExchangeTypes /\ Reading
  BY DEF ExchangeInv, ClientReadTimesOut
<1>2. /\ UNCHANGED <<service, program, asked, handled, replies, reader, dropped>>
      /\ UNCHANGED <<msg, answerSize, copc, cobuf, coleft, cokeep>>
      /\ UNCHANGED <<opened, socket, buffer, outbox, inbox, peer, rst>>
      /\ eagain' = TRUE /\ timedout' = TRUE /\ pc = "read" /\ opened
  BY DEF ClientReadTimesOut, ReadTimesOut, History, serverVars, wireVars
<1>3. IF reader = "exact" THEN pc' = "failed" /\ failure' = "eof"
      ELSE UNCHANGED <<pc, failure>>
  BY DEF ClientReadTimesOut
<1>4. Requests' = Requests /\ Replies' = Replies
  BY <1>2, SameQuestion
<1>5. ExchangeTypes'
  BY <1>1, <1>2, <1>3, <1>4 DEF ExchangeTypes
<1>6. Reading'
  BY <1>1, <1>2, ReadingKept
<1> QED
  BY <1>2, <1>3, <1>5, <1>6 DEF ExchangeInv, FailsForCause

LEMMA ReadsEndKeeps == ExchangeInv /\ ClientReadsEnd => ExchangeInv'
<1> SUFFICES ASSUME ExchangeInv, ClientReadsEnd PROVE ExchangeInv'
  OBVIOUS
<1>1. ExchangeTypes /\ Reading
  BY DEF ExchangeInv, ClientReadsEnd
<1>2. /\ UNCHANGED <<service, program, asked, handled, replies, reader, timedout, dropped>>
      /\ UNCHANGED <<msg, answerSize, copc, cobuf, coleft, cokeep>>
      /\ UNCHANGED <<socket, buffer, eagain, outbox, inbox, peer, rst>>
      /\ opened' = eagain /\ pc = "read" /\ opened /\ ~Enough
      /\ inbox = <<>> /\ peer = "closed"
  BY DEF ClientReadsEnd, ReadEnd, Others, History, serverVars, wireVars
<1>3. IF reader # "exact" /\ (opened' \/ (reader = "end" /\ ResponseParses(buffer)))
      THEN UNCHANGED <<pc, failure>> ELSE pc' = "failed" /\ failure' = "eof"
  BY DEF ClientReadsEnd
<1>4. Requests' = Requests /\ Replies' = Replies
  BY <1>2, SameQuestion
<1>5. ExchangeTypes'
  BY <1>1, <1>2, <1>3, <1>4 DEF ExchangeTypes
<1>6. CASE reader # "exact" /\ (opened' \/ (reader = "end" /\ ResponseParses(buffer)))
  <2>1. Reading'
    BY <1>1, <1>2, <1>6, ReadingKept
  <2> QED BY <1>2, <1>3, <1>5, <1>6, <2>1 DEF ExchangeInv, FailsForCause
<1>7. CASE ~(reader # "exact" /\ (opened' \/ (reader = "end" /\ ResponseParses(buffer))))
  <2>1. ~Answered \/ WrongSize
    <3>1. Answered => buffer = Answer /\ ResponseParses(buffer)
      BY <1>1, <1>2, ReadSoFar DEF Reading
    <3> QED BY <1>1, <1>2, <1>7, <3>1
            DEF Enough, ExchangeTypes, WrongSize, AnswerLength, Answer
  <2>2. dropped \/ WrongSize
    BY <1>1, <1>2, <2>1 DEF Reading, Asked, Listening, Answering, CutShort, Dropped
  <2>3. WrongSize' <=> WrongSize
    BY <1>2, SameSize
  <2> QED BY <1>2, <1>3, <1>5, <1>7, <2>2, <2>3 DEF ExchangeInv, FailsForCause
<1> QED
  BY <1>6, <1>7

LEMMA ReadFailsKeeps == ExchangeInv /\ ClientReadFails => ExchangeInv'
<1> SUFFICES ASSUME ExchangeInv, ClientReadFails PROVE ExchangeInv'
  OBVIOUS
<1>1. ExchangeTypes /\ Reading
  BY DEF ExchangeInv, ClientReadFails
<1>2. UNCHANGED <<service, program, asked>>
  BY DEF ClientReadFails, GiveUp, Others, History
<1>3. <<>> \in Seq(Token)
  OBVIOUS
<1>4. ExchangeTypes'
  BY <1>1, <1>2, <1>3, SameQuestion
     DEF ExchangeTypes, ClientReadFails, ReadFails, GiveUp, Others, History, serverVars
<1>5. dropped
  BY <1>1 DEF Reading, Asked, Listening, Answering, Answered, CutShort, Dropped,
              ClientReadFails, ReadFails
<1>6. FailsForCause'
  BY <1>5 DEF FailsForCause, WrongSize, AnswerLength, ClientReadFails, GiveUp, Others
<1> QED
  BY <1>4, <1>6 DEF ExchangeInv, ClientReadFails, GiveUp

\* What does not parse is not the answer, but its beginning.
LEMMA CannotParseKeeps == ExchangeInv /\ ClientCannotParse => ExchangeInv'
<1> SUFFICES ASSUME ExchangeInv, ClientCannotParse PROVE ExchangeInv'
  OBVIOUS
<1>1. ExchangeTypes /\ Reading
  BY DEF ExchangeInv, ClientCannotParse
<1>2. /\ UNCHANGED <<service, program, asked, handled, replies, reader, timedout, dropped>>
      /\ UNCHANGED <<answerSize, copc, cobuf, coleft, cokeep>>
      /\ UNCHANGED <<opened, socket, buffer, eagain, outbox, inbox, peer, rst>>
      /\ msg' = <<>> /\ pc' = "failed" /\ failure' = "cut"
      /\ Enough /\ ~ResponseParses(buffer)
  BY DEF ClientCannotParse, GiveUp, Others, History, serverVars, tcpVars, objectVars, wireVars
<1>3. <<>> \in Seq(Token)
  OBVIOUS
<1>4. ExchangeTypes'
  BY <1>1, <1>2, <1>3, SameQuestion DEF ExchangeTypes
<1>5. reader = "exact" /\ Len(buffer) = answerSize
  BY <1>1, <1>2 DEF Enough, ExchangeTypes, Reading
<1>6. Len(buffer) # Len(Answer)
  BY <1>1, <1>2, ReadSoFar
<1>7. WrongSize'
  BY <1>2, <1>5, <1>6, SameSize DEF WrongSize, AnswerLength, Answer
<1> QED
  BY <1>2, <1>4, <1>7 DEF ExchangeInv, FailsForCause

\* The answer is accepted whole.
LEMMA AcceptsWhole ==
    ASSUME ExchangeInv, ClientAccepts
    PROVE  /\ ExchangeTypes /\ Reading /\ Answered /\ inbox = <<>> /\ asked >= 1
           /\ replies' = Append(replies, ReplyTo(service, program[asked]))
           /\ replies' \in Seq(Replies) /\ Len(replies') = Len(replies) + 1
<1>1. ExchangeTypes /\ Reading
  BY DEF ExchangeInv, ClientAccepts
<1>2. Answered /\ inbox = <<>> /\ buffer = Answer
  BY <1>1, ReadSoFar DEF ClientAccepts
<1>3. asked >= 1
  BY <1>1 DEF Reading
<1>4. /\ ResponseOf(Answer) = ReplyTo(service, program[asked])
      /\ ReplyTo(service, program[asked]) \in Replies
  BY <1>1, <1>3, AnswerFacts
<1>5. replies' = Append(replies, ReplyTo(service, program[asked]))
  BY <1>2, <1>4 DEF ClientAccepts
<1>6. replies \in Seq(Replies)
  BY <1>1 DEF ExchangeTypes
<1> DEFINE x == ReplyTo(service, program[asked])
<1> HIDE DEF x
<1>7. x \in Replies /\ replies' = Append(replies, x)
  BY <1>4, <1>5 DEF x
<1>8. replies' \in Seq(Replies) /\ Len(replies') = Len(replies) + 1
  BY <1>6, <1>7
<1> QED
  BY <1>1, <1>2, <1>3, <1>5, <1>8

LEMMA AcceptsKeeps == ExchangeInv /\ ClientAccepts => ExchangeInv'
<1> SUFFICES ASSUME ExchangeInv, ClientAccepts PROVE ExchangeInv'
  OBVIOUS
<1>1. /\ ExchangeTypes /\ Reading /\ Answered /\ inbox = <<>> /\ asked >= 1
      /\ replies' \in Seq(Replies) /\ Len(replies') = Len(replies) + 1
  BY AcceptsWhole
<1>2. /\ UNCHANGED <<service, program, asked, handled, reader, timedout, dropped>>
      /\ UNCHANGED <<msg, answerSize, failure, copc, cobuf, coleft, cokeep>>
      /\ UNCHANGED <<eagain, outbox, inbox, peer, rst>>
      /\ buffer' = <<>> /\ pc = "read"
  BY DEF ClientAccepts, Others, serverVars, wireVars
<1>3. /\ IF Keeps THEN UNCHANGED <<opened, socket>> ELSE CloseConnection
      /\ pc' = IF opened' THEN "ask" ELSE IF asked = Len(program) THEN "done" ELSE "connect"
  BY DEF ClientAccepts, Keeps
<1>4. Requests' = Requests /\ Replies' = Replies
  BY <1>2, SameQuestion
<1>5. /\ socket = "used" /\ (opened \/ reader = "end")
      /\ Len(replies) = asked - 1 /\ Len(handled) = asked /\ outbox = <<>> /\ ~rst
      /\ \/ copc = "read" /\ peer = "open" /\ cobuf = <<>> /\ Keeps
         \/ copc = "gone" /\ peer = "closed" /\ (Keeps => dropped)
  BY <1>1 DEF Reading, Answered
<1>6. asked \in Nat
  BY <1>1, ProgramFacts
<1>7. <<>> \in Seq(Token)
  OBVIOUS
<1>8. CASE Keeps
  <2>1. opened /\ opened' /\ socket' = "used" /\ pc' = "ask"
    <3>1. reader # "end"
      <4>1. asked \in DOMAIN program
        BY <1>1, QuestionFacts, ProgramFacts
      <4> QED BY <1>1, <1>8, <4>1 DEF ExchangeTypes, Keeps
    <3>2. opened
      BY <1>5, <3>1
    <3> QED BY <1>3, <1>5, <1>8, <3>2
  <2>2. ExchangeTypes'
    BY <1>1, <1>2, <1>4, <1>7, <2>1 DEF ExchangeTypes
  <2>3. Between'
    BY <1>1, <1>2, <1>5, <1>6, <1>8, <2>1 DEF Between, Listening, Dropped
  <2> QED BY <2>1, <2>2, <2>3 DEF ExchangeInv, FailsForCause
<1>9. CASE ~Keeps
  <2>1. /\ ~opened' /\ socket' = (IF opened THEN "none" ELSE socket)
        /\ opened' \in BOOLEAN
    BY <1>3, <1>9 DEF CloseConnection
  <2>2. pc' \in {"done", "connect"}
    BY <1>3, <2>1
  <2>3. ExchangeTypes'
    BY <1>1, <1>2, <1>4, <1>7, <2>1, <2>2 DEF ExchangeTypes
  <2>4. Connecting'
    BY <1>1, <1>2, <1>5, <1>6, <1>9, <2>1 DEF Connecting
  <2> QED BY <2>2, <2>3, <2>4 DEF ExchangeInv, FailsForCause
<1> QED
  BY <1>8, <1>9

-----------------------------------------------------------------------------
(* The server keeps the invariant *)

LEMMA ServerReadsKeeps == ExchangeInv /\ ServerReads => ExchangeInv'
<1> SUFFICES ASSUME ExchangeInv, ServerReads PROVE ExchangeInv'
  OBVIOUS
<1> DEFINE n == AtMost(ReadSize, Len(outbox))
<1>1. ExchangeTypes /\ FailsForCause
  BY DEF ExchangeInv
<1>2. /\ UNCHANGED <<service, program, asked, handled, replies, reader, timedout, dropped>>
      /\ UNCHANGED <<pc, msg, answerSize, failure, copc, coleft, cokeep>>
      /\ UNCHANGED <<opened, socket, buffer, eagain, inbox, peer, rst>>
      /\ copc = "read" /\ outbox # <<>>
      /\ cobuf' = cobuf \o Prefix(outbox, n) /\ outbox' = Suffix(outbox, n)
  BY DEF ServerReads, Others, History, clientVars, objectVars
<1>3. /\ Question' = Question /\ Answer' = Answer /\ Keeps' = Keeps
      /\ Requests' = Requests /\ Replies' = Replies
  BY <1>2, SameQuestion
<1>4. cobuf \in Seq(Token) /\ outbox \in Seq(Token) /\ Len(outbox) \in Nat
  <2>1. cobuf \in Seq(Token) /\ outbox \in Seq(Token)
    BY <1>1 DEF ExchangeTypes
  <2> QED BY <2>1, Nothing
<1>5. n \in 0 .. Len(outbox)
  BY <1>4, ExchangeAssumption DEF AtMost
<1> HIDE DEF n
<1>6. cobuf' \in Seq(Token) /\ outbox' \in Seq(Token) /\ PutBehind(cobuf, outbox, n)
  BY <1>2, <1>4, <1>5, Moved
<1>7. cobuf' \o outbox' = cobuf \o outbox
  BY <1>2, <1>6 DEF PutBehind
<1>8. ExchangeTypes'
  BY <1>1, <1>2, <1>3, <1>6 DEF ExchangeTypes
<1>9. pc # "connect" /\ pc # "ask"
  BY <1>2 DEF ExchangeInv, Connecting, Between
<1>10. pc = "write" => Writing'
  <2>1. SUFFICES ASSUME pc = "write" PROVE Writing'
    OBVIOUS
  <2>2. Writing /\ ~Dropped
    BY <1>2, <2>1 DEF ExchangeInv, Dropped
  <2> QED BY <1>2, <1>3, <1>7, <2>2 DEF Writing, Listening
<1>11. pc = "read" => Reading'
  <2>1. SUFFICES ASSUME pc = "read" PROVE Reading'
    OBVIOUS
  <2>2. Reading /\ ~Answering /\ ~Answered /\ ~CutShort
    BY <1>2, <2>1 DEF ExchangeInv, Answering, Answered, CutShort, Dropped
  <2>3. Asked'
    BY <1>2, <1>3, <1>7, <2>2 DEF Reading, Asked, Listening
  <2> QED BY <1>2, <1>3, <2>2, <2>3 DEF Reading
<1>12. FailsForCause'
  BY <1>1, <1>2 DEF FailsForCause, WrongSize, AnswerLength
<1> QED
  BY <1>2, <1>8, <1>9, <1>10, <1>11, <1>12 DEF ExchangeInv

\* What the server handles is the whole request that the client made last, and
\* it is handled for the first time.
LEMMA HandlesWhole ==
    ASSUME ExchangeInv, ServerHandles
    PROVE  /\ ExchangeTypes /\ pc = "read" /\ Reading /\ Asked /\ asked >= 1
           /\ handled' = Append(handled, WithLength(program[asked]))
           /\ handled' \in Seq(Requests) /\ Len(handled') = Len(handled) + 1
           /\ coleft' = Answer /\ cokeep' = Keeps
<1>1. ExchangeTypes /\ copc = "read" /\ outbox = <<>> /\ RequestParses(cobuf)
      /\ cobuf \in Seq(Token) /\ msg \in Seq(Token)
  BY DEF ExchangeInv, ServerHandles, ExchangeTypes
<1>2. cobuf # <<>>
  BY <1>1, EmptyTexts
<1>3. pc \in {"connect", "ask", "write", "read"}
  BY <1>1 DEF ServerHandles, ClientGone, ExchangeTypes
<1>4. pc # "connect" /\ pc # "ask"
  BY <1>1, <1>2 DEF ExchangeInv, Connecting, Between, Dropped
<1>5. pc # "write"
  <2>1. SUFFICES ASSUME pc = "write" PROVE FALSE
    OBVIOUS
  <2>2. Writing /\ ~Dropped
    BY <1>1, <2>1 DEF ExchangeInv, Dropped
  <2>3. asked >= 1 /\ msg # <<>> /\ (cobuf \o outbox) \o msg = Question
    BY <2>2 DEF Writing
  <2>4. cobuf \o outbox = cobuf
    BY <1>1, Nothing
  <2>5. cobuf \o msg = Question
    BY <2>3, <2>4
  <2>6. ~RequestParses(cobuf)
    BY <1>1, <2>3, <2>5, QuestionFacts
  <2> QED BY <1>1, <2>6
<1>6. pc = "read" /\ Reading
  BY <1>3, <1>4, <1>5 DEF ExchangeInv
<1>7. Asked /\ asked >= 1
  BY <1>1, <1>2, <1>6 DEF Reading, Answering, Answered, CutShort, Dropped
<1>8. cobuf = Question
  <2>1. cobuf \o outbox = cobuf
    BY <1>1, Nothing
  <2> QED BY <1>7, <2>1 DEF Asked
<1>9. /\ RequestOf(cobuf) = WithLength(program[asked])
      /\ OnRequest(service, WithLength(program[asked])) = OnRequest(service, program[asked])
      /\ DoKeepAlive(WithLength(program[asked])) <=> Keeps
      /\ asked \in 1 .. Len(program)
  BY <1>1, <1>7, <1>8, QuestionFacts
<1>10. handled' = Append(handled, WithLength(program[asked]))
       /\ coleft' = Answer /\ cokeep' = DoKeepAlive(WithLength(program[asked]))
  <2> DEFINE r == RequestOf(cobuf)
  <2>1. /\ handled' = Append(handled, r) /\ coleft' = ResponseText(OnRequest(service, r))
        /\ cokeep' = DoKeepAlive(r)
    BY DEF ServerHandles
  <2>2. r = WithLength(program[asked])
    BY <1>9
  <2> HIDE DEF r
  <2>3. OnRequest(service, r) = OnRequest(service, program[asked])
    BY <1>9, <2>2
  <2> QED BY <2>1, <2>2, <2>3 DEF Answer
<1>11. cokeep' = Keeps
  <2>1. DoKeepAlive(WithLength(program[asked])) = Keeps
    BY <1>9 DEF DoKeepAlive, Keeps
  <2> QED BY <1>10, <2>1
<1>12. handled' \in Seq(Requests) /\ Len(handled') = Len(handled) + 1
  <2> DEFINE x == WithLength(program[asked])
  <2>1. x \in Requests
    BY <1>9 DEF Requests
  <2> HIDE DEF x
  <2>2. handled' = Append(handled, x) /\ handled \in Seq(Requests)
    BY <1>1, <1>10 DEF x, ExchangeTypes
  <2> QED BY <2>1, <2>2
<1> QED
  BY <1>1, <1>6, <1>7, <1>10, <1>11, <1>12

LEMMA HandlesKeeps == ExchangeInv /\ ServerHandles => ExchangeInv'
<1> SUFFICES ASSUME ExchangeInv, ServerHandles PROVE ExchangeInv'
  OBVIOUS
<1>1. /\ ExchangeTypes /\ pc = "read" /\ Reading /\ Asked /\ asked >= 1
      /\ handled' \in Seq(Requests) /\ Len(handled') = Len(handled) + 1
      /\ coleft' = Answer /\ cokeep' = Keeps
  BY HandlesWhole
<1>2. /\ UNCHANGED <<service, program, asked, replies, reader, timedout, dropped>>
      /\ UNCHANGED <<pc, msg, answerSize, failure, cobuf>>
      /\ UNCHANGED <<opened, socket, buffer, eagain, outbox, inbox, peer, rst>>
      /\ copc' = "write" /\ outbox = <<>>
  BY DEF ServerHandles, Others, clientVars, tcpVars, objectVars, wireVars
<1>3. /\ Question' = Question /\ Answer' = Answer /\ Keeps' = Keeps
      /\ Requests' = Requests /\ Replies' = Replies
  BY <1>2, SameQuestion
<1>4. Answer \in Seq(Token) /\ Answer # <<>> /\ Keeps \in BOOLEAN
  BY <1>1, AnswerFacts DEF Keeps, DoKeepAlive
<1>5. ExchangeTypes'
  BY <1>1, <1>2, <1>3, <1>4 DEF ExchangeTypes
<1>6. (buffer' \o inbox') \o coleft' = Answer'
  <2>1. buffer' = <<>> /\ inbox' = <<>> /\ <<>> \o <<>> = <<>>
    BY <1>1, <1>2 DEF Asked
  <2>2. <<>> \o Answer = Answer
    BY <1>4, Nothing
  <2> QED BY <1>1, <1>3, <2>1, <2>2
<1>7. Len(handled) = asked - 1 /\ asked \in Nat /\ peer = "open" /\ ~rst
  BY <1>1, ProgramFacts DEF Asked, Listening
<1>8. Answering'
  BY <1>1, <1>2, <1>3, <1>4, <1>6, <1>7 DEF Answering
<1>9. Reading'
  BY <1>1, <1>2, <1>3, <1>8 DEF Reading
<1> QED
  BY <1>1, <1>2, <1>5, <1>9 DEF ExchangeInv, FailsForCause

\* A coroutine that has a connection sees no client go before the end.
LEMMA GoneAtTheEnd ==
    ASSUME ExchangeInv, copc # "gone", ClientGone
    PROVE  pc \in {"done", "failed"}
BY DEF ExchangeInv, ClientGone, ExchangeTypes, Connecting, Between, Writing, Reading

LEMMA ServerReadsEndKeeps == ExchangeInv /\ (ServerReadsEnd \/ ServerWriteFails) => ExchangeInv'
<1> SUFFICES ASSUME ExchangeInv, ServerReadsEnd \/ ServerWriteFails PROVE ExchangeInv'
  OBVIOUS
<1>1. ExchangeTypes /\ FailsForCause
  BY DEF ExchangeInv
<1>2. /\ UNCHANGED <<service, program, asked, handled, replies, reader, timedout, dropped>>
      /\ UNCHANGED <<pc, msg, answerSize, failure, cobuf, coleft, cokeep>>
      /\ UNCHANGED <<opened, socket, buffer, eagain, inbox>>
      /\ outbox' = <<>> /\ rst' = (outbox # <<>>) /\ copc' = "gone" /\ peer' = "closed"
      /\ copc # "gone" /\ ClientGone
  BY DEF ServerReadsEnd, ServerWriteFails, ServerCloses, Others, History, clientVars, objectVars
<1>3. Requests' = Requests /\ Replies' = Replies
  BY <1>2, SameQuestion
<1>4. <<>> \in Seq(Token)
  OBVIOUS
<1>5. ExchangeTypes'
  BY <1>1, <1>2, <1>3, <1>4 DEF ExchangeTypes
<1>6. pc' \in {"done", "failed"}
  BY <1>2, GoneAtTheEnd
<1>7. FailsForCause'
  BY <1>1, <1>2 DEF FailsForCause, WrongSize, AnswerLength
<1> QED
  BY <1>5, <1>6, <1>7 DEF ExchangeInv

LEMMA ServerWritesKeeps == ExchangeInv /\ ServerWrites => ExchangeInv'
<1> SUFFICES ASSUME ExchangeInv, ServerWrites PROVE ExchangeInv'
  OBVIOUS
<1>1. ExchangeTypes /\ FailsForCause
  BY DEF ExchangeInv
<1>2. PICK n \in 1 .. AtMost(Len(coleft), Cap - Len(inbox)) :
         inbox' = inbox \o Prefix(coleft, n) /\ coleft' = Suffix(coleft, n)
  BY DEF ServerWrites
<1>3. /\ UNCHANGED <<service, program, asked, handled, replies, reader, timedout, dropped>>
      /\ UNCHANGED <<pc, msg, answerSize, failure, cokeep>>
      /\ UNCHANGED <<opened, socket, buffer, eagain, outbox>>
      /\ copc = "write" /\ cobuf' = IF coleft' = <<>> THEN <<>> ELSE cobuf
      /\ IF coleft' = <<>> /\ ~cokeep
         THEN copc' = "gone" /\ peer' = "closed" /\ rst' = (outbox # <<>>)
         ELSE /\ copc' = IF coleft' = <<>> THEN "read" ELSE "write"
              /\ UNCHANGED <<peer, rst>>
  BY DEF ServerWrites, Others, History, clientVars, objectVars
<1>4. /\ Question' = Question /\ Answer' = Answer /\ Keeps' = Keeps
      /\ Requests' = Requests /\ Replies' = Replies
  BY <1>3, SameQuestion
<1>5. /\ buffer \in Seq(Token) /\ inbox \in Seq(Token) /\ coleft \in Seq(Token)
      /\ <<>> \in Seq(Token) /\ Len(coleft) \in Nat /\ Len(inbox) \in Nat
  <2>1. buffer \in Seq(Token) /\ inbox \in Seq(Token) /\ coleft \in Seq(Token)
    BY <1>1 DEF ExchangeTypes
  <2> QED BY <2>1, Nothing
<1>6. n \in 0 .. Len(coleft)
  BY <1>5, CapAssumption DEF AtMost
<1>7. inbox' \in Seq(Token) /\ coleft' \in Seq(Token)
  BY <1>2, <1>5, <1>6, Moved
<1>8. (buffer' \o inbox') \o coleft' = (buffer \o inbox) \o coleft
  <2>1. PutBetween(buffer, inbox, coleft, n)
    BY <1>5, <1>6, MovedBehind
  <2> QED BY <1>2, <1>3, <2>1 DEF PutBetween
<1>9. ExchangeTypes'
  BY <1>1, <1>3, <1>4, <1>5, <1>7 DEF ExchangeTypes
<1>10. pc \in {"read", "done", "failed"}
  BY <1>1, <1>3 DEF ExchangeInv, ExchangeTypes, Connecting, Between, Writing, Listening, Dropped
<1>11. pc = "read" => Reading'
  <2>1. SUFFICES ASSUME pc = "read" PROVE Reading'
    OBVIOUS
  <2>2. Reading /\ Answering
    BY <1>3, <2>1 DEF ExchangeInv, Reading, Asked, Answered, CutShort, Listening, Dropped
  <2>3. (buffer' \o inbox') \o coleft' = Answer'
    BY <1>4, <1>8, <2>2 DEF Answering
  <2>4. CASE coleft' # <<>>
    <3>1. Answering'
      BY <1>3, <1>4, <2>2, <2>3, <2>4 DEF Answering
    <3> QED BY <1>3, <1>4, <2>2, <3>1 DEF Reading
  <2>5. CASE coleft' = <<>>
    <3>1. buffer' \o inbox' = Answer'
      <4>1. buffer' \o inbox' \in Seq(Token)
        <5>1. buffer' \in Seq(Token)
          BY <1>3, <1>5
        <5> QED BY <1>7, <5>1, ConcatFacts
      <4> QED BY <2>3, <2>5, <4>1, Nothing
    <3>2. Answered'
      BY <1>3, <1>4, <2>2, <2>5, <3>1 DEF Answering, Answered
    <3> QED BY <1>3, <1>4, <2>2, <3>2 DEF Reading
  <2> QED BY <2>4, <2>5
<1>12. FailsForCause'
  BY <1>1, <1>3 DEF FailsForCause, WrongSize, AnswerLength
<1> QED
  BY <1>3, <1>9, <1>10, <1>11, <1>12 DEF ExchangeInv

LEMMA ServerDropsKeeps == ExchangeInv /\ ServerDrops => ExchangeInv'
<1> SUFFICES ASSUME ExchangeInv, ServerDrops PROVE ExchangeInv'
  OBVIOUS
<1>1. ExchangeTypes
  BY DEF ExchangeInv
<1>2. /\ UNCHANGED <<service, program, asked, handled, replies, reader, timedout>>
      /\ UNCHANGED <<pc, msg, answerSize, failure, cobuf, coleft, cokeep>>
      /\ UNCHANGED <<opened, socket, buffer, eagain, inbox>>
      /\ outbox' = <<>> /\ rst' = (outbox # <<>>) /\ copc' = "gone" /\ peer' = "closed"
      /\ dropped' = TRUE /\ copc # "gone"
  BY DEF ServerDrops, ServerCloses, History, clientVars, objectVars
<1>3. /\ Question' = Question /\ Answer' = Answer /\ Keeps' = Keeps
      /\ Requests' = Requests /\ Replies' = Replies
  BY <1>2, SameQuestion
<1>4. <<>> \in Seq(Token)
  OBVIOUS
<1>5. ExchangeTypes'
  BY <1>1, <1>2, <1>3, <1>4 DEF ExchangeTypes
<1>6. Dropped'
  BY <1>2 DEF Dropped
<1>7. pc # "connect"
  BY <1>2 DEF ExchangeInv, Connecting
<1>8. pc = "ask" => Between'
  BY <1>2, <1>6 DEF ExchangeInv, Between
<1>9. pc = "write" => Writing'
  BY <1>2, <1>3, <1>6 DEF ExchangeInv, Writing
<1>10. pc = "read" => Reading'
  <2>1. SUFFICES ASSUME pc = "read" PROVE Reading'
    OBVIOUS
  <2>2. Reading /\ ~CutShort
    BY <1>2, <2>1 DEF ExchangeInv, CutShort, Dropped
  <2>3. asked >= 1
    BY <2>2 DEF Reading
  <2>4. Answer \in Seq(Token) /\ Answer # <<>>
    BY <1>1, <2>3, AnswerFacts
  <2>5. CASE Asked
    <3>1. (buffer' \o inbox') \o Answer' = Answer'
      <4>1. buffer' = <<>> /\ inbox' = <<>> /\ <<>> \o <<>> = <<>>
        BY <1>2, <2>5 DEF Asked
      <4>2. <<>> \o Answer = Answer
        BY <2>4, Nothing
      <4> QED BY <1>3, <4>1, <4>2
    <3>2. CutShort'
      BY <1>2, <1>3, <1>6, <2>4, <2>5, <3>1 DEF CutShort, Asked
    <3> QED BY <1>2, <1>3, <2>2, <3>2 DEF Reading
  <2>6. CASE Answering
    <3>1. coleft \in Seq(Token)
      BY <1>1 DEF ExchangeTypes
    <3>2. CutShort'
      BY <1>2, <1>3, <1>6, <2>6, <3>1 DEF CutShort, Answering
    <3> QED BY <1>2, <1>3, <2>2, <3>2 DEF Reading
  <2>7. CASE Answered
    <3>1. Answered'
      BY <1>2, <1>3, <2>7 DEF Answered
    <3> QED BY <1>2, <1>3, <2>2, <3>1 DEF Reading
  <2> QED BY <2>2, <2>5, <2>6, <2>7 DEF Reading
<1>11. FailsForCause'
  BY <1>2 DEF FailsForCause, WrongSize, AnswerLength
<1> QED
  BY <1>2, <1>5, <1>7, <1>8, <1>9, <1>10, <1>11 DEF ExchangeInv

-----------------------------------------------------------------------------
(* Every step *)

LEMMA NextKeeps == ExchangeInv /\ [Next]_vars => ExchangeInv'
<1> SUFFICES ASSUME ExchangeInv, [Next]_vars PROVE ExchangeInv'
  OBVIOUS
<1>1. CASE Client
  BY <1>1, ConnectsKeeps, CannotConnectKeeps, AskKeeps, StopKeeps, WritesKeeps,
     WritesToNobodyKeeps, KilledKeeps, ReadsKeeps, ReadsEndKeeps, ReadFailsKeeps,
     AcceptsKeeps, CannotParseKeeps DEF Client
<1>2. CASE Coroutine
  BY <1>2, ServerReadsKeeps, HandlesKeeps, ServerReadsEndKeeps, ServerWritesKeeps
     DEF Coroutine
<1>3. CASE ServerDrops \/ ClientWriteTimesOut \/ ClientReadTimesOut
  BY <1>3, ServerDropsKeeps, WriteTimesOutKeeps, ReadTimesOutKeeps
<1>4. CASE UNCHANGED vars
  <2>1. /\ UNCHANGED <<service, program, asked, handled, replies, reader, timedout, dropped>>
        /\ UNCHANGED <<pc, msg, answerSize, failure, copc, cobuf, coleft, cokeep>>
        /\ UNCHANGED <<opened, socket, buffer, eagain, outbox, inbox, peer, rst>>
    BY <1>4 DEF vars, clientVars, serverVars, tcpVars, objectVars, wireVars
  <2>2. /\ Question' = Question /\ Answer' = Answer /\ Keeps' = Keeps
        /\ Requests' = Requests /\ Replies' = Replies
    BY <2>1, SameQuestion
  <2>3. ExchangeTypes'
    BY <2>1, <2>2 DEF ExchangeInv, ExchangeTypes
  <2>4. pc' = "connect" => Connecting'
    BY <2>1 DEF ExchangeInv, Connecting
  <2>5. pc' = "ask" => Between'
    BY <2>1 DEF ExchangeInv, Between, Listening, Dropped
  <2>6. pc' = "write" => Writing'
    BY <2>1, <2>2 DEF ExchangeInv, Writing, Listening, Dropped
  <2>7. pc' = "read" => Reading'
    BY <2>1, ReadingKept DEF ExchangeInv, Reading
  <2>8. FailsForCause'
    <3>1. WrongSize' <=> WrongSize
      BY <2>1, SameSize
    <3> QED BY <2>1, <3>1 DEF ExchangeInv, FailsForCause
  <2> QED BY <2>3, <2>4, <2>5, <2>6, <2>7, <2>8 DEF ExchangeInv
<1> QED
  BY <1>1, <1>2, <1>3, <1>4 DEF Next

\* Of an exchange between any client and server of the library it is known at
\* every moment where each part of the question and of the answer is: written,
\* under way, or in the peer's buffer, none lost, twice or out of order.
THEOREM ExchangeInvariant == Spec => []ExchangeInv
<1>1. Init => ExchangeInv
  BY InitKeeps
<1>2. ExchangeInv /\ [Next]_vars => ExchangeInv'
  BY NextKeeps
<1> QED
  BY <1>1, <1>2, PTL DEF Spec

\* A client gives up only because the server dropped it, because readExact took
\* the end of a time-out for the end of the file or was asked for another size
\* than the answer's, or because connect() found the socket of a connection
\* that ended: whatever it asks, whatever size it takes the answer to have,
\* however the texts are cut into reads and writes, and whenever time-outs end.
THEOREM FailuresHaveCause == Spec => []FailsForCause
<1>1. ExchangeInv => FailsForCause
  BY DEF ExchangeInv
<1> QED
  BY <1>1, ExchangeInvariant, PTL

LEMMA StepIsService ==
    ExchangeInv /\ [Next]_vars => [RR!RrNext]_(RR!rrVars)
<1> SUFFICES ASSUME ExchangeInv, [Next]_vars PROVE [RR!RrNext]_(RR!rrVars)
  OBVIOUS
<1>1. ExchangeTypes /\ asked \in Nat
  BY ProgramFacts DEF ExchangeInv
<1>2. CASE Ask
  <2>1. Between
    BY <1>2 DEF ExchangeInv, Ask
  <2>2. RR!Ask
    BY <1>2, <2>1 DEF RR!Ask, Ask, Between, Others
  <2> QED BY <2>2 DEF RR!RrNext
<1>3. CASE ServerHandles
  <2>1. /\ asked >= 1 /\ Len(handled) = asked - 1
        /\ handled' = Append(handled, WithLength(program[asked]))
    BY <1>3, HandlesWhole DEF Asked
  <2>2. UNCHANGED <<service, program, asked, replies>>
    BY <1>3 DEF ServerHandles, Others
  <2>3. RR!Handle
    BY <1>1, <2>1, <2>2 DEF RR!Handle
  <2> QED BY <2>3 DEF RR!RrNext
<1>4. CASE ClientAccepts
  <2>1. /\ asked >= 1 /\ Len(handled) = asked /\ Len(replies) = asked - 1
        /\ replies' = Append(replies, ReplyTo(service, program[asked]))
    BY <1>4, AcceptsWhole DEF Answered, Reading
  <2>2. UNCHANGED <<service, program, asked, handled>>
    BY <1>4 DEF ClientAccepts, Others
  <2>3. RR!Get
    BY <1>1, <2>1, <2>2 DEF RR!Get
  <2> QED BY <2>3 DEF RR!RrNext
<1>5. CASE \/ ClientConnects \/ ClientCannotConnect \/ Stop \/ ClientWrites
           \/ ClientWritesToNobody \/ ClientKilled \/ ClientReads \/ ClientReadsEnd
           \/ ClientReadFails \/ ClientWriteTimesOut \/ ClientReadTimesOut
           \/ ClientCannotParse
  <2>1. UNCHANGED <<service, program, asked, handled, replies>>
    BY <1>5 DEF ClientCannotParse, ClientConnects, ClientCannotConnect, Stop, ClientWrites,
                ClientWritesToNobody, ClientKilled, ClientReads, ClientReadsEnd,
                ClientReadFails, ClientWriteTimesOut, ClientReadTimesOut, GiveUp,
                Others, History
  <2> QED BY <2>1 DEF RR!rrVars
<1>6. CASE \/ ServerReads \/ ServerReadsEnd \/ ServerWrites \/ ServerWriteFails
           \/ ServerDrops
  <2>1. UNCHANGED <<service, program, asked, handled, replies>>
    BY <1>6 DEF ServerReads, ServerReadsEnd, ServerWrites, ServerWriteFails,
                ServerDrops, Others, History
  <2> QED BY <2>1 DEF RR!rrVars
<1>7. CASE UNCHANGED vars
  BY <1>7 DEF vars, RR!rrVars
<1> QED
  BY <1>2, <1>3, <1>4, <1>5, <1>6, <1>7 DEF Next, Client, Coroutine

\* From end to end the library is a service that is asked, and replies, once
\* and in order: what onRequest is given is the request that was asked, what
\* the client gets is the whole reply to it.
THEOREM ExchangeServes == Spec => RequestReply
<1>1. Init => RR!RrInit
  BY DEF Init, RR!RrInit
<1>2. ExchangeInv /\ [Next]_vars => [RR!RrNext]_(RR!rrVars)
  BY StepIsService
<1> QED
  BY <1>1, <1>2, ExchangeInvariant, PTL DEF Spec, RequestReply, RR!RrSpec
=============================================================================
