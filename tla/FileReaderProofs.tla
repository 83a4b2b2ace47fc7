--------------------------- MODULE FileReaderProofs ---------------------------
(***************************************************************************)
(* The binary search of FileReader, for every ascending file, every key    *)
(* and whatever is behind the file: its window never loses the entry, and  *)
(* what it finds is an entry of the file, or what is behind it if that     *)
(* happens to continue the file's order and to be what is looked for.      *)
(***************************************************************************)
EXTENDS FileReader, SequenceTheorems, TLAPS

WindowTypes ==
    /\ file \in Files /\ past \in Past /\ pc \in {"idle", "search"} /\ key \in Nat
    /\ l \in 1 .. End + 1 /\ r \in 0 .. End

\* What the search has ruled out: all below l is smaller, all above r larger.
RuledOut ==
    pc = "search" =>
        \A i \in DOMAIN Readable : (i < l => Readable[i] < key)
                                     /\ (i > r => Readable[i] > key)

WindowInv == WindowTypes /\ RuledOut

\* A file is a sequence of at least one natural number.
LEMMA FileFacts ==
    ASSUME file \in Files
    PROVE  /\ Len(file) \in Nat \ {0} /\ DOMAIN file = 1 .. Len(file)
           /\ \A i \in DOMAIN file : file[i] \in Nat
           /\ \A i, j \in DOMAIN file : i < j => file[i] < file[j]
<1>1. file \in Seq(Keys) /\ file # <<>> BY FilesAssumption
<1>2. Len(file) \in Nat /\ DOMAIN file = 1 .. Len(file) BY <1>1
<1>3. Len(file) # 0 BY <1>1
<1>4. \A i \in DOMAIN file : file[i] \in Nat
  <2>1. TAKE i \in DOMAIN file
  <2>2. i \in 1 .. Len(file) BY <1>2
  <2>3. file[i] \in Keys BY <1>1, <2>2
  <2> QED BY <2>3, FilesAssumption
<1> QED BY <1>2, <1>3, <1>4, FilesAssumption

\* So is what the search can find, and a probe of it reads its key.
LEMMA ReadableFacts ==
    ASSUME file \in Files, past \in Past
    PROVE  /\ Len(Readable) \in Nat \ {0} /\ DOMAIN Readable = 1 .. Len(Readable)
           /\ Len(file) <= Len(Readable) /\ Len(Readable) <= End
           /\ \A i \in DOMAIN Readable : Readable[i] \in Nat /\ Readable[i] = Probed(i)
           /\ \A i, j \in DOMAIN Readable : i < j => Readable[i] < Readable[j]
           /\ \A i \in DOMAIN file : i \in DOMAIN Readable /\ Readable[i] = file[i]
           /\ End \in DOMAIN Readable <=> past > file[Len(file)]
<1>1. /\ Len(file) \in Nat \ {0} /\ DOMAIN file = 1 .. Len(file)
      /\ \A i \in DOMAIN file : file[i] \in Nat
      /\ \A i, j \in DOMAIN file : i < j => file[i] < file[j]
  BY FileFacts
<1>2. past \in Nat \union {-1} /\ file \in Seq(Nat)
  <2>1. file \in Seq(Keys) BY FilesAssumption
  <2>2. \A i \in 1 .. Len(file) : file[i] \in Nat BY <1>1
  <2> QED BY <2>1, <2>2, PastAssumption DEF Unmapped
<1>3. CASE past > file[Len(file)]
  <2>1. past \in Nat BY <1>1, <1>2, <1>3
  <2>2. /\ Len(Append(file, past)) = Len(file) + 1
        /\ DOMAIN Append(file, past) = 1 .. Len(file) + 1
        /\ \A i \in 1 .. Len(file) : Append(file, past)[i] = file[i]
        /\ Append(file, past)[Len(file) + 1] = past
    BY <1>2, <2>1
  <2>3. Readable = Append(file, past) BY <1>3 DEF Readable
  <2>4. \A i \in 1 .. Len(file) : file[i] = file[Len(file)] \/ file[i] < file[Len(file)]
    BY <1>1
  <2>5. \A i \in 1 .. Len(file) : file[i] < past BY <1>1, <1>3, <2>1, <2>4
  <2> QED BY <1>1, <1>3, <2>1, <2>2, <2>3, <2>5 DEF End, Probed
<1>4. CASE ~(past > file[Len(file)])
  <2>1. Readable = file BY <1>4 DEF Readable
  <2> QED BY <1>1, <1>4, <2>1 DEF End, Probed
<1> QED BY <1>3, <1>4

LEMMA SameReadable ==
    ASSUME UNCHANGED <<file, past>>
    PROVE  Readable' = Readable
BY DEF Readable

\* The probe is in the window.
LEMMA MiddleBounds ==
    ASSUME WindowTypes, Probing
    PROVE  Middle \in Int /\ l <= Middle /\ Middle <= r /\ Middle \in 1 .. End
<1>1. Len(file) \in Nat BY FileFacts DEF WindowTypes
<1>2. l \in Int /\ r \in Int /\ l <= r /\ 1 <= l /\ r <= Len(file) + 1
  BY <1>1 DEF WindowTypes, Probing, End
<1>3. (r - l) \div 2 \in Int /\ 0 <= (r - l) \div 2 /\ (r - l) \div 2 <= r - l
  BY <1>2
<1> QED BY <1>1, <1>2, <1>3 DEF Middle, End

\* The only probe that is not of the file has everything below it ruled out.
LEMMA PastIsLast ==
    ASSUME WindowInv, Probing, Middle = End
    PROVE  l = End /\ r = End
<1>1. Len(file) \in Nat BY FileFacts DEF WindowInv, WindowTypes
<1>2. l \in Int /\ r \in Int /\ l <= r /\ 1 <= l /\ r <= End /\ End \in Int
  BY <1>1 DEF WindowInv, WindowTypes, Probing, End
<1>3. End = l + ((r - l) \div 2) BY DEF Middle
<1> QED BY <1>2, <1>3

\* What the search finds is what it can find.
LEMMA FoundReadable ==
    ASSUME WindowInv, Probing, Mapped(Middle), Probed(Middle) = key
    PROVE  Middle \in DOMAIN Readable /\ Readable[Middle] = key
<1>1. /\ Len(file) \in Nat \ {0} /\ DOMAIN file = 1 .. Len(file)
      /\ \A i \in DOMAIN file : file[i] \in Nat
  BY FileFacts DEF WindowInv, WindowTypes
<1>2. Middle \in 1 .. End BY MiddleBounds DEF WindowInv
<1>3. /\ \A i \in DOMAIN Readable : Readable[i] = Probed(i)
      /\ \A i \in DOMAIN file : i \in DOMAIN Readable /\ Readable[i] = file[i]
      /\ End \in DOMAIN Readable <=> past > file[Len(file)]
  BY ReadableFacts DEF WindowInv, WindowTypes
<1>4. ASSUME Middle = End PROVE Middle \in DOMAIN Readable
  <2>1. key = past BY <1>4 DEF Probed
  <2>2. l = Len(file) + 1 BY <1>4, PastIsLast DEF End
  <2>3. Len(file) \in DOMAIN file /\ Len(file) < l BY <1>1, <2>2
  <2>4. file[Len(file)] < key
    BY <1>3, <2>3 DEF WindowInv, RuledOut, Probing
  <2>5. past > file[Len(file)] BY <2>1, <2>4, <1>1, <2>3 DEF WindowInv, WindowTypes
  <2> QED BY <1>3, <1>4, <2>5
<1>5. Middle # End => Middle \in DOMAIN file BY <1>1, <1>2 DEF End
<1> QED BY <1>3, <1>4, <1>5

\* One probe keeps what was ruled out and adds one side of the probe to it.
LEMMA NarrowKeeps == ASSUME WindowInv, Narrow PROVE WindowInv'
<1>1. /\ Len(file) \in Nat \ {0}
      /\ Len(Readable) \in Nat \ {0} /\ DOMAIN Readable = 1 .. Len(Readable)
      /\ Len(file) <= Len(Readable) /\ Len(Readable) <= End
      /\ \A i \in DOMAIN Readable : Readable[i] \in Nat /\ Readable[i] = Probed(i)
      /\ \A i, j \in DOMAIN Readable : i < j => Readable[i] < Readable[j]
  BY FileFacts, ReadableFacts DEF WindowInv, WindowTypes
<1>2. Probing /\ Probed(Middle) # key BY DEF Narrow
<1>3. Middle \in 1 .. End BY <1>2, MiddleBounds DEF WindowInv
<1>4. UNCHANGED <<file, past, pc, key>> /\ Readable' = Readable
  BY SameReadable DEF Narrow
<1>5. l \in Int /\ r \in Int /\ key \in Nat /\ 1 <= l /\ r <= End
  BY <1>1 DEF WindowInv, WindowTypes, End
<1>6. \A i \in DOMAIN Readable : (i < l => Readable[i] < key)
                                    /\ (i > r => Readable[i] > key)
  BY <1>2 DEF WindowInv, RuledOut, Probing
<1>7. CASE Probed(Middle) < key
  <2>1. l' = Middle + 1 /\ r' = r BY <1>7 DEF Narrow
  <2>2. \A i \in DOMAIN Readable : i < Middle + 1 => Readable[i] < key
    <3> SUFFICES ASSUME NEW i \in DOMAIN Readable, i < Middle + 1
                 PROVE  Readable[i] < key
      OBVIOUS
    <3>1. CASE Middle \in DOMAIN Readable
      <4>1. Readable[Middle] < key BY <3>1, <1>1, <1>7
      <4>2. i = Middle \/ Readable[i] < Readable[Middle] BY <3>1, <1>1, <1>3
      <4> QED BY <4>1, <4>2, <3>1, <1>1, <1>5
    <3>2. CASE Middle \notin DOMAIN Readable
      <4>1. Middle = End BY <3>2, <1>1, <1>3 DEF End
      <4>2. i < l
        BY <3>2, <4>1, <1>1, <1>2, PastIsLast DEF End
      <4> QED BY <4>2, <1>6
    <3> QED BY <3>1, <3>2
  <2>3. WindowTypes' BY <1>1, <1>3, <1>4, <2>1 DEF WindowInv, WindowTypes, End
  <2>4. RuledOut' BY <1>4, <1>6, <2>1, <2>2 DEF RuledOut
  <2> QED BY <2>3, <2>4 DEF WindowInv
<1>8. CASE ~(Probed(Middle) < key)
  <2>1. r' = Middle - 1 /\ l' = l BY <1>8 DEF Narrow
  <2>2. \A i \in DOMAIN Readable : i > Middle - 1 => Readable[i] > key
    <3> SUFFICES ASSUME NEW i \in DOMAIN Readable, i > Middle - 1
                 PROVE  Readable[i] > key
      OBVIOUS
    <3>1. Middle \in DOMAIN Readable BY <1>1, <1>3
    <3>2. Readable[Middle] > key BY <3>1, <1>1, <1>2, <1>5, <1>8
    <3>3. i = Middle \/ Readable[Middle] < Readable[i] BY <3>1, <1>1, <1>3
    <3> QED BY <3>1, <3>2, <3>3, <1>1, <1>5
  <2>3. WindowTypes' BY <1>1, <1>3, <1>4, <2>1 DEF WindowInv, WindowTypes, End
  <2>4. RuledOut' BY <1>4, <1>6, <2>1, <2>2 DEF RuledOut
  <2> QED BY <2>3, <2>4 DEF WindowInv
<1> QED BY <1>7, <1>8

\* WindowInv holds at the start and after every step.
LEMMA WindowStep == WindowInv /\ [Next]_vars => WindowInv'
<1> SUFFICES ASSUME WindowInv, [Next]_vars PROVE WindowInv'
  OBVIOUS
<1>1. ASSUME NEW k \in Keys, GetCached(k) PROVE WindowInv'
  BY <1>1 DEF GetCached, searchVars, WindowInv, WindowTypes, RuledOut, End, Readable
<1>2. ASSUME NEW k \in Keys, GetMissed(k) PROVE WindowInv'
  <2>1. /\ Len(file) \in Nat \ {0} /\ DOMAIN Readable = 1 .. Len(Readable)
        /\ Len(Readable) \in Nat /\ Len(Readable) <= Len(file) + 1
    BY FileFacts, ReadableFacts DEF WindowInv, WindowTypes, End
  <2>2. k \in Nat BY FilesAssumption
  <2>3. UNCHANGED <<file, past>> /\ pc' = "search" /\ key' = k /\ l' = 1 /\ r' = Len(file) + 1
    BY <1>2 DEF GetMissed, End
  <2>4. WindowTypes' BY <2>1, <2>2, <2>3 DEF WindowInv, WindowTypes, End
  <2>5. RuledOut' BY <2>1, <2>3, SameReadable DEF RuledOut
  <2> QED BY <2>4, <2>5 DEF WindowInv
<1>3. CASE Narrow BY <1>3, NarrowKeeps
<1>4. CASE Find
  BY <1>4 DEF Find, searchVars, WindowInv, WindowTypes, RuledOut, End, Readable
<1>5. CASE FindUncacheable
  BY <1>5 DEF FindUncacheable, searchVars, WindowInv, WindowTypes, RuledOut, End, Readable
<1>6. CASE ProbeUnmapped
  BY <1>6 DEF ProbeUnmapped, searchVars, WindowInv, WindowTypes, RuledOut, End, Readable
<1>7. CASE NotFound
  BY <1>7 DEF NotFound, searchVars, WindowInv, WindowTypes, RuledOut, End, Readable
<1>8. CASE UNCHANGED vars
  BY <1>8 DEF vars, searchVars, WindowInv, WindowTypes, RuledOut, End, Readable
<1> QED BY <1>1, <1>2, <1>3, <1>4, <1>5, <1>6, <1>7, <1>8 DEF Next, Search

\* The search has only ever ruled out what it may.
THEOREM WindowInvariant == Spec => []WindowInv
<1>1. Init => WindowInv
  <2> SUFFICES ASSUME Init PROVE WindowInv
    OBVIOUS
  <2>1. file \in Files /\ past \in Past BY DEF Init
  <2>2. Len(file) \in Nat BY <2>1, FileFacts
  <2> QED BY <2>1, <2>2 DEF Init, WindowInv, WindowTypes, RuledOut, End
<1> QED BY <1>1, WindowStep, PTL DEF Spec

\* binSearchEntry never narrows its window past the entry it looks for.
THEOREM WindowKeepsEntry == Spec => []SearchWindow
<1>1. WindowInv => SearchWindow
  <2> SUFFICES ASSUME WindowInv, pc = "search",
                      NEW i \in DOMAIN file, file[i] = key
               PROVE  l <= i /\ i <= r
    BY DEF SearchWindow
  <2>1. /\ i \in Int /\ file[i] \in Nat
        /\ i \in DOMAIN Readable /\ Readable[i] = file[i]
    BY FileFacts, ReadableFacts DEF WindowInv, WindowTypes
  <2>2. l \in Int /\ r \in Int
    BY FileFacts DEF WindowInv, WindowTypes, End
  <2> QED BY <2>1, <2>2 DEF WindowInv, RuledOut
<1> QED BY <1>1, WindowInvariant, PTL

-----------------------------------------------------------------------------
(* Facts about sequences *)

LEMMA RemoveAtFacts ==
    ASSUME NEW T, NEW s \in Seq(T), NEW p \in DOMAIN s
    PROVE  /\ RemoveAt(s, p) \in Seq(T) /\ Len(RemoveAt(s, p)) = Len(s) - 1
           /\ \A i \in 1 .. Len(s) - 1 :
                 RemoveAt(s, p)[i] = IF i < p THEN s[i] ELSE s[i + 1]
<1> DEFINE a == SubSeq(s, 1, p - 1)
           b == SubSeq(s, p + 1, Len(s))
<1>1. p \in 1 .. Len(s) /\ Len(s) \in Nat /\ p \in Nat
  OBVIOUS
<1>2. a \in Seq(T) /\ Len(a) = p - 1 /\ \A i \in 1 .. p - 1 : a[i] = s[i]
  BY <1>1
<1>3. b \in Seq(T) /\ Len(b) = Len(s) - p /\ \A i \in 1 .. Len(s) - p : b[i] = s[i + p]
  BY <1>1
<1>4. RemoveAt(s, p) = a \o b
  BY DEF RemoveAt
<1> HIDE DEF a, b
<1>5. /\ a \o b \in Seq(T) /\ Len(a \o b) = Len(s) - 1
  BY <1>1, <1>2, <1>3
<1>6. ASSUME NEW i \in 1 .. Len(s) - 1
      PROVE (a \o b)[i] = IF i < p THEN s[i] ELSE s[i + 1]
  <2>1. CASE i < p
    <3>1. i \in 1 .. Len(a) BY <1>1, <1>2, <2>1
    <3>2. (a \o b)[i] = a[i] BY <1>2, <1>3, <3>1
    <3> QED BY <1>1, <1>2, <2>1, <3>2
  <2>2. CASE ~(i < p)
    <3>1. i - Len(a) \in 1 .. Len(b) BY <1>1, <1>2, <1>3, <2>2
    <3>2. (a \o b)[i] = b[i - Len(a)]
      <4>1. i \in 1 .. Len(a) + Len(b) /\ ~(i <= Len(a))
        BY <1>1, <1>2, <1>3, <2>2
      <4> QED BY <1>2, <1>3, <4>1, ConcatProperties
    <3>3. b[i - Len(a)] = s[i - Len(a) + p] BY <1>1, <1>2, <1>3, <3>1
    <3> QED BY <1>1, <1>2, <2>2, <3>2, <3>3
  <2> QED BY <2>1, <2>2
<1> QED
  BY <1>4, <1>5, <1>6

LEMMA FrontFacts ==
    ASSUME NEW T, NEW s \in Seq(T), s # <<>>
    PROVE  /\ Front(s) \in Seq(T) /\ Len(Front(s)) = Len(s) - 1
           /\ \A i \in 1 .. Len(s) - 1 : Front(s)[i] = s[i]
           /\ Len(s) \in DOMAIN s /\ Last(s) = s[Len(s)]
<1>1. Len(s) \in Nat \ {0}
  OBVIOUS
<1> DEFINE n == Len(s) - 1
<1>2. n \in Nat /\ \A i \in 1 .. n : s[i] \in T
  BY <1>1
<1>3. /\ Front(s) \in Seq(T) /\ Len(Front(s)) = n
      /\ \A i \in 1 .. n : Front(s)[i] = s[i]
  <2> HIDE DEF n
  <2>1. /\ SubSeq(s, 1, n) \in Seq(T)
        /\ Len(SubSeq(s, 1, n)) = IF 1 <= n THEN n - 1 + 1 ELSE 0
        /\ \A i \in 1 .. n - 1 + 1 : SubSeq(s, 1, n)[i] = s[1 + i - 1]
    BY <1>2, SubSeqProperties
  <2>2. Front(s) = SubSeq(s, 1, n)
    BY DEF Front, n
  <2> HIDE DEF Front
  <2>3. n - 1 + 1 = n /\ \A i \in 1 .. n : 1 + i - 1 = i
    BY <1>2
  <2> QED
    BY <1>2, <2>1, <2>2, <2>3
<1>4. Len(s) \in DOMAIN s /\ Last(s) = s[Len(s)]
  BY <1>1 DEF Last
<1> QED
  BY <1>3, <1>4

LEMMA ConsFacts ==
    ASSUME NEW T, NEW s \in Seq(T), NEW x \in T
    PROVE  /\ Cons(x, s) \in Seq(T) /\ Len(Cons(x, s)) = Len(s) + 1
           /\ Cons(x, s)[1] = x
           /\ \A i \in 1 .. Len(s) : Cons(x, s)[i + 1] = s[i]
           /\ \A i \in 2 .. Len(s) + 1 : Cons(x, s)[i] = s[i - 1]
  BY DEF Cons

LEMMA ConsKeys ==
    \A s \in Seq(Keys), x \in Keys :
        /\ Cons(x, s) \in Seq(Keys) /\ Len(Cons(x, s)) = Len(s) + 1
        /\ Cons(x, s)[1] = x
        /\ \A i \in 1 .. Len(s) : Cons(x, s)[i + 1] = s[i]
        /\ \A i \in 2 .. Len(s) + 1 : Cons(x, s)[i] = s[i - 1]
<1>1. TAKE s \in Seq(Keys), x \in Keys
<1> QED
  BY DEF Cons

LEMMA ConsNodes ==
    \A s \in Seq(Nodes), x \in Nodes :
        /\ Cons(x, s) \in Seq(Nodes) /\ Len(Cons(x, s)) = Len(s) + 1
        /\ Cons(x, s)[1] = x
        /\ \A i \in 1 .. Len(s) : Cons(x, s)[i + 1] = s[i]
        /\ \A i \in 2 .. Len(s) + 1 : Cons(x, s)[i] = s[i - 1]
<1>1. TAKE s \in Seq(Nodes), x \in Nodes
<1> QED
  BY DEF Cons

\* Adding in front and dropping at the end do not disturb each other.
LEMMA FrontCons ==
    \A s \in Seq(Keys), x \in Keys :
        s # <<>> => Front(Cons(x, s)) = Cons(x, Front(s))
<1> SUFFICES ASSUME NEW s \in Seq(Keys), NEW x \in Keys, s # <<>>
             PROVE  Front(Cons(x, s)) = Cons(x, Front(s))
  OBVIOUS
<1> DEFINE a == Front(Cons(x, s))
           b == Cons(x, Front(s))
<1>1. Len(s) \in Nat \ {0}
  OBVIOUS
<1>2. /\ Front(s) \in Seq(Keys) /\ Len(Front(s)) = Len(s) - 1
      /\ \A i \in 1 .. Len(s) - 1 : Front(s)[i] = s[i]
  BY FrontFacts
<1>3. /\ b \in Seq(Keys) /\ Len(b) = Len(Front(s)) + 1 /\ b[1] = x
      /\ \A i \in 2 .. Len(Front(s)) + 1 : b[i] = Front(s)[i - 1]
  BY <1>2, ConsKeys
<1>4. /\ Cons(x, s) \in Seq(Keys) /\ Len(Cons(x, s)) = Len(s) + 1 /\ Cons(x, s)[1] = x
      /\ \A i \in 2 .. Len(s) + 1 : Cons(x, s)[i] = s[i - 1]
  BY ConsKeys
<1>5. Cons(x, s) # <<>>
  BY <1>1, <1>4
<1>6. /\ a \in Seq(Keys) /\ Len(a) = Len(Cons(x, s)) - 1
      /\ \A i \in 1 .. Len(Cons(x, s)) - 1 : a[i] = Cons(x, s)[i]
  BY <1>4, <1>5, FrontFacts
<1> HIDE DEF a, b
<1>7. Len(a) = Len(s) /\ Len(b) = Len(s)
  BY <1>1, <1>2, <1>3, <1>4, <1>6
<1>8. ASSUME NEW i \in 1 .. Len(a)
      PROVE  a[i] = b[i]
  <2>1. i \in 1 .. Len(s) /\ a[i] = Cons(x, s)[i]
    BY <1>1, <1>4, <1>6, <1>7
  <2>2. CASE i = 1
    BY <1>3, <1>4, <2>1, <2>2
  <2>3. CASE i # 1
    <3>1. i \in 2 .. Len(s) + 1 /\ i \in 2 .. Len(Front(s)) + 1
          /\ i - 1 \in 1 .. Len(s) - 1
      BY <1>1, <1>2, <2>1, <2>3
    <3> QED
      BY <1>2, <1>3, <1>4, <2>1, <3>1
  <2> QED
    BY <2>2, <2>3
<1> QED
  BY <1>3, <1>6, <1>7, <1>8, SeqEqual DEF a, b

-----------------------------------------------------------------------------
(* The cache: its list and its map stay in step *)

Cache == [list : Seq(Nodes), key : [Nodes -> Nat], entry : [Nodes -> Nat],
          map : [Keys -> Nodes \union {NoNode}]]

CacheSound(c) ==
    c \in Cache /\ InStep(c) /\ \A n \in ToSet(c.list) : c.key[n] \in Keys

\* A key that is in the map has its node at one place of the list.
LEMMA PlaceFacts ==
    ASSUME NEW c, CacheSound(c), NEW k \in Keys, Has(c, k)
    PROVE  /\ c.map[k] \in Nodes
           /\ Place(c, c.map[k]) \in DOMAIN c.list
           /\ c.list[Place(c, c.map[k])] = c.map[k]
           /\ c.key[c.map[k]] = k
<1>1. c.map[k] \in Nodes
  BY DEF CacheSound, Cache, Has
<1>2. c.map[k] \in ToSet(c.list) /\ c.key[c.map[k]] = k
  BY <1>1 DEF CacheSound, InStep
<1>3. \E i \in DOMAIN c.list : c.list[i] = c.map[k]
  BY <1>2 DEF ToSet
<1> QED
  BY <1>1, <1>2, <1>3 DEF Place

\* remove() takes the key and its node, and nothing else.
LEMMA EraseSound ==
    ASSUME NEW c, CacheSound(c), NEW k \in Keys, Has(c, k)
    PROVE  LET e == Erase(c, k)
               p == Place(c, c.map[k]) IN
           /\ CacheSound(e) /\ ~Has(e, k) /\ p \in DOMAIN c.list
           /\ e.list = RemoveAt(c.list, p) /\ Len(e.list) = Len(c.list) - 1
           /\ e.key = c.key /\ e.entry = c.entry
           /\ ToSet(e.list) \subseteq ToSet(c.list) \ {c.map[k]}
<1> DEFINE e == Erase(c, k)
           p == Place(c, c.map[k])
           s == RemoveAt(c.list, p)
           m == [c.map EXCEPT ![k] = NoNode]
<1>1. c \in Cache /\ c.list \in Seq(Nodes) /\ c.map \in [Keys -> Nodes \union {NoNode}]
  BY DEF CacheSound, Cache
<1>2. p \in DOMAIN c.list /\ c.list[p] = c.map[k] /\ c.map[k] \in Nodes
      /\ c.key[c.map[k]] = k
  BY PlaceFacts
<1>3. e = [c EXCEPT !.list = s, !.map = m]
  BY DEF Erase, Has
<1>4. /\ s \in Seq(Nodes) /\ Len(s) = Len(c.list) - 1
      /\ \A i \in 1 .. Len(c.list) - 1 :
            s[i] = IF i < p THEN c.list[i] ELSE c.list[i + 1]
  BY <1>1, <1>2, RemoveAtFacts
<1>5. m \in [Keys -> Nodes \union {NoNode}] /\ m[k] = NoNode
      /\ \A q \in Keys \ {k} : m[q] = c.map[q]
  BY <1>1
<1> HIDE DEF s, m, e, p
<1>6. e \in Cache /\ e.list = s /\ e.map = m /\ e.key = c.key /\ e.entry = c.entry
  BY <1>1, <1>3, <1>4, <1>5 DEF Cache
<1>7. \A i, j \in DOMAIN c.list : c.list[i] = c.list[j] => i = j
  BY DEF CacheSound, InStep
<1>8. DOMAIN s = 1 .. Len(c.list) - 1 /\ DOMAIN c.list = 1 .. Len(c.list)
      /\ Len(c.list) \in Nat
  BY <1>1, <1>4
<1>9. \A i, j \in DOMAIN s : s[i] = s[j] => i = j
  <2>1. TAKE i, j \in DOMAIN s
  <2> DEFINE a == IF i < p THEN i ELSE i + 1
             b == IF j < p THEN j ELSE j + 1
  <2>2. a \in DOMAIN c.list /\ b \in DOMAIN c.list /\ s[i] = c.list[a] /\ s[j] = c.list[b]
    <3>1. a \in DOMAIN c.list /\ s[i] = c.list[a]
      BY <1>2, <1>4, <1>8
    <3>2. b \in DOMAIN c.list /\ s[j] = c.list[b]
      BY <1>2, <1>4, <1>8
    <3> QED
      BY <3>1, <3>2
  <2>3. i \in Int /\ j \in Int /\ p \in Int
    BY <1>2, <1>8
  <2>4. a = b => i = j
    BY <2>3
  <2> QED
    BY <1>7, <2>2, <2>4
<1>10. \A n : n \in ToSet(s) <=> n \in ToSet(c.list) /\ n # c.map[k]
  <2>1. TAKE n
  <2>2. ASSUME n \in ToSet(s) PROVE n \in ToSet(c.list) /\ n # c.map[k]
    <3>1. PICK i \in DOMAIN s : s[i] = n
      BY <2>2 DEF ToSet
    <3> DEFINE a == IF i < p THEN i ELSE i + 1
    <3>2. a \in DOMAIN c.list /\ c.list[a] = n /\ a # p
      BY <1>2, <1>4, <1>8, <3>1
    <3> QED
      BY <1>2, <1>7, <3>2 DEF ToSet
  <2>3. ASSUME n \in ToSet(c.list), n # c.map[k] PROVE n \in ToSet(s)
    <3>1. PICK i \in DOMAIN c.list : c.list[i] = n
      BY <2>3 DEF ToSet
    <3>2. i # p /\ i \in 1 .. Len(c.list) /\ p \in 1 .. Len(c.list)
      BY <1>2, <1>8, <2>3, <3>1
    <3> DEFINE a == IF i < p THEN i ELSE i - 1
    <3>3. a \in DOMAIN s
      BY <1>8, <3>2
    <3>4. s[a] = n
      BY <1>4, <1>8, <3>1, <3>2
    <3> QED
      BY <3>3, <3>4 DEF ToSet
  <2> QED
    BY <2>2, <2>3
<1>11. \A q \in Keys, n \in Nodes : m[q] = n <=> n \in ToSet(s) /\ c.key[n] = q
  <2>1. TAKE q \in Keys, n \in Nodes
  <2>2. c.map[q] = n <=> n \in ToSet(c.list) /\ c.key[n] = q
    BY DEF CacheSound, InStep
  <2>3. CASE q = k
    BY <1>5, <1>10, <2>2, <2>3, NodesAssumption
  <2>4. CASE q # k
    BY <1>2, <1>5, <1>10, <2>2, <2>4
  <2> QED
    BY <2>3, <2>4
<1>12. InStep(e)
  BY <1>6, <1>9, <1>11 DEF InStep
<1>13. CacheSound(e)
  BY <1>6, <1>10, <1>12 DEF CacheSound
<1> QED
  BY <1>2, <1>4, <1>5, <1>6, <1>10, <1>13 DEF Has, e, p, s

\* removeLRU() takes the last node of the list and its key.
LEMMA RemoveLRUSound ==
    ASSUME NEW c, CacheSound(c), c.list # <<>>
    PROVE  LET e == RemoveLRU(c) IN
           /\ CacheSound(e)
           /\ e.list = Front(c.list) /\ Len(e.list) = Len(c.list) - 1
           /\ e.key = c.key /\ e.entry = c.entry
           /\ ToSet(e.list) \subseteq ToSet(c.list)
           /\ \A q \in Keys : ~Has(c, q) => ~Has(e, q)
<1> DEFINE e == RemoveLRU(c)
           s == Front(c.list)
           x == Last(c.list)
           m == [c.map EXCEPT ![c.key[x]] = NoNode]
<1>1. c \in Cache /\ c.list \in Seq(Nodes) /\ c.map \in [Keys -> Nodes \union {NoNode}]
  BY DEF CacheSound, Cache
<1>2. /\ s \in Seq(Nodes) /\ Len(s) = Len(c.list) - 1
      /\ \A i \in 1 .. Len(c.list) - 1 : s[i] = c.list[i]
      /\ Len(c.list) \in DOMAIN c.list /\ x = c.list[Len(c.list)]
  BY <1>1, FrontFacts
<1>3. x \in ToSet(c.list) /\ x \in Nodes
  BY <1>1, <1>2 DEF ToSet
<1>4. c.key[x] \in Keys
  BY <1>3 DEF CacheSound
<1>5. c.map[c.key[x]] = x
  BY <1>3, <1>4 DEF CacheSound, InStep
<1>6. e = [c EXCEPT !.list = s, !.map = m]
  BY DEF RemoveLRU
<1>7. m \in [Keys -> Nodes \union {NoNode}] /\ m[c.key[x]] = NoNode
      /\ \A q \in Keys : q # c.key[x] => m[q] = c.map[q]
  BY <1>1, <1>4
<1> HIDE DEF s, m, e, x
<1>8. e \in Cache /\ e.list = s /\ e.map = m /\ e.key = c.key /\ e.entry = c.entry
  BY <1>1, <1>2, <1>6, <1>7 DEF Cache
<1>9. \A i, j \in DOMAIN c.list : c.list[i] = c.list[j] => i = j
  BY DEF CacheSound, InStep
<1>10. DOMAIN s = 1 .. Len(c.list) - 1 /\ DOMAIN c.list = 1 .. Len(c.list)
       /\ Len(c.list) \in Nat
  BY <1>1, <1>2
<1>11. \A i, j \in DOMAIN s : s[i] = s[j] => i = j
  BY <1>2, <1>9, <1>10
<1>12. \A n : n \in ToSet(s) <=> n \in ToSet(c.list) /\ n # x
  <2>1. TAKE n
  <2>2. ASSUME n \in ToSet(s) PROVE n \in ToSet(c.list) /\ n # x
    <3>1. PICK i \in DOMAIN s : s[i] = n
      BY <2>2 DEF ToSet
    <3>2. i \in DOMAIN c.list /\ c.list[i] = n /\ i # Len(c.list)
      BY <1>2, <1>10, <3>1
    <3> QED
      BY <1>2, <1>9, <3>2 DEF ToSet
  <2>3. ASSUME n \in ToSet(c.list), n # x PROVE n \in ToSet(s)
    <3>1. PICK i \in DOMAIN c.list : c.list[i] = n
      BY <2>3 DEF ToSet
    <3>2. i \in DOMAIN s /\ s[i] = n
      BY <1>2, <1>10, <2>3, <3>1
    <3> QED
      BY <3>2 DEF ToSet
  <2> QED
    BY <2>2, <2>3
<1>13. \A q \in Keys, n \in Nodes : m[q] = n <=> n \in ToSet(s) /\ c.key[n] = q
  <2>1. TAKE q \in Keys, n \in Nodes
  <2>2. c.map[q] = n <=> n \in ToSet(c.list) /\ c.key[n] = q
    BY DEF CacheSound, InStep
  <2>3. CASE q = c.key[x]
    BY <1>5, <1>7, <1>12, <2>2, <2>3, NodesAssumption
  <2>4. CASE q # c.key[x]
    BY <1>7, <1>12, <2>2, <2>4
  <2> QED
    BY <2>3, <2>4
<1>14. InStep(e)
  BY <1>8, <1>11, <1>13 DEF InStep
<1>15. CacheSound(e)
  BY <1>8, <1>12, <1>14 DEF CacheSound
<1> QED
  BY <1>2, <1>4, <1>7, <1>8, <1>12, <1>15 DEF Has, e, s

\* insert() in a free node of a key that is not there.
LEMMA InsertSound ==
    ASSUME NEW c, CacheSound(c), NEW k \in Keys, ~Has(c, k), NEW n \in Free(c),
           NEW v \in Nat
    PROVE  LET e == Insert(c, k, v, n) IN
           /\ CacheSound(e) /\ e.list = Cons(n, c.list) /\ Len(e.list) = Len(c.list) + 1
           /\ ToSet(e.list) = ToSet(c.list) \union {n} /\ n \notin ToSet(c.list)
           /\ e.key[n] = k /\ e.entry[n] = v
           /\ \A x \in Nodes \ {n} : e.key[x] = c.key[x] /\ e.entry[x] = c.entry[x]
<1> DEFINE e == Insert(c, k, v, n)
           s == Cons(n, c.list)
           y == [c.key EXCEPT ![n] = k]
           t == [c.entry EXCEPT ![n] = v]
           m == [c.map EXCEPT ![k] = n]
<1>1. /\ c \in Cache /\ c.list \in Seq(Nodes) /\ c.map \in [Keys -> Nodes \union {NoNode}]
      /\ c.key \in [Nodes -> Nat] /\ c.entry \in [Nodes -> Nat]
  BY DEF CacheSound, Cache
<1>2. n \in Nodes /\ n \notin ToSet(c.list) /\ k \in Nat
  BY FilesAssumption DEF Free
<1>3. /\ s \in Seq(Nodes) /\ Len(s) = Len(c.list) + 1 /\ s[1] = n
      /\ \A i \in 1 .. Len(c.list) : s[i + 1] = c.list[i]
      /\ \A i \in 2 .. Len(c.list) + 1 : s[i] = c.list[i - 1]
  <2>1. c.list \in Seq(Nodes) /\ n \in Nodes
    BY <1>1, <1>2
  <2>2. s \in Seq(Nodes) /\ Len(s) = Len(c.list) + 1 /\ s[1] = n
    BY <2>1, ConsNodes
  <2>3. \A i \in 1 .. Len(c.list) : s[i + 1] = c.list[i]
    BY <2>1, ConsNodes
  <2>4. \A i \in 2 .. Len(c.list) + 1 : s[i] = c.list[i - 1]
    BY <2>1, ConsNodes
  <2> QED
    BY <2>2, <2>3, <2>4
<1>4. e = [c EXCEPT !.list = s, !.key = y, !.entry = t, !.map = m]
  BY DEF Insert
<1>5. y \in [Nodes -> Nat] /\ y[n] = k /\ \A x \in Nodes \ {n} : y[x] = c.key[x]
  BY <1>1, <1>2
<1>6. t \in [Nodes -> Nat] /\ t[n] = v /\ \A x \in Nodes \ {n} : t[x] = c.entry[x]
  BY <1>1, <1>2
<1>7. m \in [Keys -> Nodes \union {NoNode}] /\ m[k] = n
      /\ \A q \in Keys \ {k} : m[q] = c.map[q]
  BY <1>1, <1>2
<1> HIDE DEF s, y, t, m, e
<1>8. e \in Cache /\ e.list = s /\ e.key = y /\ e.entry = t /\ e.map = m
  BY <1>1, <1>3, <1>4, <1>5, <1>6, <1>7 DEF Cache
<1>9. DOMAIN s = 1 .. Len(c.list) + 1 /\ DOMAIN c.list = 1 .. Len(c.list)
      /\ Len(c.list) \in Nat
  BY <1>1, <1>3
<1>10. \A i \in 2 .. Len(c.list) + 1 : i - 1 \in DOMAIN c.list
  BY <1>9
<1>11. \A i \in DOMAIN s : i = 1 \/ i \in 2 .. Len(c.list) + 1
  BY <1>9
<1>12. \A x : x \in ToSet(s) <=> x \in ToSet(c.list) \/ x = n
  <2>1. TAKE x
  <2>2. ASSUME x \in ToSet(s) PROVE x \in ToSet(c.list) \/ x = n
    BY <1>3, <1>10, <1>11, <2>2 DEF ToSet
  <2>3. ASSUME x \in ToSet(c.list) PROVE x \in ToSet(s)
    <3>1. PICK i \in DOMAIN c.list : c.list[i] = x
      BY <2>3 DEF ToSet
    <3>2. i + 1 \in DOMAIN s /\ s[i + 1] = x
      BY <1>3, <1>9, <3>1
    <3> QED
      BY <3>2 DEF ToSet
  <2>4. n \in ToSet(s)
    BY <1>3, <1>9 DEF ToSet
  <2> QED
    BY <2>2, <2>3, <2>4
<1>13. \A i \in 2 .. Len(c.list) + 1 : s[i] # n
  BY <1>2, <1>3, <1>10 DEF ToSet
<1>14. \A i, j \in DOMAIN s : s[i] = s[j] => i = j
  <2>1. \A i, j \in DOMAIN c.list : c.list[i] = c.list[j] => i = j
    BY DEF CacheSound, InStep
  <2>2. \A i, j \in 2 .. Len(c.list) + 1 : s[i] = s[j] => i = j
    <3>1. TAKE i, j \in 2 .. Len(c.list) + 1
    <3>2. HAVE s[i] = s[j]
    <3>3. i - 1 = j - 1
      BY <1>3, <1>10, <2>1, <3>2
    <3>4. i \in Int /\ j \in Int
      BY <1>9
    <3> QED
      BY <3>3, <3>4
  <2> QED
    BY <1>3, <1>11, <1>13, <2>2
<1>15. \A q \in Keys, x \in Nodes : m[q] = x <=> x \in ToSet(s) /\ y[x] = q
  <2>1. TAKE q \in Keys, x \in Nodes
  <2>2. c.map[q] = x <=> x \in ToSet(c.list) /\ c.key[x] = q
    BY DEF CacheSound, InStep
  <2>3. c.map[q] = n <=> n \in ToSet(c.list) /\ c.key[n] = q
    BY <1>2 DEF CacheSound, InStep
  <2>4. c.map[k] = NoNode /\ NoNode # x
    BY NodesAssumption DEF Has
  <2>5. CASE x = n
    BY <1>2, <1>5, <1>7, <1>12, <2>3, <2>5
  <2>6. CASE x # n /\ q = k
    BY <1>5, <1>7, <1>12, <2>2, <2>4, <2>6
  <2>7. CASE x # n /\ q # k
    BY <1>5, <1>7, <1>12, <2>2, <2>7
  <2> QED
    BY <2>5, <2>6, <2>7
<1>16. InStep(e)
  BY <1>8, <1>14, <1>15 DEF InStep
<1>17. \A x \in ToSet(s) : y[x] \in Keys
  <2>1. \A x \in ToSet(c.list) : x \in Nodes /\ c.key[x] \in Keys
    BY <1>1 DEF CacheSound, ToSet
  <2> QED
    BY <1>5, <1>12, <2>1
<1>18. CacheSound(e)
  BY <1>8, <1>16, <1>17 DEF CacheSound
<1> QED
  BY <1>2, <1>3, <1>5, <1>6, <1>8, <1>12, <1>18 DEF e, s

-----------------------------------------------------------------------------
(* The keys in the order of the list *)

KeysOf(c) == [i \in DOMAIN c.list |-> c.key[c.list[i]]]

LEMMA KeysFacts ==
    ASSUME NEW c, CacheSound(c)
    PROVE  /\ KeysOf(c) \in Seq(Keys) /\ Len(KeysOf(c)) = Len(c.list)
           /\ DOMAIN KeysOf(c) = DOMAIN c.list /\ DOMAIN c.list = 1 .. Len(c.list)
           /\ Len(c.list) \in Nat
           /\ \A i \in DOMAIN c.list : KeysOf(c)[i] = c.key[c.list[i]]
           /\ \A k \in Keys : k \in ToSet(KeysOf(c)) <=> Has(c, k)
<1>1. c.list \in Seq(Nodes)
  BY DEF CacheSound, Cache
<1>2. DOMAIN c.list = 1 .. Len(c.list) /\ Len(c.list) \in Nat
  BY <1>1
<1>3. \A i \in DOMAIN c.list : c.list[i] \in Nodes /\ c.key[c.list[i]] \in Keys
  BY <1>1 DEF CacheSound, ToSet
<1>4. DOMAIN KeysOf(c) = DOMAIN c.list
      /\ \A i \in DOMAIN c.list : KeysOf(c)[i] = c.key[c.list[i]]
  BY DEF KeysOf
<1>5. KeysOf(c) \in Seq(Keys) /\ Len(KeysOf(c)) = Len(c.list)
  <2>1. KeysOf(c) \in [1 .. Len(c.list) -> Keys]
    BY <1>2, <1>3 DEF KeysOf
  <2> QED
    BY <1>2, <2>1
<1>6. ASSUME NEW k \in Keys
      PROVE  k \in ToSet(KeysOf(c)) <=> Has(c, k)
  <2>1. ASSUME k \in ToSet(KeysOf(c)) PROVE Has(c, k)
    <3>1. PICK i \in DOMAIN c.list : c.key[c.list[i]] = k
      BY <1>4, <2>1 DEF ToSet
    <3>2. c.map[k] = c.list[i]
      BY <1>3, <3>1 DEF CacheSound, InStep, ToSet
    <3> QED
      BY <1>3, <3>2, NodesAssumption DEF Has
  <2>2. ASSUME Has(c, k) PROVE k \in ToSet(KeysOf(c))
    <3>1. Place(c, c.map[k]) \in DOMAIN c.list
          /\ c.key[c.list[Place(c, c.map[k])]] = k
      BY <2>2, PlaceFacts
    <3> QED
      BY <1>4, <3>1 DEF ToSet
  <2> QED
    BY <2>1, <2>2
<1> QED
  BY <1>2, <1>4, <1>5, <1>6

LEMMA KeysErase ==
    ASSUME NEW c, CacheSound(c), NEW k \in Keys, Has(c, k)
    PROVE  LET q == CHOOSE i \in DOMAIN KeysOf(c) : KeysOf(c)[i] = k IN
           KeysOf(Erase(c, k)) = RemoveAt(KeysOf(c), q)
<1> DEFINE e == Erase(c, k)
           p == Place(c, c.map[k])
           R == KeysOf(c)
           q == CHOOSE i \in DOMAIN R : R[i] = k
<1>1. /\ CacheSound(e) /\ p \in DOMAIN c.list
      /\ e.list = RemoveAt(c.list, p) /\ Len(e.list) = Len(c.list) - 1 /\ e.key = c.key
  BY EraseSound
<1>2. /\ R \in Seq(Keys) /\ Len(R) = Len(c.list) /\ DOMAIN R = DOMAIN c.list
      /\ DOMAIN c.list = 1 .. Len(c.list) /\ Len(c.list) \in Nat
      /\ \A i \in DOMAIN c.list : R[i] = c.key[c.list[i]]
  BY KeysFacts
<1>3. /\ KeysOf(e) \in Seq(Keys) /\ Len(KeysOf(e)) = Len(e.list)
      /\ DOMAIN e.list = 1 .. Len(e.list)
      /\ \A i \in DOMAIN e.list : KeysOf(e)[i] = e.key[e.list[i]]
  BY <1>1, KeysFacts
<1>4. c.list \in Seq(Nodes) /\ c.list[p] = c.map[k] /\ c.key[c.map[k]] = k
  BY PlaceFacts DEF CacheSound, Cache
<1>5. \A i \in DOMAIN R : R[i] = k => i = p
  <2>1. TAKE i \in DOMAIN R
  <2>2. HAVE R[i] = k
  <2>3. c.list[i] \in Nodes /\ c.list[i] \in ToSet(c.list) /\ c.key[c.list[i]] = k
    BY <1>2, <1>4, <2>2 DEF ToSet
  <2>4. c.map[k] = c.list[i]
    BY <2>3 DEF CacheSound, InStep
  <2> QED
    BY <1>1, <1>2, <1>4, <2>4 DEF CacheSound, InStep
<1>6. p \in DOMAIN R /\ R[p] = k
  BY <1>1, <1>2, <1>4
<1>7. q = p
  BY <1>5, <1>6
<1> HIDE DEF e, p, R, q
<1>8. /\ RemoveAt(R, p) \in Seq(Keys) /\ Len(RemoveAt(R, p)) = Len(R) - 1
      /\ \A i \in 1 .. Len(R) - 1 : RemoveAt(R, p)[i] = IF i < p THEN R[i] ELSE R[i + 1]
  BY <1>2, <1>6, RemoveAtFacts
<1>9. \A i \in 1 .. Len(c.list) - 1 :
         e.list[i] = IF i < p THEN c.list[i] ELSE c.list[i + 1]
  BY <1>1, <1>4, RemoveAtFacts
<1>10. ASSUME NEW i \in 1 .. Len(KeysOf(e))
       PROVE  KeysOf(e)[i] = RemoveAt(R, p)[i]
  <2>1. i \in 1 .. Len(c.list) - 1 /\ i \in DOMAIN c.list /\ i + 1 \in DOMAIN c.list
    BY <1>1, <1>2, <1>3
  <2>2. KeysOf(e)[i] = c.key[e.list[i]]
    BY <1>1, <1>3
  <2>3. RemoveAt(R, p)[i] = IF i < p THEN R[i] ELSE R[i + 1]
    BY <1>2, <1>8, <2>1
  <2> QED
    BY <1>2, <1>9, <2>1, <2>2, <2>3
<1>11. KeysOf(e) = RemoveAt(R, p)
  <2>1. Len(KeysOf(e)) = Len(RemoveAt(R, p))
    BY <1>1, <1>2, <1>3, <1>8
  <2> QED
    BY <1>3, <1>8, <1>10, <2>1, SeqEqual
<1> QED
  BY <1>7, <1>11 DEF e, R, q

LEMMA KeysRemoveLRU ==
    ASSUME NEW c, CacheSound(c), c.list # <<>>
    PROVE  KeysOf(RemoveLRU(c)) = Front(KeysOf(c)) /\ KeysOf(c) # <<>>
<1> DEFINE e == RemoveLRU(c)
           R == KeysOf(c)
<1>1. /\ CacheSound(e) /\ e.list = Front(c.list) /\ Len(e.list) = Len(c.list) - 1
      /\ e.key = c.key
  BY RemoveLRUSound
<1>2. /\ R \in Seq(Keys) /\ Len(R) = Len(c.list) /\ DOMAIN R = DOMAIN c.list
      /\ DOMAIN c.list = 1 .. Len(c.list) /\ Len(c.list) \in Nat
      /\ \A i \in DOMAIN c.list : R[i] = c.key[c.list[i]]
  BY KeysFacts
<1>3. /\ KeysOf(e) \in Seq(Keys) /\ Len(KeysOf(e)) = Len(e.list)
      /\ DOMAIN e.list = 1 .. Len(e.list)
      /\ \A i \in DOMAIN e.list : KeysOf(e)[i] = e.key[e.list[i]]
  BY <1>1, KeysFacts
<1>4. c.list \in Seq(Nodes) /\ Len(c.list) # 0
  BY DEF CacheSound, Cache
<1> HIDE DEF e, R
<1>5. R # <<>>
  BY <1>2, <1>4
<1>6. /\ Front(R) \in Seq(Keys) /\ Len(Front(R)) = Len(R) - 1
      /\ \A i \in 1 .. Len(R) - 1 : Front(R)[i] = R[i]
  BY <1>2, <1>5, FrontFacts
<1>7. \A i \in 1 .. Len(c.list) - 1 : e.list[i] = c.list[i]
  BY <1>1, <1>4, FrontFacts
<1>8. ASSUME NEW i \in 1 .. Len(KeysOf(e))
      PROVE  KeysOf(e)[i] = Front(R)[i]
  <2>1. i \in 1 .. Len(c.list) - 1 /\ i \in DOMAIN c.list
    BY <1>1, <1>2, <1>3
  <2> QED
    BY <1>1, <1>2, <1>3, <1>6, <1>7, <2>1
<1>9. Len(KeysOf(e)) = Len(Front(R))
  BY <1>1, <1>2, <1>3, <1>6
<1>10. KeysOf(e) = Front(R)
  BY <1>3, <1>6, <1>8, <1>9, SeqEqual
<1> QED
  BY <1>5, <1>10 DEF e, R

LEMMA KeysInsert ==
    ASSUME NEW c, CacheSound(c), NEW k \in Keys, ~Has(c, k), NEW n \in Free(c),
           NEW v \in Nat
    PROVE  KeysOf(Insert(c, k, v, n)) = Cons(k, KeysOf(c))
<1> DEFINE e == Insert(c, k, v, n)
           R == KeysOf(c)
<1>1. /\ CacheSound(e) /\ e.list = Cons(n, c.list) /\ Len(e.list) = Len(c.list) + 1
      /\ n \notin ToSet(c.list) /\ e.key[n] = k
      /\ \A x \in Nodes \ {n} : e.key[x] = c.key[x]
  BY InsertSound
<1>2. /\ R \in Seq(Keys) /\ Len(R) = Len(c.list) /\ DOMAIN R = DOMAIN c.list
      /\ DOMAIN c.list = 1 .. Len(c.list) /\ Len(c.list) \in Nat
      /\ \A i \in DOMAIN c.list : R[i] = c.key[c.list[i]]
  BY KeysFacts
<1>3. /\ KeysOf(e) \in Seq(Keys) /\ Len(KeysOf(e)) = Len(e.list)
      /\ DOMAIN e.list = 1 .. Len(e.list)
      /\ \A i \in DOMAIN e.list : KeysOf(e)[i] = e.key[e.list[i]]
  BY <1>1, KeysFacts
<1>4. c.list \in Seq(Nodes) /\ n \in Nodes
  BY DEF CacheSound, Cache, Free
<1> HIDE DEF e, R
<1>5. /\ Cons(k, R) \in Seq(Keys) /\ Len(Cons(k, R)) = Len(R) + 1
      /\ Cons(k, R)[1] = k
      /\ \A i \in 2 .. Len(R) + 1 : Cons(k, R)[i] = R[i - 1]
  <2>1. Cons(k, R) \in Seq(Keys) /\ Len(Cons(k, R)) = Len(R) + 1 /\ Cons(k, R)[1] = k
    BY <1>2, ConsKeys
  <2>2. \A i \in 2 .. Len(R) + 1 : Cons(k, R)[i] = R[i - 1]
    BY <1>2, ConsKeys
  <2> QED
    BY <2>1, <2>2
<1>6. /\ e.list[1] = n
      /\ \A i \in 2 .. Len(c.list) + 1 : e.list[i] = c.list[i - 1]
  <2>1. Cons(n, c.list)[1] = n
    BY <1>4, ConsNodes
  <2>2. \A i \in 2 .. Len(c.list) + 1 : Cons(n, c.list)[i] = c.list[i - 1]
    BY <1>4, ConsNodes
  <2> QED
    BY <1>1, <2>1, <2>2
<1>7. ASSUME NEW i \in 1 .. Len(KeysOf(e))
      PROVE  KeysOf(e)[i] = Cons(k, R)[i]
  <2>1. i \in 1 .. Len(c.list) + 1 /\ KeysOf(e)[i] = e.key[e.list[i]]
    BY <1>1, <1>3
  <2>2. CASE i = 1
    BY <1>1, <1>5, <1>6, <2>1, <2>2
  <2>3. CASE i # 1
    <3>1. i \in 2 .. Len(c.list) + 1 /\ i - 1 \in DOMAIN c.list
      BY <1>2, <2>1, <2>3
    <3>2. c.list[i - 1] \in Nodes \ {n}
      BY <1>1, <1>4, <3>1 DEF ToSet
    <3>3. e.list[i] = c.list[i - 1] /\ e.key[c.list[i - 1]] = c.key[c.list[i - 1]]
      BY <1>1, <1>6, <3>1, <3>2
    <3>4. Cons(k, R)[i] = R[i - 1] /\ R[i - 1] = c.key[c.list[i - 1]]
      BY <1>2, <1>5, <3>1
    <3> QED
      BY <2>1, <3>3, <3>4
  <2> QED
    BY <2>2, <2>3
<1>8. Len(KeysOf(e)) = Len(Cons(k, R))
  BY <1>1, <1>2, <1>3, <1>5
<1> QED
  BY <1>3, <1>5, <1>7, <1>8, SeqEqual DEF e, R

-----------------------------------------------------------------------------
(* getEntry keeps the cache in step, and true to the file *)

CacheInv ==
    /\ CacheSound(cache) /\ cacheSize \in Nat /\ Len(cache.list) <= cacheSize
    /\ \A n \in ToSet(cache.list) :
          /\ cache.entry[n] \in DOMAIN Readable
          /\ Readable[cache.entry[n]] = cache.key[n]
    /\ answer.entry # 0 =>
          answer.entry \in DOMAIN Readable /\ Readable[answer.entry] = answer.key
    /\ pc = "search" => key \in Keys /\ ~Has(cache, key)

ReaderInv == WindowInv /\ CacheInv

\* A step of the search that finds the key finds its entry, and makes room.
LEMMA FindFacts ==
    ASSUME ReaderInv, Find
    PROVE  /\ key \in Keys /\ ~Has(cache, key) /\ Erase(cache, key) = cache
           /\ Middle \in DOMAIN Readable /\ Middle \in Nat /\ Readable[Middle] = key
           /\ Full(cache, key, cacheSize) <=> Len(cache.list) >= cacheSize
           /\ Full(cache, key, cacheSize) => cache.list # <<>>
<1>1. key \in Keys /\ ~Has(cache, key)
  BY DEF ReaderInv, CacheInv, Find, Probing
<1>2. Erase(cache, key) = cache
  BY <1>1 DEF Erase, Has
<1>3. Middle \in DOMAIN Readable /\ Readable[Middle] = key
  BY FoundReadable DEF ReaderInv, Find
<1>4. Middle \in Nat
  BY <1>3, ReadableFacts DEF ReaderInv, WindowInv, WindowTypes
<1> QED
  BY <1>1, <1>2, <1>3, <1>4 DEF Full, EvictsNothing, Find

\* What makes room leaves a sound cache with less than cacheSize entries.
LEMMA RoomFacts ==
    ASSUME ReaderInv, Find
    PROVE  LET c == Room(cache, key, cacheSize) IN
           /\ CacheSound(c) /\ ~Has(c, key) /\ Len(c.list) + 1 <= cacheSize
           /\ c.key = cache.key /\ c.entry = cache.entry
           /\ ToSet(c.list) \subseteq ToSet(cache.list)
           /\ KeysOf(c) = IF Len(cache.list) >= cacheSize THEN Front(KeysOf(cache))
                                                          ELSE KeysOf(cache)
<1> DEFINE c == Room(cache, key, cacheSize)
<1>1. CacheSound(cache) /\ cacheSize \in Nat /\ Len(cache.list) <= cacheSize
  BY DEF ReaderInv, CacheInv
<1>2. Len(cache.list) \in Nat
  BY <1>1, KeysFacts
<1>3. CASE Len(cache.list) >= cacheSize
  <2>1. c = RemoveLRU(cache) /\ cache.list # <<>>
    BY <1>3, FindFacts DEF Room
  <2>2. /\ CacheSound(c) /\ Len(c.list) = Len(cache.list) - 1
        /\ c.key = cache.key /\ c.entry = cache.entry
        /\ ToSet(c.list) \subseteq ToSet(cache.list)
        /\ \A q \in Keys : ~Has(cache, q) => ~Has(c, q)
    BY <1>1, <2>1, RemoveLRUSound
  <2>3. KeysOf(c) = Front(KeysOf(cache))
    BY <1>1, <2>1, KeysRemoveLRU
  <2> QED
    BY <1>1, <1>2, <1>3, <2>2, <2>3, FindFacts
<1>4. CASE ~(Len(cache.list) >= cacheSize)
  <2>1. c = cache
    BY <1>4, FindFacts DEF Room
  <2> QED
    BY <1>1, <1>2, <1>4, <2>1, FindFacts
<1> QED
  BY <1>3, <1>4

LEMMA CacheStep == ReaderInv /\ [Next]_vars => CacheInv'
<1> SUFFICES ASSUME ReaderInv, [Next]_vars PROVE CacheInv'
  OBVIOUS
<1> USE DEF ReaderInv
<1>1. /\ CacheSound(cache) /\ cacheSize \in Nat /\ Len(cache.list) <= cacheSize
      /\ \A n \in ToSet(cache.list) : n \in Nodes /\
            cache.entry[n] \in DOMAIN Readable /\ Readable[cache.entry[n]] = cache.key[n]
  <2>1. /\ CacheSound(cache) /\ cacheSize \in Nat /\ Len(cache.list) <= cacheSize
        /\ \A n \in ToSet(cache.list) :
              cache.entry[n] \in DOMAIN Readable /\ Readable[cache.entry[n]] = cache.key[n]
    BY DEF CacheInv
  <2>2. \A n \in ToSet(cache.list) : n \in Nodes
    BY <2>1 DEF CacheSound, Cache, ToSet
  <2> QED BY <2>1, <2>2
<1>2. Len(cache.list) \in Nat
  BY <1>1, KeysFacts
<1>3. ASSUME NEW k \in Keys, GetCached(k)
      PROVE  CacheInv'
  <2> DEFINE c == Erase(cache, k)
             v == Cached(cache, k)
  <2>1. PICK n \in Free(c) : cache' = Insert(c, k, v, n)
    BY <1>3 DEF GetCached, Touch
  <2>2. /\ Has(cache, k) /\ UNCHANGED <<file, past, cacheSize, pc>> /\ pc = "idle"
        /\ answer' = [key |-> k, entry |-> v] /\ Readable' = Readable
    BY <1>3, SameReadable DEF GetCached, Answer
  <2>3. /\ CacheSound(c) /\ ~Has(c, k) /\ Len(c.list) = Len(cache.list) - 1
        /\ c.key = cache.key /\ c.entry = cache.entry
        /\ ToSet(c.list) \subseteq ToSet(cache.list)
    BY <1>1, <2>2, EraseSound
  <2>4. cache.map[k] \in ToSet(cache.list) /\ cache.key[cache.map[k]] = k
    BY <1>1, <2>2, PlaceFacts DEF ToSet
  <2>5. v \in DOMAIN Readable /\ Readable[v] = k
    BY <1>1, <2>4 DEF Cached
  <2>6. v \in Nat
    BY <2>5, ReadableFacts DEF WindowInv, WindowTypes
  <2> HIDE DEF c, v
  <2>7. /\ CacheSound(cache') /\ Len(cache'.list) = Len(c.list) + 1
        /\ ToSet(cache'.list) = ToSet(c.list) \union {n} /\ n \notin ToSet(c.list)
        /\ cache'.key[n] = k /\ cache'.entry[n] = v
        /\ \A x \in Nodes \ {n} : /\ cache'.key[x] = c.key[x]
                                  /\ cache'.entry[x] = c.entry[x]
    BY <2>1, <2>3, <2>6, InsertSound
  <2>8. \A x \in ToSet(cache'.list) :
           cache'.entry[x] \in DOMAIN Readable /\ Readable[cache'.entry[x]] = cache'.key[x]
    BY <1>1, <2>3, <2>5, <2>7
  <2> QED
    BY <1>1, <1>2, <2>2, <2>3, <2>5, <2>7, <2>8 DEF CacheInv
<1>4. CASE Find
  <2> DEFINE c == Room(cache, key, cacheSize)
  <2>1. PICK n \in Free(c) : cache' = Insert(c, key, Middle, n)
    BY <1>4 DEF Find, Added
  <2>2. /\ UNCHANGED <<file, past, cacheSize>> /\ pc' = "idle"
        /\ answer' = [key |-> key, entry |-> Middle] /\ Readable' = Readable
    BY <1>4, SameReadable DEF Find, Answer
  <2>3. /\ CacheSound(c) /\ ~Has(c, key) /\ Len(c.list) + 1 <= cacheSize
        /\ c.key = cache.key /\ c.entry = cache.entry
        /\ ToSet(c.list) \subseteq ToSet(cache.list)
    BY <1>4, RoomFacts
  <2>4. /\ key \in Keys /\ Middle \in DOMAIN Readable /\ Middle \in Nat
        /\ Readable[Middle] = key
    BY <1>4, FindFacts
  <2> HIDE DEF c
  <2>5. /\ CacheSound(cache') /\ Len(cache'.list) = Len(c.list) + 1
        /\ ToSet(cache'.list) = ToSet(c.list) \union {n} /\ n \notin ToSet(c.list)
        /\ cache'.key[n] = key /\ cache'.entry[n] = Middle
        /\ \A x \in Nodes \ {n} : /\ cache'.key[x] = c.key[x]
                                  /\ cache'.entry[x] = c.entry[x]
    BY <2>1, <2>3, <2>4, InsertSound
  <2>6. \A x \in ToSet(cache'.list) :
           cache'.entry[x] \in DOMAIN Readable /\ Readable[cache'.entry[x]] = cache'.key[x]
    BY <1>1, <2>3, <2>4, <2>5
  <2> QED
    BY <1>1, <2>2, <2>3, <2>4, <2>5, <2>6 DEF CacheInv
<1>5. ASSUME NEW k \in Keys, GetMissed(k)
      PROVE  CacheInv'
  BY <1>5, SameReadable DEF GetMissed, CacheInv
<1>6. CASE Narrow \/ FindUncacheable \/ ProbeUnmapped \/ NotFound
  BY <1>6, SameReadable
     DEF Narrow, FindUncacheable, ProbeUnmapped, NotFound, Answer, CacheInv, searchVars
<1>7. CASE UNCHANGED vars
  BY <1>7, SameReadable DEF vars, CacheInv, searchVars
<1> QED
  BY <1>3, <1>4, <1>5, <1>6, <1>7 DEF Next, Search

LEMMA EmptySound ==
    /\ CacheSound(Empty) /\ Empty.list = <<>> /\ ToSet(Empty.list) = {}
    /\ KeysOf(Empty) = <<>>
<1>1. /\ Empty.list = <<>> /\ Empty.key = [n \in Nodes |-> 0]
      /\ Empty.map = [k \in Keys |-> NoNode]
  BY DEF Empty
<1>2. Empty \in Cache
  BY DEF Empty, Cache
<1>3. ToSet(Empty.list) = {}
  BY <1>1 DEF ToSet
<1>4. InStep(Empty)
  BY <1>1, <1>3, NodesAssumption DEF InStep
<1>5. KeysOf(Empty) = <<>>
  BY <1>1 DEF KeysOf
<1> QED
  BY <1>1, <1>2, <1>3, <1>4, <1>5 DEF CacheSound

LEMMA ReaderInvariant == Spec => []ReaderInv
<1>1. Init => CacheInv
  <2> SUFFICES ASSUME Init PROVE CacheInv
    OBVIOUS
  <2>1. answer.entry = 0 /\ cache = Empty /\ cacheSize \in Nat /\ pc = "idle"
    BY SizesAssumption DEF Init
  <2>2. CacheSound(cache) /\ cache.list = <<>> /\ ToSet(cache.list) = {} /\ Len(<<>>) = 0
    BY <2>1, EmptySound
  <2> QED BY <2>1, <2>2 DEF CacheInv
<1>2. CacheInv /\ WindowInv /\ [Next]_vars => CacheInv'
  BY CacheStep DEF ReaderInv
<1> QED
  BY <1>1, <1>2, WindowInvariant, PTL DEF Spec, ReaderInv

\* The list and the map of iterators of the cache never get out of step, for
\* any keys, cache size and file, and whichever nodes the allocator hands out.
THEOREM CacheStaysInStep == Spec => []CacheInStep
<1>1. ReaderInv => CacheInStep
  BY DEF ReaderInv, CacheInv, CacheSound, CacheInStep
<1> QED
  BY <1>1, ReaderInvariant, PTL

\* What is behind the file is taken for an entry of it only when it continues
\* the file's order and is the very key that was asked for: whatever the file,
\* what is behind it, the cache and the order of lookups.
THEOREM OverrunNeedsTheKey == Spec => []OverrunOnly
<1>1. ReaderInv => OverrunOnly
  <2> SUFFICES ASSUME ReaderInv, answer.entry = End
               PROVE  past = answer.key /\ \A i \in DOMAIN file : file[i] < answer.key
    BY DEF OverrunOnly
  <2>1. /\ Len(file) \in Nat \ {0} /\ DOMAIN file = 1 .. Len(file)
        /\ \A i \in DOMAIN Readable : Readable[i] \in Nat /\ Readable[i] = Probed(i)
        /\ \A i, j \in DOMAIN Readable : i < j => Readable[i] < Readable[j]
        /\ \A i \in DOMAIN file : i \in DOMAIN Readable /\ Readable[i] = file[i]
    BY FileFacts, ReadableFacts DEF ReaderInv, WindowInv, WindowTypes
  <2>2. End \in DOMAIN Readable /\ Readable[End] = answer.key
    BY <2>1 DEF ReaderInv, CacheInv, End
  <2>3. past = answer.key BY <2>1, <2>2 DEF Probed
  <2>4. \A i \in DOMAIN file : i < End BY <2>1 DEF End
  <2> QED BY <2>1, <2>2, <2>3, <2>4
<1> QED
  BY <1>1, ReaderInvariant, PTL

-----------------------------------------------------------------------------
(* getEntry does what RecentEntries promises *)

LEMMA RecentIs == Recent = KeysOf(cache)
  BY DEF Recent, KeysOf

LEMMA HitPromotes ==
    ASSUME ReaderInv, NEW k \in Keys, GetCached(k)
    PROVE  RE!Ask(k)
<1> USE DEF ReaderInv
<1> DEFINE c == Erase(cache, k)
           v == Cached(cache, k)
           R == KeysOf(cache)
<1>1. PICK n \in Free(c) : cache' = Insert(c, k, v, n)
  BY DEF GetCached, Touch
<1>2. /\ Has(cache, k) /\ CacheSound(cache)
      /\ Len(cache.list) \in Nat /\ Len(cache.list) <= cacheSize /\ cacheSize \in Nat
  BY KeysFacts DEF GetCached, CacheInv
<1>3. CacheSound(c) /\ ~Has(c, k) /\ Len(c.list) = Len(cache.list) - 1
  BY <1>2, EraseSound
<1>4. cache.map[k] \in ToSet(cache.list) /\ cache.key[cache.map[k]] = k
  BY <1>2, PlaceFacts DEF ToSet
<1>5. v \in DOMAIN Readable /\ Readable[v] = k
  BY <1>4 DEF Cached, CacheInv
<1>6. v \in Nat
  BY <1>5, ReadableFacts DEF WindowInv, WindowTypes
<1>7. KeysOf(cache') = Cons(k, KeysOf(c))
  BY <1>1, <1>3, <1>6, KeysInsert
<1>8. KeysOf(c) = RemoveAt(R, CHOOSE i \in DOMAIN R : R[i] = k)
  BY <1>2, KeysErase
<1>9. k \in ToSet(R)
  BY <1>2, KeysFacts
<1>10. RE!Without(k) = KeysOf(c)
  <2>1. RE!Without(k) = IF k \in ToSet(Recent)
                        THEN RemoveAt(Recent, CHOOSE i \in DOMAIN Recent : Recent[i] = k)
                        ELSE Recent
    BY DEF RE!Without, RE!ToSet, ToSet, RE!RemoveAt, RemoveAt
  <2>2. Recent = R
    BY RecentIs
  <2> QED
    BY <1>8, <1>9, <2>1, <2>2
<1>11. KeysOf(c) \in Seq(Keys) /\ Len(KeysOf(c)) = Len(cache.list) - 1
  BY <1>3, KeysFacts
<1>12. Len(Cons(k, KeysOf(c))) = Len(cache.list)
  <2>1. Len(Cons(k, KeysOf(c))) = Len(KeysOf(c)) + 1
    BY <1>11, ConsKeys
  <2> QED
    BY <1>2, <1>11, <2>1
<1>13. RE!Promoted(k) = KeysOf(cache')
  <2>1. RE!Promoted(k) = IF Len(Cons(k, RE!Without(k))) > cacheSize
                         THEN Front(Cons(k, RE!Without(k))) ELSE Cons(k, RE!Without(k))
    BY DEF RE!Promoted, RE!Cons, Cons, RE!Front, Front
  <2> QED
    BY <1>2, <1>7, <1>10, <1>12, <2>1
<1>14. Recent' = KeysOf(cache')
  BY DEF Recent, KeysOf
<1>15. v \in RE!In(k)
  BY <1>5 DEF RE!In
<1>16. answer' = [key |-> k, entry |-> v] /\ UNCHANGED <<Readable, cacheSize>>
  BY SameReadable DEF GetCached, Answer
<1> QED
  BY <1>13, <1>14, <1>15, <1>16 DEF RE!Ask

LEMMA FindPromotes ==
    ASSUME ReaderInv, Find
    PROVE  RE!Ask(key) /\ key \in Keys
<1> USE DEF ReaderInv
<1> DEFINE c == Room(cache, key, cacheSize)
           R == KeysOf(cache)
           full == Len(cache.list) >= cacheSize
<1>1. PICK n \in Free(c) : cache' = Insert(c, key, Middle, n)
  BY DEF Find, Added
<1>2. /\ key \in Keys /\ ~Has(cache, key) /\ CacheSound(cache)
      /\ Middle \in DOMAIN Readable /\ Middle \in Nat /\ Readable[Middle] = key
      /\ full => cache.list # <<>>
  BY FindFacts DEF CacheInv
<1>3. /\ CacheSound(c) /\ ~Has(c, key)
      /\ KeysOf(c) = IF full THEN Front(R) ELSE R
  BY RoomFacts
<1>4. Recent' = Cons(key, IF full THEN Front(R) ELSE R)
  <2>1. KeysOf(cache') = Cons(key, KeysOf(c))
    BY <1>1, <1>2, <1>3, KeysInsert
  <2> QED
    BY <1>3, <2>1 DEF Recent, KeysOf
<1>5. /\ R \in Seq(Keys) /\ Len(R) = Len(cache.list) /\ Len(R) \in Nat
      /\ key \notin ToSet(R) /\ cacheSize \in Nat
  BY <1>2, KeysFacts DEF CacheInv
<1>6. RE!Without(key) = R
  <2>1. RE!Without(key) = IF key \in ToSet(Recent)
                          THEN RemoveAt(Recent, CHOOSE i \in DOMAIN Recent : Recent[i] = key)
                          ELSE Recent
    BY DEF RE!Without, RE!ToSet, ToSet, RE!RemoveAt, RemoveAt
  <2>2. Recent = R
    BY RecentIs
  <2> QED
    BY <1>5, <2>1, <2>2
<1>7. Len(Cons(key, R)) = Len(R) + 1
  BY <1>2, <1>5, ConsKeys
<1>8. full <=> Len(Cons(key, R)) > cacheSize
  BY <1>5, <1>7
<1>9. ASSUME full PROVE Front(Cons(key, R)) = Cons(key, Front(R))
  BY <1>2, <1>5, <1>9, FrontCons
<1>10. RE!Promoted(key) = Recent'
  <2>1. RE!Promoted(key) = IF Len(Cons(key, RE!Without(key))) > cacheSize
                           THEN Front(Cons(key, RE!Without(key)))
                           ELSE Cons(key, RE!Without(key))
    BY DEF RE!Promoted, RE!Cons, Cons, RE!Front, Front
  <2> HIDE DEF c, R, full
  <2> QED
    BY <1>4, <1>6, <1>8, <1>9, <2>1
<1>11. Middle \in RE!In(key)
  BY <1>2 DEF RE!In
<1>12. answer' = [key |-> key, entry |-> Middle] /\ UNCHANGED <<Readable, cacheSize>>
  BY SameReadable DEF Find, Answer
<1> QED
  BY <1>2, <1>10, <1>11, <1>12 DEF RE!Ask

\* When the window is empty the file has no entry of the key.
LEMMA NotFoundIsNone ==
    ASSUME ReaderInv, NotFound
    PROVE  RE!Ask(key) /\ key \in Keys
<1> USE DEF ReaderInv
<1>1. /\ DOMAIN Readable = 1 .. Len(Readable) /\ Len(Readable) \in Nat
      /\ \A i \in DOMAIN Readable : Readable[i] \in Nat
  BY ReadableFacts DEF WindowInv, WindowTypes
<1>2. l \in Int /\ r \in Int /\ key \in Nat
  BY FileFacts DEF WindowInv, WindowTypes, End
<1>3. \A i \in DOMAIN Readable : Readable[i] # key
  <2>1. TAKE i \in DOMAIN Readable
  <2>2. i < l \/ i > r
    BY <1>1, <1>2 DEF NotFound
  <2>3. Readable[i] < key \/ Readable[i] > key
    BY <2>2 DEF NotFound, WindowInv, RuledOut
  <2> QED
    BY <1>1, <1>2, <2>3
<1>4. RE!In(key) = {}
  BY <1>3 DEF RE!In
<1>5. key \in Keys
  BY DEF NotFound, CacheInv
<1> QED
  BY <1>4, <1>5, RecentIs, SameReadable DEF RE!Ask, NotFound, Answer, Recent

\* getEntry() implements RecentEntries: whatever the file, the cache size and
\* the order of hits, searches and evictions.
THEOREM PromiseKept == Spec => Promise
<1>1. Init => RE!ReInit
  BY EmptySound, RecentIs DEF Init, RE!ReInit
<1>2. ReaderInv /\ [Next]_vars => [\E k \in Keys : RE!Ask(k)]_(RE!reVars)
  <2> SUFFICES ASSUME ReaderInv, [Next]_vars
               PROVE  (\E k \in Keys : RE!Ask(k)) \/ UNCHANGED RE!reVars
    OBVIOUS
  <2>1. ASSUME NEW k \in Keys, GetMissed(k)
        PROVE  UNCHANGED RE!reVars
    BY <2>1, SameReadable DEF GetMissed, RE!reVars, Recent
  <2>2. CASE Narrow \/ FindUncacheable \/ ProbeUnmapped \/ UNCHANGED vars
    BY <2>2, SameReadable
       DEF Narrow, FindUncacheable, ProbeUnmapped, vars, RE!reVars, Recent
  <2> QED
    BY <2>1, <2>2, HitPromotes, FindPromotes, NotFoundIsNone DEF Next, Search
<1> QED
  BY <1>1, <1>2, ReaderInvariant, PTL DEF Spec, Promise, RE!ReSpec

=============================================================================
