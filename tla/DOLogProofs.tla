---------------------------- MODULE DOLogProofs ----------------------------
(***************************************************************************)
(* The log, proved for any sizes and numbers of files, lines and seconds:  *)
(* the invariants of DOLog.                                                *)
(***************************************************************************)
EXTENDS DOLog, FiniteSetTheorems, TLAPS

\* The process has its stream: between Init and the end of Close
Working == {"running", "stopping", "joined", "last"}

\* What the steps of the logger keep, for a directory d, a stream f and a buffer b

Typed(d, f, b) ==
    /\ DOMAIN d \subseteq Times
    /\ \A t \in DOMAIN d : d[t] \in Seq(Lines)
    /\ f \in Streams
    /\ b \in Seq(Lines)

\* The stream knows the size of its file.
SizeIsKnown(d, f) == f.name \in DOMAIN d => f.size = Len(d[f.name])

\* No file has one buffer more than a file may have, and a stream that still writes none
\* as much as that.  The stream is new, or was looked at by _RotateLogFilesIfNeeded.
FilesAreSmall(d) == \A t \in DOMAIN d : Len(d[t]) < MaxFileSize + BufferSize - 1
IsNewOrWrote(f) == IsOpen(f) /\ ~f.wrote => f.size = 0
HasRoom(f) == IsOpen(f) /\ f.good => f.size < MaxFileSize

\* The stream writes to the newest file, as long as the clock that names them is right.
WritesNewest(d, f) ==
    /\ \A t \in DOMAIN d : t <= clock
    /\ IsOpen(f) => f.name \in DOMAIN d /\ \A t \in DOMAIN d : t <= f.name

\* Lines are in the order of their numbers, the newest of which is n: in the files, ...
FilesInOrder(d) ==
    \A s, t \in DOMAIN d : \A i \in 1 .. Len(d[s]), j \in 1 .. Len(d[t]) :
        (s < t \/ (s = t /\ i < j)) /\ d[s][i] > 0 => d[s][i] < d[t][j]

\* ... and behind them in the buffer
BufferInOrder(d, b) ==
    /\ \A i, j \in 1 .. Len(b) : i < j => b[i] < b[j]
    /\ \A t \in DOMAIN d : \A i \in 1 .. Len(d[t]), j \in 1 .. Len(b) : d[t][i] < b[j]

NumbersUpTo(d, b, n) ==
    /\ \A t \in DOMAIN d : \A i \in 1 .. Len(d[t]) : d[t][i] <= n
    /\ \A i \in 1 .. Len(b) : b[i] \in 1 .. n

\* Line l is in a file, or in the buffer.
IsIn(d, l) == \E t \in DOMAIN d : \E i \in 1 .. Len(d[t]) : d[t][i] = l
IsBuffered(b, l) == \E i \in 1 .. Len(b) : b[i] = l

\* All lines from first on are there, but those in x that were too long; older ones are
\* missing only when there are as many files as there may be.
AllFrom(d, b, n, x, first) ==
    \A l \in Lines \ {0} : IsIn(d, l) \/ IsBuffered(b, l) <=> l \in (first .. n) \ x
KeptFrom(d, b, n, x) ==
    \E first \in 1 .. n + 1 :
        /\ AllFrom(d, b, n, x, first)
        /\ first > 1 => Cardinality(DOMAIN d) >= MaxFiles

\* All of it, after n lines of which those in x were dropped, when w has gone wrong
Logged(d, f, b, n, x, w) ==
    /\ Typed(d, f, b) /\ Len(b) < BufferSize
    /\ SizeIsKnown(d, f)
    /\ "burst" \notin w => FilesAreSmall(d) /\ IsNewOrWrote(f)
    /\ "clock" \notin w =>
        /\ WritesNewest(d, f) /\ f.name <= clock
        /\ FilesInOrder(d) /\ BufferInOrder(d, b)
    /\ NumbersUpTo(d, b, n) /\ x \subseteq 1 .. n
    /\ w \cap {"clock", "disk"} = {} => KeptFrom(d, b, n, x)

FilesAreFew == Cardinality(DOMAIN dir) <= MaxFiles + 1

\* Only a full disk leaves the logger without its stream.
StreamIsThere ==
    /\ logger \notin Working => file = Closed
    /\ "disk" \notin trouble /\ logger \in Working => IsOpen(file) /\ file.good
    /\ "burst" \notin trouble => HasRoom(file)

LastIsBuffered ==
    logger = "last" /\ trouble \cap {"clock", "disk"} = {} =>
        buffer # <<>> /\ buffer[Len(buffer)] = logged

IInv ==
    /\ TypeOK
    /\ Logged(dir, file, buffer, logged, dropped, trouble)
    /\ FilesAreFew
    /\ StreamIsThere
    /\ LastIsBuffered
    /\ EverythingIsWritten

-----------------------------------------------------------------------------
(* Finite sets of times *)

\* The library has induction as the fact that < is well-founded on Nat.
Less == {p \in Nat \X Nat : p[1] < p[2]}

LEMMA Least ==
    ASSUME NEW S, S \subseteq Nat, S # {}
    PROVE  \E m \in S : \A x \in S : m <= x
<1>1. OpToRel(<, Nat) = Less
    BY Zenon DEF OpToRel, Less
<1>2. IsWellFoundedOn(Less, Nat)
    BY <1>1, NatLessThanWellFounded, Zenon
<1>3. PICK m \in S : \A x \in S : ~(<<x, m>> \in Less)
    BY <1>2, WFMin
<1>4. \A x \in S : ~(x < m) /\ x \in Nat
    BY <1>3 DEF Less
<1>5. \A x \in S : m <= x
    BY <1>4
<1> QED
    BY <1>5

\* The greatest element of a set of naturals that has a bound
LEMMA Greatest ==
    ASSUME NEW n \in Nat, NEW S, S \subseteq 0 .. n, S # {}
    PROVE  \E m \in S : \A x \in S : x <= m
<1> DEFINE Distance == {y \in 0 .. n : n - y \in S}
<1>1. \A x \in S : x \in 0 .. n /\ n - x \in 0 .. n /\ n - (n - x) = x
    OBVIOUS
<1>2. \A x \in S : n - x \in Distance
    BY <1>1
<1>3. Distance \subseteq Nat /\ Distance # {}
    <2>1. PICK x \in S : TRUE
        OBVIOUS
    <2>2. n - x \in Distance
        BY <1>2
    <2>3. \A y \in Distance : y \in Nat
        OBVIOUS
    <2> HIDE DEF Distance
    <2> QED
        BY <2>2, <2>3
<1>4. PICK y \in Distance : \A x \in Distance : y <= x
    BY <1>3, Least
<1>5. n - y \in S /\ y \in 0 .. n
    BY <1>4
<1>6. \A x \in S : y <= n - x
    BY <1>2, <1>4
<1>7. \A x \in S : x <= n - y
    BY <1>1, <1>5, <1>6
<1> QED
    BY <1>5, <1>7

Later(D, t) == {later \in D : later > t}
Newest(D) == {t \in D : Cardinality(Later(D, t)) < MaxFiles}

LEMMA TimesAreFinite ==
    ASSUME NEW D \in SUBSET Times
    PROVE  IsFiniteSet(D) /\ Cardinality(D) \in Nat
<1>1. IsFiniteSet(Times)
    BY DOLogAssumption, FS_Interval DEF Times
<1> QED
    BY <1>1, FS_Subset, FS_CardinalityType

\* Of the times in D those of MaxFiles at most are kept, the newest ones, and no fewer
\* than MaxFiles if any is given up.
LEMMA NewestOf ==
    ASSUME NEW D \in SUBSET Times
    PROVE  /\ Newest(D) \subseteq D
           /\ Cardinality(Newest(D)) <= MaxFiles
           /\ Newest(D) # D => Cardinality(Newest(D)) >= MaxFiles
           /\ \A t \in D \ Newest(D), u \in Newest(D) : t < u
           /\ \A t \in D : (\A u \in D : u <= t) => t \in Newest(D)
<1> DEFINE N == Newest(D)
<1>0. /\ \A t \in D : t \in Nat /\ t \in 0 .. MaxClock
      /\ MaxClock \in Nat /\ MaxFiles \in Nat \ {0}
      /\ N \subseteq D /\ N \in SUBSET Times
    <2>1. MaxClock \in Nat /\ MaxFiles \in Nat \ {0}
        BY DOLogAssumption
    <2>2. N \subseteq D
        BY DEF Newest
    <2>3. \A t \in D : t \in 1 .. MaxClock
        BY DEF Times
    <2> QED
        BY <2>1, <2>2, <2>3
<1>1. \A t : Later(D, t) \in SUBSET Times /\ IsFiniteSet(Later(D, t))
             /\ Cardinality(Later(D, t)) \in Nat
    <2>1. \A t : Later(D, t) \in SUBSET Times
        BY DEF Later
    <2> QED
        BY <2>1, TimesAreFinite
<1>2. IsFiniteSet(N) /\ Cardinality(N) \in Nat
    BY <1>0, TimesAreFinite
<1>3. \A t, u \in D : t <= u => Cardinality(Later(D, u)) <= Cardinality(Later(D, t))
    <2> SUFFICES ASSUME NEW t \in D, NEW u \in D, t <= u
                 PROVE  Cardinality(Later(D, u)) <= Cardinality(Later(D, t))
        OBVIOUS
    <2>1. Later(D, u) \in SUBSET Later(D, t)
        <3> SUFFICES ASSUME NEW x \in D, x > u
                     PROVE  x > t
            BY DEF Later
        <3> QED
            BY <1>0
    <2> QED
        BY <1>1, <2>1, FS_Subset
<1>4. ASSUME NEW t \in D \ N, NEW u \in N
      PROVE  t < u
    <2>1. u \in D /\ t \in Nat /\ u \in Nat
        BY <1>0
    <2>2. ~(Cardinality(Later(D, t)) < MaxFiles) /\ Cardinality(Later(D, u)) < MaxFiles
        BY <2>1 DEF Newest
    <2>3. u <= t => Cardinality(Later(D, t)) <= Cardinality(Later(D, u))
        BY <1>3, <2>1
    <2> QED
        BY <1>0, <1>1, <2>1, <2>2, <2>3
<1>5. Cardinality(N) <= MaxFiles
    <2>1. CASE N = {}
        BY <1>0, <2>1, FS_EmptySet
    <2>2. CASE N # {}
        <3>1. PICK m \in N : Later(N, m) \cup {m} = N
            <4>1. PICK m \in N : \A x \in N : m <= x
                <5>1. N \subseteq Nat
                    BY <1>0
                <5> HIDE DEF N
                <5> QED
                    BY <2>2, <5>1, Least
            <4>2. \A x \in N : x \in Nat
                BY <1>0
            <4> HIDE DEF N
            <4>3. Later(N, m) \cup {m} = N
                BY <4>1, <4>2 DEF Later
            <4> QED
                BY <4>3
        <3>2. Later(N, m) \in SUBSET Later(D, m) /\ m \in D
            <4> HIDE DEF N
            <4> QED
                BY <1>0, <3>1 DEF Later
        <3>3. /\ Cardinality(Later(N, m)) <= Cardinality(Later(D, m))
              /\ Cardinality(Later(D, m)) < MaxFiles
              /\ IsFiniteSet(Later(N, m)) /\ Cardinality(Later(N, m)) \in Nat
            BY <1>1, <3>2, FS_Subset, FS_CardinalityType DEF Newest
        <3>4. Cardinality(N) <= Cardinality(Later(N, m)) + 1
            BY <3>1, <3>3, FS_AddElement
        <3> QED
            BY <1>0, <1>1, <1>2, <3>3, <3>4
    <2> QED
        BY <2>1, <2>2
<1>6. N # D => Cardinality(N) >= MaxFiles
    <2> SUFFICES ASSUME N # D
                 PROVE  Cardinality(N) >= MaxFiles
        OBVIOUS
    <2>1. D \ N \subseteq 0 .. MaxClock /\ D \ N # {}
        BY <1>0
    <2>2. PICK m \in D \ N : \A t \in D \ N : t <= m
        BY <1>0, <2>1, Greatest
    <2>3. Later(D, m) \in SUBSET N
        <3>1. \A x \in D : x > m => x \in N
            BY <1>0, <2>2
        <3> QED
            BY <3>1 DEF Later
    <2>4. Cardinality(Later(D, m)) >= MaxFiles
        BY <1>0, <1>1, <2>2 DEF Newest
    <2>5. Cardinality(Later(D, m)) <= Cardinality(N)
        BY <1>2, <2>3, FS_Subset
    <2> QED
        BY <1>0, <1>1, <1>2, <2>4, <2>5
<1>7. ASSUME NEW t \in D, \A u \in D : u <= t
      PROVE  t \in N
    <2>1. Later(D, t) = {}
        <3>1. \A u \in D : ~(u > t)
            BY <1>0, <1>7
        <3> QED
            BY <3>1 DEF Later
    <2> QED
        BY <1>0, <2>1, FS_EmptySet DEF Newest
<1> QED
    BY <1>0, <1>4, <1>5, <1>6, <1>7

\* _ClearOlderLogFilesIfNeeded
LEMMA Cleared ==
    ASSUME NEW d, DOMAIN d \subseteq Times
    PROVE  /\ DOMAIN ClearOlderLogFiles(d) = Newest(DOMAIN d)
           /\ \A t \in Newest(DOMAIN d) : ClearOlderLogFiles(d)[t] = d[t]
BY DEF ClearOlderLogFiles, Restrict, Newest, Later

-----------------------------------------------------------------------------
(* LogBuffer::Flush *)

LEMMA Joined ==
    ASSUME NEW S, NEW p \in Seq(S), NEW q \in Seq(S)
    PROVE  /\ p \o q \in Seq(S) /\ Len(p \o q) = Len(p) + Len(q)
           /\ \A i \in 1 .. Len(p) : (p \o q)[i] = p[i]
           /\ \A i \in 1 .. Len(q) : (p \o q)[Len(p) + i] = q[i]
<1>1. p \o q \in Seq(S) /\ Len(p \o q) = Len(p) + Len(q)
    OBVIOUS
<1>2. ASSUME NEW i \in 1 .. Len(p) PROVE (p \o q)[i] = p[i]
    OBVIOUS
<1>3. ASSUME NEW i \in 1 .. Len(q) PROVE (p \o q)[Len(p) + i] = q[i]
    <2>1. /\ Len(p) \in Nat /\ Len(q) \in Nat /\ Len(p) + i \in 1 .. Len(p) + Len(q)
          /\ ~(Len(p) + i <= Len(p)) /\ (Len(p) + i) - Len(p) = i
        OBVIOUS
    <2> QED
        BY <2>1
<1> QED
    BY <1>1, <1>2, <1>3

\* e is d, but for file N, to which the first k lines of b were added.
Extended(d, e, N, b, k) ==
    /\ DOMAIN e = DOMAIN d
    /\ \A t \in DOMAIN d : t # N => e[t] = d[t]
    /\ N \in DOMAIN d =>
        /\ e[N] \in Seq(Lines) /\ Len(e[N]) = Len(d[N]) + k
        /\ \A i \in 1 .. Len(d[N]) : e[N][i] = d[N][i]
        /\ \A i \in 1 .. k : e[N][Len(d[N]) + i] = b[i]

\* The first k lines of the buffer reached the file, of those kept that the disk takes.
Flushed(d, f, b, kept, r, k) ==
    /\ IsOpen(f) /\ r.buffer = <<>> /\ Extended(d, r.dir, f.name, b, k)
    /\ r.file = [f EXCEPT !.good = IF kept = Len(b) THEN @ ELSE FALSE, !.wrote = TRUE,
                          !.size = @ + k]
    /\ k = IF f.good THEN kept ELSE 0

LEMMA FlushCases ==
    ASSUME NEW d, NEW f, NEW b, Typed(d, f, b), NEW kept \in 0 .. Len(b),
           NEW r, r = Flush(d, f, b, kept)
    PROVE  \/ r.dir = d /\ r.file = f /\ r.buffer = b /\ (~IsOpen(f) \/ b = <<>>)
           \/ \E k \in 0 .. Len(b) : Flushed(d, f, b, kept, r, k)
<1>1. CASE ~IsOpen(f) \/ b = <<>>
    BY <1>1 DEF Flush
<1>2. CASE ~(~IsOpen(f) \/ b = <<>>)
    <2> DEFINE k == IF f.good THEN kept ELSE 0
               written == SubSeq(b, 1, k)
    <2>1. k \in 0 .. Len(b) /\ b \in Seq(Lines) /\ Len(b) \in Nat
        BY DEF Typed
    <2> HIDE DEF k
    <2>2. written \in Seq(Lines) /\ Len(written) = k /\ \A i \in 1 .. k : written[i] = b[i]
        BY <2>1
    <2> HIDE DEF written
    <2>3. /\ r.buffer = <<>>
          /\ r.dir = IF f.name \in DOMAIN d THEN [d EXCEPT ![f.name] = @ \o written] ELSE d
          /\ r.file = [f EXCEPT !.good = IF kept = Len(b) THEN @ ELSE FALSE, !.wrote = TRUE,
                                !.size = @ + Len(written)]
        BY <1>2 DEF Flush, k, written
    <2>4. DOMAIN r.dir = DOMAIN d /\ \A t \in DOMAIN d : t # f.name => r.dir[t] = d[t]
        BY <2>3
    <2>5. ASSUME f.name \in DOMAIN d
          PROVE  /\ r.dir[f.name] \in Seq(Lines)
                 /\ Len(r.dir[f.name]) = Len(d[f.name]) + k
                 /\ \A i \in 1 .. Len(d[f.name]) : r.dir[f.name][i] = d[f.name][i]
                 /\ \A i \in 1 .. k : r.dir[f.name][Len(d[f.name]) + i] = b[i]
        <3>1. r.dir[f.name] = d[f.name] \o written /\ d[f.name] \in Seq(Lines)
            BY <2>3, <2>5 DEF Typed
        <3>2. /\ r.dir[f.name] \in Seq(Lines)
              /\ Len(r.dir[f.name]) = Len(d[f.name]) + Len(written)
              /\ \A i \in 1 .. Len(d[f.name]) : r.dir[f.name][i] = d[f.name][i]
              /\ \A i \in 1 .. Len(written) :
                    r.dir[f.name][Len(d[f.name]) + i] = written[i]
            <4> DEFINE p == d[f.name]
            <4>1. p \in Seq(Lines) /\ written \in Seq(Lines) /\ r.dir[f.name] = p \o written
                BY <2>2, <3>1
            <4> HIDE DEF p
            <4>2. /\ p \o written \in Seq(Lines)
                  /\ Len(p \o written) = Len(p) + Len(written)
                  /\ \A i \in 1 .. Len(p) : (p \o written)[i] = p[i]
                  /\ \A i \in 1 .. Len(written) : (p \o written)[Len(p) + i] = written[i]
                BY <4>1, Joined
            <4> QED
                BY <4>1, <4>2, Zenon DEF p
        <3> QED
            BY <2>2, <3>2
    <2>6. Extended(d, r.dir, f.name, b, k)
        BY <2>4, <2>5 DEF Extended
    <2> QED
        BY <1>2, <2>1, <2>2, <2>3, <2>6 DEF Flushed, k
<1> QED
    BY <1>1, <1>2

LEMMA ExtendedTyped ==
    ASSUME NEW d, NEW f, NEW b, Typed(d, f, b), NEW N, NEW k \in 0 .. Len(b), NEW e,
           Extended(d, e, N, b, k)
    PROVE  DOMAIN e \subseteq Times /\ \A t \in DOMAIN e : e[t] \in Seq(Lines)
BY DEF Typed, Extended

\* Lines go behind those that are there, if they go to the newest file.
LEMMA ExtendedOrder ==
    ASSUME NEW d, NEW f, NEW b, Typed(d, f, b), NEW N, NEW k \in 0 .. Len(b), NEW e,
           Extended(d, e, N, b, k), N \in DOMAIN d, \A t \in DOMAIN d : t <= N,
           FilesInOrder(d), BufferInOrder(d, b)
    PROVE  FilesInOrder(e)
<1> DEFINE L == Len(d[N])
<1>0. /\ DOMAIN e = DOMAIN d /\ N \in Nat /\ L \in Nat /\ k \in Nat
      /\ \A t \in DOMAIN d : t \in Nat /\ Len(d[t]) \in Nat
      /\ Len(e[N]) = L + k
    BY DEF Typed, Extended, Times
<1>1. ASSUME NEW t \in DOMAIN d, NEW j \in 1 .. Len(e[t]), ~(t = N /\ j > L)
      PROVE  j \in 1 .. Len(d[t]) /\ e[t][j] = d[t][j]
    BY <1>0, <1>1 DEF Extended
<1>2. ASSUME NEW j \in 1 .. Len(e[N]), j > L
      PROVE  j - L \in 1 .. k /\ j - L \in 1 .. Len(b) /\ e[N][j] = b[j - L]
    <2>1. j - L \in 1 .. k /\ j - L \in 1 .. Len(b) /\ j = L + (j - L)
        BY <1>0, <1>2
    <2> QED
        BY <2>1 DEF Extended
<1> SUFFICES ASSUME NEW s \in DOMAIN d, NEW t \in DOMAIN d,
                    NEW i \in 1 .. Len(e[s]), NEW j \in 1 .. Len(e[t]),
                    s < t \/ (s = t /\ i < j), e[s][i] > 0
             PROVE  e[s][i] < e[t][j]
    BY <1>0 DEF FilesInOrder
<1>3. CASE t = N /\ j > L
    <2>1. CASE s = N /\ i > L
        <3>1. i - L < j - L
            BY <1>0, <1>3, <2>1
        <3> QED
            BY <1>2, <1>3, <2>1, <3>1 DEF BufferInOrder
    <2>2. CASE ~(s = N /\ i > L)
        BY <1>1, <1>2, <1>3, <2>2 DEF BufferInOrder
    <2> QED
        BY <2>1, <2>2
<1>4. CASE ~(t = N /\ j > L)
    <2>1. ~(s = N /\ i > L)
        BY <1>0, <1>4
    <2> QED
        BY <1>1, <1>4, <2>1 DEF FilesInOrder
<1> QED
    BY <1>3, <1>4

LEMMA ExtendedNumbers ==
    ASSUME NEW d, NEW f, NEW b, Typed(d, f, b), NEW N, NEW k \in 0 .. Len(b), NEW e,
           Extended(d, e, N, b, k), NEW n \in Nat, NumbersUpTo(d, b, n)
    PROVE  NumbersUpTo(e, <<>>, n)
<1>1. ASSUME NEW t \in DOMAIN d, NEW i \in 1 .. Len(e[t])
      PROVE  e[t][i] <= n
    <2>1. CASE t # N \/ i <= Len(d[N])
        BY <2>1 DEF Extended, NumbersUpTo, Typed
    <2>2. CASE t = N /\ i > Len(d[N])
        <3>1. Len(d[N]) \in Nat /\ Len(b) \in Nat /\ i \in 1 .. Len(d[N]) + k
            BY <2>2 DEF Typed, Extended
        <3>2. i - Len(d[N]) \in 1 .. k /\ i - Len(d[N]) \in 1 .. Len(b)
              /\ i = Len(d[N]) + (i - Len(d[N]))
            BY <2>2, <3>1
        <3>3. e[t][i] = b[i - Len(d[N])]
            BY <2>2, <3>2 DEF Extended
        <3> QED
            BY <3>2, <3>3 DEF NumbersUpTo
    <2>3. CASE t = N /\ ~(i > Len(d[N]) \/ i <= Len(d[N]))
        BY <2>3 DEF Typed
    <2> QED
        BY <2>1, <2>2, <2>3
<1> QED
    BY <1>1 DEF NumbersUpTo, Extended

\* Lines that were in the buffer are in a file now.
LEMMA ExtendedAll ==
    ASSUME NEW d, NEW f, NEW b, Typed(d, f, b), NEW N, NEW e,
           Extended(d, e, N, b, Len(b)), N \in DOMAIN d, NEW l
    PROVE  IsIn(e, l) <=> IsIn(d, l) \/ IsBuffered(b, l)
<1> DEFINE L == Len(d[N])
<1>0. L \in Nat /\ Len(b) \in Nat /\ Len(e[N]) = L + Len(b) /\ DOMAIN e = DOMAIN d
    BY DEF Typed, Extended
<1>1. ASSUME IsIn(d, l) PROVE IsIn(e, l)
    <2>1. PICK t \in DOMAIN d : \E i \in 1 .. Len(d[t]) : d[t][i] = l
        BY <1>1 DEF IsIn
    <2>2. PICK i \in 1 .. Len(d[t]) : d[t][i] = l
        BY <2>1
    <2>3. i \in 1 .. Len(e[t]) /\ e[t][i] = l
        <3>1. CASE t = N
            BY <1>0, <2>2, <3>1 DEF Extended
        <3>2. CASE t # N
            BY <2>2, <3>2 DEF Extended
        <3> QED
            BY <3>1, <3>2
    <2> QED
        BY <1>0, <2>3 DEF IsIn
<1>2. ASSUME IsBuffered(b, l) PROVE IsIn(e, l)
    <2>1. PICK i \in 1 .. Len(b) : b[i] = l
        BY <1>2 DEF IsBuffered
    <2>2. L + i \in 1 .. Len(e[N]) /\ e[N][L + i] = l
        BY <1>0, <2>1 DEF Extended
    <2> QED
        BY <1>0, <2>2 DEF IsIn
<1>3. ASSUME IsIn(e, l) PROVE IsIn(d, l) \/ IsBuffered(b, l)
    <2>1. PICK t \in DOMAIN d : \E i \in 1 .. Len(e[t]) : e[t][i] = l
        BY <1>0, <1>3 DEF IsIn
    <2>2. PICK i \in 1 .. Len(e[t]) : e[t][i] = l
        BY <2>1
    <2>3. CASE t # N
        BY <2>2, <2>3 DEF IsIn, Extended
    <2>4. CASE t = N /\ i <= L
        <3>1. i \in 1 .. L /\ d[N][i] = l
            BY <1>0, <2>2, <2>4 DEF Extended
        <3> QED
            BY <3>1 DEF IsIn
    <2>5. CASE t = N /\ i > L
        <3>1. i - L \in 1 .. Len(b) /\ i = L + (i - L)
            BY <1>0, <2>2, <2>5
        <3>2. b[i - L] = l
            BY <2>2, <2>5, <3>1 DEF Extended
        <3> QED
            BY <3>1, <3>2 DEF IsBuffered
    <2> QED
        BY <1>0, <2>2, <2>3, <2>4, <2>5
<1> QED
    BY <1>1, <1>2, <1>3

\* A file with room gets less than a buffer more.
LEMMA ExtendedSmall ==
    ASSUME NEW d, NEW f, NEW b, Typed(d, f, b), NEW k \in 0 .. Len(b), NEW e,
           Extended(d, e, f.name, b, k), IsOpen(f), f.good \/ k = 0, Len(b) < BufferSize,
           FilesAreSmall(d), SizeIsKnown(d, f), HasRoom(f)
    PROVE  FilesAreSmall(e)
<1>1. /\ BufferSize \in Nat /\ MaxFileSize \in Nat /\ Len(b) \in Nat /\ f.size \in Nat
      /\ \A t \in DOMAIN d : Len(d[t]) \in Nat
    BY DOLogAssumption DEF Typed, Streams
<1>2. ASSUME NEW t \in DOMAIN d
      PROVE  Len(e[t]) < MaxFileSize + BufferSize - 1
    <2>1. CASE t # f.name
        BY <2>1 DEF Extended, FilesAreSmall
    <2>2. CASE t = f.name
        <3>1. Len(e[t]) = Len(d[t]) + k /\ f.size = Len(d[t])
            BY <2>2 DEF Extended, SizeIsKnown
        <3>2. CASE k = 0
            <4>1. Len(d[t]) < MaxFileSize + BufferSize - 1
                BY DEF FilesAreSmall
            <4> QED
                BY <1>1, <3>1, <3>2, <4>1
        <3>3. CASE f.good
            <4>1. f.size < MaxFileSize
                BY <3>3 DEF HasRoom
            <4> QED
                BY <1>1, <3>1, <4>1
        <3> QED
            BY <3>2, <3>3
    <2> QED
        BY <2>1, <2>2
<1> QED
    BY <1>2 DEF FilesAreSmall, Extended

-----------------------------------------------------------------------------
(* _RotateLogFilesIfNeeded, and the start of the logger *)

\* e is d without its older files, and maybe with a file of this second, which g writes to.
NewStream(size) == [name |-> clock, good |-> TRUE, size |-> size, wrote |-> FALSE]
Rotated(d, f, e, g) ==
    /\ Newest(DOMAIN d) \subseteq DOMAIN e
    /\ DOMAIN e \subseteq Newest(DOMAIN d) \cup {clock}
    /\ \A t \in Newest(DOMAIN d) : e[t] = d[t]
    /\ \A t \in DOMAIN e \ Newest(DOMAIN d) : e[t] = <<>>
    /\ \/ g = f /\ ~IsFull(f) /\ DOMAIN e = Newest(DOMAIN d)
       \/ g = Closed /\ DOMAIN e = Newest(DOMAIN d)
       \/ clock \in DOMAIN e /\ g = NewStream(Len(e[clock]))

LEMMA CreatedIsRotated ==
    ASSUME NEW d, DOMAIN d \subseteq Times, NEW f, NEW r,
           r = CreateLogFile(ClearOlderLogFiles(d))
    PROVE  Rotated(d, f, r.dir, r.file) /\ r.file.good
<1> DEFINE c == ClearOlderLogFiles(d)
<1>1. DOMAIN c = Newest(DOMAIN d) /\ \A t \in Newest(DOMAIN d) : c[t] = d[t]
    BY Cleared
<1> HIDE DEF c
<1>2. CASE clock \in DOMAIN c
    <2>1. r.dir = c /\ r.file = NewStream(Len(c[clock]))
        BY <1>2 DEF CreateLogFile, NewStream, c
    <2> QED
        BY <1>1, <1>2, <2>1 DEF Rotated, NewStream
<1>3. CASE clock \notin DOMAIN c
    <2>1. /\ r.dir = [t \in DOMAIN c \cup {clock} |-> IF t = clock THEN <<>> ELSE c[t]]
          /\ r.file = NewStream(0)
        BY <1>3 DEF CreateLogFile, NewStream, c
    <2>2. /\ DOMAIN r.dir = DOMAIN c \cup {clock} /\ r.dir[clock] = <<>>
          /\ \A t \in DOMAIN c : r.dir[t] = c[t]
        BY <1>3, <2>1
    <2>3. r.file = NewStream(Len(r.dir[clock])) /\ r.file.good
        <3>1. Len(r.dir[clock]) = 0
            BY <2>2
        <3> QED
            BY <2>1, <3>1 DEF NewStream
    <2>4. DOMAIN r.dir \ DOMAIN c \subseteq {clock}
        BY <2>2
    <2> QED
        BY <1>1, <2>2, <2>3, <2>4 DEF Rotated
<1> QED
    BY <1>2, <1>3

LEMMA RotateCases ==
    ASSUME NEW d, DOMAIN d \subseteq Times, NEW f, NEW created \in BOOLEAN, NEW r,
           r = RotateLogFiles(d, f, created)
    PROVE  /\ Rotated(d, f, r.dir, r.file)
           /\ created => r.file = f \/ r.file.good
<1>1. CASE ~IsFull(f)
    BY <1>1, Cleared DEF RotateLogFiles, Rotated
<1>2. CASE IsFull(f) /\ created
    <2>1. r = CreateLogFile(ClearOlderLogFiles(d))
        BY <1>2 DEF RotateLogFiles
    <2> QED
        BY <2>1, CreatedIsRotated
<1>3. CASE IsFull(f) /\ ~created
    BY <1>3, Cleared DEF RotateLogFiles, Rotated
<1> QED
    BY <1>1, <1>2, <1>3

LEMMA RotatedTyped ==
    ASSUME NEW d, NEW f, NEW b, Typed(d, f, b), clock \in Times, NEW e, NEW g,
           Rotated(d, f, e, g)
    PROVE  /\ Typed(e, g, b)
           /\ Cardinality(DOMAIN e) <= MaxFiles + 1
<1>1. DOMAIN d \in SUBSET Times /\ Newest(DOMAIN d) \in SUBSET Times
      /\ MaxFiles \in Nat
    BY DOLogAssumption DEF Typed, Newest
<1>2. /\ DOMAIN e \subseteq Times
      /\ \A t \in DOMAIN e : e[t] \in Seq(Lines)
    <2>1. DOMAIN e \subseteq Times
        BY <1>1 DEF Rotated
    <2>2. ASSUME NEW t \in DOMAIN e PROVE e[t] \in Seq(Lines)
        <3>1. CASE t \in Newest(DOMAIN d)
            BY <1>1, <3>1 DEF Rotated, Typed, Newest
        <3>2. CASE t \notin Newest(DOMAIN d)
            <4>1. e[t] = <<>>
                BY <3>2 DEF Rotated
            <4> QED
                BY <4>1
        <3> QED
            BY <3>1, <3>2
    <2> QED
        BY <2>1, <2>2
<1>3. g \in Streams
    <2>0. Closed \in Streams
        BY DEF Closed, Streams
    <2>1. CASE g = f \/ g = Closed
        BY <2>0, <2>1 DEF Typed
    <2>2. CASE clock \in DOMAIN e /\ g = NewStream(Len(e[clock]))
        <3>1. Len(e[clock]) \in Nat
            BY <1>2, <2>2
        <3> QED
            BY <2>2, <3>1 DEF NewStream, Streams
    <2> QED
        BY <2>1, <2>2 DEF Rotated
<1>4. Cardinality(DOMAIN e) <= MaxFiles + 1
    <2> DEFINE N == Newest(DOMAIN d)
    <2>1. IsFiniteSet(N) /\ Cardinality(N) <= MaxFiles /\ Cardinality(N) \in Nat
        BY <1>1, NewestOf, TimesAreFinite
    <2>2. IsFiniteSet(N \cup {clock}) /\ Cardinality(N \cup {clock}) \in Nat
          /\ Cardinality(N \cup {clock}) <= MaxFiles + 1
        BY <1>1, <2>1, FS_AddElement
    <2>3. DOMAIN e \in SUBSET (N \cup {clock}) /\ Cardinality(DOMAIN e) \in Nat
        BY <1>2, TimesAreFinite DEF Rotated
    <2>4. Cardinality(DOMAIN e) <= Cardinality(N \cup {clock})
        BY <2>2, <2>3, FS_Subset
    <2> QED
        BY <1>1, <2>2, <2>3, <2>4
<1> QED
    BY <1>2, <1>3, <1>4 DEF Typed

\* What is in a file stays as it is, unless the file is removed.
LEMMA RotatedLines ==
    ASSUME NEW d, NEW f, NEW e, NEW g, Rotated(d, f, e, g), NEW t \in DOMAIN e
    PROVE  \/ t \in Newest(DOMAIN d) /\ t \in DOMAIN d /\ e[t] = d[t]
           \/ e[t] = <<>> /\ Len(e[t]) = 0
<1>1. Newest(DOMAIN d) \subseteq DOMAIN d
    BY DEF Newest
<1> QED
    BY <1>1 DEF Rotated

LEMMA RotatedSizes ==
    ASSUME NEW d, NEW f, NEW b, Typed(d, f, b), NEW e, NEW g, Rotated(d, f, e, g),
           SizeIsKnown(d, f)
    PROVE  /\ SizeIsKnown(e, g)
           /\ FilesAreSmall(d) => FilesAreSmall(e)
           /\ IsNewOrWrote(g) => HasRoom(g)
<1>1. SizeIsKnown(e, g)
    <2>1. CASE g = f /\ DOMAIN e = Newest(DOMAIN d)
        BY <2>1 DEF Rotated, SizeIsKnown, Newest
    <2>2. CASE g = Closed /\ DOMAIN e = Newest(DOMAIN d)
        BY <2>2 DEF Closed, SizeIsKnown, Newest, Typed, Times
    <2>3. CASE clock \in DOMAIN e /\ g = NewStream(Len(e[clock]))
        BY <2>3 DEF NewStream, SizeIsKnown
    <2> QED
        BY <2>1, <2>2, <2>3 DEF Rotated
<1>2. FilesAreSmall(d) => FilesAreSmall(e)
    <2>1. MaxFileSize + BufferSize - 1 > 0
        BY DOLogAssumption
    <2> QED
        BY <2>1, RotatedLines DEF FilesAreSmall
<1>3. IsNewOrWrote(g) => HasRoom(g)
    <2>0. MaxFileSize \in Nat /\ MaxFileSize > 0
        BY DOLogAssumption
    <2>1. CASE g = f /\ ~IsFull(f)
        <3>1. f.size \in Nat
            BY DEF Typed, Streams
        <3> QED
            BY <2>0, <2>1, <3>1 DEF IsNewOrWrote, HasRoom, IsFull
    <2>2. CASE g = Closed
        BY <2>2 DEF Closed, HasRoom, IsOpen
    <2>3. CASE clock \in DOMAIN e /\ g = NewStream(Len(e[clock]))
        BY <2>0, <2>3 DEF NewStream, IsNewOrWrote, HasRoom
    <2> QED
        BY <2>1, <2>2, <2>3 DEF Rotated
<1> QED
    BY <1>1, <1>2, <1>3

LEMMA RotatedOrder ==
    ASSUME NEW d, NEW f, NEW b, Typed(d, f, b), clock \in Times, NEW e, NEW g,
           Rotated(d, f, e, g), WritesNewest(d, f), f.name <= clock,
           FilesInOrder(d), BufferInOrder(d, b)
    PROVE  /\ WritesNewest(e, g) /\ g.name <= clock
           /\ FilesInOrder(e) /\ BufferInOrder(e, b)
<1>1. clock \in Nat /\ DOMAIN d \in SUBSET Times
    BY DEF Times, Typed
<1>2. \A t \in DOMAIN e : t \in DOMAIN d \/ t = clock
    BY DEF Rotated, Newest
<1>3. \A t \in DOMAIN e : t <= clock
    BY <1>1, <1>2 DEF WritesNewest
<1>4. (IsOpen(g) => g.name \in DOMAIN e /\ \A t \in DOMAIN e : t <= g.name) /\ g.name <= clock
    <2>1. CASE g = f /\ DOMAIN e = Newest(DOMAIN d)
        <3>1. IsOpen(f) => f.name \in Newest(DOMAIN d)
            BY <1>1, NewestOf DEF WritesNewest
        <3>2. Newest(DOMAIN d) \subseteq DOMAIN d
            BY DEF Newest
        <3> QED
            BY <2>1, <3>1, <3>2 DEF WritesNewest
    <2>2. CASE g = Closed
        BY <1>1, <2>2 DEF Closed, IsOpen
    <2>3. CASE clock \in DOMAIN e /\ g = NewStream(Len(e[clock]))
        BY <1>1, <1>3, <2>3 DEF NewStream
    <2> QED
        BY <2>1, <2>2, <2>3 DEF Rotated
<1>5. FilesInOrder(e)
    <2> SUFFICES ASSUME NEW s \in DOMAIN e, NEW t \in DOMAIN e,
                        NEW i \in 1 .. Len(e[s]), NEW j \in 1 .. Len(e[t]),
                        s < t \/ (s = t /\ i < j), e[s][i] > 0
                 PROVE  e[s][i] < e[t][j]
        BY DEF FilesInOrder
    <2>1. Len(e[s]) # 0 /\ Len(e[t]) # 0
        OBVIOUS
    <2>2. s \in DOMAIN d /\ e[s] = d[s] /\ t \in DOMAIN d /\ e[t] = d[t]
        BY <2>1, RotatedLines
    <2> QED
        BY <2>2 DEF FilesInOrder
<1>6. BufferInOrder(e, b)
    <2>1. ASSUME NEW t \in DOMAIN e, NEW i \in 1 .. Len(e[t]), NEW j \in 1 .. Len(b)
          PROVE  e[t][i] < b[j]
        <3>1. Len(e[t]) # 0
            OBVIOUS
        <3>2. t \in DOMAIN d /\ e[t] = d[t]
            BY <3>1, RotatedLines
        <3> QED
            BY <3>2 DEF BufferInOrder
    <2> QED
        BY <2>1 DEF BufferInOrder
<1> QED
    BY <1>3, <1>4, <1>5, <1>6 DEF WritesNewest

LEMMA RotatedNumbers ==
    ASSUME NEW d, NEW f, NEW b, NEW e, NEW g, Rotated(d, f, e, g), NEW n \in Nat,
           NumbersUpTo(d, b, n)
    PROVE  NumbersUpTo(e, b, n)
<1>1. ASSUME NEW t \in DOMAIN e, NEW i \in 1 .. Len(e[t])
      PROVE  e[t][i] <= n
    <2>1. Len(e[t]) # 0
        OBVIOUS
    <2>2. t \in DOMAIN d /\ e[t] = d[t]
        BY <2>1, RotatedLines
    <2> QED
        BY <2>2 DEF NumbersUpTo
<1> QED
    BY <1>1 DEF NumbersUpTo

\* Only the oldest lines go, and a file less than MaxFiles never does.
LEMMA RotatedKept ==
    ASSUME NEW d, NEW f, NEW b, Typed(d, f, b), clock \in Times, NEW e, NEW g,
           Rotated(d, f, e, g), NEW n \in Lines, NEW x, NumbersUpTo(d, b, n),
           FilesInOrder(d), BufferInOrder(d, b), KeptFrom(d, b, n, x)
    PROVE  KeptFrom(e, b, n, x)
<1> DEFINE N == Newest(DOMAIN d)
<1>0. /\ DOMAIN d \in SUBSET Times /\ N \subseteq DOMAIN d /\ n \in Nat /\ MaxFiles \in Nat
      /\ MaxLines \in Nat
    BY DOLogAssumption DEF Typed, Newest, Lines
<1>1. PICK first \in 1 .. n + 1 :
        /\ AllFrom(d, b, n, x, first)
        /\ first > 1 => Cardinality(DOMAIN d) >= MaxFiles
    BY DEF KeptFrom
<1>2. DOMAIN e \in SUBSET Times /\ N \in SUBSET DOMAIN e /\ IsFiniteSet(DOMAIN e)
      /\ Cardinality(DOMAIN e) \in Nat /\ Cardinality(N) \in Nat
    <2>1. DOMAIN e \in SUBSET Times /\ N \in SUBSET Times
        BY <1>0, RotatedTyped DEF Typed
    <2>2. N \in SUBSET DOMAIN e
        BY DEF Rotated
    <2> QED
        BY <2>1, <2>2, TimesAreFinite
<1>3. Cardinality(N) <= Cardinality(DOMAIN e)
    BY <1>2, FS_Subset
\* Where the lines of e come from
<1>4. ASSUME NEW l, IsIn(e, l)
      PROVE  \E t \in N : \E i \in 1 .. Len(d[t]) : d[t][i] = l
    <2>1. PICK t \in DOMAIN e : \E i \in 1 .. Len(e[t]) : e[t][i] = l
        BY <1>4 DEF IsIn
    <2>2. Len(e[t]) # 0
        BY <2>1
    <2>3. t \in N /\ e[t] = d[t]
        BY <2>2, RotatedLines
    <2> QED
        BY <2>1, <2>3
<1>5. ASSUME NEW t \in N, NEW i \in 1 .. Len(d[t])
      PROVE  IsIn(e, d[t][i])
    <2>1. t \in DOMAIN e /\ e[t] = d[t]
        BY DEF Rotated
    <2> QED
        BY <2>1 DEF IsIn
<1>6. CASE N = DOMAIN d
    <2>1. \A l : IsIn(e, l) <=> IsIn(d, l)
        <3>1. ASSUME NEW l, IsIn(e, l) PROVE IsIn(d, l)
            BY <1>4, <1>6, <3>1 DEF IsIn
        <3>2. ASSUME NEW l, IsIn(d, l) PROVE IsIn(e, l)
            <4>1. PICK t \in N : \E i \in 1 .. Len(d[t]) : d[t][i] = l
                BY <1>6, <3>2 DEF IsIn
            <4> QED
                BY <1>5, <4>1
        <3> QED
            BY <3>1, <3>2
    <2>2. AllFrom(e, b, n, x, first)
        BY <1>1, <2>1 DEF AllFrom
    <2>3. first > 1 => Cardinality(DOMAIN e) >= MaxFiles
        BY <1>0, <1>1, <1>2, <1>3, <1>6
    <2> QED
        BY <2>2, <2>3 DEF KeptFrom
<1>7. CASE N # DOMAIN d
    <2>1. Cardinality(DOMAIN e) >= MaxFiles
        BY <1>0, <1>2, <1>3, <1>7, NewestOf
    <2> DEFINE Lost == {l \in 1 .. n : \E t \in DOMAIN d \ N :
                            \E i \in 1 .. Len(d[t]) : d[t][i] = l}
    <2>2. ASSUME NEW l \in Lines \ {0}, IsIn(d, l)
          PROVE  IsIn(e, l) \/ l \in Lost
        <3>1. PICK t \in DOMAIN d : \E i \in 1 .. Len(d[t]) : d[t][i] = l
            BY <2>2 DEF IsIn
        <3>2. PICK i \in 1 .. Len(d[t]) : d[t][i] = l
            BY <3>1
        <3>3. l \in 1 .. n
            BY <1>0, <3>2 DEF Lines, NumbersUpTo
        <3> QED
            BY <1>5, <3>2, <3>3
    <2>3. \A l : IsIn(e, l) => IsIn(d, l)
        BY <1>0, <1>4 DEF IsIn
    <2>4. CASE Lost = {}
        <3>1. \A l \in Lines \ {0} : IsIn(e, l) <=> IsIn(d, l)
            BY <2>2, <2>3, <2>4
        <3>2. AllFrom(e, b, n, x, first)
            BY <1>1, <3>1 DEF AllFrom
        <3> QED
            BY <2>1, <3>2 DEF KeptFrom
    <2>5. CASE Lost # {}
        <3>1. PICK m \in Lost : \A l \in Lost : l <= m
            <4>1. Lost \subseteq 0 .. n
                BY <1>0
            <4> HIDE DEF Lost
            <4> QED
                BY <1>0, <2>5, <4>1, Greatest
        <3>2. PICK u \in DOMAIN d \ N : \E i \in 1 .. Len(d[u]) : d[u][i] = m
            BY <3>1
        <3>3. PICK j \in 1 .. Len(d[u]) : d[u][j] = m
            BY <3>2
        <3>4. m \in 1 .. n /\ m \in Lines \ {0}
            BY <1>0, <3>1 DEF Lines
        <3>5. IsIn(d, m)
            BY <3>3 DEF IsIn
        <3>6. m >= first /\ m + 1 \in 1 .. n + 1
            BY <1>0, <1>1, <3>4, <3>5 DEF AllFrom
        <3> HIDE DEF Lost
        <3>7. ASSUME NEW l \in Lines \ {0}, IsIn(e, l) \/ IsBuffered(b, l)
              PROVE  l \in (m + 1 .. n) \ x
            <4>1. l \in (first .. n) \ x
                BY <1>1, <2>3, <3>7 DEF AllFrom
            <4>2. m < l
                <5>1. CASE IsIn(e, l)
                    <6>1. PICK t \in N : \E i \in 1 .. Len(d[t]) : d[t][i] = l
                        BY <1>4, <5>1
                    <6>2. u < t
                        BY <1>0, <6>1, NewestOf
                    <6> QED
                        BY <1>0, <3>3, <3>4, <6>1, <6>2 DEF FilesInOrder
                <5>2. CASE IsBuffered(b, l)
                    BY <3>3, <5>2 DEF IsBuffered, BufferInOrder
                <5> QED
                    BY <3>7, <5>1, <5>2
            <4> QED
                BY <1>0, <3>4, <4>1, <4>2
        <3>8. ASSUME NEW l \in Lines \ {0}, l \in (m + 1 .. n) \ x
              PROVE  IsIn(e, l) \/ IsBuffered(b, l)
            <4>1. l \in (first .. n) \ x /\ ~(l <= m)
                BY <1>0, <3>4, <3>6, <3>8
            <4>2. IsIn(d, l) \/ IsBuffered(b, l)
                BY <1>1, <4>1 DEF AllFrom
            <4> QED
                BY <2>2, <3>1, <4>1, <4>2
        <3>9. AllFrom(e, b, n, x, m + 1)
            BY <3>7, <3>8 DEF AllFrom
        <3> QED
            BY <2>1, <3>6, <3>9 DEF KeptFrom
    <2> QED
        BY <2>4, <2>5
<1> QED
    BY <1>6, <1>7

-----------------------------------------------------------------------------
(* What flush, rotation and a line more keep *)

LEMMA FlushKeeps ==
    ASSUME NEW d, NEW f, NEW b, NEW n \in Nat, NEW x, NEW w, Logged(d, f, b, n, x, w),
           "burst" \notin w => HasRoom(f), NEW kept \in 0 .. Len(b),
           "disk" \notin w => kept = Len(b) /\ (IsOpen(f) => f.good),
           NEW r, r = Flush(d, f, b, kept)
    PROVE  /\ Logged(r.dir, r.file, r.buffer, n, x, w)
           /\ "disk" \notin w /\ IsOpen(f) => r.file.good
<1>1. CASE r.dir = d /\ r.file = f /\ r.buffer = b /\ (~IsOpen(f) \/ b = <<>>)
    BY <1>1
<1>2. CASE ~(r.dir = d /\ r.file = f /\ r.buffer = b /\ (~IsOpen(f) \/ b = <<>>))
    <2>0. PICK k \in 0 .. Len(b) : Flushed(d, f, b, kept, r, k)
        <3>1. Typed(d, f, b)
            BY DEF Logged
        <3> QED
            BY <1>2, <3>1, FlushCases
    <2> USE DEF Flushed
    <2> DEFINE e == r.dir
               g == r.file
    <2>1. Typed(d, f, b) /\ Len(b) < BufferSize /\ SizeIsKnown(d, f) /\ Len(b) \in Nat
          /\ BufferSize \in Nat /\ f \in Streams
        BY DOLogAssumption DEF Logged, Typed
    <2>2. /\ g \in Streams /\ g.name = f.name /\ g.wrote /\ g.size = f.size + k
          /\ "disk" \notin w => g.good
        <3>1. /\ f.name \in Times \cup {0} /\ f.good \in BOOLEAN /\ f.size \in Nat
              /\ k \in Nat /\ f.size + k \in Nat
            BY <2>1 DEF Streams
        <3>2. /\ g.name = f.name /\ g.wrote = TRUE /\ g.size = f.size + k
              /\ g.good = IF kept = Len(b) THEN f.good ELSE FALSE
            BY <2>0, <2>1 DEF Streams
        <3>3. g.good \in BOOLEAN
            BY <3>1, <3>2
        <3>4. g \in Streams
            BY <2>0, <2>1, <3>1, <3>2, <3>3 DEF Streams
        <3> QED
            BY <2>0, <3>2, <3>4
    <2>3. Typed(e, g, <<>>) /\ DOMAIN e = DOMAIN d
        <3>1. <<>> \in Seq(Lines)
            OBVIOUS
        <3> QED
            BY <2>0, <2>1, <2>2, <3>1, ExtendedTyped DEF Typed, Extended
    <2>4. Len(<<>>) < BufferSize
        BY <2>1, DOLogAssumption
    <2>5. SizeIsKnown(e, g)
        BY <2>0, <2>1, <2>2 DEF SizeIsKnown, Extended
    <2>6. "burst" \notin w => FilesAreSmall(e) /\ IsNewOrWrote(g)
        <3>1. f.good \/ k = 0
            BY <2>0
        <3>2. "burst" \notin w => FilesAreSmall(e)
            BY <2>0, <2>1, <3>1, ExtendedSmall DEF Logged
        <3> QED
            BY <2>2, <3>2 DEF IsNewOrWrote
    <2>7. "clock" \notin w =>
            /\ WritesNewest(e, g) /\ g.name <= clock
            /\ FilesInOrder(e) /\ BufferInOrder(e, <<>>)
        <3> SUFFICES ASSUME "clock" \notin w
                     PROVE  /\ WritesNewest(e, g) /\ g.name <= clock
                            /\ FilesInOrder(e) /\ BufferInOrder(e, <<>>)
            OBVIOUS
        <3>1. WritesNewest(d, f) /\ f.name <= clock /\ FilesInOrder(d) /\ BufferInOrder(d, b)
            BY DEF Logged
        <3>2. FilesInOrder(e)
            BY <2>0, <2>1, <3>1, ExtendedOrder DEF WritesNewest
        <3>3. WritesNewest(e, g)
            BY <2>2, <2>3, <3>1 DEF WritesNewest, IsOpen
        <3>4. BufferInOrder(e, <<>>)
            BY DEF BufferInOrder
        <3> QED
            BY <2>2, <3>1, <3>2, <3>3, <3>4
    <2>8. NumbersUpTo(e, <<>>, n) /\ x \subseteq 1 .. n
        <3>1. NumbersUpTo(d, b, n) /\ x \subseteq 1 .. n
            BY DEF Logged
        <3> QED
            BY <2>0, <2>1, <3>1, ExtendedNumbers
    <2>9. w \cap {"clock", "disk"} = {} => KeptFrom(e, <<>>, n, x)
        <3> SUFFICES ASSUME w \cap {"clock", "disk"} = {}
                     PROVE  KeptFrom(e, <<>>, n, x)
            OBVIOUS
        <3>1. KeptFrom(d, b, n, x) /\ WritesNewest(d, f) /\ k = Len(b) /\ f.name \in DOMAIN d
            BY <2>0 DEF Logged, WritesNewest
        <3>2. PICK first \in 1 .. n + 1 :
                /\ AllFrom(d, b, n, x, first)
                /\ first > 1 => Cardinality(DOMAIN d) >= MaxFiles
            BY <3>1 DEF KeptFrom
        <3>3. \A l : IsIn(e, l) <=> IsIn(d, l) \/ IsBuffered(b, l)
            BY <2>0, <2>1, <3>1, ExtendedAll
        <3>4. \A l : ~IsBuffered(<<>>, l)
            BY DEF IsBuffered
        <3>5. AllFrom(e, <<>>, n, x, first)
            BY <3>2, <3>3, <3>4 DEF AllFrom
        <3> QED
            BY <2>3, <3>2, <3>5 DEF KeptFrom
    <2> HIDE DEF e, g
    <2>10. Logged(e, g, <<>>, n, x, w)
        BY <2>3, <2>4, <2>5, <2>6, <2>7, <2>8, <2>9 DEF Logged
    <2> QED
        BY <2>0, <2>2, <2>3, <2>10 DEF e, g
<1> QED
    BY <1>1, <1>2

LEMMA RotateKeeps ==
    ASSUME NEW d, NEW f, NEW b, NEW n \in Lines, NEW x, NEW w, Logged(d, f, b, n, x, w),
           clock \in Times, NEW e, NEW g, Rotated(d, f, e, g),
           "burst" \notin w => IsNewOrWrote(g)
    PROVE  /\ Logged(e, g, b, n, x, w)
           /\ Cardinality(DOMAIN e) <= MaxFiles + 1
           /\ "burst" \notin w => HasRoom(g)
<1>1. Typed(d, f, b) /\ SizeIsKnown(d, f) /\ NumbersUpTo(d, b, n) /\ n \in Nat
    BY DOLogAssumption DEF Logged, Lines
<1>2. Typed(e, g, b) /\ Cardinality(DOMAIN e) <= MaxFiles + 1
    BY <1>1, RotatedTyped
<1>3. /\ SizeIsKnown(e, g)
      /\ "burst" \notin w => FilesAreSmall(e) /\ IsNewOrWrote(g) /\ HasRoom(g)
    BY <1>1, RotatedSizes DEF Logged
<1>4. "clock" \notin w =>
        /\ WritesNewest(e, g) /\ g.name <= clock
        /\ FilesInOrder(e) /\ BufferInOrder(e, b)
    BY <1>1, RotatedOrder DEF Logged
<1>5. NumbersUpTo(e, b, n)
    BY <1>1, RotatedNumbers
<1>6. w \cap {"clock", "disk"} = {} => KeptFrom(e, b, n, x)
    <2> SUFFICES ASSUME w \cap {"clock", "disk"} = {}
                 PROVE  KeptFrom(e, b, n, x)
        OBVIOUS
    <2>1. FilesInOrder(d) /\ BufferInOrder(d, b) /\ KeptFrom(d, b, n, x)
        BY DEF Logged
    <2> QED
        BY <1>1, <2>1, RotatedKept
<1>7. Len(b) < BufferSize /\ x \subseteq 1 .. n
    BY DEF Logged
<1> QED
    BY <1>2, <1>3, <1>4, <1>5, <1>6, <1>7 DEF Logged

\* A line more in the buffer
LEMMA AppendKeeps ==
    ASSUME NEW d, NEW f, NEW b, NEW n \in Lines, NEW x, NEW w, Logged(d, f, b, n, x, w),
           Fits(b), n + 1 \in Lines
    PROVE  Logged(d, f, Append(b, n + 1), n + 1, x, w)
<1> DEFINE c == Append(b, n + 1)
<1>1. /\ n \in Nat /\ b \in Seq(Lines) /\ Len(b) \in Nat /\ BufferSize \in Nat
      /\ NumbersUpTo(d, b, n)
    BY DOLogAssumption DEF Logged, Lines, Typed
<1>2. /\ c \in Seq(Lines) /\ Len(c) = Len(b) + 1 /\ c[Len(b) + 1] = n + 1
      /\ \A i \in 1 .. Len(b) : c[i] = b[i]
    BY <1>1
<1> HIDE DEF c
<1>3. Typed(d, f, c) /\ Len(c) < BufferSize
    BY <1>1, <1>2 DEF Logged, Typed, Fits
<1>4. NumbersUpTo(d, c, n + 1)
    <2>0. /\ \A t \in DOMAIN d : \A i \in 1 .. Len(d[t]) : d[t][i] \in Lines
        BY DEF Logged, Typed
    <2>1. ASSUME NEW t \in DOMAIN d, NEW i \in 1 .. Len(d[t]) PROVE d[t][i] <= n + 1
        <3>1. d[t][i] \in Nat /\ d[t][i] <= n
            BY <1>1, <2>0, DOLogAssumption DEF NumbersUpTo, Lines
        <3> QED
            BY <1>1, <3>1
    <2>2. ASSUME NEW i \in 1 .. Len(c) PROVE c[i] \in 1 .. n + 1
        BY <1>1, <1>2 DEF NumbersUpTo
    <2> QED
        BY <2>1, <2>2 DEF NumbersUpTo
<1>5. ASSUME BufferInOrder(d, b) PROVE BufferInOrder(d, c)
    <2>0. /\ \A t \in DOMAIN d : \A i \in 1 .. Len(d[t]) : d[t][i] \in Lines
        BY DEF Logged, Typed
    <2>1. ASSUME NEW i \in 1 .. Len(c), NEW j \in 1 .. Len(c), i < j PROVE c[i] < c[j]
        BY <1>1, <1>2, <1>5, <2>1 DEF NumbersUpTo, BufferInOrder
    <2>2. ASSUME NEW t \in DOMAIN d, NEW i \in 1 .. Len(d[t]), NEW j \in 1 .. Len(c)
          PROVE  d[t][i] < c[j]
        <3>1. d[t][i] \in Nat /\ d[t][i] <= n
            BY <1>1, <2>0, DOLogAssumption DEF NumbersUpTo, Lines
        <3> QED
            BY <1>1, <1>2, <1>5, <3>1 DEF BufferInOrder
    <2> QED
        BY <2>1, <2>2 DEF BufferInOrder
<1>6. x \subseteq 1 .. n + 1
    <2>1. x \subseteq 1 .. n
        BY DEF Logged
    <2> QED
        BY <1>1, <2>1
<1>7. ASSUME KeptFrom(d, b, n, x) PROVE KeptFrom(d, c, n + 1, x)
    <2>1. PICK first \in 1 .. n + 1 :
            /\ AllFrom(d, b, n, x, first)
            /\ first > 1 => Cardinality(DOMAIN d) >= MaxFiles
        BY <1>7 DEF KeptFrom
    <2>2. \A l : IsBuffered(c, l) <=> IsBuffered(b, l) \/ l = n + 1
        BY <1>1, <1>2 DEF IsBuffered
    <2>3. n + 1 \notin x
        BY <1>1 DEF Logged
    <2>4. ASSUME NEW l \in Lines \ {0}
          PROVE  l \in (first .. n + 1) \ x <=> l \in (first .. n) \ x \/ l = n + 1
        BY <1>1, <2>3 DEF Lines
    <2>5. AllFrom(d, c, n + 1, x, first)
        BY <2>1, <2>2, <2>4 DEF AllFrom
    <2>6. first \in 1 .. (n + 1) + 1
        BY <1>1
    <2> QED
        BY <2>1, <2>5, <2>6 DEF KeptFrom
<1> QED
    BY <1>3, <1>4, <1>5, <1>6, <1>7 DEF Logged, c

\* A line that is too long is dropped; without its stream the logger loses lines when the
\* buffer is full.
LEMMA DropKeeps ==
    ASSUME NEW d, NEW f, NEW b, NEW n \in Lines, NEW x, NEW y, NEW w, Logged(d, f, b, n, x, w),
           y = x \cup {n + 1} \/ (y = x /\ "disk" \in w)
    PROVE  Logged(d, f, b, n + 1, y, w)
<1>1. n \in Nat /\ x \subseteq 1 .. n /\ NumbersUpTo(d, b, n)
      /\ \A t \in DOMAIN d : \A i \in 1 .. Len(d[t]) : d[t][i] \in Nat
    BY DOLogAssumption DEF Logged, Typed, Lines
<1>2. NumbersUpTo(d, b, n + 1)
    <2>1. ASSUME NEW t \in DOMAIN d, NEW i \in 1 .. Len(d[t]) PROVE d[t][i] <= n + 1
        <3>1. d[t][i] \in Nat /\ d[t][i] <= n
            BY <1>1 DEF NumbersUpTo
        <3> QED
            BY <1>1, <3>1
    <2>2. ASSUME NEW i \in 1 .. Len(b) PROVE b[i] \in 1 .. n + 1
        BY <1>1 DEF NumbersUpTo
    <2> QED
        BY <2>1, <2>2 DEF NumbersUpTo
<1>3. y \subseteq 1 .. n + 1
    <2>1. \A l \in x : l \in 1 .. n + 1
        BY <1>1
    <2>2. n + 1 \in 1 .. n + 1
        BY <1>1
    <2> QED
        BY <2>1, <2>2
<1>4. w \cap {"clock", "disk"} = {} => KeptFrom(d, b, n + 1, y)
    <2> SUFFICES ASSUME w \cap {"clock", "disk"} = {}
                 PROVE  KeptFrom(d, b, n + 1, y)
        OBVIOUS
    <2>1. KeptFrom(d, b, n, x) /\ y = x \cup {n + 1}
        BY DEF Logged
    <2>2. PICK first \in 1 .. n + 1 :
            /\ AllFrom(d, b, n, x, first)
            /\ first > 1 => Cardinality(DOMAIN d) >= MaxFiles
        BY <2>1 DEF KeptFrom
    <2>3. ASSUME NEW l \in Lines \ {0}
          PROVE  l \in (first .. n + 1) \ y <=> l \in (first .. n) \ x
        BY <1>1, <2>1 DEF Lines
    <2>4. AllFrom(d, b, n + 1, y, first)
        BY <2>2, <2>3 DEF AllFrom
    <2>5. first \in 1 .. (n + 1) + 1
        BY <1>1
    <2> QED
        BY <2>2, <2>4, <2>5 DEF KeptFrom
<1> QED
    BY <1>2, <1>3, <1>4 DEF Logged

\* More may go wrong, and time may pass.
LEMMA MoreTrouble ==
    ASSUME NEW d, NEW f, NEW b, NEW n, NEW x, NEW v, NEW w, Logged(d, f, b, n, x, v),
           v \subseteq w
    PROVE  Logged(d, f, b, n, x, w)
BY DEF Logged

LEMMA LoggedNext ==
    ASSUME clock' = clock, Logged(dir', file', buffer', logged', dropped', trouble')
    PROVE  Logged(dir, file, buffer, logged, dropped, trouble)'
BY DEF Logged, Typed, SizeIsKnown, FilesAreSmall, IsNewOrWrote, IsOpen, WritesNewest,
    FilesInOrder, BufferInOrder, NumbersUpTo, KeptFrom, AllFrom, IsIn, IsBuffered

LEMMA LoggedLater ==
    ASSUME Logged(dir, file, buffer, logged, dropped, trouble), TypeOK, clock' \in Times,
           UNCHANGED <<dir, file, buffer, logged, dropped>>, trouble \subseteq trouble',
           clock' >= clock \/ "clock" \in trouble'
    PROVE  Logged(dir, file, buffer, logged, dropped, trouble)'
<1>1. Logged(dir, file, buffer, logged, dropped, trouble')
    BY MoreTrouble
<1>2. "clock" \notin trouble' =>
        (/\ WritesNewest(dir, file) /\ file.name <= clock
         /\ FilesInOrder(dir) /\ BufferInOrder(dir, buffer))'
    <2> SUFFICES ASSUME "clock" \notin trouble'
                 PROVE  (/\ WritesNewest(dir, file) /\ file.name <= clock
                         /\ FilesInOrder(dir) /\ BufferInOrder(dir, buffer))'
        OBVIOUS
    <2>1. /\ WritesNewest(dir, file) /\ file.name <= clock
          /\ FilesInOrder(dir) /\ BufferInOrder(dir, buffer)
        BY <1>1 DEF Logged
    <2>2. /\ clock \in Nat /\ clock' \in Nat /\ clock <= clock' /\ file.name \in Nat
          /\ \A t \in DOMAIN dir : t \in Nat
        BY DEF TypeOK, Times, Streams
    <2>3. file.name <= clock' /\ \A t \in DOMAIN dir : t <= clock'
        BY <2>1, <2>2 DEF WritesNewest
    <2> QED
        BY <2>1, <2>3 DEF WritesNewest, FilesInOrder, BufferInOrder, IsOpen
<1> QED
    BY <1>1, <1>2 DEF Logged, Typed, SizeIsKnown, FilesAreSmall, IsNewOrWrote, IsOpen,
        NumbersUpTo, KeptFrom, AllFrom, IsIn, IsBuffered

-----------------------------------------------------------------------------
(* The actions *)

Troubles == {"disk", "clock", "burst"}

\* What is noted, and that a second file of a second is new
LEMMA Noted ==
    ASSUME IInv, NEW r, NoteBurst(r), r.file \in Streams
    PROVE  /\ trouble \subseteq trouble' /\ trouble' \subseteq Troubles
           /\ trouble' \cap {"clock", "disk"} = trouble \cap {"clock", "disk"}
           /\ "burst" \notin trouble' => IsNewOrWrote(r.file)
<1>1. trouble \subseteq Troubles /\ r.file.size \in Nat
    BY DEF IInv, TypeOK, Troubles, Streams
<1>2. "burst" \notin trouble => IsNewOrWrote(file)
    BY DEF IInv, Logged
<1>3. CASE r.file # file /\ IsOpen(r.file) /\ ~r.file.wrote /\ r.file.size > 0
    BY <1>1, <1>3 DEF NoteBurst, Troubles
<1>4. CASE ~(r.file # file /\ IsOpen(r.file) /\ ~r.file.wrote /\ r.file.size > 0)
    <2>1. trouble' = trouble
        BY <1>4 DEF NoteBurst
    <2> QED
        BY <1>1, <1>2, <1>4, <2>1 DEF IsNewOrWrote
<1> QED
    BY <1>3, <1>4

\* The stream of a logger that works takes the whole buffer, but for a full disk.
LEMMA FlushNow ==
    ASSUME IInv, logger \in Working, NEW kept \in Kept, NEW p,
           p = Flush(dir, file, buffer, kept)
    PROVE  /\ Logged(p.dir, p.file, p.buffer, logged, dropped, trouble)
           /\ p.file.name = file.name /\ DOMAIN p.dir = DOMAIN dir
           /\ "disk" \notin trouble => p.file.good /\ p.buffer = <<>>
           /\ p.buffer = buffer \/ p.buffer = <<>>
<1>1. /\ logged \in Lines /\ buffer \in Seq(Lines) /\ file \in Streams
      /\ "disk" \notin trouble => IsOpen(file) /\ file.good
      /\ "burst" \notin trouble => HasRoom(file)
      /\ Logged(dir, file, buffer, logged, dropped, trouble)
    BY DEF IInv, TypeOK, StreamIsThere
<1>2. logged \in Nat /\ Len(buffer) \in Nat
    BY <1>1, DOLogAssumption DEF Lines
<1>3. kept \in 0 .. Len(buffer) /\ ("disk" \notin trouble => kept = Len(buffer))
    BY <1>2 DEF Kept
<1>4. "disk" \notin trouble => kept = Len(buffer) /\ (IsOpen(file) => file.good)
    BY <1>1, <1>3
<1>5. Logged(p.dir, p.file, p.buffer, logged, dropped, trouble)
    BY <1>1, <1>2, <1>3, <1>4, FlushKeeps
<1>6. "disk" \notin trouble /\ IsOpen(file) => p.file.good
    BY <1>1, <1>2, <1>3, <1>4, FlushKeeps
<1>7. /\ p.file.name = file.name /\ DOMAIN p.dir = DOMAIN dir
      /\ IsOpen(file) => p.buffer = <<>>
      /\ p.buffer = buffer \/ p.buffer = <<>>
    BY <1>1 DEF Flush, Streams
<1> QED
    BY <1>1, <1>5, <1>6, <1>7

\* One round: the buffer is flushed, the files are rotated.
LEMMA RoundKeeps ==
    ASSUME IInv, logger \in Working, NEW kept \in Kept, NEW created \in MayCreate,
           NEW p, p = Flush(dir, file, buffer, kept),
           NEW q, q = RotateLogFiles(p.dir, p.file, created), NoteBurst(q)
    PROVE  /\ Logged(q.dir, q.file, p.buffer, logged, dropped, trouble')
           /\ Cardinality(DOMAIN q.dir) <= MaxFiles + 1
           /\ "burst" \notin trouble' => HasRoom(q.file)
           /\ "disk" \notin trouble' => IsOpen(q.file) /\ q.file.good /\ p.buffer = <<>>
           /\ trouble' \subseteq Troubles
           /\ trouble' \cap {"clock", "disk"} = trouble \cap {"clock", "disk"}
           /\ p.buffer = buffer \/ p.buffer = <<>>
<1>1. /\ logged \in Lines /\ clock \in Times /\ created \in BOOLEAN
      /\ "disk" \notin trouble => IsOpen(file) /\ created
    BY DEF IInv, TypeOK, StreamIsThere, MayCreate
<1>2. /\ Logged(p.dir, p.file, p.buffer, logged, dropped, trouble)
      /\ p.file.name = file.name
      /\ "disk" \notin trouble => p.file.good /\ p.buffer = <<>>
      /\ p.buffer = buffer \/ p.buffer = <<>>
    BY FlushNow
<1>3. Typed(p.dir, p.file, p.buffer) /\ DOMAIN p.dir \subseteq Times
    BY <1>2 DEF Logged, Typed
<1>4. /\ Rotated(p.dir, p.file, q.dir, q.file)
      /\ created => q.file = p.file \/ q.file.good
    BY <1>1, <1>3, RotateCases
<1>5. q.file \in Streams
    BY <1>1, <1>3, <1>4, RotatedTyped DEF Typed
<1>6. /\ trouble \subseteq trouble' /\ trouble' \subseteq Troubles
      /\ trouble' \cap {"clock", "disk"} = trouble \cap {"clock", "disk"}
      /\ "burst" \notin trouble' => IsNewOrWrote(q.file)
    BY <1>5, Noted
<1>7. Logged(p.dir, p.file, p.buffer, logged, dropped, trouble')
    BY <1>2, <1>6, MoreTrouble
<1>8. /\ Logged(q.dir, q.file, p.buffer, logged, dropped, trouble')
      /\ Cardinality(DOMAIN q.dir) <= MaxFiles + 1
      /\ "burst" \notin trouble' => HasRoom(q.file)
    BY <1>1, <1>4, <1>6, <1>7, RotateKeeps
<1>9. "disk" \notin trouble' => IsOpen(q.file) /\ q.file.good /\ p.buffer = <<>>
    <2> SUFFICES ASSUME "disk" \notin trouble'
                 PROVE  IsOpen(q.file) /\ q.file.good /\ p.buffer = <<>>
        OBVIOUS
    <2>1. "disk" \notin trouble /\ IsOpen(file) /\ p.file.good /\ p.buffer = <<>> /\ created
        BY <1>1, <1>2, <1>6
    <2>2. q.file.good
        BY <1>4, <2>1
    <2>3. q.file # Closed
        BY <2>2 DEF Closed
    <2>4. CASE q.file = p.file
        BY <1>2, <2>1, <2>4 DEF IsOpen
    <2>5. CASE q.file = NewStream(Len(q.dir[clock]))
        <3>1. q.file.name = clock /\ clock \in 1 .. MaxClock
            BY <1>1, <2>5 DEF NewStream, Times
        <3>2. q.file.name # 0
            BY <3>1
        <3> QED
            BY <2>2, <2>1, <3>2 DEF IsOpen
    <2> QED
        BY <1>4, <2>1, <2>2, <2>3, <2>4, <2>5 DEF Rotated
<1> QED
    BY <1>2, <1>6, <1>8, <1>9

\* The logger works on.
LEMMA WorksOn ==
    ASSUME IInv, clock' = clock, logger' \in Working,
           Logged(dir', file', buffer', logged', dropped', trouble'),
           logged' \in Lines, trouble' \subseteq Troubles,
           Cardinality(DOMAIN dir') <= MaxFiles + 1,
           "burst" \notin trouble' => HasRoom(file'),
           "disk" \notin trouble' => IsOpen(file') /\ file'.good,
           logger' = "last" /\ trouble' \cap {"clock", "disk"} = {} =>
               buffer' # <<>> /\ buffer'[Len(buffer')] = logged'
    PROVE  IInv'
<1>1. Logged(dir, file, buffer, logged, dropped, trouble)'
    BY LoggedNext
<1>2. TypeOK'
    <2>1. Typed(dir', file', buffer') /\ dropped' \subseteq 1 .. logged'
        BY DEF Logged
    <2>2. clock \in Times /\ MaxLines \in Nat
        BY DOLogAssumption DEF IInv, TypeOK
    <2>3. dropped' \subseteq Lines
        BY <2>1, <2>2 DEF Lines
    <2> QED
        BY <2>1, <2>2, <2>3 DEF TypeOK, Typed, Working, Troubles
<1>3. (FilesAreFew /\ StreamIsThere /\ LastIsBuffered)'
    BY DEF FilesAreFew, StreamIsThere, LastIsBuffered, HasRoom, IsOpen
<1>4. EverythingIsWritten'
    BY DEF EverythingIsWritten, Working
<1> QED
    BY <1>1, <1>2, <1>3, <1>4 DEF IInv

\* The logger starts.
LEMMA StartInductive ==
    ASSUME IInv, StartLogger
    PROVE  IInv'
<1>1. PICK created \in MayCreate :
        LET cleared == ClearOlderLogFiles(dir)
            start == IF created THEN CreateLogFile(cleared)
                     ELSE [dir |-> cleared, file |-> Closed]
        IN  dir' = start.dir /\ file' = start.file /\ NoteBurst(start)
    BY DEF StartLogger
<1> DEFINE r == IF created THEN CreateLogFile(ClearOlderLogFiles(dir))
                ELSE [dir |-> ClearOlderLogFiles(dir), file |-> Closed]
<1>2. /\ dir' = r.dir /\ file' = r.file /\ NoteBurst(r)
      /\ logger' = "running" /\ UNCHANGED <<clock, buffer, logged, dropped>>
      /\ file = Closed
    BY <1>1 DEF StartLogger, IInv, StreamIsThere, Working
<1>3. /\ Typed(dir, file, buffer) /\ DOMAIN dir \subseteq Times /\ clock \in Times
      /\ logged \in Lines /\ Logged(dir, file, buffer, logged, dropped, trouble)
      /\ "disk" \notin trouble => created
    BY DEF IInv, TypeOK, Typed, MayCreate
<1>4. Rotated(dir, file, r.dir, r.file) /\ (created => r.file.good)
    <2>1. CASE created
        BY <1>3, <2>1, CreatedIsRotated
    <2>2. CASE ~created
        BY <1>2, <1>3, <2>2, Cleared DEF Rotated
    <2> QED
        BY <2>1, <2>2
<1> HIDE DEF r
<1>5. r.file \in Streams
    BY <1>3, <1>4, RotatedTyped DEF Typed
<1>6. /\ trouble \subseteq trouble' /\ trouble' \subseteq Troubles
      /\ trouble' \cap {"clock", "disk"} = trouble \cap {"clock", "disk"}
      /\ "burst" \notin trouble' => IsNewOrWrote(r.file)
    BY <1>2, <1>5, Noted
<1>7. Logged(dir, file, buffer, logged, dropped, trouble')
    BY <1>3, <1>6, MoreTrouble
<1>8. /\ Logged(r.dir, r.file, buffer, logged, dropped, trouble')
      /\ Cardinality(DOMAIN r.dir) <= MaxFiles + 1
      /\ "burst" \notin trouble' => HasRoom(r.file)
    BY <1>3, <1>4, <1>6, <1>7, RotateKeeps
<1>9. "disk" \notin trouble' => IsOpen(r.file) /\ r.file.good
    <2> SUFFICES ASSUME "disk" \notin trouble'
                 PROVE  IsOpen(r.file) /\ r.file.good
        OBVIOUS
    <2>1. r.file.good
        BY <1>3, <1>4, <1>6
    <2>2. ~Closed.good
        BY DEF Closed
    <2>3. r.file = NewStream(Len(r.dir[clock]))
        BY <1>2, <1>4, <2>1, <2>2 DEF Rotated
    <2>4. r.file.name = clock /\ clock \in 1 .. MaxClock
        BY <1>3, <2>3 DEF NewStream, Times
    <2>5. r.file.name # 0
        BY <2>4
    <2> QED
        BY <2>1, <2>5 DEF IsOpen
<1> QED
    BY <1>2, <1>3, <1>6, <1>8, <1>9, WorksOn DEF Working

\* The flush thread has a round.
LEMMA FlushThreadInductive ==
    ASSUME IInv, FlushThreadProc
    PROVE  IInv'
<1>1. PICK kept \in Kept, created \in MayCreate :
        LET flushed == Flush(dir, file, buffer, kept)
            rotated == RotateLogFiles(flushed.dir, flushed.file, created)
        IN  /\ dir' = rotated.dir
            /\ file' = rotated.file
            /\ buffer' = flushed.buffer
            /\ NoteBurst(rotated)
    BY DEF FlushThreadProc
<1> DEFINE p == Flush(dir, file, buffer, kept)
           q == RotateLogFiles(p.dir, p.file, created)
<1>2. /\ dir' = q.dir /\ file' = q.file /\ buffer' = p.buffer /\ NoteBurst(q)
      /\ logger = "running" /\ logger' = "running" /\ UNCHANGED <<clock, logged, dropped>>
    BY <1>1 DEF FlushThreadProc
<1>3. logger \in Working /\ logged \in Lines
    BY <1>2 DEF Working, IInv, TypeOK
<1>4. /\ Logged(q.dir, q.file, p.buffer, logged, dropped, trouble')
      /\ Cardinality(DOMAIN q.dir) <= MaxFiles + 1
      /\ "burst" \notin trouble' => HasRoom(q.file)
      /\ "disk" \notin trouble' => IsOpen(q.file) /\ q.file.good /\ p.buffer = <<>>
      /\ trouble' \subseteq Troubles
    BY <1>2, <1>3, RoundKeeps
<1> HIDE DEF p, q
<1> QED
    BY <1>2, <1>3, <1>4, WorksOn

\* A line is written: into the buffer, after a round when there is no room, or not at all.
LEMMA WriteVCases ==
    ASSUME IInv, logger \in Working, NEW long \in BOOLEAN, WriteV(long)
    PROVE  /\ Logged(dir', file', buffer', logged', dropped', trouble')
           /\ logged' \in Lines /\ trouble' \subseteq Troubles
           /\ Cardinality(DOMAIN dir') <= MaxFiles + 1
           /\ "burst" \notin trouble' => HasRoom(file')
           /\ "disk" \notin trouble' => IsOpen(file') /\ file'.good
           /\ ~long /\ "disk" \notin trouble' =>
                buffer' # <<>> /\ buffer'[Len(buffer')] = logged'
           /\ clock' = clock
<1>0. /\ logged \in Lines /\ logged + 1 \in Lines /\ logged' = logged + 1
      /\ buffer \in Seq(Lines) /\ clock' = clock
    BY DOLogAssumption DEF WriteV, IInv, TypeOK, Lines
<1>1. ASSUME NEW b \in Seq(Lines)
      PROVE  Append(b, logged + 1) # <<>>
             /\ Append(b, logged + 1)[Len(Append(b, logged + 1))] = logged + 1
    BY <1>0
<1>2. CASE ~long /\ WriteToBuffer
    <2>1. /\ Fits(buffer) /\ buffer' = Append(buffer, logged + 1)
          /\ UNCHANGED <<dir, file, dropped, trouble>>
        BY <1>2 DEF WriteToBuffer
    <2>2. /\ Logged(dir, file, buffer, logged, dropped, trouble)
          /\ Cardinality(DOMAIN dir) <= MaxFiles + 1 /\ trouble \subseteq Troubles
          /\ "burst" \notin trouble => HasRoom(file)
          /\ "disk" \notin trouble => IsOpen(file) /\ file.good
        BY DEF IInv, TypeOK, FilesAreFew, StreamIsThere, Troubles
    <2>3. Logged(dir, file, Append(buffer, logged + 1), logged + 1, dropped, trouble)
        BY <1>0, <2>1, <2>2, AppendKeeps
    <2> QED
        BY <1>0, <1>1, <2>1, <2>2, <2>3
<1>3. CASE WriteAfterFlush(long)
    <2>1. PICK kept \in Kept, created \in MayCreate :
            LET flushed == Flush(dir, file, buffer, kept)
                rotated == RotateLogFiles(flushed.dir, flushed.file, created)
                lost    == long \/ ~Fits(flushed.buffer)
            IN  /\ dir' = rotated.dir
                /\ file' = rotated.file
                /\ NoteBurst(rotated)
                /\ buffer' = IF lost THEN flushed.buffer
                             ELSE Append(flushed.buffer, logged + 1)
                /\ dropped' = IF long THEN dropped \cup {logged + 1} ELSE dropped
        BY <1>3 DEF WriteAfterFlush
    <2> DEFINE p == Flush(dir, file, buffer, kept)
               q == RotateLogFiles(p.dir, p.file, created)
    <2>2. /\ dir' = q.dir /\ file' = q.file /\ NoteBurst(q)
          /\ buffer' = IF long \/ ~Fits(p.buffer) THEN p.buffer
                       ELSE Append(p.buffer, logged + 1)
          /\ dropped' = IF long THEN dropped \cup {logged + 1} ELSE dropped
        BY <2>1
    <2>3. /\ Logged(q.dir, q.file, p.buffer, logged, dropped, trouble')
          /\ Cardinality(DOMAIN q.dir) <= MaxFiles + 1
          /\ "burst" \notin trouble' => HasRoom(q.file)
          /\ "disk" \notin trouble' => IsOpen(q.file) /\ q.file.good /\ p.buffer = <<>>
          /\ trouble' \subseteq Troubles
          /\ p.buffer = buffer \/ p.buffer = <<>>
        BY <2>2, RoundKeeps
    <2> HIDE DEF p, q
    <2>4. "disk" \notin trouble' => Fits(p.buffer)
        <3>1. Fits(<<>>)
            BY DOLogAssumption DEF Fits
        <3> QED
            BY <2>3, <3>1
    <2>5. p.buffer \in Seq(Lines)
        BY <2>3 DEF Logged, Typed
    <2>6. CASE long
        <3>1. buffer' = p.buffer /\ dropped' = dropped \cup {logged + 1}
            BY <2>2, <2>6
        <3>2. Logged(q.dir, q.file, p.buffer, logged + 1, dropped \cup {logged + 1}, trouble')
            BY <1>0, <2>3, DropKeeps
        <3> QED
            BY <1>0, <2>2, <2>3, <2>6, <3>1, <3>2
    <2>7. CASE ~long /\ ~Fits(p.buffer)
        <3>1. buffer' = p.buffer /\ dropped' = dropped /\ "disk" \in trouble'
            BY <2>2, <2>4, <2>7
        <3>2. Logged(q.dir, q.file, p.buffer, logged + 1, dropped, trouble')
            BY <1>0, <2>3, <3>1, DropKeeps
        <3> QED
            BY <1>0, <2>2, <2>3, <3>1, <3>2
    <2>8. CASE ~long /\ Fits(p.buffer)
        <3>1. buffer' = Append(p.buffer, logged + 1) /\ dropped' = dropped
            BY <2>2, <2>8
        <3>2. Logged(q.dir, q.file, Append(p.buffer, logged + 1), logged + 1, dropped, trouble')
            BY <1>0, <2>3, <2>8, AppendKeeps
        <3> QED
            BY <1>0, <1>1, <2>2, <2>3, <2>5, <3>1, <3>2
    <2> QED
        BY <2>6, <2>7, <2>8
<1> QED
    BY <1>2, <1>3 DEF WriteV

LEMMA WriteInductive ==
    ASSUME IInv, Write
    PROVE  IInv'
<1>1. PICK long \in BOOLEAN : WriteV(long)
    BY DEF Write
<1>2. logger \in Working /\ logger' \in Working /\ logger' # "last"
    BY DEF Write, Working
<1> QED
    BY <1>1, <1>2, WriteVCases, WorksOn

\* The statistics are the last line, and in the buffer.
LEMMA WriteStatsInductive ==
    ASSUME IInv, WriteStats
    PROVE  IInv'
<1>1. logger \in Working /\ logger' \in Working /\ WriteV(FALSE) /\ FALSE \in BOOLEAN
    BY DEF WriteStats, Working
<1>2. /\ Logged(dir', file', buffer', logged', dropped', trouble')
      /\ logged' \in Lines /\ trouble' \subseteq Troubles
      /\ Cardinality(DOMAIN dir') <= MaxFiles + 1
      /\ "burst" \notin trouble' => HasRoom(file')
      /\ "disk" \notin trouble' => IsOpen(file') /\ file'.good
      /\ "disk" \notin trouble' => buffer' # <<>> /\ buffer'[Len(buffer')] = logged'
      /\ clock' = clock
    BY <1>1, WriteVCases
<1> QED
    BY <1>1, <1>2, WorksOn

\* The destructor flushes for the last time, and closes the stream.
LEMMA CloseEndInductive ==
    ASSUME IInv, CloseEnd
    PROVE  IInv'
<1>1. PICK kept \in Kept :
        LET flushed == Flush(dir, file, buffer, kept)
        IN  dir' = flushed.dir /\ buffer' = flushed.buffer
    BY DEF CloseEnd
<1> DEFINE p == Flush(dir, file, buffer, kept)
<1>2. /\ dir' = p.dir /\ buffer' = p.buffer /\ file' = Closed
      /\ logger = "last" /\ logger' = "closed" /\ UNCHANGED <<clock, logged, dropped, trouble>>
    BY <1>1 DEF CloseEnd
<1>3. logger \in Working
    BY <1>2 DEF Working
<1>4. /\ Logged(p.dir, p.file, p.buffer, logged, dropped, trouble)
      /\ DOMAIN p.dir = DOMAIN dir
      /\ "disk" \notin trouble => p.buffer = <<>>
    BY <1>3, FlushNow
<1>5. /\ Closed \in Streams /\ Closed.name = 0 /\ ~IsOpen(Closed)
    BY DEF Closed, Streams, IsOpen
<1>6. Logged(p.dir, Closed, p.buffer, logged, dropped, trouble)
    <2>1. Typed(p.dir, p.file, p.buffer) /\ clock \in Times
        BY <1>4 DEF Logged, IInv, TypeOK
    <2>2. Typed(p.dir, Closed, p.buffer) /\ 0 \notin DOMAIN p.dir /\ Closed.name <= clock
        BY <1>5, <2>1 DEF Typed, Times
    <2> QED
        BY <1>4, <1>5, <2>2 DEF Logged, SizeIsKnown, IsNewOrWrote, WritesNewest
<1>7. EverythingIsWritten'
    <2> SUFFICES ASSUME trouble \cap {"clock", "disk"} = {}
                 PROVE  /\ p.buffer = <<>>
                        /\ \E t \in DOMAIN p.dir :
                            /\ p.dir[t] # <<>> /\ Last(p.dir[t]) = logged
                            /\ \A later \in DOMAIN p.dir : later > t => p.dir[later] = <<>>
        BY <1>2 DEF EverythingIsWritten
    <2> DEFINE N == file.name
    <2>1. /\ buffer # <<>> /\ buffer[Len(buffer)] = logged /\ buffer \in Seq(Lines)
          /\ IsOpen(file) /\ file.good /\ kept = Len(buffer) /\ kept \in 0 .. Len(buffer)
          /\ Typed(dir, file, buffer)
        BY <1>2, <1>3 DEF IInv, LastIsBuffered, StreamIsThere, TypeOK, Typed, Kept
    <2>2. N \in DOMAIN dir /\ \A t \in DOMAIN dir : t <= N
        BY <2>1 DEF IInv, Logged, WritesNewest
    <2>3. Extended(dir, p.dir, N, buffer, Len(buffer))
        <3>1. \E k \in 0 .. Len(buffer) : Flushed(dir, file, buffer, kept, p, k)
            BY <2>1, FlushCases
        <3> HIDE DEF p
        <3> QED
            BY <2>1, <3>1 DEF Flushed
    <2> HIDE DEF p
    <2>4. /\ Len(dir[N]) \in Nat /\ Len(buffer) \in Nat /\ Len(buffer) > 0
          /\ \A t \in DOMAIN dir : t \in Nat
        BY <2>1, <2>2 DEF Typed, Times
    <2>5. /\ Len(p.dir[N]) = Len(dir[N]) + Len(buffer)
          /\ p.dir[N][Len(dir[N]) + Len(buffer)] = logged
        BY <2>1, <2>2, <2>3, <2>4 DEF Extended
    <2>6. p.dir[N] # <<>> /\ Last(p.dir[N]) = logged
        BY <2>4, <2>5 DEF Last
    <2>7. \A later \in DOMAIN p.dir : ~(later > N)
        BY <1>4, <2>2, <2>4
    <2> QED
        BY <1>4, <2>2, <2>6, <2>7
<1> HIDE DEF p
<1>8. Logged(dir, file, buffer, logged, dropped, trouble)'
    BY <1>2, <1>6, LoggedNext
<1>9. (TypeOK /\ FilesAreFew /\ StreamIsThere /\ LastIsBuffered)'
    <2>1. Typed(p.dir, Closed, p.buffer)
        BY <1>6 DEF Logged
    <2>2. TypeOK'
        BY <1>2, <2>1 DEF IInv, TypeOK, Typed
    <2>3. FilesAreFew'
        BY <1>2, <1>4 DEF IInv, FilesAreFew
    <2>4. (StreamIsThere /\ LastIsBuffered)'
        BY <1>2, <1>5 DEF StreamIsThere, LastIsBuffered, Working, HasRoom, IsOpen
    <2> QED
        BY <2>2, <2>3, <2>4
<1> QED
    BY <1>7, <1>8, <1>9 DEF IInv

\* Nothing is written: time passes, something goes wrong, or the destructor goes on.
LEMMA IdleInductive ==
    ASSUME IInv, UNCHANGED <<dir, file, buffer, logged, dropped>>, clock' \in Times,
           trouble \subseteq trouble', trouble' \subseteq Troubles,
           clock' >= clock \/ "clock" \in trouble',
           logger' = logger \/ (logger \in {"running", "stopping"}
                                /\ logger' \in {"stopping", "joined"})
    PROVE  IInv'
<1>1. Logged(dir, file, buffer, logged, dropped, trouble)'
    BY LoggedLater DEF IInv
<1>2. (TypeOK /\ FilesAreFew)'
    BY DEF IInv, TypeOK, FilesAreFew, Troubles
<1>3. (StreamIsThere /\ LastIsBuffered)'
    BY DEF IInv, StreamIsThere, LastIsBuffered, Working, HasRoom, IsOpen
<1>4. EverythingIsWritten'
    BY DEF IInv, EverythingIsWritten, Last
<1> QED
    BY <1>1, <1>2, <1>3, <1>4 DEF IInv

LEMMA EnvironmentInductive ==
    ASSUME IInv, Environment \/ CloseBegin \/ Join \/ UNCHANGED vars
    PROVE  IInv'
<1>1. clock \in 1 .. MaxClock /\ MaxClock \in Nat /\ trouble \subseteq Troubles
    BY DOLogAssumption DEF IInv, TypeOK, Times, Troubles
<1>2. CASE TimePasses
    <2>1. clock' \in 1 .. MaxClock /\ clock' >= clock
        BY <1>1, <1>2 DEF TimePasses
    <2> QED
        BY <1>1, <1>2, <2>1, IdleInductive DEF TimePasses, Times
<1>3. CASE ClockIsSetBack
    <2>1. clock' \in 1 .. MaxClock
        BY <1>1, <1>3 DEF ClockIsSetBack
    <2> QED
        BY <1>1, <1>3, <2>1, IdleInductive DEF ClockIsSetBack, Times, Troubles
<1>4. CASE DiskFails
    BY <1>1, <1>4, IdleInductive DEF DiskFails, Times, Troubles
<1>5. CASE CloseBegin \/ Join
    BY <1>1, <1>5, IdleInductive DEF CloseBegin, Join, Times
<1>6. CASE UNCHANGED vars
    BY <1>1, <1>6, IdleInductive DEF vars, Times
<1> QED
    BY <1>2, <1>3, <1>4, <1>5, <1>6 DEF Environment

\* No files, or those of earlier processes, with a line of theirs each
LEMMA InitInductive ==
    ASSUME Init
    PROVE  IInv
<1>1. PICK old \in {0, MaxFiles + 1} :
        /\ dir = [t \in 1 .. old |-> <<0>>]
        /\ clock \in {old, old + 1} \cap Times
    BY DEF Init
<1>2. /\ old \in Nat /\ MaxFiles \in Nat /\ MaxLines \in Nat /\ BufferSize \in Nat
      /\ BufferSize > 1 /\ MaxFileSize \in Nat /\ MaxFileSize > 0 /\ MaxClock \in Nat
      /\ clock \in 1 .. MaxClock /\ old <= clock /\ old <= MaxFiles + 1
    BY <1>1, DOLogAssumption DEF Times
<1>3. /\ DOMAIN dir = 1 .. old /\ 0 \in Lines
      /\ \A t \in DOMAIN dir : /\ dir[t] \in Seq(Lines) /\ Len(dir[t]) = 1 /\ dir[t][1] = 0
                               /\ t \in 1 .. MaxClock /\ t <= clock
    <2>1. 0 \in Lines
        BY <1>2 DEF Lines
    <2>2. DOMAIN dir = 1 .. old /\ \A t \in 1 .. old : dir[t] = <<0>>
        BY <1>1
    <2>3. \A t \in 1 .. old : t \in 1 .. MaxClock /\ t <= clock
        BY <1>2
    <2>4. <<0>> \in Seq(Lines) /\ Len(<<0>>) = 1 /\ <<0>>[1] = 0
        BY <2>1
    <2> QED
        BY <2>1, <2>2, <2>3, <2>4
<1>4. /\ file \in Streams /\ file.name = 0 /\ ~IsOpen(file) /\ file = Closed
      /\ buffer = <<>> /\ Len(buffer) = 0 /\ buffer \in Seq(Lines)
      /\ logged = 0 /\ dropped = {} /\ trouble = {} /\ logger = "none"
    BY DEF Init, Closed, Streams, IsOpen
<1>5. Cardinality(DOMAIN dir) <= MaxFiles + 1
    <2>1. 1 \in Int /\ old \in Int
        BY <1>2
    <2>2. Cardinality(1 .. old) = IF 1 > old THEN 0 ELSE old - 1 + 1
        BY <2>1, FS_Interval
    <2>3. Cardinality(1 .. old) <= MaxFiles + 1
        BY <1>2, <2>2
    <2> QED
        BY <1>3, <2>3
<1>6. Typed(dir, file, buffer)
    BY <1>3, <1>4 DEF Typed, Times
<1>7. TypeOK
    BY <1>2, <1>3, <1>4, <1>6 DEF TypeOK, Typed, Times
<1>8. \A t \in DOMAIN dir : \A i \in 1 .. Len(dir[t]) : i = 1 /\ dir[t][i] = 0
    <2> SUFFICES ASSUME NEW t \in DOMAIN dir, NEW i \in 1 .. Len(dir[t])
                 PROVE  i = 1 /\ dir[t][i] = 0
        OBVIOUS
    <2>1. Len(dir[t]) = 1 /\ dir[t][1] = 0
        BY <1>3
    <2>2. i = 1
        BY <2>1
    <2> QED
        BY <2>1, <2>2
<1>9. SizeIsKnown(dir, file) /\ FilesAreSmall(dir) /\ IsNewOrWrote(file)
    <2>1. 0 \notin DOMAIN dir /\ 1 < MaxFileSize + BufferSize - 1
        BY <1>2, <1>3
    <2> QED
        BY <1>3, <1>4, <2>1 DEF SizeIsKnown, FilesAreSmall, IsNewOrWrote
<1>10. WritesNewest(dir, file) /\ file.name <= clock
    BY <1>2, <1>3, <1>4 DEF WritesNewest
<1>11. /\ FilesInOrder(dir) /\ BufferInOrder(dir, buffer)
       /\ NumbersUpTo(dir, buffer, logged) /\ dropped \subseteq 1 .. logged
    BY <1>4, <1>8 DEF FilesInOrder, BufferInOrder, NumbersUpTo
<1>12. KeptFrom(dir, buffer, logged, dropped)
    <2>1. AllFrom(dir, buffer, logged, dropped, 1)
        BY <1>4, <1>8 DEF AllFrom, IsIn, IsBuffered
    <2> QED
        BY <1>4, <2>1 DEF KeptFrom
<1>13. Logged(dir, file, buffer, logged, dropped, trouble)
    BY <1>2, <1>4, <1>6, <1>9, <1>10, <1>11, <1>12 DEF Logged
<1>14. FilesAreFew /\ StreamIsThere /\ LastIsBuffered /\ EverythingIsWritten
    BY <1>4, <1>5 DEF FilesAreFew, StreamIsThere, LastIsBuffered, EverythingIsWritten,
        Working, HasRoom
<1> QED
    BY <1>7, <1>13, <1>14 DEF IInv

LEMMA Invariant == Spec => []IInv
<1>1. Init => IInv
    BY InitInductive
<1>2. IInv /\ [Next]_vars => IInv'
    BY StartInductive, WriteInductive, FlushThreadInductive, WriteStatsInductive,
        CloseEndInductive, EnvironmentInductive DEF Next, Close
<1> QED
    BY <1>1, <1>2, PTL DEF Spec

-----------------------------------------------------------------------------
(***************************************************************************)
(* Theorems.                                                               *)
(***************************************************************************)

\* Files, buffer and stream hold what they are declared for.
THEOREM TypeCorrect == Spec => []TypeOK
<1>1. IInv => TypeOK
    BY DEF IInv
<1> QED
    BY <1>1, Invariant, PTL

\* All lines of the files and of the buffer, in terms of both
LEMMA AllLinesAre ==
    ASSUME IInv
    PROVE  /\ DOMAIN AllLines = DOMAIN dir \cup {MaxClock + 1}
           /\ \A t \in DOMAIN dir : AllLines[t] = dir[t] /\ DOMAIN dir[t] = 1 .. Len(dir[t])
                                    /\ t \in Nat /\ t < MaxClock + 1
           /\ AllLines[MaxClock + 1] = buffer /\ DOMAIN buffer = 1 .. Len(buffer)
           /\ MaxClock + 1 \in Nat
<1>1. MaxClock \in Nat /\ \A t \in DOMAIN dir : t \in 1 .. MaxClock /\ dir[t] \in Seq(Lines)
    BY DOLogAssumption DEF IInv, TypeOK, Times
<1>2. \A t \in DOMAIN dir : t \in Nat /\ t < MaxClock + 1 /\ t # MaxClock + 1
    BY <1>1
<1>3. buffer \in Seq(Lines)
    BY DEF IInv, TypeOK
<1> QED
    BY <1>1, <1>2, <1>3 DEF AllLines

\* Lines are in the order of the calls, in whatever files they are, while the clock that
\* names the files is not set back (WriteV, Flush, _RotateLogFilesIfNeeded).
THEOREM LinesAreInOrderHolds == Spec => []LinesAreInOrder
<1>1. ASSUME IInv PROVE LinesAreInOrder
    <2> SUFFICES ASSUME "clock" \notin trouble,
                        NEW s \in DOMAIN AllLines, NEW t \in DOMAIN AllLines,
                        NEW i \in DOMAIN AllLines[s], NEW j \in DOMAIN AllLines[t],
                        s < t \/ (s = t /\ i < j), AllLines[s][i] > 0
                 PROVE  AllLines[s][i] < AllLines[t][j]
        BY DEF LinesAreInOrder
    <2>1. FilesInOrder(dir) /\ BufferInOrder(dir, buffer)
        BY <1>1 DEF IInv, Logged
    <2>2. CASE s \in DOMAIN dir /\ t \in DOMAIN dir
        BY <1>1, <2>1, <2>2, AllLinesAre DEF FilesInOrder
    <2>3. CASE s \in DOMAIN dir /\ t = MaxClock + 1
        BY <1>1, <2>1, <2>3, AllLinesAre DEF BufferInOrder
    <2>4. CASE s = MaxClock + 1 /\ t = MaxClock + 1
        BY <1>1, <2>1, <2>4, AllLinesAre DEF BufferInOrder
    <2>5. ~(s = MaxClock + 1 /\ t \in DOMAIN dir)
        BY <1>1, AllLinesAre
    <2> QED
        BY <1>1, <2>2, <2>3, <2>4, <2>5, AllLinesAre
<1> QED
    BY <1>1, Invariant, PTL

\* Only the oldest lines are given up, for any sizes and number of files
\* (_ClearOlderLogFilesIfNeeded).
THEOREM RecentLinesAreKeptHolds == Spec => []RecentLinesAreKept
<1>1. ASSUME IInv PROVE RecentLinesAreKept
    <2> SUFFICES ASSUME trouble \cap {"clock", "disk"} = {}
                 PROVE  \E first \in 1 .. logged + 1 :
                          /\ \A l \in Lines \ {0} :
                                IsThere(l) <=> l \in (first .. logged) \ dropped
                          /\ first > 1 => Cardinality(DOMAIN dir) >= MaxFiles
        BY DEF RecentLinesAreKept
    <2>1. ASSUME NEW l PROVE IsThere(l) <=> IsIn(dir, l) \/ IsBuffered(buffer, l)
        <3>1. ASSUME IsThere(l) PROVE IsIn(dir, l) \/ IsBuffered(buffer, l)
            <4>1. PICK t \in DOMAIN AllLines : \E i \in DOMAIN AllLines[t] : AllLines[t][i] = l
                BY <3>1 DEF IsThere
            <4> QED
                BY <1>1, <4>1, AllLinesAre DEF IsIn, IsBuffered
        <3>2. ASSUME IsIn(dir, l) PROVE IsThere(l)
            BY <1>1, <3>2, AllLinesAre DEF IsThere, IsIn
        <3>3. ASSUME IsBuffered(buffer, l) PROVE IsThere(l)
            BY <1>1, <3>3, AllLinesAre DEF IsThere, IsBuffered
        <3> QED
            BY <3>1, <3>2, <3>3
    <2>2. PICK first \in 1 .. logged + 1 :
            /\ AllFrom(dir, buffer, logged, dropped, first)
            /\ first > 1 => Cardinality(DOMAIN dir) >= MaxFiles
        BY <1>1 DEF IInv, Logged, KeptFrom
    <2> QED
        BY <2>1, <2>2 DEF AllFrom
<1> QED
    BY <1>1, Invariant, PTL

\* The log takes g_maxLogFiles + 1 files of less than a buffer above g_maxLogFileSizeBytes
\* at most, also when the disk was full (_RotateLogFilesIfNeeded after each Flush).
THEOREM SpaceIsBoundedHolds == Spec => []SpaceIsBounded
<1>1. IInv => SpaceIsBounded
    BY DEF IInv, SpaceIsBounded, FilesAreFew, Logged, FilesAreSmall
<1> QED
    BY <1>1, Invariant, PTL

\* What the destructor has logged last is the last line of the newest file that has any.
THEOREM EverythingIsWrittenHolds == Spec => []EverythingIsWritten
<1>1. IInv => EverythingIsWritten
    BY DEF IInv
<1> QED
    BY <1>1, Invariant, PTL
=============================================================================
