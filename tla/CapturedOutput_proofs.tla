------------------------ MODULE CapturedOutput_proofs ------------------------
(***************************************************************************)
(* For every number of tests, lines and detached threads, and whether or   *)
(* not the worker dies: what is on its way from the worker stays in the    *)
(* order printed, across pipe, reader and queue; nothing a captured test   *)
(* printed is shown; and when bodies end the lines they print, the result  *)
(* of a captured test has all of its lines and no other test's but those   *)
(* OwnOutputOnly allows.                                                   *)
(*                                                                         *)
(* The last of these needs EndsLines: after an unfinished line the marker  *)
(* is no line of its own, and the parent does not find it.                 *)
(***************************************************************************)
EXTENDS CapturedOutput, SequenceTheorems, WellFoundedInduction, TLAPS

AllPieces == [kind : {"own", "marker", "late"}, test : Nat, n : Nat, end : BOOLEAN]

TypeInv ==
    /\ pc \in {"enable", "send", "await", "out", "err"}
    /\ cur \in Nat
    /\ captured \in [Tests -> [Streams -> Seq(Seq(AllPieces))]]
    /\ aborted \in BOOLEAN
    /\ enabled \in BOOLEAN
    /\ reader \in [Streams -> Seq(AllPieces)]
    /\ lines \in [Streams -> Seq(Seq(AllPieces))]
    /\ wpc \in {"loop", "body", "markErr", "finished", "gone"}
    /\ wtest \in 0..NumTests
    /\ pipe \in [Streams -> Seq(AllPieces)]
    /\ printed \in [Tests -> [Streams -> Nat]]
    /\ late \in Nat

(* Where the worker is while the parent is where it is.                    *)
ThreadsInv ==
    /\ pc \in {"enable", "send"} => wtest < cur
    /\ pc \in {"await", "out", "err"} => wtest = cur
    /\ wpc \in {"body", "markErr", "finished"} => pc = "await" /\ wtest \in Tests
    /\ pc \in Streams => cur \in Captured
    /\ pc # "enable" => cur \in Tests /\ (enabled <=> cur \in Captured)

(* What was printed on a stream and is neither on the terminal nor given   *)
(* to a result.                                                            *)
InLines(s)  == UNION {ToSet(lines[s][i]) : i \in DOMAIN lines[s]}
InFlight(s) == InLines(s) \cup ToSet(reader[s]) \cup ToSet(pipe[s])

(* The marker of the test is printed, or will never be.                    *)
BodyIsOver(s) == wpc \in {"loop", "finished", "gone"} \/ (s = "out" /\ wpc = "markErr")

(* A piece in flight is one of those printed so far.                       *)
WasPrinted(p, s) ==
    /\ p.test <= wtest
    /\ \/ p = Marker(p.test) /\ (p.test = wtest => BodyIsOver(s))
       \/ p.kind = "own" /\ (p.test \in Tests => p.n \in 1..printed[p.test][s])

(* The parent has found the marker of this test.                           *)
IsDrained(t, s) == t < cur \/ (t = cur /\ pc = "err" /\ s = "out")

(* p was printed before q, or one of them by a detached thread.            *)
Precedes(p, q) ==
    \/ p.kind = "late" \/ q.kind = "late"
    \/ p.test < q.test
    \/ p.test = q.test /\ p.kind = "own" /\ (q.kind = "marker" \/ p.n < q.n)

(* Behind the marker of a captured test there is nothing of that test or    *)
(* of one before it: this is why the parent may stop at the marker.        *)
FlightInv(s) ==
    \A p \in InFlight(s) :
        p.kind # "late" =>
            /\ WasPrinted(p, s)
            /\ \A t \in Captured : IsDrained(t, s) => t < p.test

(* Pipe, reader and queue keep the order of printing.                      *)
OrderInv(s) ==
    /\ \A i, j \in DOMAIN pipe[s] : i < j => Precedes(pipe[s][i], pipe[s][j])
    /\ \A p \in ToSet(reader[s]), q \in ToSet(pipe[s]) : Precedes(p, q)
    /\ \A p \in InLines(s), q \in ToSet(reader[s]) \cup ToSet(pipe[s]) : Precedes(p, q)
    /\ \A i, j \in DOMAIN lines[s] :
          i < j => \A p \in ToSet(lines[s][i]), q \in ToSet(lines[s][j]) : Precedes(p, q)

StreamsInv == TypeInv /\ ThreadsInv /\ \A s \in Streams : FlightInv(s) /\ OrderInv(s)

(* When bodies end their lines, a piece is a line.                         *)
LinesInv(s) ==
    /\ \A p \in InFlight(s) : p.end
    /\ Len(reader[s]) <= 1
    /\ \A i \in DOMAIN lines[s] : Len(lines[s][i]) = 1

OwnPiece(t, n) == Piece("own", t, n, TRUE)

(* Every line the body printed is in the result or on its way there.       *)
AllThere(t, s) ==
    \A n \in 1..printed[t][s] :
       \/ \E i \in DOMAIN captured[t][s] : captured[t][s][i] = OwnLine(t, n)
       \/ OwnPiece(t, n) \in InFlight(s)
       \/ aborted /\ t >= cur

(* Each once, in the order printed.                                        *)
OncesInOrder(t, s) ==
    \A i, j \in DOMAIN captured[t][s], m, n \in 1..printed[t][s] :
       captured[t][s][i] = OwnLine(t, m) /\ captured[t][s][j] = OwnLine(t, n) /\ i < j => m < n

(* Tests that run without capture between the last captured test and t.     *)
Unclaimed(t) == {u \in 0..(t - 1) : \A v \in Captured : v < t => v < u}

(* What the result may hold beside them.                                   *)
NothingElse(t, s) ==
    \A i \in DOMAIN captured[t][s] :
       \/ \E n \in 1..printed[t][s] : captured[t][s][i] = OwnLine(t, n)
       \/ \A p \in ToSet(captured[t][s][i]) : p.kind = "late" \/ p.test \in Unclaimed(t)

(* A line that is still on its way was printed later.                      *)
AheadOfFlight(t, s) ==
    \A i \in DOMAIN captured[t][s], n \in 1..printed[t][s], p \in InFlight(s) :
       captured[t][s][i] = OwnLine(t, n) /\ p.kind = "own" /\ p.test = t => n < p.n

ResultInv(t, s) ==
    AllThere(t, s) /\ OncesInOrder(t, s) /\ NothingElse(t, s) /\ AheadOfFlight(t, s)

CaptureInv ==
    EndsLines => \A s \in Streams : LinesInv(s) /\ \A t \in Captured : ResultInv(t, s)
-----------------------------------------------------------------------------
(* Sequences and the sets of what is in them.                              *)

LEMMA SetOfAppend ==
    ASSUME NEW S, NEW q \in Seq(S), NEW e \in S
    PROVE  /\ ToSet(Append(q, e)) = ToSet(q) \cup {e}
           /\ Append(q, e) \in Seq(S)
           /\ DOMAIN Append(q, e) = DOMAIN q \cup {Len(q) + 1}
           /\ \A i \in DOMAIN q : Append(q, e)[i] = q[i] /\ i < Len(q) + 1
           /\ Append(q, e)[Len(q) + 1] = e
<1>1. /\ Append(q, e) \in Seq(S) /\ Len(q) \in Nat /\ Len(Append(q, e)) = Len(q) + 1
      /\ \A i \in 1..Len(q) : Append(q, e)[i] = q[i]
      /\ Append(q, e)[Len(q) + 1] = e
  OBVIOUS
<1>2. DOMAIN q = 1..Len(q) /\ DOMAIN Append(q, e) = 1..(Len(q) + 1)
  BY <1>1
<1>3. DOMAIN Append(q, e) = DOMAIN q \cup {Len(q) + 1} /\ \A i \in DOMAIN q : i < Len(q) + 1
  BY <1>1, <1>2
<1>4. \A i \in DOMAIN q : Append(q, e)[i] = q[i]
  BY <1>1, <1>2
<1>5. ToSet(Append(q, e)) = ToSet(q) \cup {e}
  BY <1>1, <1>3, <1>4 DEF ToSet
<1> QED
  BY <1>1, <1>3, <1>4, <1>5

LEMMA HeadAndTail ==
    ASSUME NEW S, NEW q \in Seq(S), q # <<>>
    PROVE  /\ Tail(q) \in Seq(S) /\ Head(q) \in S
           /\ 1 \in DOMAIN q /\ Head(q) = q[1]
           /\ \A i \in DOMAIN Tail(q) : i + 1 \in DOMAIN q /\ 1 < i + 1 /\ Tail(q)[i] = q[i + 1]
           /\ \A i \in DOMAIN q : i = 1 \/ (i - 1 \in DOMAIN Tail(q) /\ q[i] = Tail(q)[i - 1])
<1>1. /\ Len(q) \in Nat /\ Len(q) > 0 /\ Tail(q) \in Seq(S) /\ Head(q) \in S
      /\ Len(Tail(q)) = Len(q) - 1 /\ Head(q) = q[1]
      /\ \A i \in 1..Len(Tail(q)) : Tail(q)[i] = q[i + 1]
  BY HeadTailProperties
<1>2. DOMAIN q = 1..Len(q) /\ DOMAIN Tail(q) = 1..(Len(q) - 1)
  BY <1>1
<1>3. \A i \in DOMAIN Tail(q) : i + 1 \in DOMAIN q /\ 1 < i + 1 /\ Tail(q)[i] = q[i + 1]
  BY <1>1, <1>2
<1>4. ASSUME NEW i \in DOMAIN q, i # 1
      PROVE  i - 1 \in DOMAIN Tail(q) /\ q[i] = Tail(q)[i - 1]
  <2>1. i - 1 \in 1..(Len(q) - 1)
    BY <1>1, <1>2, <1>4
  <2>2. Tail(q)[i - 1] = q[(i - 1) + 1] /\ (i - 1) + 1 = i
    BY <1>1, <1>2, <2>1
  <2> QED
    BY <1>2, <2>1, <2>2
<1> QED
  BY <1>1, <1>2, <1>3, <1>4

LEMMA CutInTwo ==
    ASSUME NEW S, NEW q \in Seq(S), NEW n \in 1..Len(q)
    PROVE  LET front == SubSeq(q, 1, n)
               back  == SubSeq(q, n + 1, Len(q))
           IN  /\ front \in Seq(S) /\ back \in Seq(S) /\ Len(front) = n
               /\ \A i \in DOMAIN front : i \in DOMAIN q /\ i <= n /\ front[i] = q[i]
               /\ \A i \in DOMAIN back : i + n \in DOMAIN q /\ n < i + n /\ back[i] = q[i + n]
               /\ ToSet(q) = ToSet(front) \cup ToSet(back)
<1> DEFINE front == SubSeq(q, 1, n)
           back  == SubSeq(q, n + 1, Len(q))
<1>1. Len(q) \in Nat /\ DOMAIN q = 1..Len(q) /\ \A i \in 1..Len(q) : q[i] \in S
  OBVIOUS
<1>2. front \in Seq(S) /\ Len(front) = n /\ \A i \in 1..n : front[i] = q[i]
  BY <1>1
<1>3. DOMAIN front = 1..n
  BY <1>2
<1>4. /\ back \in Seq(S) /\ Len(back) = Len(q) - n
      /\ \A i \in 1..(Len(q) - n) : back[i] = q[n + i]
  <2>1. n + 1 \in Int /\ Len(q) \in Int /\ \A i \in (n + 1)..Len(q) : q[i] \in S
    BY <1>1
  <2>2. /\ back \in Seq(S) /\ Len(back) = IF n + 1 <= Len(q) THEN Len(q) - (n + 1) + 1 ELSE 0
        /\ \A i \in 1..(Len(q) - (n + 1) + 1) : back[i] = q[(n + 1) + i - 1]
    BY <1>1, <2>1, SubSeqProperties
  <2>3. \A i \in 1..(Len(q) - n) : (n + 1) + i - 1 = n + i /\ i \in 1..(Len(q) - (n + 1) + 1)
    BY <1>1
  <2> QED
    BY <1>1, <2>2, <2>3
<1>5. DOMAIN back = 1..(Len(q) - n)
  BY <1>4
<1> HIDE DEF front, back
<1>6. \A i \in DOMAIN front : i \in DOMAIN q /\ i <= n /\ front[i] = q[i]
  BY <1>1, <1>2, <1>3
<1>7. \A i \in DOMAIN back : i + n \in DOMAIN q /\ n < i + n /\ back[i] = q[i + n]
  BY <1>1, <1>4, <1>5
<1>8. \A i \in DOMAIN q : i \in DOMAIN front \/ (i - n \in DOMAIN back /\ q[i] = back[i - n])
  BY <1>1, <1>3, <1>4, <1>5
<1>9. ToSet(q) = ToSet(front) \cup ToSet(back)
  BY <1>6, <1>7, <1>8 DEF ToSet
<1> QED
  BY <1>2, <1>4, <1>6, <1>7, <1>9 DEF front, back

LEMMA PieceParts ==
    ASSUME NEW k, NEW t, NEW n, NEW e
    PROVE  /\ Piece(k, t, n, e).kind = k /\ Piece(k, t, n, e).test = t
           /\ Piece(k, t, n, e).n = n /\ Piece(k, t, n, e).end = e
           /\ Marker(t).kind = "marker" /\ Marker(t).test = t /\ Marker(t).end = TRUE
  BY DEF Piece, Marker

LEMMA PieceTypes ==
    /\ \A k \in {"own", "marker", "late"}, t, n \in Nat, e \in BOOLEAN : Piece(k, t, n, e) \in AllPieces
    /\ \A t \in Nat : Marker(t) \in AllPieces
  BY DEF Piece, Marker, AllPieces

(* A line ends at the first piece that ends one.                           *)
LEMMA FirstEnd ==
    ASSUME NEW s \in Streams, pipe[s] \in Seq(AllPieces), LineEnds(s) # {}
    PROVE  EndOfLine(s) \in LineEnds(s) /\ \A i \in LineEnds(s) : EndOfLine(s) <= i
<1>1. LineEnds(s) \subseteq Nat
  BY DEF LineEnds
<1>2. PICK i \in LineEnds(s) : \A j \in LineEnds(s) : ~ (<<j, i>> \in OpToRel(<, Nat))
  BY <1>1, NatLessThanWellFounded, WFMin
<1>3. \A j \in LineEnds(s) : i <= j
  <2> SUFFICES ASSUME NEW j \in LineEnds(s), ~(i <= j) PROVE FALSE
    OBVIOUS
  <2>1. j < i /\ j \in Nat /\ i \in Nat
    BY <1>1
  <2> QED
    BY <1>2, <2>1 DEF OpToRel
<1> QED
  BY <1>3 DEF EndOfLine

-----------------------------------------------------------------------------
(* What a step does to one stream.                                         *)

LEMMA InLinesIs ==
    ASSUME NEW s \in Streams
    PROVE  \A p : p \in InLines(s) <=> \E i \in DOMAIN lines[s] : p \in ToSet(lines[s][i])
  BY DEF InLines

StreamIs(s) == pipe'[s] = pipe[s] /\ reader'[s] = reader[s] /\ lines'[s] = lines[s]

LEMMA StreamUntouched ==
    ASSUME NEW s \in Streams, StreamIs(s)
    PROVE  /\ InFlight(s)' = InFlight(s)
           /\ OrderInv(s) => OrderInv(s)'
           /\ LinesInv(s) => LinesInv(s)'
<1>1. InLines(s)' = InLines(s)
  BY DEF StreamIs, InLines
<1>2. InFlight(s)' = InFlight(s)
  BY <1>1 DEF StreamIs, InFlight
<1>3. OrderInv(s) => OrderInv(s)'
  BY <1>1 DEF StreamIs, OrderInv, Precedes
<1>4. LinesInv(s) => LinesInv(s)'
  BY <1>2 DEF StreamIs, LinesInv
<1> QED
  BY <1>2, <1>3, <1>4

(* A piece is printed: it comes after all that is there.                   *)
LEMMA StreamWritten ==
    ASSUME TypeInv, NEW s \in Streams, NEW piece \in AllPieces, Write(s, piece),
           UNCHANGED <<reader, lines>>
    PROVE  /\ pipe' \in [Streams -> Seq(AllPieces)]
           /\ InFlight(s)' = InFlight(s) \cup {piece}
           /\ \A u \in Streams \ {s} : StreamIs(u)
           /\ OrderInv(s) /\ (\A p \in InFlight(s) : Precedes(p, piece)) => OrderInv(s)'
           /\ LinesInv(s) /\ piece.end => LinesInv(s)'
<1> DEFINE q == pipe[s]
<1>1. /\ q \in Seq(AllPieces) /\ pipe'[s] = Append(q, piece)
      /\ \A u \in Streams \ {s} : pipe'[u] = pipe[u]
      /\ DOMAIN pipe' = Streams
  BY DEF TypeInv, Write
<1>2. /\ ToSet(pipe'[s]) = ToSet(q) \cup {piece}
      /\ pipe'[s] \in Seq(AllPieces)
      /\ DOMAIN pipe'[s] = DOMAIN q \cup {Len(q) + 1}
      /\ \A i \in DOMAIN q : pipe'[s][i] = q[i] /\ i < Len(q) + 1
      /\ pipe'[s][Len(q) + 1] = piece
  BY <1>1, SetOfAppend
<1>3. pipe' \in [Streams -> Seq(AllPieces)]
  BY <1>1, <1>2 DEF TypeInv, Write
<1>4. InLines(s)' = InLines(s)
  BY DEF InLines
<1>5. InFlight(s)' = InFlight(s) \cup {piece}
  BY <1>2, <1>4 DEF InFlight
<1>6. \A u \in Streams \ {s} : StreamIs(u)
  BY <1>1 DEF StreamIs
<1>7. ASSUME OrderInv(s), \A p \in InFlight(s) : Precedes(p, piece) PROVE OrderInv(s)'
  <2>1. ASSUME NEW i \in DOMAIN pipe'[s], NEW j \in DOMAIN pipe'[s], i < j
        PROVE  Precedes(pipe'[s][i], pipe'[s][j])
    <3>1. Len(q) \in Nat /\ DOMAIN q \subseteq Nat
      BY <1>1
    <3>2. i \in DOMAIN q
      BY <1>2, <2>1, <3>1
    <3>3. pipe'[s][i] = q[i] /\ q[i] \in InFlight(s)
      BY <1>2, <3>2 DEF InFlight, ToSet
    <3>4. CASE j \in DOMAIN q
      BY <1>2, <1>7, <2>1, <3>2, <3>3, <3>4 DEF OrderInv
    <3>5. CASE j = Len(q) + 1
      BY <1>2, <1>7, <3>3, <3>5
    <3> QED
      BY <1>2, <3>4, <3>5
  <2>2. \A p \in ToSet(reader[s]), r \in ToSet(pipe'[s]) : Precedes(p, r)
    BY <1>2, <1>7 DEF OrderInv, InFlight
  <2>3. \A p \in InLines(s), r \in ToSet(reader[s]) \cup ToSet(pipe'[s]) : Precedes(p, r)
    BY <1>2, <1>7 DEF OrderInv, InFlight
  <2>4. \A p, r : Precedes(p, r)' <=> Precedes(p, r)
    BY DEF Precedes
  <2> QED
    BY <1>4, <1>7, <2>1, <2>2, <2>3, <2>4 DEF OrderInv
<1>8. LinesInv(s) /\ piece.end => LinesInv(s)'
  BY <1>5 DEF LinesInv
<1> QED
  BY <1>3, <1>5, <1>6, <1>7, <1>8

(* The reader takes a line: the first pieces of the pipe.                  *)
LEMMA StreamRead ==
    ASSUME TypeInv, NEW s \in Streams, ReadLine(s)
    PROVE  /\ pipe' \in [Streams -> Seq(AllPieces)]
           /\ reader' \in [Streams -> Seq(AllPieces)]
           /\ InFlight(s)' = InFlight(s)
           /\ \A u \in Streams \ {s} : StreamIs(u)
           /\ OrderInv(s) => OrderInv(s)'
           /\ LinesInv(s) => LinesInv(s)'
<1> DEFINE q == pipe[s]
           n == IF LineEnds(s) # {} THEN EndOfLine(s) ELSE Len(q)
           front == SubSeq(q, 1, n)
           back  == SubSeq(q, n + 1, Len(q))
<1>1. /\ q \in Seq(AllPieces) /\ q # <<>> /\ reader[s] = <<>> /\ UNCHANGED lines
      /\ pipe' = [pipe EXCEPT ![s] = SubSeq(@, n + 1, Len(@))]
      /\ reader' = [reader EXCEPT ![s] = front]
  BY DEF TypeInv, ReadLine
<1>2. n \in 1..Len(q)
  <2>1. Len(q) \in Nat /\ Len(q) >= 1 /\ DOMAIN q = 1..Len(q)
    BY <1>1
  <2>2. LineEnds(s) # {} => EndOfLine(s) \in DOMAIN q
    BY <1>1, FirstEnd DEF LineEnds
  <2> QED
    BY <2>1, <2>2
<1>3. LinesInv(s) => n = 1
  <2> SUFFICES ASSUME LinesInv(s) PROVE n = 1
    OBVIOUS
  <2>1. 1 \in DOMAIN q
    BY <1>1, <1>2
  <2>2. 1 \in LineEnds(s)
    <3>1. q[1] \in InFlight(s)
      BY <2>1 DEF InFlight, ToSet
    <3> QED
      BY <2>1, <3>1 DEF LineEnds, LinesInv
  <2>3. n <= 1
    BY <1>1, <2>2, FirstEnd
  <2>4. Len(q) \in Nat
    BY <1>1
  <2> HIDE DEF n
  <2> QED
    BY <1>2, <2>3, <2>4
<1>4. pipe'[s] = back /\ reader'[s] = front
  BY <1>1 DEF TypeInv
<1> HIDE DEF n
<1>5. /\ front \in Seq(AllPieces) /\ back \in Seq(AllPieces) /\ Len(front) = n
      /\ \A i \in DOMAIN front : i \in DOMAIN q /\ i <= n /\ front[i] = q[i]
      /\ \A i \in DOMAIN back : i + n \in DOMAIN q /\ n < i + n /\ back[i] = q[i + n]
      /\ ToSet(q) = ToSet(front) \cup ToSet(back)
  BY <1>1, <1>2, CutInTwo
<1>6. pipe' \in [Streams -> Seq(AllPieces)] /\ reader' \in [Streams -> Seq(AllPieces)]
  BY <1>1, <1>5 DEF TypeInv
<1> HIDE DEF front, back
<1>7. InLines(s)' = InLines(s)
  BY <1>1 DEF InLines
<1>8. InFlight(s)' = InFlight(s)
  <2>1. ToSet(reader[s]) = {}
    BY <1>1 DEF ToSet
  <2> QED
    BY <1>4, <1>5, <1>7, <2>1 DEF InFlight
<1>9. \A u \in Streams \ {s} : StreamIs(u)
  BY <1>1 DEF StreamIs, TypeInv
<1>10. ASSUME OrderInv(s) PROVE OrderInv(s)'
  <2>1. \A i, j \in DOMAIN q : i < j => Precedes(q[i], q[j])
    BY <1>10 DEF OrderInv
  <2>2. DOMAIN q \subseteq Nat /\ DOMAIN back \subseteq Nat /\ n \in Nat
    BY <1>1, <1>2, <1>5
  <2>3. ASSUME NEW i \in DOMAIN back, NEW j \in DOMAIN back, i < j PROVE Precedes(back[i], back[j])
    <3>1. i + n < j + n
      BY <2>2, <2>3
    <3> QED
      BY <1>5, <2>1, <3>1
  <2>4. ASSUME NEW p \in ToSet(front), NEW r \in ToSet(back) PROVE Precedes(p, r)
    <3>1. PICK i \in DOMAIN front : p = front[i]
      BY DEF ToSet
    <3>2. PICK j \in DOMAIN back : r = back[j]
      BY DEF ToSet
    <3>3. i \in DOMAIN q /\ j + n \in DOMAIN q /\ i <= n /\ n < j + n /\ p = q[i] /\ r = q[j + n]
      BY <1>5, <3>1, <3>2
    <3>4. i < j + n
      BY <2>2, <3>3
    <3> QED
      BY <2>1, <3>3, <3>4
  <2>5. \A p \in InLines(s), r \in ToSet(front) \cup ToSet(back) : Precedes(p, r)
    BY <1>5, <1>10 DEF OrderInv
  <2>6. \A p, r : Precedes(p, r)' <=> Precedes(p, r)
    BY DEF Precedes
  <2> QED
    BY <1>1, <1>4, <1>7, <1>10, <2>3, <2>4, <2>5, <2>6 DEF OrderInv
<1>11. ASSUME LinesInv(s) PROVE LinesInv(s)'
  <2>1. \A p \in InFlight(s)' : p.end
    BY <1>8, <1>11 DEF LinesInv
  <2>2. Len(front) <= 1
    BY <1>3, <1>5, <1>11
  <2> QED
    BY <1>1, <1>4, <1>11, <2>1, <2>2 DEF LinesInv
<1> QED
  BY <1>6, <1>8, <1>9, <1>10, <1>11

(* A line goes into the queue while capture is on, else on the terminal.   *)
LEMMA StreamDelivered ==
    ASSUME TypeInv, NEW s \in Streams, Deliver(s)
    PROVE  /\ reader' \in [Streams -> Seq(AllPieces)]
           /\ lines' \in [Streams -> Seq(Seq(AllPieces))]
           /\ enabled => InFlight(s)' = InFlight(s)
           /\ InFlight(s)' \subseteq InFlight(s)
           /\ InFlight(s) \subseteq InFlight(s)' \cup ToSet(reader[s])
           /\ \A u \in Streams \ {s} : StreamIs(u)
           /\ OrderInv(s) => OrderInv(s)'
           /\ LinesInv(s) => LinesInv(s)'
<1> DEFINE l == reader[s]
           q == lines[s]
<1>1. /\ l \in Seq(AllPieces) /\ l # <<>> /\ q \in Seq(Seq(AllPieces)) /\ UNCHANGED <<pipe, enabled>>
      /\ reader' = [reader EXCEPT ![s] = <<>>]
      /\ lines' = IF enabled THEN [lines EXCEPT ![s] = Append(@, l)] ELSE lines
  BY DEF TypeInv, Deliver
<1>2. reader'[s] = <<>> /\ reader' \in [Streams -> Seq(AllPieces)] /\ ToSet(<<>>) = {}
  BY <1>1 DEF TypeInv, ToSet
<1>3. \A u \in Streams \ {s} : StreamIs(u)
  BY <1>1 DEF StreamIs, TypeInv
<1>4. \A p, r : Precedes(p, r)' <=> Precedes(p, r)
  BY DEF Precedes
<1>5. CASE ~enabled
  <2>1. lines' = lines /\ pipe' = pipe
    BY <1>1, <1>5
  <2>2. InLines(s)' = InLines(s)
    BY <2>1 DEF InLines
  <2>3. /\ InFlight(s)' \subseteq InFlight(s)
        /\ InFlight(s) \subseteq InFlight(s)' \cup ToSet(l)
    BY <1>2, <2>1, <2>2 DEF InFlight
  <2>4. OrderInv(s) => OrderInv(s)'
    BY <1>2, <1>4, <2>1, <2>2 DEF OrderInv
  <2>5. LinesInv(s) => LinesInv(s)'
    BY <1>2, <2>1, <2>3 DEF LinesInv
  <2>6. lines' \in [Streams -> Seq(Seq(AllPieces))]
    BY <2>1 DEF TypeInv
  <2> QED
    BY <1>2, <1>3, <1>5, <2>3, <2>4, <2>5, <2>6
<1>6. CASE enabled
  <2>1. lines'[s] = Append(q, l) /\ pipe' = pipe
    BY <1>1, <1>6 DEF TypeInv
  <2>2. /\ lines'[s] \in Seq(Seq(AllPieces))
        /\ DOMAIN lines'[s] = DOMAIN q \cup {Len(q) + 1}
        /\ \A i \in DOMAIN q : lines'[s][i] = q[i] /\ i < Len(q) + 1
        /\ lines'[s][Len(q) + 1] = l
    BY <1>1, <2>1, SetOfAppend
  <2>3. lines' \in [Streams -> Seq(Seq(AllPieces))]
    BY <1>1, <1>6, <2>1, <2>2 DEF TypeInv
  <2>4. InLines(s)' = InLines(s) \cup ToSet(l)
    BY <2>2 DEF InLines
  <2>5. InFlight(s)' = InFlight(s)
    BY <1>2, <2>1, <2>4 DEF InFlight
  <2>6. ASSUME OrderInv(s) PROVE OrderInv(s)'
    <3>1. ASSUME NEW i \in DOMAIN lines'[s], NEW j \in DOMAIN lines'[s], i < j,
                 NEW p \in ToSet(lines'[s][i]), NEW r \in ToSet(lines'[s][j])
          PROVE  Precedes(p, r)
      <4>1. Len(q) \in Nat /\ DOMAIN q \subseteq Nat
        BY <1>1
      <4>2. i \in DOMAIN q
        BY <2>2, <3>1, <4>1
      <4>3. p \in ToSet(q[i]) /\ p \in InLines(s)
        BY <2>2, <3>1, <4>2 DEF InLines
      <4>4. CASE j \in DOMAIN q
        <5>1. r \in ToSet(q[j])
          BY <2>2, <3>1, <4>4
        <5> QED
          BY <2>6, <3>1, <4>2, <4>3, <4>4, <5>1 DEF OrderInv
      <4>5. CASE j = Len(q) + 1
        BY <2>2, <2>6, <3>1, <4>3, <4>5 DEF OrderInv
      <4> QED
        BY <2>2, <4>4, <4>5
    <3>2. \A p \in InLines(s)', r \in ToSet(pipe[s]) : Precedes(p, r)
      BY <2>4, <2>6 DEF OrderInv
    <3> QED
      BY <1>2, <1>4, <2>1, <2>6, <3>1, <3>2 DEF OrderInv
  <2>7. ASSUME LinesInv(s) PROVE LinesInv(s)'
    <3>1. Len(l) = 1
      <4>1. Len(l) \in Nat /\ Len(l) # 0
        BY <1>1
      <4>2. Len(l) <= 1
        BY <2>7 DEF LinesInv
      <4>3. \A k \in Nat : k # 0 /\ k <= 1 => k = 1
        OBVIOUS
      <4> HIDE DEF l
      <4> QED
        BY <4>1, <4>2, <4>3, Zenon
    <3>2. \A i \in DOMAIN lines'[s] : Len(lines'[s][i]) = 1
      BY <2>2, <2>7, <3>1 DEF LinesInv
    <3> QED
      BY <1>2, <2>1, <2>5, <2>7, <3>2 DEF LinesInv
  <2> QED
    BY <1>2, <1>3, <2>3, <2>5, <2>6, <2>7
<1> QED
  BY <1>5, <1>6

(* The parent takes the first line of the queue.                           *)
LEMMA StreamTaken ==
    ASSUME TypeInv, NEW s \in Streams, lines[s] # <<>>,
           lines' = [lines EXCEPT ![s] = Tail(@)], UNCHANGED <<pipe, reader>>
    PROVE  /\ lines' \in [Streams -> Seq(Seq(AllPieces))]
           /\ Head(lines[s]) \in Seq(AllPieces)
           /\ InFlight(s) = InFlight(s)' \cup ToSet(Head(lines[s]))
           /\ \A u \in Streams \ {s} : StreamIs(u)
           /\ OrderInv(s) => OrderInv(s)'
           /\ OrderInv(s) => \A p \in ToSet(Head(lines[s])), r \in InFlight(s)' : Precedes(p, r)
           /\ LinesInv(s) => LinesInv(s)' /\ Len(Head(lines[s])) = 1
<1> DEFINE q == lines[s]
           l == Head(q)
           rest == Tail(q)
<1>1. q \in Seq(Seq(AllPieces)) /\ lines'[s] = rest /\ q # <<>>
  BY DEF TypeInv
<1>2. /\ rest \in Seq(Seq(AllPieces)) /\ l \in Seq(AllPieces)
      /\ 1 \in DOMAIN q /\ l = q[1]
      /\ \A i \in DOMAIN rest : i + 1 \in DOMAIN q /\ 1 < i + 1 /\ rest[i] = q[i + 1]
      /\ \A i \in DOMAIN q : i = 1 \/ (i - 1 \in DOMAIN rest /\ q[i] = rest[i - 1])
  BY <1>1, HeadAndTail
<1>3. lines' \in [Streams -> Seq(Seq(AllPieces))]
  BY <1>2 DEF TypeInv
<1>4. \A u \in Streams \ {s} : StreamIs(u)
  BY DEF StreamIs, TypeInv
<1> HIDE DEF rest, l
<1>5. InLines(s) = InLines(s)' \cup ToSet(l)
  <2>1. \A p : p \in InLines(s) <=> \E i \in DOMAIN q : p \in ToSet(q[i])
    BY DEF InLines
  <2>2. \A p : p \in InLines(s)' <=> \E i \in DOMAIN rest : p \in ToSet(rest[i])
    BY <1>1 DEF InLines
  <2>3. \A p : p \in InLines(s) => p \in InLines(s)' \/ p \in ToSet(l)
    BY <1>2, <2>1, <2>2
  <2>4. \A p : p \in InLines(s)' \/ p \in ToSet(l) => p \in InLines(s)
    BY <1>2, <2>1, <2>2
  <2> QED
    BY <2>3, <2>4
<1>6. InFlight(s) = InFlight(s)' \cup ToSet(l)
  BY <1>5 DEF InFlight
<1>7. \A p, r : Precedes(p, r)' <=> Precedes(p, r)
  BY DEF Precedes
<1>8. ASSUME OrderInv(s)
      PROVE  OrderInv(s)' /\ \A p \in ToSet(l), r \in InFlight(s)' : Precedes(p, r)
  <2>1. \A i, j \in DOMAIN q : i < j => \A p \in ToSet(q[i]), r \in ToSet(q[j]) : Precedes(p, r)
    BY <1>8 DEF OrderInv
  <2>2. ASSUME NEW i \in DOMAIN rest, NEW j \in DOMAIN rest, i < j
        PROVE  \A p \in ToSet(rest[i]), r \in ToSet(rest[j]) : Precedes(p, r)
    <3>1. i + 1 < j + 1
      <4>1. DOMAIN rest \subseteq Nat
        BY <1>2
      <4> QED
        BY <2>2, <4>1
    <3> QED
      BY <1>2, <2>1, <3>1
  <2>3. \A p \in ToSet(l), r \in InLines(s)' : Precedes(p, r)
    <3> SUFFICES ASSUME NEW p \in ToSet(l), NEW r \in InLines(s)' PROVE Precedes(p, r)
      OBVIOUS
    <3>1. PICK i \in DOMAIN rest : r \in ToSet(rest[i])
      BY <1>1 DEF InLines
    <3> QED
      BY <1>2, <2>1, <3>1
  <2>4. \A p \in InLines(s)' \cup ToSet(l), r \in ToSet(reader[s]) \cup ToSet(pipe[s]) : Precedes(p, r)
    BY <1>5, <1>8 DEF OrderInv
  <2>5. OrderInv(s)'
    BY <1>1, <1>7, <1>8, <2>2, <2>4 DEF OrderInv
  <2>6. \A p \in ToSet(l), r \in InFlight(s)' : Precedes(p, r)
    BY <2>3, <2>4 DEF InFlight
  <2> QED
    BY <2>5, <2>6
<1>9. ASSUME LinesInv(s) PROVE LinesInv(s)' /\ Len(l) = 1
  BY <1>1, <1>2, <1>6, <1>9 DEF LinesInv
<1> QED
  BY <1>2, <1>3, <1>4, <1>6, <1>8, <1>9 DEF l

(* The queues are dumped on the terminal.                                  *)
LEMMA StreamDumped ==
    ASSUME NEW s \in Streams, lines' = [u \in Streams |-> <<>>], UNCHANGED <<pipe, reader>>
    PROVE  /\ lines' \in [Streams -> Seq(Seq(AllPieces))]
           /\ InFlight(s)' \subseteq InFlight(s)
           /\ OrderInv(s) => OrderInv(s)'
           /\ LinesInv(s) => LinesInv(s)'
<1>1. lines'[s] = <<>> /\ DOMAIN lines'[s] = {} /\ lines' \in [Streams -> Seq(Seq(AllPieces))]
  OBVIOUS
<1>2. InLines(s)' = {}
  BY <1>1 DEF InLines
<1>3. InFlight(s)' \subseteq InFlight(s)
  BY <1>2 DEF InFlight
<1>4. OrderInv(s) => OrderInv(s)'
  BY <1>1, <1>2 DEF OrderInv, Precedes
<1>5. LinesInv(s) => LinesInv(s)'
  BY <1>1, <1>3 DEF LinesInv
<1> QED
  BY <1>1, <1>3, <1>4, <1>5

-----------------------------------------------------------------------------
(* Types, and where the worker is while the parent is where it is.         *)

LEMMA OneElement == ASSUME NEW S, NEW x \in S PROVE <<x>> \in Seq(S)
  OBVIOUS

LEMMA StartsTyped == Init => TypeInv /\ ThreadsInv
<1> SUFFICES ASSUME Init PROVE TypeInv /\ ThreadsInv
  OBVIOUS
<1>1. pipe \in [Streams -> Seq(AllPieces)]
  <2>1. Piece("own", 0, 1, TRUE) \in AllPieces
    BY PieceTypes
  <2>2. <<Piece("own", 0, 1, TRUE)>> \in Seq(AllPieces)
    BY <2>1, OneElement
  <2>3. <<>> \in Seq(AllPieces)
    OBVIOUS
  <2> QED
    BY <2>2, <2>3 DEF Init
<1>2. captured \in [Tests -> [Streams -> Seq(Seq(AllPieces))]]
  <2>1. <<>> \in Seq(Seq(AllPieces))
    OBVIOUS
  <2> QED
    BY <2>1 DEF Init
<1>3. reader \in [Streams -> Seq(AllPieces)] /\ lines \in [Streams -> Seq(Seq(AllPieces))]
  BY DEF Init
<1>4. NumTests \in Nat
  BY CapturedOutputAssumption
<1>5. /\ pc = "enable" /\ cur = 1 /\ aborted = FALSE /\ enabled = TRUE /\ wpc = "loop" /\ wtest = 0
      /\ late = 0 /\ printed \in [Tests -> [Streams -> Nat]]
  BY DEF Init
<1>6. TypeInv
  <2>1. /\ pc \in {"enable", "send", "await", "out", "err"}
        /\ aborted \in BOOLEAN /\ enabled \in BOOLEAN
        /\ wpc \in {"loop", "body", "markErr", "finished", "gone"}
    BY <1>5, Zenon
  <2>2. cur \in Nat /\ wtest \in 0..NumTests /\ late \in Nat
    BY <1>4, <1>5
  <2> QED
    BY <1>1, <1>2, <1>3, <1>5, <2>1, <2>2 DEF TypeInv
<1>7. ThreadsInv
  BY <1>5 DEF ThreadsInv, Streams
<1> QED
  BY <1>6, <1>7

LEMMA StreamIsNamed == pc \in Streams => pc \in {"out", "err"}
  BY DEF Streams

LEMMA DrainSplit ==
    ASSUME TypeInv, ThreadsInv, NEW s \in Streams, pc = s, DrainUntil
    PROVE  /\ lines[s] # <<>> /\ lines' = [lines EXCEPT ![s] = Tail(@)]
           /\ cur \in Captured /\ cur \in Tests
           /\ UNCHANGED <<aborted, enabled, reader, shown, wpc, wtest, printed, late, pipe>>
           /\ \/ /\ Head(lines[s]) = <<Marker(cur)>> /\ UNCHANGED captured
                 /\ \/ pc = "out" /\ pc' = "err" /\ UNCHANGED cur
                    \/ pc = "err" /\ pc' = "enable" /\ cur' = cur + 1
              \/ /\ Head(lines[s]) # <<Marker(cur)>> /\ UNCHANGED <<pc, cur>>
                 /\ captured' = [captured EXCEPT ![cur][s] = Append(@, Head(lines[s]))]
  BY CapturedOutputAssumption DEF DrainUntil, IsMarker, Drained, NextTest, ThreadsInv, workerVars, Streams

LEMMA ThreadsStep == ASSUME TypeInv, ThreadsInv, Next PROVE ThreadsInv'
<1> USE DEF parentVars, workerVars
<1>1. cur \in Nat /\ wtest \in Nat /\ NumTests \in Nat /\ Captured \subseteq Tests
  BY CapturedOutputAssumption DEF TypeInv
<1>2. CASE SetCapture
  <2>1. cur \in Tests
    <3>1. cur <= NumTests /\ wtest < cur
      BY <1>2 DEF SetCapture, ThreadsInv
    <3> QED
      BY <1>1, <3>1 DEF Tests
  <2> QED
    BY <1>2, <2>1 DEF SetCapture, ThreadsInv, Streams
<1>3. CASE SendRunTest
  BY <1>3 DEF SendRunTest, ThreadsInv, Streams
<1>4. CASE ReceiveFinished
  <2>1. wtest = cur /\ cur < cur + 1
    BY <1>1, <1>4 DEF ReceiveFinished, ThreadsInv
  <2> QED
    BY <1>4, <2>1 DEF ReceiveFinished, NextTest, ThreadsInv, Streams
<1>5. CASE DrainUntil
  <2>1. PICK s \in Streams : pc = s
    BY <1>5 DEF DrainUntil
  <2>2. wtest = cur /\ cur < cur + 1 /\ pc \in {"out", "err"}
    BY <1>1, <2>1 DEF ThreadsInv, Streams
  <2> QED
    BY <1>5, <2>1, <2>2, DrainSplit DEF ThreadsInv, Streams
<1>6. CASE DumpOnFailure
  BY <1>6 DEF DumpOnFailure, ThreadsInv, Streams
<1>7. CASE WorkerStep
  <2>1. UNCHANGED <<pc, cur, enabled, wtest>> /\ wpc \in {"body", "markErr"}
    BY <1>7 DEF WorkerStep, PrintOwn, MarkOut, MarkErr
  <2> QED
    BY <2>1 DEF ThreadsInv
<1>8. CASE Crash
  BY <1>8 DEF Crash, ThreadsInv, Streams
<1>9. CASE Ended
  BY <1>9 DEF Ended, vars, ThreadsInv, Streams
<1>10. ASSUME NEW s \in Streams, ReaderStep(s) \/ PrintLate(s) PROVE ThreadsInv'
  <2>1. UNCHANGED <<pc, cur, enabled, wpc, wtest>>
    BY <1>10 DEF ReaderStep, ReadLine, Deliver, PrintLate
  <2> QED
    BY <2>1 DEF ThreadsInv
<1> QED
  BY <1>2, <1>3, <1>4, <1>5, <1>6, <1>7, <1>8, <1>9, <1>10 DEF Next, ParentStep

(* A test prints while its body runs: which piece, and on which stream.    *)
LEMMA PrintsPiece ==
    ASSUME TypeInv, ThreadsInv, NEW s \in Streams, PrintOwn(s)
    PROVE  LET n == printed[wtest][s] + 1 IN
           /\ wpc = "body" /\ wtest \in Tests /\ n \in Nat /\ n >= 1
           /\ printed' \in [Tests -> [Streams -> Nat]]
           /\ printed'[wtest][s] = n
           /\ \A t \in Tests, u \in Streams : t # wtest \/ u # s => printed'[t][u] = printed[t][u]
           /\ \E end \in {TRUE, EndsLines} :
                 Piece("own", wtest, n, end) \in AllPieces /\ Write(s, Piece("own", wtest, n, end))
           /\ UNCHANGED <<pc, cur, captured, aborted, enabled, reader, lines, shown, wpc, wtest, late>>
<1>1. wpc = "body" /\ wtest \in Tests /\ wtest \in Nat
  BY DEF PrintOwn, ThreadsInv, Tests, TypeInv
<1>2. /\ printed' = [printed EXCEPT ![wtest][s] = @ + 1]
      /\ \E end \in {TRUE, EndsLines} : Write(s, Piece("own", wtest, printed'[wtest][s], end))
      /\ UNCHANGED <<pc, cur, captured, aborted, enabled, reader, lines, shown, wpc, wtest, late>>
  BY DEF PrintOwn, parentVars
<1>3. /\ printed \in [Tests -> [Streams -> Nat]]
      /\ printed[wtest] \in [Streams -> Nat]
      /\ printed[wtest][s] \in Nat
  BY <1>1 DEF TypeInv
<1>4. /\ printed' \in [Tests -> [Streams -> Nat]]
      /\ printed'[wtest][s] = printed[wtest][s] + 1
      /\ \A t \in Tests, u \in Streams : t # wtest \/ u # s => printed'[t][u] = printed[t][u]
  BY <1>1, <1>2, <1>3
<1>5. printed[wtest][s] + 1 \in Nat /\ printed[wtest][s] + 1 >= 1
  BY <1>3
<1>6. PICK end \in {TRUE, EndsLines} : Write(s, Piece("own", wtest, printed[wtest][s] + 1, end))
  BY <1>2, <1>4
<1>7. end \in BOOLEAN
  BY CapturedOutputAssumption
<1>8. Piece("own", wtest, printed[wtest][s] + 1, end) \in AllPieces
  BY <1>1, <1>5, <1>7, PieceTypes
<1> QED
  BY <1>1, <1>2, <1>4, <1>5, <1>6, <1>8

LEMMA MarksBody ==
    ASSUME TypeInv, ThreadsInv, NEW s \in Streams,
           (s = "out" /\ MarkOut) \/ (s = "err" /\ MarkErr)
    PROVE  /\ wtest \in Tests /\ Marker(wtest) \in AllPieces /\ Write(s, Marker(wtest))
           /\ ~BodyIsOver(s) /\ BodyIsOver(s)' /\ \A u \in Streams : BodyIsOver(u) => BodyIsOver(u)'
           /\ wpc' \in {"markErr", "finished"}
           /\ UNCHANGED <<pc, cur, captured, aborted, enabled, reader, lines, shown, wtest, printed, late>>
<1>1. wtest \in Tests /\ wtest \in Nat
  BY DEF MarkOut, MarkErr, ThreadsInv, TypeInv, Tests
<1>2. Marker(wtest) \in AllPieces
  BY <1>1, PieceTypes
<1> QED
  BY <1>1, <1>2 DEF MarkOut, MarkErr, parentVars, BodyIsOver, Streams

LEMMA PrintsLate ==
    ASSUME TypeInv, NEW s \in Streams, PrintLate(s)
    PROVE  /\ late' \in Nat
           /\ Piece("late", wtest, late + 1, TRUE) \in AllPieces
           /\ Write(s, Piece("late", wtest, late + 1, TRUE))
           /\ UNCHANGED <<pc, cur, captured, aborted, enabled, reader, lines, shown, wpc, wtest, printed>>
<1>1. wtest \in Nat /\ late + 1 \in Nat /\ late' = late + 1
  BY CapturedOutputAssumption DEF TypeInv, PrintLate
<1> QED
  BY <1>1, PieceTypes DEF PrintLate, parentVars

LEMMA TypesStep == ASSUME TypeInv, ThreadsInv, Next PROVE TypeInv'
<1> USE DEF parentVars, workerVars
<1>1. cur \in Nat /\ NumTests \in Nat /\ wtest \in 0..NumTests
  BY CapturedOutputAssumption DEF TypeInv
<1>2. CASE SetCapture
  BY <1>2 DEF SetCapture, TypeInv
<1>3. CASE SendRunTest
  <2>1. cur \in 0..NumTests
    BY <1>1, <1>3 DEF SendRunTest, ThreadsInv, Tests
  <2> QED
    BY <1>3, <2>1 DEF SendRunTest, TypeInv
<1>4. CASE ReceiveFinished
  BY <1>1, <1>4 DEF ReceiveFinished, NextTest, TypeInv
<1>5. CASE DrainUntil
  <2>1. PICK s \in Streams : pc = s
    BY <1>5 DEF DrainUntil
  <2>2. /\ lines[s] # <<>> /\ lines' = [lines EXCEPT ![s] = Tail(@)] /\ UNCHANGED <<pipe, reader>>
        /\ cur \in Tests
    BY <1>5, <2>1, DrainSplit
  <2>3. lines' \in [Streams -> Seq(Seq(AllPieces))] /\ Head(lines[s]) \in Seq(AllPieces)
    BY <2>2, StreamTaken
  <2>4. captured' \in [Tests -> [Streams -> Seq(Seq(AllPieces))]]
    <3>1. captured[cur] \in [Streams -> Seq(Seq(AllPieces))] /\ captured[cur][s] \in Seq(Seq(AllPieces))
      BY <2>2 DEF TypeInv
    <3>2. Append(captured[cur][s], Head(lines[s])) \in Seq(Seq(AllPieces))
      BY <2>3, <3>1
    <3>3. \/ captured' = captured
          \/ captured' = [captured EXCEPT ![cur][s] = Append(@, Head(lines[s]))]
      BY <1>5, <2>1, DrainSplit
    <3> DEFINE W == Seq(Seq(AllPieces))
               l == Append(captured[cur][s], Head(lines[s]))
    <3>4. ASSUME NEW f, f \in [Tests -> [Streams -> W]], NEW e \in W, NEW t \in Tests
          PROVE  [f EXCEPT ![t][s] = e] \in [Tests -> [Streams -> W]]
      <4> HIDE DEF W
      <4> QED
        BY <3>4
    <3>5. [captured EXCEPT ![cur][s] = l] \in [Tests -> [Streams -> W]]
      <4> HIDE DEF W, l
      <4> QED
        BY <2>2, <3>2, <3>4 DEF TypeInv, W, l
    <3>6. captured' = captured \/ captured' = [captured EXCEPT ![cur][s] = l]
      BY <3>3
    <3> QED
      BY <3>5, <3>6 DEF TypeInv
  <2>5. pc' \in {"enable", "send", "await", "out", "err"} /\ cur' \in Nat
    BY <1>1, <1>5, <2>1, DrainSplit DEF TypeInv
  <2>6. UNCHANGED <<aborted, enabled, reader, wpc, wtest, printed, late, pipe>>
    BY <1>5, <2>1, DrainSplit
  <2> QED
    BY <2>3, <2>4, <2>5, <2>6 DEF TypeInv
<1>6. CASE DumpOnFailure
  BY <1>6 DEF DumpOnFailure, TypeInv
<1>7. ASSUME NEW s \in Streams, PrintOwn(s) PROVE TypeInv'
  <2>1. PICK piece \in AllPieces : Write(s, piece)
    BY <1>7, PrintsPiece
  <2>2. printed' \in [Tests -> [Streams -> Nat]]
        /\ UNCHANGED <<pc, cur, captured, aborted, enabled, reader, lines, shown, wpc, wtest, late>>
    BY <1>7, PrintsPiece
  <2>3. pipe' \in [Streams -> Seq(AllPieces)]
    BY <2>1, <2>2, StreamWritten
  <2> QED
    BY <2>2, <2>3 DEF TypeInv
<1>8. ASSUME NEW s \in Streams, (s = "out" /\ MarkOut) \/ (s = "err" /\ MarkErr) PROVE TypeInv'
  <2>1. Marker(wtest) \in AllPieces /\ Write(s, Marker(wtest)) /\ wpc' \in {"markErr", "finished"}
        /\ UNCHANGED <<pc, cur, captured, aborted, enabled, reader, lines, shown, wtest, printed, late>>
    BY <1>8, MarksBody
  <2>2. pipe' \in [Streams -> Seq(AllPieces)]
    BY <2>1, StreamWritten
  <2> QED
    BY <2>1, <2>2 DEF TypeInv
<1>9. CASE Crash
  BY <1>9 DEF Crash, TypeInv
<1>10. CASE Ended
  BY <1>10 DEF Ended, vars, TypeInv
<1>11. ASSUME NEW s \in Streams, ReadLine(s) PROVE TypeInv'
  BY <1>11, StreamRead DEF ReadLine, TypeInv
<1>12. ASSUME NEW s \in Streams, Deliver(s) PROVE TypeInv'
  BY <1>12, StreamDelivered DEF Deliver, TypeInv
<1>13. ASSUME NEW s \in Streams, PrintLate(s) PROVE TypeInv'
  <2>1. /\ Piece("late", wtest, late + 1, TRUE) \in AllPieces /\ late' \in Nat
        /\ Write(s, Piece("late", wtest, late + 1, TRUE))
        /\ UNCHANGED <<pc, cur, captured, aborted, enabled, reader, lines, shown, wpc, wtest, printed>>
    BY <1>13, PrintsLate
  <2>2. pipe' \in [Streams -> Seq(AllPieces)]
    BY <2>1, StreamWritten
  <2> QED
    BY <2>1, <2>2 DEF TypeInv
<1> QED
  BY <1>2, <1>3, <1>4, <1>5, <1>6, <1>7, <1>8, <1>9, <1>10, <1>11, <1>12, <1>13
     DEF Next, ParentStep, WorkerStep, ReaderStep, Streams

-----------------------------------------------------------------------------
(* What is in flight, and in which order.                                  *)

(* Nothing new is in flight, and no marker has been found.                 *)
LEMMA FlightKept ==
    ASSUME TypeInv, TypeInv', NEW s \in Streams, FlightInv(s), InFlight(s)' \subseteq InFlight(s),
           wtest' = wtest, BodyIsOver(s) => BodyIsOver(s)',
           \A t \in Tests : printed[t][s] <= printed'[t][s],
           \A t \in Captured : IsDrained(t, s)' => IsDrained(t, s)
    PROVE  FlightInv(s)'
<1> SUFFICES ASSUME NEW p \in InFlight(s)', p.kind # "late"
             PROVE  /\ WasPrinted(p, s)'
                    /\ \A t \in Captured : IsDrained(t, s)' => t < p.test
  BY DEF FlightInv
<1>1. WasPrinted(p, s) /\ \A t \in Captured : IsDrained(t, s) => t < p.test
  BY DEF FlightInv
<1>2. WasPrinted(p, s)'
  <2>1. ASSUME p.test \in Tests, p.n \in 1..printed[p.test][s] PROVE p.n \in 1..printed'[p.test][s]
    <3>1. printed[p.test][s] \in Nat /\ printed'[p.test][s] \in Nat /\ printed[p.test][s] <= printed'[p.test][s]
      BY <2>1 DEF TypeInv
    <3> QED
      BY <2>1, <3>1
  <2> QED
    BY <1>1, <2>1 DEF WasPrinted
<1> QED
  BY <1>1, <1>2

(* No body of a captured test has been drained that the worker is in.      *)
LEMMA DrainedIsPast ==
    ASSUME TypeInv, ThreadsInv, NEW s \in Streams, NEW t \in Captured, IsDrained(t, s)
    PROVE  /\ pc = "await" => t < wtest
           /\ t <= wtest \/ t < cur
<1>1. t \in Nat /\ cur \in Nat /\ wtest \in Nat
  BY CapturedOutputAssumption DEF TypeInv, Tests
<1> QED
  BY <1>1 DEF IsDrained, ThreadsInv, Streams

LEMMA FlightTests ==
    ASSUME NEW s \in Streams, FlightInv(s), TypeInv
    PROVE  \A p \in InFlight(s) : p.kind # "late" => p.test \in Nat /\ p.n \in Nat /\ p.test <= wtest
<1>1. InFlight(s) \subseteq AllPieces
  <2>1. ToSet(pipe[s]) \subseteq AllPieces /\ ToSet(reader[s]) \subseteq AllPieces
    <3>1. pipe[s] \in Seq(AllPieces) /\ reader[s] \in Seq(AllPieces)
      BY DEF TypeInv
    <3> QED
      BY <3>1 DEF ToSet
  <2>2. ASSUME NEW p \in InLines(s) PROVE p \in AllPieces
    <3>1. PICK i \in DOMAIN lines[s] : p \in ToSet(lines[s][i])
      BY InLinesIs
    <3>2. lines[s] \in Seq(Seq(AllPieces))
      BY DEF TypeInv
    <3>3. lines[s][i] \in Seq(AllPieces)
      BY <3>1, <3>2
    <3> QED
      BY <3>1, <3>3 DEF ToSet
  <2> QED
    BY <2>1, <2>2 DEF InFlight
<1>2. \A p \in AllPieces : p.test \in Nat /\ p.n \in Nat
  BY DEF AllPieces
<1> QED
  BY <1>1, <1>2 DEF FlightInv, WasPrinted

(* The first line of the queue was the marker of the test: what is still   *)
(* in flight on this stream was printed by later tests.                    *)
LEMMA AfterMarker ==
    ASSUME TypeInv, NEW s \in Streams, FlightInv(s), OrderInv(s), cur \in Nat,
           lines[s] # <<>>, Head(lines[s]) = <<Marker(cur)>>,
           lines' = [lines EXCEPT ![s] = Tail(@)], UNCHANGED <<pipe, reader>>
    PROVE  \A p \in InFlight(s)' : p.kind # "late" => cur < p.test
<1> SUFFICES ASSUME NEW p \in InFlight(s)', p.kind # "late" PROVE cur < p.test
  OBVIOUS
<1>1. Marker(cur) \in ToSet(Head(lines[s]))
  BY DEF ToSet
<1>2. Precedes(Marker(cur), p) /\ p \in InFlight(s)
  BY <1>1, StreamTaken
<1>3. p.test \in Nat
  BY <1>2, FlightTests
<1>4. Marker(cur).kind = "marker" /\ Marker(cur).test = cur
  BY DEF Marker, Piece
<1> QED
  BY <1>2, <1>3, <1>4 DEF Precedes

LEMMA Below == \A i, j \in Nat : i <= j /\ i # j => i < j
  OBVIOUS

LEMMA FlightStep ==
    ASSUME StreamsInv, Next, TypeInv', ThreadsInv', NEW s \in Streams
    PROVE  FlightInv(s)' /\ OrderInv(s)'
<1> USE DEF parentVars, workerVars
<1>1. TypeInv /\ ThreadsInv /\ FlightInv(s) /\ OrderInv(s)
  BY DEF StreamsInv
<1>2. /\ cur \in Nat /\ wtest \in Nat /\ NumTests \in Nat
      /\ \A t \in Captured : t \in Nat /\ t \in Tests
      /\ printed \in [Tests -> [Streams -> Nat]]
  <2>1. NumTests \in Nat /\ Captured \subseteq Tests
    BY CapturedOutputAssumption
  <2>2. Tests \subseteq Nat
    BY <2>1 DEF Tests
  <2> QED
    BY <1>1, <2>1, <2>2 DEF TypeInv
<1>3. \A t \in Tests : printed[t][s] <= printed[t][s]
  BY <1>2
<1>4. CASE SetCapture
  <2>1. StreamIs(s) /\ UNCHANGED <<wtest, wpc, printed>> /\ \A t \in Captured : IsDrained(t, s)' => IsDrained(t, s)
    BY <1>4 DEF SetCapture, StreamIs, IsDrained
  <2> QED
    BY <1>1, <1>3, <2>1, StreamUntouched, FlightKept DEF BodyIsOver
<1>5. CASE SendRunTest
  <2>1. /\ StreamIs(s) /\ UNCHANGED printed /\ \A t \in Captured : IsDrained(t, s)' => IsDrained(t, s)
        /\ wtest < cur /\ wtest' = cur
    BY <1>1, <1>5 DEF SendRunTest, StreamIs, IsDrained, ThreadsInv
  <2>2. InFlight(s)' = InFlight(s) /\ OrderInv(s)'
    BY <1>1, <2>1, StreamUntouched
  <2>3. ASSUME NEW p \in InFlight(s), p.kind # "late" PROVE WasPrinted(p, s)'
    <3>1. p.test \in Nat /\ p.test <= wtest /\ WasPrinted(p, s)
      BY <1>1, <2>3, FlightTests DEF FlightInv
    <3>2. p.test < wtest'
      BY <1>2, <2>1, <3>1
    <3> QED
      BY <1>2, <2>1, <3>1, <3>2 DEF WasPrinted
  <2> QED
    BY <1>1, <2>1, <2>2, <2>3 DEF FlightInv
<1>6. CASE ReceiveFinished
  <2>1. StreamIs(s) /\ UNCHANGED <<wtest, printed>> /\ wpc' = "loop" /\ pc = "await"
    BY <1>6 DEF ReceiveFinished, StreamIs
  <2>2. ASSUME NEW t \in Captured, IsDrained(t, s)' PROVE IsDrained(t, s)
    <3>1. CASE cur \in Captured
      BY <1>6, <2>2, <3>1 DEF ReceiveFinished, IsDrained
    <3>2. CASE cur \notin Captured
      <4>1. t < cur + 1 \/ (t = cur + 1 /\ pc' = "err")
        BY <1>6, <2>2, <3>2 DEF ReceiveFinished, NextTest, IsDrained
      <4>2. pc' = "enable" /\ t # cur
        BY <1>6, <3>2 DEF ReceiveFinished, NextTest
      <4> QED
        BY <1>2, <4>1, <4>2 DEF IsDrained
    <3> QED
      BY <3>1, <3>2
  <2> QED
    BY <1>1, <1>3, <2>1, <2>2, StreamUntouched, FlightKept DEF BodyIsOver
<1>7. CASE DrainUntil
  <2>1. PICK u \in Streams : pc = u
    BY <1>7 DEF DrainUntil
  <2>2. /\ lines[u] # <<>> /\ lines' = [lines EXCEPT ![u] = Tail(@)]
        /\ UNCHANGED <<pipe, reader, wtest, wpc, printed>>
    BY <1>1, <1>7, <2>1, DrainSplit
  <2>3. InFlight(s)' \subseteq InFlight(s) /\ OrderInv(s)'
    <3>1. CASE s = u
      BY <1>1, <2>2, <3>1, StreamTaken
    <3>2. CASE s # u
      BY <1>1, <2>2, <3>2, StreamTaken, StreamUntouched
    <3> QED
      BY <3>1, <3>2
  <2>4. CASE UNCHANGED <<pc, cur>>
    <3>1. \A t \in Captured : IsDrained(t, s)' => IsDrained(t, s)
      BY <2>4 DEF IsDrained
    <3> QED
      BY <1>1, <1>3, <2>2, <2>3, <3>1, FlightKept DEF BodyIsOver
  <2>5. ASSUME Head(lines[u]) = <<Marker(cur)>>,
               (pc = "out" /\ pc' = "err" /\ UNCHANGED cur) \/ (pc = "err" /\ pc' = "enable" /\ cur' = cur + 1)
        PROVE  FlightInv(s)'
    <3> SUFFICES ASSUME NEW p \in InFlight(s)', p.kind # "late"
                 PROVE  WasPrinted(p, s)' /\ \A t \in Captured : IsDrained(t, s)' => t < p.test
      BY DEF FlightInv
    <3>1. WasPrinted(p, s) /\ \A t \in Captured : IsDrained(t, s) => t < p.test
      BY <1>1, <2>3 DEF FlightInv
    <3>2. WasPrinted(p, s)'
      BY <2>2, <3>1 DEF WasPrinted, BodyIsOver
    <3>3. ASSUME NEW t \in Captured, IsDrained(t, s)', ~IsDrained(t, s) PROVE t < p.test
      <4>1. t = cur /\ s = u
        BY <1>2, <2>1, <2>5, <3>3 DEF IsDrained, Streams
      <4> QED
        BY <1>1, <1>2, <2>2, <2>5, <4>1, AfterMarker
    <3> QED
      BY <3>1, <3>2, <3>3
  <2> QED
    BY <1>1, <1>7, <2>1, <2>3, <2>4, <2>5, DrainSplit
<1>8. CASE DumpOnFailure
  <2>1. /\ lines' = [u \in Streams |-> <<>>] /\ UNCHANGED <<pipe, reader, wtest, wpc, printed, pc, cur>>
    BY <1>8 DEF DumpOnFailure
  <2>2. \A t \in Captured : IsDrained(t, s)' => IsDrained(t, s)
    BY <2>1 DEF IsDrained
  <2> QED
    BY <1>1, <1>3, <2>1, <2>2, StreamDumped, FlightKept DEF BodyIsOver
<1>9. ASSUME NEW u \in Streams, ReadLine(u) \/ Deliver(u) PROVE FlightInv(s)' /\ OrderInv(s)'
  <2>1. InFlight(s)' \subseteq InFlight(s) /\ OrderInv(s)'
    <3>1. CASE s = u
      BY <1>1, <1>9, <3>1, StreamRead, StreamDelivered
    <3>2. CASE s # u
      <4>1. StreamIs(s)
        BY <1>1, <1>9, <3>2, StreamRead, StreamDelivered
      <4> QED
        BY <1>1, <4>1, StreamUntouched
    <3> QED
      BY <3>1, <3>2
  <2>2. UNCHANGED <<wtest, wpc, printed, pc, cur>>
    BY <1>9 DEF ReadLine, Deliver
  <2>3. \A t \in Captured : IsDrained(t, s)' => IsDrained(t, s)
    BY <2>2 DEF IsDrained
  <2> QED
    BY <1>1, <1>3, <2>1, <2>2, <2>3, FlightKept DEF BodyIsOver
<1>10. ASSUME NEW u \in Streams, PrintOwn(u) PROVE FlightInv(s)' /\ OrderInv(s)'
  <2> DEFINE n == printed[wtest][u] + 1
  <2>1. PICK piece \in AllPieces :
           piece.kind = "own" /\ piece.test = wtest /\ piece.n = n /\ Write(u, piece)
    BY <1>1, <1>10, PrintsPiece DEF Piece
  <2>2. /\ wpc = "body" /\ wtest \in Tests /\ n \in Nat /\ n >= 1 /\ printed'[wtest][u] = n
        /\ \A t \in Tests, v \in Streams : t # wtest \/ v # u => printed'[t][v] = printed[t][v]
        /\ UNCHANGED <<pc, cur, reader, lines, wpc, wtest>>
    BY <1>1, <1>10, PrintsPiece
  <2>3. /\ InFlight(u)' = InFlight(u) \cup {piece}
        /\ \A v \in Streams \ {u} : StreamIs(v)
        /\ OrderInv(u) /\ (\A p \in InFlight(u) : Precedes(p, piece)) => OrderInv(u)'
    BY <1>1, <2>1, <2>2, StreamWritten
  <2>4. \A t \in Tests : printed[t][s] <= printed'[t][s]
    <3>1. \A t \in Tests : printed[t][s] \in Nat
      BY <1>2
    <3> QED
      BY <2>2, <3>1
  <2>5. \A t \in Captured : IsDrained(t, s)' => IsDrained(t, s)
    BY <2>2 DEF IsDrained
  <2>6. CASE s # u
    <3>1. StreamIs(s)
      BY <2>3, <2>6
    <3> QED
      BY <1>1, <2>2, <2>4, <2>5, <3>1, StreamUntouched, FlightKept DEF BodyIsOver
  <2>7. CASE s = u
    <3>1. piece.kind = "own" /\ piece.test = wtest /\ piece.n = n
      BY <2>1
    <3>2. ASSUME NEW p \in InFlight(s) PROVE Precedes(p, piece)
      <4> SUFFICES ASSUME p.kind # "late" PROVE Precedes(p, piece)
        BY DEF Precedes
      <4>1. WasPrinted(p, s) /\ p.test \in Nat /\ p.n \in Nat /\ p.test <= wtest
        BY <1>1, <3>2, FlightTests DEF FlightInv
      <4>2. CASE p.test = wtest
        <5>1. p.kind = "own" /\ p.n \in 1..printed[wtest][s]
          BY <2>2, <2>7, <4>1, <4>2 DEF WasPrinted, BodyIsOver
        <5>2. p.n < n
          BY <1>2, <2>2, <2>7, <5>1
        <5> QED
          BY <3>1, <4>2, <5>1, <5>2 DEF Precedes
      <4>3. CASE p.test # wtest
        <5>1. p.test < wtest
          BY <1>2, <4>1, <4>3, Below
        <5> QED
          BY <3>1, <5>1 DEF Precedes
      <4> QED
        BY <4>2, <4>3
    <3>3. OrderInv(s)'
      BY <1>1, <2>3, <2>7, <3>2
    <3>4. ASSUME NEW p \in InFlight(s), p.kind # "late" PROVE WasPrinted(p, s)'
      <4>1. WasPrinted(p, s)
        BY <1>1, <3>4 DEF FlightInv
      <4>2. ASSUME p.test \in Tests, p.n \in 1..printed[p.test][s] PROVE p.n \in 1..printed'[p.test][s]
        <5>1. printed[p.test][s] \in Nat /\ printed'[p.test][s] \in Nat /\ printed[p.test][s] <= printed'[p.test][s]
          BY <1>2, <2>4, <4>2 DEF TypeInv
        <5> QED
          BY <4>2, <5>1
      <4> QED
        BY <2>2, <4>1, <4>2 DEF WasPrinted, BodyIsOver
    <3>5. WasPrinted(piece, s)'
      <4>1. n \in 1..n /\ wtest <= wtest
        BY <1>2, <2>2
      <4>2. piece.test <= wtest' /\ piece.n \in 1..printed'[piece.test][s]
        BY <2>2, <2>7, <3>1, <4>1
      <4> QED
        BY <3>1, <4>2, Zenon DEF WasPrinted
    <3>6. \A t \in Captured : IsDrained(t, s)' => t < wtest
      BY <1>1, <2>2, <2>5, DrainedIsPast DEF ThreadsInv
    <3>7. InFlight(s)' = InFlight(s) \cup {piece}
      BY <2>3, <2>7
    <3>8. \A p \in InFlight(s), t \in Captured : p.kind # "late" /\ IsDrained(t, s)' => t < p.test
      BY <1>1, <2>5 DEF FlightInv
    <3>9. FlightInv(s)'
      BY <3>1, <3>4, <3>5, <3>6, <3>7, <3>8, Zenon DEF FlightInv
    <3> QED
      BY <3>3, <3>9
  <2> QED
    BY <2>6, <2>7
<1>11. ASSUME NEW u \in Streams, (u = "out" /\ MarkOut) \/ (u = "err" /\ MarkErr)
       PROVE  FlightInv(s)' /\ OrderInv(s)'
  <2>1. /\ wtest \in Tests /\ Marker(wtest) \in AllPieces /\ Write(u, Marker(wtest))
        /\ ~BodyIsOver(u) /\ BodyIsOver(u)' /\ (BodyIsOver(s) => BodyIsOver(s)')
        /\ UNCHANGED <<pc, cur, reader, lines, wtest, printed>>
    BY <1>1, <1>11, MarksBody
  <2> PICK m \in AllPieces : m = Marker(wtest)
    BY <2>1
  <2>2. /\ InFlight(u)' = InFlight(u) \cup {m}
        /\ \A v \in Streams \ {u} : StreamIs(v)
        /\ OrderInv(u) /\ (\A p \in InFlight(u) : Precedes(p, m)) => OrderInv(u)'
    BY <1>1, <2>1, StreamWritten
  <2>3. \A t \in Captured : IsDrained(t, s)' => IsDrained(t, s)
    BY <2>1 DEF IsDrained
  <2>4. CASE s # u
    <3>1. StreamIs(s)
      BY <2>2, <2>4
    <3> QED
      BY <1>1, <1>3, <2>1, <2>3, <3>1, StreamUntouched, FlightKept
  <2>5. CASE s = u
    <3>0. m = Marker(wtest) /\ m.kind = "marker" /\ m.test = wtest
      BY DEF Marker, Piece
    <3>1. ASSUME NEW p \in InFlight(s) PROVE Precedes(p, m)
      <4> SUFFICES ASSUME p.kind # "late" PROVE Precedes(p, m)
        BY DEF Precedes
      <4>1. WasPrinted(p, s) /\ p.test \in Nat /\ p.test <= wtest
        BY <1>1, <3>1, FlightTests DEF FlightInv
      <4>2. CASE p.test = wtest
        BY <2>1, <2>5, <4>1, <4>2, <3>0 DEF WasPrinted, Precedes
      <4>3. CASE p.test # wtest
        <5>1. p.test < wtest
          BY <1>2, <4>1, <4>3, Below
        <5> QED
          BY <3>0, <5>1 DEF Precedes
      <4> QED
        BY <4>2, <4>3
    <3>2. OrderInv(s)'
      BY <1>1, <2>2, <2>5, <3>1
    <3>3. ASSUME NEW p \in InFlight(s), p.kind # "late" PROVE WasPrinted(p, s)'
      BY <1>1, <2>1, <3>3 DEF FlightInv, WasPrinted
    <3>4. WasPrinted(m, s)'
      BY <1>2, <2>1, <2>5, <3>0 DEF WasPrinted
    <3>5. \A t \in Captured : IsDrained(t, s)' => t < m.test
      <4>1. wpc \in {"body", "markErr"}
        BY <1>11 DEF MarkOut, MarkErr
      <4> QED
        BY <1>1, <2>3, <4>1, <3>0, DrainedIsPast DEF ThreadsInv
    <3>6. InFlight(s)' = InFlight(s) \cup {m}
      BY <2>2, <2>5
    <3>7. \A p \in InFlight(s), t \in Captured : p.kind # "late" /\ IsDrained(t, s)' => t < p.test
      BY <1>1, <2>3 DEF FlightInv
    <3>8. FlightInv(s)'
      BY <3>3, <3>4, <3>5, <3>6, <3>7, Zenon DEF FlightInv
    <3> QED
      BY <3>2, <3>8
  <2> QED
    BY <2>4, <2>5
<1>12. ASSUME NEW u \in Streams, PrintLate(u) PROVE FlightInv(s)' /\ OrderInv(s)'
  <2> DEFINE piece == Piece("late", wtest, late + 1, TRUE)
  <2>1. /\ piece \in AllPieces /\ Write(u, piece)
        /\ UNCHANGED <<pc, cur, reader, lines, wpc, wtest, printed>>
    BY <1>1, <1>12, PrintsLate
  <2>2. piece.kind = "late"
    BY DEF Piece
  <2> HIDE DEF piece
  <2>3. /\ InFlight(u)' = InFlight(u) \cup {piece}
        /\ \A v \in Streams \ {u} : StreamIs(v)
        /\ OrderInv(u) /\ (\A p \in InFlight(u) : Precedes(p, piece)) => OrderInv(u)'
    BY <1>1, <2>1, StreamWritten
  <2>4. \A t \in Captured : IsDrained(t, s)' => IsDrained(t, s)
    BY <2>1 DEF IsDrained
  <2>5. CASE s # u
    <3>1. StreamIs(s)
      BY <2>3, <2>5
    <3> QED
      BY <1>1, <1>3, <2>1, <2>4, <3>1, StreamUntouched, FlightKept DEF BodyIsOver
  <2>6. CASE s = u
    <3>1. OrderInv(s)'
      BY <1>1, <2>2, <2>3, <2>6 DEF Precedes
    <3>2. \A p \in InFlight(s) : p.kind # "late" => WasPrinted(p, s)'
      BY <1>1, <2>1 DEF FlightInv, WasPrinted, BodyIsOver
    <3>3. InFlight(s)' = InFlight(s) \cup {piece}
      BY <2>3, <2>6
    <3> QED
      BY <1>1, <2>2, <2>4, <3>1, <3>2, <3>3 DEF FlightInv
  <2> QED
    BY <2>5, <2>6
<1>13. CASE Crash
  <2>1. StreamIs(s) /\ UNCHANGED <<wtest, printed, pc, cur>> /\ wpc' = "gone"
    BY <1>13 DEF Crash, StreamIs
  <2>2. \A t \in Captured : IsDrained(t, s)' => IsDrained(t, s)
    BY <2>1 DEF IsDrained
  <2> QED
    BY <1>1, <1>3, <2>1, <2>2, StreamUntouched, FlightKept DEF BodyIsOver
<1>14. CASE Ended
  <2>1. StreamIs(s) /\ UNCHANGED <<wtest, printed, pc, cur, wpc>>
    BY <1>14 DEF Ended, vars, StreamIs
  <2>2. \A t \in Captured : IsDrained(t, s)' => IsDrained(t, s)
    BY <2>1 DEF IsDrained
  <2> QED
    BY <1>1, <1>3, <2>1, <2>2, StreamUntouched, FlightKept DEF BodyIsOver
<1> QED
  BY <1>4, <1>5, <1>6, <1>7, <1>8, <1>9, <1>10, <1>11, <1>12, <1>13, <1>14
     DEF Next, ParentStep, WorkerStep, ReaderStep, Streams

LEMMA StreamsStep == StreamsInv /\ [Next]_vars => StreamsInv'
<1>1. CASE Next
  <2> SUFFICES ASSUME StreamsInv PROVE StreamsInv'
    BY <1>1
  <2>1. TypeInv' /\ ThreadsInv'
    BY <1>1, TypesStep, ThreadsStep DEF StreamsInv
  <2>2. \A s \in Streams : FlightInv(s)' /\ OrderInv(s)'
    BY <1>1, <2>1, FlightStep
  <2> QED
    BY <2>1, <2>2 DEF StreamsInv
<1>2. CASE UNCHANGED vars
  <2> SUFFICES ASSUME StreamsInv PROVE StreamsInv'
    OBVIOUS
  <2> USE <1>2 DEF vars, parentVars, workerVars
  <2>1. TypeInv' /\ ThreadsInv'
    BY DEF StreamsInv, TypeInv, ThreadsInv
  <2>2. ASSUME NEW s \in Streams PROVE FlightInv(s)' /\ OrderInv(s)'
    <3>1. TypeInv /\ FlightInv(s) /\ OrderInv(s) /\ StreamIs(s)
      BY DEF StreamsInv, StreamIs
    <3>2. \A t \in Tests : printed[t][s] <= printed'[t][s]
      BY <3>1 DEF TypeInv
    <3>3. \A t \in Captured : IsDrained(t, s)' => IsDrained(t, s)
      BY DEF IsDrained
    <3> QED
      BY <2>1, <3>1, <3>2, <3>3, StreamUntouched, FlightKept DEF BodyIsOver
  <2> QED
    BY <2>1, <2>2 DEF StreamsInv
<1> QED
  BY <1>1, <1>2

LEMMA SetOfOne == ASSUME NEW x PROVE ToSet(<<x>>) = {x}
<1>1. DOMAIN <<x>> = {1} /\ <<x>>[1] = x
  OBVIOUS
<1> QED
  BY <1>1 DEF ToSet

LEMMA StreamsStart == Init => StreamsInv
<1> SUFFICES ASSUME Init PROVE StreamsInv
  OBVIOUS
<1>1. TypeInv /\ ThreadsInv
  BY StartsTyped
<1> DEFINE p == Piece("own", 0, 1, TRUE)
<1>2. ASSUME NEW s \in Streams
      PROVE  /\ pipe[s] \in {<<>>, <<p>>} /\ reader[s] = <<>> /\ lines[s] = <<>>
             /\ InLines(s) = {} /\ InFlight(s) \subseteq {p}
  <2>1. pipe[s] \in {<<>>, <<p>>} /\ reader[s] = <<>> /\ lines[s] = <<>>
    BY DEF Init
  <2>2. InLines(s) = {} /\ ToSet(reader[s]) = {}
    BY <2>1 DEF InLines, ToSet
  <2>3. ToSet(<<>>) = {}
    BY DEF ToSet
  <2>4. ToSet(<<p>>) = {p}
    BY SetOfOne
  <2> QED
    BY <2>1, <2>2, <2>3, <2>4 DEF InFlight
<1>3. p.kind = "own" /\ p.test = 0
  BY DEF Piece
<1> HIDE DEF p
<1>4. ASSUME NEW s \in Streams PROVE FlightInv(s)
  <2>1. WasPrinted(p, s)
    <3>1. 0 \notin Tests
      BY CapturedOutputAssumption DEF Tests
    <3> QED
      BY <1>3, <3>1 DEF Init, WasPrinted
  <2>2. \A t \in Captured : ~IsDrained(t, s)
    <3>1. \A t \in Captured : t \in Nat /\ t >= 1
      BY CapturedOutputAssumption DEF Tests
    <3> QED
      BY <3>1 DEF Init, IsDrained
  <2> QED
    BY <1>2, <2>1, <2>2 DEF FlightInv
<1>5. ASSUME NEW s \in Streams PROVE OrderInv(s)
  <2>1. DOMAIN reader[s] = {} /\ DOMAIN lines[s] = {} /\ ToSet(reader[s]) = {} /\ InLines(s) = {}
    BY <1>2 DEF ToSet
  <2>2. \A i, j \in DOMAIN pipe[s] : ~(i < j)
    BY <1>2
  <2> QED
    BY <2>1, <2>2 DEF OrderInv
<1> QED
  BY <1>1, <1>4, <1>5 DEF StreamsInv

(* In both streams, what was printed and is not yet with a result or on the *)
(* terminal is in the order of printing, ends at the marker of its test,    *)
(* and is past the last marker the parent found (ReadLine, Deliver and      *)
(* DrainUntil move it one by one).                                         *)
THEOREM StreamsStayInOrder == Spec => []StreamsInv
<1>1. Init => StreamsInv
  BY StreamsStart
<1>2. StreamsInv /\ [Next]_vars => StreamsInv'
  BY StreamsStep
<1> QED
  BY <1>1, <1>2, PTL DEF Spec

(* While capture is off, nothing that a captured test printed is on its     *)
(* way: all of that is behind the marker the parent has found.              *)
LEMMA OffWhileUncaptured ==
    ASSUME StreamsInv, ~enabled, NEW s \in Streams, NEW p \in InFlight(s), p.kind # "late"
    PROVE  p.test \notin Captured
<1> SUFFICES ASSUME p.test \in Captured PROVE FALSE
  OBVIOUS
<1>1. TypeInv /\ ThreadsInv /\ FlightInv(s)
  BY DEF StreamsInv
<1>2. cur \in Nat /\ wtest \in Nat /\ p.test \in Nat /\ p.test <= wtest
  <2>1. NumTests \in Nat /\ cur \in Nat /\ wtest \in 0..NumTests
    BY <1>1, CapturedOutputAssumption DEF TypeInv
  <2>2. p.test \in Nat /\ p.test <= wtest
    BY <1>1, FlightTests
  <2> QED
    BY <2>1, <2>2
<1>3. ~(p.test < cur)
  <2>1. p.test < cur => p.test < p.test
    BY <1>1 DEF FlightInv, IsDrained
  <2> QED
    BY <1>2, <2>1
<1>4. CASE pc \in {"enable", "send"}
  BY <1>1, <1>2, <1>3, <1>4 DEF ThreadsInv
<1>5. CASE pc \in {"await", "out", "err"}
  <2>1. wtest = cur /\ cur \notin Captured
    BY <1>1, <1>5 DEF ThreadsInv
  <2>2. p.test = cur
    BY <1>2, <1>3, <2>1
  <2> QED
    BY <2>1, <2>2
<1> QED
  BY <1>1, <1>4, <1>5 DEF TypeInv

(* CapturedNotShown: whatever the readers, the parent and the worker do,    *)
(* capture_enabled is on whenever a line of a captured test is read.        *)
THEOREM NothingCapturedShown == Spec => []CapturedNotShown
<1>1. Init => CapturedNotShown
  BY DEF Init, CapturedNotShown
<1>2. StreamsInv /\ CapturedNotShown /\ [Next]_vars => CapturedNotShown'
  <2> SUFFICES ASSUME StreamsInv, CapturedNotShown, [Next]_vars PROVE CapturedNotShown'
    OBVIOUS
  <2> USE DEF parentVars, workerVars
  <2>1. CASE UNCHANGED <<shown, aborted>>
    BY <2>1 DEF CapturedNotShown
  <2>2. CASE DumpOnFailure
    BY <2>2 DEF DumpOnFailure, CapturedNotShown
  <2>3. ASSUME NEW s \in Streams, Deliver(s) PROVE CapturedNotShown'
    <3>1. UNCHANGED aborted /\ (enabled => UNCHANGED shown)
          /\ (~enabled => shown' = shown \cup ToSet(reader[s]))
      BY <2>3 DEF Deliver
    <3>2. ASSUME ~enabled, NEW p \in ToSet(reader[s]), p.kind # "late" PROVE p.test \notin Captured
      <4>1. p \in InFlight(s)
        BY DEF InFlight
      <4> QED
        BY <3>2, <4>1, OffWhileUncaptured
    <3> QED
      BY <3>1, <3>2 DEF CapturedNotShown
  <2>4. SetCapture \/ SendRunTest \/ ReceiveFinished \/ DrainUntil \/ WorkerStep \/ Crash \/ Ended
           => UNCHANGED <<shown, aborted>>
    BY DEF SetCapture, SendRunTest, ReceiveFinished, DrainUntil, WorkerStep, PrintOwn, MarkOut, MarkErr,
           Crash, Ended, vars
  <2>5. ASSUME NEW s \in Streams, ReadLine(s) \/ PrintLate(s) PROVE UNCHANGED <<shown, aborted>>
    BY <2>5 DEF ReadLine, PrintLate
  <2>6. UNCHANGED vars => UNCHANGED <<shown, aborted>>
    BY DEF vars
  <2> QED
    BY <2>1, <2>2, <2>3, <2>4, <2>5, <2>6 DEF Next, ParentStep, ReaderStep
<1> QED
  BY <1>1, <1>2, StreamsStayInOrder, PTL DEF Spec

-----------------------------------------------------------------------------
(* What the results hold, when the bodies end the lines they print.        *)

LEMMA LinesStep ==
    ASSUME StreamsInv, EndsLines, Next, NEW s \in Streams, LinesInv(s)
    PROVE  LinesInv(s)'
<1> USE DEF parentVars, workerVars
<1>1. TypeInv /\ ThreadsInv
  BY DEF StreamsInv
<1>2. CASE StreamIs(s)
  BY <1>2, StreamUntouched
<1>3. SetCapture \/ SendRunTest \/ ReceiveFinished \/ Crash \/ Ended => StreamIs(s)
  BY DEF SetCapture, SendRunTest, ReceiveFinished, Crash, Ended, vars, StreamIs
<1>4. CASE DrainUntil
  <2>1. PICK u \in Streams : pc = u
    BY <1>4 DEF DrainUntil
  <2>2. lines[u] # <<>> /\ lines' = [lines EXCEPT ![u] = Tail(@)] /\ UNCHANGED <<pipe, reader>>
    BY <1>1, <1>4, <2>1, DrainSplit
  <2>3. (LinesInv(u) => LinesInv(u)') /\ \A v \in Streams \ {u} : StreamIs(v)
    BY <1>1, <2>2, StreamTaken
  <2> QED
    BY <1>2, <2>3
<1>5. CASE DumpOnFailure
  BY <1>5, StreamDumped DEF DumpOnFailure
<1>6. ASSUME NEW u \in Streams, NEW piece \in AllPieces, piece.end, Write(u, piece),
             UNCHANGED <<reader, lines>>
      PROVE  LinesInv(s)'
  <2>1. (LinesInv(u) => LinesInv(u)') /\ \A v \in Streams \ {u} : StreamIs(v)
    BY <1>1, <1>6, StreamWritten
  <2> QED
    BY <1>2, <2>1
<1>7. ASSUME NEW u \in Streams, PrintOwn(u) PROVE LinesInv(s)'
  <2>1. PICK end \in {TRUE, EndsLines} :
           /\ Piece("own", wtest, printed[wtest][u] + 1, end) \in AllPieces
           /\ Write(u, Piece("own", wtest, printed[wtest][u] + 1, end))
    BY <1>1, <1>7, PrintsPiece
  <2>2. end = TRUE
    BY CapturedOutputAssumption
  <2>3. Piece("own", wtest, printed[wtest][u] + 1, end).end
    BY <2>2 DEF Piece
  <2>4. UNCHANGED <<reader, lines>>
    BY <1>1, <1>7, PrintsPiece
  <2> QED
    BY <1>6, <2>1, <2>3, <2>4
<1>8. ASSUME NEW u \in Streams, (u = "out" /\ MarkOut) \/ (u = "err" /\ MarkErr) PROVE LinesInv(s)'
  <2>1. Marker(wtest) \in AllPieces /\ Write(u, Marker(wtest)) /\ UNCHANGED <<reader, lines>>
    BY <1>1, <1>8, MarksBody
  <2>2. Marker(wtest).end
    BY DEF Marker, Piece
  <2> QED
    BY <1>6, <2>1, <2>2
<1>9. ASSUME NEW u \in Streams, PrintLate(u) PROVE LinesInv(s)'
  <2>1. /\ Piece("late", wtest, late + 1, TRUE) \in AllPieces
        /\ Write(u, Piece("late", wtest, late + 1, TRUE)) /\ UNCHANGED <<reader, lines>>
    BY <1>1, <1>9, PrintsLate
  <2>2. Piece("late", wtest, late + 1, TRUE).end
    BY DEF Piece
  <2> QED
    BY <1>6, <2>1, <2>2
<1>10. ASSUME NEW u \in Streams, ReadLine(u) PROVE LinesInv(s)'
  <2>1. (LinesInv(u) => LinesInv(u)') /\ \A v \in Streams \ {u} : StreamIs(v)
    BY <1>1, <1>10, StreamRead
  <2> QED
    BY <1>2, <2>1
<1>11. ASSUME NEW u \in Streams, Deliver(u) PROVE LinesInv(s)'
  <2>1. (LinesInv(u) => LinesInv(u)') /\ \A v \in Streams \ {u} : StreamIs(v)
    BY <1>1, <1>11, StreamDelivered
  <2> QED
    BY <1>2, <2>1
<1> QED
  BY <1>2, <1>3, <1>4, <1>5, <1>7, <1>8, <1>9, <1>10, <1>11
     DEF Next, ParentStep, WorkerStep, ReaderStep, Streams

LEMMA OwnParts ==
    ASSUME NEW t, NEW n
    PROVE  /\ OwnPiece(t, n).kind = "own" /\ OwnPiece(t, n).test = t /\ OwnPiece(t, n).n = n
           /\ OwnLine(t, n) = <<OwnPiece(t, n)>> /\ ToSet(OwnLine(t, n)) = {OwnPiece(t, n)}
<1>1. OwnLine(t, n) = <<OwnPiece(t, n)>>
  BY DEF OwnPiece, OwnLine
<1> QED
  BY <1>1, SetOfOne DEF OwnPiece, Piece

LEMMA SameLine ==
    ASSUME NEW t, NEW m, NEW n, OwnLine(t, m) = OwnLine(t, n)
    PROVE  m = n
<1>1. OwnLine(t, m)[1] = OwnPiece(t, m) /\ OwnLine(t, n)[1] = OwnPiece(t, n)
  BY OwnParts
<1> QED
  BY <1>1, OwnParts

(* An own line in the result is one the body printed.                      *)
LEMMA OwnLineIn ==
    ASSUME TypeInv, NEW s \in Streams, NEW t \in Captured, NothingElse(t, s),
           NEW i \in DOMAIN captured[t][s], NEW m, captured[t][s][i] = OwnLine(t, m)
    PROVE  m \in 1..printed[t][s]
<1>1. OwnPiece(t, m) \in ToSet(captured[t][s][i]) /\ OwnPiece(t, m).kind = "own" /\ OwnPiece(t, m).test = t
  BY OwnParts
<1>2. t \notin Unclaimed(t)
  <2>1. t \in Nat /\ t \notin 0..(t - 1)
    BY CapturedOutputAssumption DEF Tests
  <2> QED
    BY <2>1 DEF Unclaimed
<1>3. PICK n \in 1..printed[t][s] : captured[t][s][i] = OwnLine(t, n)
  BY <1>1, <1>2 DEF NothingElse
<1> QED
  BY <1>3, SameLine

(* A step that adds nothing to the result and takes nothing of the test.   *)
LEMMA ResultKept ==
    ASSUME NEW s \in Streams, NEW t \in Captured, ResultInv(t, s),
           captured'[t][s] = captured[t][s], printed'[t][s] = printed[t][s],
           \A n \in 1..printed[t][s] :
              OwnPiece(t, n) \in InFlight(s) => OwnPiece(t, n) \in InFlight(s)' \/ (aborted' /\ t >= cur'),
           \A p \in InFlight(s)' : p.kind = "own" /\ p.test = t => p \in InFlight(s),
           aborted /\ t >= cur => aborted' /\ t >= cur'
    PROVE  ResultInv(t, s)'
<1>1. AllThere(t, s) /\ OncesInOrder(t, s) /\ NothingElse(t, s) /\ AheadOfFlight(t, s)
  BY DEF ResultInv
<1>2. \A n : OwnLine(t, n)' = OwnLine(t, n) /\ OwnPiece(t, n)' = OwnPiece(t, n)
  OBVIOUS
<1>3. AllThere(t, s)'
  BY <1>1 DEF AllThere
<1>4. OncesInOrder(t, s)'
  BY <1>1 DEF OncesInOrder
<1>5. NothingElse(t, s)'
  BY <1>1 DEF NothingElse
<1>6. AheadOfFlight(t, s)'
  BY <1>1 DEF AheadOfFlight
<1> QED
  BY <1>3, <1>4, <1>5, <1>6 DEF ResultInv

(* The test prints one more line.                                          *)
LEMMA ResultPrinted ==
    ASSUME StreamsInv, EndsLines, NEW s \in Streams, NEW t \in Captured, ResultInv(t, s),
           t = wtest, PrintOwn(s)
    PROVE  ResultInv(t, s)'
<1>1. TypeInv /\ ThreadsInv
  BY DEF StreamsInv
<1>2. PICK n0 : n0 = printed[wtest][s] + 1
  OBVIOUS
<1>3. /\ n0 \in Nat /\ printed'[t][s] = n0 /\ printed[t][s] \in Nat /\ n0 = printed[t][s] + 1
      /\ UNCHANGED <<pc, cur, captured, aborted, enabled, reader, lines, shown, wpc, wtest, late>>
  <2>1. printed[wtest][s] \in Nat
    BY <1>1, PrintsPiece DEF TypeInv
  <2> QED
    BY <1>1, <1>2, <2>1, PrintsPiece
<1>4. OwnPiece(t, n0) \in AllPieces /\ Write(s, OwnPiece(t, n0))
  <2>1. PICK end \in {TRUE, EndsLines} :
           Piece("own", wtest, n0, end) \in AllPieces /\ Write(s, Piece("own", wtest, n0, end))
    BY <1>1, <1>2, PrintsPiece
  <2>2. end = TRUE
    BY CapturedOutputAssumption
  <2> QED
    BY <2>1, <2>2 DEF OwnPiece
<1>5. PICK x \in AllPieces : x = OwnPiece(t, n0)
  BY <1>4
<1>6. InFlight(s)' = InFlight(s) \cup {x} /\ x.n = n0
  BY <1>1, <1>3, <1>4, <1>5, StreamWritten, OwnParts
<1>7. AllThere(t, s) /\ OncesInOrder(t, s) /\ NothingElse(t, s) /\ AheadOfFlight(t, s)
  BY DEF ResultInv
<1>8. \A k \in 1..n0 : k = n0 \/ k \in 1..printed[t][s]
  BY <1>3
<1>9. \A i \in DOMAIN captured[t][s], m \in 1..n0 : captured[t][s][i] = OwnLine(t, m) => m \in 1..printed[t][s]
  BY <1>1, <1>7, OwnLineIn
<1>10. \A k \in 1..printed[t][s] : k \in 1..n0 /\ k < n0
  BY <1>3
<1>11. AllThere(t, s)'
  BY <1>3, <1>5, <1>6, <1>7, <1>8 DEF AllThere
<1>12. OncesInOrder(t, s)'
  BY <1>3, <1>7, <1>9 DEF OncesInOrder
<1>13. NothingElse(t, s)'
  BY <1>3, <1>7, <1>10 DEF NothingElse
<1>14. AheadOfFlight(t, s)'
  BY <1>3, <1>6, <1>7, <1>9, <1>10 DEF AheadOfFlight
<1> QED
  BY <1>11, <1>12, <1>13, <1>14
     DEF ResultInv

(* What the first line of a queue can be, when it is not the marker.       *)
LEMMA TakenLine ==
    ASSUME StreamsInv, NEW s \in Streams, LinesInv(s), pc = s,
           lines[s] # <<>>, Head(lines[s]) # <<Marker(cur)>>
    PROVE  \E x \in InFlight(s) :
              /\ Head(lines[s]) = <<x>>
              /\ \/ x.kind = "late"
                 \/ x.test \in Unclaimed(cur)
                 \/ \E n \in 1..printed[cur][s] : x = OwnPiece(cur, n)
<1>1. TypeInv /\ ThreadsInv /\ FlightInv(s)
  BY DEF StreamsInv
<1> DEFINE l == Head(lines[s])
<1>2. l \in Seq(AllPieces) /\ Len(l) = 1
  <2>1. lines[s] \in Seq(Seq(AllPieces))
    BY <1>1 DEF TypeInv
  <2>2. 1 \in DOMAIN lines[s] /\ l = lines[s][1] /\ l \in Seq(AllPieces)
    BY <2>1, HeadAndTail
  <2> QED
    BY <2>2 DEF LinesInv
<1>3. PICK x : x \in AllPieces /\ l = <<x>>
  <2>1. l[1] \in AllPieces /\ l = <<l[1]>>
    BY <1>2
  <2> QED
    BY <2>1
<1>4. x \in InFlight(s)
  <2>1. lines[s] \in Seq(Seq(AllPieces))
    BY <1>1 DEF TypeInv
  <2>2. 1 \in DOMAIN lines[s] /\ l = lines[s][1]
    BY <2>1, HeadAndTail
  <2>3. x \in ToSet(lines[s][1])
    BY <1>3, <2>2, SetOfOne
  <2> QED
    BY <2>2, <2>3 DEF InFlight, InLines
<1>5. ASSUME x.kind # "late", x.test # cur PROVE x.test \in Unclaimed(cur)
  <2>1. x.test \in Nat /\ x.test <= wtest /\ wtest = cur /\ cur \in Nat
    BY <1>1, <1>4, <1>5, FlightTests DEF ThreadsInv, Streams, TypeInv
  <2>2. \A v \in Captured : v < cur => v < x.test
    BY <1>1, <1>4, <1>5 DEF FlightInv, IsDrained
  <2>3. x.test \in 0..(cur - 1)
    BY <1>5, <2>1
  <2> QED
    BY <2>2, <2>3 DEF Unclaimed
<1>6. ASSUME x.kind # "late", x.test = cur PROVE \E n \in 1..printed[cur][s] : x = OwnPiece(cur, n)
  <2>1. WasPrinted(x, s)
    BY <1>1, <1>4, <1>6 DEF FlightInv
  <2>2. x # Marker(x.test)
    BY <1>3, <1>6
  <2>3. cur \in Tests
    BY <1>1, CapturedOutputAssumption DEF ThreadsInv
  <2>4. x.kind = "own" /\ x.n \in 1..printed[cur][s]
    BY <1>6, <2>1, <2>2, <2>3 DEF WasPrinted
  <2>5. x.end = TRUE
    <3>1. x.end
      BY <1>4 DEF LinesInv
    <3>2. x.end \in BOOLEAN
      BY <1>3 DEF AllPieces
    <3> QED
      BY <3>1, <3>2
  <2>6. x = [kind |-> x.kind, test |-> x.test, n |-> x.n, end |-> x.end]
    BY <1>3 DEF AllPieces
  <2>7. x = OwnPiece(cur, x.n)
    BY <1>6, <2>4, <2>5, <2>6 DEF OwnPiece, Piece
  <2> QED
    BY <2>4, <2>7
<1> QED
  BY <1>3, <1>4, <1>5, <1>6

(* The parent takes a line for the result it collects.                     *)
LEMMA ResultTaken ==
    ASSUME StreamsInv, NEW s \in Streams, LinesInv(s), pc = s, DrainUntil,
           NEW t \in Captured, t = cur, ResultInv(t, s),
           Head(lines[s]) # <<Marker(cur)>>
    PROVE  ResultInv(t, s)'
<1>1. TypeInv /\ ThreadsInv /\ FlightInv(s) /\ OrderInv(s)
  BY DEF StreamsInv
<1> DEFINE c == captured[t][s]
           l == Head(lines[s])
<1>2. /\ lines[s] # <<>> /\ lines' = [lines EXCEPT ![s] = Tail(@)]
      /\ t \in Captured /\ t \in Tests
      /\ UNCHANGED <<aborted, reader, printed, pipe, cur>>
      /\ captured' = [captured EXCEPT ![t][s] = Append(@, l)]
  BY <1>1, DrainSplit
<1>3. PICK x \in InFlight(s) :
         /\ l = <<x>>
         /\ \/ x.kind = "late"
            \/ x.test \in Unclaimed(t)
            \/ \E n \in 1..printed[t][s] : x = OwnPiece(t, n)
  BY <1>2, TakenLine
<1>4. ToSet(l) = {x}
  BY <1>3, SetOfOne
<1>5. /\ InFlight(s) = InFlight(s)' \cup {x}
      /\ \A r \in InFlight(s)' : Precedes(x, r)
      /\ l \in Seq(AllPieces)
  BY <1>1, <1>2, <1>4, StreamTaken
<1>6. c \in Seq(Seq(AllPieces)) /\ captured[t] \in [Streams -> Seq(Seq(AllPieces))]
  BY <1>1, <1>2 DEF TypeInv
<1>7. captured'[t][s] = Append(c, l)
  BY <1>1, <1>2, <1>6 DEF TypeInv
<1>8. PICK d : d = Len(c) + 1
  OBVIOUS
<1>9. /\ DOMAIN captured'[t][s] = DOMAIN c \cup {d}
      /\ \A i \in DOMAIN c : captured'[t][s][i] = c[i] /\ i < d
      /\ captured'[t][s][d] = l
  BY <1>5, <1>6, <1>7, <1>8, SetOfAppend
<1>10. DOMAIN c \subseteq Nat /\ d \in Nat
  BY <1>6, <1>8
<1> HIDE DEF l
<1>11. /\ AllThere(t, s) /\ OncesInOrder(t, s) /\ NothingElse(t, s) /\ AheadOfFlight(t, s)
  BY DEF ResultInv
<1>12. \A n : l = OwnLine(t, n) <=> x = OwnPiece(t, n)
  <2>1. \A n : OwnLine(t, n) = <<OwnPiece(t, n)>>
    BY OwnParts
  <2>2. \A y : <<x>> = <<y>> <=> x = y
    <3>1. <<x>>[1] = x /\ \A y : <<y>>[1] = y
      OBVIOUS
    <3> QED
      BY <3>1
  <2> QED
    BY <1>3, <2>1, <2>2
<1>13. AllThere(t, s)'
  <2>1. ASSUME NEW n \in 1..printed[t][s]
        PROVE  \/ \E i \in DOMAIN captured'[t][s] : captured'[t][s][i] = OwnLine(t, n)
               \/ OwnPiece(t, n) \in InFlight(s)'
               \/ aborted /\ t >= t
    <3>1. CASE \E i \in DOMAIN c : c[i] = OwnLine(t, n)
      BY <1>9, <3>1
    <3>2. CASE OwnPiece(t, n) \in InFlight(s)
      BY <1>5, <1>9, <1>12, <3>2
    <3>3. CASE aborted /\ t >= t
      BY <3>3
    <3> QED
      BY <1>11, <3>1, <3>2, <3>3 DEF AllThere
  <2> QED
    BY <1>2, <2>1 DEF AllThere
<1>14. OncesInOrder(t, s)'
  <2> DEFINE c2 == captured'[t][s]
  <2>1. ASSUME NEW i \in DOMAIN c2, NEW j \in DOMAIN c2,
               NEW m \in 1..printed[t][s], NEW n \in 1..printed[t][s],
               c2[i] = OwnLine(t, m), c2[j] = OwnLine(t, n), i < j
        PROVE  m < n
    <3>1. i \in DOMAIN c
      BY <1>9, <1>10, <2>1
    <3>2. c[i] = OwnLine(t, m)
      BY <1>9, <2>1, <3>1
    <3>3. CASE j \in DOMAIN c
      BY <1>9, <1>11, <2>1, <3>1, <3>2, <3>3 DEF OncesInOrder
    <3>4. CASE j = d
      <4>1. x = OwnPiece(t, n)
        BY <1>9, <1>12, <2>1, <3>4
      <4>2. x.kind = "own" /\ x.test = t /\ x.n = n
        BY <4>1, OwnParts
      <4> QED
        BY <1>11, <2>1, <3>1, <3>2, <4>2 DEF AheadOfFlight
    <3> QED
      BY <1>9, <3>3, <3>4
  <2> QED
    BY <1>2, <2>1 DEF OncesInOrder
<1>15. NothingElse(t, s)'
  <2>1. ASSUME NEW i \in DOMAIN captured'[t][s]
        PROVE  \/ \E n \in 1..printed[t][s] : captured'[t][s][i] = OwnLine(t, n)
               \/ \A p \in ToSet(captured'[t][s][i]) : p.kind = "late" \/ p.test \in Unclaimed(t)
    <3>1. CASE i \in DOMAIN c
      BY <1>9, <1>11, <3>1 DEF NothingElse
    <3>2. CASE i = d
      BY <1>3, <1>4, <1>9, <1>12, <3>2
    <3> QED
      BY <1>9, <3>1, <3>2
  <2> QED
    BY <1>2, <2>1 DEF NothingElse, Unclaimed
<1>16. AheadOfFlight(t, s)'
  <2>1. ASSUME NEW i \in DOMAIN captured'[t][s], NEW n \in 1..printed[t][s], NEW p \in InFlight(s)',
               captured'[t][s][i] = OwnLine(t, n), p.kind = "own", p.test = t
        PROVE  n < p.n
    <3>1. CASE i \in DOMAIN c
      BY <1>5, <1>9, <1>11, <2>1, <3>1 DEF AheadOfFlight
    <3>2. CASE i = d
      <4>1. x = OwnPiece(t, n)
        BY <1>9, <1>12, <2>1, <3>2
      <4>2. x.kind = "own" /\ x.test = t /\ x.n = n
        BY <4>1, OwnParts
      <4>3. Precedes(x, p) /\ t \in Nat
        BY <1>1, <1>5 DEF TypeInv
      <4> QED
        BY <2>1, <4>2, <4>3 DEF Precedes
    <3> QED
      BY <1>9, <3>1, <3>2
  <2> QED
    BY <1>2, <2>1 DEF AheadOfFlight
<1> QED
  BY <1>13, <1>14, <1>15, <1>16
     DEF ResultInv

(* Nothing of a test that was drained is in flight, nor of a later one     *)
(* than the worker is at.                                                  *)
LEMMA InFlightTest ==
    ASSUME StreamsInv, NEW s \in Streams, NEW t \in Captured, NEW n, OwnPiece(t, n) \in InFlight(s)
    PROVE  t >= cur /\ t <= wtest
<1>1. OwnPiece(t, n).kind # "late" /\ OwnPiece(t, n).test = t
  BY OwnParts
<1>2. TypeInv /\ FlightInv(s)
  BY DEF StreamsInv
<1>3. t \in Nat /\ cur \in Nat
  BY <1>2, CapturedOutputAssumption DEF Tests, TypeInv
<1>4. t <= wtest /\ ~(t < cur)
  <2>1. t <= wtest
    BY <1>1, <1>2, FlightTests
  <2>2. t < cur => t < t
    BY <1>1, <1>2 DEF FlightInv, IsDrained
  <2> QED
    BY <1>3, <2>1, <2>2
<1> QED
  BY <1>3, <1>4

LEMMA ResultStep ==
    ASSUME StreamsInv, EndsLines, Next, NEW s \in Streams, LinesInv(s),
           NEW t \in Captured, ResultInv(t, s)
    PROVE  ResultInv(t, s)'
<1> USE DEF parentVars, workerVars
<1>1. TypeInv /\ ThreadsInv /\ FlightInv(s) /\ OrderInv(s)
  BY DEF StreamsInv
<1>2. t \in Nat /\ cur \in Nat /\ wtest \in Nat /\ t \in Tests
  <2>1. Captured \subseteq Tests /\ Tests \subseteq Nat /\ NumTests \in Nat
    BY CapturedOutputAssumption DEF Tests
  <2> QED
    BY <1>1, <2>1 DEF TypeInv
<1>3. CASE StreamIs(s) /\ UNCHANGED <<captured, printed>> /\ (aborted => UNCHANGED <<aborted, cur>>)
  <2>1. InFlight(s)' = InFlight(s)
    BY <1>3, StreamUntouched
  <2> QED
    BY <1>3, <2>1, ResultKept
<1>4. CASE ~aborted /\ (SetCapture \/ SendRunTest \/ ReceiveFinished)
  BY <1>3, <1>4 DEF SetCapture, SendRunTest, ReceiveFinished, StreamIs
<1>5. CASE Crash \/ Ended
  BY <1>3, <1>5 DEF Crash, Ended, vars, StreamIs
<1>6. CASE ~aborted /\ DrainUntil
  <2>1. PICK u \in Streams : pc = u
    BY <1>6 DEF DrainUntil
  <2>2. /\ lines[u] # <<>> /\ lines' = [lines EXCEPT ![u] = Tail(@)] /\ UNCHANGED <<pipe, reader>>
        /\ UNCHANGED <<aborted, printed>> /\ cur \in Tests
    BY <1>1, <1>6, <2>1, DrainSplit
  <2>3. /\ InFlight(u) = InFlight(u)' \cup ToSet(Head(lines[u]))
        /\ \A v \in Streams \ {u} : StreamIs(v)
    BY <1>1, <2>2, StreamTaken
  <2>4. CASE s = u /\ Head(lines[s]) = <<Marker(cur)>>
    <3>1. UNCHANGED captured
      BY <1>1, <1>6, <2>1, <2>4, DrainSplit
    <3>2. InFlight(s) = InFlight(s)' \cup {Marker(cur)}
      BY <2>3, <2>4, SetOfOne
    <3>3. Marker(cur).kind # "own" /\ \A n : OwnPiece(t, n).kind = "own"
      BY DEF Marker, OwnPiece, Piece
    <3>4. \A n \in 1..printed[t][s] : OwnPiece(t, n) \in InFlight(s) => OwnPiece(t, n) \in InFlight(s)'
      BY <3>2, <3>3
    <3> QED
      BY <1>6, <2>2, <3>1, <3>2, <3>4, ResultKept
  <2>5. CASE s = u /\ Head(lines[s]) # <<Marker(cur)>>
    <3>1. CASE t = cur
      BY <1>6, <2>1, <2>5, <3>1, ResultTaken
    <3>2. CASE t # cur
      <4>1. /\ captured' = [captured EXCEPT ![cur][s] = Append(@, Head(lines[s]))]
            /\ UNCHANGED <<pc, cur>>
        BY <1>1, <1>6, <2>1, <2>5, DrainSplit
      <4>2. captured'[t][s] = captured[t][s]
        BY <1>1, <1>2, <3>2, <4>1 DEF TypeInv
      <4>3. \A n : OwnPiece(t, n) \notin InFlight(s)
        <5>1. wtest = cur
          BY <1>1, <2>1 DEF ThreadsInv, Streams
        <5>2. \A n : OwnPiece(t, n) \in InFlight(s) => t >= cur /\ t <= wtest
          BY InFlightTest
        <5>3. ~(t >= cur /\ t <= cur)
          BY <1>2, <3>2
        <5> QED
          BY <5>1, <5>2, <5>3
      <4>4. InFlight(s)' \subseteq InFlight(s)
        BY <2>3, <2>5
      <4> QED
        BY <1>6, <2>2, <4>2, <4>3, <4>4, ResultKept
    <3> QED
      BY <3>1, <3>2
  <2>6. CASE s # u
    <3>1. StreamIs(s)
      BY <2>3, <2>6
    <3>2. InFlight(s)' = InFlight(s)
      BY <3>1, StreamUntouched
    <3>3. captured'[t][s] = captured[t][s]
      <4>1. \/ captured' = captured
            \/ captured' = [captured EXCEPT ![cur][u] = Append(@, Head(lines[u]))]
        BY <1>1, <1>6, <2>1, DrainSplit
      <4>2. captured \in [Tests -> [Streams -> Seq(Seq(AllPieces))]] /\ captured[cur] \in [Streams -> Seq(Seq(AllPieces))]
        BY <1>1, <2>2 DEF TypeInv
      <4> QED
        BY <1>2, <2>2, <2>6, <4>1, <4>2
    <3> QED
      BY <1>6, <2>2, <3>2, <3>3, ResultKept
  <2> QED
    BY <2>4, <2>5, <2>6
<1>7. CASE ~aborted /\ DumpOnFailure
  <2>1. /\ lines' = [u \in Streams |-> <<>>] /\ aborted' = TRUE
        /\ UNCHANGED <<cur, captured, printed, pipe, reader>>
    BY <1>7 DEF DumpOnFailure
  <2>2. InFlight(s)' \subseteq InFlight(s)
    BY <2>1, StreamDumped
  <2>3. \A n : OwnPiece(t, n) \in InFlight(s) => t >= cur
    BY InFlightTest
  <2> QED
    BY <1>7, <2>1, <2>2, <2>3, ResultKept
<1>8. ASSUME NEW u \in Streams, NEW piece \in AllPieces, Write(u, piece), UNCHANGED <<reader, lines>>,
             ~(piece.kind = "own" /\ piece.test = t /\ u = s),
             UNCHANGED <<captured, aborted, cur>>, printed'[t][s] = printed[t][s]
      PROVE  ResultInv(t, s)'
  <2>1. InFlight(u)' = InFlight(u) \cup {piece} /\ \A v \in Streams \ {u} : StreamIs(v)
    BY <1>1, <1>8, StreamWritten
  <2>2. s # u => InFlight(s)' = InFlight(s)
    BY <2>1, StreamUntouched
  <2>3. /\ InFlight(s) \subseteq InFlight(s)'
        /\ \A p \in InFlight(s)' : p.kind = "own" /\ p.test = t => p \in InFlight(s)
    BY <1>8, <2>1, <2>2
  <2> QED
    BY <1>8, <2>3, ResultKept
<1>9. ASSUME NEW u \in Streams, PrintOwn(u) PROVE ResultInv(t, s)'
  <2>1. CASE u = s /\ t = wtest
    BY <1>9, <2>1, ResultPrinted
  <2>2. CASE ~(u = s /\ t = wtest)
    <3>1. PICK end \in {TRUE, EndsLines} :
             /\ Piece("own", wtest, printed[wtest][u] + 1, end) \in AllPieces
             /\ Write(u, Piece("own", wtest, printed[wtest][u] + 1, end))
      BY <1>1, <1>9, PrintsPiece
    <3>2. Piece("own", wtest, printed[wtest][u] + 1, end).test = wtest
      BY DEF Piece
    <3>3. /\ UNCHANGED <<reader, lines, captured, aborted, cur>>
          /\ printed'[t][s] = printed[t][s]
      BY <1>1, <1>2, <1>9, <2>2, PrintsPiece
    <3> QED
      BY <1>8, <2>2, <3>1, <3>2, <3>3
  <2> QED
    BY <2>1, <2>2
<1>10. ASSUME NEW u \in Streams, (u = "out" /\ MarkOut) \/ (u = "err" /\ MarkErr) PROVE ResultInv(t, s)'
  <2>1. /\ Marker(wtest) \in AllPieces /\ Write(u, Marker(wtest))
        /\ UNCHANGED <<reader, lines, captured, aborted, cur, printed>>
    BY <1>1, <1>10, MarksBody
  <2>2. Marker(wtest).kind # "own"
    BY DEF Marker, Piece
  <2> QED
    BY <1>8, <2>1, <2>2
<1>11. ASSUME NEW u \in Streams, PrintLate(u) PROVE ResultInv(t, s)'
  <2>1. /\ Piece("late", wtest, late + 1, TRUE) \in AllPieces
        /\ Write(u, Piece("late", wtest, late + 1, TRUE))
        /\ UNCHANGED <<reader, lines, captured, aborted, cur, printed>>
    BY <1>1, <1>11, PrintsLate
  <2>2. Piece("late", wtest, late + 1, TRUE).kind # "own"
    BY DEF Piece
  <2> QED
    BY <1>8, <2>1, <2>2
<1>12. ASSUME NEW u \in Streams, ReadLine(u) PROVE ResultInv(t, s)'
  <2>1. InFlight(u)' = InFlight(u) /\ \A v \in Streams \ {u} : StreamIs(v)
    BY <1>1, <1>12, StreamRead
  <2>2. InFlight(s)' = InFlight(s)
    BY <2>1, StreamUntouched
  <2>3. UNCHANGED <<captured, printed, aborted, cur>>
    BY <1>12 DEF ReadLine
  <2> QED
    BY <2>2, <2>3, ResultKept
<1>13. ASSUME NEW u \in Streams, Deliver(u) PROVE ResultInv(t, s)'
  <2>1. /\ enabled => InFlight(u)' = InFlight(u)
        /\ InFlight(u)' \subseteq InFlight(u)
        /\ \A v \in Streams \ {u} : StreamIs(v)
    BY <1>1, <1>13, StreamDelivered
  <2>2. s # u => InFlight(s)' = InFlight(s)
    BY <2>1, StreamUntouched
  <2>3. UNCHANGED <<captured, printed, aborted, cur>>
    BY <1>13 DEF Deliver
  <2>4. CASE enabled
    BY <2>1, <2>2, <2>3, <2>4, ResultKept
  <2>5. CASE ~enabled
    <3>1. \A n : OwnPiece(t, n) \notin InFlight(s)
      <4>1. \A n : OwnPiece(t, n).kind # "late" /\ OwnPiece(t, n).test = t
        BY OwnParts
      <4>2. \A p \in InFlight(s) : p.kind # "late" => p.test \notin Captured
        BY <2>5, OffWhileUncaptured
      <4> QED
        BY <4>1, <4>2
    <3>2. InFlight(s)' \subseteq InFlight(s)
      BY <2>1, <2>2
    <3> QED
      BY <2>3, <3>1, <3>2, ResultKept
  <2> QED
    BY <2>4, <2>5
<1> QED
  BY <1>4, <1>5, <1>6, <1>7, <1>9, <1>10, <1>11, <1>12, <1>13
     DEF Next, ParentStep, WorkerStep, ReaderStep, Streams

LEMMA CaptureStart == Init => CaptureInv
<1> SUFFICES ASSUME Init, NEW s \in Streams PROVE LinesInv(s) /\ \A t \in Captured : ResultInv(t, s)
  BY DEF CaptureInv
<1> DEFINE p == Piece("own", 0, 1, TRUE)
<1>1. pipe[s] \in {<<>>, <<p>>} /\ reader[s] = <<>> /\ lines[s] = <<>>
  BY DEF Init
<1>2. DOMAIN lines[s] = {} /\ Len(reader[s]) <= 1 /\ ToSet(reader[s]) = {} /\ InLines(s) = {}
  BY <1>1 DEF ToSet, InLines
<1>3. InFlight(s) \subseteq {p}
  <2>1. ToSet(<<>>) = {}
    BY DEF ToSet
  <2>2. ToSet(<<p>>) = {p}
    BY SetOfOne
  <2> QED
    BY <1>1, <1>2, <2>1, <2>2 DEF InFlight
<1>4. LinesInv(s)
  <2>1. p.end
    BY DEF Piece
  <2> QED
    BY <1>2, <1>3, <2>1 DEF LinesInv
<1>5. ASSUME NEW t \in Captured PROVE ResultInv(t, s)
  <2>1. t \in Tests
    BY CapturedOutputAssumption
  <2>2. DOMAIN captured[t][s] = {} /\ 1..printed[t][s] = {}
    BY <2>1 DEF Init
  <2> QED
    BY <2>2 DEF ResultInv, AllThere, OncesInOrder, NothingElse, AheadOfFlight
<1> QED
  BY <1>4, <1>5

LEMMA CaptureStep == StreamsInv /\ CaptureInv /\ [Next]_vars => CaptureInv'
<1> SUFFICES ASSUME StreamsInv, CaptureInv, [Next]_vars, EndsLines, NEW s \in Streams
             PROVE  LinesInv(s)' /\ \A t \in Captured : ResultInv(t, s)'
  BY DEF CaptureInv
<1>1. LinesInv(s) /\ \A t \in Captured : ResultInv(t, s)
  BY DEF CaptureInv
<1>2. CASE Next
  BY <1>1, <1>2, LinesStep, ResultStep
<1>3. CASE UNCHANGED vars
  <2>1. StreamIs(s) /\ UNCHANGED <<captured, printed, aborted, cur>>
    BY <1>3 DEF vars, StreamIs, parentVars, workerVars
  <2> QED
    BY <1>1, <2>1, StreamUntouched, ResultKept
<1> QED
  BY <1>2, <1>3

(* There are some of them only behind a test without capture.              *)
LEMMA UnclaimedTests ==
    ASSUME NEW t \in Captured, NEW u \in Unclaimed(t)
    PROVE  u \notin Captured /\ t - 1 \notin Captured
<1>1. t \in Nat /\ u \in Nat /\ u <= t - 1
  BY CapturedOutputAssumption DEF Unclaimed, Tests
<1>2. \A v \in Captured : v < t => v < u
  BY DEF Unclaimed
<1>3. u < t /\ ~(u < u) /\ t - 1 < t /\ ~(t - 1 < u)
  BY <1>1
<1> QED
  BY <1>2, <1>3

LEMMA CaptureMeans == EndsLines /\ StreamsInv /\ CaptureInv => OwnOutputOnly
<1> SUFFICES ASSUME EndsLines, StreamsInv, CaptureInv, NEW t \in Captured, NEW s \in Streams
             PROVE  /\ cur > t => \A n \in 1..printed[t][s] :
                                     \E i \in DOMAIN captured[t][s] : captured[t][s][i] = OwnLine(t, n)
                    /\ OncesInOrder(t, s)
                    /\ \A i \in DOMAIN captured[t][s] :
                          (\A n \in 1..printed[t][s] : captured[t][s][i] # OwnLine(t, n)) =>
                             \A p \in ToSet(captured[t][s][i]) :
                                p.kind # "late" => p.test \notin Captured /\ t - 1 \notin Captured
  BY DEF OwnOutputOnly, OncesInOrder
<1>1. AllThere(t, s) /\ OncesInOrder(t, s) /\ NothingElse(t, s)
  BY DEF CaptureInv, ResultInv
<1>2. ASSUME cur > t PROVE ~(t >= cur)
  <2>1. t \in Nat /\ cur \in Nat
    BY CapturedOutputAssumption DEF StreamsInv, TypeInv, Tests
  <2> QED
    BY <1>2, <2>1
<1>3. ASSUME cur > t, NEW n PROVE OwnPiece(t, n) \notin InFlight(s)
  BY <1>2, <1>3, InFlightTest
<1>4. \A u \in Unclaimed(t) : u \notin Captured /\ t - 1 \notin Captured
  BY UnclaimedTests
<1> QED
  BY <1>1, <1>2, <1>3, <1>4 DEF AllThere, NothingElse

(* OwnOutputOnly: the result of a captured test has every line its body     *)
(* printed, once and in order, nothing of another captured test, and, when  *)
(* the test before was captured, beside its own lines only late ones.       *)
THEOREM ResultsAreComplete == EndsLines => (Spec => []OwnOutputOnly)
<1> SUFFICES ASSUME EndsLines PROVE Spec => []OwnOutputOnly
  OBVIOUS
<1>1. Init => StreamsInv /\ CaptureInv
  BY StreamsStart, CaptureStart
<1>2. StreamsInv /\ CaptureInv /\ [Next]_vars => (StreamsInv /\ CaptureInv)'
  BY StreamsStep, CaptureStep
<1>3. StreamsInv /\ CaptureInv => OwnOutputOnly
  BY CaptureMeans
<1> QED
  BY <1>1, <1>2, <1>3, PTL DEF Spec

=============================================================================
