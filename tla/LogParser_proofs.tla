------------------------- MODULE LogParser_proofs -------------------------
(***************************************************************************)
(* Proofs about LogParser and LogPipeline, for any names, indentations and *)
(* number of lines: what popping the stack leaves, the types, that the     *)
(* stack holds exactly the open blocks, that each line reaches the logs it *)
(* belongs to, and that the two goroutines lose none.                      *)
(***************************************************************************)
EXTENDS LogPipeline, OrderLemmas

-----------------------------------------------------------------------------

Markers == [test : Tests, indent : Indents]

LEMMA IndentsAreNat == Indents \subseteq Nat
BY LogParserAssumption

\* What removeDedentedTestResultMarkers leaves: the stack up to the topmost
\* marker that is indented less than the line.
LEMMA RemoveDedentedKeeps ==
  ASSUME NEW s \in Seq(Markers), NEW d \in Indents
  PROVE  \E k \in 0 .. Len(s) :
           /\ RemoveDedented(s, d) = SubSeq(s, 1, k)
           /\ k > 0 => s[k].indent < d
           /\ \A j \in k + 1 .. Len(s) : s[j].indent >= d
<1> DEFINE P(k) == /\ k > 0 => s[k].indent < d
                   /\ \A j \in k + 1 .. Len(s) : s[j].indent >= d
           T == {n \in 0 .. Len(s) : \A j \in n + 1 .. Len(s) : s[j].indent >= d}
<1>1. T \in SUBSET Nat /\ Len(s) \in T
  OBVIOUS
<1>2. PICK k \in T : \A y \in T : k <= y
  BY <1>1, LeastNatural
<1>3. P(k)
  <2>1. ASSUME k > 0, ~(s[k].indent < d) PROVE FALSE
    <3>0. k \in 1 .. Len(s)
      BY <1>2, <2>1
    <3>1. s[k].indent \in Nat /\ d \in Nat
      <4>1. s[k] \in Markers
        BY <3>0
      <4> QED BY <4>1, IndentsAreNat DEF Markers
    <3>2. s[k].indent >= d
      BY <2>1, <3>1
    <3>3. \A j \in k .. Len(s) : s[j].indent >= d
      BY <1>2, <3>2
    <3>4. k - 1 \in 0 .. Len(s) /\ (k - 1) + 1 = k
      BY <1>2, <2>1
    <3>5. k - 1 \in T
      BY <3>3, <3>4
    <3> QED BY <1>2, <3>4, <3>5
  <2> QED BY <1>2, <2>1
<1>4. k \in 0 .. Len(s)
  BY <1>2
<1>5. PICK c \in 0 .. Len(s) : c = (CHOOSE x \in 0 .. Len(s) : P(x)) /\ P(c)
  BY <1>3, <1>4
<1>6. RemoveDedented(s, d) = SubSeq(s, 1, c)
  BY <1>5 DEF RemoveDedented
<1> QED BY <1>5, <1>6

-----------------------------------------------------------------------------

LEMMA TargetsType ==
  ASSUME prev \in Names \union {None}, NEW l \in Lines, NEW s \in Seq(Markers)
  PROVE  Targets(l, s) \in Seq(Names)
<1>1. l.kind \in {"status", "output", "result"} => l.test \in Names
  BY LogParserAssumption DEF Lines, Named, Unnamed, Names
<1>2. l.kind \in {"summary", "output", "panic", "status", "result", "text"}
  BY DEF Lines, Named, Unnamed, Anchored
<1>3. [i \in DOMAIN s |-> s[i].test] \in Seq(Names)
  <2>1. \A i \in 1 .. Len(s) : s[i].test \in Names
    <3>1. \A i \in 1 .. Len(s) : s[i] \in Markers
      OBVIOUS
    <3> QED BY <3>1 DEF Markers, Names
  <2> QED BY <2>1
<1>4. Summary \in Names /\ (prev # None => prev \in Names)
  BY DEF Names
<1>5. FirstTargets(l, s) \in Seq(Names)
  <2>1. CASE l.kind \in {"summary", "panic"}
    BY <2>1, <1>4 DEF FirstTargets, InBlock
  <2>2. CASE l.kind \in {"status", "output"}
    BY <2>2, <1>1 DEF FirstTargets, InBlock
  <2>3. CASE InBlock(l)
    BY <2>3, <1>3 DEF FirstTargets, InBlock
  <2>4. CASE l.kind \in {"result", "text"} /\ ~InBlock(l)
    BY <2>4, <1>4 DEF FirstTargets
  <2> QED BY <1>2, <2>1, <2>2, <2>3, <2>4
<1>6. (IF l.kind = "result" THEN <<l.test, Summary>> ELSE <<>>) \in Seq(Names)
  BY <1>1, <1>4
<1> QED BY <1>5, <1>6 DEF Targets

LEMMA WriteLogsType ==
  ASSUME NEW m \in Nat, files \in [Names -> Seq(0 .. m)], lookup \subseteq Names,
         failed \subseteq Names \X (1 .. m),
         NEW targets \in Seq(Names), WriteLogs(targets, m + 1)
  PROVE  /\ files' \in [Names -> Seq(0 .. m + 1)] /\ lookup' \subseteq Names
         /\ failed' \subseteq Names \X (1 .. m + 1)
<1> DEFINE open == {targets[i] : i \in DOMAIN targets} \ Unwritable
           held(n) == IF n \in lookup THEN files[n] ELSE <<>>
<1>0. PICK done \in SUBSET DOMAIN targets :
        /\ files' = [n \in Names |-> IF n \in open
                                    THEN held(n) \o [i \in 1 .. Cardinality({i \in done : targets[i] = n}) |-> m + 1]
                                    ELSE files[n]]
        /\ lookup' = lookup \union open
        /\ failed' = failed \union {<<targets[i], m + 1>> : i \in DOMAIN targets \ done}
  BY DEF WriteLogs
<1> DEFINE at(n) == {i \in done : targets[i] = n}
           pieces(n) == [i \in 1 .. Cardinality(at(n)) |-> m + 1]
<1>t. \A i \in DOMAIN targets : targets[i] \in Names
  OBVIOUS
<1>1. lookup' \subseteq Names
  BY <1>0, <1>t
<1>f. failed' \subseteq Names \X (1 .. m + 1)
  <2>1. m + 1 \in 1 .. m + 1 /\ 1 .. m \subseteq 1 .. m + 1
    OBVIOUS
  <2>2. failed \subseteq Names \X (1 .. m + 1)
    BY <2>1
  <2>3. \A i \in DOMAIN targets \ done : <<targets[i], m + 1>> \in Names \X (1 .. m + 1)
    BY <1>t, <2>1
  <2> QED BY <1>0, <2>2, <2>3
<1>2. ASSUME NEW n \in Names PROVE Cardinality(at(n)) \in Nat
  <2>1. IsFiniteSet(1 .. Len(targets))
    BY FS_Interval
  <2>2. at(n) \subseteq 1 .. Len(targets)
    OBVIOUS
  <2>3. IsFiniteSet(at(n))
    BY <2>1, <2>2, FS_Subset
  <2> QED BY <2>3, FS_CardinalityType
<1>3. ASSUME NEW n \in Names PROVE held(n) \o pieces(n) \in Seq(0 .. m + 1)
  <2>0. Cardinality(at(n)) \in Nat
    BY <1>2
  <2> HIDE DEF at
  <2>1. pieces(n) \in Seq(0 .. m + 1)
    BY <2>0
  <2>2. files[n] \in Seq(0 .. m)
    OBVIOUS
  <2>3. files[n] \in Seq(0 .. m + 1)
    BY <2>2
  <2>4. held(n) \in Seq(0 .. m + 1)
    <3>1. <<>> \in Seq(0 .. m + 1)
      OBVIOUS
    <3> QED BY <2>3, <3>1, Zenon
  <2> HIDE DEF held, pieces
  <2> QED BY <2>1, <2>4
<1>4. ASSUME NEW n \in Names PROVE files[n] \in Seq(0 .. m + 1)
  <2>1. files[n] \in Seq(0 .. m)
    OBVIOUS
  <2> QED BY <2>1
<1>5. files' = [n \in Names |-> IF n \in open THEN held(n) \o pieces(n) ELSE files[n]]
  BY <1>0
<1> HIDE DEF at, held, pieces, open
<1>6. files' \in [Names -> Seq(0 .. m + 1)]
  BY <1>3, <1>4, <1>5
<1> QED BY <1>1, <1>f, <1>6

-----------------------------------------------------------------------------

LEMMA InitTypeOK == Init => TypeOK
<1> SUFFICES ASSUME Init PROVE TypeOK
  OBVIOUS
<1>1. files \in [Names -> Seq(0 .. Len(stream))]
  <2>1. <<>> \in Seq(0 .. 0) /\ <<0>> \in Seq(0 .. 0)
    OBVIOUS
  <2>2. Len(stream) = 0
    BY DEF Init
  <2> QED BY <2>1, <2>2 DEF Init
<1> QED BY <1>1, LogParserAssumption DEF Init, TypeOK

\* Two markers have one indentation only if they are one.
Distinct(s) == \A i, j \in DOMAIN s : s[i].indent = s[j].indent => i = j

\* The indentations of a stack grow from the bottom to the top.
Nested(s) == \A i, j \in DOMAIN s : i < j => s[i].indent < s[j].indent

\* What one line does to an ordered stack: it keeps the markers that are
\* indented less, in their order, and those only.
LEMMA RemoveDedentedNested ==
  ASSUME NEW s \in Seq(Markers), Nested(s), NEW d \in Indents
  PROVE  LET r == RemoveDedented(s, d)
         IN  /\ r \in Seq(Markers)
             /\ Nested(r)
             /\ \A i \in DOMAIN r : r[i].indent < d
             /\ {r[i] : i \in DOMAIN r} = {m \in {s[i] : i \in DOMAIN s} : m.indent < d}
<1> DEFINE r == RemoveDedented(s, d)
           Cut(k) == /\ r = SubSeq(s, 1, k)
                     /\ k > 0 => s[k].indent < d
                     /\ \A j \in k + 1 .. Len(s) : s[j].indent >= d
<1>0. \E k \in 0 .. Len(s) : Cut(k)
  BY RemoveDedentedKeeps
<1> HIDE DEF r
<1>1. PICK k \in 0 .. Len(s) : Cut(k)
  BY <1>0
<1>2. d \in Nat /\ \A i \in 1 .. Len(s) : s[i] \in Markers /\ s[i].indent \in Nat
  <2>1. \A i \in 1 .. Len(s) : s[i] \in Markers
    OBVIOUS
  <2> QED BY <2>1, IndentsAreNat DEF Markers
<1>3. /\ r \in Seq(Markers) /\ Len(r) = k
      /\ \A i \in 1 .. k : r[i] = s[i]
  BY <1>1
<1>4. ASSUME NEW i \in 1 .. k PROVE s[i].indent < d
  <2>1. s[k].indent \in Nat /\ s[i].indent \in Nat /\ s[k].indent < d
    BY <1>1, <1>2
  <2>2. i < k => s[i].indent < s[k].indent
    BY DEF Nested
  <2> QED BY <1>2, <2>1, <2>2
<1>5. \A i \in DOMAIN s : s[i].indent < d => i \in 1 .. k
  <2>1. ASSUME NEW i \in 1 .. Len(s), s[i].indent < d, i > k PROVE FALSE
    <3>1. i \in k + 1 .. Len(s)
      BY <2>1
    <3>2. s[i].indent >= d
      BY <1>1, <3>1
    <3>3. s[i].indent \in Nat
      BY <1>2
    <3> QED BY <1>2, <2>1, <3>2, <3>3
  <2> QED BY <2>1
<1>6. DOMAIN r = 1 .. k /\ 1 .. k \subseteq DOMAIN s
  BY <1>3
<1>7. Nested(r)
  BY <1>3, <1>6 DEF Nested
<1>8. \A i \in DOMAIN r : r[i].indent < d
  BY <1>3, <1>4, <1>6
<1>9. {r[i] : i \in DOMAIN r} = {m \in {s[i] : i \in DOMAIN s} : m.indent < d}
  BY <1>3, <1>4, <1>5, <1>6
<1> QED BY <1>3, <1>7, <1>8, <1>9 DEF r

IInv == TypeOK /\ MarkersAreOpenBlocks

\* The blocks a new line leaves open are those indented less than it, and its
\* own if it is a result.
LEMMA OpenAfterLine ==
  ASSUME stream \in Seq(Lines), NEW l \in Lines, stream' = Append(stream, l)
  PROVE  OpenResults(Len(stream))' =
           {i \in OpenResults(Len(stream)) : stream[i].indent < l.indent}
             \union (IF l.kind = "result" THEN {Len(stream) + 1} ELSE {})
<1> DEFINE n == Len(stream)
<1>1. /\ n \in Nat /\ Len(stream') = n + 1
      /\ \A i \in 1 .. n : stream'[i] = stream[i]
      /\ stream'[n + 1] = l
  OBVIOUS
<1>2. l.indent \in Nat /\ \A i \in 1 .. n : stream[i].indent \in Nat
  <2>1. \A x \in Lines : x.indent \in Nat
    BY IndentsAreNat DEF Lines, Named, Unnamed
  <2>2. \A i \in 1 .. n : stream[i] \in Lines
    OBVIOUS
  <2> QED BY <2>1, <2>2
<1> HIDE DEF n
<1>3. OpenResults(Len(stream))' =
        {i \in 1 .. n + 1 : /\ stream'[i].kind = "result"
                            /\ \A j \in i + 1 .. n + 1 : stream'[j].indent > stream'[i].indent}
  BY <1>1 DEF OpenResults
<1>4. OpenResults(Len(stream)) =
        {i \in 1 .. n : /\ stream[i].kind = "result"
                        /\ \A j \in i + 1 .. n : stream[j].indent > stream[i].indent}
  BY DEF OpenResults, n
<1>5. ASSUME NEW i \in 1 .. n
      PROVE  (\A j \in i + 1 .. n + 1 : stream'[j].indent > stream'[i].indent)
               <=> /\ \A j \in i + 1 .. n : stream[j].indent > stream[i].indent
                   /\ stream[i].indent < l.indent
  <2>1. i + 1 .. n + 1 = (i + 1 .. n) \union {n + 1}
    BY <1>1
  <2>2. \A j \in i + 1 .. n : stream'[j] = stream[j]
    BY <1>1
  <2>3. l.indent > stream[i].indent <=> stream[i].indent < l.indent
    BY <1>2
  <2> QED BY <1>1, <2>1, <2>2, <2>3
<1>6. 1 .. n + 1 = (1 .. n) \union {n + 1} /\ n + 1 \notin 1 .. n
  BY <1>1
<1>7. (n + 1) + 1 .. n + 1 = {}
  BY <1>1
<1>8. ASSUME NEW i
      PROVE  i \in OpenResults(Len(stream))' <=>
               \/ i \in OpenResults(Len(stream)) /\ stream[i].indent < l.indent
               \/ i = n + 1 /\ l.kind = "result"
  <2>1. CASE i \in 1 .. n
    BY <2>1, <1>1, <1>3, <1>4, <1>5, <1>6
  <2>2. CASE i = n + 1
    BY <2>2, <1>1, <1>3, <1>4, <1>6, <1>7
  <2>3. CASE i \notin 1 .. n + 1
    BY <2>3, <1>3, <1>4, <1>6
  <2> QED BY <1>6, <2>1, <2>2, <2>3
<1> QED BY <1>8 DEF n

LEMMA ReadLineIInv ==
  ASSUME IInv, NEW l \in Lines, ReadLine(l)
  PROVE  IInv'
<1> DEFINE s == RemoveDedented(markers, l.indent)
           n == Len(stream)
           top == [test |-> l.test, indent |-> l.indent]
<1>1. /\ l.indent \in Indents /\ l.indent \in Nat
      /\ l.kind = "result" => top \in Markers
      /\ l.kind = "output" => l.test \in Names
  BY IndentsAreNat DEF Lines, Named, Unnamed, Names, Markers
<1>2. /\ markers \in Seq(Markers) /\ Nested(markers)
      /\ stream \in Seq(Lines) /\ n \in Nat
  BY DEF IInv, TypeOK, MarkersAreOpenBlocks, Nested, Markers
<1>3. /\ s \in Seq(Markers)
      /\ Nested(s)
      /\ \A i \in DOMAIN s : s[i].indent < l.indent
      /\ {s[i] : i \in DOMAIN s} = {m \in {markers[i] : i \in DOMAIN markers} : m.indent < l.indent}
  BY <1>1, <1>2, RemoveDedentedNested
<1>4. /\ stream' = Append(stream, l)
      /\ WriteLogs(Targets(l, s), n + 1)
      /\ markers' = IF l.kind = "result" THEN Append(s, top) ELSE s
      /\ n < MaxLines
      /\ pc' = pc
  BY DEF ReadLine, Push
<1> HIDE DEF s
<1>5. markers' \in Seq(Markers) /\ Nested(markers')
  <2>1. CASE l.kind # "result"
    BY <1>3, <1>4, <2>1
  <2>2. CASE l.kind = "result"
    <3>1. /\ markers' \in Seq(Markers) /\ Len(markers') = Len(s) + 1
          /\ \A i \in 1 .. Len(s) : markers'[i] = s[i]
          /\ markers'[Len(s) + 1] = top
      <4>1. top \in Markers
        BY <1>1, <2>2
      <4> HIDE DEF top
      <4> QED BY <1>3, <1>4, <2>2, <4>1
    <3>2. top.indent = l.indent
      OBVIOUS
    <3> HIDE DEF top
    <3>3. ASSUME NEW i \in 1 .. Len(s) + 1, NEW j \in 1 .. Len(s) + 1, i < j
          PROVE  markers'[i].indent < markers'[j].indent
      <4>1. CASE j \in 1 .. Len(s)
        BY <1>3, <3>1, <3>3, <4>1 DEF Nested
      <4>2. CASE j = Len(s) + 1
        BY <1>3, <3>1, <3>2, <3>3, <4>2
      <4> QED BY <1>3, <4>1, <4>2
    <3> QED BY <1>3, <3>1, <3>3 DEF Nested
  <2> QED BY <2>1, <2>2
<1>6. {markers'[i] : i \in DOMAIN markers'} =
        {s[i] : i \in DOMAIN s} \union (IF l.kind = "result" THEN {top} ELSE {})
  <2> HIDE DEF top
  <2>1. CASE l.kind = "result"
    <3>1. markers' = Append(s, top) /\ s \in Seq(Markers)
      BY <1>3, <1>4, <2>1
    <3>2. DOMAIN markers' = (DOMAIN s) \union {Len(s) + 1}
      BY <3>1
    <3>3. (\A i \in DOMAIN s : markers'[i] = s[i]) /\ markers'[Len(s) + 1] = top
      BY <3>1
    <3> QED BY <2>1, <3>2, <3>3
  <2>2. CASE l.kind # "result"
    BY <1>4, <2>2
  <2> QED BY <2>1, <2>2
<1> DEFINE mark(x) == [test |-> x.test, indent |-> x.indent]
<1>7. {markers[i] : i \in DOMAIN markers} = {mark(stream[i]) : i \in OpenResults(n)}
  BY DEF IInv, MarkersAreOpenBlocks
<1>8. OpenResults(Len(stream))' =
        {i \in OpenResults(n) : stream[i].indent < l.indent}
          \union (IF l.kind = "result" THEN {n + 1} ELSE {})
  BY <1>2, <1>4, OpenAfterLine
<1>9. /\ \A i \in OpenResults(n) : stream'[i] = stream[i]
      /\ stream'[n + 1] = l
      /\ Len(stream') = n + 1
  BY <1>2, <1>4 DEF OpenResults
<1>10. {mark(stream'[i]) : i \in OpenResults(Len(stream))'} =
         {s[i] : i \in DOMAIN s} \union (IF l.kind = "result" THEN {top} ELSE {})
  <2>1. {mark(stream'[i]) : i \in {j \in OpenResults(n) : stream[j].indent < l.indent}}
          = {s[i] : i \in DOMAIN s}
    <3>1. {m \in {mark(stream[i]) : i \in OpenResults(n)} : m.indent < l.indent}
            = {mark(stream[i]) : i \in {j \in OpenResults(n) : stream[j].indent < l.indent}}
      OBVIOUS
    <3>2. \A i \in OpenResults(n) : mark(stream'[i]) = mark(stream[i])
      BY <1>9
    <3>3. {m \in {mark(stream[i]) : i \in OpenResults(n)} : m.indent < l.indent}
            = {s[i] : i \in DOMAIN s}
      BY <1>3, <1>7
    <3> HIDE DEF mark
    <3>4. {mark(stream'[i]) : i \in {j \in OpenResults(n) : stream[j].indent < l.indent}}
            = {mark(stream[i]) : i \in {j \in OpenResults(n) : stream[j].indent < l.indent}}
      BY <3>2
    <3> QED BY <3>1, <3>3, <3>4
  <2>2. mark(stream'[n + 1]) = top
    BY <1>9
  <2> HIDE DEF mark, top
  <2> QED BY <1>8, <2>1, <2>2
<1>11. MarkersAreOpenBlocks'
  BY <1>5, <1>6, <1>10 DEF MarkersAreOpenBlocks, Nested
<1>12. Targets(l, s) \in Seq(Names)
  BY <1>3, TargetsType DEF IInv, TypeOK
<1>13. /\ files' \in [Names -> Seq(0 .. n + 1)] /\ lookup' \subseteq Names
       /\ failed' \subseteq Names \X (1 .. n + 1)
  <2>1. /\ files \in [Names -> Seq(0 .. n)] /\ lookup \subseteq Names
        /\ failed \subseteq Names \X (1 .. n)
    BY DEF IInv, TypeOK
  <2> HIDE DEF n
  <2> QED BY <1>2, <1>4, <1>12, <2>1, WriteLogsType
<1>14. stream' \in Seq(Lines) /\ Len(stream') <= MaxLines
  BY <1>2, <1>4, <1>9, LogParserAssumption
<1>15. prev' \in Names \union {None}
  BY <1>1 DEF ReadLine, IInv, TypeOK, Names
<1>16. warned' \subseteq 1 .. n + 1
  BY <1>2 DEF ReadLine, IInv, TypeOK
<1>17. \A i, j \in DOMAIN markers' : markers'[i].indent = markers'[j].indent => i = j
  <2>1. ASSUME NEW i \in 1 .. Len(markers'), NEW j \in 1 .. Len(markers'), i # j
        PROVE  markers'[i].indent # markers'[j].indent
    <3>1. markers'[i] \in Markers /\ markers'[j] \in Markers
      BY <1>5
    <3>2. markers'[i].indent \in Nat /\ markers'[j].indent \in Nat
      BY <3>1, IndentsAreNat DEF Markers
    <3>3. i < j \/ j < i
      BY <2>1
    <3> QED BY <1>5, <3>2, <3>3 DEF Nested
  <2> QED BY <1>5, <2>1
<1>18. pc' \in {"reading", "closed", "exited"}
  BY <1>4 DEF IInv, TypeOK
<1>19. TypeOK'
  BY <1>5, <1>9, <1>13, <1>14, <1>15, <1>16, <1>17, <1>18 DEF TypeOK, Markers
<1> QED BY <1>11, <1>19 DEF IInv

-----------------------------------------------------------------------------
(* Where the lines go. *)

\* The lines before line i that name a test or begin a panic, and the last of
\* some lines.
NamedBefore(i) == {j \in 1 .. i - 1 : stream[j].kind \in {"output", "panic"}}
LastOf(S) == CHOOSE j \in S : \A k \in S : k <= j

LEMMA LastOfIsLast ==
  ASSUME NEW n \in Nat, NEW S \in SUBSET (1 .. n), S # {}
  PROVE  LastOf(S) \in S /\ \A k \in S : k <= LastOf(S)
<1>1. S \in SUBSET Nat /\ IsFiniteSet(S)
  <2>1. IsFiniteSet(1 .. n)
    BY FS_Interval
  <2>2. IsFiniteSet(S)
    BY <2>1, FS_Subset
  <2> QED BY <2>2
<1>2. \E j \in S : \A k \in S : k <= j
  BY <1>1, GreatestNatural
<1> QED BY <1>2 DEF LastOf

LEMMA CurrentByName ==
  ASSUME NEW i
  PROVE  /\ NamedBefore(i) = {} => Current(i) = None
         /\ NamedBefore(i) # {} =>
              /\ stream[LastOf(NamedBefore(i))].kind = "panic" => Current(i) = Summary
              /\ stream[LastOf(NamedBefore(i))].kind = "output" =>
                   Current(i) = stream[LastOf(NamedBefore(i))].test
BY DEF Current, NamedBefore, LastOf

\* Test n is the test of a block that line pos is in; it is on a stack.
Encloses(n, pos) == \E j \in OpenResults(pos) \ {pos} : stream[j].test = n
OnStack(n, s) == \E i \in DOMAIN s : s[i].test = n

\* Where the loop sends line i: the log it belongs to, orphans left out.
Goes(i, n) ==
  \/ ByName(i, n)
  \/ /\ stream[i].kind \in {"result", "text"}
     /\ IF stream[i].indent > 0 /\ Current(i) # Summary THEN Encloses(n, i) ELSE Current(i) = n

LEMMA GoesToOwners ==
  ASSUME TypeOK, NEW i \in 1 .. Len(stream), NEW n \in Names
  PROVE  Belongs(i, n) /\ (Orphan(i) => ByName(i, n)) <=> Goes(i, n)
<1>1. \A k \in 1 .. Len(stream) : stream[k].indent \in Nat
  <2>1. \A x \in Lines : x.indent \in Nat
    BY IndentsAreNat DEF Lines, Named, Unnamed
  <2>2. \A k \in 1 .. Len(stream) : stream[k] \in Lines
    BY DEF TypeOK
  <2> QED BY <2>1, <2>2
<1>2. ASSUME NEW j \in OpenResults(i) \ {i} PROVE stream[i].indent > 0
  <2>1. j \in 1 .. i /\ j # i /\ \A k \in j + 1 .. i : stream[k].indent > stream[j].indent
    BY DEF OpenResults
  <2>2. i \in j + 1 .. i /\ j \in 1 .. Len(stream)
    BY <2>1
  <2>3. stream[i].indent > stream[j].indent
    BY <2>1, <2>2
  <2> QED BY <1>1, <2>2, <2>3
<1>3. Blocks(i) # {} => stream[i].indent > 0
  BY <1>2 DEF Blocks
<1>4. n \in Blocks(i) <=> Encloses(n, i)
  BY DEF Blocks, Encloses
<1>5. Blocks(i) = {} => ~Encloses(n, i)
  BY <1>4
<1> QED BY <1>3, <1>4, <1>5 DEF Belongs, Orphan, Goes

\* Where line i goes depends on the lines up to it only.
LEMMA PastStays ==
  ASSUME stream \in Seq(Lines), NEW l \in Lines, stream' = Append(stream, l)
  PROVE  /\ \A i \in 1 .. Len(stream) + 1 : Current(i)' = Current(i)
         /\ \A i \in 1 .. Len(stream), n \in Names : Goes(i, n)' <=> Goes(i, n)
<1> DEFINE m == Len(stream)
<1>1. /\ m \in Nat /\ Len(stream') = m + 1
      /\ \A i \in 1 .. m : stream'[i] = stream[i]
  OBVIOUS
<1> HIDE DEF m
<1>2. ASSUME NEW i \in 1 .. m + 1 PROVE Current(i)' = Current(i)
  <2>1. NamedBefore(i)' = NamedBefore(i) /\ NamedBefore(i) \subseteq 1 .. m
    <3>1. 1 .. i - 1 \subseteq 1 .. m
      BY <1>1
    <3> QED BY <1>1, <3>1 DEF NamedBefore
  <2>2. CASE NamedBefore(i) = {}
    BY <2>1, <2>2 DEF Current, NamedBefore
  <2>3. CASE NamedBefore(i) # {}
    <3> DEFINE last == LastOf(NamedBefore(i))
    <3>1. last \in NamedBefore(i) /\ last' = last
      BY <1>1, <2>1, <2>3, LastOfIsLast DEF LastOf
    <3>2. stream'[last] = stream[last]
      BY <1>1, <2>1, <3>1
    <3>3. stream[last].kind \in {"panic", "output"}
      BY <3>1 DEF NamedBefore
    <3>6. Current(i)' = IF stream'[last].kind = "panic" THEN Summary ELSE stream'[last].test
      <4> DEFINE named == {j \in 1 .. i - 1 : stream'[j].kind \in {"output", "panic"}}
                 top == CHOOSE j \in named : \A k \in named : k <= j
      <4>1. named = NamedBefore(i)
        BY <2>1 DEF NamedBefore
      <4>2. top = last
        BY <4>1 DEF LastOf
      <4>3. Current(i)' = CASE named = {} -> None
                            [] named # {} /\ stream'[top].kind = "panic" -> Summary
                            [] named # {} /\ stream'[top].kind = "output" -> stream'[top].test
        BY DEF Current
      <4> HIDE DEF named, top, last
      <4>4. named # {} /\ stream'[top].kind \in {"panic", "output"}
        BY <2>3, <3>2, <3>3, <4>1, <4>2
      <4>5. "panic" # "output"
        OBVIOUS
      <4> QED BY <4>2, <4>3, <4>4, <4>5
    <3>4. CASE stream[last].kind = "panic"
      <4>1. Current(i) = Summary
        BY <2>3, <3>4, CurrentByName
      <4> HIDE DEF last
      <4> QED BY <3>2, <3>4, <3>6, <4>1
    <3>5. CASE stream[last].kind = "output"
      <4>1. Current(i) = stream[last].test
        BY <2>3, <3>5, CurrentByName
      <4> HIDE DEF last
      <4> QED BY <3>2, <3>5, <3>6, <4>1
    <3> QED BY <3>3, <3>4, <3>5
  <2> QED BY <2>2, <2>3
<1>3. ASSUME NEW i \in 1 .. m PROVE OpenResults(i)' = OpenResults(i)
  <2>1. \A j \in 1 .. i : j \in 1 .. m
    BY <1>1
  <2>2. \A j \in 1 .. i : \A k \in j + 1 .. i : k \in 1 .. m
    BY <1>1
  <2> QED BY <1>1, <2>1, <2>2 DEF OpenResults
<1>4. ASSUME NEW i \in 1 .. m, NEW n \in Names PROVE Goes(i, n)' <=> Goes(i, n)
  <2>1. Current(i)' = Current(i)
    BY <1>1, <1>2
  <2>2. stream'[i] = stream[i] /\ \A j \in OpenResults(i) : stream'[j] = stream[j]
    BY <1>1 DEF OpenResults
  <2> QED BY <1>3, <2>1, <2>2 DEF Goes, ByName, Encloses
<1> QED BY <1>2, <1>4 DEF m

\* The results whose block line pos is in are the ones the stack keeps for it.
LEMMA BlocksOfLine ==
  ASSUME IInv, NEW l \in Lines, stream' = Append(stream, l),
         NEW pos, pos = Len(stream) + 1, NEW n
  PROVE  Encloses(n, pos)' <=> OnStack(n, RemoveDedented(markers, l.indent))
<1> DEFINE s == RemoveDedented(markers, l.indent)
           mark(x) == [test |-> x.test, indent |-> x.indent]
           near == {i \in OpenResults(Len(stream)) : stream[i].indent < l.indent}
<1>1. /\ l.indent \in Indents
      /\ markers \in Seq(Markers) /\ Nested(markers)
      /\ stream \in Seq(Lines) /\ Len(stream) \in Nat
  BY DEF Lines, Named, Unnamed, IInv, TypeOK, MarkersAreOpenBlocks, Nested, Markers
<1>2. {s[i] : i \in DOMAIN s} = {m \in {markers[i] : i \in DOMAIN markers} : m.indent < l.indent}
  BY <1>1, RemoveDedentedNested
<1>3. {markers[i] : i \in DOMAIN markers} = {mark(stream[i]) : i \in OpenResults(Len(stream))}
  BY DEF IInv, MarkersAreOpenBlocks
<1> HIDE DEF s
<1>4. OpenResults(pos)' = near \union (IF l.kind = "result" THEN {pos} ELSE {})
  <2>1. OpenResults(Len(stream))' = near \union (IF l.kind = "result" THEN {pos} ELSE {})
    BY <1>1, OpenAfterLine
  <2>2. Len(stream') = pos
    BY <1>1
  <2> QED BY <2>1, <2>2 DEF OpenResults
<1>5. \A j \in near : j # pos /\ stream'[j] = stream[j]
  BY <1>1 DEF OpenResults
<1>6. \A j \in near : \E i \in DOMAIN s : s[i] = mark(stream[j])
  <2>1. ASSUME NEW j \in near PROVE mark(stream[j]) \in {s[i] : i \in DOMAIN s}
    <3>1. mark(stream[j]) \in {markers[i] : i \in DOMAIN markers}
      BY <1>3
    <3>2. mark(stream[j]).indent < l.indent
      OBVIOUS
    <3> HIDE DEF mark
    <3> QED BY <1>2, <3>1, <3>2
  <2> HIDE DEF mark, near
  <2> QED BY <2>1
<1>7. \A i \in DOMAIN s : \E j \in near : s[i] = mark(stream[j])
  <2> TAKE i \in DOMAIN s
  <2>1. s[i] \in {markers[k] : k \in DOMAIN markers} /\ s[i].indent < l.indent
    BY <1>2
  <2>2. PICK j \in OpenResults(Len(stream)) : s[i] = mark(stream[j])
    <3> HIDE DEF mark
    <3> QED BY <1>3, <2>1
  <2>3. stream[j].indent < l.indent
    BY <2>1, <2>2
  <2> QED BY <2>2, <2>3
<1>8. \A j : mark(stream[j]).test = stream[j].test
  OBVIOUS
<1>9. OpenResults(pos)' \ {pos} = near
  BY <1>4, <1>5
<1> HIDE DEF mark, near
<1>10. Encloses(n, pos)' <=> \E j \in near : stream[j].test = n
  BY <1>5, <1>9 DEF Encloses
<1>11. (\E j \in near : stream[j].test = n) <=> OnStack(n, s)
  BY <1>6, <1>7, <1>8 DEF OnStack
<1> QED BY <1>10, <1>11 DEF s

\* What is in two sequences, one after the other.
In(n, s) == \E i \in DOMAIN s : s[i] = n

LEMMA InConcat ==
  ASSUME NEW S, NEW a \in Seq(S), NEW b \in Seq(S), NEW n
  PROVE  In(n, a \o b) <=> In(n, a) \/ In(n, b)
<1>1. /\ Len(a) \in Nat /\ Len(b) \in Nat
      /\ DOMAIN (a \o b) = 1 .. Len(a) + Len(b)
      /\ DOMAIN a = 1 .. Len(a) /\ DOMAIN b = 1 .. Len(b)
      /\ \A i \in 1 .. Len(a) : (a \o b)[i] = a[i]
      /\ \A i \in 1 .. Len(b) : (a \o b)[Len(a) + i] = b[i]
  OBVIOUS
<1>2. ASSUME NEW i \in DOMAIN (a \o b)
      PROVE  \/ i \in DOMAIN a /\ (a \o b)[i] = a[i]
             \/ i - Len(a) \in DOMAIN b /\ (a \o b)[i] = b[i - Len(a)]
  <2>1. CASE i <= Len(a)
    BY <1>1, <2>1
  <2>2. CASE i > Len(a)
    <3>1. i - Len(a) \in 1 .. Len(b) /\ Len(a) + (i - Len(a)) = i
      BY <1>1, <2>2
    <3> QED BY <1>1, <3>1
  <2> QED BY <1>1, <2>1, <2>2
<1>3. \A i \in DOMAIN a : i \in DOMAIN (a \o b)
  BY <1>1
<1>4. \A i \in DOMAIN b : Len(a) + i \in DOMAIN (a \o b)
  BY <1>1
<1> QED BY <1>1, <1>2, <1>3, <1>4 DEF In

\* The targets of the loop are exactly the logs a line goes to.
LEMMA TargetsAreOwners ==
  ASSUME IInv, prev = Current(Len(stream) + 1), NEW l \in Lines, stream' = Append(stream, l),
         NEW pos, pos = Len(stream) + 1, NEW n \in Names
  PROVE  Goes(pos, n)' <=> In(n, Targets(l, RemoveDedented(markers, l.indent)))
<1> DEFINE s == RemoveDedented(markers, l.indent)
           open == OnStack(n, s)
           own == IF l.kind = "result" THEN <<l.test, Summary>> ELSE <<>>
           first == FirstTargets(l, s)
<1>1. /\ l.indent \in Indents /\ l.indent \in Nat
      /\ l.kind \in {"summary", "output", "panic", "status", "result", "text"}
      /\ l.kind \in {"status", "output", "result"} => l.test \in Names
      /\ Summary \in Names /\ None \notin Names
      /\ prev \in Names \union {None}
  BY IndentsAreNat, LogParserAssumption DEF Lines, Named, Unnamed, Names, Anchored, IInv, TypeOK
<1>2. /\ stream \in Seq(Lines) /\ Len(stream) \in Nat
      /\ markers \in Seq(Markers) /\ Nested(markers)
  BY DEF IInv, TypeOK, MarkersAreOpenBlocks, Nested, Markers
<1>3. s \in Seq(Markers)
  BY <1>1, <1>2, RemoveDedentedNested
<1>4. Encloses(n, pos)' <=> open
  BY BlocksOfLine
<1> HIDE DEF s
<1>5. stream'[pos] = l
  BY <1>2
<1>6. Current(pos)' = prev
  <2>1. \A i \in 1 .. Len(stream) + 1 : Current(i)' = Current(i)
    BY <1>2, PastStays
  <2>2. pos \in 1 .. Len(stream) + 1
    BY <1>2
  <2> QED BY <2>1, <2>2
<1>7. Goes(pos, n)' <=>
        \/ l.kind \in {"status", "output", "result"} /\ l.test = n
        \/ l.kind \in {"summary", "panic", "result"} /\ n = Summary
        \/ /\ l.kind \in {"result", "text"}
           /\ IF l.indent > 0 /\ prev # Summary THEN open ELSE prev = n
  BY <1>4, <1>5, <1>6 DEF Goes, ByName, Encloses
<1>8. first \in Seq(Names) /\ own \in Seq(Names)
  <2>1. own \in Seq(Names)
    BY <1>1
  <2>2. first \in Seq(Names)
    <3>1. CASE l.kind \in {"summary", "panic"}
      BY <3>1, <1>1 DEF FirstTargets, InBlock
    <3>2. CASE l.kind \in {"status", "output"}
      BY <3>2, <1>1 DEF FirstTargets, InBlock
    <3>3. CASE InBlock(l)
      <4>1. \A i \in 1 .. Len(s) : s[i] \in Markers
        BY <1>3
      <4>2. \A i \in 1 .. Len(s) : s[i].test \in Names
        BY <4>1 DEF Markers, Names
      <4>3. [i \in DOMAIN s |-> s[i].test] \in Seq(Names)
        BY <1>3, <4>2
      <4> QED BY <3>3, <4>3 DEF FirstTargets, InBlock
    <3>4. CASE l.kind \in {"result", "text"} /\ ~InBlock(l)
      BY <3>4, <1>1 DEF FirstTargets
    <3> QED BY <1>1, <3>1, <3>2, <3>3, <3>4
  <2> QED BY <2>1, <2>2
<1>9. In(n, first) <=>
        \/ l.kind \in {"status", "output"} /\ l.test = n
        \/ l.kind \in {"summary", "panic"} /\ n = Summary
        \/ /\ l.kind \in {"result", "text"}
           /\ IF l.indent > 0 /\ prev # Summary THEN open ELSE prev = n
  <2>1. CASE l.kind \in {"summary", "panic"}
    <3>1. first = <<Summary>>
      BY <2>1 DEF FirstTargets, InBlock
    <3> HIDE DEF first, open
    <3> QED BY <2>1, <3>1 DEF In
  <2>2. CASE l.kind \in {"status", "output"}
    <3>1. first = <<l.test>>
      BY <2>2 DEF FirstTargets, InBlock
    <3> HIDE DEF first, open
    <3> QED BY <2>2, <3>1 DEF In
  <2>3. CASE InBlock(l)
    <3>1. first = [i \in DOMAIN s |-> s[i].test]
      BY <2>3 DEF FirstTargets, InBlock
    <3>2. In(n, first) <=> open
      BY <3>1 DEF In, OnStack
    <3> HIDE DEF first, open
    <3> QED BY <2>3, <3>2 DEF InBlock
  <2>4. CASE l.kind \in {"result", "text"} /\ ~InBlock(l)
    <3>1. first = IF prev = None THEN <<>> ELSE <<prev>>
      BY <2>4 DEF FirstTargets
    <3>2. In(n, first) <=> prev = n
      <4> HIDE DEF first
      <4> QED BY <1>1, <3>1 DEF In
    <3> HIDE DEF first, open
    <3> QED BY <2>4, <3>2 DEF InBlock
  <2> HIDE DEF first, open
  <2> QED BY <1>1, <2>1, <2>2, <2>3, <2>4
<1>10. In(n, own) <=> l.kind = "result" /\ n \in {l.test, Summary}
  BY DEF In
<1>11. Targets(l, s) = first \o own
  BY DEF Targets
<1>12. In(n, Targets(l, s)) <=> In(n, first) \/ In(n, own)
  <2> HIDE DEF first, own
  <2> QED BY <1>8, <1>11, InConcat
<1>13. Goes(pos, n)' <=> In(n, Targets(l, s))
  <2> HIDE DEF first, own, open
  <2> QED BY <1>1, <1>7, <1>9, <1>10, <1>12
<1> QED BY <1>13 DEF s

\* The lines that go to a log, and those it holds.
Mine(n) == {i \in 1 .. Len(stream) : Goes(i, n)}
Held(n) == {files[n][k] : k \in DOMAIN files[n]}

\* Routing for one log.
Routed(n) ==
  /\ \A i \in Mine(n) : i \in Held(n) \/ <<n, i>> \in failed
  /\ n \in Unwritable \/ Mine(n) = {} => files[n] \in {<<>>, <<0>>}
  /\ n \notin Unwritable /\ Mine(n) # {} =>
       /\ Held(n) \subseteq Mine(n)
       /\ \A k \in 1 .. Len(files[n]) - 1 : files[n][k] <= files[n][k + 1]

LEMMA RoutingByName ==
  ASSUME TypeOK, \A n \in Names : Routed(n)
  PROVE  Routing
<1>1. ASSUME NEW n \in Names
      PROVE  {i \in 1 .. Len(stream) : Belongs(i, n) /\ (Orphan(i) => ByName(i, n))} = Mine(n)
  BY GoesToOwners DEF Mine
<1> QED BY <1>1 DEF Routing, Routed, Held

\* What Routing rests on: previousTestName is the name the next line belongs
\* to, and an open file is one of a log that was written.
RoutingIInv ==
  /\ prev = Current(Len(stream) + 1)
  /\ pc = "reading" => \A n \in Names : n \in lookup <=> n \notin Unwritable /\ Mine(n) # {}
  /\ \A n \in Names : Routed(n)

LEMMA PrevIsCurrent ==
  ASSUME TypeOK, prev = Current(Len(stream) + 1), NEW l \in Lines, ReadLine(l)
  PROVE  (prev = Current(Len(stream) + 1))'
<1>0. PICK m \in Nat : m = Len(stream)
  BY DEF TypeOK
<1>1. /\ stream \in Seq(Lines) /\ stream' = Append(stream, l)
      /\ m \in Nat /\ Len(stream') = m + 1 /\ stream'[m + 1] = l
      /\ \A i \in 1 .. m : stream'[i] = stream[i]
  BY <1>0 DEF TypeOK, ReadLine
<1>2. prev' = CASE l.kind = "output" -> l.test
                [] l.kind = "panic" -> Summary
                [] OTHER -> prev
  BY DEF ReadLine
<1>3. NamedBefore(m + 2)' = NamedBefore(m + 1) \union (IF l.kind \in {"output", "panic"} THEN {m + 1} ELSE {})
  <2>1. (m + 2) - 1 = m + 1 /\ (m + 1) - 1 = m /\ 1 .. m + 1 = (1 .. m) \union {m + 1}
    BY <1>1
  <2> QED BY <1>1, <2>1 DEF NamedBefore
<1>4. NamedBefore(m + 1) \subseteq 1 .. m
  BY <1>1 DEF NamedBefore
<1> DEFINE next == NamedBefore(m + 2)'
           last == CHOOSE j \in next : \A k \in next : k <= j
<1>5. /\ next = {} => Current(m + 2)' = None
      /\ next # {} /\ stream'[last].kind = "panic" => Current(m + 2)' = Summary
      /\ next # {} /\ stream'[last].kind = "output" => Current(m + 2)' = stream'[last].test
  BY DEF Current, NamedBefore
<1>6. Current(m + 2)' = prev'
  <2>1. CASE l.kind \in {"output", "panic"}
    <3>1. next = NamedBefore(m + 1) \union {m + 1}
      BY <1>3, <2>1
    <3> HIDE DEF next
    <3>2. \A k \in next : k <= m + 1 /\ k \in Nat
      BY <1>1, <1>4, <3>1
    <3>3. m + 1 \in next /\ \A j \in next : m + 1 <= j => j = m + 1
      BY <1>1, <3>1, <3>2
    <3>4. last = m + 1
      BY <3>2, <3>3
    <3> HIDE DEF last
    <3> QED BY <1>1, <1>2, <1>5, <2>1, <3>3, <3>4
  <2>2. CASE l.kind \notin {"output", "panic"}
    <3>1. next = NamedBefore(m + 1) /\ prev' = prev
      BY <1>2, <1>3, <2>2
    <3>2. last = LastOf(NamedBefore(m + 1))
      BY <3>1 DEF LastOf
    <3>3. prev = Current(m + 1)
      BY <1>0
    <3>4. CASE next = {}
      BY <1>5, <3>1, <3>3, <3>4, CurrentByName
    <3>5. CASE next # {}
      <4>1. last \in NamedBefore(m + 1)
        BY <1>1, <1>4, <3>1, <3>2, <3>5, LastOfIsLast
      <4>2. stream'[last] = stream[last] /\ stream[last].kind \in {"output", "panic"}
        BY <1>1, <1>4, <4>1 DEF NamedBefore
      <4> HIDE DEF next, last
      <4> QED BY <1>5, <3>1, <3>2, <3>3, <3>5, <4>2, CurrentByName
    <3> QED BY <3>4, <3>5
  <2> QED BY <2>1, <2>2
<1>7. Len(stream') + 1 = m + 2
  BY <1>1
<1> QED BY <1>6, <1>7

\* What one line leaves in a log.
LEMMA LineIsRouted ==
  ASSUME IInv, RoutingIInv, NEW l \in Lines, ReadLine(l), NEW n \in Names
  PROVE  /\ (n \in lookup <=> n \notin Unwritable /\ Mine(n) # {})'
         /\ Routed(n)'
<1> DEFINE t == Targets(l, RemoveDedented(markers, l.indent))
           open == {t[i] : i \in DOMAIN t} \ Unwritable
           held == IF n \in lookup THEN files[n] ELSE <<>>
<1>0. PICK pos \in Nat : pos = Len(stream) + 1
  BY DEF IInv, TypeOK
<1>1. /\ stream \in Seq(Lines) /\ stream' = Append(stream, l)
      /\ pos \in Nat /\ Len(stream) = pos - 1 /\ Len(stream') = pos
      /\ pc = "reading" /\ prev = Current(Len(stream) + 1)
  BY <1>0 DEF IInv, TypeOK, ReadLine, RoutingIInv
<1>2. t \in Seq(Names)
  <2>1. l.indent \in Indents /\ markers \in Seq(Markers) /\ Nested(markers)
    BY DEF Lines, Named, Unnamed, IInv, TypeOK, MarkersAreOpenBlocks, Nested, Markers
  <2>2. RemoveDedented(markers, l.indent) \in Seq(Markers)
    BY <2>1, RemoveDedentedNested
  <2> QED BY <2>2, TargetsType DEF IInv, TypeOK
<1>3. PICK done \in SUBSET DOMAIN t :
        /\ \A i \in done : t[i] \notin Unwritable
        /\ files' = [x \in Names |->
                       IF x \in open
                       THEN (IF x \in lookup THEN files[x] ELSE <<>>)
                              \o [i \in 1 .. Cardinality({i \in done : t[i] = x}) |-> pos]
                       ELSE files[x]]
        /\ lookup' = lookup \union open
        /\ failed' = failed \union {<<t[i], pos>> : i \in DOMAIN t \ done}
  <2>1. WriteLogs(t, Len(stream) + 1)
    BY DEF ReadLine
  <2> HIDE DEF t
  <2>2. WriteLogs(t, pos)
    BY <1>0, <2>1
  <2> QED BY <2>2 DEF WriteLogs
<1> DEFINE at == {i \in done : t[i] = n}
           copies == Cardinality(at)
           pieces == [i \in 1 .. copies |-> pos]
<1>4. Goes(pos, n)' <=> In(n, t)
  BY <1>0, <1>1, TargetsAreOwners
<1>5. \A i \in 1 .. pos - 1 : Goes(i, n)' <=> Goes(i, n)
  BY <1>1, PastStays
<1>6. Mine(n)' = Mine(n) \union (IF In(n, t) THEN {pos} ELSE {})
  <2>1. 1 .. pos = (1 .. pos - 1) \union {pos}
    BY <1>1
  <2> QED BY <1>1, <1>4, <1>5, <2>1 DEF Mine
<1> HIDE DEF t
<1>7. /\ copies \in Nat
      /\ copies = 0 <=> at = {}
  <2>1. IsFiniteSet(1 .. Len(t)) /\ at \subseteq 1 .. Len(t)
    <3>1. IsFiniteSet(1 .. Len(t))
      BY <1>2, FS_Interval
    <3> QED BY <1>2, <3>1
  <2>2. IsFiniteSet(at)
    BY <2>1, FS_Subset
  <2> HIDE DEF at
  <2> QED BY <2>2, FS_CardinalityType, FS_EmptySet
<1>w. n \in open <=> n \notin Unwritable /\ In(n, t)
  BY DEF In
<1>8. /\ n \in open => files'[n] = held \o pieces
      /\ n \notin open => files'[n] = files[n]
  <2> HIDE DEF open
  <2> QED BY <1>3
<1>9. n \in lookup' <=> n \in lookup \/ (n \notin Unwritable /\ In(n, t))
  BY <1>3, <1>w
<1>10. (n \in lookup <=> n \notin Unwritable /\ Mine(n) # {}) /\ Routed(n)
  BY <1>1 DEF RoutingIInv
<1>11. (n \in lookup <=> n \notin Unwritable /\ Mine(n) # {})'
  BY <1>6, <1>9, <1>10
<1>f. /\ \A i : <<n, i>> \in failed => <<n, i>> \in failed'
      /\ In(n, t) /\ at = {} => <<n, pos>> \in failed'
      /\ n \in Unwritable => at = {}
  <2>1. In(n, t) /\ at = {} => \E i \in DOMAIN t \ done : t[i] = n
    BY DEF In
  <2> QED BY <1>3, <2>1
<1> HIDE DEF open, at
<1>12. Routed(n)'
  <2>1. CASE n \notin open
    <3>1. files'[n] = files[n] /\ Held(n)' = Held(n)
      BY <1>8, <2>1 DEF Held
    <3>2. CASE n \in Unwritable
      <4>1. \A i \in Mine(n)' : i \in Held(n)' \/ <<n, i>> \in failed'
        BY <1>6, <1>10, <1>f, <3>1, <3>2 DEF Routed
      <4> QED BY <1>10, <3>1, <3>2, <4>1 DEF Routed
    <3>3. CASE n \notin Unwritable
      <4>1. Mine(n)' = Mine(n)
        BY <1>6, <1>w, <2>1, <3>3
      <4> QED BY <1>10, <1>f, <3>1, <3>3, <4>1 DEF Routed
    <3> QED BY <3>2, <3>3
  <2>2. CASE n \in open
    <3> DEFINE H == {held[k] : k \in DOMAIN held}
    <3>1. /\ n \notin Unwritable /\ In(n, t)
          /\ Mine(n)' = Mine(n) \union {pos}
          /\ files'[n] = held \o pieces
      BY <1>6, <1>8, <1>w, <2>2
    <3>2. /\ held \in Seq(0 .. pos - 1)
          /\ H \subseteq Mine(n)
          /\ \A i \in Mine(n) : i \in H \/ <<n, i>> \in failed
          /\ \A k \in 1 .. Len(held) - 1 : held[k] <= held[k + 1]
      <4>1. CASE n \in lookup
        <5>1. files[n] \in Seq(0 .. pos - 1)
          BY <1>1 DEF IInv, TypeOK
        <5> QED BY <1>10, <3>1, <4>1, <5>1 DEF Routed, Held
      <4>2. CASE n \notin lookup
        <5>1. Mine(n) = {}
          BY <1>10, <3>1, <4>2
        <5> QED BY <4>2, <5>1
      <4> QED BY <4>1, <4>2
    <3>a. \A k \in DOMAIN held : held[k] \in H
      OBVIOUS
    <3>b. \A x \in H : \E k \in DOMAIN held : held[k] = x
      OBVIOUS
    <3> HIDE DEF H, held, copies
    <3>3. /\ pieces \in Seq({pos}) /\ Len(pieces) = copies
          /\ \A k \in 1 .. copies : pieces[k] = pos
      BY <1>7
    <3>4. copies \in Nat /\ (at # {} => copies > 0)
      BY <1>7
    <3> HIDE DEF pieces
    <3>5. /\ held \in Seq(0 .. pos) /\ pieces \in Seq(0 .. pos)
          /\ Len(held) \in Nat /\ DOMAIN held = 1 .. Len(held)
      BY <1>1, <3>2, <3>3
    <3>6. /\ Len(held \o pieces) = Len(held) + copies
          /\ DOMAIN (held \o pieces) = 1 .. Len(held) + copies
          /\ \A k \in 1 .. Len(held) : (held \o pieces)[k] = held[k]
          /\ \A k \in Len(held) + 1 .. Len(held) + copies : (held \o pieces)[k] = pos
      <4>1. \A k \in Len(held) + 1 .. Len(held) + copies :
              k - Len(held) \in 1 .. copies /\ (held \o pieces)[k] = pieces[k - Len(held)]
        BY <3>3, <3>4, <3>5
      <4>2. \A k \in Len(held) + 1 .. Len(held) + copies : (held \o pieces)[k] = pos
        BY <3>3, <4>1
      <4>3. /\ Len(held \o pieces) = Len(held) + Len(pieces)
            /\ DOMAIN (held \o pieces) = 1 .. Len(held) + Len(pieces)
            /\ \A k \in 1 .. Len(held) : (held \o pieces)[k] = held[k]
        BY <3>5
      <4> QED BY <3>3, <4>2, <4>3
    <3> DEFINE whole == {(held \o pieces)[k] : k \in DOMAIN (held \o pieces)}
    <3>7. whole \subseteq H \union {pos} /\ H \subseteq whole /\ (at # {} => pos \in whole)
      <4>1. ASSUME NEW k \in DOMAIN (held \o pieces)
            PROVE  (held \o pieces)[k] \in H \union {pos}
        <5>1. CASE k \in 1 .. Len(held)
          BY <3>a, <3>5, <3>6, <5>1
        <5>2. CASE k \in Len(held) + 1 .. Len(held) + copies
          BY <3>6, <5>2
        <5> QED BY <3>4, <3>5, <3>6, <5>1, <5>2
      <4>2. ASSUME NEW x \in H
            PROVE  \E k \in DOMAIN (held \o pieces) : (held \o pieces)[k] = x
        <5>1. PICK k \in DOMAIN held : held[k] = x
          BY <3>b
        <5>2. k \in 1 .. Len(held) /\ k \in 1 .. Len(held) + copies
          BY <3>4, <3>5, <5>1
        <5> QED BY <3>6, <5>1, <5>2
      <4>3. ASSUME at # {}
            PROVE  \E k \in DOMAIN (held \o pieces) : (held \o pieces)[k] = pos
        <5>1. /\ Len(held) + 1 \in Len(held) + 1 .. Len(held) + copies
              /\ Len(held) + 1 \in 1 .. Len(held) + copies
          BY <3>4, <3>5, <4>3
        <5> QED BY <3>6, <5>1
      <4> QED BY <4>1, <4>2, <4>3
    <3> HIDE DEF whole
    <3>8. ASSUME NEW k \in 1 .. Len(held) + copies - 1
          PROVE  (held \o pieces)[k] <= (held \o pieces)[k + 1]
      <4>1. CASE k \in 1 .. Len(held) - 1
        <5>1. k \in 1 .. Len(held) /\ k + 1 \in 1 .. Len(held)
          BY <3>5, <4>1
        <5> QED BY <3>2, <3>6, <4>1, <5>1
      <4>2. CASE k = Len(held)
        <5>1. k \in 1 .. Len(held) /\ k + 1 \in Len(held) + 1 .. Len(held) + copies
          BY <3>4, <3>5, <3>6, <3>8, <4>2
        <5>2. held[k] \in 0 .. pos
          BY <1>1, <3>2, <5>1
        <5> QED BY <3>6, <5>1, <5>2
      <4>3. CASE k \in Len(held) + 1 .. Len(held) + copies - 1
        <5>1. k \in Len(held) + 1 .. Len(held) + copies /\ k + 1 \in Len(held) + 1 .. Len(held) + copies
          BY <3>4, <3>5, <4>3
        <5>2. (held \o pieces)[k] = pos /\ (held \o pieces)[k + 1] = pos
          BY <3>6, <5>1
        <5> QED BY <1>1, <5>2
      <4>4. \/ k \in 1 .. Len(held) - 1 \/ k = Len(held)
            \/ k \in Len(held) + 1 .. Len(held) + copies - 1
        <5>1. Len(held) \in Nat /\ copies \in Nat
          BY <3>4, <3>5
        <5> QED BY <5>1
      <4> QED BY <4>1, <4>2, <4>3, <4>4
    <3>9. Held(n)' = whole
      BY <3>1 DEF Held, whole
    <3>10. \A i \in Mine(n)' : i \in Held(n)' \/ <<n, i>> \in failed'
      BY <1>f, <3>1, <3>2, <3>7, <3>9
    <3>11. Held(n)' \subseteq Mine(n)' /\ Mine(n)' # {}
      BY <3>1, <3>2, <3>7, <3>9
    <3>12. \A k \in 1 .. Len(files'[n]) - 1 : files'[n][k] <= files'[n][k + 1]
      <4>1. Len(held \o pieces) = Len(held) + copies
        BY <3>6
      <4>2. 1 .. Len(held \o pieces) - 1 = 1 .. Len(held) + copies - 1
        <5>1. Len(held) \in Nat /\ copies \in Nat
          BY <3>4, <3>5
        <5> QED BY <4>1, <5>1
      <4>3. \A k \in 1 .. Len(held) + copies - 1 :
              (held \o pieces)[k] <= (held \o pieces)[k + 1]
        BY <3>8, Zenon
      <4> QED BY <3>1, <4>2, <4>3, Zenon
    <3> QED BY <3>1, <3>10, <3>11, <3>12 DEF Routed
  <2> QED BY <2>1, <2>2
<1> QED BY <1>11, <1>12

LEMMA RoutingStep == IInv /\ RoutingIInv /\ [Next]_vars => RoutingIInv'
<1> SUFFICES ASSUME IInv, RoutingIInv, [Next]_vars PROVE RoutingIInv'
  OBVIOUS
<1>1. ASSUME NEW l \in Lines, ReadLine(l) PROVE RoutingIInv'
  <2>1. (prev = Current(Len(stream) + 1))'
    BY <1>1, PrevIsCurrent DEF IInv, RoutingIInv
  <2>2. \A n \in Names : (n \in lookup <=> n \notin Unwritable /\ Mine(n) # {})' /\ Routed(n)'
    BY <1>1, LineIsRouted
  <2> QED BY <2>1, <2>2 DEF RoutingIInv
<1>2. CASE EndOfOutput \/ ScanError \/ UNCHANGED vars
  <2>1. /\ stream' = stream /\ prev' = prev /\ files' = files /\ failed' = failed
        /\ pc' = "reading" => pc = "reading" /\ lookup' = lookup
    BY <1>2 DEF EndOfOutput, ScanError, vars
  <2>2. \A i : Current(i)' = Current(i)
    BY <2>1 DEF Current
  <2>3. \A i, n : Goes(i, n)' <=> Goes(i, n)
    BY <2>1, <2>2 DEF Goes, ByName, Encloses, OpenResults
  <2>4. \A n : Mine(n)' = Mine(n)
    BY <2>1, <2>3 DEF Mine
  <2>5. \A n : Routed(n)' <=> Routed(n)
    BY <2>1, <2>4 DEF Routed, Held
  <2> QED BY <2>1, <2>2, <2>4, <2>5 DEF RoutingIInv
<1> QED BY <1>1, <1>2 DEF Next

LEMMA InitRouting == Init => RoutingIInv
<1> SUFFICES ASSUME Init PROVE RoutingIInv
  OBVIOUS
<1>1. stream = <<>> /\ Len(stream) = 0 /\ prev = None /\ lookup = {}
  BY DEF Init
<1>2. Current(Len(stream) + 1) = None
  <2>1. NamedBefore(Len(stream) + 1) = {}
    BY <1>1 DEF NamedBefore
  <2> QED BY <2>1, CurrentByName
<1>3. \A n : Mine(n) = {}
  BY <1>1 DEF Mine
<1>4. \A n \in Names : files[n] \in {<<>>, <<0>>}
  BY DEF Init
<1> QED BY <1>1, <1>2, <1>3, <1>4 DEF RoutingIInv, Routed, Held

LEMMA OtherStepsIInv ==
  IInv /\ (EndOfOutput \/ ScanError \/ UNCHANGED vars) => IInv'
<1> SUFFICES ASSUME IInv, EndOfOutput \/ ScanError \/ UNCHANGED vars PROVE IInv'
  OBVIOUS
<1>1. UNCHANGED <<stream, prev, markers, files, warned, failed>> /\ lookup' \in {lookup, {}}
  BY DEF EndOfOutput, ScanError, vars
<1>2. pc' \in {"reading", "closed", "exited"}
  BY DEF IInv, TypeOK, EndOfOutput, ScanError, vars
<1>3. TypeOK'
  <2>1. lookup' \subseteq Names
    BY <1>1 DEF IInv, TypeOK
  <2> QED BY <1>1, <1>2, <2>1 DEF IInv, TypeOK
<1>4. MarkersAreOpenBlocks'
  BY <1>1 DEF IInv, MarkersAreOpenBlocks, OpenResults
<1> QED BY <1>3, <1>4 DEF IInv

LEMMA Invariance == Spec => []IInv
<1>1. Init => IInv
  <2>1. Init => MarkersAreOpenBlocks
    BY DEF Init, MarkersAreOpenBlocks, OpenResults
  <2> QED BY <2>1, InitTypeOK DEF IInv
<1>2. IInv /\ [Next]_vars => IInv'
  BY ReadLineIInv, OtherStepsIInv DEF Next
<1> QED BY <1>1, <1>2, PTL DEF Spec

LEMMA RoutingInvariance == Spec => []RoutingIInv
<1>1. Init => RoutingIInv
  BY InitRouting
<1>2. IInv /\ RoutingIInv /\ [Next]_vars => RoutingIInv'
  BY RoutingStep
<1> QED BY <1>1, <1>2, Invariance, PTL DEF Spec

\* Every reachable state of the parser is well typed, whatever names,
\* indentations and lines go test prints (parseAndStoreTestOutput).
THEOREM TypeCorrect == Spec => []TypeOK
<1>1. IInv => TypeOK
  BY DEF IInv
<1> QED BY <1>1, Invariance, PTL

\* After any output the stack holds the results whose blocks are open, ordered
\* by indentation: popping from the top is enough, as the comment of
\* removeDedentedTestResultMarkers assumes.
THEOREM StackIsOpenBlocks == Spec => []MarkersAreOpenBlocks
<1>1. IInv => MarkersAreOpenBlocks
  BY DEF IInv
<1> QED BY <1>1, Invariance, PTL

\* Whatever is printed, whichever logs cannot be created and whichever writes
\* fail, each log that was opened holds lines that belong to it, in their order
\* and with nothing of an earlier run, and but for orphans each line is in the
\* logs it belongs to or an error said so (parseAndStoreTestOutput, LogWriter).
THEOREM LinesReachTheirLogs == Spec => []Routing
<1>1. IInv /\ RoutingIInv => Routing
  BY RoutingByName DEF RoutingIInv, IInv
<1> QED BY <1>1, Invariance, RoutingInvariance, PTL

-----------------------------------------------------------------------------
(* The two goroutines. *)

\* Lines move on without being lost or doubled.
Flow ==
  /\ total \in Nat /\ unread \in Nat /\ chunk \in Nat /\ buffered \in Nat /\ parsed \in Nat
  /\ Len(stream) + buffered = parsed
  /\ parsed + chunk + unread = total

\* What holds wherever the first goroutine is ...
SplitterIInv ==
  /\ splitter \in {"scanning", "writing", "leaving", "closingPipe", "gone"}
  /\ splitter = "writing" => buffered = 0
  /\ splitter # "writing" => chunk = 0
  /\ splitter \notin {"scanning", "writing"} => pc = "closed" /\ unread = 0 /\ buffered = 0
  /\ ~pipeOpen => splitter = "gone"

\* ... and wherever the second is: it stores its report only at the end of the
\* pipe, and the counter is that of the goroutines still to call Done.
ReporterIInv ==
  /\ reporter \in {"parsing", "storing", "gone"}
  /\ reporter # "parsing" => ~pipeOpen
  /\ reporter = "gone" => report \in {NoReport, parsed}
  /\ wg = (IF splitter \in {"scanning", "writing", "leaving"} THEN 1 ELSE 0)
            + (IF reporter = "gone" THEN 0 ELSE 1)
  /\ caller = "returned" => wg = 0

PipelineIInv == Flow /\ SplitterIInv /\ ReporterIInv

\* Each step of a goroutine is one of the parser's, or none of them.
LEMMA PipelineStepIsParserStep == [PipelineNext]_pipelineVars => [Next]_vars
BY DEF PipelineNext, pipelineVars, Next, TeeRead, StoreLine, GiveUp, EndScan, Leave,
       ClosePipe, PipeRead, PipeEnd, StoreReport, Return

LEMMA PipelineIInvStep ==
  ASSUME TypeOK, PipelineIInv, [PipelineNext]_pipelineVars
  PROVE  PipelineIInv'
<1>0. Len(stream) \in Nat
  BY DEF TypeOK
<1> USE DEF PipelineIInv, Flow, SplitterIInv, ReporterIInv, readerVars, reporterVars, vars
<1>1. CASE TeeRead
  <2>1. PICK n \in 1 .. MaxChunk : n <= unread /\ unread' = unread - n /\ chunk' = n
    BY <1>1 DEF TeeRead
  <2>2. n \in Nat /\ unread' \in Nat /\ n + (unread - n) = unread
    BY <2>1, LogPipelineAssumption
  <2>3. /\ splitter = "scanning" /\ splitter' = "writing" /\ buffered = 0
        /\ UNCHANGED <<stream, pc, caller, total, buffered, pipeOpen, reporter, parsed, report, wg>>
    BY <1>1 DEF TeeRead
  <2>4. Flow'
    BY <1>0, <2>1, <2>2, <2>3
  <2>5. SplitterIInv'
    BY <2>3
  <2>6. ReporterIInv'
    BY <2>3
  <2> QED BY <2>4, <2>5, <2>6
<1>2. CASE StoreLine
  <2>1. PICK l \in Lines : ReadLine(l)
    BY <1>2 DEF StoreLine
  <2>2. Len(stream') = Len(stream) + 1 /\ pc' = pc
    BY <2>1 DEF ReadLine, TypeOK
  <2>3. /\ splitter = "scanning" /\ buffered > 0 /\ buffered' = buffered - 1
        /\ UNCHANGED <<caller, splitter, total, unread, chunk, pipeOpen, reporter, parsed, report, wg>>
    BY <1>2 DEF StoreLine
  <2>4. Flow'
    BY <1>0, <2>2, <2>3
  <2>5. SplitterIInv' /\ ReporterIInv'
    BY <2>2, <2>3
  <2> QED BY <2>4, <2>5
<1>3. CASE GiveUp
  BY <1>3 DEF GiveUp, ScanError
<1>4. CASE EndScan
  <2>1. /\ splitter = "scanning" /\ splitter' = "leaving" /\ buffered = 0 /\ unread = 0
        /\ pc' = "closed"
        /\ UNCHANGED <<stream, caller, total, unread, chunk, buffered, pipeOpen>>
        /\ UNCHANGED <<reporter, parsed, report, wg>>
    BY <1>4 DEF EndScan, EndOfOutput
  <2>2. Flow' /\ SplitterIInv'
    BY <2>1
  <2>3. ReporterIInv'
    BY <2>1
  <2> QED BY <2>2, <2>3
<1>5. CASE Leave
  <2>1. /\ splitter = "leaving" /\ splitter' = "closingPipe" /\ wg' = wg - 1
        /\ UNCHANGED <<stream, pc, caller, total, unread, chunk, buffered, pipeOpen>>
        /\ UNCHANGED <<reporter, parsed, report>>
    BY <1>5 DEF Leave
  <2>2. Flow' /\ SplitterIInv'
    BY <2>1
  <2>3. ReporterIInv'
    BY <2>1
  <2> QED BY <2>2, <2>3
<1>6. CASE ClosePipe
  BY <1>6 DEF ClosePipe
<1>7. CASE PipeRead
  <2>1. /\ splitter = "writing" /\ splitter' = "scanning" /\ reporter = "parsing"
        /\ parsed' = parsed + chunk /\ buffered' = chunk /\ chunk' = 0
        /\ UNCHANGED <<stream, pc, caller, total, unread, pipeOpen, reporter, report, wg>>
    BY <1>7 DEF PipeRead
  <2>2. Flow'
    BY <1>0, <2>1
  <2>3. SplitterIInv' /\ ReporterIInv'
    BY <2>1
  <2> QED BY <2>2, <2>3
<1>8. CASE PipeEnd
  BY <1>8 DEF PipeEnd
<1>9. CASE StoreReport
  <2>1. /\ reporter = "storing" /\ reporter' = "gone" /\ wg' = wg - 1
        /\ report' \in {parsed, NoReport}
        /\ UNCHANGED <<stream, pc, caller, splitter, total, unread, chunk, buffered>>
        /\ UNCHANGED <<pipeOpen, parsed>>
    BY <1>9 DEF StoreReport
  <2>2. Flow' /\ SplitterIInv'
    BY <2>1
  <2>3. ReporterIInv'
    BY <2>1 DEF NoReport
  <2> QED BY <2>2, <2>3
<1>10. CASE Return
  BY <1>10 DEF Return
<1>11. CASE UNCHANGED pipelineVars
  BY <1>11 DEF pipelineVars
<1> QED BY <1>1, <1>2, <1>3, <1>4, <1>5, <1>6, <1>7, <1>8, <1>9, <1>10, <1>11
        DEF PipelineNext

\* The two goroutines only ever do to the logs what the parser alone may do:
\* the detailed pipeline implements the parser.
THEOREM PipelineRunsParser == PipelineSpec => Spec
<1>1. PipelineInit => Init
  BY DEF PipelineInit
<1>2. [PipelineNext]_pipelineVars => [Next]_vars
  BY PipelineStepIsParserStep
<1> QED BY <1>1, <1>2, PTL DEF PipelineSpec, Spec

LEMMA PipelineInvariance == PipelineSpec => []PipelineIInv
<1>1. PipelineInit => PipelineIInv
  <2> SUFFICES ASSUME PipelineInit PROVE PipelineIInv
    OBVIOUS
  <2>1. Len(stream) = 0 /\ total \in Nat
    BY LogParserAssumption DEF PipelineInit, Init
  <2> QED BY <2>1 DEF PipelineInit, PipelineIInv, Flow, SplitterIInv, ReporterIInv
<1>2. TypeOK /\ PipelineIInv /\ [PipelineNext]_pipelineVars => PipelineIInv'
  BY PipelineIInvStep
<1> QED BY <1>1, <1>2, PipelineRunsParser, TypeCorrect, PTL DEF PipelineSpec

\* SpawnParsers returns only when every line is in the logs and they are closed,
\* and the report was made from every line or failed; no line is in a log that
\* the report has not seen.
THEOREM NothingIsLost == PipelineSpec => []NoLineLost
<1>1. TypeOK /\ PipelineIInv => NoLineLost
  <2> SUFFICES ASSUME TypeOK, PipelineIInv PROVE NoLineLost
    OBVIOUS
  <2>1. Len(stream) \in Nat
    BY DEF TypeOK
  <2>2. ASSUME caller = "returned"
        PROVE  /\ Len(stream) = total /\ pc = "closed"
               /\ reporter = "gone" /\ report \in {NoReport, total}
    <3>1. splitter \in {"closingPipe", "gone"} /\ reporter = "gone"
      BY <2>2 DEF PipelineIInv, SplitterIInv, ReporterIInv
    <3>2. pc = "closed" /\ unread = 0 /\ buffered = 0 /\ chunk = 0 /\ report \in {NoReport, parsed}
      BY <3>1 DEF PipelineIInv, SplitterIInv, ReporterIInv
    <3>3. Len(stream) = parsed /\ parsed = total
      BY <2>1, <3>2 DEF PipelineIInv, Flow
    <3> QED BY <3>1, <3>2, <3>3
  <2> QED BY <2>2 DEF PipelineIInv, Flow, NoLineLost
<1> QED BY <1>1, PipelineInvariance, PipelineRunsParser, TypeCorrect, PTL

=============================================================================
