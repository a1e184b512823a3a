-------------------------- MODULE TestStages_proofs --------------------------
(***************************************************************************)
(* Proofs about the test stages, for any number of processes: whatever is  *)
(* skipped, fails or is killed, what stays deployed can be torn down, and  *)
(* a process that skips nothing cleans up after its own failures.          *)
(***************************************************************************)
EXTENDS TestStages, TLAPS

Names == {"create", "save", "write", "load", "apply", "check", "destroy", "delete"}
CallRecords == [stage : Stages, key : Keys, name : Names]

-----------------------------------------------------------------------------
(* The order of the calls *)

TheCalls == {Setup[i] : i \in 1 .. 6} \union {Validate[i] : i \in 1 .. 3}
              \union {Teardown[i] : i \in 1 .. 4}

\* Call d may come right after call c.
Follows(c, d) ==
  \/ \E i \in 1 .. 5 : c = Setup[i] /\ d = Setup[i + 1]
  \/ \E i \in 1 .. 2 : c = Validate[i] /\ d = Validate[i + 1]
  \/ \E i \in 1 .. 3 : c = Teardown[i] /\ d = Teardown[i + 1]
  \/ c = Setup[6] /\ d = Validate[1]
  \/ c \in {Setup[6], Validate[3]} /\ d = Teardown[1]

\* The calls of s are made in the order of the code.
InOrder(s) ==
  /\ s \in Seq(CallRecords)
  /\ \A i \in DOMAIN s : s[i] \in TheCalls
  /\ \A i \in 1 .. Len(s) - 1 : Follows(s[i], s[i + 1])

EndsWithDelete(s) == s # <<>> => s[Len(s)].name = "delete"

\* What the name of a call tells of the rest of it.
LEMMA CallFields ==
  ASSUME NEW c \in TheCalls
  PROVE  /\ c \in CallRecords
         /\ c.stage = "setup" <=> c.name \in {"create", "save", "write", "apply"}
         /\ c.name = "check" => c.stage = "validate"
         /\ c.name \in {"destroy", "delete"} => c.stage = "teardown"
         /\ c.name \in {"apply", "check", "destroy"} => c.key = "options"
         /\ c.name \in {"create", "delete"} => c.key = "keyPair"
BY DEF TheCalls, CallRecords, Setup, Validate, Teardown, Call, Stages, Keys, Names

\* What comes after a call.
LEMMA CallOrder ==
  ASSUME NEW c, NEW d, Follows(c, d)
  PROVE  /\ c.name = "create" => d.name = "save" /\ d.key = "options"
         /\ c.name = "save" => d.name = "write" /\ d.key = c.key
         /\ c.name = "write" /\ c.key = "options" => d.name = "save" /\ d.key = "keyPair"
         /\ c.name = "write" /\ c.key = "keyPair" => d.name = "apply"
         /\ c.name \in {"apply", "check"} => d.name = "load" /\ d.key = "options"
         /\ c.stage = "validate" => d.name \in {"load", "check"}
         /\ c.stage = "validate" /\ d.stage = "teardown" => d.name = "load" /\ d.key = "options"
         /\ c.stage = "teardown" /\ c.name = "load" /\ c.key = "options" => d.name = "destroy"
         /\ c.name = "destroy" => d.stage = "teardown" /\ d.name = "load" /\ d.key = "keyPair"
         /\ c.stage = "teardown" /\ c.name = "load" /\ c.key = "keyPair" => d.name = "delete"
         /\ c.name # "delete"
         /\ d.stage = "setup" => c.stage = "setup"
         /\ c.stage = "teardown" => d.stage = "teardown"
BY DEF Follows, Setup, Validate, Teardown, Call

LEMMA TailIsInOrder ==
  ASSUME NEW s, InOrder(s), s # <<>>
  PROVE  /\ Head(s) \in TheCalls
         /\ InOrder(Tail(s))
         /\ Tail(s) # <<>> => Follows(Head(s), Head(Tail(s)))
         /\ Tail(s) = <<>> => Head(s) = s[Len(s)]
         /\ EndsWithDelete(s) => EndsWithDelete(Tail(s))
<1>1. /\ Len(s) \in Nat \ {0} /\ Head(s) = s[1] /\ 1 \in DOMAIN s
      /\ Tail(s) \in Seq(CallRecords) /\ Len(Tail(s)) = Len(s) - 1
      /\ \A i \in 1 .. Len(s) - 1 : Tail(s)[i] = s[i + 1] /\ i + 1 \in DOMAIN s
      /\ DOMAIN Tail(s) = 1 .. Len(s) - 1
      /\ DOMAIN s = 1 .. Len(s)
  BY DEF InOrder
<1>2. Head(s) \in TheCalls
  BY <1>1 DEF InOrder
<1>3. InOrder(Tail(s))
  <2>1. \A i \in DOMAIN Tail(s) : Tail(s)[i] \in TheCalls
    BY <1>1 DEF InOrder
  <2>2. ASSUME NEW i \in 1 .. Len(Tail(s)) - 1 PROVE Follows(Tail(s)[i], Tail(s)[i + 1])
    <3>1. i + 1 \in 1 .. Len(s) - 1 /\ Follows(s[i + 1], s[i + 1 + 1])
      BY <1>1 DEF InOrder
    <3>2. Tail(s)[i] = s[i + 1] /\ Tail(s)[i + 1] = s[i + 1 + 1]
      BY <1>1, <3>1
    <3> QED BY <3>1, <3>2
  <2> QED BY <1>1, <2>1, <2>2 DEF InOrder
<1>4. ASSUME Tail(s) # <<>> PROVE Follows(Head(s), Head(Tail(s)))
  <2>1. Len(s) > 1
    BY <1>1, <1>4
  <2>2. Head(Tail(s)) = s[1 + 1] /\ Follows(s[1], s[1 + 1])
    BY <1>1, <1>4, <2>1 DEF InOrder
  <2> QED BY <1>1, <2>2
<1>5. ASSUME Tail(s) = <<>> PROVE Head(s) = s[Len(s)]
  <2>1. DOMAIN Tail(s) = {}
    BY <1>5
  <2>2. Len(s) = 1
    <3>1. 1 \notin 1 .. Len(s) - 1
      BY <1>1, <2>1
    <3> QED BY <1>1, <3>1
  <2> QED BY <1>1, <2>2
<1>6. ASSUME EndsWithDelete(s) PROVE EndsWithDelete(Tail(s))
  <2>1. CASE Tail(s) = <<>>
    BY <2>1 DEF EndsWithDelete
  <2>2. CASE Tail(s) # <<>>
    <3>1. Len(s) - 1 \in 1 .. Len(s) - 1
      BY <1>1, <2>2
    <3>2. Tail(s)[Len(s) - 1] = s[(Len(s) - 1) + 1] /\ (Len(s) - 1) + 1 = Len(s)
      BY <1>1, <3>1
    <3> QED BY <1>1, <1>6, <3>2 DEF EndsWithDelete
  <2> QED BY <2>1, <2>2
<1> QED BY <1>2, <1>3, <1>4, <1>5, <1>6

LEMMA JoinedInOrder ==
  ASSUME NEW s, NEW t, InOrder(s), InOrder(t),
         s # <<>> /\ t # <<>> => Follows(s[Len(s)], t[1])
  PROVE  InOrder(s \o t)
<1>1. /\ s \o t \in Seq(CallRecords) /\ Len(s \o t) = Len(s) + Len(t)
      /\ Len(s) \in Nat /\ Len(t) \in Nat
      /\ \A i \in 1 .. Len(s) : (s \o t)[i] = s[i]
      /\ \A i \in 1 .. Len(t) : (s \o t)[Len(s) + i] = t[i]
  BY DEF InOrder
<1>2. ASSUME NEW i \in DOMAIN (s \o t) PROVE (s \o t)[i] \in TheCalls
  <2>1. CASE i \in 1 .. Len(s)
    BY <1>1, <2>1 DEF InOrder
  <2>2. CASE i \notin 1 .. Len(s)
    <3>1. PICK j \in 1 .. Len(t) : i = Len(s) + j
      <4>1. i \in 1 .. Len(s) + Len(t)
        BY <1>1
      <4>2. i - Len(s) \in 1 .. Len(t) /\ i = Len(s) + (i - Len(s))
        BY <1>1, <4>1, <2>2
      <4> QED BY <4>2
    <3> QED BY <1>1, <3>1 DEF InOrder
  <2> QED BY <2>1, <2>2
<1>3. ASSUME NEW i \in 1 .. Len(s \o t) - 1 PROVE Follows((s \o t)[i], (s \o t)[i + 1])
  <2>1. CASE i < Len(s)
    <3>1. i \in 1 .. Len(s) - 1 /\ i \in 1 .. Len(s) /\ i + 1 \in 1 .. Len(s)
      BY <1>1, <2>1
    <3> QED BY <1>1, <3>1 DEF InOrder
  <2>2. CASE i = Len(s)
    <3>1. Len(s) # 0 /\ Len(t) # 0 /\ 1 \in 1 .. Len(t) /\ i \in 1 .. Len(s)
      BY <1>1, <2>2
    <3>2. s # <<>> /\ t # <<>>
      BY <3>1
    <3> QED BY <1>1, <2>2, <3>1, <3>2
  <2>3. CASE i > Len(s)
    <3>1. PICK j \in 1 .. Len(t) - 1 : i = Len(s) + j
      <4>1. i - Len(s) \in 1 .. Len(t) - 1 /\ i = Len(s) + (i - Len(s))
        BY <1>1, <2>3
      <4> QED BY <4>1
    <3>2. j \in 1 .. Len(t) /\ j + 1 \in 1 .. Len(t) /\ i + 1 = Len(s) + (j + 1)
      BY <1>1, <3>1
    <3>3. (s \o t)[i] = t[j] /\ (s \o t)[i + 1] = t[j + 1]
      BY <1>1, <3>1, <3>2
    <3> QED BY <3>1, <3>3 DEF InOrder
  <2> QED BY <1>1, <2>1, <2>2, <2>3
<1> QED BY <1>1, <1>2, <1>3 DEF InOrder

\* Each stage by itself.
LEMMA StagesInOrder ==
  /\ InOrder(Setup) /\ Len(Setup) = 6
  /\ InOrder(Validate) /\ Len(Validate) = 3
  /\ InOrder(Teardown) /\ Len(Teardown) = 4
  /\ InOrder(<<>>)
<1>1. InOrder(Setup) /\ Len(Setup) = 6
  <2>1. Setup \in Seq(CallRecords) /\ Len(Setup) = 6
    BY DEF Setup, Call, CallRecords, Stages, Keys, Names
  <2> QED BY <2>1 DEF InOrder, TheCalls, Follows
<1>2. InOrder(Validate) /\ Len(Validate) = 3
  <2>1. Validate \in Seq(CallRecords) /\ Len(Validate) = 3
    BY DEF Validate, Call, CallRecords, Stages, Keys, Names
  <2> QED BY <2>1 DEF InOrder, TheCalls, Follows
<1>3. InOrder(Teardown) /\ Len(Teardown) = 4
  <2>1. Teardown \in Seq(CallRecords) /\ Len(Teardown) = 4
    BY DEF Teardown, Call, CallRecords, Stages, Keys, Names
  <2> QED BY <2>1 DEF InOrder, TheCalls, Follows
<1>4. InOrder(<<>>)
  <2>1. \A S : <<>> \in Seq(S)
    OBVIOUS
  <2> QED BY <2>1 DEF InOrder
<1> QED BY <1>1, <1>2, <1>3, <1>4

\* The calls of a process are in order, and so is its deferred teardown.
LEMMA CallsOfInOrder ==
  ASSUME NEW skipped \in SUBSET Stages
  PROVE  /\ InOrder(CallsOf(skipped))
         /\ InOrder(Deferred(skipped))
         /\ CallsOf(skipped) # <<>> =>
              \/ Head(CallsOf(skipped)) = Setup[1] /\ "setup" \notin skipped
              \/ Head(CallsOf(skipped)) \in {Validate[1], Teardown[1]} /\ skipped # {}
         /\ Deferred(skipped) # <<>> => Head(Deferred(skipped)) = Teardown[1]
         /\ skipped = {} =>
              /\ CallsOf(skipped) # <<>> /\ EndsWithDelete(CallsOf(skipped))
              /\ Deferred(skipped) # <<>> /\ EndsWithDelete(Deferred(skipped))
<1> DEFINE a == Unless("setup", skipped, Setup)
           b == Unless("validate", skipped, Validate)
           d == Deferred(skipped)
<1>1. /\ InOrder(a) /\ a \in {<<>>, Setup} /\ (a = Setup <=> "setup" \notin skipped)
      /\ InOrder(b) /\ b \in {<<>>, Validate} /\ (b = Validate <=> "validate" \notin skipped)
      /\ InOrder(d) /\ d \in {<<>>, Teardown} /\ (d = Teardown <=> "teardown" \notin skipped)
      /\ Setup # <<>> /\ Validate # <<>> /\ Teardown # <<>>
  <2>1. Setup # <<>> /\ Validate # <<>> /\ Teardown # <<>>
    BY StagesInOrder
  <2> QED BY <2>1, StagesInOrder DEF Unless, Deferred
<1>2. CallsOf(skipped) = (a \o b) \o d
  BY DEF CallsOf
<1>3. /\ a \in Seq(CallRecords) /\ b \in Seq(CallRecords) /\ d \in Seq(CallRecords)
      /\ (a = <<>> \/ Len(a) = 6) /\ (b = <<>> \/ Len(b) = 3) /\ (d = <<>> \/ Len(d) = 4)
  BY <1>1, StagesInOrder DEF InOrder
<1> HIDE DEF a, b, d
<1>4. InOrder(a \o b)
  <2>1. ASSUME a # <<>>, b # <<>> PROVE Follows(a[Len(a)], b[1])
    BY <1>1, <2>1, StagesInOrder DEF Follows
  <2> QED BY <1>1, <2>1, JoinedInOrder
<1>5. a \o b # <<>> /\ d # <<>> => Follows((a \o b)[Len(a \o b)], d[1])
  <2> SUFFICES ASSUME a \o b # <<>>, d # <<>> PROVE Follows((a \o b)[Len(a \o b)], d[1])
    OBVIOUS
  <2>1. CASE b # <<>>
    <3>1. b = Validate /\ Len(b) = 3
      BY <1>1, <1>3, <2>1
    <3>2. Len(a \o b) = Len(a) + 3 /\ (a \o b)[Len(a) + 3] = b[3]
      <4>1. ASSUME NEW S, NEW s \in Seq(S), NEW t \in Seq(S), Len(t) = 3
            PROVE  Len(s \o t) = Len(s) + 3 /\ (s \o t)[Len(s) + 3] = t[3]
        <5>1. Len(s \o t) = Len(s) + Len(t) /\ Len(s) \in Nat
          OBVIOUS
        <5>2. \A i \in 1 .. Len(s) + Len(t) : i > Len(s) => (s \o t)[i] = t[i - Len(s)]
          OBVIOUS
        <5>3. Len(s) + 3 \in 1 .. Len(s) + Len(t) /\ (Len(s) + 3) - Len(s) = 3
          BY <4>1, <5>1
        <5> QED BY <4>1, <5>1, <5>2, <5>3
      <4> QED BY <1>3, <3>1, <4>1
    <3>3. d = Teardown
      BY <1>1
    <3> QED BY <3>1, <3>2, <3>3 DEF Follows
  <2>2. CASE b = <<>>
    <3>1. a = Setup /\ Len(a) = 6 /\ a \o b = a
      BY <1>1, <1>3, <2>2
    <3> QED BY <1>1, <3>1 DEF Follows
  <2> QED BY <2>1, <2>2
<1>6. InOrder((a \o b) \o d)
  BY <1>1, <1>4, <1>5, JoinedInOrder
<1>7. ASSUME (a \o b) \o d # <<>>
      PROVE  \/ Head((a \o b) \o d) = Setup[1] /\ "setup" \notin skipped
             \/ Head((a \o b) \o d) \in {Validate[1], Teardown[1]} /\ skipped # {}
  <2>1. CASE a # <<>>
    <3>1. Head((a \o b) \o d) = a[1]
      BY <1>3, <2>1
    <3> QED BY <1>1, <2>1, <3>1
  <2>2. CASE a = <<>> /\ b # <<>>
    <3>1. Head((a \o b) \o d) = b[1]
      BY <1>3, <2>2
    <3> QED BY <1>1, <2>2, <3>1
  <2>3. CASE a = <<>> /\ b = <<>>
    <3>1. (a \o b) \o d = d /\ d # <<>> /\ Head(d) = d[1]
      BY <1>3, <2>3, <1>7
    <3> QED BY <1>1, <2>3, <3>1
  <2> QED BY <2>1, <2>2, <2>3
<1>8. d # <<>> => Head(d) = Teardown[1]
  <2>1. d # <<>> => Head(d) = d[1]
    BY <1>3
  <2>2. d # <<>> => d = Teardown
    BY <1>1
  <2> QED BY <2>1, <2>2
<1>9. ASSUME skipped = {}
      PROVE  /\ (a \o b) \o d # <<>> /\ EndsWithDelete((a \o b) \o d)
             /\ d # <<>> /\ EndsWithDelete(d)
  <2>1. d = Teardown /\ Len(d) = 4
    BY <1>1, <1>9, StagesInOrder
  <2>2. d[4].name = "delete"
    BY <2>1 DEF Teardown, Call
  <2>3. d # <<>> /\ (a \o b) \o d # <<>> /\ ((a \o b) \o d)[Len((a \o b) \o d)] = d[4]
    <3>1. ASSUME NEW p \in Seq(CallRecords)
          PROVE  /\ Len(p \o d) = Len(p) + 4 /\ (p \o d)[Len(p) + 4] = d[4]
                 /\ p \o d # <<>> /\ d # <<>>
      <4>1. Len(p) \in Nat /\ Len(p \o d) = Len(p) + Len(d)
        BY <1>3
      <4>2. \A i \in 1 .. Len(p) + 4 : i > Len(p) => (p \o d)[i] = d[i - Len(p)]
        BY <1>3, <2>1, <4>1
      <4>3. Len(p) + 4 \in 1 .. Len(p) + 4 /\ Len(p) + 4 > Len(p) /\ (Len(p) + 4) - Len(p) = 4
        BY <4>1
      <4>4. Len(p \o d) # 0 /\ Len(d) # 0
        BY <2>1, <4>1
      <4> QED BY <2>1, <4>1, <4>2, <4>3, <4>4
    <3>2. a \o b \in Seq(CallRecords)
      BY <1>3
    <3> QED BY <3>1, <3>2
  <2> QED BY <2>1, <2>2, <2>3 DEF EndsWithDelete
<1> QED BY <1>1, <1>2, <1>6, <1>7, <1>8, <1>9 DEF d

-----------------------------------------------------------------------------
(* The invariant *)

\* The types of the variables; InOrder says what todo can be.
Types ==
  /\ runs \in 0 .. MaxRuns
  /\ alive \in BOOLEAN /\ killed \in BOOLEAN
  /\ skip \in SUBSET Stages
  /\ memory \in [Keys -> Ids \union {None}]
  /\ faults \in SUBSET Names
  /\ files \in [Folders -> [Keys -> Contents]]
  /\ state \in [Folders -> Ids \union {None}]
  /\ deployed \in SUBSET Ids /\ keyPairs \in SUBSET Ids

CallsInOrder ==
  /\ InOrder(todo)
  /\ ~alive => todo = <<>>
  /\ todo # <<>> => runs > 0
  /\ skip = {} => EndsWithDelete(todo)

\* What exists was made by a process that has started.
MadeByThen ==
  /\ deployed \union keyPairs \subseteq 1 .. runs
  /\ state["original"] \in (1 .. runs) \union {None}

\* What the calls before c have done: setup works where nothing is deployed and
\* saves all before it applies; teardown gets to the key pair only after
\* destroy.
Prepared(c) ==
  /\ c.stage = "setup" =>
       /\ skip # {} => state["original"] = None
       /\ c.name # "create" => (\A k \in Keys : memory[k] = runs) /\ runs \in keyPairs
       /\ c.name \in {"save", "write"} /\ c.key = "keyPair" => files[Folder]["options"] = runs
       /\ c.name = "apply" => \A k \in Keys : files[Folder][k] = runs
  /\ c.name \in {"destroy", "delete"} => memory[c.key] # None
  /\ c.stage = "teardown" /\ c.key = "keyPair" /\ skip # {} => state["original"] = None

NextIsPrepared == todo # <<>> => Prepared(Head(todo))

\* A process that skips nothing sees only what it has made itself, and nothing
\* of it is in the original folder.
CopyIsOwn ==
  skip = {} /\ runs > 0 =>
    /\ \A k \in Keys : files["temp"][k] \in {runs, Absent, Empty, Corrupt}
    /\ \A k \in Keys : memory[k] \in {runs, None}
    /\ state["temp"] \in {runs, None}
    /\ state["original"] # runs

\* As long as only apply and check have failed, its teardown will find, or has
\* found, all that the process has made.
CleanSoFar ==
  skip = {} /\ runs > 0 /\ ~killed /\ faults \subseteq {"apply", "check"} =>
    /\ runs \in deployed => state["temp"] = runs
    /\ todo = <<>> => runs \notin deployed \union keyPairs
    /\ todo # <<>> /\ Head(todo).stage # "setup" => \A k \in Keys : files["temp"][k] = runs
    /\ todo # <<>> /\ Head(todo).stage = "teardown" /\ Head(todo).key = "keyPair" =>
         runs \notin deployed

IInv ==
  /\ Types /\ CallsInOrder /\ MadeByThen /\ NextIsPrepared
  /\ CopyIsOwn /\ CleanSoFar /\ DeploymentIsRecorded

LEMMA InitIInv == Init => IInv
<1> SUFFICES ASSUME Init PROVE IInv
  OBVIOUS
<1>1. Types
  <2>1. runs \in 0 .. MaxRuns
    BY TestStagesAssumption DEF Init
  <2>5. alive \in BOOLEAN /\ killed \in BOOLEAN
    BY DEF Init
  <2>2. memory \in [Keys -> Ids \union {None}] /\ state \in [Folders -> Ids \union {None}]
    BY DEF Init
  <2>3. files \in [Folders -> [Keys -> Contents]]
    BY DEF Init, Contents
  <2>4. /\ skip \in SUBSET Stages /\ faults \in SUBSET Names
        /\ deployed \in SUBSET Ids /\ keyPairs \in SUBSET Ids
    BY DEF Init
  <2> QED BY <2>1, <2>2, <2>3, <2>4, <2>5 DEF Types
<1>2. CallsInOrder
  BY StagesInOrder DEF Init, CallsInOrder, EndsWithDelete
<1>3. MadeByThen /\ NextIsPrepared /\ CopyIsOwn /\ CleanSoFar /\ DeploymentIsRecorded
  BY DEF Init, MadeByThen, NextIsPrepared, CopyIsOwn, CleanSoFar, DeploymentIsRecorded, Folders
<1> QED BY <1>1, <1>2, <1>3 DEF IInv

\* What a call that returns, or fails, leaves to do.
LEMMA CallEnds ==
  ASSUME Types, CallsInOrder, todo # <<>>, NEW c, c = Head(todo)
  PROVE  /\ c \in TheCalls /\ alive /\ runs > 0
         /\ Done => /\ CallsInOrder'
                    /\ UNCHANGED <<runs, skip, alive, faults, killed>>
                    /\ todo' # <<>> => Follows(c, Head(todo'))
                    /\ todo' = <<>> /\ skip = {} => c.name = "delete"
         /\ Fail => /\ CallsInOrder'
                    /\ UNCHANGED <<runs, skip, alive, killed>>
                    /\ faults' = faults \union {c.name} /\ faults' \in SUBSET Names
                    /\ todo' # <<>> => c.stage # "teardown" /\ Head(todo') = Teardown[1]
                    /\ todo' = <<>> /\ skip = {} => c.stage = "teardown"
<1> USE DEF processVars
<1>1. c \in TheCalls /\ alive /\ runs > 0
  BY TailIsInOrder DEF CallsInOrder
<1>2. ASSUME Done
      PROVE  /\ CallsInOrder'
             /\ UNCHANGED <<runs, skip, alive, faults, killed>>
             /\ todo' # <<>> => Follows(c, Head(todo'))
             /\ todo' = <<>> /\ skip = {} => c.name = "delete"
  <2>1. todo' = Tail(todo) /\ UNCHANGED <<runs, skip, alive, faults, killed>>
    BY <1>2 DEF Done
  <2>2. InOrder(todo)
    BY DEF CallsInOrder
  <2>3. /\ InOrder(Tail(todo))
        /\ Tail(todo) # <<>> => Follows(c, Head(Tail(todo)))
        /\ Tail(todo) = <<>> => c = todo[Len(todo)]
        /\ EndsWithDelete(todo) => EndsWithDelete(Tail(todo))
    BY <2>2, TailIsInOrder
  <2>4. CallsInOrder'
    <3>1. InOrder(todo') /\ (skip' = {} => EndsWithDelete(todo'))
      BY <2>1, <2>3 DEF CallsInOrder
    <3> QED BY <1>1, <2>1, <3>1 DEF CallsInOrder
  <2>5. todo' = <<>> /\ skip = {} => c.name = "delete"
    BY <2>1, <2>3 DEF CallsInOrder, EndsWithDelete
  <2> QED BY <2>1, <2>3, <2>4, <2>5
<1>3. ASSUME Fail
      PROVE  /\ CallsInOrder'
             /\ UNCHANGED <<runs, skip, alive, killed>>
             /\ faults' = faults \union {c.name} /\ faults' \in SUBSET Names
             /\ todo' # <<>> => c.stage # "teardown" /\ Head(todo') = Teardown[1]
             /\ todo' = <<>> /\ skip = {} => c.stage = "teardown"
  <2>1. /\ todo' = IF c.stage = "teardown" THEN <<>> ELSE Deferred(skip)
        /\ UNCHANGED <<runs, skip, alive, killed>>
        /\ faults' = faults \union {c.name}
    BY <1>3 DEF Fail
  <2>2. /\ InOrder(Deferred(skip))
        /\ Deferred(skip) # <<>> => Head(Deferred(skip)) = Teardown[1]
        /\ skip = {} => Deferred(skip) # <<>> /\ EndsWithDelete(Deferred(skip))
    BY CallsOfInOrder DEF Types
  <2>3. c.name \in Names
    BY <1>1, CallFields DEF CallRecords
  <2>4. CallsInOrder'
    <3>1. InOrder(todo') /\ (skip' = {} => EndsWithDelete(todo'))
      BY <2>1, <2>2, StagesInOrder DEF EndsWithDelete
    <3> QED BY <1>1, <2>1, <3>1 DEF CallsInOrder
  <2> QED BY <2>1, <2>2, <2>3, <2>4 DEF Types
<1> QED BY <1>1, <1>2, <1>3

\* What is known of the next call, and of the one after it.
LEMMA CallIsKnown ==
  ASSUME IInv, NEW n, Doing(n), NEW c, c = Head(todo)
  PROVE  /\ todo # <<>> /\ alive /\ runs > 0 /\ runs \in Ids
         /\ c \in TheCalls /\ c.name = n /\ c.key \in Keys /\ Prepared(c)
         /\ c.stage = "setup" <=> n \in {"create", "save", "write", "apply"}
         /\ Done /\ todo' # <<>> => Follows(c, Head(todo'))
<1>1. Types /\ CallsInOrder /\ NextIsPrepared /\ todo # <<>> /\ c.name = n
  BY DEF IInv, Doing
<1>2. /\ c \in TheCalls /\ alive /\ runs > 0
      /\ Done /\ todo' # <<>> => Follows(c, Head(todo'))
  BY <1>1, CallEnds
<1>3. runs \in Ids
  BY <1>1, <1>2, TestStagesAssumption DEF Types, Ids
<1>4. c.key \in Keys /\ (c.stage = "setup" <=> n \in {"create", "save", "write", "apply"})
  BY <1>1, <1>2, CallFields DEF CallRecords
<1>5. Prepared(c)
  BY <1>1 DEF NextIsPrepared
<1> QED BY <1>1, <1>2, <1>3, <1>4, <1>5

\* The first call of the teardown asks for nothing.
LEMMA TeardownStarts ==
  /\ Teardown[1].stage = "teardown"
  /\ Teardown[1].name = "load"
  /\ Teardown[1].key = "options"
BY DEF Teardown, Call

\* A call that fails and changes nothing else.
LEMMA FailureKeeps ==
  ASSUME IInv, todo # <<>>, Fail, UNCHANGED <<memory, files, state, deployed, keyPairs>>
  PROVE  IInv'
<1> PICK c : c = Head(todo)
  OBVIOUS
<1>1. Types /\ CallsInOrder /\ Prepared(c)
  BY DEF IInv, NextIsPrepared
<1>2. /\ c \in TheCalls /\ alive /\ runs > 0
      /\ CallsInOrder'
      /\ UNCHANGED <<runs, skip, alive, killed>>
      /\ faults' = faults \union {c.name} /\ faults' \in SUBSET Names
      /\ todo' # <<>> => c.stage # "teardown" /\ Head(todo') = Teardown[1]
      /\ todo' = <<>> /\ skip = {} => c.stage = "teardown"
  BY <1>1, CallEnds
<1>3. Types'
  BY <1>1, <1>2 DEF Types
<1>4. NextIsPrepared'
  BY <1>2, TeardownStarts DEF NextIsPrepared, Prepared
<1>5. MadeByThen' /\ CopyIsOwn' /\ DeploymentIsRecorded'
  BY <1>2 DEF IInv, MadeByThen, CopyIsOwn, DeploymentIsRecorded
<1>6. CleanSoFar'
  <2> SUFFICES ASSUME skip = {}, runs > 0, ~killed, faults' \subseteq {"apply", "check"}
               PROVE  /\ runs \in deployed => state["temp"] = runs
                      /\ todo' # <<>>
                      /\ \A k \in Keys : files["temp"][k] = runs
                      /\ Head(todo').key # "keyPair"
    BY <1>2 DEF CleanSoFar
  <2>1. c.name \in {"apply", "check"} /\ faults \subseteq {"apply", "check"}
    BY <1>2
  <2>2. c.stage # "teardown" /\ (c.stage = "setup" => c.name = "apply")
    BY <1>2, <2>1, CallFields
  <2>3. todo' # <<>> /\ Head(todo').key # "keyPair"
    BY <1>2, <2>2, TeardownStarts
  <2>4. \A k \in Keys : files["temp"][k] = runs
    BY <1>1, <2>1, <2>2 DEF IInv, CleanSoFar, Prepared, Folder
  <2>5. runs \in deployed => state["temp"] = runs
    BY <2>1 DEF IInv, CleanSoFar
  <2> QED BY <2>3, <2>4, <2>5
<1> QED BY <1>2, <1>3, <1>4, <1>5, <1>6 DEF IInv

-----------------------------------------------------------------------------
(* The calls, one by one *)

LEMMA CreateKeeps == IInv /\ Create => IInv'
<1> SUFFICES ASSUME IInv, Create PROVE IInv'
  OBVIOUS
<1> PICK c : c = Head(todo)
  OBVIOUS
<1>1. /\ todo # <<>> /\ runs > 0 /\ runs \in Ids
      /\ c \in TheCalls /\ c.name = "create" /\ Prepared(c) /\ c.stage = "setup"
  BY CallIsKnown DEF Create
<1>2. CASE Fail /\ UNCHANGED <<memory, keyPairs>>
  BY <1>1, <1>2, FailureKeeps DEF Create
<1>3. CASE Done /\ memory' = [k \in Keys |-> runs] /\ keyPairs' = keyPairs \union {runs}
  <2>1. Types /\ CallsInOrder /\ UNCHANGED <<files, state, deployed>>
    BY DEF IInv, Create
  <2>2. /\ CallsInOrder' /\ UNCHANGED <<runs, skip, alive, faults, killed>>
        /\ todo' # <<>> => Follows(c, Head(todo'))
        /\ todo' # <<>> \/ skip # {}
    BY <1>1, <1>3, <2>1, CallEnds
  <2>3. Types'
    BY <1>1, <1>3, <2>1, <2>2 DEF Types
  <2>4. ASSUME todo' # <<>>, NEW d, d = Head(todo')
        PROVE  d.name = "save" /\ d.key = "options" /\ d.stage = "setup" /\ Prepared(d)'
    <3>1. d \in TheCalls /\ Follows(c, d)
      BY <2>2, <2>4, TailIsInOrder DEF CallsInOrder
    <3>2. d.name = "save" /\ d.key = "options" /\ d.stage = "setup"
      BY <1>1, <3>1, CallOrder, CallFields
    <3> QED BY <1>1, <1>3, <2>1, <2>2, <3>2 DEF Prepared
  <2>5. NextIsPrepared'
    BY <2>4 DEF NextIsPrepared
  <2>6. MadeByThen'
    BY <1>1, <1>3, <2>1, <2>2 DEF IInv, MadeByThen, Ids
  <2>7. CopyIsOwn' /\ DeploymentIsRecorded'
    BY <1>3, <2>1, <2>2 DEF IInv, CopyIsOwn, DeploymentIsRecorded
  <2>8. CleanSoFar'
    BY <2>1, <2>2, <2>4 DEF IInv, CleanSoFar
  <2> QED BY <2>2, <2>3, <2>5, <2>6, <2>7, <2>8 DEF IInv
<1> QED BY <1>2, <1>3 DEF Create

\* Save and Write put something in a file of the folder where setup works.
LEMMA PutKeeps ==
  ASSUME IInv, todo # <<>>, NEW c, c = Head(todo), c.stage = "setup", Prepared(c), runs > 0,
         NEW content \in {runs, Empty, Corrupt}, runs \in Ids, c.key \in Keys,
         Put(c.key, content), UNCHANGED <<runs, skip, state, memory, deployed, keyPairs>>
  PROVE  /\ files' \in [Folders -> [Keys -> Contents]]
         /\ files'[Folder] = [files[Folder] EXCEPT ![c.key] = content]
         /\ MadeByThen' /\ CopyIsOwn' /\ DeploymentIsRecorded'
<1>1. Types
  BY DEF IInv
<1>2. content \in Contents /\ Folder \in Folders
  BY DEF Contents, Folder, Folders
<1>3. files' = [files EXCEPT ![Folder][c.key] = content]
  BY DEF Put
<1>4. files' \in [Folders -> [Keys -> Contents]]
  BY <1>1, <1>2, <1>3 DEF Types
<1>5. files'[Folder] = [files[Folder] EXCEPT ![c.key] = content]
  BY <1>1, <1>2, <1>3 DEF Types
<1>6. MadeByThen'
  BY DEF IInv, MadeByThen
<1>7. CopyIsOwn'
  <2>1. skip = {} => \A k \in Keys : files'["temp"][k] \in {files["temp"][k], content}
    BY <1>1, <1>2, <1>3 DEF Types, Folder
  <2> QED BY <2>1 DEF IInv, CopyIsOwn
<1>8. DeploymentIsRecorded'
  <2>1. CASE skip = {}
    <3>1. files'["original"] = files["original"]
      BY <1>1, <1>2, <1>3, <2>1 DEF Types, Folder, Folders
    <3> QED BY <3>1 DEF IInv, DeploymentIsRecorded
  <2>2. CASE skip # {}
    <3>1. state["original"] = None
      BY <2>2 DEF Prepared
    <3> QED BY <3>1 DEF DeploymentIsRecorded
  <2> QED BY <2>1, <2>2
<1> QED BY <1>4, <1>5, <1>6, <1>7, <1>8

LEMMA SaveKeeps == IInv /\ Save => IInv'
<1> SUFFICES ASSUME IInv, Save PROVE IInv'
  OBVIOUS
<1> PICK c : c = Head(todo)
  OBVIOUS
<1>1. /\ todo # <<>> /\ runs > 0 /\ runs \in Ids /\ c.key \in Keys
      /\ c \in TheCalls /\ c.name = "save" /\ Prepared(c) /\ c.stage = "setup"
  BY CallIsKnown DEF Save
<1>2. CASE Fail /\ UNCHANGED files
  BY <1>1, <1>2, FailureKeeps DEF Save, awsVars
<1>3. CASE Done /\ Put(c.key, Empty)
  <2>1. Types /\ CallsInOrder /\ UNCHANGED <<memory, state, deployed, keyPairs>>
    BY DEF IInv, Save, awsVars
  <2>2. /\ CallsInOrder' /\ UNCHANGED <<runs, skip, alive, faults, killed>>
        /\ todo' # <<>> => Follows(c, Head(todo'))
        /\ todo' # <<>> \/ skip # {}
    BY <1>1, <1>3, <2>1, CallEnds
  <2>3. /\ files' \in [Folders -> [Keys -> Contents]]
        /\ files'[Folder] = [files[Folder] EXCEPT ![c.key] = Empty]
        /\ MadeByThen' /\ CopyIsOwn' /\ DeploymentIsRecorded'
    BY <1>1, <1>3, <2>1, <2>2, PutKeeps
  <2>4. Types'
    BY <2>1, <2>2, <2>3 DEF Types
  <2>5. ASSUME todo' # <<>>, NEW d, d = Head(todo')
        PROVE  d.name = "write" /\ d.stage = "setup" /\ Prepared(d)'
    <3>1. d \in TheCalls /\ Follows(c, d)
      BY <2>2, <2>5, TailIsInOrder DEF CallsInOrder
    <3>2. d.name = "write" /\ d.key = c.key /\ d.stage = "setup"
      BY <1>1, <3>1, CallOrder, CallFields
    <3>3. Folder' = Folder /\ Folder \in Folders
      BY <2>2 DEF Folder, Folders
    <3>4. d.key = "keyPair" => files'[Folder]["options"] = files[Folder]["options"]
      BY <2>1, <2>3, <3>2, <3>3 DEF Types, Keys
    <3> QED BY <1>1, <2>1, <2>2, <3>2, <3>3, <3>4 DEF Prepared
  <2>6. NextIsPrepared'
    BY <2>5 DEF NextIsPrepared
  <2>7. CleanSoFar'
    BY <2>1, <2>2, <2>5 DEF IInv, CleanSoFar
  <2> QED BY <2>2, <2>3, <2>4, <2>6, <2>7 DEF IInv
<1> QED BY <1>2, <1>3 DEF Save

LEMMA WriteKeeps == IInv /\ Write => IInv'
<1> SUFFICES ASSUME IInv, Write PROVE IInv'
  OBVIOUS
<1> PICK c : c = Head(todo)
  OBVIOUS
<1>1. /\ todo # <<>> /\ runs > 0 /\ runs \in Ids /\ c.key \in Keys
      /\ c \in TheCalls /\ c.name = "write" /\ Prepared(c) /\ c.stage = "setup"
  BY CallIsKnown DEF Write
<1>2. Types /\ CallsInOrder /\ UNCHANGED <<memory, state, deployed, keyPairs>>
  BY DEF IInv, Write, awsVars
<1>3. CASE Fail /\ \E content \in {Empty, Corrupt} : Put(c.key, content)
  <2>1. /\ CallsInOrder' /\ UNCHANGED <<runs, skip, alive, killed>>
        /\ faults' = faults \union {"write"} /\ faults' \in SUBSET Names
        /\ todo' # <<>> => Head(todo') = Teardown[1]
    BY <1>1, <1>2, <1>3, CallEnds
  <2>2. PICK content \in {Empty, Corrupt} : Put(c.key, content)
    BY <1>3
  <2>3. /\ files' \in [Folders -> [Keys -> Contents]]
        /\ MadeByThen' /\ CopyIsOwn' /\ DeploymentIsRecorded'
    BY <1>1, <1>2, <2>1, <2>2, PutKeeps
  <2>4. Types'
    BY <1>2, <2>1, <2>3 DEF Types
  <2>5. NextIsPrepared'
    BY <2>1, TeardownStarts DEF NextIsPrepared, Prepared
  <2>6. CleanSoFar'
    BY <2>1 DEF CleanSoFar
  <2> QED BY <2>1, <2>3, <2>4, <2>5, <2>6 DEF IInv
<1>4. CASE Done /\ Put(c.key, memory[c.key])
  <2>1. memory[c.key] = runs
    BY <1>1 DEF Prepared
  <2>2. /\ CallsInOrder' /\ UNCHANGED <<runs, skip, alive, faults, killed>>
        /\ todo' # <<>> => Follows(c, Head(todo'))
        /\ todo' # <<>> \/ skip # {}
    BY <1>1, <1>2, <1>4, CallEnds
  <2>3. /\ files' \in [Folders -> [Keys -> Contents]]
        /\ files'[Folder] = [files[Folder] EXCEPT ![c.key] = runs]
        /\ MadeByThen' /\ CopyIsOwn' /\ DeploymentIsRecorded'
    BY <1>1, <1>2, <1>4, <2>1, <2>2, PutKeeps
  <2>4. Types'
    BY <1>2, <2>2, <2>3 DEF Types
  <2>5. ASSUME todo' # <<>>, NEW d, d = Head(todo')
        PROVE  d.stage = "setup" /\ Prepared(d)'
    <3>1. d \in TheCalls /\ Follows(c, d)
      BY <2>2, <2>5, TailIsInOrder DEF CallsInOrder
    <3>2. Folder' = Folder /\ Folder \in Folders
      BY <2>2 DEF Folder, Folders
    <3>3. c.key \in {"options", "keyPair"}
      BY <1>1 DEF Keys
    <3>4. CASE c.key = "options"
      <4>1. d.name = "save" /\ d.key = "keyPair" /\ d.stage = "setup"
        BY <1>1, <3>1, <3>4, CallOrder, CallFields
      <4>2. files'[Folder]["options"] = runs
        BY <1>2, <2>3, <3>2, <3>4 DEF Types, Keys
      <4> QED BY <1>1, <1>2, <2>2, <3>2, <4>1, <4>2 DEF Prepared
    <3>5. CASE c.key = "keyPair"
      <4>1. d.name = "apply" /\ d.stage = "setup"
        BY <1>1, <3>1, <3>5, CallOrder, CallFields
      <4>2. files[Folder]["options"] = runs
        BY <1>1, <3>5 DEF Prepared
      <4>3. \A k \in Keys : files'[Folder][k] = runs
        BY <1>2, <2>3, <3>2, <3>5, <4>2 DEF Types, Keys
      <4> QED BY <1>1, <1>2, <2>2, <3>2, <4>1, <4>3 DEF Prepared
    <3> QED BY <3>3, <3>4, <3>5
  <2>6. NextIsPrepared'
    BY <2>5 DEF NextIsPrepared
  <2>7. CleanSoFar'
    BY <1>2, <2>2, <2>5 DEF IInv, CleanSoFar
  <2> QED BY <2>2, <2>3, <2>4, <2>6, <2>7 DEF IInv
<1> QED BY <1>3, <1>4 DEF Write

LEMMA LoadKeeps == IInv /\ Load => IInv'
<1> SUFFICES ASSUME IInv, Load PROVE IInv'
  OBVIOUS
<1> PICK c : c = Head(todo)
  OBVIOUS
<1>1. /\ todo # <<>> /\ runs > 0 /\ runs \in Ids /\ c.key \in Keys
      /\ c \in TheCalls /\ c.name = "load" /\ Prepared(c) /\ c.stage # "setup"
  BY CallIsKnown DEF Load
<1>2. Types /\ CallsInOrder /\ UNCHANGED <<files, state, deployed, keyPairs>>
  BY DEF IInv, Load, awsVars
<1>3. CASE Fail /\ UNCHANGED memory
  BY <1>1, <1>2, <1>3, FailureKeeps
<1>4. CASE /\ Content(c.key) \in Ids
           /\ memory' = [memory EXCEPT ![c.key] = Content(c.key)]
           /\ Done
  <2>1. /\ CallsInOrder' /\ UNCHANGED <<runs, skip, alive, faults, killed>>
        /\ todo' # <<>> => Follows(c, Head(todo'))
        /\ todo' # <<>> \/ skip # {}
    BY <1>1, <1>2, <1>4, CallEnds
  <2>2. Types'
    BY <1>1, <1>2, <1>4, <2>1 DEF Types
  <2>3. memory'[c.key] \in Ids /\ memory'[c.key] # None
    BY <1>1, <1>2, <1>4, TestStagesAssumption DEF Types, Ids
  <2>4. ASSUME todo' # <<>>, NEW d, d = Head(todo')
        PROVE  /\ d.stage # "setup" /\ Prepared(d)'
               /\ d.stage = "teardown" /\ d.key = "keyPair" => c.stage = "teardown" /\ c.key = "keyPair"
    <3>1. d \in TheCalls /\ Follows(c, d)
      BY <2>1, <2>4, TailIsInOrder DEF CallsInOrder
    <3>2. d.stage # "setup" /\ c.key \in {"options", "keyPair"}
          /\ c.stage \in {"validate", "teardown"}
      BY <1>1, <3>1, CallOrder, CallFields DEF Keys, CallRecords, Stages
    <3>3. CASE c.stage = "validate"
      <4>1. d.name \notin {"destroy", "delete"} /\ (d.stage = "teardown" => d.key = "options")
        BY <3>1, <3>3, CallOrder, CallFields
      <4> QED BY <3>2, <4>1 DEF Prepared
    <3>4. CASE c.stage = "teardown" /\ c.key = "options"
      <4>1. d.name = "destroy" /\ d.key = "options"
        BY <1>1, <3>1, <3>4, CallOrder, CallFields
      <4> QED BY <2>3, <3>2, <3>4, <4>1 DEF Prepared
    <3>5. CASE c.stage = "teardown" /\ c.key = "keyPair"
      <4>1. d.name = "delete" /\ d.key = "keyPair"
        BY <1>1, <3>1, <3>5, CallOrder, CallFields
      <4> QED BY <1>1, <1>2, <2>1, <2>3, <3>2, <3>5, <4>1 DEF Prepared
    <3> QED BY <3>2, <3>3, <3>4, <3>5
  <2>5. NextIsPrepared'
    BY <2>4 DEF NextIsPrepared
  <2>6. MadeByThen' /\ DeploymentIsRecorded'
    BY <1>2, <2>1 DEF IInv, MadeByThen, DeploymentIsRecorded
  <2>7. CopyIsOwn'
    <3>1. skip = {} => Content(c.key) = runs
      BY <1>1, <1>4, TestStagesAssumption DEF IInv, CopyIsOwn, Content, Folder, Ids
    <3>2. \A k \in Keys : memory'[k] \in {memory[k], Content(c.key)}
      BY <1>2, <1>4 DEF Types
    <3> QED BY <1>2, <2>1, <3>1, <3>2 DEF IInv, CopyIsOwn
  <2>8. CleanSoFar'
    BY <1>1, <1>2, <2>1, <2>4 DEF IInv, CleanSoFar
  <2> QED BY <2>1, <2>2, <2>5, <2>6, <2>7, <2>8 DEF IInv
<1> QED BY <1>3, <1>4 DEF Load

LEMMA ApplyKeeps == IInv /\ Apply => IInv'
<1> SUFFICES ASSUME IInv, Apply PROVE IInv'
  OBVIOUS
<1> PICK c : c = Head(todo)
  OBVIOUS
<1>1. /\ todo # <<>> /\ runs > 0 /\ runs \in Ids
      /\ c \in TheCalls /\ c.name = "apply" /\ Prepared(c) /\ c.stage = "setup"
  BY CallIsKnown DEF Apply
<1>2. Types /\ CallsInOrder /\ UNCHANGED <<memory, files, keyPairs>>
  BY DEF IInv, Apply
<1>3. CASE Fail /\ UNCHANGED <<state, deployed>>
  BY <1>1, <1>2, <1>3, FailureKeeps
<1>4. CASE /\ Done \/ Fail
           /\ state' = [state EXCEPT ![Folder] = memory["options"]]
           /\ deployed' = deployed \union {memory["options"]}
  <2>1. /\ memory["options"] = runs /\ runs \in keyPairs
        /\ \A k \in Keys : files[Folder][k] = runs
    BY <1>1 DEF Prepared, Keys
  <2>2. /\ CallsInOrder' /\ UNCHANGED <<runs, skip, alive, killed>>
        /\ faults \subseteq faults' /\ faults' \in SUBSET Names
        /\ todo' # <<>> => Follows(c, Head(todo')) \/ Head(todo') = Teardown[1]
        /\ todo' # <<>> \/ skip # {}
    BY <1>1, <1>2, <1>4, CallEnds DEF Types
  <2>3. state' \in [Folders -> Ids \union {None}] /\ deployed' \in SUBSET Ids
    BY <1>1, <1>2, <1>4, <2>1 DEF Types
  <2>4. Types'
    BY <1>2, <2>2, <2>3 DEF Types
  <2>5. ASSUME todo' # <<>>, NEW d, d = Head(todo')
        PROVE  d.name = "load" /\ d.key = "options" /\ d.stage # "setup"
    <3>1. d \in TheCalls
      BY <2>2, <2>5, TailIsInOrder DEF CallsInOrder
    <3>2. d.name = "load" /\ d.key = "options"
      BY <1>1, <2>2, <2>5, CallOrder, TeardownStarts
    <3> QED BY <3>1, <3>2, CallFields
  <2>6. NextIsPrepared'
    BY <2>5 DEF NextIsPrepared, Prepared
  <2>7. Folder \in Folders /\ (skip = {} <=> Folder = "temp") /\ (skip # {} <=> Folder = "original")
    BY DEF Folder, Folders
  <2>8. /\ state'[Folder] = runs
        /\ \A f \in Folders : f # Folder => state'[f] = state[f]
    BY <1>2, <1>4, <2>1, <2>7 DEF Types
  <2>9. MadeByThen'
    BY <1>1, <1>2, <1>4, <2>1, <2>2, <2>7, <2>8 DEF IInv, MadeByThen, Ids, Folders
  <2>10. CopyIsOwn'
    BY <1>2, <2>2, <2>7, <2>8 DEF IInv, CopyIsOwn, Folders
  <2>11. DeploymentIsRecorded'
    BY <1>2, <2>1, <2>7, <2>8 DEF IInv, DeploymentIsRecorded, Folders
  <2>12. CleanSoFar'
    BY <1>2, <2>1, <2>2, <2>5, <2>7, <2>8 DEF CleanSoFar
  <2> QED BY <2>2, <2>4, <2>6, <2>9, <2>10, <2>11, <2>12 DEF IInv
<1> QED BY <1>3, <1>4 DEF Apply

LEMMA CheckKeeps == IInv /\ Check => IInv'
<1> SUFFICES ASSUME IInv, Check PROVE IInv'
  OBVIOUS
<1> PICK c : c = Head(todo)
  OBVIOUS
<1>1. /\ todo # <<>> /\ runs > 0 /\ runs \in Ids
      /\ c \in TheCalls /\ c.name = "check" /\ Prepared(c) /\ c.stage # "setup"
  BY CallIsKnown DEF Check
<1>2. Types /\ CallsInOrder /\ UNCHANGED <<memory, files, state, deployed, keyPairs>>
  BY DEF IInv, Check, awsVars
<1>3. CASE Fail
  BY <1>1, <1>2, <1>3, FailureKeeps
<1>4. CASE Done
  <2>1. /\ CallsInOrder' /\ UNCHANGED <<runs, skip, alive, faults, killed>>
        /\ todo' # <<>> => Follows(c, Head(todo'))
        /\ todo' # <<>> \/ skip # {}
    BY <1>1, <1>2, <1>4, CallEnds
  <2>2. Types'
    BY <1>2, <2>1 DEF Types
  <2>3. ASSUME todo' # <<>>, NEW d, d = Head(todo')
        PROVE  d.name = "load" /\ d.key = "options" /\ d.stage # "setup"
    <3>1. d \in TheCalls /\ Follows(c, d)
      BY <2>1, <2>3, TailIsInOrder DEF CallsInOrder
    <3> QED BY <1>1, <3>1, CallOrder, CallFields
  <2>4. NextIsPrepared'
    BY <2>3 DEF NextIsPrepared, Prepared
  <2>5. MadeByThen' /\ CopyIsOwn' /\ DeploymentIsRecorded'
    BY <1>2, <2>1 DEF IInv, MadeByThen, CopyIsOwn, DeploymentIsRecorded
  <2>6. CleanSoFar'
    BY <1>1, <1>2, <2>1, <2>3 DEF IInv, CleanSoFar
  <2> QED BY <2>1, <2>2, <2>4, <2>5, <2>6 DEF IInv
<1> QED BY <1>3, <1>4 DEF Check

LEMMA DestroyKeeps == IInv /\ Destroy => IInv'
<1> SUFFICES ASSUME IInv, Destroy PROVE IInv'
  OBVIOUS
<1> PICK c : c = Head(todo)
  OBVIOUS
<1>1. /\ todo # <<>> /\ runs > 0 /\ runs \in Ids
      /\ c \in TheCalls /\ c.name = "destroy" /\ Prepared(c)
      /\ c.stage = "teardown" /\ c.key = "options"
  BY CallIsKnown, CallFields DEF Destroy
<1>2. Types /\ CallsInOrder /\ UNCHANGED <<memory, files, keyPairs>>
  BY DEF IInv, Destroy
<1>3. CASE Fail /\ UNCHANGED <<state, deployed>>
  BY <1>1, <1>2, <1>3, FailureKeeps
<1>4. CASE /\ state[Folder] \in {None, memory["options"]}
           /\ Done
           /\ state' = [state EXCEPT ![Folder] = None]
           /\ deployed' = deployed \ {state[Folder]}
  <2>1. /\ CallsInOrder' /\ UNCHANGED <<runs, skip, alive, faults, killed>>
        /\ todo' # <<>> => Follows(c, Head(todo'))
        /\ todo' # <<>> \/ skip # {}
    BY <1>1, <1>2, <1>4, CallEnds
  <2>2. Folder \in Folders /\ (skip = {} <=> Folder = "temp") /\ (skip # {} <=> Folder = "original")
    BY DEF Folder, Folders
  <2>3. /\ state' \in [Folders -> Ids \union {None}]
        /\ state'[Folder] = None
        /\ \A f \in Folders : f # Folder => state'[f] = state[f]
    BY <1>2, <1>4, <2>2 DEF Types
  <2>4. Types'
    BY <1>2, <1>4, <2>1, <2>3 DEF Types
  <2>5. ASSUME todo' # <<>>, NEW d, d = Head(todo')
        PROVE  d.name = "load" /\ d.stage = "teardown" /\ Prepared(d)'
    <3>1. d \in TheCalls /\ Follows(c, d)
      BY <2>1, <2>5, TailIsInOrder DEF CallsInOrder
    <3>2. d.name = "load" /\ d.stage = "teardown"
      BY <1>1, <3>1, CallOrder
    <3> QED BY <2>1, <2>2, <2>3, <3>2 DEF Prepared
  <2>6. NextIsPrepared'
    BY <2>5 DEF NextIsPrepared
  <2>7. MadeByThen' /\ CopyIsOwn' /\ DeploymentIsRecorded'
    BY <1>2, <1>4, <2>1, <2>2, <2>3
       DEF IInv, MadeByThen, CopyIsOwn, DeploymentIsRecorded, Folders
  <2>8. CleanSoFar'
    <3> SUFFICES ASSUME skip = {}, runs > 0, ~killed, faults \subseteq {"apply", "check"}
                 PROVE  runs \notin deployed' /\ \A k \in Keys : files["temp"][k] = runs
      BY <1>2, <2>1 DEF CleanSoFar
    <3>1. runs \in deployed => state["temp"] = runs
      BY DEF IInv, CleanSoFar
    <3>2. runs \notin deployed'
      BY <1>4, <2>2, <3>1
    <3>3. \A k \in Keys : files["temp"][k] = runs
      BY <1>1 DEF IInv, CleanSoFar
    <3> QED BY <3>2, <3>3
  <2> QED BY <2>1, <2>4, <2>6, <2>7, <2>8 DEF IInv
<1> QED BY <1>3, <1>4 DEF Destroy

LEMMA DeleteKeeps == IInv /\ Delete => IInv'
<1> SUFFICES ASSUME IInv, Delete PROVE IInv'
  OBVIOUS
<1> PICK c : c = Head(todo)
  OBVIOUS
<1>1. /\ todo # <<>> /\ runs > 0 /\ runs \in Ids
      /\ c \in TheCalls /\ c.name = "delete" /\ Prepared(c)
      /\ c.stage = "teardown" /\ c.key = "keyPair"
  BY CallIsKnown, CallFields DEF Delete
<1>2. Types /\ CallsInOrder /\ UNCHANGED <<memory, files, state, deployed>>
  BY DEF IInv, Delete
<1>3. CASE Fail /\ UNCHANGED keyPairs
  BY <1>1, <1>2, <1>3, FailureKeeps
<1>4. CASE Done /\ keyPairs' = keyPairs \ {memory["keyPair"]}
  <2>1. /\ CallsInOrder' /\ UNCHANGED <<runs, skip, alive, faults, killed>>
        /\ todo' # <<>> => Follows(c, Head(todo'))
    BY <1>1, <1>2, <1>4, CallEnds
  <2>2. todo' = <<>>
    BY <1>1, <2>1, CallOrder
  <2>3. skip = {} => memory["keyPair"] = runs
    BY <1>1 DEF IInv, CopyIsOwn, Prepared, Keys
  <2>4. Types' /\ NextIsPrepared'
    BY <1>2, <1>4, <2>1, <2>2 DEF Types, NextIsPrepared
  <2>5. MadeByThen' /\ CopyIsOwn'
    BY <1>2, <1>4, <2>1 DEF IInv, MadeByThen, CopyIsOwn
  <2>6. DeploymentIsRecorded'
    <3>1. skip # {} => state["original"] = None
      BY <1>1 DEF Prepared
    <3>2. skip = {} => state["original"] # memory["keyPair"]
      BY <1>1, <2>3 DEF IInv, CopyIsOwn
    <3> QED BY <1>2, <1>4, <3>1, <3>2 DEF IInv, DeploymentIsRecorded
  <2>7. CleanSoFar'
    BY <1>1, <1>2, <1>4, <2>1, <2>2, <2>3 DEF IInv, CleanSoFar
  <2> QED BY <2>1, <2>4, <2>5, <2>6, <2>7 DEF IInv
<1> QED BY <1>3, <1>4 DEF Delete

LEMMA ExitKeeps == IInv /\ (Exit \/ Kill) => IInv'
<1> SUFFICES ASSUME IInv, Exit \/ Kill PROVE IInv'
  OBVIOUS
<1>1. /\ UNCHANGED <<runs, skip, memory, faults, files, state, deployed, keyPairs>>
      /\ alive' = FALSE /\ todo' = <<>>
      /\ killed' = TRUE \/ (killed' = killed /\ todo = <<>>)
  BY DEF Exit, Kill, processVars, awsVars
<1>2. CallsInOrder'
  <2>1. InOrder(todo') /\ EndsWithDelete(todo')
    BY <1>1, StagesInOrder DEF EndsWithDelete
  <2> QED BY <1>1, <2>1 DEF CallsInOrder
<1>3. Types'
  <2>1. alive' \in BOOLEAN
    BY <1>1
  <2>2. killed' \in BOOLEAN
    BY <1>1 DEF IInv, Types
  <2> QED BY <1>1, <2>1, <2>2 DEF IInv, Types
<1>4. NextIsPrepared' /\ MadeByThen' /\ CopyIsOwn' /\ DeploymentIsRecorded'
  BY <1>1 DEF IInv, NextIsPrepared, MadeByThen, CopyIsOwn, DeploymentIsRecorded
<1>5. CleanSoFar'
  BY <1>1 DEF IInv, CleanSoFar
<1> QED BY <1>2, <1>3, <1>4, <1>5 DEF IInv

LEMMA StartKeeps ==
  ASSUME IInv, NEW skipped \in SUBSET Stages, StartTest(skipped)
  PROVE  IInv'
<1>1. /\ Types /\ runs' = runs + 1 /\ runs < MaxRuns /\ runs \in Nat
      /\ skip' = skipped /\ todo' = CallsOf(skipped)
      /\ memory' = [k \in Keys |-> None]
      /\ faults' = {}
      /\ UNCHANGED <<deployed, keyPairs>>
      /\ skipped # {} /\ "setup" \notin skipped => state["original"] = None
  BY TestStagesAssumption DEF IInv, StartTest, awsVars, Types
<1>2. /\ skipped # {} => UNCHANGED <<files, state>>
      /\ skipped = {} => /\ files' = [files EXCEPT !["temp"] = [k \in Keys |-> Absent]]
                         /\ state' = [state EXCEPT !["temp"] = None]
  BY DEF StartTest
<1>3. /\ InOrder(CallsOf(skipped))
      /\ CallsOf(skipped) # <<>> =>
           \/ Head(CallsOf(skipped)) = Setup[1] /\ "setup" \notin skipped
           \/ Head(CallsOf(skipped)) \in {Validate[1], Teardown[1]} /\ skipped # {}
      /\ skipped = {} => CallsOf(skipped) # <<>> /\ EndsWithDelete(CallsOf(skipped))
  BY CallsOfInOrder
<1>4. alive' = TRUE /\ killed' = FALSE
  BY DEF StartTest
<1>5. CallsInOrder'
  <2>1. InOrder(todo') /\ (skip' = {} => EndsWithDelete(todo'))
    BY <1>1, <1>3
  <2> QED BY <1>1, <1>4, <2>1 DEF CallsInOrder
<1>6. /\ files' \in [Folders -> [Keys -> Contents]]
      /\ files'["original"] = files["original"]
      /\ skipped = {} => files'["temp"] = [k \in Keys |-> Absent]
  <2>1. CASE skipped = {}
    <3>1. [k \in Keys |-> Absent] \in [Keys -> Contents]
      BY DEF Contents
    <3> QED BY <1>1, <1>2, <2>1, <3>1 DEF Types, Folders
  <2>2. CASE skipped # {}
    BY <1>1, <1>2, <2>2 DEF Types
  <2> QED BY <2>1, <2>2
<1>7. /\ state' \in [Folders -> Ids \union {None}]
      /\ state'["original"] = state["original"]
      /\ skipped = {} => state'["temp"] = None
  <2>1. CASE skipped = {}
    BY <1>1, <1>2, <2>1 DEF Types, Folders
  <2>2. CASE skipped # {}
    BY <1>1, <1>2, <2>2 DEF Types
  <2> QED BY <2>1, <2>2
<1>8. Types'
  <2>1. runs' \in 0 .. MaxRuns
    BY <1>1, TestStagesAssumption
  <2>2. alive' \in BOOLEAN /\ killed' \in BOOLEAN
    BY <1>4
  <2>3. memory' \in [Keys -> Ids \union {None}]
    BY <1>1
  <2>4. deployed' \in SUBSET Ids /\ keyPairs' \in SUBSET Ids
    BY <1>1 DEF Types
  <2>5. skip' \in SUBSET Stages /\ faults' \in SUBSET Names
    BY <1>1
  <2> QED BY <1>6, <1>7, <2>1, <2>2, <2>3, <2>4, <2>5 DEF Types
<1>9. NextIsPrepared'
  <2> SUFFICES ASSUME todo' # <<>>, NEW d, d = Head(todo') PROVE Prepared(d)'
    BY DEF NextIsPrepared
  <2>1. CASE d = Setup[1] /\ "setup" \notin skipped
    <3>1. d.name = "create" /\ d.stage = "setup"
      BY <2>1 DEF Setup, Call
    <3> QED BY <1>1, <1>7, <2>1, <3>1 DEF Prepared
  <2>2. CASE d \in {Validate[1], Teardown[1]}
    <3>1. d.name = "load" /\ d.key = "options" /\ d.stage # "setup"
      BY <2>2 DEF Validate, Teardown, Call
    <3> QED BY <3>1 DEF Prepared
  <2> QED BY <1>1, <1>3, <2>1, <2>2
<1>10. MadeByThen'
  <2>1. /\ deployed \union keyPairs \subseteq 1 .. runs
        /\ state["original"] \in (1 .. runs) \union {None}
    BY DEF IInv, MadeByThen
  <2>2. 1 .. runs \subseteq 1 .. runs'
    BY <1>1
  <2> QED BY <1>1, <1>7, <2>1, <2>2 DEF MadeByThen
<1>11. runs' \notin 1 .. runs /\ runs' # None
  <2>1. runs' \in 1 .. MaxRuns
    BY <1>1, TestStagesAssumption
  <2> QED BY <1>1, <2>1, TestStagesAssumption
<1>12. CopyIsOwn'
  BY <1>1, <1>6, <1>7, <1>11 DEF IInv, MadeByThen, CopyIsOwn
<1>13. CleanSoFar'
  <2> SUFFICES ASSUME skip' = {}
               PROVE  /\ runs' \notin deployed' /\ todo' # <<>>
                      /\ Head(todo').stage = "setup"
    BY DEF CleanSoFar
  <2>1. runs' \notin deployed'
    BY <1>1, <1>11 DEF IInv, MadeByThen
  <2>2. todo' # <<>> /\ Head(todo') = Setup[1]
    BY <1>1, <1>3
  <2>3. Setup[1].stage = "setup"
    BY DEF Setup, Call
  <2> QED BY <2>1, <2>2, <2>3
<1>14. DeploymentIsRecorded'
  BY <1>1, <1>6, <1>7 DEF IInv, DeploymentIsRecorded
<1> QED BY <1>5, <1>8, <1>9, <1>10, <1>12, <1>13, <1>14 DEF IInv

-----------------------------------------------------------------------------

\* The invariant is inductive.
LEMMA Inductive == Spec => []IInv
<1>1. IInv /\ [Next]_vars => IInv'
  <2> SUFFICES ASSUME IInv, [Next]_vars PROVE IInv'
    OBVIOUS
  <2>1. CASE \E skipped \in SUBSET Stages : StartTest(skipped)
    BY <2>1, StartKeeps
  <2>2. CASE UNCHANGED vars
    BY <2>2 DEF vars, processVars, awsVars, IInv, Types, CallsInOrder, MadeByThen,
       NextIsPrepared, Prepared, Folder, CopyIsOwn, CleanSoFar, DeploymentIsRecorded
  <2> QED BY <2>1, <2>2, CreateKeeps, SaveKeeps, WriteKeeps, LoadKeeps, ApplyKeeps, CheckKeeps,
             DestroyKeeps, DeleteKeeps, ExitKeeps DEF Next
<1> QED BY InitIInv, <1>1, PTL DEF Spec

\* The variables keep their types, and no call is made that needs the options or
\* the key pair before they have been created or loaded.
THEOREM StagesTypeCorrect == Spec => []TypeOK
<1>1. IInv => TypeOK
  <2> SUFFICES ASSUME IInv PROVE TypeOK
    OBVIOUS
  <2>1. todo \in Seq(CallRecords)
    BY DEF IInv, CallsInOrder, InOrder
  <2>2. ASSUME NEW i \in DOMAIN todo, todo[i].name \in {"write", "apply", "destroy", "delete"},
               \A j \in 1 .. i - 1 : todo[j].name \notin {"create", "load"}
        PROVE  memory[todo[i].key] # None
    <3> PICK c : c = Head(todo)
      OBVIOUS
    <3>1. /\ todo # <<>> /\ Len(todo) \in Nat /\ i \in 1 .. Len(todo) /\ c = todo[1]
          /\ todo[i] \in CallRecords
      BY <2>1
    <3>2. c \in TheCalls /\ Prepared(c) /\ runs > 0
      BY <3>1, CallEnds DEF IInv, NextIsPrepared
    <3>3. runs # None
      <4>1. runs \in 1 .. MaxRuns
        BY <3>2, TestStagesAssumption DEF IInv, Types
      <4> QED BY <4>1, TestStagesAssumption
    <3>4. CASE i = 1
      <4>1. CASE c.name \in {"write", "apply"}
        <5>1. c.stage = "setup" /\ c.key \in Keys
          BY <3>2, <4>1, CallFields DEF CallRecords
        <5>2. memory[c.key] = runs
          BY <3>2, <4>1, <5>1 DEF Prepared
        <5> QED BY <3>1, <3>4, <3>3, <5>2
      <4>2. CASE c.name \in {"destroy", "delete"}
        BY <3>1, <3>2, <3>4, <4>2 DEF Prepared
      <4> QED BY <2>2, <3>1, <3>4, <4>1, <4>2
    <3>5. CASE i # 1
      <4>1. 1 \in 1 .. i - 1 /\ c.name \notin {"create", "load"}
        BY <2>2, <3>1, <3>5
      <4>2. CASE c.stage = "setup"
        <5>1. memory[todo[i].key] = runs
          BY <3>1, <3>2, <4>1, <4>2 DEF Prepared, CallRecords
        <5> QED BY <3>3, <5>1
      <4>3. CASE c.stage # "setup"
        <5>1. c.name \in {"check", "destroy", "delete"}
          BY <3>2, <4>1, <4>3, CallFields DEF CallRecords, Names
        <5>2. Follows(todo[1], todo[1 + 1])
          <6>1. 1 \in 1 .. Len(todo) - 1
            BY <3>1, <3>5
          <6> QED BY <6>1 DEF IInv, CallsInOrder, InOrder
        <5>3. todo[2].name = "load"
          BY <3>1, <5>1, <5>2, CallOrder
        <5>4. CASE i = 2
          BY <2>2, <5>3, <5>4
        <5>5. CASE i # 2
          <6>1. 2 \in 1 .. i - 1
            BY <3>1, <3>5, <5>5
          <6> QED BY <2>2, <5>3, <6>1
        <5> QED BY <5>4, <5>5
      <4> QED BY <4>2, <4>3
    <3> QED BY <3>4, <3>5
  <2> QED BY <2>1, <2>2 DEF IInv, Types, TypeOK, CallRecords, Names
<1> QED BY <1>1, Inductive, PTL

\* However many processes share the original folder, and whatever they skip,
\* fail at or are killed at, what is deployed from it stays recorded there.
THEOREM DeploymentsStayRecorded == Spec => []DeploymentIsRecorded
<1>1. IInv => DeploymentIsRecorded
  BY DEF IInv
<1> QED BY <1>1, Inductive, PTL

\* A process that skips nothing and fails only to apply or to check leaves
\* nothing behind once it has ended.
THEOREM TestsCleanUp == Spec => []FailuresAreCleanedUp
<1>1. IInv => FailuresAreCleanedUp
  BY DEF IInv, CallsInOrder, CleanSoFar, FailuresAreCleanedUp
<1> QED BY <1>1, Inductive, PTL

=============================================================================
