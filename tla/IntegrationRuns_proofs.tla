------------------------ MODULE IntegrationRuns_proofs ------------------------
(***************************************************************************)
(* Proof that runs take turns at a Discord message, for any number of runs, *)
(* integrations, and places.                                               *)
(***************************************************************************)
EXTENDS IntegrationRuns, FiniteSetTheorems, TLAPS

RunSet  == [at : {"idle", "act", "wait", "back", "turn", "seat", "send"}, of : Places,
            held : SUBSET Places, wants : Seq(Places), turn : Turns \union {NoTurn},
            mode : Modes, number : Nat, says : Nat]
TurnSet == [queue : Seq(Runs), edits : Nat]

\* The types of what turns are made of.
Types ==
  /\ run \in [Runs -> RunSet]
  /\ turns \in [Turns -> TurnSet]
  /\ turnOf \in [Integrations -> Turns \union {NoTurn}]
  /\ asked \in [Integrations -> Nat]

\* What holds of a run: it is of an integration, it has a turn exactly while it is
\* in one, the map knows the turn it has, and it is first in line when it has come.
InTurnAt(r) == run[r].turn # NoTurn <=> run[r].at \in {"turn", "seat", "send"}
Known(r)    == run[r].turn # NoTurn => turnOf[run[r].of] = run[r].turn
First(r)    == run[r].at \in {"seat", "send"}
                 => /\ turns[run[r].turn].queue # <<>>
                    /\ Head(turns[run[r].turn].queue) = r
InLine(r)   == run[r].turn # NoTurn
                 => \E k \in 1 .. Len(turns[run[r].turn].queue) : turns[run[r].turn].queue[k] = r
Whose(r)    == run[r].at # "idle" => run[r].of \in Integrations
Kept(r)     == InTurnAt(r) /\ Known(r) /\ First(r) /\ InLine(r) /\ Whose(r)

\* No two integrations share a turn.
OwnTurns == \A i, j \in Integrations : turnOf[i] # NoTurn /\ turnOf[i] = turnOf[j] => i = j

IInv == Types /\ OwnTurns /\ \A r \in Runs : Kept(r)

LEMMA NoTurnIsNone == NoTurn \notin Turns
BY DEF NoTurn, Turns

\* A run that has no turn yet finds a new one: there are more turns than other runs
\* and integrations can have between them.
LEMMA TurnToSpare ==
  ASSUME Types, NEW r \in Runs, run[r].turn = NoTurn
  PROVE  \E o \in Turns : InTurn(o) = {} /\ \A j \in Integrations : turnOf[j] # o
<1> DEFINE others == Runs \ {r}
           ofRun == [s \in others |-> run[s].turn]
           had == {ofRun[s] : s \in others}
           known == {turnOf[j] : j \in Integrations}
<1>1. IsFiniteSet(Runs) /\ IsFiniteSet(Integrations)
  BY FiniteAssumption
<1>2. IsFiniteSet(others) /\ Cardinality(others) = Cardinality(Runs) - 1
  BY <1>1, FS_RemoveElement
<1>3. IsFiniteSet(had) /\ Cardinality(had) <= Cardinality(others)
  <2>1. ofRun \in Surjection(others, had)
    BY DEF Surjection
  <2> HIDE DEF others, had, ofRun
  <2>2. QED
    BY <1>2, <2>1, FS_Surjection
<1>4. IsFiniteSet(known) /\ Cardinality(known) <= Cardinality(Integrations)
  <2>1. turnOf \in Surjection(Integrations, known)
    BY DEF Surjection, Types
  <2> HIDE DEF known
  <2>2. QED
    BY <1>1, <2>1, FS_Surjection
<1>5. /\ Cardinality(Runs) \in Nat /\ Cardinality(Integrations) \in Nat
      /\ Cardinality(had) \in Nat /\ Cardinality(known) \in Nat
  BY <1>1, <1>3, <1>4, FS_CardinalityType
<1> HIDE DEF had, known
<1>6. /\ IsFiniteSet(had \union known)
      /\ Cardinality(had \union known) <= Cardinality(had) + Cardinality(known)
  <2>1. /\ IsFiniteSet(had \union known) /\ Cardinality(had \cap known) \in Nat
        /\ Cardinality(had \union known)
             = Cardinality(had) + Cardinality(known) - Cardinality(had \cap known)
    <3>1. IsFiniteSet(had \cap known)
      BY <1>3, FS_Subset
    <3>2. QED
      BY <1>3, <1>4, <3>1, FS_Union, FS_CardinalityType
  <2>2. QED
    BY <1>5, <2>1
<1>7. /\ IsFiniteSet(Turns) /\ Cardinality(Turns) = Cardinality(Runs) + Cardinality(Integrations)
  <2>1. PICK n \in Nat : n = Cardinality(Runs) + Cardinality(Integrations)
    BY <1>5
  <2>2. IsFiniteSet(1 .. n) /\ Cardinality(1 .. n) = IF 1 > n THEN 0 ELSE n - 1 + 1
    BY FS_Interval
  <2>3. Turns = 1 .. n
    BY <2>1 DEF Turns
  <2>4. Cardinality(1 .. n) = n
    BY <2>2
  <2>5. QED
    BY <2>1, <2>2, <2>3, <2>4
<1>8. ~(Turns \subseteq had \union known)
  <2>1. SUFFICES ASSUME Turns \subseteq had \union known PROVE FALSE
    OBVIOUS
  <2>2. Cardinality(Turns) <= Cardinality(had \union known)
    BY <1>6, <2>1, FS_Subset
  <2>3. Cardinality(had \union known) \in Nat
    BY <1>6, FS_CardinalityType
  <2>4. QED
    BY <1>2, <1>3, <1>4, <1>5, <1>6, <1>7, <2>2, <2>3
<1>9. PICK o \in Turns : o \notin had /\ o \notin known
  BY <1>8
<1>10. InTurn(o) = {}
  <2>1. \A s \in Runs : s # r => run[s].turn # o
    BY <1>9 DEF had
  <2>2. run[r].turn # o
    BY <1>9, NoTurnIsNone
  <2>3. QED
    BY <2>1, <2>2 DEF InTurn
<1>11. \A j \in Integrations : turnOf[j] # o
  BY <1>9 DEF known
<1>12. QED
  BY <1>10, <1>11
-----------------------------------------------------------------------------
(* Steps that leave turns alone.                                            *)

\* A run that moves on without taking or ending a turn.
LEMMA MovesOn ==
  ASSUME IInv, NEW r \in Runs, run' \in [Runs -> RunSet],
         \A s \in Runs : s # r => run'[s] = run[s],
         UNCHANGED <<turns, turnOf, asked>>,
         run'[r].turn = run[r].turn, run'[r].turn # NoTurn => run'[r].of = run[r].of,
         run'[r].at # "idle" => run'[r].of \in Integrations,
         run'[r].turn # NoTurn <=> run'[r].at \in {"turn", "seat", "send"},
         run'[r].at \in {"seat", "send"} => Head(turns[run[r].turn].queue) = r
  PROVE  IInv'
<1>1. run \in [Runs -> RunSet]
  BY DEF IInv, Types
<1>2. Types' /\ OwnTurns'
  BY DEF IInv, Types, OwnTurns
<1>3. ASSUME NEW s \in Runs, s # r PROVE Kept(s)'
  <2>1. run'[s] = run[s]
    BY <1>1, <1>3
  <2>2. QED
    BY <1>3, <2>1 DEF IInv, Kept, InTurnAt, Known, First, InLine, Whose
<1>4. Kept(r)'
  <2>1. run'[r] \in RunSet
    OBVIOUS
  <2>2. InTurnAt(r)' /\ Known(r)' /\ InLine(r)' /\ Whose(r)'
    BY <2>1 DEF IInv, Kept, InTurnAt, Known, InLine, Whose
  <2>3. First(r)'
    <3>1. SUFFICES ASSUME run'[r].at \in {"seat", "send"}
                   PROVE  /\ turns[run[r].turn].queue # <<>>
                          /\ Head(turns[run[r].turn].queue) = r
      BY DEF First
    <3>2. run[r].turn \in Turns
      BY <2>1, <3>1 DEF RunSet
    <3>3. turns[run[r].turn].queue \in Seq(Runs)
      BY <3>2 DEF IInv, Types, TurnSet
    <3>4. Len(turns[run[r].turn].queue) # 0
      BY <3>1, <3>3 DEF IInv, Kept, InLine
    <3>5. QED
      BY <3>1, <3>3, <3>4
  <2>4. QED
    BY <2>2, <2>3 DEF Kept
<1>5. QED
  BY <1>2, <1>3, <1>4 DEF IInv

\* The steps that move a run: places taken and given back, waits, its turn come,
\* its message sent.
LEMMA PlacesKeepIInv ==
  ASSUME IInv, NEW r \in Runs,
         \/ Take(r) \/ Wait(r) \/ WaitAired(r) \/ WaitOver(r) \/ GoOn(r) \/ Finish(r)
         \/ MyTurn(r) \/ Send(r) \/ \E i \in Integrations : Start(r, i)
  PROVE  IInv'
<1>1. /\ run \in [Runs -> RunSet] /\ run[r] \in RunSet /\ Kept(r)
      /\ \A i \in Integrations : asked[i] \in Nat
  BY DEF IInv, Types
<1>2. UNCHANGED <<turns, turnOf, asked>>
  BY DEF Take, Wait, WaitAired, WaitOver, GoOn, Finish, MyTurn, Send, Start, TakesAgain, discord
<1>3. SUFFICES /\ run' \in [Runs -> RunSet] /\ \A s \in Runs : s # r => run'[s] = run[s]
               /\ run'[r].turn = run[r].turn
               /\ run'[r].turn # NoTurn => run'[r].of = run[r].of
               /\ run'[r].at # "idle" => run'[r].of \in Integrations
               /\ run'[r].turn # NoTurn <=> run'[r].at \in {"turn", "seat", "send"}
               /\ run'[r].at \in {"seat", "send"} => Head(turns[run[r].turn].queue) = r
  BY <1>2, MovesOn
<1>4. Wants(r) \in Seq(Places) /\ {} \in SUBSET Places
  <2>1. run[r].of \in Places /\ All \in Places
    BY <1>1 DEF RunSet, Places
  <2>2. QED
    BY <2>1 DEF Wants
<1> USE DEF Kept, InTurnAt, Whose
<1>5. CASE Wait(r) \/ WaitAired(r) \/ GoOn(r)
  <2>1. CASE Wait(r)
    BY <1>1, <1>4, <2>1 DEF Wait, At, RunSet
  <2>2. CASE WaitAired(r)
    BY <1>1, <2>2 DEF WaitAired, At, RunSet
  <2>3. CASE GoOn(r)
    BY <1>1, <2>3 DEF GoOn, At, Seated, RunSet
  <2>4. QED
    BY <1>5, <2>1, <2>2, <2>3
<1>6. CASE WaitOver(r) \/ MyTurn(r)
  <2>1. PICK wants \in Seq(Places), where \in {"back", "seat"} :
          /\ run' = [run EXCEPT ![r].at = where, ![r].wants = wants]
          /\ (where = "back" /\ At(r, "wait")) \/ (where = "seat" /\ At(r, "turn"))
          /\ where = "seat" => Head(turns[run[r].turn].queue) = r
    BY <1>4, <1>6 DEF WaitOver, MyTurn, TakesAgain
  <2>2. QED
    BY <1>1, <2>1 DEF At, RunSet
<1>7. CASE Take(r)
  BY <1>1, <1>7 DEF Take, RunSet
<1>8. CASE Send(r)
  BY <1>1, <1>8 DEF Send, At, Seated, RunSet, First
<1>9. CASE Finish(r)
  BY <1>1, <1>9 DEF Finish, At, Nothing, RunSet, NoTurn, Places, Modes
<1>10. CASE \E i \in Integrations : Start(r, i)
  <2>1. PICK i \in Integrations : Start(r, i)
    BY <1>10
  <2>2. PICK x \in RunSet : /\ x.turn = NoTurn /\ x.at = "act" /\ x.of = i
                            /\ x = [Nothing EXCEPT !.at = "act", !.of = i, !.held = {i, All}]
    <3>1. {i, All} \in SUBSET Places /\ i \in Places /\ <<>> \in Seq(Places)
      BY DEF Places
    <3>2. Nothing \in RunSet /\ Nothing.turn = NoTurn
      BY <3>1 DEF Nothing, RunSet, Modes, Places
    <3>3. QED
      BY <3>1, <3>2 DEF RunSet
  <2>3. run' = [run EXCEPT ![r] = x]
    BY <2>1, <2>2 DEF Start
  <2>4. run[r].at = "idle"
    BY <2>1 DEF Start, At
  <2>5. QED
    BY <1>1, <2>2, <2>3, <2>4
<1>11. QED
  BY <1>5, <1>6, <1>7, <1>8, <1>9, <1>10
-----------------------------------------------------------------------------
(* Taking a turn and ending one.                                            *)

\* The turn a run gets: its integration's, or one nobody has.
LEMMA TurnFound ==
  ASSUME IInv, NEW r \in Runs, run[r].turn = NoTurn, NEW i \in Integrations
  PROVE  /\ TurnFor(i) \in Turns
         /\ turnOf[i] # NoTurn => TurnFor(i) = turnOf[i]
         /\ turnOf[i] = NoTurn => /\ \A s \in Runs : run[s].turn # TurnFor(i)
                                 /\ \A j \in Integrations : turnOf[j] # TurnFor(i)
<1>1. CASE turnOf[i] # NoTurn
  BY <1>1 DEF TurnFor, IInv, Types
<1>2. CASE turnOf[i] = NoTurn
  <2>1. \E o \in Turns : InTurn(o) = {} /\ \A j \in Integrations : turnOf[j] # o
    BY TurnToSpare DEF IInv
  <2>2. /\ TurnFor(i) \in Turns /\ InTurn(TurnFor(i)) = {}
        /\ \A j \in Integrations : turnOf[j] # TurnFor(i)
    BY <1>2, <2>1, Zenon DEF TurnFor
  <2>3. QED
    BY <1>2, <2>2 DEF InTurn
<1>3. QED
  BY <1>1, <1>2

LEMMA AskKeepsIInv ==
  ASSUME IInv, NEW r \in Runs, NEW mode \in Modes, AskTurn(r, mode)
  PROVE  IInv'
<1> DEFINE i == run[r].of
           o == TurnFor(i)
<1>1. /\ run \in [Runs -> RunSet] /\ run[r] \in RunSet /\ turns \in [Turns -> TurnSet]
      /\ turnOf \in [Integrations -> Turns \union {NoTurn}] /\ asked \in [Integrations -> Nat]
      /\ \A s \in Runs : Kept(s)
  BY DEF IInv, Types
<1>2. run[r].at = "act" /\ i \in Integrations /\ run[r].turn = NoTurn
  BY <1>1 DEF AskTurn, At, Kept, Whose, InTurnAt
<1>3. /\ o \in Turns
      /\ turnOf[i] # NoTurn => o = turnOf[i]
      /\ turnOf[i] = NoTurn => /\ \A s \in Runs : run[s].turn # o
                              /\ \A j \in Integrations : turnOf[j] # o
  BY <1>2, TurnFound
<1>4. PICK n \in Nat : n = turns[o].edits + 1
  BY <1>1, <1>3 DEF TurnSet
<1> HIDE DEF o
<1>5. /\ run' = [run EXCEPT ![r] = [@ EXCEPT !.at = "turn", !.held = {}, !.turn = o,
                                           !.mode = mode, !.number = n]]
      /\ turns' = [turns EXCEPT ![o].queue = Append(@, r),
                                ![o].edits = IF Counts(mode) THEN n ELSE @]
      /\ turnOf' = [turnOf EXCEPT ![i] = o]
      /\ asked' = [asked EXCEPT ![i] = IF mode = "last" THEN @ + 1 ELSE @]
  BY <1>4 DEF AskTurn, o
<1>6. /\ run'[r] \in RunSet /\ run'[r].at = "turn" /\ run'[r].turn = o /\ run'[r].of = i
      /\ \A s \in Runs : s # r => run'[s] = run[s]
  BY <1>1, <1>3, <1>5 DEF RunSet
<1>7. /\ turns'[o] \in TurnSet /\ turns'[o].queue = Append(turns[o].queue, r)
      /\ \A p \in Turns : p # o => turns'[p] = turns[p]
  <2>1. PICK e \in Nat : e = IF Counts(mode) THEN n ELSE turns[o].edits
    BY <1>1, <1>3 DEF TurnSet
  <2>2. Append(turns[o].queue, r) \in Seq(Runs)
    BY <1>1, <1>3 DEF TurnSet
  <2>3. turns' = [turns EXCEPT ![o].queue = Append(@, r), ![o].edits = e]
    BY <1>5, <2>1, Zenon
  <2>4. QED
    BY <1>1, <1>3, <2>2, <2>3 DEF TurnSet
<1>8. OwnTurns'
  BY <1>1, <1>2, <1>3, <1>5 DEF IInv, OwnTurns
<1>9. Types'
  <2>1. run' \in [Runs -> RunSet]
    BY <1>1, <1>5, <1>6
  <2>2. turns' \in [Turns -> TurnSet]
    BY <1>1, <1>5, <1>7
  <2>3. turnOf' \in [Integrations -> Turns \union {NoTurn}] /\ asked' \in [Integrations -> Nat]
    <3>1. PICK a \in Nat : a = IF mode = "last" THEN asked[i] + 1 ELSE asked[i]
      BY <1>1, <1>2
    <3>2. asked' = [asked EXCEPT ![i] = a]
      BY <1>5, <3>1, Zenon
    <3>3. QED
      BY <1>1, <1>3, <1>5, <3>2
  <2>4. QED
    BY <2>1, <2>2, <2>3 DEF Types
<1>10. turns[o].queue \in Seq(Runs)
  BY <1>1, <1>3 DEF TurnSet
<1>11. ASSUME NEW s \in Runs PROVE Kept(s)'
  <2>1. CASE s = r
    <3>1. InTurnAt(r)' /\ Whose(r)' /\ First(r)'
      BY <1>2, <1>3, <1>6, NoTurnIsNone DEF InTurnAt, Whose, First
    <3>2. Known(r)'
      BY <1>1, <1>2, <1>5, <1>6 DEF Known
    <3>3. InLine(r)'
      BY <1>6, <1>7, <1>10 DEF InLine
    <3>4. QED
      BY <2>1, <3>1, <3>2, <3>3 DEF Kept
  <2>2. CASE s # r
    <3>1. run'[s] = run[s] /\ run[s] \in RunSet
      BY <1>1, <1>6, <2>2
    <3>2. InTurnAt(s)' /\ Whose(s)'
      BY <1>1, <3>1 DEF Kept, InTurnAt, Whose
    <3>3. Known(s)'
      BY <1>1, <1>2, <1>3, <1>5, <3>1 DEF Kept, Known
    <3>4. First(s)' /\ InLine(s)'
      <4>1. CASE run[s].turn = o
        <5>1. First(s) /\ InLine(s)
          BY <1>1 DEF Kept
        <5>2. First(s)'
          BY <1>7, <1>10, <3>1, <4>1, <5>1 DEF First
        <5>3. InLine(s)'
          BY <1>7, <1>10, <3>1, <4>1, <5>1 DEF InLine
        <5>4. QED
          BY <5>2, <5>3
      <4>2. CASE run[s].turn # o /\ run[s].turn # NoTurn
        <5>1. turns'[run[s].turn] = turns[run[s].turn]
          BY <1>7, <3>1, <4>2 DEF RunSet
        <5>2. QED
          BY <1>1, <3>1, <5>1 DEF Kept, First, InLine
      <4>3. CASE run[s].turn = NoTurn
        BY <1>1, <3>1, <4>3 DEF Kept, First, InLine, InTurnAt
      <4>4. QED
        BY <4>1, <4>2, <4>3
    <3>5. QED
      BY <3>2, <3>3, <3>4 DEF Kept
  <2>3. QED
    BY <2>1, <2>2
<1>12. QED
  BY <1>8, <1>9, <1>11 DEF IInv

\* Whoever's turn is over was first in line; the line is kept while others are in it.
LEMMA TurnOverKeepsIInv ==
  ASSUME IInv, NEW r \in Runs, run[r].at \in {"seat", "send"}, TurnOver(r)
  PROVE  IInv'
<1> DEFINE i == run[r].of
           o == run[r].turn
<1>1. /\ run \in [Runs -> RunSet] /\ run[r] \in RunSet /\ turns \in [Turns -> TurnSet]
      /\ turnOf \in [Integrations -> Turns \union {NoTurn}]
      /\ \A s \in Runs : Kept(s)
  BY DEF IInv, Types
<1>2. i \in Integrations /\ o \in Turns /\ turnOf[i] = o
  BY <1>1, NoTurnIsNone DEF Kept, Whose, InTurnAt, Known, RunSet
<1>3. turns[o].queue \in Seq(Runs) /\ turns[o].queue # <<>> /\ Head(turns[o].queue) = r
  BY <1>1, <1>2 DEF Kept, First, TurnSet
<1>4. /\ run'[r] \in RunSet /\ run'[r].at = "act" /\ run'[r].turn = NoTurn /\ run'[r].of = i
      /\ \A s \in Runs : s # r => run'[s] = run[s]
      /\ run' \in [Runs -> RunSet]
  <2>1. PICK x \in RunSet :
          /\ x.at = "act" /\ x.turn = NoTurn /\ x.of = i
          /\ x = [Nothing EXCEPT !.at = "act", !.of = i, !.held = run[r].held]
    <3>1. run[r].held \in SUBSET Places /\ i \in Places /\ <<>> \in Seq(Places)
      BY <1>1 DEF RunSet
    <3>2. Nothing \in RunSet /\ Nothing.turn = NoTurn
      BY <3>1 DEF Nothing, RunSet, Modes, Places
    <3>3. QED
      BY <3>1, <3>2 DEF RunSet
  <2>2. run' = [run EXCEPT ![r] = x]
    BY <2>1 DEF TurnOver
  <2>3. QED
    BY <1>1, <2>1, <2>2
<1>5. /\ turns'[o] = IF InTurn(o) = {r} THEN NewTurn
                       ELSE [queue |-> Tail(turns[o].queue), edits |-> turns[o].edits]
      /\ \A p \in Turns : p # o => turns'[p] = turns[p]
  BY <1>1, <1>2 DEF TurnOver
<1>6. turnOf' = [turnOf EXCEPT ![i] = IF InTurn(o) = {r} THEN NoTurn ELSE @] /\ UNCHANGED asked
  BY DEF TurnOver, NobodyLeft
<1>7. Types'
  <2>1. NewTurn \in TurnSet /\ [queue |-> Tail(turns[o].queue), edits |-> turns[o].edits] \in TurnSet
    <3>1. Tail(turns[o].queue) \in Seq(Runs) /\ <<>> \in Seq(Runs) /\ turns[o] \in TurnSet
      BY <1>1, <1>2, <1>3
    <3>2. QED
      BY <3>1 DEF NewTurn, TurnSet
  <2>2. turns' \in [Turns -> TurnSet]
    <3>1. turns'[o] \in TurnSet
      BY <1>5, <2>1
    <3>2. \E x : turns' = [turns EXCEPT ![o] = x]
      BY DEF TurnOver
    <3>3. QED
      BY <1>1, <1>2, <3>1, <3>2
  <2>3. turnOf' \in [Integrations -> Turns \union {NoTurn}]
    BY <1>1, <1>2, <1>6
  <2>4. QED
    BY <1>4, <1>6, <2>2, <2>3 DEF IInv, Types
<1>8. OwnTurns'
  BY <1>1, <1>2, <1>6 DEF IInv, OwnTurns
<1>9. Kept(r)'
  BY <1>2, <1>4 DEF Kept, InTurnAt, Known, First, InLine, Whose
<1>10. ASSUME NEW s \in Runs, s # r PROVE Kept(s)'
  <2>1. run'[s] = run[s] /\ run[s] \in RunSet /\ Kept(s)
    BY <1>1, <1>4, <1>10
  <2>2. InTurnAt(s)' /\ Whose(s)'
    BY <2>1 DEF Kept, InTurnAt, Whose
  <2>3. CASE run[s].turn = o
    <3>1. InTurn(o) # {r}
      BY <1>10, <2>3 DEF InTurn
    <3>2. turns'[o].queue = Tail(turns[o].queue) /\ turnOf' = turnOf
      BY <1>1, <1>2, <1>5, <1>6, <3>1 DEF TurnSet
    <3>3. run[s].at = "turn"
      BY <1>2, <1>3, <1>10, <2>1, <2>3, NoTurnIsNone DEF Kept, First, InTurnAt
    <3>4. PICK k \in 1 .. Len(turns[o].queue) : turns[o].queue[k] = s
      BY <1>2, <2>1, <2>3, NoTurnIsNone DEF Kept, InLine
    <3>5. k # 1
      BY <1>3, <1>10, <3>4
    <3>6. k - 1 \in 1 .. Len(Tail(turns[o].queue)) /\ Tail(turns[o].queue)[k - 1] = s
      BY <1>3, <3>4, <3>5
    <3>7. QED
      BY <2>1, <2>2, <2>3, <3>2, <3>3, <3>6 DEF Kept, Known, First, InLine
  <2>4. CASE run[s].turn # o /\ run[s].turn # NoTurn
    <3>1. turns'[run[s].turn] = turns[run[s].turn]
      BY <1>5, <2>1, <2>4 DEF RunSet
    <3>2. run[s].of # i
      BY <1>2, <2>1, <2>4 DEF Kept, Known
    <3>3. turnOf'[run[s].of] = turnOf[run[s].of]
      BY <1>1, <1>6, <3>2, <2>1, <2>4 DEF Kept, Whose, InTurnAt
    <3>4. QED
      BY <2>1, <2>2, <3>1, <3>3 DEF Kept, Known, First, InLine
  <2>5. CASE run[s].turn = NoTurn
    BY <2>1, <2>2, <2>5 DEF Kept, Known, First, InLine, InTurnAt
  <2>6. QED
    BY <2>3, <2>4, <2>5
<1>11. QED
  BY <1>7, <1>8, <1>9, <1>10 DEF IInv
-----------------------------------------------------------------------------
(* The theorem.                                                             *)

LEMMA InitEstablishesIInv == Init => IInv
<1>1. SUFFICES ASSUME Init PROVE IInv
  OBVIOUS
<1>2. Nothing \in RunSet /\ NewTurn \in TurnSet
  BY DEF Nothing, NewTurn, RunSet, TurnSet, Places, Modes
<1>3. QED
  BY <1>1, <1>2 DEF Init, IInv, Types, OwnTurns, Kept, InTurnAt, Known, First, InLine, Whose,
     Nothing

LEMMA NextKeepsIInv == IInv /\ [Next]_vars => IInv'
<1>1. SUFFICES ASSUME IInv, [Next]_vars PROVE IInv'
  OBVIOUS
<1>2. CASE Next
  <2>1. PICK r \in Runs : Step(r) \/ \E i \in Integrations : Start(r, i)
    BY <1>2 DEF Next
  <2>2. CASE \E mode \in Modes : AskTurn(r, mode)
    BY <1>1, <2>2, AskKeepsIInv
  <2>3. CASE Replaced(r) \/ Empty(r) \/ NothingToClose(r) \/ Sent(r) \/ SendFails(r)
    BY <1>1, <2>3, TurnOverKeepsIInv
       DEF Replaced, Empty, NothingToClose, Sent, SendFails, Seated, At
  <2>4. CASE \/ Take(r) \/ Wait(r) \/ WaitAired(r) \/ WaitOver(r) \/ GoOn(r) \/ Finish(r)
             \/ MyTurn(r) \/ Send(r) \/ \E i \in Integrations : Start(r, i)
    BY <1>1, <2>4, PlacesKeepIInv
  <2>5. QED
    BY <2>1, <2>2, <2>3, <2>4 DEF Step, Yields
<1>3. CASE UNCHANGED vars
  BY <1>1, <1>3 DEF vars, IInv, Types, OwnTurns, Kept, InTurnAt, Known, First, InLine, Whose
<1>4. QED
  BY <1>1, <1>2, <1>3

\* Two runs that have come to their turn at one message are one.
LEMMA OneHasTheTurn ==
  ASSUME IInv, NEW r \in Runs, NEW s \in Runs, run[r].of = run[s].of,
         {run[r].at, run[s].at} \subseteq {"seat", "send"}
  PROVE  r = s
<1>1. run[r].turn = run[s].turn
  BY DEF IInv, Kept, InTurnAt, Known
<1>2. QED
  BY <1>1 DEF IInv, Kept, First

\* A Discord message is posted or edited by one run at a time, although the line of
\* those who wait for it is forgotten when the last one leaves it, and made anew.
THEOREM OneRunAtAMessage == Spec => []OneAtATime
<1>1. IInv => OneAtATime
  BY OneHasTheTurn DEF OneAtATime, Going
<1>2. QED
  BY <1>1, InitEstablishesIInv, NextKeepsIInv, PTL DEF Spec
-----------------------------------------------------------------------------
(* Dropping an edit loses nothing.                                          *)

\* The run of the newest edit asked for: when it speaks, it says everything.
Newest(r) ==
  /\ run[r].turn # NoTurn /\ run[r].mode = "last"
  /\ run[r].number = turns[run[r].turn].edits
  /\ run[r].at = "send" => run[r].says = asked[run[r].of]

Pending(i) == \E r \in Of(i) : Newest(r)
Settled(i) == asked[i] \in {shown[i], lost[i]}

\* Every edit asked for has been said or lost, or the newest is still to come; and
\* a run that speaks of fewer edits than were asked for is followed by the newest.
SaidInv ==
  /\ shown \in [Integrations -> Nat] /\ lost \in [Integrations -> Nat]
  /\ \A i \in Integrations : Settled(i) \/ Pending(i)
  /\ \A r \in Runs : run[r].at = "send" /\ run[r].says # asked[run[r].of]
                       => Pending(run[r].of)

\* The newest edit stays the newest while nothing is asked for and its run stays put.
LEMMA NewestStays ==
  ASSUME NEW w \in Runs, NEW i, w \in Of(i), Newest(w), run'[w] = run[w],
         turns'[run[w].turn].edits = turns[run[w].turn].edits, asked'[i] = asked[i]
  PROVE  Pending(i)'
BY DEF Newest, Pending, Of

\* The steps that move a run say nothing new.
LEMMA PlacesKeepSaid ==
  ASSUME IInv, IInv', SaidInv, NEW r \in Runs,
         \/ Take(r) \/ Wait(r) \/ WaitAired(r) \/ WaitOver(r) \/ GoOn(r) \/ Finish(r)
         \/ MyTurn(r) \/ Send(r) \/ \E i \in Integrations : Start(r, i)
  PROVE  SaidInv'
<1>1. /\ UNCHANGED <<turns, asked, shown, lost>> /\ run \in [Runs -> RunSet]
      /\ \A s \in Runs : s # r => run'[s] = run[s]
      /\ Kept(r) /\ Kept(r)'
  BY DEF Take, Wait, WaitAired, WaitOver, GoOn, Finish, MyTurn, Send, Start, TakesAgain, discord,
     IInv, Types
<1>2. \/ run[r].turn = NoTurn /\ run'[r].at # "send"
      \/ /\ run'[r].of = run[r].of /\ run'[r].turn = run[r].turn
         /\ run'[r].mode = run[r].mode /\ run'[r].number = run[r].number
         /\ run'[r].at = "send" => \/ run'[r].says = asked[run[r].of]
                                   \/ run[r].at = "send" /\ run'[r].says = run[r].says
  <2>1. CASE Take(r)
    BY <1>1, <2>1 DEF Take, RunSet
  <2>2. CASE Wait(r) \/ WaitAired(r) \/ GoOn(r) \/ WaitOver(r)
    BY <1>1, <2>2 DEF Wait, WaitAired, GoOn, WaitOver, TakesAgain, At, Seated, Kept, InTurnAt, RunSet
  <2>3. CASE Finish(r) \/ \E i \in Integrations : Start(r, i)
    <3>1. run[r].turn = NoTurn
      BY <1>1, <2>3 DEF Finish, Start, At, Kept, InTurnAt
    <3>2. CASE Finish(r)
      BY <1>1, <3>1, <3>2 DEF Finish, Nothing
    <3>3. CASE \E i \in Integrations : Start(r, i)
      BY <1>1, <3>1, <3>3 DEF Start, Nothing
    <3>4. QED
      BY <2>3, <3>2, <3>3
  <2>4. CASE MyTurn(r)
    BY <1>1, <2>4 DEF MyTurn, TakesAgain, RunSet
  <2>5. CASE Send(r)
    BY <1>1, <2>5 DEF Send, RunSet
  <2>6. QED
    BY <2>1, <2>2, <2>3, <2>4, <2>5
<1>3. ASSUME NEW i, Pending(i) PROVE Pending(i)'
  <2>1. PICK w \in Of(i) : Newest(w)
    BY <1>3 DEF Pending
  <2>2. CASE w = r
    BY <1>1, <1>2, <2>1, <2>2 DEF Newest, Pending, Of
  <2>3. CASE w # r
    BY <1>1, <2>1, <2>3, NewestStays DEF Of
  <2>4. QED
    BY <2>2, <2>3
<1>4. QED
  BY <1>1, <1>2, <1>3 DEF SaidInv, Settled

\* An edit asked for is the newest; a message that is no edit changes nothing.
LEMMA AskKeepsSaid ==
  ASSUME IInv, IInv', SaidInv, NEW r \in Runs, NEW mode \in Modes, AskTurn(r, mode)
  PROVE  SaidInv'
<1>0. PICK i : i = run[r].of
  OBVIOUS
<1> DEFINE o == TurnFor(i)
<1>1. /\ run \in [Runs -> RunSet] /\ turns \in [Turns -> TurnSet]
      /\ asked \in [Integrations -> Nat] /\ \A s \in Runs : Kept(s)
      /\ UNCHANGED <<shown, lost>>
  BY DEF IInv, Types, AskTurn
<1>2. run[r].at = "act" /\ i \in Integrations /\ run[r].turn = NoTurn
  BY <1>0, <1>1 DEF AskTurn, At, Kept, Whose, InTurnAt
<1>3. o \in Turns /\ (turnOf[i] # NoTurn => o = turnOf[i])
      /\ (turnOf[i] = NoTurn => \A s \in Runs : run[s].turn # o)
  BY <1>2, TurnFound
<1> HIDE DEF o
<1>4. /\ run' = [run EXCEPT ![r] = [@ EXCEPT !.at = "turn", !.held = {}, !.turn = o,
                                           !.mode = mode, !.number = turns[o].edits + 1]]
      /\ turns' = [turns EXCEPT ![o].queue = Append(@, r),
                                ![o].edits = IF Counts(mode) THEN turns[o].edits + 1 ELSE @]
      /\ asked' = [asked EXCEPT ![i] = IF mode = "last" THEN @ + 1 ELSE @]
  BY <1>0 DEF AskTurn, o
<1>5. /\ run'[r].at = "turn" /\ run'[r].turn = o /\ run'[r].of = i
      /\ run'[r].mode = mode /\ run'[r].number = turns[o].edits + 1
      /\ \A s \in Runs : s # r => run'[s] = run[s]
  BY <1>0, <1>1, <1>4 DEF RunSet
<1>6. /\ mode = "last" => turns'[o].edits = turns[o].edits + 1
      /\ mode # "last" => turns'[o].edits = turns[o].edits
      /\ \A p \in Turns : p # o => turns'[p] = turns[p]
  BY <1>1, <1>3, <1>4 DEF TurnSet, Counts
<1>7. /\ mode # "last" => asked' = asked
      /\ \A j \in Integrations : j # i => asked'[j] = asked[j]
  BY <1>1, <1>2, <1>4
<1>8. mode = "last" => Pending(i)'
  BY <1>2, <1>3, <1>5, <1>6, NoTurnIsNone DEF Pending, Newest, Of
<1>9. ASSUME NEW j \in Integrations, Pending(j), j # i \/ mode # "last" PROVE Pending(j)'
  <2>1. PICK w \in Of(j) : Newest(w)
    BY <1>9 DEF Pending
  <2>2. w \in Runs /\ run[w].of = j /\ w # r /\ run[w].turn \in Turns
    BY <1>1, <1>2, <2>1 DEF Of, Newest, RunSet
  <2>3. run[w].turn = o => j = i
    BY <1>1, <1>2, <1>3, <2>2, NoTurnIsNone DEF Kept, Known, IInv, OwnTurns
  <2>4. turns'[run[w].turn].edits = turns[run[w].turn].edits
    BY <1>6, <1>9, <2>2, <2>3
  <2>5. QED
    BY <1>5, <1>7, <1>9, <2>1, <2>2, <2>4, NewestStays
<1>10. ASSUME NEW j \in Integrations PROVE (Settled(j) \/ Pending(j))'
  BY <1>1, <1>7, <1>8, <1>9 DEF SaidInv, Settled
<1>11. ASSUME NEW s \in Runs, (run[s].at = "send" /\ run[s].says # asked[run[s].of])'
       PROVE  Pending(run[s].of)'
  <2>1. s # r /\ run'[s] = run[s]
    BY <1>5, <1>11
  <2>2. run[s].of \in Integrations
    BY <1>1, <1>11, <2>1 DEF Kept, Whose
  <2>3. QED
    BY <1>7, <1>8, <1>9, <1>11, <2>1, <2>2 DEF SaidInv
<1>12. QED
  BY <1>1, <1>10, <1>11 DEF SaidInv

\* What ends a turn: the message has been said or lost, or a newer one is behind it.
LEMMA TurnOverKeepsSaid ==
  ASSUME IInv, IInv', SaidInv, NEW r \in Runs,
         Replaced(r) \/ Empty(r) \/ NothingToClose(r) \/ Sent(r) \/ SendFails(r)
  PROVE  SaidInv'
<1>0. PICK i : i = run[r].of
  OBVIOUS
<1> DEFINE o == run[r].turn
<1>1. /\ run \in [Runs -> RunSet] /\ turns \in [Turns -> TurnSet]
      /\ asked \in [Integrations -> Nat] /\ \A s \in Runs : Kept(s)
      /\ shown \in [Integrations -> Nat] /\ lost \in [Integrations -> Nat]
  BY DEF IInv, Types, SaidInv
<1>2. run[r].at \in {"seat", "send"} /\ TurnOver(r) /\ UNCHANGED asked
  BY DEF Replaced, Empty, NothingToClose, Sent, SendFails, Seated, At, TurnOver
<1>3. i \in Integrations /\ o \in Turns
  BY <1>0, <1>1, <1>2, NoTurnIsNone DEF Kept, Whose, InTurnAt, RunSet
<1>4. run'[r].at = "act" /\ \A s \in Runs : s # r => run'[s] = run[s]
  BY <1>1, <1>2 DEF TurnOver, Nothing
<1>5. /\ \A p \in Turns : p # o => turns'[p] = turns[p]
      /\ \A s \in Runs : s # r /\ run[s].turn = o => turns'[o].edits = turns[o].edits
  BY <1>1, <1>2, <1>3 DEF TurnOver, InTurn
<1>6. ASSUME NEW j, NEW w \in Of(j), w # r, Newest(w) PROVE Pending(j)'
  <2>1. w \in Runs /\ run[w].turn \in Turns
    BY <1>1, <1>6 DEF Of, Newest, RunSet
  <2>2. turns'[run[w].turn].edits = turns[run[w].turn].edits
    BY <1>5, <1>6, <2>1
  <2>3. QED
    BY <1>2, <1>4, <1>6, <2>1, <2>2, NewestStays
<1>7. /\ shown' \in [Integrations -> Nat] /\ lost' \in [Integrations -> Nat]
      /\ \A j \in Integrations : j # i => shown'[j] = shown[j] /\ lost'[j] = lost[j]
  <2>1. run[r].says \in Nat /\ asked[i] \in Nat
    BY <1>1, <1>3 DEF RunSet
  <2>2. QED
    BY <1>0, <1>1, <1>3, <2>1 DEF Replaced, Empty, NothingToClose, Sent, SendFails
<1>8. ASSUME NEW j \in Integrations, j # i PROVE (Settled(j) \/ Pending(j))'
  <2>1. CASE Settled(j)
    BY <1>2, <1>7, <1>8, <2>1 DEF Settled
  <2>2. CASE Pending(j)
    BY <1>0, <1>6, <1>8, <2>2 DEF Pending, Of
  <2>3. QED
    BY <2>1, <2>2 DEF SaidInv
<1>9. (Settled(i) \/ Pending(i))'
  <2>1. CASE Replaced(r) \/ NothingToClose(r)
    <3>1. ~Newest(r) /\ UNCHANGED <<shown, lost>>
      BY <2>1 DEF Replaced, NothingToClose, Newer, Newest
    <3>2. QED
      BY <1>2, <1>3, <1>6, <3>1 DEF SaidInv, Settled, Pending
  <2>2. CASE Empty(r)
    BY <1>0, <1>1, <1>2, <1>3, <2>2 DEF Empty, Settled
  <2>3. CASE Sent(r) \/ SendFails(r)
    <3>1. CASE run[r].says = asked[i]
      BY <1>0, <1>1, <1>2, <1>3, <2>3, <3>1 DEF Sent, SendFails, Settled
    <3>2. CASE run[r].says # asked[i]
      <4>1. Pending(i) /\ ~Newest(r)
        BY <1>0, <2>3, <3>2 DEF SaidInv, Sent, SendFails, At, Newest
      <4>2. QED
        BY <1>6, <4>1 DEF Pending
    <3>3. QED
      BY <3>1, <3>2
  <2>4. QED
    BY <2>1, <2>2, <2>3
<1>10. ASSUME NEW s \in Runs, (run[s].at = "send" /\ run[s].says # asked[run[s].of])'
       PROVE  Pending(run[s].of)'
  <2>1. s # r /\ run'[s] = run[s]
    BY <1>4, <1>10
  <2>2. run[s].of # i
    BY <1>0, <1>2, <1>10, <2>1, OneHasTheTurn
  <2>3. PICK j : j = run[s].of
    OBVIOUS
  <2>4. PICK w \in Of(j) : Newest(w)
    BY <1>2, <1>10, <2>1, <2>3 DEF SaidInv, Pending
  <2>5. w # r
    BY <1>0, <2>2, <2>3, <2>4 DEF Of
  <2>6. Pending(j)'
    BY <1>6, <2>4, <2>5
  <2>7. QED
    BY <2>1, <2>3, <2>6 DEF Pending, Of
<1>11. QED
  BY <1>7, <1>8, <1>9, <1>10 DEF SaidInv

\* Dropping an edit loses nothing: once nobody is in line for a message, what it shows
\* knows of every edit asked for, or the newest of them failed or came out empty.
THEOREM LastEditsAreSaid == Spec => []LastEditIsSaid
<1>1. Init => SaidInv
  BY DEF Init, SaidInv, Settled, Nothing
<1>2. IInv /\ IInv' /\ SaidInv /\ [Next]_vars => SaidInv'
  <2>1. SUFFICES ASSUME IInv, IInv', SaidInv, [Next]_vars PROVE SaidInv'
    OBVIOUS
  <2>2. CASE Next
    <3>1. PICK r \in Runs : Step(r) \/ \E i \in Integrations : Start(r, i)
      BY <2>2 DEF Next
    <3>2. CASE \E mode \in Modes : AskTurn(r, mode)
      BY <2>1, <3>2, AskKeepsSaid
    <3>3. CASE Replaced(r) \/ Empty(r) \/ NothingToClose(r) \/ Sent(r) \/ SendFails(r)
      BY <2>1, <3>3, TurnOverKeepsSaid
    <3>4. CASE \/ Take(r) \/ Wait(r) \/ WaitAired(r) \/ WaitOver(r) \/ GoOn(r) \/ Finish(r)
               \/ MyTurn(r) \/ Send(r) \/ \E i \in Integrations : Start(r, i)
      BY <2>1, <3>4, PlacesKeepSaid
    <3>5. QED
      BY <3>1, <3>2, <3>3, <3>4 DEF Step, Yields
  <2>3. CASE UNCHANGED vars
    BY <2>1, <2>3 DEF vars, SaidInv, Settled, Pending, Newest, Of
  <2>4. QED
    BY <2>1, <2>2, <2>3
<1>3. SaidInv => LastEditIsSaid
  BY DEF SaidInv, LastEditIsSaid, Settled, Pending, Newest, Of
<1>4. QED
  BY <1>1, <1>2, <1>3, InitEstablishesIInv, NextKeepsIInv, PTL DEF Spec
=============================================================================
