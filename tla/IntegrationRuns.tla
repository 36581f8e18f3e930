---------------------------- MODULE IntegrationRuns ----------------------------
(***************************************************************************)
(* The runs of the integrations: their places in the engine's limits        *)
(* (src/src/integrations/engine.rs) and their turns at a Discord message    *)
(* (src/src/integrations/runner.rs).                                        *)
(*                                                                         *)
(* A run is a task; between two awaits it is alone.  Permits and locks are   *)
(* tokio's: those who wait for one get it in the order they asked.  What     *)
(* steps do besides is left out, and so are tests, which take no place and   *)
(* have messages of their own.  An integration has one Discord message here. *)
(***************************************************************************)
EXTENDS Integers, Sequences, FiniteSets

CONSTANTS Runs,                \* the runs there may be at once
          Integrations,
          All,                 \* the place among all integrations' runs
          PerIntegration,      \* runs of one that may be doing something at once
          GlobalRuns,          \* of all of them
          PerIntegrationRuns,  \* runs of one started and not finished
          GlobalStarted,       \* of all of them
          MaxAsked             \* bound on the edits asked for of a message

ASSUME AllAssumption == All \notin Integrations
ASSUME FiniteAssumption == IsFiniteSet(Runs) /\ IsFiniteSet(Integrations)
ASSUME LimitsAssumption ==
  {PerIntegration, GlobalRuns, PerIntegrationRuns, GlobalStarted, MaxAsked} \subseteq Nat \ {0}

VARIABLES
  run,     \* per run: where it is, whose it is, the places it holds and those it
           \* still wants, its turn at the message, and in it the kind of its
           \* message, its number, and what it says
  line,    \* per place: the runs waiting for one, in order
  turns,   \* Turn: queue (the first has the lock) and edits
  turnOf,  \* DiscordTurns.messages: an integration's Turn, or NoTurn
  kept,    \* discord_messages: is there a message to edit?
  asked,   \* history: edits asked for
  shown,   \* history: how many of them what Discord shows knows of
  lost     \* history: how many of them a message that did not get out knew of

vars == <<run, line, turns, turnOf, kept, asked, shown, lost>>

Modes  == {"post", "last", "close"}
Places == Integrations \union {All}
Turns  == 1..(Cardinality(Runs) + Cardinality(Integrations))
NoTurn == 0
NewTurn == [queue |-> <<>>, edits |-> 0]

\* No run: what a finished one leaves behind.
Nothing == [at |-> "idle", of |-> All, held |-> {}, wants |-> <<>>,
            turn |-> NoTurn, mode |-> "post", number |-> 0, says |-> 0]

At(r, where) == run[r].at = where
Of(i)        == {r \in Runs : run[r].of = i}
Going        == {r \in Runs : ~At(r, "idle")}
InTurn(o)    == {r \in Runs : run[r].turn = o}

Limit(p) == IF p = All THEN GlobalRuns ELSE PerIntegration
Free(p)  == Cardinality({r \in Runs : p \in run[r].held}) < Limit(p)

Init ==
  /\ run = [r \in Runs |-> Nothing]
  /\ line = [p \in Places |-> <<>>]
  /\ turns = [o \in Turns |-> NewTurn]
  /\ turnOf = [i \in Integrations |-> NoTurn]
  /\ kept = [i \in Integrations |-> FALSE]
  /\ asked = [i \in Integrations |-> 0]
  /\ shown = [i \in Integrations |-> 0] /\ lost = [i \in Integrations |-> 0]

discord == <<turns, turnOf, kept, asked, shown, lost>>
-----------------------------------------------------------------------------
(* Places.                                                                  *)

\* start_run: a place that is not free now turns the run away, and a freed one
\* goes to those who wait.
Start(r, i) ==
  /\ At(r, "idle")
  /\ Cardinality(Of(i)) < PerIntegrationRuns /\ Cardinality(Going) < GlobalStarted
  /\ \A p \in {i, All} : Free(p) /\ line[p] = <<>>
  /\ run' = [run EXCEPT ![r] = [Nothing EXCEPT !.at = "act", !.of = i, !.held = {i, All}]]
  /\ UNCHANGED <<line, discord>>

\* Gate::take_again: its integration's place first.
Wants(r) == IF run[r].held = {} THEN <<run[r].of, All>> ELSE <<>>

Joins(r, wants) ==
  IF wants = <<>> THEN line ELSE [line EXCEPT ![Head(wants)] = Append(@, r)]

TakesAgain(r, where) ==
  /\ run' = [run EXCEPT ![r].at = where, ![r].wants = Wants(r)]
  /\ line' = Joins(r, Wants(r))
  /\ UNCHANGED discord

\* (Mutant: it tries now and then instead of waiting in line.)
TakeBarging(r) ==
  /\ run[r].wants # <<>>
  /\ LET p    == Head(run[r].wants)
         left == Tail(run[r].wants) IN
     /\ Free(p)
     /\ run' = [run EXCEPT ![r].held = @ \union {p}, ![r].wants = left]
     /\ line' = [Joins(r, left) EXCEPT ![p] = SelectSeq(@, LAMBDA s : s # r)]
  /\ UNCHANGED discord

\* The first in line takes a free place, and joins the line for the next.
Take(r) ==
  /\ run[r].wants # <<>>
  /\ LET p    == Head(run[r].wants)
         left == Tail(run[r].wants) IN
     /\ Free(p) /\ Head(line[p]) = r
     /\ run' = [run EXCEPT ![r].held = @ \union {p}, ![r].wants = left]
     /\ line' = [Joins(r, left) EXCEPT ![p] = Tail(@)]
  /\ UNCHANGED discord

Seated(r, where) == At(r, where) /\ run[r].wants = <<>>

\* A wait, for time or for chat, gives the places back; one for a delay that
\* has aired already does not.
Wait(r) ==
  /\ At(r, "act")
  /\ run' = [run EXCEPT ![r].at = "wait", ![r].held = {}]
  /\ UNCHANGED <<line, discord>>

WaitAired(r) ==
  /\ At(r, "act")
  /\ run' = [run EXCEPT ![r].at = "wait"]
  /\ UNCHANGED <<line, discord>>

WaitOver(r) == At(r, "wait") /\ TakesAgain(r, "back")

GoOn(r) ==
  /\ Seated(r, "back")
  /\ run' = [run EXCEPT ![r].at = "act"]
  /\ UNCHANGED <<line, discord>>

Finish(r) ==
  /\ At(r, "act")
  /\ run' = [run EXCEPT ![r] = Nothing]
  /\ UNCHANGED <<line, discord>>
-----------------------------------------------------------------------------
(* A step that posts or edits the integration's Discord message.            *)

\* DiscordTurns::turn
TurnFor(i) ==
  IF turnOf[i] # NoTurn THEN turnOf[i]
  ELSE CHOOSE o \in Turns : InTurn(o) = {} /\ \A j \in Integrations : turnOf[j] # o

\* (Mutant: a message's last edit counts as a newer update, too.)
CountsClosing(mode) == mode # "post"

Counts(mode) == mode = "last"

\* It takes its number, gives its places back and waits for its turn.
AskTurn(r, mode) ==
  /\ At(r, "act")
  /\ LET i == run[r].of
         o == TurnFor(i)
         n == turns[o].edits + 1 IN
     /\ mode = "last" => asked[i] < MaxAsked
     /\ run' = [run EXCEPT ![r] = [@ EXCEPT !.at = "turn", !.held = {}, !.turn = o,
                                            !.mode = mode, !.number = n]]
     /\ turns' = [turns EXCEPT ![o].queue = Append(@, r),
                               ![o].edits = IF Counts(mode) THEN n ELSE @]
     /\ turnOf' = [turnOf EXCEPT ![i] = o]
     /\ asked' = [asked EXCEPT ![i] = IF mode = "last" THEN @ + 1 ELSE @]
  /\ UNCHANGED <<line, kept, shown, lost>>

MyTurn(r) == At(r, "turn") /\ Head(turns[run[r].turn].queue) = r /\ TakesAgain(r, "seat")

\* (Mutant: the message's line is forgotten while others are in it.)
ForgetsAtOnce(r) == TRUE

\* DiscordTurns::done: this run and the map have the turn, nobody else.
NobodyLeft(r) == InTurn(run[r].turn) = {r}

\* The turn is over: the lock is dropped, and the line forgotten if it is empty.
TurnOver(r) ==
  LET i == run[r].of
      o == run[r].turn IN
  /\ run' = [run EXCEPT ![r] = [Nothing EXCEPT !.at = "act", !.of = i, !.held = run[r].held]]
  /\ turns' = [turns EXCEPT ![o] = IF InTurn(o) = {r} THEN NewTurn
                                   ELSE [queue |-> Tail(turns[o].queue), edits |-> turns[o].edits]]
  /\ turnOf' = [turnOf EXCEPT ![i] = IF NobodyLeft(r) THEN NoTurn ELSE @]
  /\ UNCHANGED <<line, asked>>

Newer(r) == run[r].mode = "last" /\ turns[run[r].turn].edits # run[r].number

\* An edit with a newer one behind it is dropped.
Replaced(r) == Seated(r, "seat") /\ Newer(r) /\ TurnOver(r) /\ UNCHANGED <<kept, shown, lost>>

Empty(r) ==
  /\ Seated(r, "seat") /\ ~Newer(r)
  /\ lost' = [lost EXCEPT ![run[r].of] = asked[run[r].of]]
  /\ TurnOver(r) /\ UNCHANGED <<kept, shown>>

NothingToClose(r) ==
  /\ Seated(r, "seat") /\ run[r].mode = "close" /\ ~kept[run[r].of]
  /\ TurnOver(r) /\ UNCHANGED <<kept, shown, lost>>

\* The message is filled in now, and goes out while others run.
Send(r) ==
  /\ Seated(r, "seat") /\ ~Newer(r)
  /\ run[r].mode = "close" => kept[run[r].of]
  /\ run' = [run EXCEPT ![r].at = "send", ![r].says = asked[run[r].of]]
  /\ UNCHANGED <<line, discord>>

\* Discord answers with the message's number, or without one.
Sent(r) ==
  /\ At(r, "send")
  /\ \E numbered \in BOOLEAN :
       kept' = [kept EXCEPT ![run[r].of] = run[r].mode # "close" /\ (@ \/ numbered)]
  /\ shown' = [shown EXCEPT ![run[r].of] = run[r].says]
  /\ TurnOver(r) /\ UNCHANGED lost

SendFails(r) ==
  /\ At(r, "send")
  /\ lost' = [lost EXCEPT ![run[r].of] = run[r].says]
  /\ TurnOver(r) /\ UNCHANGED <<kept, shown>>
-----------------------------------------------------------------------------
Yields(r) == Wait(r) \/ Finish(r) \/ \E mode \in Modes : AskTurn(r, mode)

Step(r) ==
  \/ Yields(r) \/ WaitAired(r) \/ WaitOver(r) \/ Take(r) \/ GoOn(r)
  \/ MyTurn(r) \/ Replaced(r) \/ Empty(r) \/ NothingToClose(r)
  \/ Send(r) \/ Sent(r) \/ SendFails(r)

Next == \E r \in Runs : Step(r) \/ \E i \in Integrations : Start(r, i)

Spec == Init /\ [][Next]_vars

\* A run goes on: waits end, and a call to Discord returns or times out.  It has
\* finitely many steps, and keeps no place for ever.
FairSpec == Spec /\ \A r \in Runs : WF_vars(Step(r)) /\ SF_vars(Yields(r))
-----------------------------------------------------------------------------
\* A Discord message is posted or edited by one run at a time, although the line
\* of those waiting for it is forgotten and made anew.
OneAtATime ==
  \A r, s \in Going : r # s /\ run[r].of = run[s].of
                        => ~({run[r].at, run[s].at} \subseteq {"seat", "send"})

\* Dropping an edit loses nothing: once nobody is in line for a message, what it
\* shows knows of every edit asked for, or one that did and was the newest failed
\* or came out empty.
LastEditIsSaid ==
  \A i \in Integrations :
    (\A r \in Of(i) : run[r].turn = NoTurn) => asked[i] \in {shown[i], lost[i]}

\* A run waiting for its place or its turn gets it.
NobodyWaitsForEver ==
  \A r \in Runs : run[r].at \in {"turn", "seat", "back"} ~> run[r].at \in {"act", "send"}
=============================================================================
