-------------------------- MODULE IngestSession_proofs --------------------------
(***************************************************************************)
(* Proofs about IngestSession, for any connections, destinations, control  *)
(* threads, settings and bounds: types; who has the slot; no hold over an  *)
(* OBS that sends; a crash is protected and a stop ends the stream; one    *)
(* VOD-session request at a time; whose sessions at Twitch the destinations *)
(* use; and, at the end, the clock on_tag reads a tag's stamp by, for every *)
(* length of its cycle.                                                    *)
(***************************************************************************)
EXTENDS IngestSession, InputClock, TLAPS

-----------------------------------------------------------------------------
(* Types, a group of variables at a time.                                   *)

SlotTypes    == /\ guard \in [Conns -> Closed .. MaxToken] /\ token \in 0 .. MaxToken
                /\ ingestAlive \in BOOLEAN /\ unpublished \in BOOLEAN
WatchTypes   == headers \in BOOLEAN /\ video \in {"none", "fresh", "stale"} /\ frozen \in BOOLEAN
SessionTypes == /\ override \in [Dests -> SessionSet] /\ epoch \in [Dests -> Nat]
                /\ ebSession \in 0 .. MaxSession
FetchTypes   == /\ pending \in [VodDests -> BOOLEAN]
                /\ flights \in [VodDests -> Seq(FlightSet)]
ProxyTypes   == asking \in BOOLEAN /\ opened \in 0 .. MaxSession /\ handed \in 0 .. MaxSession
HistoryTypes == /\ goodbyes \subseteq Conns /\ stream \in Nat
                /\ ebOf \in 0 .. MaxSession /\ used \subseteq 0 .. MaxSession
                /\ ebAstray \in BOOLEAN /\ tookOver \in BOOLEAN
RestTypes    == /\ protection \in Protections /\ plan \in Plans
                /\ egress \in [Dests -> {"down", "dialing", "up"}]
                /\ tickSaw \in BOOLEAN
                /\ control \in [Controls -> {"idle", "close", "forget", "tail"}]

\* Twitch is asked only while another session may be opened.
Asked == asking => opened < MaxSession

LEMMA TypesGrouped ==
  TypeOK <=> /\ SlotTypes /\ WatchTypes /\ hold \in HoldSet /\ SessionTypes
             /\ FetchTypes /\ ProxyTypes /\ HistoryTypes /\ RestTypes
BY DEF TypeOK, SlotTypes, WatchTypes, SessionTypes, FetchTypes, ProxyTypes, HistoryTypes, RestTypes

LEMMA GroupsTyped ==
  ASSUME SlotTypes', WatchTypes', hold' \in HoldSet, SessionTypes',
         FetchTypes', ProxyTypes', HistoryTypes', RestTypes'
  PROVE  TypeOK'
BY DEF TypeOK, SlotTypes, WatchTypes, SessionTypes, FetchTypes, ProxyTypes, HistoryTypes, RestTypes

\* What a step leaves alone keeps its types.
LEMMA LeftAlone ==
  ASSUME TypeOK, Asked
  PROVE  /\ UNCHANGED slot => SlotTypes'
         /\ UNCHANGED watched => WatchTypes'
         /\ UNCHANGED hold => hold' \in HoldSet
         /\ UNCHANGED sessions => SessionTypes'
         /\ UNCHANGED <<fetching, plan>> => FetchTypes'
         /\ UNCHANGED proxy => ProxyTypes' /\ Asked'
         /\ UNCHANGED history => HistoryTypes'
         /\ UNCHANGED rest => RestTypes' /\ UNCHANGED plan
<1>1. /\ SlotTypes /\ WatchTypes /\ hold \in HoldSet /\ SessionTypes
      /\ FetchTypes /\ ProxyTypes /\ HistoryTypes /\ RestTypes
  BY TypesGrouped
<1>2. /\ UNCHANGED slot => SlotTypes'
      /\ UNCHANGED watched => WatchTypes'
      /\ UNCHANGED hold => hold' \in HoldSet
  BY <1>1 DEF slot, watched, SlotTypes, WatchTypes
<1>3. /\ UNCHANGED sessions => SessionTypes'
      /\ UNCHANGED <<fetching, plan>> => FetchTypes'
  BY <1>1 DEF sessions, fetching, SessionTypes, FetchTypes, VodDests
<1>4. /\ UNCHANGED proxy => ProxyTypes' /\ Asked'
      /\ UNCHANGED history => HistoryTypes'
  <2>1. UNCHANGED proxy => ProxyTypes' /\ Asked'
    BY <1>1 DEF proxy, ProxyTypes, Asked
  <2>2. UNCHANGED history => HistoryTypes'
    BY <1>1 DEF history, HistoryTypes
  <2>3. QED
    BY <2>1, <2>2
<1>5. UNCHANGED rest => RestTypes' /\ UNCHANGED plan
  BY <1>1 DEF rest, RestTypes
<1>6. QED
  BY <1>2, <1>3, <1>4, <1>5

\* What the steps do to a hold keeps it one.
LEMMA HoldsStayHolds ==
  ASSUME NEW h \in HoldSet, NEW b \in BOOLEAN,
         NEW why \in {"none", "crash", "freeze", "stopped"},
         NEW end \in {"none", "resumed", "ended"}
  PROVE  /\ ClosedAs(h, end) \in HoldSet
         /\ [h EXCEPT !.tail = b] \in HoldSet /\ [h EXCEPT !.open = b] \in HoldSet
         /\ [h EXCEPT !.over = b] \in HoldSet /\ [h EXCEPT !.claimed = b] \in HoldSet
         /\ [h EXCEPT !.why = "none", !.over = FALSE, !.lastEnd = "ended"] \in HoldSet
         /\ NoHold \in HoldSet
BY DEF ClosedAs, HoldSet, NoHold

LEMMA StartedIsAHold ==
  ASSUME hold \in HoldSet, NEW why \in {"crash", "freeze", "stopped"}
  PROVE  Started(why) \in HoldSet
BY DEF Started, HoldSet

LEMMA ResumedIsAHold ==
  ASSUME hold \in HoldSet
  PROVE  Resumed \in HoldSet
<1>1. ClosedAs(hold, "ended") \in HoldSet
  BY HoldsStayHolds
<1>2. PICK h \in HoldSet : h = (IF Lapsed THEN ClosedAs(hold, "ended") ELSE hold)
  BY <1>1
<1>3. ClosedAs(h, "resumed") \in HoldSet
  BY HoldsStayHolds
<1>4. QED
  BY <1>2, <1>3, HoldsStayHolds DEF Resumed

LEMMA HoldAtDeathIsAHold ==
  ASSUME hold \in HoldSet
  PROVE  HoldAtDeath \in HoldSet
<1>1. ClosedAs(hold, "ended") \in HoldSet
  BY HoldsStayHolds
<1>2. Started(IF unpublished THEN "stopped" ELSE "crash") \in HoldSet
  BY StartedIsAHold
<1>3. QED
  BY <1>1, <1>2 DEF HoldAtDeath

LEMMA InvalidateKeepsTypes ==
  ASSUME override \in [Dests -> SessionSet], epoch \in [Dests -> Nat], NEW ds, Invalidate(ds)
  PROVE  override' \in [Dests -> SessionSet] /\ epoch' \in [Dests -> Nat]
BY DEF Invalidate, SessionSet, NoSession

LEMMA GuardValues ==
  /\ Closed \in Closed .. MaxToken /\ Open \in Closed .. MaxToken
  /\ 0 \in 0 .. MaxToken
  /\ \A n \in 0 .. MaxToken : n < MaxToken => /\ n + 1 \in 0 .. MaxToken
                                            /\ n + 1 \in Closed .. MaxToken
BY BoundsAssumption DEF Closed, Open
-----------------------------------------------------------------------------
LEMMA InitIsTyped == Init => TypeOK /\ Asked
<1>1. SUFFICES ASSUME Init PROVE TypeOK /\ Asked
  OBVIOUS
<1>2. hold \in HoldSet
  BY <1>1 DEF Init, HoldSet, NoHold
<1>3. SlotTypes
  BY <1>1, GuardValues DEF Init, SlotTypes
<1>8. WatchTypes /\ RestTypes
  BY <1>1 DEF Init, WatchTypes, RestTypes
<1>4. SessionTypes
  BY <1>1, BoundsAssumption DEF Init, SessionTypes, SessionSet, NoSession
<1>5. FetchTypes
  <2>1. <<>> \in Seq(FlightSet)
    OBVIOUS
  <2>2. QED
    BY <1>1, <2>1 DEF Init, FetchTypes
<1>6. 0 \in 0 .. MaxSession
  BY BoundsAssumption
<1>7. ProxyTypes /\ HistoryTypes /\ Asked
  BY <1>1, <1>6 DEF Init, ProxyTypes, HistoryTypes, Asked
<1>9. QED
  BY <1>2, <1>3, <1>4, <1>5, <1>7, <1>8, TypesGrouped

\* The connections' steps keep the types.
LEMMA IngestKeepsTypes ==
  ASSUME TypeOK, Asked, NEW c \in Conns, Ingest(c)
  PROVE  TypeOK' /\ Asked'
<1>1. /\ SlotTypes /\ WatchTypes /\ hold \in HoldSet /\ SessionTypes
      /\ FetchTypes /\ ProxyTypes /\ HistoryTypes /\ RestTypes
  BY TypesGrouped
<1>2. CASE Connect(c) \/ RejectPublish(c) \/ Goodbye(c) \/ DropOther(c)
  <2>1. SlotTypes' /\ HistoryTypes'
    BY <1>1, <1>2, GuardValues
       DEF Connect, RejectPublish, Goodbye, DropOther, SlotTypes, HistoryTypes, history
  <2>2. UNCHANGED <<watched, hold, sessions, fetching, proxy, rest>>
    BY <1>2 DEF Connect, RejectPublish, Goodbye, DropOther
  <2>3. QED
    BY <2>1, <2>2, LeftAlone, GroupsTyped
<1>3. CASE Publish(c)
  <2>1. SlotTypes'
    BY <1>1, <1>3, GuardValues DEF Publish, SlotTypes
  <2>2. WatchTypes' /\ ProxyTypes' /\ Asked'
    <3>1. WatchTypes'
      BY <1>3 DEF Publish, WatchTypes
    <3>2. handed' = 0 /\ UNCHANGED <<asking, opened>> /\ 0 \in 0 .. MaxSession
      BY <1>3, BoundsAssumption DEF Publish
    <3>3. QED
      BY <1>1, <3>1, <3>2 DEF ProxyTypes, Asked
  <2>3. HistoryTypes'
    <3>1. stream' \in Nat
      <4>1. stream \in Nat /\ (stream' = stream \/ stream' = stream + 1)
        BY <1>1, <1>3 DEF Publish, HistoryTypes
      <4>2. QED
        BY <4>1
    <3>2. /\ ebOf' = handed /\ used' = used \union {handed} /\ goodbyes' = goodbyes \ {c}
          /\ ebAstray' \in BOOLEAN /\ tookOver' \in BOOLEAN
      BY <1>1, <1>3 DEF Publish, HistoryTypes, SlotTypes
    <3>3. QED
      BY <1>1, <3>1, <3>2 DEF HistoryTypes, ProxyTypes
  <2>4. hold' \in HoldSet
    BY <1>1, <1>3, ResumedIsAHold DEF Publish
  <2>5. SessionTypes'
    <3>1. \E ds : Invalidate(ds)
      BY <1>3 DEF Publish
    <3>2. ebSession' \in 0 .. MaxSession
      BY <1>1, <1>3, BoundsAssumption DEF Publish, SessionTypes
    <3>3. QED
      BY <1>1, <3>1, <3>2, InvalidateKeepsTypes DEF SessionTypes
  <2>6. UNCHANGED <<fetching, rest>>
    BY <1>3 DEF Publish
  <2>7. QED
    BY <2>1, <2>2, <2>3, <2>4, <2>5, <2>6, LeftAlone, GroupsTyped
<1>4. CASE Video(c)
  <2>1. WatchTypes'
    BY <1>1, <1>4 DEF Video, WatchTypes
  <2>2. hold' \in HoldSet
    BY <1>1, <1>4, ResumedIsAHold DEF Video
  <2>3. UNCHANGED <<slot, sessions, fetching, proxy, history, rest>>
    BY <1>4 DEF Video
  <2>4. QED
    BY <2>1, <2>2, <2>3, LeftAlone, GroupsTyped
<1>5. CASE DropCurrent(c)
  <2>1. SlotTypes' /\ HistoryTypes'
    BY <1>1, <1>5, GuardValues DEF DropCurrent, SlotTypes, HistoryTypes
  <2>2. hold' \in HoldSet
    BY <1>1, <1>5, HoldAtDeathIsAHold, HoldsStayHolds DEF DropCurrent
  <2>3. SessionTypes'
    BY <1>1, <1>5, InvalidateKeepsTypes DEF DropCurrent, SessionTypes
  <2>4. UNCHANGED <<watched, fetching, proxy, rest>>
    BY <1>5 DEF DropCurrent
  <2>5. QED
    BY <2>1, <2>2, <2>3, <2>4, LeftAlone, GroupsTyped
<1>6. QED
  BY <1>2, <1>3, <1>4, <1>5 DEF Ingest

\* So do the supervisor's steps and the deadlines.
LEMMA SuperviseKeepsTypes ==
  ASSUME TypeOK, Asked, Supervise \/ Time
  PROVE  TypeOK' /\ Asked'
<1>1. /\ SlotTypes /\ WatchTypes /\ hold \in HoldSet /\ SessionTypes
      /\ FetchTypes /\ ProxyTypes /\ HistoryTypes /\ RestTypes
  BY TypesGrouped
<1>2. ClosedAs(hold, "ended") \in HoldSet /\ ObsGone \in BOOLEAN
  BY <1>1, HoldsStayHolds DEF ObsGone, SlotTypes, WatchTypes
<1>3. CASE Expire
  <2>1. hold' \in HoldSet
    BY <1>2, <1>3, HoldsStayHolds DEF Expire
  <2>2. SessionTypes'
    BY <1>1, <1>3, InvalidateKeepsTypes DEF Expire, SessionTypes
  <2>3. UNCHANGED <<slot, watched, fetching, proxy, history, rest>>
    BY <1>3 DEF Expire
  <2>4. QED
    BY <2>1, <2>2, <2>3, LeftAlone, GroupsTyped
<1>4. CASE CheckFreeze
  <2>1. hold' \in HoldSet /\ WatchTypes'
    BY <1>1, <1>4, StartedIsAHold DEF CheckFreeze, WatchTypes
  <2>2. UNCHANGED <<slot, sessions, fetching, proxy, rest>>
    BY <1>4 DEF CheckFreeze
  <2>3. HistoryTypes'
    BY <1>1, <1>4 DEF CheckFreeze, HistoryTypes
  <2>4. QED
    BY <2>1, <2>2, <2>3, LeftAlone, GroupsTyped
<1>5. CASE TickReads
  <2>1. RestTypes' /\ UNCHANGED plan
    BY <1>1, <1>5 DEF TickReads, RestTypes, SlotTypes
  <2>2. UNCHANGED <<slot, watched, hold, sessions, fetching, proxy, history>>
    BY <1>5 DEF TickReads
  <2>3. QED
    BY <2>1, <2>2, LeftAlone, GroupsTyped
<1>6. ASSUME NEW p \in Protections, Configure(p) PROVE TypeOK' /\ Asked'
  <2>1. RestTypes' /\ UNCHANGED plan
    BY <1>1, <1>6 DEF Configure, RestTypes
  <2>2. p.enabled \in BOOLEAN
    BY ProtectionsAssumption DEF Protection
  <2>3. WatchTypes'
    BY <1>1, <1>6, <2>2 DEF Configure, WatchTypes
  <2>4. UNCHANGED <<slot, ebSession, fetching, proxy, history>>
    BY <1>6 DEF Configure
  <2>5. hold' \in HoldSet /\ SessionTypes'
    <3>1. CASE frozen /\ ~p.enabled /\ Held
      <4>1. hold' \in HoldSet
        BY <1>2, <1>6, <3>1, HoldsStayHolds DEF Configure
      <4>2. SessionTypes'
        BY <1>1, <1>6, <2>4, <3>1, InvalidateKeepsTypes DEF Configure, SessionTypes
      <4>3. QED
        BY <4>1, <4>2
    <3>2. CASE ~(frozen /\ ~p.enabled /\ Held)
      <4>1. hold' = hold \/ hold' = [hold EXCEPT !.tail = FALSE]
        BY <1>6, <3>2 DEF Configure
      <4>2. hold' \in HoldSet
        BY <1>1, <4>1, HoldsStayHolds
      <4>3. SessionTypes'
        BY <1>1, <1>6, <2>4, <3>2 DEF Configure, SessionTypes
      <4>4. QED
        BY <4>2, <4>3
    <3>3. QED
      BY <3>1, <3>2
  <2>6. QED
    BY <2>1, <2>3, <2>4, <2>5, LeftAlone, GroupsTyped
<1>7. CASE DeadlinePasses
  <2>1. hold' \in HoldSet
    BY <1>1, <1>7, HoldsStayHolds DEF DeadlinePasses
  <2>2. UNCHANGED <<slot, watched, sessions, fetching, proxy, history, rest>>
    BY <1>7 DEF DeadlinePasses
  <2>3. QED
    BY <2>1, <2>2, LeftAlone, GroupsTyped
<1>8. CASE VideoStops
  <2>1. WatchTypes'
    BY <1>1, <1>8 DEF VideoStops, WatchTypes
  <2>2. UNCHANGED <<slot, hold, sessions, fetching, proxy, history, rest>>
    BY <1>8 DEF VideoStops
  <2>3. QED
    BY <2>1, <2>2, LeftAlone, GroupsTyped
<1>9. QED
  BY <1>3, <1>4, <1>5, <1>6, <1>7, <1>8 DEF Supervise, Time
\* So do the ends of a hold and of a tail.
LEMMA EndsKeepTypes ==
  ASSUME TypeOK, Asked, EndTail \/ EndHoldNow \/ \E t \in Controls : EndHold(t)
  PROVE  TypeOK' /\ Asked'
<1>1. /\ SlotTypes /\ WatchTypes /\ hold \in HoldSet /\ SessionTypes
      /\ FetchTypes /\ ProxyTypes /\ HistoryTypes /\ RestTypes
  BY TypesGrouped
<1>2. CASE EndTail
  <2>1. hold' \in HoldSet
    BY <1>1, <1>2, HoldsStayHolds DEF EndTail
  <2>2. UNCHANGED <<slot, watched, sessions, fetching, proxy, history, rest>>
    BY <1>2 DEF EndTail
  <2>3. QED
    BY <2>1, <2>2, LeftAlone, GroupsTyped
<1>3. CASE EndHoldNow
  <2>1. ClosedAs(hold, "ended") \in HoldSet
    BY <1>1, HoldsStayHolds
  <2>2. hold' \in HoldSet
    BY <2>1, <1>3, HoldsStayHolds DEF EndHoldNow
  <2>3. SessionTypes'
    BY <1>1, <1>3, InvalidateKeepsTypes DEF EndHoldNow, SessionTypes
  <2>4. UNCHANGED <<slot, watched, fetching, proxy, history, rest>>
    BY <1>3 DEF EndHoldNow
  <2>5. QED
    BY <2>2, <2>3, <2>4, LeftAlone, GroupsTyped
<1>4. ASSUME NEW t \in Controls, EndHold(t) PROVE TypeOK' /\ Asked'
  <2>1. PICK to \in {"idle", "close", "forget", "tail"} :
          /\ control' = [control EXCEPT ![t] = to]
          /\ UNCHANGED <<slot, watched, ebSession, fetching, proxy, history, protection, plan,
                         egress, tickSaw>>
    BY <1>4 DEF EndHold, TakeHold, CloseHold, ForgetSessions, DropTail, Moves
  <2>2. RestTypes'
    BY <1>1, <2>1 DEF RestTypes
  <2>3. hold' \in HoldSet
    BY <1>1, <1>4, HoldsStayHolds DEF EndHold, TakeHold, CloseHold, ForgetSessions, DropTail
  <2>4. SessionTypes'
    <3>1. UNCHANGED <<override, epoch>> \/ \E ds : Invalidate(ds)
      BY <1>4 DEF EndHold, TakeHold, CloseHold, ForgetSessions, DropTail
    <3>2. QED
      BY <1>1, <2>1, <3>1, InvalidateKeepsTypes DEF SessionTypes
  <2>5. QED
    BY <2>1, <2>2, <2>3, <2>4, LeftAlone, GroupsTyped
<1>5. QED
  BY <1>2, <1>3, <1>4

\* So do the pumps, the requests for a VOD-audio session, and the proxy.
LEMMA SessionsKeepTypes ==
  ASSUME TypeOK, Asked,
         (\E d \in Dests : Pump(d)) \/ (\E d \in VodDests : VodFetch(d)) \/ Proxy
  PROVE  TypeOK' /\ Asked'
<1>1. /\ SlotTypes /\ WatchTypes /\ hold \in HoldSet /\ SessionTypes
      /\ FetchTypes /\ ProxyTypes /\ HistoryTypes /\ RestTypes
  BY TypesGrouped
<1>2. ASSUME NEW d \in Dests, Pump(d) PROVE TypeOK' /\ Asked'
  <2>1. PICK to \in {"down", "dialing", "up"} : egress' = [egress EXCEPT ![d] = to]
    BY <1>2 DEF Pump, Dial, Connected, GoDown, Egress
  <2>2. UNCHANGED <<slot, watched, hold, sessions, fetching, proxy, history, protection,
                    plan, tickSaw, control>>
    BY <1>2 DEF Pump, Dial, Connected, GoDown, Egress
  <2>3. RestTypes'
    BY <1>1, <2>1, <2>2 DEF RestTypes
  <2>4. QED
    BY <2>2, <2>3, LeftAlone, GroupsTyped
<1>3. ASSUME NEW d \in VodDests, ClaimVodFetch(d) PROVE TypeOK' /\ Asked'
  <2>1. [epoch |-> epoch[d], of |-> StreamNow] \in FlightSet
    <3>1. d \in Dests
      BY <1>1, PlansAssumption DEF VodDests, RestTypes
    <3>2. epoch[d] \in Nat
      BY <1>1, <3>1 DEF SessionTypes
    <3>3. StreamNow \in Nat
      BY <1>1 DEF HistoryTypes, StreamNow
    <3>4. QED
      BY <3>2, <3>3 DEF FlightSet
  <2>2. UNCHANGED <<slot, watched, hold, sessions, proxy, history, rest>>
    BY <1>3 DEF ClaimVodFetch
  <2>3. Append(flights[d], [epoch |-> epoch[d], of |-> StreamNow]) \in Seq(FlightSet)
    BY <1>1, <2>1 DEF FetchTypes
  <2>4. pending' \in [VodDests -> BOOLEAN] /\ flights' \in [VodDests -> Seq(FlightSet)]
    BY <1>1, <1>3, <2>3 DEF ClaimVodFetch, FetchTypes
  <2>5. FetchTypes'
    BY <2>2, <2>4 DEF FetchTypes, VodDests, rest
  <2>6. QED
    BY <2>2, <2>5, LeftAlone, GroupsTyped
<1>4. ASSUME NEW d \in VodDests, NEW i \in DOMAIN flights[d], NEW success \in BOOLEAN,
             CompleteVodFetch(d, i, success)
      PROVE  TypeOK' /\ Asked'
  <2>1. d \in Dests /\ flights[d] \in Seq(FlightSet) /\ flights[d][i] \in FlightSet
    BY <1>1, PlansAssumption DEF VodDests, RestTypes, FetchTypes
  <2>2. Vod(flights[d][i].of) \in SessionSet
    BY <2>1 DEF Vod, SessionSet, FlightSet
  <2>3. UNCHANGED <<slot, watched, hold, epoch, ebSession, proxy, history, rest>>
    BY <1>4 DEF CompleteVodFetch
  <2>4. SessionTypes'
    BY <1>1, <1>4, <2>1, <2>2, <2>3 DEF CompleteVodFetch, SessionTypes
  <2>5. SubSeq(flights[d], 1, i - 1) \o SubSeq(flights[d], i + 1, Len(flights[d])) \in Seq(FlightSet)
    <3>1. SubSeq(flights[d], 1, i - 1) \in Seq(FlightSet)
      BY <2>1
    <3>2. SubSeq(flights[d], i + 1, Len(flights[d])) \in Seq(FlightSet)
      BY <2>1
    <3>3. QED
      BY <3>1, <3>2
  <2>6. pending' \in [VodDests -> BOOLEAN] /\ flights' \in [VodDests -> Seq(FlightSet)]
    BY <1>1, <1>4, <2>5 DEF CompleteVodFetch, FetchTypes
  <2>7. FetchTypes'
    BY <2>3, <2>6 DEF FetchTypes, VodDests, rest
  <2>8. QED
    BY <2>3, <2>4, <2>7, LeftAlone, GroupsTyped
<1>5. CASE HandHeldConfig \/ AskTwitch \/ TwitchFails
  <2>1. hold' \in HoldSet
    BY <1>1, <1>5, HoldsStayHolds DEF HandHeldConfig, AskTwitch, TwitchFails
  <2>2. ProxyTypes' /\ Asked'
    <3>1. handed' \in 0 .. MaxSession /\ opened' = opened
      BY <1>1, <1>5, BoundsAssumption
         DEF HandHeldConfig, AskTwitch, TwitchFails, ProxyTypes, SessionTypes
    <3>2. asking' = asking \/ asking' = FALSE \/ (asking' = TRUE /\ opened < MaxSession)
      BY <1>5 DEF HandHeldConfig, AskTwitch, TwitchFails
    <3>3. ProxyTypes'
      BY <1>1, <3>1, <3>2 DEF ProxyTypes
    <3>4. Asked'
      BY <3>1, <3>2 DEF Asked
    <3>5. QED
      BY <3>3, <3>4
  <2>3. UNCHANGED <<slot, watched, sessions, fetching, rest>>
    BY <1>5 DEF HandHeldConfig, AskTwitch, TwitchFails
  <2>4. HistoryTypes'
    BY <1>1, <1>5 DEF HandHeldConfig, AskTwitch, TwitchFails, history, HistoryTypes
  <2>5. QED
    BY <2>1, <2>2, <2>3, <2>4, LeftAlone, GroupsTyped
<1>6. CASE TwitchAnswers
  <2>1. hold' \in HoldSet
    BY <1>1, <1>6, HoldsStayHolds DEF TwitchAnswers
  <2>2. opened + 1 \in 0 .. MaxSession /\ opened + 1 \in Nat
    BY <1>1, <1>6, BoundsAssumption DEF TwitchAnswers, ProxyTypes, Asked
  <2>3. ProxyTypes' /\ Asked'
    BY <1>6, <2>2 DEF TwitchAnswers, ProxyTypes, Asked
  <2>4. SessionTypes'
    <3>1. Eb(opened + 1) \in SessionSet /\ NoSession \in SessionSet
      BY <2>2 DEF Eb, NoSession, SessionSet
    <3>2. QED
      BY <1>1, <1>6, <2>2, <3>1 DEF TwitchAnswers, SessionTypes
  <2>5. UNCHANGED <<slot, watched, fetching, rest>>
    BY <1>6 DEF TwitchAnswers
  <2>6. HistoryTypes'
    BY <1>1, <1>6 DEF TwitchAnswers, HistoryTypes
  <2>7. QED
    BY <2>1, <2>3, <2>4, <2>5, <2>6, LeftAlone, GroupsTyped
<1>7. QED
  BY <1>2, <1>3, <1>4, <1>5, <1>6 DEF VodFetch, Proxy

LEMMA StepKeepsTypes ==
  ASSUME TypeOK, Asked, [Next]_vars
  PROVE  TypeOK' /\ Asked'
<1>1. CASE UNCHANGED vars
  BY <1>1, LeftAlone, GroupsTyped, TypesGrouped DEF vars
<1>2. CASE Next
  BY <1>2, IngestKeepsTypes, SuperviseKeepsTypes, EndsKeepTypes, SessionsKeepTypes DEF Next
<1>3. QED
  BY <1>1, <1>2

\* Every variable keeps its type.
THEOREM TypeCorrectness == Spec => []TypeOK
<1>1. Init => TypeOK /\ Asked
  BY InitIsTyped
<1>2. TypeOK /\ Asked /\ [Next]_vars => (TypeOK /\ Asked)'
  BY StepKeepsTypes
<1>3. QED
  BY <1>1, <1>2, PTL DEF Spec
-----------------------------------------------------------------------------
(* The slot and the hold.                                                   *)

\* Every token was the newest once, and no two connections share one.
TokensDiffer ==
  /\ \A c \in Conns : guard[c] <= token
  /\ \A c, d \in Conns : guard[c] > Open /\ guard[c] = guard[d] => c = d

\* The publisher's goodbye is its own.
GoodbyeIsItsOwn == \A c \in Conns : Current(c) => (unpublished <=> c \in goodbyes)

SlotInv == TokensDiffer /\ SlotHasItsPublisher /\ GoodbyeIsItsOwn

IInv == TypeOK /\ Asked /\ SlotInv /\ HoldMeansObsIsGone

LEMMA SlotLeftAlone ==
  ASSUME SlotInv, UNCHANGED <<slot, goodbyes>>
  PROVE  SlotInv'
BY DEF SlotInv, TokensDiffer, SlotHasItsPublisher, GoodbyeIsItsOwn, Current, slot

\* A connection that is not the publisher comes, goes, or is turned away.
LEMMA OthersKeepTheSlot ==
  ASSUME TypeOK, SlotInv, NEW c \in Conns, Connect(c) \/ RejectPublish(c) \/ DropOther(c)
  PROVE  SlotInv'
<1>1. /\ guard \in [Conns -> Closed .. MaxToken] /\ token \in 0 .. MaxToken
  BY DEF TypeOK
<1>2. PICK to \in {Closed, Open} : guard' = [guard EXCEPT ![c] = to]
  BY DEF Connect, RejectPublish, DropOther
<1>3. ~Current(c) /\ UNCHANGED <<token, ingestAlive, unpublished>>
  BY DEF Connect, RejectPublish, DropOther, Current, Open, Closed
<1>4. goodbyes' = goodbyes \/ goodbyes' = goodbyes \ {c}
  BY DEF Connect, RejectPublish, DropOther, history
<1>5. ~Current(c)' /\ \A d \in Conns \ {c} : guard'[d] = guard[d] /\ (Current(d)' <=> Current(d))
  BY <1>1, <1>2, <1>3 DEF Current, Open, Closed
<1>6. TokensDiffer'
  BY <1>1, <1>2, <1>3, BoundsAssumption DEF SlotInv, TokensDiffer, Open, Closed
<1>7. SlotHasItsPublisher'
  BY <1>3, <1>5 DEF SlotInv, SlotHasItsPublisher
<1>8. GoodbyeIsItsOwn'
  <2>1. SUFFICES ASSUME NEW d \in Conns, Current(d)' PROVE (unpublished <=> d \in goodbyes)'
    BY DEF GoodbyeIsItsOwn
  <2>2. d # c /\ Current(d) /\ (d \in goodbyes' <=> d \in goodbyes)
    BY <1>4, <1>5, <2>1
  <2>3. QED
    BY <1>3, <2>2 DEF SlotInv, GoodbyeIsItsOwn
<1>9. QED
  BY <1>6, <1>7, <1>8 DEF SlotInv

LEMMA PublishKeepsTheSlot ==
  ASSUME TypeOK, SlotInv, NEW c \in Conns, Publish(c)
  PROVE  SlotInv'
<1>1. /\ guard \in [Conns -> Closed .. MaxToken] /\ token \in 0 .. MaxToken
  BY DEF TypeOK
<1>2. /\ guard' = [guard EXCEPT ![c] = token + 1] /\ token' = token + 1
      /\ ingestAlive' = TRUE /\ unpublished' = FALSE /\ goodbyes' = goodbyes \ {c}
  BY DEF Publish
<1>3. \A d \in Conns : guard[d] \in Int /\ guard[d] <= token /\ token \in Nat
  BY <1>1, BoundsAssumption DEF SlotInv, TokensDiffer, Closed
<1>4. Current(c)' /\ \A d \in Conns \ {c} : guard'[d] = guard[d] /\ ~Current(d)'
  BY <1>1, <1>2, <1>3 DEF Current, Open
<1>5. TokensDiffer'
  BY <1>1, <1>2, <1>3 DEF SlotInv, TokensDiffer
<1>6. SlotHasItsPublisher' /\ GoodbyeIsItsOwn'
  BY <1>2, <1>4 DEF SlotHasItsPublisher, GoodbyeIsItsOwn
<1>7. QED
  BY <1>5, <1>6 DEF SlotInv

LEMMA PublisherKeepsTheSlot ==
  ASSUME TypeOK, SlotInv, NEW c \in Conns, Goodbye(c) \/ DropCurrent(c)
  PROVE  SlotInv'
<1>1. /\ guard \in [Conns -> Closed .. MaxToken] /\ token \in 0 .. MaxToken
  BY DEF TypeOK
<1>2. Current(c) /\ UNCHANGED token
  BY DEF Goodbye, DropCurrent
<1>3. \A d \in Conns \ {c} : ~Current(d)
  BY <1>2 DEF SlotInv, TokensDiffer, Current
<1>4. CASE Goodbye(c)
  <2>1. UNCHANGED <<guard, token, ingestAlive>> /\ unpublished' = TRUE /\ c \in goodbyes'
    BY <1>4 DEF Goodbye
  <2>2. \A d \in Conns : Current(d)' <=> Current(d)
    BY <2>1 DEF Current
  <2>3. TokensDiffer' /\ SlotHasItsPublisher'
    BY <2>1, <2>2 DEF SlotInv, TokensDiffer, SlotHasItsPublisher
  <2>4. GoodbyeIsItsOwn'
    BY <1>3, <2>1, <2>2 DEF GoodbyeIsItsOwn
  <2>5. QED
    BY <2>3, <2>4 DEF SlotInv
<1>5. CASE DropCurrent(c)
  <2>1. guard' = [guard EXCEPT ![c] = Closed] /\ ingestAlive' = FALSE
    BY <1>5 DEF DropCurrent
  <2>2. \A d \in Conns : ~Current(d)'
    BY <1>1, <1>2, <1>3, <2>1 DEF Current, Open, Closed
  <2>3. TokensDiffer'
    BY <1>1, <1>2, <2>1, BoundsAssumption DEF SlotInv, TokensDiffer, Open, Closed
  <2>4. SlotHasItsPublisher' /\ GoodbyeIsItsOwn'
    BY <2>1, <2>2 DEF SlotHasItsPublisher, GoodbyeIsItsOwn
  <2>5. QED
    BY <2>3, <2>4 DEF SlotInv
<1>6. QED
  BY <1>4, <1>5

LEMMA StepKeepsTheSlot ==
  ASSUME TypeOK, SlotInv, [Next]_vars
  PROVE  SlotInv'
<1>1. ASSUME NEW c \in Conns, Ingest(c) PROVE SlotInv'
  <2>1. CASE Video(c)
    BY <2>1, SlotLeftAlone DEF Video, history
  <2>2. QED
    BY <1>1, <2>1, OthersKeepTheSlot, PublishKeepsTheSlot, PublisherKeepsTheSlot DEF Ingest
<1>2. CASE Supervise \/ Time
  <2>1. UNCHANGED <<slot, goodbyes>>
    BY <1>2 DEF Supervise, Time, Expire, CheckFreeze, TickReads, Configure, DeadlinePasses,
                VideoStops, history
  <2>2. QED
    BY <2>1, SlotLeftAlone
<1>3. CASE EndTail \/ EndHoldNow \/ \E t \in Controls : EndHold(t)
  <2>1. UNCHANGED <<slot, goodbyes>>
    BY <1>3 DEF EndTail, EndHoldNow, EndHold, TakeHold, CloseHold, ForgetSessions, DropTail,
                Moves, history
  <2>2. QED
    BY <2>1, SlotLeftAlone
<1>4. CASE (\E d \in Dests : Pump(d)) \/ (\E d \in VodDests : VodFetch(d)) \/ Proxy
  <2>1. UNCHANGED <<slot, goodbyes>>
    BY <1>4 DEF Pump, Dial, Connected, GoDown, Egress, VodFetch, ClaimVodFetch,
                CompleteVodFetch, Proxy, HandHeldConfig, AskTwitch, TwitchAnswers,
                TwitchFails, history
  <2>2. QED
    BY <2>1, SlotLeftAlone
<1>5. CASE UNCHANGED vars
  BY <1>5, SlotLeftAlone DEF vars, history
<1>6. QED
  BY <1>1, <1>2, <1>3, <1>4, <1>5 DEF Next

\* A hold that is closed is not on air.
LEMMA ClosedIsOffAir ==
  ASSUME NEW h \in HoldSet, NEW end
  PROVE  /\ ~OnAir(ClosedAs(h, end))
         /\ ~OnAir([ClosedAs(h, end) EXCEPT !.tail = FALSE])
         /\ ~OnAir([ClosedAs(h, end) EXCEPT !.tail = TRUE])
BY DEF HoldSet, OnAir, ClosedAs

LEMMA ResumedIsOffAir ==
  ASSUME hold \in HoldSet
  PROVE  ~OnAir(Resumed)
<1>1. ClosedAs(hold, "ended") \in HoldSet
  BY HoldsStayHolds
<1>2. PICK h \in HoldSet : h = (IF Lapsed THEN ClosedAs(hold, "ended") ELSE hold)
  BY <1>1
<1>3. ~OnAir([ClosedAs(h, "resumed") EXCEPT !.tail = FALSE])
  BY ClosedIsOffAir
<1>4. QED
  BY <1>2, <1>3 DEF Resumed

\* No step puts the screen on air over an OBS that sends, or lets OBS send
\* while it is.
LEMMA StepKeepsObsGone ==
  ASSUME TypeOK, SlotInv, HoldMeansObsIsGone, [Next]_vars
  PROVE  HoldMeansObsIsGone'
<1>1. hold \in HoldSet /\ ingestAlive \in BOOLEAN /\ frozen \in BOOLEAN
  BY DEF TypeOK
<1>2. /\ OnAir(hold) => ObsGone
      /\ HoldMeansObsIsGone' <=> (OnAir(hold') => ~ingestAlive' \/ frozen')
  BY DEF HoldMeansObsIsGone, HoldActive, ObsGone, OnAir
<1>3. ASSUME UNCHANGED <<ingestAlive, frozen>>, OnAir(hold') => OnAir(hold)
      PROVE  HoldMeansObsIsGone'
  BY <1>2, <1>3 DEF ObsGone
<1>4. ASSUME NEW c \in Conns, Ingest(c) PROVE HoldMeansObsIsGone'
  <2>1. CASE Connect(c) \/ RejectPublish(c) \/ Goodbye(c) \/ DropOther(c)
    BY <1>3, <2>1 DEF Connect, RejectPublish, Goodbye, DropOther, watched
  <2>2. CASE Publish(c)
    BY <1>1, <1>2, <2>2, ResumedIsOffAir DEF Publish
  <2>3. CASE Video(c)
    <3>1. ingestAlive /\ frozen' = FALSE /\ hold' = (IF frozen THEN Resumed ELSE hold)
      BY <2>3 DEF Video, SlotInv, SlotHasItsPublisher
    <3>2. ~OnAir(hold')
      BY <1>1, <1>2, <3>1, ResumedIsOffAir DEF ObsGone
    <3>3. QED
      BY <1>2, <3>2
  <2>4. CASE DropCurrent(c)
    BY <1>2, <2>4 DEF DropCurrent
  <2>5. QED
    BY <1>4, <2>1, <2>2, <2>3, <2>4 DEF Ingest
<1>5. CASE Expire \/ EndHoldNow
  <2>1. PICK b : hold' = [ClosedAs(hold, "ended") EXCEPT !.tail = b]
    BY <1>5 DEF Expire, EndHoldNow
  <2>3. ~OnAir(hold')
    BY <1>1, <2>1 DEF HoldSet, OnAir, ClosedAs
  <2>2. QED
    BY <1>2, <2>3
<1>6. CASE CheckFreeze
  BY <1>2, <1>6 DEF CheckFreeze
<1>7. ASSUME NEW p \in Protections, Configure(p) PROVE HoldMeansObsIsGone'
  <2>1. CASE frozen /\ ~p.enabled /\ Held
    <3>1. hold' = [ClosedAs(hold, "ended") EXCEPT !.tail = FALSE]
      BY <1>7, <2>1 DEF Configure
    <3>2. ~OnAir(hold')
      BY <1>1, <3>1 DEF HoldSet, OnAir, ClosedAs
    <3>3. QED
      BY <1>2, <3>2
  <2>2. CASE ~(frozen /\ ~p.enabled /\ Held)
    <3>1. /\ hold' = hold \/ hold' = [hold EXCEPT !.tail = FALSE]
          /\ ingestAlive' = ingestAlive /\ frozen' = (frozen /\ p.enabled)
      BY <1>7, <2>2 DEF Configure, slot
    <3>2. OnAir(hold) => ~ingestAlive \/ (frozen /\ p.enabled)
      BY <1>2, <2>2 DEF ObsGone, OnAir, Held
    <3>3. OnAir(hold') => OnAir(hold)
      BY <1>1, <3>1 DEF HoldSet, OnAir
    <3>4. QED
      BY <1>2, <3>1, <3>2, <3>3
  <2>3. QED
    BY <2>1, <2>2
<1>8. CASE TickReads \/ VideoStops
  BY <1>3, <1>8 DEF TickReads, VideoStops, slot, watched
<1>9. CASE DeadlinePasses \/ EndTail
  <2>1. OnAir(hold') => OnAir(hold)
    BY <1>1, <1>9 DEF DeadlinePasses, EndTail, HoldSet, OnAir
  <2>2. QED
    BY <1>3, <1>9, <2>1 DEF DeadlinePasses, EndTail, slot, watched
<1>10. ASSUME NEW t \in Controls, EndHold(t) PROVE HoldMeansObsIsGone'
  <2>1. OnAir(hold') => OnAir(hold)
    BY <1>1, <1>10
       DEF EndHold, TakeHold, CloseHold, ForgetSessions, DropTail, HoldSet, OnAir
  <2>2. UNCHANGED <<ingestAlive, frozen>>
    BY <1>10 DEF EndHold, TakeHold, CloseHold, ForgetSessions, DropTail, Moves, slot, watched
  <2>3. QED
    BY <1>3, <2>1, <2>2
<1>11. CASE (\E d \in Dests : Pump(d)) \/ (\E d \in VodDests : VodFetch(d)) \/ Proxy
  <2>1. UNCHANGED <<slot, watched>>
    BY <1>11 DEF Pump, Dial, Connected, GoDown, Egress, VodFetch, ClaimVodFetch,
                 CompleteVodFetch, Proxy, HandHeldConfig, AskTwitch, TwitchAnswers, TwitchFails
  <2>2. hold' = hold \/ hold' = [hold EXCEPT !.claimed = TRUE]
    BY <1>11 DEF Pump, Dial, Connected, GoDown, Egress, VodFetch, ClaimVodFetch,
                 CompleteVodFetch, Proxy, HandHeldConfig, AskTwitch, TwitchAnswers, TwitchFails
  <2>3. OnAir(hold') => OnAir(hold)
    BY <1>1, <2>2 DEF HoldSet, OnAir
  <2>4. QED
    BY <1>3, <2>1, <2>3 DEF slot, watched
<1>12. CASE UNCHANGED vars
  BY <1>3, <1>12 DEF vars, slot, watched
<1>13. QED
  BY <1>4, <1>5, <1>6, <1>7, <1>8, <1>9, <1>10, <1>11, <1>12 DEF Next, Supervise, Time

LEMMA InitHolds == Init => IInv
<1>1. SUFFICES ASSUME Init PROVE IInv
  OBVIOUS
<1>2. TypeOK /\ Asked
  BY <1>1, InitIsTyped
<1>3. TokensDiffer /\ \A c \in Conns : ~Current(c)
  BY <1>1 DEF Init, TokensDiffer, Current, Open, Closed
<1>4. SlotInv
  BY <1>1, <1>3 DEF Init, SlotInv, SlotHasItsPublisher, GoodbyeIsItsOwn
<1>5. HoldMeansObsIsGone
  BY <1>1 DEF Init, HoldMeansObsIsGone, ObsGone
<1>6. QED
  BY <1>2, <1>4, <1>5 DEF IInv

\* What of the slot and the hold every step preserves, whoever takes it.
THEOREM InductiveInvariant == Spec => []IInv
<1>1. IInv /\ [Next]_vars => IInv'
  BY StepKeepsTypes, StepKeepsTheSlot, StepKeepsObsGone DEF IInv
<1>2. QED
  BY <1>1, InitHolds, PTL DEF Spec

\* The slot is taken exactly while the newest publisher's connection is open,
\* whichever of them hang up when (begin_publish, end_publish).
THEOREM SlotIsThePublishers == Spec => []SlotHasItsPublisher
<1>1. IInv => SlotHasItsPublisher
  BY DEF IInv, SlotInv
<1>2. QED
  BY <1>1, InductiveInvariant, PTL

\* The reconnect screen never airs over an OBS that is there and sending, while
\* control threads end holds between the ingest's stores.
THEOREM HoldsMeanObsIsGone == Spec => []HoldMeansObsIsGone
<1>1. IInv => HoldMeansObsIsGone
  BY DEF IInv
<1>2. QED
  BY <1>1, InductiveInvariant, PTL

\* A publisher that vanishes without a goodbye of its own leaves its live
\* destinations on hold (mark_ingest_dead).
THEOREM CrashesAreProtected == Spec => CrashIsProtected
<1>1. IInv /\ [Next]_vars =>
        [\A c \in Conns :
           /\ DropCurrent(c) /\ c \notin goodbyes
           /\ protection.enabled /\ Live # {}
           /\ Held => HoldActive
           => HoldActive']_vars
  <2>1. SUFFICES ASSUME IInv, NEW c \in Conns, DropCurrent(c), c \notin goodbyes,
                        protection.enabled, Live # {}, Held => HoldActive
                 PROVE  HoldActive'
    OBVIOUS
  <2>2. hold \in HoldSet
    BY <2>1 DEF IInv, TypeOK
  <2>3. ~unpublished
    BY <2>1 DEF IInv, SlotInv, GoodbyeIsItsOwn, DropCurrent
  <2>4. HoldAtDeath = IF Held THEN hold ELSE Started("crash")
    BY <2>1, <2>3 DEF HoldAtDeath, MayStartHold
  <2>5. OnAir(Started("crash"))
    BY <2>2 DEF OnAir, Started, HoldSet
  <2>6. OnAir(HoldAtDeath)
    BY <2>1, <2>4, <2>5 DEF HoldActive
  <2>7. hold' = HoldAtDeath
    BY <2>1, <2>6 DEF DropCurrent
  <2>8. QED
    BY <2>6, <2>7 DEF HoldActive, OnAir
<1>2. QED
  BY <1>1, InductiveInvariant, PTL DEF Spec, CrashIsProtected

\* A stop is not mistaken for a crash, whether or not a freeze came before.
THEOREM StopsEndTheStream == Spec => StopEndsTheStream
<1>1. IInv /\ [Next]_vars =>
        [\A c \in Conns :
           DropCurrent(c) /\ c \in goodbyes /\ ~protection.everyDisconnect
           => ~HoldActive']_vars
  <2>1. SUFFICES ASSUME IInv, NEW c \in Conns, DropCurrent(c), c \in goodbyes,
                        ~protection.everyDisconnect
                 PROVE  ~HoldActive'
    OBVIOUS
  <2>2. hold \in HoldSet
    BY <2>1 DEF IInv, TypeOK
  <2>3. unpublished
    BY <2>1 DEF IInv, SlotInv, GoodbyeIsItsOwn, DropCurrent
  <2>4. HoldAtDeath = ClosedAs(hold, "ended")
    BY <2>1, <2>3 DEF HoldAtDeath
  <2>5. hold' = [ClosedAs(hold, "ended") EXCEPT !.tail = TRUE]
    BY <2>1, <2>2, <2>4, ClosedIsOffAir DEF DropCurrent
  <2>6. ~OnAir(hold')
    BY <2>2, <2>5, ClosedIsOffAir
  <2>7. QED
    BY <2>6 DEF HoldActive, OnAir
<1>2. QED
  BY <1>1, InductiveInvariant, PTL DEF Spec, StopEndsTheStream
-----------------------------------------------------------------------------
(* The latch of the VOD-session requests.                                   *)

LEMMA OneOutOfOne ==
  ASSUME NEW S, NEW s \in Seq(S), Len(s) = 1, NEW i \in DOMAIN s
  PROVE  Len(SubSeq(s, 1, i - 1) \o SubSeq(s, i + 1, Len(s))) = 0
<1>1. i = 1
  OBVIOUS
<1>2. SubSeq(s, 1, i - 1) \in Seq(S) /\ Len(SubSeq(s, 1, i - 1)) = 0
  BY <1>1
<1>3. SubSeq(s, i + 1, Len(s)) \in Seq(S) /\ Len(SubSeq(s, i + 1, Len(s))) = 0
  BY <1>1
<1>4. QED
  BY <1>2, <1>3

LEMMA FlightStep ==
  ASSUME TypeOK, SingleFlight, [Next]_vars
  PROVE  SingleFlight'
<1>1. /\ flights \in [VodDests -> Seq(FlightSet)] /\ pending \in [VodDests -> BOOLEAN]
  BY DEF TypeOK
<1>2. ASSUME UNCHANGED <<fetching, plan>> PROVE SingleFlight'
  BY <1>2 DEF SingleFlight, VodDests, fetching
<1>3. ASSUME NEW d \in VodDests, ClaimVodFetch(d) PROVE SingleFlight'
  <2>1. Len(flights[d]) = 0 /\ ~pending[d]
    BY <1>3 DEF ClaimVodFetch, SingleFlight
  <2>2. DEFINE new == Append(flights[d], [epoch |-> epoch[d], of |-> StreamNow])
  <2>3. Len(new) = 1
    BY <1>1, <2>1
  <2>4. /\ flights' = [flights EXCEPT ![d] = new] /\ pending' = [pending EXCEPT ![d] = TRUE]
        /\ UNCHANGED plan
    BY <1>3 DEF ClaimVodFetch, rest
  <2> HIDE DEF new
  <2>5. QED
    BY <1>1, <2>3, <2>4 DEF SingleFlight, VodDests
<1>4. ASSUME NEW d \in VodDests, NEW i \in DOMAIN flights[d], NEW success \in BOOLEAN,
             CompleteVodFetch(d, i, success)
      PROVE  SingleFlight'
  <2>1. flights[d] \in Seq(FlightSet) /\ Len(flights[d]) = 1
    <3>1. flights[d] \in Seq(FlightSet) /\ Len(flights[d]) # 0
      BY <1>1, <1>4
    <3>2. QED
      BY <3>1 DEF SingleFlight
  <2>2. DEFINE new == SubSeq(flights[d], 1, i - 1) \o SubSeq(flights[d], i + 1, Len(flights[d]))
  <2>3. Len(new) = 0
    BY <2>1, OneOutOfOne
  <2>4. /\ flights' = [flights EXCEPT ![d] = new] /\ pending' = [pending EXCEPT ![d] = FALSE]
        /\ UNCHANGED plan
    BY <1>4 DEF CompleteVodFetch, rest
  <2> HIDE DEF new
  <2>5. QED
    BY <1>1, <2>3, <2>4 DEF SingleFlight, VodDests
<1>5. CASE (\E c \in Conns : Ingest(c)) \/ Supervise \/ Time
  <2>1. UNCHANGED <<fetching, plan>>
    BY <1>5 DEF Ingest, Connect, Publish, RejectPublish, Video, Goodbye, DropOther, DropCurrent,
                Supervise, Time, Expire, CheckFreeze, TickReads, Configure, DeadlinePasses,
                VideoStops, rest
  <2>2. QED
    BY <1>2, <2>1
<1>6. CASE EndTail \/ EndHoldNow \/ (\E t \in Controls : EndHold(t))
           \/ (\E d \in Dests : Pump(d)) \/ Proxy
  <2>1. UNCHANGED <<fetching, plan>>
    BY <1>6 DEF EndTail, EndHoldNow, EndHold, TakeHold, CloseHold, ForgetSessions, DropTail,
                Moves, Pump, Dial, Connected, GoDown, Egress, Proxy, HandHeldConfig, AskTwitch,
                TwitchAnswers, TwitchFails, rest
  <2>2. QED
    BY <1>2, <2>1
<1>7. CASE UNCHANGED vars
  BY <1>2, <1>7 DEF vars, rest
<1>8. QED
  BY <1>3, <1>4, <1>5, <1>6, <1>7 DEF Next, VodFetch

\* One VOD-session request per destination at a time, across disconnects
\* (claim_vod_fetch, complete_vod_fetch).
THEOREM OneFlightAtATime == Spec => []SingleFlight
<1>1. Init => SingleFlight
  BY DEF Init, SingleFlight, VodDests
<1>2. TypeOK /\ SingleFlight /\ [Next]_vars => SingleFlight'
  BY FlightStep
<1>3. QED
  BY <1>1, <1>2, TypeCorrectness, PTL DEF Spec
-----------------------------------------------------------------------------
(* Sessions.  Twitch's answers and the ends of holds race with requests in  *)
(* flight; what keeps them apart is the epoch each request was made in.     *)

\* No destination wants both kinds of session.
OneKind == \A p \in Plans : p.eb \notin p.vod

\* A request of the epoch that still is finds no session.
FlightsFindNoSession ==
  \A d \in VodDests : \A i \in DOMAIN flights[d] :
    /\ flights[d][i].epoch <= epoch[d]
    /\ flights[d][i].epoch = epoch[d] => override[d] = NoSession

\* All a step may do to sessions and requests.
LEMMA SessionSteps ==
  ASSUME [Next]_vars
  PROVE  \/ UNCHANGED <<override, epoch, fetching, plan>>
         \/ (\E ds : Invalidate(ds)) /\ UNCHANGED <<fetching, plan>>
         \/ \E d \in VodDests : VodFetch(d)
         \/ TwitchAnswers
<1>1. ASSUME NEW c \in Conns, Ingest(c)
      PROVE  \/ UNCHANGED <<override, epoch, fetching, plan>>
             \/ (\E ds : Invalidate(ds)) /\ UNCHANGED <<fetching, plan>>
  <2>1. CASE Publish(c) \/ DropCurrent(c)
    BY <2>1 DEF Publish, DropCurrent, rest
  <2>2. CASE Connect(c) \/ RejectPublish(c) \/ Video(c) \/ Goodbye(c) \/ DropOther(c)
    BY <2>2 DEF Connect, RejectPublish, Video, Goodbye, DropOther, sessions, rest
  <2>3. QED
    BY <1>1, <2>1, <2>2 DEF Ingest
<1>2. CASE Supervise \/ Time
  BY <1>2 DEF Supervise, Time, Expire, CheckFreeze, TickReads, Configure, DeadlinePasses,
              VideoStops, sessions, rest
<1>3. CASE EndTail \/ EndHoldNow \/ \E t \in Controls : EndHold(t)
  BY <1>3 DEF EndTail, EndHoldNow, EndHold, TakeHold, CloseHold, ForgetSessions, DropTail,
              Moves, sessions, rest
<1>4. CASE (\E d \in Dests : Pump(d)) \/ HandHeldConfig \/ AskTwitch \/ TwitchFails
  BY <1>4 DEF Pump, Dial, Connected, GoDown, Egress, HandHeldConfig, AskTwitch, TwitchFails,
              sessions, rest
<1>5. CASE UNCHANGED vars
  BY <1>5 DEF vars, sessions, rest
<1>6. QED
  BY <1>1, <1>2, <1>3, <1>4, <1>5 DEF Next, Proxy

\* A request that is answered leaves none behind.
LEMMA AnsweredLeavesNone ==
  ASSUME TypeOK, SingleFlight, NEW d \in VodDests, NEW i \in DOMAIN flights[d],
         NEW success \in BOOLEAN, CompleteVodFetch(d, i, success)
  PROVE  /\ DOMAIN flights'[d] = {}
         /\ \A e \in VodDests \ {d} : flights'[e] = flights[e]
<1>1. flights \in [VodDests -> Seq(FlightSet)] /\ flights[d] \in Seq(FlightSet)
  BY DEF TypeOK
<1>2. Len(flights[d]) = 1
  <2>1. Len(flights[d]) # 0
    BY <1>1
  <2>2. QED
    BY <2>1 DEF SingleFlight
<1>3. DEFINE new == SubSeq(flights[d], 1, i - 1) \o SubSeq(flights[d], i + 1, Len(flights[d]))
<1>4. Len(new) = 0 /\ new \in Seq(FlightSet)
  <2>1. SubSeq(flights[d], 1, i - 1) \in Seq(FlightSet)
    BY <1>1
  <2>2. SubSeq(flights[d], i + 1, Len(flights[d])) \in Seq(FlightSet)
    BY <1>1
  <2>3. QED
    BY <1>1, <1>2, <2>1, <2>2, OneOutOfOne
<1>5. flights' = [flights EXCEPT ![d] = new]
  BY DEF CompleteVodFetch
<1> HIDE DEF new
<1>6. DOMAIN new = {}
  BY <1>4
<1>7. QED
  BY <1>1, <1>5, <1>6

LEMMA FlightsStep ==
  ASSUME OneKind, TypeOK, SingleFlight, FlightsFindNoSession, [Next]_vars
  PROVE  FlightsFindNoSession'
<1>1. /\ flights \in [VodDests -> Seq(FlightSet)] /\ epoch \in [Dests -> Nat]
      /\ VodDests \subseteq Dests /\ EbDest \notin VodDests
  BY PlansAssumption DEF TypeOK, VodDests, EbDest, OneKind
<1>2. \A d \in VodDests : \A i \in DOMAIN flights[d] : flights[d][i].epoch \in Nat
  <2>1. SUFFICES ASSUME NEW d \in VodDests, NEW i \in DOMAIN flights[d]
                 PROVE  flights[d][i].epoch \in Nat
    OBVIOUS
  <2>2. flights[d] \in Seq(FlightSet) /\ flights[d][i] \in FlightSet
    BY <1>1
  <2>3. QED
    BY <2>2 DEF FlightSet
<1>3. CASE UNCHANGED <<override, epoch, fetching, plan>>
  BY <1>3 DEF FlightsFindNoSession, fetching, VodDests
<1>4. ASSUME NEW ds, Invalidate(ds), UNCHANGED <<fetching, plan>>
      PROVE  FlightsFindNoSession'
  <2>1. SUFFICES ASSUME NEW d \in VodDests, NEW i \in DOMAIN flights[d]
                 PROVE  /\ flights[d][i].epoch <= epoch'[d]
                        /\ flights[d][i].epoch = epoch'[d] => override'[d] = NoSession
    BY <1>4 DEF FlightsFindNoSession, fetching, VodDests
  <2>2. d \in Dests /\ epoch[d] \in Nat /\ flights[d][i].epoch \in Nat
    BY <1>1, <1>2
  <2>3. epoch'[d] = (IF d \in ds THEN epoch[d] + 1 ELSE epoch[d])
        /\ override'[d] = (IF d \in ds THEN NoSession ELSE override[d])
    BY <1>4, <2>2 DEF Invalidate
  <2>4. flights[d][i].epoch <= epoch[d]
        /\ (flights[d][i].epoch = epoch[d] => override[d] = NoSession)
    BY <2>1 DEF FlightsFindNoSession
  <2>5. QED
    BY <2>2, <2>3, <2>4
<1>5. ASSUME NEW d \in VodDests, ClaimVodFetch(d) PROVE FlightsFindNoSession'
  <2>1. DEFINE f == [epoch |-> epoch[d], of |-> StreamNow]
  <2>2. /\ flights' = [flights EXCEPT ![d] = Append(flights[d], f)]
        /\ UNCHANGED <<override, epoch, plan>> /\ override[d] = NoSession
        /\ Len(flights[d]) = 0
    BY <1>5 DEF ClaimVodFetch, sessions, rest, SingleFlight
  <2>3. f.epoch = epoch[d] /\ epoch[d] \in Nat
    BY <1>1
  <2> HIDE DEF f
  <2>4. flights[d] \in Seq(FlightSet) /\ DOMAIN Append(flights[d], f) = {1}
        /\ Append(flights[d], f)[1] = f
    BY <1>1, <2>2
  <2>5. SUFFICES ASSUME NEW e \in VodDests, NEW i \in DOMAIN flights'[e]
                 PROVE  /\ flights'[e][i].epoch <= epoch[e]
                        /\ flights'[e][i].epoch = epoch[e] => override[e] = NoSession
    BY <2>2 DEF FlightsFindNoSession, VodDests
  <2>6. CASE e = d
    BY <1>1, <2>2, <2>3, <2>4, <2>6
  <2>7. CASE e # d
    BY <1>1, <2>2, <2>5, <2>7 DEF FlightsFindNoSession
  <2>8. QED
    BY <2>6, <2>7
<1>6. ASSUME NEW d \in VodDests, NEW i \in DOMAIN flights[d], NEW success \in BOOLEAN,
             CompleteVodFetch(d, i, success)
      PROVE  FlightsFindNoSession'
  <2>1. DOMAIN flights'[d] = {} /\ \A e \in VodDests \ {d} : flights'[e] = flights[e]
    BY <1>6, AnsweredLeavesNone
  <2>2. UNCHANGED <<epoch, plan>> /\ \A e \in Dests \ {d} : override'[e] = override[e]
    BY <1>6 DEF CompleteVodFetch, rest, TypeOK
  <2>3. SUFFICES ASSUME NEW e \in VodDests, NEW j \in DOMAIN flights'[e]
                 PROVE  /\ flights'[e][j].epoch <= epoch[e]
                        /\ flights'[e][j].epoch = epoch[e] => override'[e] = NoSession
    BY <2>2 DEF FlightsFindNoSession, VodDests
  <2>4. e # d /\ flights'[e] = flights[e] /\ override'[e] = override[e]
    BY <1>1, <2>1, <2>2, <2>3
  <2>5. QED
    BY <2>3, <2>4 DEF FlightsFindNoSession
<1>7. CASE TwitchAnswers
  <2>1. UNCHANGED <<epoch, flights, plan>>
        /\ \A d \in VodDests : override'[d] = NoSession
    BY <1>1, <1>7 DEF TwitchAnswers, fetching, rest
  <2>2. QED
    BY <2>1 DEF FlightsFindNoSession, VodDests
<1>8. QED
  BY <1>3, <1>4, <1>5, <1>6, <1>7, SessionSteps DEF VodFetch

\* A request still of its destination's epoch finds no session there, so that a late
\* answer of Twitch replaces none (complete_vod_fetch).
THEOREM FlightsInvariant ==
  ASSUME OneKind
  PROVE  Spec => [](TypeOK /\ SingleFlight /\ FlightsFindNoSession)
<1>1. Init => FlightsFindNoSession
  BY DEF Init, FlightsFindNoSession, VodDests
<1>2. TypeOK /\ SingleFlight /\ FlightsFindNoSession /\ [Next]_vars => FlightsFindNoSession'
  BY FlightsStep
<1>3. QED
  BY <1>1, <1>2, TypeCorrectness, OneFlightAtATime, PTL DEF Spec

\* A destination on hold keeps its session, while no control thread ends holds: only
\* a config OBS asked for replaces it, not a drop, not a late answer of Twitch.
THEOREM HeldDestinationsKeepTheirs ==
  ASSUME OneKind, Controls = {}
  PROVE  Spec => HeldDestinationKeepsItsSession
<1>1. ASSUME TypeOK, SingleFlight, FlightsFindNoSession, [Next]_vars,
             NEW d \in Dests, Kept(d)', override[d] # NoSession
      PROVE  override'[d] = override[d] \/ TwitchAnswers
  <2>1. hold \in HoldSet /\ OnAir(hold') /\ override \in [Dests -> SessionSet]
        /\ VodDests \subseteq Dests
    BY <1>1, PlansAssumption DEF TypeOK, Kept, HoldActive, OnAir, VodDests
  <2>2. ASSUME NEW c \in Conns, Ingest(c) PROVE override'[d] = override[d]
    <3>1. ~Publish(c)
      BY <2>1, ResumedIsOffAir DEF Publish
    <3>2. CASE DropCurrent(c)
      <4>1. OnAir(HoldAtDeath)
        <5>1. SUFFICES ASSUME ~OnAir(HoldAtDeath) PROVE FALSE
          OBVIOUS
        <5>2. hold' = [HoldAtDeath EXCEPT !.tail = TRUE] /\ HoldAtDeath \in HoldSet
          BY <2>1, <3>2, <5>1, HoldAtDeathIsAHold DEF DropCurrent
        <5>3. QED
          BY <2>1, <5>1, <5>2 DEF OnAir, HoldSet
      <4>2. UNCHANGED <<headers, egress>>
        BY <3>2 DEF DropCurrent, watched, rest
      <4>3. d \in Live /\ Covers(d)
        BY <1>1, <4>2 DEF Kept, Live, Covers
      <4>4. d \in HoldKeeps(HoldAtDeath)
        BY <4>1, <4>3 DEF HoldKeeps
      <4>5. QED
        BY <2>1, <3>2, <4>4 DEF DropCurrent, Invalidate
    <3>3. CASE Connect(c) \/ RejectPublish(c) \/ Video(c) \/ Goodbye(c) \/ DropOther(c)
      BY <3>3 DEF Connect, RejectPublish, Video, Goodbye, DropOther, sessions
    <3>4. QED
      BY <2>2, <3>1, <3>2, <3>3 DEF Ingest
  <2>3. ~Expire /\ ~EndHoldNow
    <3>1. ASSUME NEW b, hold' = [ClosedAs(hold, "ended") EXCEPT !.tail = b] PROVE FALSE
      BY <2>1, <3>1 DEF HoldSet, OnAir, ClosedAs
    <3>2. QED
      BY <3>1 DEF Expire, EndHoldNow
  <2>4. ASSUME NEW p \in Protections, Configure(p) PROVE override'[d] = override[d]
    <3>1. ~(frozen /\ ~p.enabled /\ Held)
      <4>1. SUFFICES ASSUME frozen /\ ~p.enabled /\ Held PROVE FALSE
        OBVIOUS
      <4>2. hold' = [ClosedAs(hold, "ended") EXCEPT !.tail = FALSE]
        BY <2>4, <4>1 DEF Configure
      <4>3. QED
        BY <2>1, <4>2 DEF HoldSet, OnAir, ClosedAs
    <3>2. QED
      BY <2>4, <3>1 DEF Configure
  <2>5. ASSUME NEW e \in VodDests, VodFetch(e) PROVE override'[d] = override[d]
    <3>1. CASE ClaimVodFetch(e)
      BY <3>1 DEF ClaimVodFetch, sessions
    <3>2. ASSUME NEW i \in DOMAIN flights[e], NEW success \in BOOLEAN,
                 CompleteVodFetch(e, i, success)
          PROVE  override'[d] = override[d]
      <4>1. epoch[e] = flights[e][i].epoch => override[e] = NoSession
        BY <1>1, <3>2 DEF FlightsFindNoSession
      <4>2. CASE epoch[e] = flights[e][i].epoch
        BY <1>1, <2>1, <3>2, <4>1, <4>2 DEF CompleteVodFetch
      <4>3. CASE epoch[e] # flights[e][i].epoch
        BY <3>2, <4>3 DEF CompleteVodFetch
      <4>4. QED
        BY <4>2, <4>3
    <3>3. QED
      BY <2>5, <3>1, <3>2 DEF VodFetch
  <2>6. CASE CheckFreeze \/ TickReads \/ Time \/ EndTail \/ (\E e \in Dests : Pump(e))
             \/ HandHeldConfig \/ AskTwitch \/ TwitchFails \/ UNCHANGED vars
    BY <2>6 DEF CheckFreeze, TickReads, Time, DeadlinePasses, VideoStops, EndTail, Pump, Dial,
                Connected, GoDown, Egress, HandHeldConfig, AskTwitch, TwitchFails, vars, sessions
  <2>7. QED
    BY <1>1, <2>2, <2>3, <2>4, <2>5, <2>6 DEF Next, Supervise, Proxy
<1>2. TypeOK /\ SingleFlight /\ FlightsFindNoSession /\ [Next]_vars =>
        [\A d \in Dests : Kept(d)' /\ override[d] # NoSession
                          => override'[d] = override[d] \/ TwitchAnswers]_vars
  BY <1>1
<1>3. QED
  BY <1>2, FlightsInvariant, PTL DEF Spec, HeldDestinationKeepsItsSession
-----------------------------------------------------------------------------
(* VOD-audio sessions, where OBS has no Enhanced Broadcasting and no control *)
(* thread ends holds.                                                        *)

\* A VOD-audio session or request may be kept for: the stream that is on, also while
\* a hold airs, or the next one; any, for a stream that took a frozen one's slot.
GoodFor(n) == /\ ingestAlive \/ HoldActive => n = stream \/ tookOver
              /\ ~ingestAlive /\ ~Held => n = stream + 1

GoodForNext(n) == /\ ingestAlive' \/ HoldActive' => n = stream' \/ tookOver'
                  /\ ~ingestAlive' /\ ~Held' => n = stream' + 1

NothingClaimed == ~hold.claimed /\ ~asking /\ (Held => hold.open)

KeptForTheirStream ==
  \A d \in VodDests :
    /\ override[d].kind = "vod" => GoodFor(override[d].of)
    /\ \A i \in DOMAIN flights[d] :
         flights[d][i].epoch = epoch[d] => GoodFor(flights[d][i].of)

VodInv == IInv /\ SingleFlight /\ FlightsFindNoSession /\ NothingClaimed /\ KeptForTheirStream

Plain == Controls = {} /\ \A p \in Plans : p.eb = Nobody

LEMMA NoEbPlan ==
  ASSUME Plain, TypeOK
  PROVE  /\ EbDest = Nobody /\ VodDests \subseteq Dests /\ OneKind
         /\ flights \in [VodDests -> Seq(FlightSet)] /\ epoch \in [Dests -> Nat]
         /\ override \in [Dests -> SessionSet] /\ hold \in HoldSet
         /\ ingestAlive \in BOOLEAN /\ stream \in Nat
BY PlansAssumption, DestsAssumption DEF Plain, TypeOK, EbDest, VodDests, OneKind

LEMMA NothingIsClaimed ==
  ASSUME Plain, TypeOK, NothingClaimed, [Next]_vars
  PROVE  NothingClaimed'
<1>1. EbDest = Nobody /\ hold \in HoldSet
  BY NoEbPlan
<1>2. ~hold.claimed /\ ~asking /\ (Held => hold.open)
  BY DEF NothingClaimed
<1>3. ~asking'
  <2>1. ASSUME NEW c \in Conns, Ingest(c) PROVE ~asking'
    <3>1. CASE Publish(c)
      BY <1>2, <3>1 DEF Publish
    <3>2. CASE Video(c)
      BY <1>2, <3>2 DEF Video, proxy
    <3>3. CASE Connect(c) \/ RejectPublish(c) \/ Goodbye(c) \/ DropOther(c) \/ DropCurrent(c)
      BY <1>2, <3>3 DEF Connect, RejectPublish, Goodbye, DropOther, DropCurrent, watched, proxy
    <3>4. QED
      BY <2>1, <3>1, <3>2, <3>3 DEF Ingest
  <2>2. CASE Supervise \/ Time
    <3>1. CASE Expire \/ TickReads \/ DeadlinePasses
      BY <1>2, <3>1 DEF Expire, TickReads, DeadlinePasses, watched, proxy
    <3>2. ASSUME NEW p \in Protections, Configure(p)
          PROVE  ~asking'
      BY <1>2, <3>2 DEF Configure, proxy
    <3>3. CASE CheckFreeze \/ VideoStops
      BY <1>2, <3>3 DEF CheckFreeze, VideoStops, proxy
    <3>4. QED
      BY <2>2, <3>1, <3>2, <3>3 DEF Supervise, Time
  <2>3. CASE EndTail \/ EndHoldNow
    BY <1>2, <2>3 DEF EndTail, EndHoldNow, watched, proxy
  <2>4. CASE (\E d \in Dests : Pump(d)) \/ (\E d \in VodDests : VodFetch(d)) \/ Proxy
    <3>1. ~Proxy
      BY <1>1, <1>2 DEF Proxy, HandHeldConfig, AskTwitch, TwitchAnswers, TwitchFails, MayAsk
    <3>2. UNCHANGED <<watched, proxy>>
      BY <2>4, <3>1 DEF Pump, Dial, Connected, GoDown, Egress, VodFetch, ClaimVodFetch,
                        CompleteVodFetch
    <3>3. QED
      BY <1>2, <3>2 DEF watched, proxy
  <2>5. CASE UNCHANGED vars
    BY <1>2, <2>5 DEF vars, watched, proxy
  <2>6. QED
    BY <2>1, <2>2, <2>3, <2>4, <2>5 DEF Next, Plain
<1>4. ~hold'.claimed /\ (Held' => hold'.open)
  <2>1. hold \in HoldSet
    BY <1>1
  <2>2. ASSUME NEW h \in HoldSet, ~h.claimed, h.why # "none" => h.open, hold' = h
        PROVE  ~hold'.claimed /\ (Held' => hold'.open)
    BY <2>2 DEF Held
  <2>3. ASSUME NEW b, NEW end, hold' = [ClosedAs(hold, end) EXCEPT !.tail = b]
        PROVE  ~hold'.claimed /\ (Held' => hold'.open)
    BY <1>2, <2>1, <2>3 DEF Held, ClosedAs, HoldSet
  <2>4. ASSUME NEW why, hold' = Started(why) \/ hold' = [Started(why) EXCEPT !.tail = TRUE]
        PROVE  ~hold'.claimed /\ (Held' => hold'.open)
    BY <2>1, <2>4 DEF Held, Started, HoldSet
  <2>5. ASSUME hold' = hold \/ (\E b : hold' = [hold EXCEPT !.tail = b])
               \/ hold' = [hold EXCEPT !.over = TRUE]
        PROVE  ~hold'.claimed /\ (Held' => hold'.open)
    BY <1>2, <2>1, <2>5 DEF Held, HoldSet
  <2>6. ASSUME NEW c \in Conns, Ingest(c) PROVE ~hold'.claimed /\ (Held' => hold'.open)
    <3>1. CASE Publish(c)
      <4>1. hold' = Resumed
        BY <3>1 DEF Publish
      <4>2. QED
        BY <1>2, <2>1, <4>1 DEF Resumed, Lapsed, Held, ClosedAs, HoldSet
    <3>2. CASE Video(c)
      <4>1. hold' = hold \/ hold' = Resumed
        BY <3>2 DEF Video
      <4>2. QED
        BY <1>2, <2>1, <2>5, <4>1 DEF Resumed, Lapsed, Held, ClosedAs, HoldSet
    <3>3. CASE DropCurrent(c)
      <4>1. HoldAtDeath = hold \/ HoldAtDeath = ClosedAs(hold, "ended")
            \/ \E why : HoldAtDeath = Started(why)
        BY DEF HoldAtDeath
      <4>2. hold' = HoldAtDeath \/ hold' = [HoldAtDeath EXCEPT !.tail = TRUE]
        BY <3>3 DEF DropCurrent
      <4>3. CASE HoldAtDeath = ClosedAs(hold, "ended")
        BY <1>2, <2>1, <4>2, <4>3 DEF Held, ClosedAs, HoldSet
      <4>4. QED
        BY <2>4, <2>5, <4>1, <4>2, <4>3
    <3>4. CASE Connect(c) \/ RejectPublish(c) \/ Goodbye(c) \/ DropOther(c)
      BY <2>5, <3>4 DEF Connect, RejectPublish, Goodbye, DropOther
    <3>5. QED
      BY <2>6, <3>1, <3>2, <3>3, <3>4 DEF Ingest
  <2>7. CASE Expire \/ EndHoldNow
    BY <2>3, <2>7 DEF Expire, EndHoldNow
  <2>8. CASE CheckFreeze \/ DeadlinePasses \/ VideoStops \/ EndTail \/ TickReads
    BY <2>4, <2>5, <2>8 DEF CheckFreeze, DeadlinePasses, VideoStops, EndTail, TickReads
  <2>9. ASSUME NEW p \in Protections, Configure(p) PROVE ~hold'.claimed /\ (Held' => hold'.open)
    <3>1. \/ hold' = [ClosedAs(hold, "ended") EXCEPT !.tail = FALSE]
          \/ hold' = hold \/ hold' = [hold EXCEPT !.tail = FALSE]
      BY <2>9 DEF Configure
    <3>2. QED
      BY <2>3, <2>5, <3>1
  <2>10. CASE (\E d \in Dests : Pump(d)) \/ (\E d \in VodDests : VodFetch(d)) \/ Proxy
    BY <1>1, <1>2, <2>5, <2>10
       DEF Pump, Dial, Connected, GoDown, Egress, VodFetch, ClaimVodFetch, CompleteVodFetch,
           Proxy, HandHeldConfig, AskTwitch, TwitchAnswers, TwitchFails, MayAsk
  <2>11. CASE UNCHANGED vars
    BY <2>5, <2>11 DEF vars
  <2>12. QED
    BY <2>6, <2>7, <2>8, <2>9, <2>10, <2>11 DEF Next, Plain, Supervise, Time
<1>5. QED
  BY <1>3, <1>4 DEF NothingClaimed

\* What remains good is kept, and what is invalidated is forgotten.
LEMMA KeptOrForgotten ==
  ASSUME Plain, VodInv, UNCHANGED <<fetching, plan>>, NEW ds, Invalidate(ds),
         ASSUME NEW n \in Nat, NEW d \in Dests \ ds, GoodFor(n) PROVE GoodForNext(n)
  PROVE  KeptForTheirStream'
<1>1. SUFFICES ASSUME NEW d \in VodDests
               PROVE  /\ override'[d].kind = "vod" => GoodForNext(override'[d].of)
                      /\ \A i \in DOMAIN flights[d] :
                           flights[d][i].epoch = epoch'[d] => GoodForNext(flights[d][i].of)
  BY DEF KeptForTheirStream, fetching, VodDests, GoodFor, GoodForNext
<1>2. /\ d \in Dests /\ epoch[d] \in Nat /\ override[d].of \in Nat
      /\ flights[d] \in Seq(FlightSet)
  BY NoEbPlan DEF VodInv, IInv, SessionSet
<1>3. \A i \in DOMAIN flights[d] : /\ flights[d][i].epoch \in Nat /\ flights[d][i].of \in Nat
                                   /\ flights[d][i].epoch <= epoch[d]
  <2>1. \A i \in DOMAIN flights[d] : flights[d][i] \in FlightSet
    BY <1>2
  <2>2. QED
    BY <2>1 DEF FlightSet, VodInv, FlightsFindNoSession
<1>4. CASE d \in ds
  <2>1. override'[d] = NoSession /\ epoch'[d] = epoch[d] + 1
    BY <1>2, <1>4 DEF Invalidate
  <2>2. QED
    BY <1>2, <1>3, <2>1 DEF NoSession
<1>5. CASE d \notin ds
  <2>1. override'[d] = override[d] /\ epoch'[d] = epoch[d]
    BY <1>2, <1>5 DEF Invalidate
  <2>2. \A n \in Nat : GoodFor(n) => GoodForNext(n)
    BY <1>2, <1>5
  <2>3. QED
    BY <1>2, <1>3, <2>1, <2>2 DEF VodInv, KeptForTheirStream
<1>6. QED
  BY <1>4, <1>5

LEMMA KeptWhileNothingChanges ==
  ASSUME Plain, VodInv, UNCHANGED <<override, epoch, fetching, plan>>,
         ASSUME NEW n \in Nat, GoodFor(n) PROVE GoodForNext(n)
  PROVE  KeptForTheirStream'
<1>1. /\ override \in [Dests -> SessionSet] /\ epoch \in [Dests -> Nat]
  BY NoEbPlan DEF VodInv, IInv
<1>2. Invalidate({})
  BY <1>1 DEF Invalidate
<1>3. QED
  BY <1>2, KeptOrForgotten

LEMMA KeptByIngest ==
  ASSUME Plain, VodInv, NEW c \in Conns, Ingest(c)
  PROVE  KeptForTheirStream'
<1>1. /\ hold \in HoldSet /\ ingestAlive \in BOOLEAN /\ stream \in Nat
      /\ ~hold.claimed /\ (Held => hold.open)
  BY NoEbPlan DEF VodInv, IInv, NothingClaimed
<1>2. CASE Connect(c) \/ RejectPublish(c) \/ Video(c) \/ Goodbye(c) \/ DropOther(c)
  <2>1. UNCHANGED <<override, epoch, fetching, plan, ingestAlive, stream, tookOver>>
    BY <1>1, <1>2 DEF Connect, RejectPublish, Video, Goodbye, DropOther, sessions, rest,
                      history, slot
  <2>2. hold' = hold \/ ingestAlive
    BY <1>2 DEF Connect, RejectPublish, Video, Goodbye, DropOther, VodInv, IInv, SlotInv,
                SlotHasItsPublisher
  <2>4. ASSUME NEW n \in Nat, GoodFor(n) PROVE GoodForNext(n)
    <3>1. CASE hold' = hold
      BY <2>1, <2>4, <3>1 DEF GoodFor, GoodForNext, HoldActive, OnAir, Held
    <3>2. CASE ingestAlive
      BY <2>1, <2>4, <3>2 DEF GoodFor, GoodForNext
    <3>3. QED
      BY <2>2, <3>1, <3>2
  <2>3. QED
    BY <2>1, <2>4, KeptWhileNothingChanges
<1>3. CASE Publish(c)
  <2>1. /\ ingestAlive' = TRUE
        /\ stream' = (IF HoldActive THEN stream ELSE stream + 1)
        /\ tookOver' = (IF HoldActive THEN tookOver ELSE ingestAlive /\ ~Held)
    BY <1>1, <1>3 DEF Publish
  <2>2. PICK ds : /\ Invalidate(ds) /\ UNCHANGED <<fetching, plan>>
                  /\ Lapsed => ds = Dests
    <3>1. Lapsed => ForgottenAtEnd(FALSE) = Dests
      BY <1>1 DEF Lapsed, ForgottenAtEnd
    <3>2. QED
      BY <1>3, <3>1 DEF Publish, rest
  <2>3. ASSUME NEW n \in Nat, NEW d \in Dests \ ds, GoodFor(n) PROVE GoodForNext(n)
    <3>1. ~Lapsed
      BY <2>2, <2>3
    <3>2. CASE Held
      <4>1. HoldActive
        BY <1>1, <3>1, <3>2 DEF Lapsed, Held, HoldActive, OnAir
      <4>2. QED
        BY <2>1, <2>3, <4>1 DEF GoodFor, GoodForNext
    <3>3. CASE ~Held
      <4>1. ~HoldActive
        BY <3>3 DEF Held, HoldActive, OnAir
      <4>2. QED
        BY <2>1, <2>3, <3>3, <4>1 DEF GoodFor, GoodForNext
    <3>4. QED
      BY <3>2, <3>3
  <2>4. QED
    BY <2>2, <2>3, KeptOrForgotten
<1>4. CASE DropCurrent(c)
  <2>1. DEFINE ds == Dests \ HoldKeeps(HoldAtDeath)
  <2>2. /\ Invalidate(ds) /\ UNCHANGED <<fetching, plan, stream, tookOver>> /\ ingestAlive' = FALSE
        /\ hold' = IF OnAir(HoldAtDeath) THEN HoldAtDeath ELSE [HoldAtDeath EXCEPT !.tail = TRUE]
    BY <1>4 DEF DropCurrent, rest
  <2>3. ASSUME NEW n \in Nat, NEW d \in Dests \ ds, GoodFor(n) PROVE GoodForNext(n)
    <3>1. OnAir(HoldAtDeath)
      BY <2>3 DEF HoldKeeps
    <3>2. Held'
      BY <2>2, <3>1 DEF OnAir, Held
    <3>3. ingestAlive
      BY <1>4 DEF DropCurrent, VodInv, IInv, SlotInv, SlotHasItsPublisher
    <3>4. QED
      BY <2>2, <2>3, <3>2, <3>3 DEF GoodFor, GoodForNext
  <2> HIDE DEF ds
  <2>4. QED
    BY <2>2, <2>3, KeptOrForgotten
<1>5. QED
  BY <1>2, <1>3, <1>4 DEF Ingest

\* A hold, or nothing, ends without OBS: everything is forgotten.
LEMMA KeptByTheRest ==
  ASSUME Plain, VodInv, Supervise \/ Time \/ EndTail \/ EndHoldNow
  PROVE  KeptForTheirStream'
<1>1. /\ hold \in HoldSet /\ ingestAlive \in BOOLEAN /\ stream \in Nat /\ ~hold.claimed
  BY NoEbPlan DEF VodInv, IInv, NothingClaimed
<1>2. CASE Expire \/ EndHoldNow
  <2>1. PICK ds : /\ Invalidate(ds) /\ UNCHANGED <<fetching, plan, stream, tookOver, ingestAlive>>
                  /\ ~ingestAlive => ds = Dests
    <3>1. ~ingestAlive => ForgottenAtEnd(ingestAlive) = Dests
      BY <1>1, <1>2 DEF Expire, EndHoldNow, Lapsed, ForgottenAtEnd
    <3>2. QED
      BY <1>2, <3>1 DEF Expire, EndHoldNow, rest, slot, history
  <2>2. ASSUME NEW n \in Nat, NEW d \in Dests \ ds, GoodFor(n) PROVE GoodForNext(n)
    <3>1. ingestAlive
      BY <2>1, <2>2
    <3>2. QED
      BY <2>1, <2>2, <3>1 DEF GoodFor, GoodForNext
  <2>3. QED
    BY <2>1, <2>2, KeptOrForgotten
<1>3. CASE TickReads \/ DeadlinePasses \/ EndTail
  <2>1. UNCHANGED <<override, epoch, fetching, plan, ingestAlive, stream, tookOver>>
    BY <1>3 DEF TickReads, DeadlinePasses, EndTail, sessions, rest, history, slot
  <2>2. /\ HoldActive' => HoldActive
        /\ Held' <=> Held
    BY <1>1, <1>3 DEF TickReads, DeadlinePasses, EndTail, HoldActive, OnAir, Held, HoldSet
  <2>3. ASSUME NEW n \in Nat, GoodFor(n) PROVE GoodForNext(n)
    BY <2>1, <2>2, <2>3 DEF GoodFor, GoodForNext
  <2>4. QED
    BY <2>1, <2>3, KeptWhileNothingChanges
<1>4. ASSUME NEW p \in Protections, Configure(p) PROVE KeptForTheirStream'
  <2>1. UNCHANGED <<fetching, plan, ingestAlive, stream, tookOver>>
    BY <1>4 DEF Configure, history, slot
  <2>2. CASE frozen /\ ~p.enabled /\ Held
    <3>1. PICK ds : Invalidate(ds) /\ (~ingestAlive => ds = Dests)
      <4>1. ~ingestAlive => ForgottenAtEnd(ingestAlive) = Dests
        BY <1>1, <2>2 DEF ForgottenAtEnd
      <4>2. QED
        BY <1>4, <2>2, <4>1 DEF Configure
    <3>2. ASSUME NEW n \in Nat, NEW d \in Dests \ ds, GoodFor(n) PROVE GoodForNext(n)
      <4>1. ingestAlive
        BY <3>1, <3>2
      <4>2. QED
        BY <2>1, <3>2, <4>1 DEF GoodFor, GoodForNext
    <3>3. QED
      BY <2>1, <3>1, <3>2, KeptOrForgotten
  <2>3. CASE ~(frozen /\ ~p.enabled /\ Held)
    <3>1. /\ UNCHANGED <<override, epoch>>
          /\ hold' = hold \/ hold' = [hold EXCEPT !.tail = FALSE]
      BY <1>4, <2>3 DEF Configure
    <3>2. (HoldActive' <=> HoldActive) /\ (Held' <=> Held)
      BY <1>1, <3>1 DEF HoldActive, OnAir, Held, HoldSet
    <3>3. ASSUME NEW n \in Nat, GoodFor(n) PROVE GoodForNext(n)
      BY <2>1, <3>2, <3>3 DEF GoodFor, GoodForNext
    <3>4. QED
      BY <2>1, <3>1, <3>3, KeptWhileNothingChanges
  <2>4. QED
    BY <2>2, <2>3
<1>5. CASE CheckFreeze \/ VideoStops
  <2>1. /\ UNCHANGED <<override, epoch, fetching, plan, ingestAlive, stream, tookOver>>
        /\ ingestAlive
    BY <1>5 DEF CheckFreeze, VideoStops, sessions, rest, history, slot
  <2>2. ASSUME NEW n \in Nat, GoodFor(n) PROVE GoodForNext(n)
    BY <2>1, <2>2 DEF GoodFor, GoodForNext
  <2>3. QED
    BY <2>1, <2>2, KeptWhileNothingChanges
<1>6. QED
  BY <1>2, <1>3, <1>4, <1>5 DEF Supervise, Time

LEMMA KeptByRequests ==
  ASSUME Plain, VodInv, NEW d \in VodDests, VodFetch(d)
  PROVE  KeptForTheirStream'
<1>1. /\ flights \in [VodDests -> Seq(FlightSet)] /\ epoch \in [Dests -> Nat]
      /\ override \in [Dests -> SessionSet] /\ VodDests \subseteq Dests /\ stream \in Nat
      /\ TypeOK /\ SingleFlight
  BY NoEbPlan DEF VodInv, IInv
<1>2. UNCHANGED <<epoch, plan, ingestAlive, stream, tookOver, hold>>
  BY DEF VodFetch, ClaimVodFetch, CompleteVodFetch, sessions, rest, history, slot
<1>3. ASSUME NEW n PROVE GoodFor(n) <=> GoodForNext(n)
  BY <1>2 DEF GoodFor, GoodForNext, HoldActive, OnAir, Held
<1>4. SUFFICES ASSUME NEW e \in VodDests
               PROVE  /\ override'[e].kind = "vod" => GoodFor(override'[e].of)
                      /\ \A i \in DOMAIN flights'[e] :
                           flights'[e][i].epoch = epoch[e] => GoodFor(flights'[e][i].of)
  BY <1>2, <1>3 DEF KeptForTheirStream, VodDests, GoodFor, GoodForNext
<1>5. CASE ClaimVodFetch(d)
  <2>1. DEFINE f == [epoch |-> epoch[d], of |-> StreamNow]
  <2>2. /\ flights' = [flights EXCEPT ![d] = Append(flights[d], f)]
        /\ override' = override /\ Len(flights[d]) = 0
    BY <1>1, <1>5 DEF ClaimVodFetch, sessions, SingleFlight
  <2>3. GoodFor(f.of)
    BY DEF GoodFor, StreamNow, HoldActive, OnAir, Held
  <2> HIDE DEF f
  <2>4. /\ flights[d] \in Seq(FlightSet) /\ DOMAIN Append(flights[d], f) = {1}
        /\ Append(flights[d], f)[1] = f
    BY <1>1, <2>2
  <2>5. CASE e = d
    BY <1>1, <2>2, <2>3, <2>4, <2>5 DEF VodInv, KeptForTheirStream
  <2>6. CASE e # d
    BY <1>1, <2>2, <2>6 DEF VodInv, KeptForTheirStream
  <2>7. QED
    BY <2>5, <2>6
<1>6. ASSUME NEW i \in DOMAIN flights[d], NEW success \in BOOLEAN,
             CompleteVodFetch(d, i, success)
      PROVE  /\ override'[e].kind = "vod" => GoodFor(override'[e].of)
             /\ \A j \in DOMAIN flights'[e] :
                  flights'[e][j].epoch = epoch[e] => GoodFor(flights'[e][j].of)
  <2>1. DOMAIN flights'[d] = {} /\ \A x \in VodDests \ {d} : flights'[x] = flights[x]
    BY <1>1, <1>6, AnsweredLeavesNone
  <2>2. override' = override
        \/ /\ epoch[d] = flights[d][i].epoch
           /\ override' = [override EXCEPT ![d] = Vod(flights[d][i].of)]
    BY <1>6 DEF CompleteVodFetch
  <2>3. epoch[d] = flights[d][i].epoch => GoodFor(flights[d][i].of)
    BY <1>6 DEF VodInv, KeptForTheirStream
  <2>4. override'[e].kind = "vod" => GoodFor(override'[e].of)
    <3>1. override[e].kind = "vod" => GoodFor(override[e].of)
      BY DEF VodInv, KeptForTheirStream
    <3>2. CASE override' = override
      BY <3>1, <3>2
    <3>3. CASE override' # override
      <4>1. Vod(flights[d][i].of).of = flights[d][i].of
        BY DEF Vod
      <4>2. override'[d].of = flights[d][i].of /\ (e # d => override'[e] = override[e])
        BY <1>1, <2>2, <3>3, <4>1
      <4>3. QED
        BY <2>2, <2>3, <3>1, <3>3, <4>2
    <3>4. QED
      BY <3>2, <3>3
  <2>5. \A j \in DOMAIN flights'[e] :
          flights'[e][j].epoch = epoch[e] => GoodFor(flights'[e][j].of)
    BY <2>1 DEF VodInv, KeptForTheirStream
  <2>6. QED
    BY <2>4, <2>5
<1>7. QED
  BY <1>5, <1>6 DEF VodFetch

LEMMA StepKeepsVodInv ==
  ASSUME Plain, VodInv, [Next]_vars
  PROVE  VodInv'
<1>1. TypeOK /\ OneKind /\ EbDest = Nobody /\ ~asking
  BY NoEbPlan DEF VodInv, IInv, NothingClaimed
<1>2. IInv'
  BY StepKeepsTypes, StepKeepsTheSlot, StepKeepsObsGone DEF VodInv, IInv
<1>3. FlightsFindNoSession' /\ NothingClaimed'
  BY <1>1, FlightsStep, NothingIsClaimed DEF VodInv
<1>4. SingleFlight'
  BY <1>1, FlightStep DEF VodInv
<1>5. KeptForTheirStream'
  <2>1. CASE (\E d \in Dests : Pump(d)) \/ UNCHANGED vars
    <3>1. UNCHANGED <<override, epoch, fetching, plan, ingestAlive, stream, tookOver, hold>>
      BY <2>1 DEF Pump, Dial, Connected, GoDown, Egress, vars, sessions, rest, history, slot
    <3>2. ASSUME NEW n \in Nat, GoodFor(n) PROVE GoodForNext(n)
      BY <3>1, <3>2 DEF GoodFor, GoodForNext, HoldActive, OnAir, Held
    <3>3. QED
      BY <3>1, <3>2, KeptWhileNothingChanges
  <2>2. ~Proxy
    BY <1>1 DEF Proxy, HandHeldConfig, AskTwitch, TwitchAnswers, TwitchFails, MayAsk
  <2>3. ~\E t \in Controls : EndHold(t)
    BY DEF Plain
  <2>4. QED
    BY <2>1, <2>2, <2>3, KeptByIngest, KeptByTheRest, KeptByRequests DEF Next
<1>6. QED
  BY <1>2, <1>3, <1>4, <1>5 DEF VodInv

\* While OBS publishes, a VOD-audio session in use was opened for this stream,
\* whatever Twitch answers when, across drops, stops, freezes and holds: where OBS has
\* no Enhanced Broadcasting and no control thread ends holds.  Excepted is a stream
\* that took a frozen one's slot with no hold on (begin_publish).
THEOREM VodSessionsAreOfThisStream ==
  ASSUME Plain
  PROVE  Spec => []VodSessionIsOfThisStream
<1>1. Init => VodInv
  <2>1. SUFFICES ASSUME Init PROVE VodInv
    OBVIOUS
  <2>2. IInv /\ SingleFlight
    BY <2>1, InitHolds DEF Init, SingleFlight, VodDests
  <2>3. FlightsFindNoSession
    BY <2>1 DEF Init, FlightsFindNoSession, VodDests
  <2>4. NothingClaimed
    BY <2>1 DEF Init, NothingClaimed, NoHold, Held
  <2>5. KeptForTheirStream
    <3>1. VodDests \subseteq Dests
      BY <2>2, NoEbPlan DEF IInv
    <3>2. \A d \in VodDests : override[d].kind = "none" /\ DOMAIN flights[d] = {}
      BY <2>1, <3>1 DEF Init, VodDests, NoSession
    <3>3. QED
      BY <3>2 DEF KeptForTheirStream
  <2>6. QED
    BY <2>2, <2>3, <2>4, <2>5 DEF VodInv
<1>2. VodInv /\ [Next]_vars => VodInv'
  BY StepKeepsVodInv
<1>3. VodInv => VodSessionIsOfThisStream
  BY DEF VodInv, KeptForTheirStream, GoodFor, VodSessionIsOfThisStream
<1>4. QED
  BY <1>1, <1>2, <1>3, PTL DEF Spec
-----------------------------------------------------------------------------
(* Enhanced Broadcasting sessions, where no destination wants both kinds of  *)
(* session, and no control thread ends holds.                                *)

Undisturbed == Controls = {} /\ OneKind

IsEb(d) == override[d].kind = "eb"

\* The only EB session a destination has is the one OBS was last given, and no other
\* destination has one.
LastGiven == \A d \in Dests : IsEb(d) => /\ d = EbDest /\ ebSession # 0
                                         /\ override[d].of = ebSession

\* OBS asks when it has been given nothing yet.
AsksForOne == asking => handed = 0 /\ EbDest \in Dests

\* What it was given stays its destination's until it publishes, and a hold that is
\* on knows of it, but for a drop or a new hold in between.
HandedIsKept == handed # 0 /\ ~ebAstray => /\ EbDest \in Dests /\ override[EbDest] = Eb(handed)
                                           /\ Held => hold.claimed

\* A hold is claimed by what OBS was given.
HoldsAreOpen == Held => hold.open /\ (hold.claimed => handed # 0)

\* A stream that is over leaves no session.
NoneIsLeft == ~ingestAlive /\ ~Held /\ handed = 0 => \A d \in Dests : ~IsEb(d)

PublishersOwn ==
  ingestAlive /\ handed = 0 /\ ~ebAstray =>
    /\ ebOf # 0 => EbDest \in Dests /\ override[EbDest] = Eb(ebOf)
    /\ \A d \in Dests : IsEb(d) => override[d].of = ebOf

EbInv == LastGiven /\ AsksForOne /\ HandedIsKept /\ HoldsAreOpen /\ NoneIsLeft /\ PublishersOwn

LEMMA EbTypes ==
  ASSUME TypeOK, Undisturbed
  PROVE  /\ override \in [Dests -> SessionSet] /\ epoch \in [Dests -> Nat]
         /\ hold \in HoldSet /\ ingestAlive \in BOOLEAN /\ ebAstray \in BOOLEAN
         /\ VodDests \subseteq Dests /\ EbDest \notin VodDests
         /\ EbDest # Nobody => EbDest \in Dests
         /\ opened \in Nat /\ ebSession \in Nat /\ handed \in Nat
BY PlansAssumption, BoundsAssumption DEF TypeOK, Undisturbed, OneKind, EbDest, VodDests

\* Steps that leave the sessions, the slot and the claim alone: no hold ends while
\* OBS is gone.
LEMMA EbUntouched ==
  ASSUME EbInv,
         UNCHANGED <<override, ebSession, plan, asking, handed, ingestAlive, ebOf, ebAstray>>,
         Held' => Held /\ (hold'.open <=> hold.open) /\ (hold'.claimed <=> hold.claimed),
         Held => Held' \/ ingestAlive
  PROVE  EbInv'
<1>1. \A d \in Dests : IsEb(d)' <=> IsEb(d)
  BY DEF IsEb
<1>2. LastGiven' /\ AsksForOne' /\ HandedIsKept'
  BY <1>1 DEF EbInv, LastGiven, AsksForOne, HandedIsKept, EbDest
<1>3. HoldsAreOpen' /\ NoneIsLeft'
  BY <1>1 DEF EbInv, HoldsAreOpen, NoneIsLeft
<1>4. PublishersOwn'
  BY <1>1 DEF EbInv, PublishersOwn, EbDest
<1>5. QED
  BY <1>2, <1>3, <1>4 DEF EbInv

\* What is invalidated is no EB session, and the rest is what it was.
LEMMA InvalidatedIsNone ==
  ASSUME TypeOK, Undisturbed, NEW ds, Invalidate(ds)
  PROVE  \A d \in Dests : /\ d \in ds => override'[d] = NoSession /\ ~IsEb(d)'
                          /\ d \notin ds => override'[d] = override[d] /\ (IsEb(d)' <=> IsEb(d))
BY EbTypes DEF Invalidate, IsEb, NoSession

LEMMA EbPublish ==
  ASSUME TypeOK, Undisturbed, EbInv, NEW c \in Conns, Publish(c)
  PROVE  EbInv'
<1>1. /\ ingestAlive' = TRUE /\ ~asking /\ asking' = asking
      /\ ebOf' = handed /\ handed' = 0 /\ hold' = Resumed /\ UNCHANGED plan
      /\ ebAstray' = IF handed # 0 THEN ebAstray ELSE ingestAlive /\ ~Held
  BY DEF Publish, rest
<1>2. hold \in HoldSet
  BY EbTypes
<1>3. ~Held'
  BY <1>1, <1>2 DEF Resumed, ClosedAs, Held, Lapsed, HoldSet
<1>4. AsksForOne' /\ HandedIsKept' /\ HoldsAreOpen' /\ NoneIsLeft'
  BY <1>1, <1>3 DEF AsksForOne, HandedIsKept, HoldsAreOpen, NoneIsLeft
<1>5. LastGiven'
  <2>1. PICK ds : /\ Invalidate(ds)
                  /\ ebSession' # ebSession => /\ ~Lapsed
                       /\ ds = {d \in Dests : d = EbDest /\ override[d] = Eb(ebSession)}
    <3>1. CASE Lapsed
      <4>1. ~HoldActive
        BY <3>1 DEF HoldActive, OnAir, Lapsed
      <4>2. QED
        BY <3>1, <4>1 DEF Publish
    <3>2. CASE ~Lapsed
      <4>1. DEFINE claims == HoldActive /\ ~hold.claimed /\ ebSession # 0
                   ds == {d \in Dests : claims /\ d = EbDest /\ override[d] = Eb(ebSession)}
      <4>2. Invalidate(ds) /\ ebSession' = IF claims THEN 0 ELSE ebSession
        BY <3>2 DEF Publish
      <4>3. ebSession' # ebSession =>
              ds = {d \in Dests : d = EbDest /\ override[d] = Eb(ebSession)}
        BY <4>2
      <4>4. QED
        BY <3>2, <4>2, <4>3
    <3>3. QED
      BY <3>1, <3>2
  <2>2. \A d \in Dests : IsEb(d)' => IsEb(d) /\ d \notin ds /\ override'[d] = override[d]
    BY <2>1, InvalidatedIsNone
  <2>3. \A d \in Dests : IsEb(d) => override[d] = Eb(ebSession)
    BY EbTypes DEF EbInv, LastGiven, IsEb, Eb, SessionSet
  <2>4. ebSession' # ebSession => \A d \in Dests : ~IsEb(d)'
    BY <2>1, <2>2, <2>3 DEF EbInv, LastGiven
  <2>5. QED
    BY <1>1, <2>2, <2>4 DEF EbInv, LastGiven, EbDest
<1>6. CASE handed # 0
  <2>1. SUFFICES ASSUME ~ebAstray PROVE PublishersOwn'
    BY <1>1, <1>4, <1>5, <1>6 DEF EbInv, PublishersOwn
  <2>2. EbDest \in Dests /\ override[EbDest] = Eb(handed) /\ (Held => hold.claimed)
    BY <1>6, <2>1 DEF EbInv, HandedIsKept
  <2>3. Invalidate({})
    BY <2>2 DEF Publish, ForgottenAtEnd, HoldActive, OnAir, Held
  <2>4. \A d \in Dests : override'[d] = override[d]
    BY <2>3, InvalidatedIsNone
  <2>5. \A d \in Dests : IsEb(d) => d = EbDest /\ override[d].of = handed
    BY <2>2 DEF EbInv, LastGiven, Eb
  <2>6. QED
    BY <1>1, <2>2, <2>4, <2>5 DEF PublishersOwn, IsEb, EbDest
<1>7. CASE handed = 0
  <2>1. SUFFICES ASSUME ~ingestAlive \/ Held PROVE PublishersOwn'
    BY <1>1, <1>4, <1>5, <1>7 DEF EbInv, PublishersOwn
  <2>2. \A d \in Dests : ~IsEb(d)'
    <3>1. CASE ~Held
      <4>1. \A d \in Dests : ~IsEb(d)
        BY <1>7, <2>1, <3>1 DEF EbInv, NoneIsLeft
      <4>2. \E ds : Invalidate(ds)
        BY DEF Publish
      <4>3. QED
        BY <4>1, <4>2, InvalidatedIsNone
    <3>2. CASE Held
      <4>1. ~hold.claimed /\ hold.open
        BY <1>7, <3>2 DEF EbInv, HoldsAreOpen
      <4>2. CASE Lapsed
        <5>1. Invalidate(Dests)
          BY <3>2, <4>1, <4>2 DEF Publish, ForgottenAtEnd
        <5>2. QED
          BY <5>1, InvalidatedIsNone
      <4>3. CASE ~Lapsed
        <5>1. HoldActive
          BY <1>2, <3>2, <4>1, <4>3 DEF HoldActive, OnAir, Held, Lapsed, HoldSet
        <5>2. DEFINE ds == {d \in Dests : /\ HoldActive /\ ~hold.claimed /\ ebSession # 0
                                          /\ d = EbDest /\ override[d] = Eb(ebSession)}
        <5>3. Invalidate(ds)
          BY <4>3 DEF Publish
        <5>4. \A d \in Dests : IsEb(d) => d \in ds
          <6>1. SUFFICES ASSUME NEW d \in Dests, IsEb(d) PROVE d \in ds
            OBVIOUS
          <6>2. d = EbDest /\ ebSession # 0 /\ override[d].of = ebSession
            BY <6>1 DEF EbInv, LastGiven
          <6>3. override[d] = Eb(ebSession)
            BY <6>1, <6>2, EbTypes DEF IsEb, Eb, SessionSet
          <6>4. QED
            BY <4>1, <5>1, <6>2, <6>3
        <5> HIDE DEF ds
        <5>5. QED
          BY <5>3, <5>4, InvalidatedIsNone
      <4>4. QED
        BY <4>2, <4>3
    <3>3. QED
      BY <3>1, <3>2
  <2>3. QED
    BY <1>1, <1>7, <2>2 DEF PublishersOwn
<1>8. QED
  BY <1>6, <1>7

LEMMA EbDrop ==
  ASSUME TypeOK, Undisturbed, SlotInv, EbInv, NEW c \in Conns, DropCurrent(c)
  PROVE  EbInv'
<1>1. /\ ingestAlive /\ ingestAlive' = FALSE /\ hold \in HoldSet
      /\ UNCHANGED <<plan, ebSession, asking, handed, ebOf>>
      /\ Invalidate(Dests \ HoldKeeps(HoldAtDeath))
      /\ hold' = IF OnAir(HoldAtDeath) THEN HoldAtDeath ELSE [HoldAtDeath EXCEPT !.tail = TRUE]
      /\ ebAstray' = (handed # 0 /\ (ebAstray \/ ~Held \/ EbDest \notin HoldKeeps(HoldAtDeath)))
  BY EbTypes DEF DropCurrent, SlotInv, SlotHasItsPublisher, rest, proxy
<1>2. \/ HoldAtDeath = hold
      \/ HoldAtDeath = ClosedAs(hold, "ended")
      \/ ~Held /\ \E why \in {"crash", "stopped"} : HoldAtDeath = Started(why)
  BY DEF HoldAtDeath, MayStartHold
<1>3. /\ Held' => hold'.open /\ (hold'.claimed => Held /\ hold.claimed)
      /\ ~Held' => ~OnAir(HoldAtDeath)
      /\ Held /\ Held' => (hold'.claimed <=> hold.claimed)
  <2>1. CASE HoldAtDeath = hold
    BY <1>1, <2>1 DEF EbInv, HoldsAreOpen, Held, OnAir, HoldSet
  <2>2. CASE HoldAtDeath = ClosedAs(hold, "ended")
    <3>1. ~OnAir(HoldAtDeath) /\ HoldAtDeath.why = "none"
      BY <1>1, <2>2 DEF ClosedAs, OnAir, HoldSet
    <3>2. HoldAtDeath \in HoldSet /\ hold' = [HoldAtDeath EXCEPT !.tail = TRUE]
      BY <1>1, <3>1, HoldAtDeathIsAHold
    <3>3. ~Held'
      BY <3>1, <3>2 DEF Held, HoldSet
    <3>4. QED
      BY <3>1, <3>3
  <2>3. ASSUME ~Held, NEW why \in {"crash", "stopped"}, HoldAtDeath = Started(why)
        PROVE  /\ Held' => hold'.open /\ (hold'.claimed => Held /\ hold.claimed)
               /\ ~Held' => ~OnAir(HoldAtDeath)
               /\ Held /\ Held' => (hold'.claimed <=> hold.claimed)
    BY <1>1, <2>3 DEF Held, OnAir, Started, HoldSet
  <2>4. QED
    BY <1>2, <2>1, <2>2, <2>3
<1>4. ~OnAir(HoldAtDeath) => HoldKeeps(HoldAtDeath) = {}
  BY DEF HoldKeeps
<1>5. \A d \in Dests : /\ IsEb(d)' => IsEb(d) /\ override'[d] = override[d] /\ OnAir(HoldAtDeath)
                       /\ d \in HoldKeeps(HoldAtDeath) => override'[d] = override[d]
  BY <1>1, <1>4, InvalidatedIsNone
<1>6. LastGiven' /\ NoneIsLeft' /\ AsksForOne' /\ PublishersOwn'
  BY <1>1, <1>3, <1>5
     DEF EbInv, LastGiven, NoneIsLeft, AsksForOne, PublishersOwn, EbDest
<1>7. HoldsAreOpen'
  BY <1>1, <1>3 DEF EbInv, HoldsAreOpen
<1>8. HandedIsKept'
  <2>1. SUFFICES ASSUME handed # 0, ~ebAstray, Held, EbDest \in HoldKeeps(HoldAtDeath)
                 PROVE  HandedIsKept'
    BY <1>1 DEF HandedIsKept
  <2>2. EbDest \in Dests /\ override[EbDest] = Eb(handed) /\ hold.claimed
    BY <2>1 DEF EbInv, HandedIsKept
  <2>3. override'[EbDest] = override[EbDest]
    BY <1>5, <2>1, <2>2
  <2>4. QED
    BY <1>1, <1>3, <2>1, <2>2, <2>3 DEF HandedIsKept, EbDest
<1>9. QED
  BY <1>6, <1>7, <1>8 DEF EbInv

\* A hold that ends forgets the sessions, unless OBS is still there or was given one.
LEMMA EbHoldEnds ==
  ASSUME TypeOK, Undisturbed, EbInv, Held, Invalidate(ForgottenAtEnd(ingestAlive)),
         NEW b, hold' = [ClosedAs(hold, "ended") EXCEPT !.tail = b],
         UNCHANGED <<plan, ebSession, asking, handed, ingestAlive, ebOf, ebAstray>>
  PROVE  EbInv'
<1>1. hold \in HoldSet
  BY EbTypes
<1>2. ~Held'
  BY <1>1 DEF ClosedAs, Held, HoldSet
<1>3. AsksForOne' /\ HoldsAreOpen'
  BY <1>2 DEF EbInv, AsksForOne, HoldsAreOpen, EbDest
<1>4. CASE ingestAlive \/ hold.claimed
  <2>1. ForgottenAtEnd(ingestAlive) = {}
    BY <1>4 DEF ForgottenAtEnd
  <2>2. \A d \in Dests : override'[d] = override[d] /\ (IsEb(d)' <=> IsEb(d))
    BY <2>1, InvalidatedIsNone
  <2>3. ingestAlive \/ handed # 0
    BY <1>4 DEF EbInv, HoldsAreOpen
  <2>4. LastGiven' /\ HandedIsKept' /\ NoneIsLeft' /\ PublishersOwn'
    BY <1>2, <2>2, <2>3 DEF EbInv, LastGiven, HandedIsKept, NoneIsLeft, PublishersOwn, EbDest
  <2>5. QED
    BY <1>3, <2>4 DEF EbInv
<1>5. CASE ~ingestAlive /\ ~hold.claimed
  <2>1. ForgottenAtEnd(ingestAlive) = Dests
    BY <1>5 DEF ForgottenAtEnd
  <2>2. \A d \in Dests : ~IsEb(d)'
    BY <2>1, InvalidatedIsNone
  <2>3. ~(handed # 0 /\ ~ebAstray)
    BY <1>5 DEF EbInv, HandedIsKept
  <2>4. LastGiven' /\ HandedIsKept' /\ NoneIsLeft' /\ PublishersOwn'
    BY <1>5, <2>2, <2>3 DEF LastGiven, HandedIsKept, NoneIsLeft, PublishersOwn
  <2>5. QED
    BY <1>3, <2>4 DEF EbInv
<1>6. QED
  BY <1>4, <1>5

\* A hold that opens does not know of a session given before.
LEMMA EbFreeze ==
  ASSUME TypeOK, Undisturbed, EbInv, CheckFreeze
  PROVE  EbInv'
<1>1. /\ hold \in HoldSet /\ ingestAlive /\ hold' = Started("freeze")
      /\ ebAstray' = (ebAstray \/ handed # 0)
      /\ UNCHANGED <<override, ebSession, plan, asking, handed, ingestAlive, ebOf>>
  BY EbTypes DEF CheckFreeze, slot, sessions, proxy, rest
<1>2. hold'.open = TRUE /\ hold'.claimed = FALSE
  BY <1>1 DEF Started, HoldSet
<1>3. \A d \in Dests : IsEb(d)' <=> IsEb(d)
  BY <1>1 DEF IsEb
<1>4. LastGiven' /\ AsksForOne' /\ HandedIsKept'
  BY <1>1, <1>3 DEF EbInv, LastGiven, AsksForOne, HandedIsKept, EbDest
<1>5. HoldsAreOpen' /\ NoneIsLeft' /\ PublishersOwn'
  BY <1>1, <1>2, <1>3 DEF EbInv, HoldsAreOpen, NoneIsLeft, PublishersOwn, EbDest
<1>6. QED
  BY <1>4, <1>5 DEF EbInv

LEMMA EbConfigure ==
  ASSUME TypeOK, Undisturbed, EbInv, NEW p \in Protections, Configure(p)
  PROVE  EbInv'
<1>1. /\ hold \in HoldSet
      /\ UNCHANGED <<ebSession, plan, asking, handed, ingestAlive, ebOf, ebAstray>>
  BY EbTypes DEF Configure, slot, proxy, history
<1>2. CASE frozen /\ ~p.enabled /\ Held
  <2>1. /\ Held /\ Invalidate(ForgottenAtEnd(ingestAlive))
        /\ hold' = [ClosedAs(hold, "ended") EXCEPT !.tail = FALSE]
    BY <1>2 DEF Configure
  <2>2. QED
    BY <1>1, <2>1, EbHoldEnds
<1>3. CASE ~(frozen /\ ~p.enabled /\ Held)
  <2>1. override' = override /\ (hold' = hold \/ hold' = [hold EXCEPT !.tail = FALSE])
    BY <1>3 DEF Configure
  <2>2. (Held' <=> Held) /\ hold'.open = hold.open /\ hold'.claimed = hold.claimed
    BY <1>1, <2>1 DEF Held, HoldSet
  <2>3. QED
    BY <1>1, <2>1, <2>2, EbUntouched
<1>4. QED
  BY <1>2, <1>3

\* An answer to a VOD-audio request is for another destination.
LEMMA EbRequestAnswered ==
  ASSUME TypeOK, Undisturbed, EbInv, NEW e \in VodDests, NEW i \in DOMAIN flights[e],
         NEW success \in BOOLEAN, CompleteVodFetch(e, i, success)
  PROVE  EbInv'
<1>1. /\ UNCHANGED <<plan, ebSession, asking, handed, ingestAlive, ebOf, ebAstray, hold>>
      /\ e \in Dests /\ e # EbDest
  BY EbTypes DEF CompleteVodFetch, rest, proxy, history, slot
<1>2. override' = override \/ override' = [override EXCEPT ![e] = Vod(flights[e][i].of)]
  BY DEF CompleteVodFetch
<1>3. \A d \in Dests : /\ d # e => override'[d] = override[d]
                       /\ IsEb(d)' => IsEb(d) /\ override'[d] = override[d]
  BY <1>2, EbTypes DEF IsEb, Vod
<1>4. LastGiven' /\ HandedIsKept' /\ NoneIsLeft' /\ PublishersOwn'
  BY <1>1, <1>3
     DEF EbInv, LastGiven, HandedIsKept, NoneIsLeft, PublishersOwn, EbDest, Held
<1>5. AsksForOne' /\ HoldsAreOpen'
  BY <1>1 DEF EbInv, AsksForOne, HoldsAreOpen, EbDest, Held
<1>6. QED
  BY <1>4, <1>5 DEF EbInv

LEMMA EbProxy ==
  ASSUME TypeOK, Undisturbed, EbInv, Proxy
  PROVE  EbInv'
<1>1. /\ hold \in HoldSet /\ override \in [Dests -> SessionSet] /\ opened \in Nat
      /\ EbDest # Nobody => EbDest \in Dests
  BY EbTypes
<1>2. UNCHANGED <<plan, ingestAlive, ebOf>>
  BY DEF Proxy, HandHeldConfig, AskTwitch, TwitchAnswers, TwitchFails, rest, history, slot
<1>3. CASE HandHeldConfig
  <2>1. /\ ~asking /\ EbDest \in Dests /\ ebSession # 0
        /\ override[EbDest] = Eb(ebSession) /\ HoldActive
        /\ hold' = [hold EXCEPT !.claimed = TRUE] /\ handed' = ebSession
        /\ UNCHANGED <<override, ebSession, asking>>
    BY <1>1, <1>3 DEF HandHeldConfig, MayAsk, KeepsEbSession, sessions
  <2>2. hold'.claimed = TRUE /\ (Held' <=> Held) /\ hold'.open = hold.open
    BY <1>1, <2>1 DEF Held, HoldSet
  <2>3. LastGiven' /\ AsksForOne' /\ HandedIsKept' /\ HoldsAreOpen' /\ NoneIsLeft'
        /\ PublishersOwn'
    BY <1>2, <2>1, <2>2 DEF EbInv, LastGiven, AsksForOne, HandedIsKept, HoldsAreOpen,
                            NoneIsLeft, PublishersOwn, IsEb, EbDest
  <2>4. QED
    BY <2>3 DEF EbInv
<1>4. CASE AskTwitch
  <2>1. /\ EbDest \in Dests /\ handed = 0
        /\ UNCHANGED <<override, ebSession, hold, handed, ebAstray>>
    BY <1>1, <1>4 DEF AskTwitch, MayAsk, sessions, history
  <2>2. LastGiven' /\ AsksForOne' /\ HandedIsKept' /\ HoldsAreOpen' /\ NoneIsLeft'
        /\ PublishersOwn'
    BY <1>2, <2>1 DEF EbInv, LastGiven, AsksForOne, HandedIsKept, HoldsAreOpen,
                      NoneIsLeft, PublishersOwn, IsEb, EbDest, Held
  <2>3. QED
    BY <2>2 DEF EbInv
<1>5. CASE TwitchAnswers
  <2>1. /\ EbDest \in Dests /\ asking' = FALSE /\ handed' = opened + 1
        /\ ebSession' = opened + 1 /\ opened + 1 # 0
        /\ hold' = [hold EXCEPT !.claimed = TRUE]
        /\ override' = [d \in Dests |-> IF d = EbDest THEN Eb(opened + 1) ELSE NoSession]
    BY <1>1, <1>5 DEF TwitchAnswers, EbInv, AsksForOne
  <2>2. hold'.claimed = TRUE /\ (Held' <=> Held) /\ hold'.open = hold.open
    BY <1>1, <2>1 DEF Held, HoldSet
  <2>3. \A d \in Dests : IsEb(d)' => d = EbDest /\ override'[d].of = opened + 1
    BY <2>1 DEF IsEb, NoSession, Eb
  <2>4. LastGiven' /\ AsksForOne' /\ HandedIsKept' /\ HoldsAreOpen' /\ NoneIsLeft'
        /\ PublishersOwn'
    BY <1>2, <2>1, <2>2, <2>3 DEF EbInv, LastGiven, AsksForOne, HandedIsKept,
                                  HoldsAreOpen, NoneIsLeft, PublishersOwn, EbDest
  <2>5. QED
    BY <2>4 DEF EbInv
<1>6. CASE TwitchFails
  <2>1. /\ handed = 0 /\ handed' = 0 /\ asking' = FALSE
        /\ UNCHANGED <<override, ebSession, hold, ebAstray>>
    BY <1>6 DEF TwitchFails, EbInv, AsksForOne, sessions, history
  <2>2. LastGiven' /\ AsksForOne' /\ HandedIsKept' /\ HoldsAreOpen' /\ NoneIsLeft'
        /\ PublishersOwn'
    BY <1>2, <2>1 DEF EbInv, LastGiven, AsksForOne, HandedIsKept, HoldsAreOpen,
                      NoneIsLeft, PublishersOwn, IsEb, EbDest, Held
  <2>3. QED
    BY <2>2 DEF EbInv
<1>7. QED
  BY <1>3, <1>4, <1>5, <1>6 DEF Proxy

LEMMA StepKeepsEbInv ==
  ASSUME TypeOK, Undisturbed, SlotInv, EbInv, [Next]_vars
  PROVE  EbInv'
<1>1. hold \in HoldSet
  BY EbTypes
<1>2. ASSUME NEW c \in Conns, Ingest(c) PROVE EbInv'
  <2>1. CASE Connect(c) \/ RejectPublish(c) \/ Goodbye(c) \/ DropOther(c)
    <3>1. UNCHANGED <<override, ebSession, plan, asking, handed, ingestAlive, ebOf, ebAstray, hold>>
      BY <2>1 DEF Connect, RejectPublish, Goodbye, DropOther, sessions, rest, proxy, history
    <3>2. Held' <=> Held
      BY <3>1 DEF Held
    <3>3. QED
      BY <3>1, <3>2, EbUntouched
  <2>2. CASE Video(c)
    <3>1. /\ UNCHANGED <<override, ebSession, plan, asking, handed, ingestAlive, ebOf, ebAstray>>
          /\ ingestAlive /\ (hold' = hold \/ hold' = Resumed)
      BY <2>2 DEF Video, sessions, rest, proxy, history, slot, SlotInv, SlotHasItsPublisher
    <3>2. Held' => hold' = hold
      BY <1>1, <3>1 DEF Resumed, ClosedAs, Held, Lapsed, HoldSet
    <3>3. Held' => Held
      BY <3>2 DEF Held
    <3>4. QED
      BY <3>1, <3>2, <3>3, EbUntouched
  <2>3. QED
    BY <1>2, <2>1, <2>2, EbPublish, EbDrop DEF Ingest
<1>3. CASE TickReads \/ Time \/ EndTail \/ \E d \in Dests : Pump(d)
  <2>1. UNCHANGED <<override, ebSession, plan, asking, handed, ingestAlive, ebOf, ebAstray>>
    BY <1>3 DEF TickReads, Time, DeadlinePasses, VideoStops, EndTail, Pump, Dial, Connected,
                GoDown, Egress, sessions, rest, proxy, history, slot
  <2>2. hold' = hold \/ hold' = [hold EXCEPT !.over = TRUE] \/ hold' = [hold EXCEPT !.tail = FALSE]
    BY <1>3 DEF TickReads, Time, DeadlinePasses, VideoStops, EndTail, Pump, Dial, Connected,
                GoDown, Egress
  <2>3. (Held' <=> Held) /\ hold'.open = hold.open /\ hold'.claimed = hold.claimed
    BY <1>1, <2>2 DEF Held, HoldSet
  <2>4. QED
    BY <2>1, <2>3, EbUntouched
<1>4. CASE Expire \/ EndHoldNow
  <2>1. /\ Held /\ Invalidate(ForgottenAtEnd(ingestAlive))
        /\ \E b : hold' = [ClosedAs(hold, "ended") EXCEPT !.tail = b]
        /\ UNCHANGED <<plan, ebSession, asking, handed, ingestAlive, ebOf, ebAstray>>
    BY <1>4 DEF Expire, EndHoldNow, Lapsed, rest, proxy, history, slot
  <2>2. PICK b : hold' = [ClosedAs(hold, "ended") EXCEPT !.tail = b]
    BY <2>1
  <2>3. QED
    BY <2>1, <2>2, EbHoldEnds
<1>5. ASSUME NEW d \in VodDests, VodFetch(d) PROVE EbInv'
  <2>1. CASE ClaimVodFetch(d)
    <3>1. UNCHANGED <<override, ebSession, plan, asking, handed, ingestAlive, ebOf, ebAstray, hold>>
      BY <2>1 DEF ClaimVodFetch, sessions, rest, proxy, history, slot
    <3>2. Held' <=> Held
      BY <3>1 DEF Held
    <3>3. QED
      BY <3>1, <3>2, EbUntouched
  <2>2. QED
    BY <1>5, <2>1, EbRequestAnswered DEF VodFetch
<1>6. CASE UNCHANGED vars
  <2>1. UNCHANGED <<override, ebSession, plan, asking, handed, ingestAlive, ebOf, ebAstray, hold>>
    BY <1>6 DEF vars, sessions, rest, proxy, history, slot
  <2>2. Held' <=> Held
    BY <2>1 DEF Held
  <2>3. QED
    BY <2>1, <2>2, EbUntouched
<1>7. ~\E t \in Controls : EndHold(t)
  BY DEF Undisturbed
<1>8. QED
  BY <1>2, <1>3, <1>4, <1>5, <1>6, <1>7, EbConfigure, EbFreeze, EbProxy DEF Next, Supervise

\* While OBS publishes, its Enhanced Broadcasting destination goes to the session
\* OBS was given for this publish, and never to one an earlier publish was given:
\* through freezes, takeovers, drops, holds that run out, requests made while the old
\* connection still holds the slot, and answers that come late or never.  Excepted
\* are the publishes the code is wrong about: one whose session was given before a
\* drop that does not keep it or before a hold opened, and one without a session
\* that takes a frozen slot over with no hold on (begin_publish, close_hold).
THEOREM EbSessionsAreThePublishers ==
  ASSUME Undisturbed
  PROVE  Spec => []EbSessionIsThePublishersUnlessAstray
<1>1. Init => EbInv
  <2>1. SUFFICES ASSUME Init PROVE EbInv
    OBVIOUS
  <2>2. (\A d \in Dests : ~IsEb(d)) /\ ~Held /\ ~ingestAlive /\ ~asking /\ handed = 0
    BY <2>1 DEF Init, IsEb, NoSession, NoHold, Held
  <2>3. QED
    BY <2>2 DEF EbInv, LastGiven, AsksForOne, HandedIsKept, HoldsAreOpen, NoneIsLeft,
                PublishersOwn
<1>2. IInv /\ EbInv /\ [Next]_vars => EbInv'
  BY StepKeepsEbInv DEF IInv
<1>3. EbInv => EbSessionIsThePublishersUnlessAstray
  BY DEF EbInv, PublishersOwn, IsEb, EbSessionIsThePublishers, EbSessionIsThePublishersUnlessAstray
<1>4. QED
  BY <1>1, <1>2, <1>3, InductiveInvariant, PTL DEF Spec
-----------------------------------------------------------------------------
(* The clock of the stamps (InputClock).                                    *)

\* What the clock reads, case by case.
LEMMA Readings ==
  ASSUME Cycle \in Nat \ {0}, NEW c \in Clocks, c.seen, NEW stamp \in Stamps
  PROVE  At(ExpandTs(c, stamp)) =
           IF Stray(c, stamp) THEN At(c)
           ELSE IF Ahead(c.last, stamp) /\ stamp < c.last THEN At(c) + (stamp - c.last) + Cycle
           ELSE IF ~Ahead(c.last, stamp) /\ stamp > c.last THEN At(c) + (stamp - c.last) - Cycle
           ELSE At(c) + (stamp - c.last)
<1>1. c.high \in Nat /\ c.last \in Nat /\ stamp \in Nat
  BY DEF Clocks, Stamps
<1>2. CASE Stray(c, stamp)
  BY <1>2 DEF ExpandTs
<1>3. CASE ~Stray(c, stamp)
  <2>1. At(ExpandTs(c, stamp)) = (c.high + Cycles(c, stamp)) * Cycle + stamp
    BY <1>3 DEF ExpandTs, At
  <2>2. /\ (c.high + 1) * Cycle = c.high * Cycle + Cycle
        /\ (c.high + (-1)) * Cycle = c.high * Cycle - Cycle
        /\ (c.high + 0) * Cycle = c.high * Cycle
    BY <1>1
  <2>3. c.high * Cycle \in Int
    BY <1>1
  <2>4. QED
    BY <1>1, <1>3, <2>1, <2>2, <2>3 DEF Cycles, At
<1>4. QED
  BY <1>2, <1>3

\* No stamp moves the clock by more than half a cycle.
THEOREM ClockNeverLeaps ==
  ASSUME Cycle \in Nat \ {0}, Back \in 0 .. Cycle \div 2,
         NEW c \in Clocks, NEW stamp \in Stamps
  PROVE  NoLeap(c, stamp)
<1>1. SUFFICES ASSUME c.seen PROVE NoLeap(c, stamp)
  BY DEF NoLeap
<1>2. c.high * Cycle \in Int /\ c.last \in Stamps /\ At(c) \in Int
  BY DEF Clocks, Stamps, At
<1>3. PICK half \in Nat : half = Cycle \div 2 /\ Cycle <= 2 * half + 1 /\ 2 * half <= Cycle
  OBVIOUS
<1>4. QED
  BY <1>1, <1>2, <1>3, Readings DEF NoLeap, Stray, Ahead, Stamps

\* A tag within half a cycle ahead, and no further behind than audio and video
\* cross each other, is read at the time it was stamped at.
THEOREM ClockIsExact ==
  ASSUME Cycle \in Nat \ {0}, Back \in Nat, 2 * Back < Cycle,
         NEW c \in Clocks, NEW time \in Nat
  PROVE  ReadExactly(c, time)
<1>1. SUFFICES ASSUME c.seen, time \in At(c) - Back .. At(c) + Cycle \div 2
               PROVE  At(ExpandTs(c, time % Cycle)) = time
  BY DEF ReadExactly
<1>2. PICK k \in Nat, stamp \in Stamps : time = k * Cycle + stamp /\ stamp = time % Cycle
  <2>1. time = (time \div Cycle) * Cycle + (time % Cycle) /\ time % Cycle \in Stamps
    BY DEF Stamps
  <2>2. time \div Cycle \in Nat
    OBVIOUS
  <2>3. QED
    BY <2>1, <2>2
<1>3. c.high \in Nat /\ c.last \in Stamps /\ c.high * Cycle \in Int /\ k * Cycle \in Int
  BY DEF Clocks, Stamps
<1>4. PICK half \in Nat : half = Cycle \div 2 /\ Cycle <= 2 * half + 1 /\ 2 * half <= Cycle
  OBVIOUS
<1>5. PICK a \in Int, b \in Int : a = c.high * Cycle /\ b = k * Cycle
  BY <1>3
<1>6. /\ a + c.last - Back <= b + stamp /\ b + stamp <= a + c.last + half
      /\ c.last \in 0 .. Cycle - 1 /\ stamp \in 0 .. Cycle - 1
  BY <1>1, <1>2, <1>3, <1>4, <1>5 DEF At, Stamps
<1>7. b \in {a - Cycle, a, a + Cycle} /\ (b = a - Cycle => c.high > 0)
  <2>1. k < c.high - 1 => b <= a - 2 * Cycle
    BY <1>3, <1>5
  <2>2. k > c.high + 1 => b >= a + 2 * Cycle
    BY <1>3, <1>5
  <2>3. k \in {c.high - 1, c.high, c.high + 1}
    <3>1. c.high \in Nat
      BY <1>3
    <3>2. ~(b <= a - 2 * Cycle)
      BY <1>6
    <3>3. ~(b >= a + 2 * Cycle)
      BY <1>4, <1>6
    <3>4. QED
      BY <2>1, <2>2, <3>1, <3>2, <3>3
  <2>4. CASE k = c.high
    BY <1>5, <2>4
  <2>5. CASE k = c.high + 1
    <3>1. (c.high + 1) * Cycle = c.high * Cycle + Cycle
      BY <1>3
    <3>2. QED
      BY <1>5, <2>5, <3>1
  <2>6. CASE k = c.high - 1
    <3>1. (c.high - 1) * Cycle = c.high * Cycle - Cycle
      BY <1>3
    <3>2. c.high > 0
      BY <1>3, <2>6
    <3>3. QED
      BY <1>5, <2>6, <3>1, <3>2
  <2>7. QED
    BY <2>3, <2>4, <2>5, <2>6
<1>8. At(c) = a + c.last /\ time = b + stamp
  BY <1>2, <1>5 DEF At
<1>9. CASE b = a
  BY <1>1, <1>2, <1>4, <1>6, <1>8, <1>9, Readings DEF Stray, Ahead
<1>10. CASE b = a + Cycle
  BY <1>1, <1>2, <1>4, <1>6, <1>8, <1>10, Readings DEF Stray, Ahead
<1>11. CASE b = a - Cycle
  BY <1>1, <1>2, <1>3, <1>4, <1>6, <1>7, <1>8, <1>11, Readings DEF Stray, Ahead
<1>12. QED
  BY <1>7, <1>9, <1>10, <1>11
=============================================================================
