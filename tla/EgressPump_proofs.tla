--------------------------- MODULE EgressPump_proofs ---------------------------
(***************************************************************************)
(* Proofs about EgressPump, for any delays, keyframe interval, buffer,     *)
(* thresholds and bounds: output timestamps never go back; decoders are    *)
(* handed no tag without the one it builds on; no jump behind a freeze;    *)
(* the reconnect screen keeps the delay; nothing airs twice but for a      *)
(* longer delay; no session outlives its stream.                           *)
(***************************************************************************)
EXTENDS EgressPump, FiniteSetTheorems, WellFoundedInduction, TLAPS

-----------------------------------------------------------------------------
(* The least and the greatest of a set of numbers.                          *)

\* Any set of naturals has a least element.
LEMMA LeastNatural ==
  ASSUME NEW S, S \subseteq Nat, S # {}
  PROVE  \E x \in S : \A y \in S : x <= y
<1>1. PICK x \in S : \A y \in S : <<y, x>> \notin OpToRel(<, Nat)
  BY NatLessThanWellFounded, WFMin
<1>2. ASSUME NEW y \in S PROVE x <= y
  <2>1. y \in Nat /\ x \in Nat /\ ~(y < x)
    BY <1>1 DEF OpToRel
  <2>2. QED
    BY <2>1
<1>3. QED
  BY <1>2

\* A bounded set of naturals has a greatest element.
LEMMA GreatestNatural ==
  ASSUME NEW n \in Nat, NEW S, S \subseteq 0 .. n, S # {}
  PROVE  \E x \in S : \A y \in S : x >= y
<1> DEFINE T == {n - y : y \in S}
<1>1. PICK z \in T : \A t \in T : z <= t
  <2>1. \A y \in S : n - y \in Nat
    OBVIOUS
  <2>2. T \subseteq Nat
    BY <2>1
  <2>3. T # {}
    OBVIOUS
  <2> HIDE DEF T
  <2>4. QED
    BY <2>2, <2>3, LeastNatural
<1>2. PICK x \in S : z = n - x
  BY <1>1
<1>3. \A y \in S : n - x <= n - y /\ y \in Nat
  BY <1>1, <1>2
<1>4. QED
  BY <1>2, <1>3

LEMMA MinIsLeast ==
  ASSUME NEW S, S \subseteq Nat, S # {}
  PROVE  Min(S) \in S /\ \A y \in S : Min(S) <= y
BY LeastNatural DEF Min

LEMMA MaxIsGreatest ==
  ASSUME NEW n \in Nat, NEW S, S \subseteq 0 .. n, S # {}
  PROVE  Max(S) \in S /\ \A y \in S : Max(S) >= y
BY GreatestNatural DEF Max

\* Of two numbers.
LEMMA MaxOfTwo ==
  ASSUME NEW a \in Int, NEW b \in Int
  PROVE  Max({a, b}) = IF a >= b THEN a ELSE b
BY DEF Max

LEMMA MinOfTwo ==
  ASSUME NEW a \in Int, NEW b \in Int
  PROVE  Min({a, b}) = IF a <= b THEN a ELSE b
BY DEF Min
-----------------------------------------------------------------------------
(* The invariant: the buffer, OBS and the hold.                             *)

NatOrNone == Nat \union {None}

ObsSet == [token : Nat, alive : BOOLEAN, born : Nat, start : Nat, sentNow : BOOLEAN,
           frozen : BOOLEAN, seen : Int]
HoldSet == [open : BOOLEAN, ends : Nat, lastEnd : {"none", "ended", "resumed"},
            tail : BOOLEAN, tailEnd : NatOrNone, after : NatOrNone]

EnvTypes == /\ now \in Nat /\ next \in Nat /\ target \in Nat /\ fresh \in Nat
            /\ obs \in ObsSet /\ hold \in HoldSet
            /\ Seqs \subseteq Nat /\ \A s \in Seqs : ring[s] \in Nat

\* OBS's clock, from which its timestamps are.
Clock == now - obs.born

\* The tags in the buffer are the publisher's last ones, each later than the one before.
RingInv == /\ obs.start <= next /\ obs.born <= now
           /\ \A s \in Seqs : obs.start <= s /\ s < next
           /\ \A s \in Seqs, t \in Nat : s <= t /\ t < next => t \in Seqs
           /\ \A s, t \in Seqs : s < t => ring[s] < ring[t]
           /\ \A s \in Seqs : ring[s] <= Clock /\ (~obs.sentNow => ring[s] < Clock)

\* The floor for jumps is where OBS last came back from a freeze, or below.
FloorInv == /\ fresh <= next
            /\ Seqs = {} => fresh = 0
            /\ fresh > 0 => hold.after # None /\ fresh <= hold.after + 1

\* OBS sends at most one tag a tick.
BoundsInv == /\ now <= MaxTime /\ obs.token <= MaxPublishers
             /\ next <= now + obs.token
             /\ obs.alive /\ ~obs.sentNow => next < now + obs.token

EnvInv == EnvTypes /\ RingInv /\ FloorInv /\ BoundsInv

LEMMA ConstantTypes ==
  /\ {Gop, Cap, FreezeAfter, HoldFor, Buffer, Slack, Jitter, Floor, Search, Margin, Grace,
      FirstVideo, MaxPublishers, MaxTime} \subseteq Nat
  /\ FirstVideo >= FreezeAfter /\ None = -1 /\ Nowhere = MaxTime + MaxPublishers + 1
BY TimesAssumption, BoundsAssumption DEF None, Nowhere

LEMMA NewestOf ==
  ASSUME EnvInv, NEW S, S \subseteq Seqs
  PROVE  \/ S = {} /\ Newest(S) = None
         \/ /\ Newest(S) \in S /\ Newest(S) \in Nat
            /\ \A s \in S : s <= Newest(S)
<1>1. CASE S = {}
  BY <1>1 DEF Newest
<1>2. CASE S # {}
  <2>1. S \subseteq 0 .. next /\ next \in Nat
    BY DEF EnvInv, EnvTypes, RingInv
  <2>2. Max(S) \in S /\ \A y \in S : Max(S) >= y
    BY <1>2, <2>1, MaxIsGreatest
  <2>3. Newest(S) = Max(S)
    BY <1>2 DEF Newest
  <2>4. Newest(S) \in S /\ Newest(S) \in Nat
    <3>1. Newest(S) \in S
      BY <2>2, <2>3
    <3>2. S \subseteq Nat
      BY <2>1
    <3>3. QED
      BY <3>1, <3>2
  <2>5. ASSUME NEW s \in S PROVE s <= Newest(S)
    BY <2>1, <2>2, <2>3, <2>4
  <2>6. QED
    BY <2>4, <2>5
<1>3. QED
  BY <1>1, <1>2

LEMMA OldestOf ==
  ASSUME EnvInv, NEW S, S \subseteq Seqs
  PROVE  \/ S = {} /\ Oldest(S) = None
         \/ /\ Oldest(S) \in S /\ Oldest(S) \in Nat
            /\ \A s \in S : Oldest(S) <= s
<1>1. CASE S = {}
  BY <1>1 DEF Oldest
<1>2. CASE S # {}
  <2>1. S \subseteq Nat
    BY DEF EnvInv, EnvTypes
  <2>2. Min(S) \in S /\ \A y \in S : Min(S) <= y
    BY <1>2, <2>1, MinIsLeast
  <2>3. QED
    BY <1>2, <2>1, <2>2 DEF Oldest
<1>3. QED
  BY <1>1, <1>2

\* The ends of a buffer that holds something.
LEMMA EndsOf ==
  ASSUME EnvInv, Seqs # {}
  PROVE  /\ Min(Seqs) \in Seqs /\ \A s \in Seqs : Min(Seqs) <= s
         /\ Max(Seqs) \in Seqs /\ \A s \in Seqs : s <= Max(Seqs) /\ ring[s] <= LatestTs
         /\ LatestSeq = Max(Seqs) /\ LatestTs \in Nat /\ Max(Seqs) = next - 1
<1>1. Seqs \subseteq 0 .. next /\ next \in Nat /\ Seqs \subseteq Nat
      /\ \A s \in Seqs : ring[s] \in Nat
  BY DEF EnvInv, EnvTypes, RingInv
<1>2. Min(Seqs) \in Seqs /\ \A s \in Seqs : Min(Seqs) <= s
  BY <1>1, MinIsLeast
<1>3. Max(Seqs) \in Seqs /\ \A s \in Seqs : s <= Max(Seqs)
  BY <1>1, MaxIsGreatest
<1>4. \A s \in Seqs : ring[s] <= ring[Max(Seqs)]
  <2>1. \A s, t \in Seqs : s < t => ring[s] < ring[t]
    BY DEF EnvInv, RingInv
  <2>2. ASSUME NEW s \in Seqs PROVE ring[s] <= ring[Max(Seqs)]
    <3>1. PICK m \in Seqs : m = Max(Seqs)
      BY <1>3
    <3>2. s \in Nat /\ m \in Nat /\ s <= m /\ ring[s] \in Nat /\ ring[m] \in Nat
      BY <1>1, <1>3, <3>1
    <3>3. s < m => ring[s] < ring[m]
      BY <2>1
    <3>4. s = m \/ s < m
      BY <3>2
    <3>5. QED
      BY <3>1, <3>2, <3>3, <3>4
  <2>3. QED
    BY <2>2
<1>5. Max(Seqs) = next - 1
  <2>1. Max(Seqs) < next /\ Max(Seqs) \in Nat
    BY <1>1, <1>3 DEF EnvInv, RingInv
  <2>2. next - 1 \in Seqs
    BY <1>1, <1>3, <2>1 DEF EnvInv, RingInv
  <2>3. QED
    BY <1>1, <1>3, <2>1, <2>2
<1>6. QED
  BY <1>1, <1>2, <1>3, <1>4, <1>5 DEF LatestSeq, LatestTs, Newest

LEMMA IdrsAreTags ==
  ASSUME EnvInv
  PROVE  Idrs \subseteq Seqs /\ Seqs \subseteq Nat /\ \A t : Upto(t) \subseteq Idrs
BY DEF Idrs, Upto, EnvInv, EnvTypes

\* delayed_idr: a keyframe, and none from before a freeze.
LEMMA DelayedIdrIsFresh ==
  ASSUME EnvInv, NEW d \in Nat, DelayedIdr(d) # None
  PROVE  DelayedIdr(d) \in Idrs /\ DelayedIdr(d) >= fresh
<1> DEFINE asked  == Newest(Upto(LatestTs - d))
           margin == Newest(Upto(ring[Min(Seqs)] + Margin))
<1>1. fresh \in Nat /\ None = -1
  BY ConstantTypes DEF EnvInv, EnvTypes
<1>2. asked = None \/ (asked \in Idrs /\ asked \in Nat)
  BY NewestOf, IdrsAreTags
<1>3. margin = None \/ (margin \in Idrs /\ margin \in Nat)
  BY NewestOf, IdrsAreTags
<1>4. Oldest(Idrs) = None \/ (Oldest(Idrs) \in Idrs /\ Oldest(Idrs) \in Nat)
  BY OldestOf, IdrsAreTags
<1> HIDE DEF asked, margin
<1>5. DelayedIdr(d) = IF Seqs = {} THEN None
                      ELSE IF asked >= fresh THEN asked
                      ELSE IF ~Full THEN None
                      ELSE IF margin >= fresh THEN margin
                      ELSE IF fresh = 0 THEN Oldest(Idrs) ELSE None
  BY DEF DelayedIdr, asked, margin
<1>6. QED
  BY <1>1, <1>2, <1>3, <1>4, <1>5

\* rejoin_idr: a keyframe of OBS's new video, none only when that has none yet; and
\* one a delay back when there is one.
LEMMA RejoinIdrIsNew ==
  ASSUME EnvInv, NEW from \in Nat
  PROVE  /\ \/ RejoinIdr(from) = None /\ \A s \in Idrs : s < from
            \/ RejoinIdr(from) \in Idrs /\ RejoinIdr(from) >= from
         /\ (\E key \in Idrs : key >= from /\ LatestTs - ring[key] >= target) =>
               RejoinIdr(from) \in Idrs /\ ring[RejoinIdr(from)] <= LatestTs - target
<1> DEFINE ago  == IF LatestTs > target THEN LatestTs - target ELSE 0
           back == Newest(Upto(ago))
           new  == {s \in Idrs : s >= from}
<1>1. None = -1 /\ Idrs \subseteq Seqs /\ Idrs \subseteq Nat /\ target \in Nat
      /\ \A s \in Idrs : ring[s] \in Nat
  BY ConstantTypes, IdrsAreTags DEF EnvInv, EnvTypes
<1>2. /\ Upto(ago) \subseteq Seqs /\ new \subseteq Seqs
      /\ \A s \in Upto(ago) : s \in Idrs /\ ring[s] <= ago
  BY <1>1 DEF Upto
<1>3. \/ Upto(ago) = {} /\ back = None
      \/ back \in Upto(ago) /\ back \in Nat /\ \A s \in Upto(ago) : s <= back
  BY <1>2, NewestOf
<1>4. \/ new = {} /\ Oldest(new) = None
      \/ Oldest(new) \in new /\ Oldest(new) \in Nat
  BY <1>2, OldestOf
<1>5. RejoinIdr(from) = IF Seqs # {} /\ back >= from THEN back ELSE Oldest(new)
  BY DEF RejoinIdr
<1>6. \/ RejoinIdr(from) = None /\ \A s \in Idrs : s < from
      \/ RejoinIdr(from) \in Idrs /\ RejoinIdr(from) >= from
  <2>1. CASE Seqs # {} /\ back >= from
    BY <1>1, <1>2, <1>3, <1>5, <2>1
  <2>2. CASE ~(Seqs # {} /\ back >= from) /\ new = {}
    <3>1. \A s \in Idrs : ~(s >= from) /\ s \in Nat
      BY <1>1, <2>2
    <3>2. QED
      BY <1>4, <1>5, <2>2, <3>1
  <2>3. CASE ~(Seqs # {} /\ back >= from) /\ new # {}
    BY <1>4, <1>5, <2>3
  <2>4. QED
    BY <2>1, <2>2, <2>3
<1>7. ASSUME NEW key \in Idrs, key >= from, LatestTs - ring[key] >= target
      PROVE  RejoinIdr(from) \in Idrs /\ ring[RejoinIdr(from)] <= LatestTs - target
  <2>1. Seqs # {} /\ LatestTs \in Nat /\ key \in Nat /\ ring[key] \in Nat
    BY <1>1, EndsOf
  <2>2. ago = LatestTs - target
    BY <1>1, <1>7, <2>1
  <2>3. key \in Upto(ago)
    BY <1>1, <1>7, <2>1, <2>2 DEF Upto
  <2>4. back \in Upto(ago) /\ back \in Nat /\ key <= back
    BY <1>3, <2>3
  <2>5. back >= from
    BY <1>7, <2>1, <2>4
  <2>6. QED
    BY <1>2, <1>5, <2>1, <2>2, <2>4, <2>5
<1>8. QED
  BY <1>6, <1>7
-----------------------------------------------------------------------------
(* The invariant: the pump.  Each part is about a pump p in the present     *)
(* buffer, for the places p may be at.                                      *)

Places == {"off", "dial", "seed", "await", "top", "wait", "pace", "send", "screen"}

PumpSet == [pc : Places, token : Nat, heard : Nat, pos : Nat, anchor : Int, wall : Nat,
            sent : Int, ts : Nat, until : Nat, checked : BOOLEAN, seen : Nat,
            tailing : BOOLEAN, mark : NatOrNone,
            goal : {"none", "seed", "reanchor", "rejoin", "join"}, after : NatOrNone,
            since : NatOrNone, last : Int, high : Int, ref : NatOrNone]

\* A member of it, field by field.
PumpRecord(p) ==
  p = [pc |-> p.pc, token |-> p.token, heard |-> p.heard, pos |-> p.pos, anchor |-> p.anchor,
       wall |-> p.wall, sent |-> p.sent, ts |-> p.ts, until |-> p.until, checked |-> p.checked,
       seen |-> p.seen, tailing |-> p.tailing, mark |-> p.mark, goal |-> p.goal,
       after |-> p.after, since |-> p.since, last |-> p.last, high |-> p.high, ref |-> p.ref]
PumpFields(p) ==
  /\ p.pc \in Places /\ p.token \in Nat /\ p.heard \in Nat /\ p.pos \in Nat /\ p.anchor \in Int
  /\ p.wall \in Nat /\ p.sent \in Int /\ p.ts \in Nat /\ p.until \in Nat /\ p.checked \in BOOLEAN
  /\ p.seen \in Nat /\ p.tailing \in BOOLEAN /\ p.mark \in NatOrNone
  /\ p.goal \in {"none", "seed", "reanchor", "rejoin", "join"} /\ p.after \in NatOrNone
  /\ p.since \in NatOrNone /\ p.last \in Int /\ p.high \in Int /\ p.ref \in NatOrNone

LEMMA PumpTyped == ASSUME NEW p, PumpRecord(p), PumpFields(p) PROVE p \in PumpSet
BY DEF PumpSet, PumpRecord, PumpFields

\* Between two tags, and with one in hand.
Between(p) == p.pc \in {"top", "wait"}
InHand(p)  == p.pc \in {"pace", "send"}

\* The pump's place, its session and OBS's.
PlaceOK(p) == /\ p.token <= obs.token /\ p.heard <= obs.token
              /\ p.pos <= next \/ p.pos = Nowhere
              /\ p.pc # "screen" => p.since = None
              /\ Between(p) => p.pos <= next
              /\ InHand(p) => p.pos < next /\ (p.token # obs.token => p.pos < obs.start)

\* The highest output timestamp is not beyond where the next run would start, and
\* every tag ahead of the pump comes after it, the next one OBS sends included.
TimeOK(p) ==
  /\ p.pc \in {"seed", "await", "top", "wait", "pace"} => p.high <= p.sent - p.anchor
  /\ p.pc = "screen" => p.high <= p.last
  /\ Between(p) \/ InHand(p) => p.high >= None
  /\ p.pc = "pace" => p.high < p.ts - p.anchor
  /\ p.pc = "send" => p.high = p.ts - p.anchor
  /\ Between(p) /\ p.token = obs.token =>
       /\ \A s \in Seqs : s >= p.pos => ring[s] > p.anchor + p.high
       /\ p.anchor + p.high <= Clock /\ (~obs.sentNow => p.anchor + p.high < Clock)
  /\ InHand(p) /\ p.token = obs.token =>
       /\ \A s \in Seqs : s > p.pos => ring[s] > p.ts
       /\ p.ts <= Clock /\ (~obs.sentNow => p.ts < Clock)

\* Is tag s before all the buffer holds?
Behind(s) == Seqs # {} /\ \A t \in Seqs : s < t

\* The tag at pos can be decoded, if the pump gets to send it.
Chained(p) == p.pos \in Idrs \/ p.ref = p.pos - 1 \/ Behind(p.pos - 1)

ChainOK(p) ==
  /\ p.token = obs.token /\ (Between(p) \/ p.pc = "pace") => Chained(p)
  /\ p.token = obs.token /\ p.pc = "pace" => p.pos \in Seqs \/ Behind(p.pos)
  /\ p.pc = "send" => p.ref = p.pos

\* Where the keyframes start that a waiting pump takes.
Beyond(p) == IF p.mark = None THEN fresh ELSE p.mark + 1

\* A waiting pump takes a keyframe in the tick it comes in, and none from before a
\* freeze.
AwaitOK(p) ==
  p.pc = "await" => /\ p.mark # None => \A s \in Idrs : s > p.mark => s >= fresh
                    /\ ~obs.sentNow => \A s \in Idrs : s < Beyond(p)

PumpOK(p) == p \in PumpSet /\ PlaceOK(p) /\ TimeOK(p) /\ ChainOK(p) /\ AwaitOK(p)

IInv == EnvInv /\ PumpOK(pump)
-----------------------------------------------------------------------------
(* Where a pump may go.                                                     *)

LEMMA EndedOK == ASSUME EnvInv PROVE PumpOK(Ended)
<1>1. NoPump \in PumpSet
  BY ConstantTypes DEF NoPump, PumpSet, Places, NatOrNone
<1>2. QED
  BY <1>1 DEF Ended, NoPump, PumpOK, PlaceOK, TimeOK, ChainOK, AwaitOK, Between, InHand,
              EnvInv, EnvTypes, ObsSet

\* A run starts at keyframe s, whatever the pump did before.
LEMMA AnchoredOK ==
  ASSUME EnvInv, NEW p \in PumpSet, NEW s \in Idrs,
         p.token <= obs.token, p.since = None, p.high <= p.sent - p.anchor
  PROVE  PumpOK(Anchored(p, s)) /\ Anchored(p, s).pos = s /\ Anchored(p, s).pc = "top"
<1> DEFINE q == Anchored(p, s)
           beyond == p.high - (p.sent - p.anchor) - 1
<1>1. /\ s \in Seqs /\ s \in Nat /\ ring[s] \in Nat /\ now \in Nat /\ None = -1 /\ s < next
      /\ next \in Nat
  BY IdrsAreTags, ConstantTypes DEF EnvInv, EnvTypes, RingInv
<1>2. p.high \in Int /\ p.sent \in Int /\ p.anchor \in Int
  BY DEF PumpSet
<1>3. beyond <= None /\ beyond \in Int
  BY <1>1, <1>2
<1>4. q = [p EXCEPT !.pos = s, !.anchor = ring[s], !.wall = now, !.sent = ring[s],
               !.high = IF beyond < None THEN None ELSE beyond,
               !.pc = "top", !.mark = None, !.goal = "none", !.heard = 0, !.until = 0, !.ts = 0]
  BY DEF Anchored
<1> HIDE DEF q, beyond
<1>5. q \in PumpSet
  <2>1. PumpRecord(q)
    BY <1>4 DEF PumpSet, PumpRecord
  <2>2. PumpFields(q)
    BY <1>1, <1>3, <1>4 DEF PumpSet, PumpFields, Places, NatOrNone
  <2>3. QED
    BY <2>1, <2>2, PumpTyped
<1>6. /\ q.pos = s /\ q.anchor = ring[s] /\ q.sent = ring[s] /\ q.high = None /\ q.pc = "top"
      /\ q.heard = 0 /\ q.token = p.token /\ q.since = p.since
  BY <1>1, <1>3, <1>4 DEF PumpSet
<1>7. PlaceOK(q)
  BY <1>1, <1>6 DEF PlaceOK, Between, InHand, EnvInv, EnvTypes, ObsSet
<1>8. TimeOK(q)
  <2>1. \A t \in Seqs : t >= s => ring[t] > ring[s] + None
    <3>1. ASSUME NEW t \in Seqs, t >= s PROVE ring[t] >= ring[s]
      <4>1. t \in Nat /\ ring[t] \in Nat
        BY DEF EnvInv, EnvTypes
      <4>2. s < t => ring[s] < ring[t]
        BY <1>1 DEF EnvInv, RingInv
      <4>3. s = t \/ s < t
        BY <1>1, <3>1, <4>1
      <4>4. QED
        BY <1>1, <4>1, <4>2, <4>3
    <3>2. \A t \in Seqs : ring[t] \in Nat
      BY DEF EnvInv, EnvTypes
    <3>3. QED
      BY <1>1, <3>1, <3>2
  <2>2. ring[s] <= Clock /\ Clock \in Int
    BY <1>1 DEF EnvInv, EnvTypes, RingInv, Clock, ObsSet
  <2>3. ring[s] + None < Clock
    BY <1>1, <2>2
  <2>4. QED
    BY <1>1, <1>6, <2>1, <2>2, <2>3 DEF TimeOK, Between, InHand
<1>9. ChainOK(q) /\ AwaitOK(q)
  BY <1>6 DEF ChainOK, AwaitOK, Chained, Between, InHand
<1>10. QED
  BY <1>5, <1>6, <1>7, <1>8, <1>9 DEF PumpOK, q

\* A pump that may start a run.
Ready(p) == /\ p \in PumpSet /\ p.token <= obs.token /\ p.heard <= obs.token
            /\ p.pos <= next \/ p.pos = Nowhere
            /\ p.since = None /\ p.high <= p.sent - p.anchor

LEMMA ReadyAnchors ==
  ASSUME EnvInv, NEW p, Ready(p), NEW s \in Idrs
  PROVE  PumpOK(Anchored(p, s)) /\ Anchored(p, s).pos = s /\ Anchored(p, s).pc = "top"
BY AnchoredOK DEF Ready

\* A pump on the screen whose frames are all before `last`.
Screening(p) == /\ p \in PumpSet /\ p.token <= obs.token /\ p.heard <= obs.token
                /\ p.pos <= next \/ p.pos = Nowhere
                /\ p.pc = "screen" /\ p.high <= p.last

LEMMA RejoinedOK ==
  ASSUME EnvInv, NEW p, Screening(p), NEW from \in Nat
  PROVE  LET r == Rejoined(p, from)
         IN  /\ PumpOK(r)
             /\ r.pos \in {p.pos, Nowhere} \/ (r.pos \in Idrs /\ r.pos >= from)
             /\ r.pc = "top" => r.pos \in Idrs /\ r.pos = RejoinIdr(from)
<1> DEFINE q == [Rebased(p) EXCEPT !.token = IF p.goal = "join" THEN obs.token ELSE @]
           a == [q EXCEPT !.token = obs.token]
           w == [q EXCEPT !.pc = "await", !.mark = Max({from - 1, 0})]
           s == RejoinIdr(from)
<1>1. /\ p \in PumpSet /\ p.token <= obs.token /\ p.heard <= obs.token /\ p.high <= p.last
      /\ obs.token \in Nat /\ None = -1 /\ None \in NatOrNone
  BY ConstantTypes DEF Screening, EnvInv, EnvTypes, ObsSet, NatOrNone
<1>2. q \in PumpSet /\ q.token <= obs.token /\ q.heard = p.heard /\ q.pos = p.pos
      /\ q.since = None /\ q.sent = p.sent /\ q.anchor = p.sent /\ q.high = p.high - p.last
  <2> DEFINE b == Rebased(p)
  <2>1. b = [p EXCEPT !.high = p.high - p.last, !.anchor = p.sent, !.last = 0,
                      !.since = None, !.after = None, !.ref = None]
    BY DEF Rebased
  <2> HIDE DEF b
  <2>2. PumpRecord(b)
    BY <1>1, <2>1 DEF PumpSet, PumpRecord
  <2>3. PumpFields(b)
    BY <1>1, <2>1 DEF PumpSet, PumpFields, Places
  <2>4. b \in PumpSet
    BY <2>2, <2>3, PumpTyped
  <2>5. b.token = p.token /\ b.heard = p.heard /\ b.pos = p.pos /\ b.since = None
        /\ b.sent = p.sent /\ b.anchor = p.sent /\ b.high = p.high - p.last
    BY <1>1, <2>1 DEF PumpSet
  <2> DEFINE t == IF p.goal = "join" THEN obs.token ELSE b.token
  <2>6. q = [b EXCEPT !.token = t]
    BY DEF b
  <2>7. t \in Nat /\ t <= obs.token
    BY <1>1, <2>5 DEF PumpSet
  <2> HIDE DEF t, q
  <2>8. PumpRecord(q)
    BY <2>4, <2>6 DEF PumpSet, PumpRecord
  <2>9. PumpFields(q)
    BY <2>4, <2>6, <2>7 DEF PumpSet, PumpFields
  <2>10. q.token = t /\ q.heard = b.heard /\ q.pos = b.pos /\ q.since = b.since
         /\ q.sent = b.sent /\ q.anchor = b.anchor /\ q.high = b.high
    BY <2>4, <2>6 DEF PumpSet
  <2>11. QED
    BY <2>5, <2>7, <2>8, <2>9, <2>10, PumpTyped
<1> HIDE DEF q
<1>3. q.high <= q.sent - q.anchor
  BY <1>1, <1>2 DEF PumpSet
<1>4. Rejoined(p, from) = IF s # None THEN Anchored(a, s) ELSE IF ~obs.alive THEN Ended ELSE w
  BY DEF Rejoined, q
<1>5. CASE s # None
  <2>0. Rejoined(p, from) = Anchored(a, s)
    BY <1>4, <1>5
  <2>1. s \in Idrs /\ s >= from
    BY <1>5, RejoinIdrIsNew
  <2>2. PumpRecord(a)
    BY <1>2 DEF PumpSet, PumpRecord
  <2>3. PumpFields(a)
    BY <1>1, <1>2 DEF PumpSet, PumpFields
  <2>4. a.token = obs.token /\ a.heard = q.heard /\ a.pos = q.pos /\ a.since = q.since
        /\ a.sent = q.sent /\ a.anchor = q.anchor /\ a.high = q.high
    BY <1>2 DEF PumpSet
  <2> HIDE DEF a
  <2>5. Ready(a)
    BY <1>1, <1>2, <1>3, <2>2, <2>3, <2>4, PumpTyped DEF Ready, Screening
  <2> HIDE DEF s
  <2>6. PumpOK(Anchored(a, s)) /\ Anchored(a, s).pos = s
    BY <2>1, <2>5, ReadyAnchors
  <2>7. QED
    BY <2>0, <2>1, <2>6 DEF s
<1>6. CASE s = None /\ ~obs.alive
  <2>1. Rejoined(p, from) = Ended
    BY <1>4, <1>6
  <2>2. Ended.pos = Nowhere /\ Ended.pc = "off"
    BY DEF Ended, NoPump
  <2>3. QED
    BY <2>1, <2>2, EndedOK
<1>7. CASE s = None /\ obs.alive
  <2>1. \A t \in Idrs : t < from
    BY <1>1, <1>7, RejoinIdrIsNew, IdrsAreTags
  <2>2. Max({from - 1, 0}) = IF from - 1 >= 0 THEN from - 1 ELSE 0
    BY MaxOfTwo
  <2>3. PICK m \in Nat : m = Max({from - 1, 0}) /\ m >= from - 1
    BY <2>2
  <2>w. w = [q EXCEPT !.pc = "await", !.mark = m]
    BY <2>3
  <2> HIDE DEF w
  <2>4. PumpRecord(w)
    BY <1>2, <2>w DEF PumpSet, PumpRecord
  <2>5. PumpFields(w)
    BY <1>1, <1>2, <2>3, <2>w DEF PumpSet, PumpFields, Places, NatOrNone
  <2>6. w.token = q.token /\ w.heard = q.heard /\ w.pos = q.pos /\ w.since = q.since
        /\ w.sent = q.sent /\ w.anchor = q.anchor /\ w.high = q.high
        /\ w.pc = "await" /\ w.mark = m
    BY <1>2, <2>w DEF PumpSet
  <2>7. w \in PumpSet
    BY <2>4, <2>5, PumpTyped
  <2>8. PlaceOK(w) /\ TimeOK(w) /\ ChainOK(w)
    BY <1>1, <1>2, <1>3, <2>6 DEF PlaceOK, TimeOK, ChainOK, Between, InHand, Screening
  <2>9. AwaitOK(w)
    <3>1. \A t \in Idrs : t \in Nat
      BY IdrsAreTags
    <3>2. \A t \in Idrs : t <= m /\ t < m + 1
      BY <2>1, <2>3, <3>1
    <3>3. \A t \in Idrs : ~(t > m)
      BY <3>1, <3>2
    <3>4. m # None
      BY <1>1
    <3>5. QED
      BY <2>6, <3>2, <3>3, <3>4 DEF AwaitOK, Beyond
  <2>10. Rejoined(p, from) = w
    BY <1>4, <1>7 DEF w
  <2>11. QED
    BY <1>2, <2>6, <2>7, <2>8, <2>9, <2>10 DEF PumpOK
<1>8. QED
  BY <1>5, <1>6, <1>7
-----------------------------------------------------------------------------
(* The screen and the waits.                                                *)

\* How late the tags of the buffer are.
LEMMA AgeOf ==
  ASSUME EnvInv, NEW s \in Seqs
  PROVE  /\ Age(s) \in Int /\ Age(s) >= 0
         /\ ring[s] <= LatestTs - target => Age(s) >= target
<1>1. now \in Nat /\ obs.born \in Nat /\ ring[s] \in Nat /\ target \in Nat /\ ring[s] <= Clock
  BY DEF EnvInv, EnvTypes, RingInv, ObsSet
<1>2. LatestTs \in Nat /\ LatestTs <= Clock
  <2>1. Max(Seqs) \in Seqs /\ LatestTs \in Nat
    BY EndsOf
  <2>2. QED
    BY <2>1 DEF EnvInv, RingInv, LatestTs
<1>3. QED
  BY <1>1, <1>2 DEF Age, Clock

\* From a state that is not on the screen, jumps are to keyframes from after a freeze.
Fresh(p, r) == r.pos \in {p.pos, Nowhere} \/ (r.pos \in Idrs /\ r.pos >= fresh)

LEMMA ScreeningOK == ASSUME EnvInv, NEW p, Screening(p) PROVE PumpOK(p)
BY DEF Screening, PumpOK, PlaceOK, TimeOK, ChainOK, AwaitOK, Between, InHand

LEMMA OnScreenOK ==
  ASSUME EnvInv, NEW p, Screening(p)
  PROVE  LET r == OnScreen(p)
         IN  /\ PumpOK(r)
             /\ r.pos \in {p.pos, Nowhere} \/ r.pos \in Idrs
             /\ p.since = None => Fresh(p, r)
             /\ r.pc = "top" /\ (p.since # None => now - p.since < target + Grace) =>
                  Age(r.pos) >= target
<1> DEFINE q     == IF p.since = None THEN [p EXCEPT !.since = now, !.after = hold.after] ELSE p
           first == IF q.after # None THEN q.after + 1 ELSE Oldest(Seqs)
           h     == [p EXCEPT !.since = None, !.after = None]
           r     == OnScreen(p)
<1>1. /\ p \in PumpSet /\ None = -1 /\ now \in Nat /\ target \in Nat /\ fresh \in Nat
      /\ Grace \in Nat /\ hold.after \in NatOrNone
  BY ConstantTypes DEF Screening, EnvInv, EnvTypes, HoldSet
<1>2. /\ Screening(q) /\ q.pos = p.pos /\ q.since \in Nat
      /\ p.since = None => q.since = now /\ q.after = hold.after
      /\ p.since # None => q = p
      /\ q.after \in NatOrNone
  <2>1. CASE p.since = None
    <3>1. q = [p EXCEPT !.since = now, !.after = hold.after]
      BY <2>1
    <3> HIDE DEF q
    <3>2. PumpRecord(q)
      BY <1>1, <3>1 DEF PumpSet, PumpRecord
    <3>3. PumpFields(q)
      BY <1>1, <3>1 DEF PumpSet, PumpFields, NatOrNone
    <3>4. /\ q.token = p.token /\ q.heard = p.heard /\ q.pos = p.pos /\ q.pc = p.pc
          /\ q.high = p.high /\ q.last = p.last /\ q.since = now /\ q.after = hold.after
      BY <1>1, <3>1 DEF PumpSet
    <3>5. QED
      BY <1>1, <2>1, <3>2, <3>3, <3>4, PumpTyped DEF Screening
  <2>2. CASE p.since # None
    BY <1>1, <2>2 DEF PumpSet, NatOrNone
  <2>3. QED
    BY <2>1, <2>2
<1>3. Screening(h) /\ h.pos = p.pos /\ h.pc = "screen"
  <2>0. h = [p EXCEPT !.since = None, !.after = None]
    OBVIOUS
  <2> HIDE DEF h
  <2>1. PumpRecord(h)
    BY <1>1, <2>0 DEF PumpSet, PumpRecord
  <2>2. PumpFields(h)
    BY <1>1, <2>0 DEF PumpSet, PumpFields, NatOrNone
  <2>3. QED
    BY <1>1, <2>0, <2>1, <2>2, PumpTyped DEF Screening, PumpSet
<1>4. r = IF HoldState = "holding" THEN h
          ELSE IF HoldState = "ended" \/ ~obs.alive THEN Ended
          ELSE IF first # None /\ Rebuilt(q, first) THEN Rejoined(q, first)
          ELSE q
  BY DEF OnScreen
<1>5. first \in NatOrNone
  BY <1>1, <1>2, OldestOf DEF NatOrNone
<1>6. p.since = None /\ first # None => first >= fresh
  <2>1. fresh > 0 => hold.after # None /\ fresh <= hold.after + 1
    BY DEF EnvInv, FloorInv
  <2>2. QED
    BY <1>1, <1>2, <1>5, <2>1 DEF NatOrNone
<1> HIDE DEF q, first, h
<1>7. CASE r = h
  BY <1>3, <1>7, ScreeningOK DEF Fresh
<1>8. CASE r = Ended
  BY <1>8, EndedOK DEF Fresh, Ended, NoPump
<1>9. CASE r = q
  <2>1. q.pc = "screen"
    BY <1>2 DEF Screening
  <2>2. QED
    BY <1>2, <1>9, <2>1, ScreeningOK DEF Fresh
<1>10. CASE r = Rejoined(q, first) /\ first # None /\ Rebuilt(q, first)
  <2>1. first \in Nat
    BY <1>5, <1>10 DEF NatOrNone
  <2>2. /\ PumpOK(r)
        /\ r.pos \in {q.pos, Nowhere} \/ (r.pos \in Idrs /\ r.pos >= first)
        /\ r.pc = "top" => r.pos \in Idrs /\ r.pos = RejoinIdr(first)
    BY <1>2, <1>10, <2>1, RejoinedOK
  <2>3. p.since = None => Fresh(p, r)
    <3>1. \A s \in Idrs : s \in Nat
      BY IdrsAreTags
    <3>2. QED
      BY <1>1, <1>2, <1>6, <1>10, <2>1, <2>2, <3>1 DEF Fresh
  <2>4. ASSUME r.pc = "top", p.since # None => now - p.since < target + Grace
        PROVE  Age(r.pos) >= target
    <3>1. r.pos \in Idrs /\ r.pos \in Seqs /\ r.pos = RejoinIdr(first)
      BY <2>2, <2>4, IdrsAreTags
    <3>2. CASE now - q.since >= target + Grace
      <4>1. p.since = None
        BY <1>1, <1>2, <2>4, <3>2
      <4>2. target = 0
        BY <1>1, <1>2, <3>2, <4>1
      <4>3. QED
        BY <3>1, <4>2, AgeOf
    <3>3. CASE ~(now - q.since >= target + Grace)
      <4> DEFINE new == {s \in Idrs : s >= first}
      <4>1. Oldest(new) # None /\ LatestTs - ring[Oldest(new)] >= target
        BY <1>10, <3>3 DEF Rebuilt
      <4>2. new \subseteq Seqs
        BY IdrsAreTags
      <4>3. Oldest(new) \in new
        BY <4>1, <4>2, OldestOf
      <4>4. ring[RejoinIdr(first)] <= LatestTs - target
        BY <2>1, <4>1, <4>3, RejoinIdrIsNew
      <4>5. QED
        BY <3>1, <4>4, AgeOf
    <3>4. QED
      BY <3>2, <3>3
  <2>5. QED
    BY <1>2, <2>2, <2>3, <2>4
<1>11. QED
  BY <1>4, <1>7, <1>8, <1>9, <1>10

\* A pump that starts the screen.
LEMMA PlayScreenOK ==
  ASSUME EnvInv, NEW p, Ready(p), NEW goal \in {"rejoin", "join"}
  PROVE  PumpOK(PlayScreen(p, goal)) /\ Fresh(p, PlayScreen(p, goal))
<1> DEFINE q == [p EXCEPT !.pc = "screen", !.goal = goal, !.wall = now, !.until = now,
                     !.last = p.sent - p.anchor + 1]
<1>1. /\ p \in PumpSet /\ now \in Nat /\ p.sent \in Int /\ p.anchor \in Int /\ p.high \in Int
      /\ p.high <= p.sent - p.anchor
  BY DEF Ready, EnvInv, EnvTypes, PumpSet
<1>2. q = [p EXCEPT !.pc = "screen", !.goal = goal, !.wall = now, !.until = now,
                     !.last = p.sent - p.anchor + 1]
  OBVIOUS
<1>3. PlayScreen(p, goal) = OnScreen(q)
  BY DEF PlayScreen
<1> HIDE DEF q
<1>4. PumpRecord(q)
  BY <1>1, <1>2 DEF PumpSet, PumpRecord
<1>5. PumpFields(q)
  BY <1>1, <1>2 DEF PumpSet, PumpFields, Places
<1>6. /\ q.token = p.token /\ q.heard = p.heard /\ q.pos = p.pos /\ q.pc = "screen"
      /\ q.since = p.since /\ q.high = p.high /\ q.last = p.sent - p.anchor + 1
  BY <1>1, <1>2 DEF PumpSet
<1>7. Screening(q)
  BY <1>1, <1>4, <1>5, <1>6, PumpTyped DEF Ready, Screening
<1>8. PumpOK(OnScreen(q)) /\ Fresh(q, OnScreen(q))
  BY <1>6, <1>7, OnScreenOK DEF Ready
<1>9. QED
  BY <1>3, <1>6, <1>8 DEF Fresh

LEMMA FoundOK ==
  ASSUME EnvInv, NEW p, Ready(p), NEW s \in Idrs, s >= fresh
  PROVE  PumpOK(Found(p, s)) /\ Fresh(p, Found(p, s))
<1> DEFINE j == [p EXCEPT !.token = obs.token]
           q == [p EXCEPT !.token = p.heard]
<1>1. p \in PumpSet /\ obs.token \in Nat /\ p.heard \in Nat /\ p.heard <= obs.token
  BY DEF Ready, EnvInv, EnvTypes, ObsSet, PumpSet
<1>2. Ready(j) /\ j.pos = p.pos
  BY <1>1 DEF Ready, PumpSet
<1>3. Ready(q) /\ q.pos = p.pos
  BY <1>1 DEF Ready, PumpSet
<1>4. Found(p, s) \in {Anchored(j, s), PlayScreen(q, "rejoin"), Anchored(q, s), Anchored(p, s)}
  BY DEF Found
<1> HIDE DEF j, q
<1>5. ASSUME NEW r, Ready(r), r.pos = p.pos
      PROVE  PumpOK(Anchored(r, s)) /\ Fresh(p, Anchored(r, s))
  BY <1>5, ReadyAnchors DEF Fresh
<1>6. PumpOK(PlayScreen(q, "rejoin")) /\ Fresh(p, PlayScreen(q, "rejoin"))
  <2>1. PumpOK(PlayScreen(q, "rejoin")) /\ Fresh(q, PlayScreen(q, "rejoin"))
    BY <1>3, PlayScreenOK
  <2>2. QED
    BY <1>3, <2>1 DEF Fresh
<1>7. QED
  BY <1>2, <1>3, <1>4, <1>5, <1>6

\* A pump that waits for a keyframe, the ones it takes being from after a freeze.
LEMMA AwaitIdrOK ==
  ASSUME EnvInv, NEW p, Ready(p),
         p.mark # None => \A s \in Idrs : s > p.mark => s >= fresh
  PROVE  PumpOK(AwaitIdr(p)) /\ Fresh(p, AwaitIdr(p))
<1> DEFINE s == Newest(Idrs)
           w == [p EXCEPT !.pc = "await"]
<1>1. p \in PumpSet /\ fresh \in Nat /\ None = -1 /\ p.mark \in NatOrNone
  BY ConstantTypes DEF Ready, EnvInv, EnvTypes, PumpSet
<1>2. AwaitIdr(p) = IF s >= Beyond(p) THEN Found(p, s) ELSE IF ~obs.alive THEN Ended ELSE w
  BY DEF AwaitIdr, Beyond
<1>3. \/ Idrs = {} /\ s = None
      \/ s \in Idrs /\ s \in Nat /\ \A t \in Idrs : t <= s
  BY NewestOf, IdrsAreTags
<1>4. Beyond(p) \in Nat
  BY <1>1 DEF Beyond, NatOrNone
<1> HIDE DEF s
<1>5. CASE s >= Beyond(p)
  <2>1. s \in Idrs /\ s \in Nat
    BY <1>1, <1>3, <1>4, <1>5
  <2>2. s >= fresh
    BY <1>1, <1>5, <2>1 DEF Beyond, NatOrNone
  <2>3. QED
    BY <1>2, <1>5, <2>1, <2>2, FoundOK
<1>6. CASE ~(s >= Beyond(p)) /\ ~obs.alive
  BY <1>2, <1>6, EndedOK DEF Fresh, Ended, NoPump
<1>7. CASE ~(s >= Beyond(p)) /\ obs.alive
  <2>1. /\ w \in PumpSet /\ w.token = p.token /\ w.heard = p.heard /\ w.pos = p.pos
        /\ w.since = p.since /\ w.high = p.high /\ w.sent = p.sent /\ w.anchor = p.anchor
        /\ w.mark = p.mark /\ w.pc = "await"
    BY <1>1 DEF PumpSet, Places
  <2>2. \A t \in Idrs : t < Beyond(p)
    <3>1. \A t \in Idrs : t \in Nat
      BY IdrsAreTags
    <3>2. QED
      BY <1>3, <1>4, <1>7, <3>1
  <2> HIDE DEF w
  <2>3. PlaceOK(w) /\ TimeOK(w) /\ ChainOK(w)
    BY <2>1 DEF Ready, PlaceOK, TimeOK, ChainOK, Between, InHand
  <2>4. AwaitOK(w)
    BY <2>1, <2>2 DEF AwaitOK, Beyond
  <2>5. QED
    BY <1>2, <1>7, <2>1, <2>3, <2>4 DEF PumpOK, Fresh
<1>8. QED
  BY <1>5, <1>6, <1>7

LEMMA SeedOK ==
  ASSUME EnvInv, NEW p, Ready(p)
  PROVE  PumpOK(Seed(p)) /\ Fresh(p, Seed(p))
<1> DEFINE a == [p EXCEPT !.mark = None, !.goal = "seed"]
           w == [p EXCEPT !.pc = "seed"]
           s == DelayedIdr(target)
<1>1. p \in PumpSet /\ target \in Nat /\ None \in NatOrNone
  BY DEF Ready, EnvInv, EnvTypes, NatOrNone
<1>2. Seed(p) = IF target = 0 THEN AwaitIdr(a)
                ELSE IF s # None THEN Anchored(p, s) ELSE IF ~obs.alive THEN Ended ELSE w
  BY DEF Seed
<1>3. Ready(a) /\ a.pos = p.pos /\ a.mark = None
  BY <1>1 DEF Ready, PumpSet
<1>4. /\ w \in PumpSet /\ w.token = p.token /\ w.heard = p.heard /\ w.pos = p.pos
      /\ w.since = p.since /\ w.high = p.high /\ w.sent = p.sent /\ w.anchor = p.anchor
      /\ w.pc = "seed"
  BY <1>1 DEF PumpSet, Places
<1> HIDE DEF a, w, s
<1>5. PumpOK(AwaitIdr(a)) /\ Fresh(p, AwaitIdr(a))
  BY <1>3, AwaitIdrOK DEF Fresh
<1>6. s # None => PumpOK(Anchored(p, s)) /\ Fresh(p, Anchored(p, s))
  BY <1>1, DelayedIdrIsFresh, ReadyAnchors DEF s, Fresh
<1>7. PumpOK(Ended) /\ Fresh(p, Ended)
  BY EndedOK DEF Fresh, Ended, NoPump
<1>8. PumpOK(w) /\ Fresh(p, w)
  BY <1>4 DEF Ready, PumpOK, PlaceOK, TimeOK, ChainOK, AwaitOK, Between, InHand, Fresh
<1>9. QED
  BY <1>2, <1>5, <1>6, <1>7, <1>8
-----------------------------------------------------------------------------
(* The head of the loop.                                                    *)

\* From a tag, jumps are ahead or to keyframes from after a freeze.
Onward(p, r) ==
  r.pos \in {p.pos, p.pos + 1, Nowhere} \/ (r.pos \in Idrs /\ (r.pos >= fresh \/ r.pos >= p.pos))

LEMMA FreshIsOnward == ASSUME NEW p, NEW r, Fresh(p, r) PROVE Onward(p, r)
BY DEF Fresh, Onward

\* A cut is to a keyframe, ahead or from after a freeze.
LEMMA DelayCutIsOnward ==
  ASSUME EnvInv, NEW s \in Seqs, DelayCut(s) # None
  PROVE  DelayCut(s) \in Idrs /\ (DelayCut(s) >= fresh \/ DelayCut(s) >= s)
<1>1. s \in Nat /\ target \in Nat /\ None = -1
  BY ConstantTypes DEF EnvInv, EnvTypes
<1>2. CASE target > 0
  <2> DEFINE to == DelayedIdr(target)
  <2>1. DelayedCut(s) = to /\ to # None
    BY <1>2 DEF DelayCut, DelayedCut
  <2>2. QED
    BY <1>1, <1>2, <2>1, DelayedIdrIsFresh DEF DelayCut
<1>3. CASE ~(target > 0)
  <2> DEFINE to == Newest(Idrs)
  <2>1. LiveCut(s) = to /\ to > s
    BY <1>3 DEF DelayCut, LiveCut
  <2>2. to = None \/ (to \in Idrs /\ to \in Nat)
    BY NewestOf, IdrsAreTags
  <2> HIDE DEF to
  <2>3. DelayCut(s) = to
    BY <1>3, <2>1 DEF DelayCut
  <2>4. QED
    BY <1>1, <2>1, <2>2, <2>3
<1>4. QED
  BY <1>2, <1>3

\* A pump between two tags of the present publisher.
Following(p) == PumpOK(p) /\ Between(p) /\ p.token = obs.token

LEMMA FollowingIsReady == ASSUME EnvInv, NEW p, PumpOK(p), Between(p) PROVE Ready(p)
<1>1. p.high <= p.sent - p.anchor /\ p.since = None
  BY DEF PumpOK, TimeOK, PlaceOK, Between
<1>2. QED
  BY <1>1 DEF Ready, PumpOK, PlaceOK

LEMMA TakeOK ==
  ASSUME EnvInv, NEW p, Following(p), p.pos \in Seqs
  PROVE  PumpOK(Take(p)) /\ Onward(p, Take(p))
<1> DEFINE due == target # p.seen \/ ~p.checked
           q   == IF due THEN [p EXCEPT !.checked = TRUE, !.seen = target] ELSE p
           to  == DelayCut(p.pos)
           r   == [q EXCEPT !.pc = "pace", !.ts = ring[p.pos], !.until = 0]
<1>1. /\ p \in PumpSet /\ target \in Nat /\ Ready(p) /\ None = -1
      /\ p.pos \in Nat /\ ring[p.pos] \in Nat /\ p.high \in Int /\ p.anchor \in Int
      /\ PumpOK(p) /\ Between(p) /\ p.token = obs.token
  BY FollowingIsReady, ConstantTypes DEF Following, EnvInv, EnvTypes, PumpOK, PumpSet
<1>2. Take(p) = IF due /\ to # None THEN Anchored(q, to)
                ELSE IF ring[p.pos] < p.anchor THEN [q EXCEPT !.pos = @ + 1, !.pc = "top"]
                ELSE r
  BY DEF Take
<1>3. ring[p.pos] > p.anchor + p.high /\ p.high >= None
  BY <1>1 DEF PumpOK, TimeOK
<1>4. ~(ring[p.pos] < p.anchor)
  BY <1>1, <1>3
<1>5. /\ q \in PumpSet /\ q.token = p.token /\ q.heard = p.heard /\ q.pos = p.pos
      /\ q.since = p.since /\ q.high = p.high /\ q.sent = p.sent /\ q.anchor = p.anchor
      /\ q.ref = p.ref
  BY <1>1 DEF PumpSet
<1> HIDE DEF q
<1>6. CASE due /\ to # None
  <2>1. Ready(q)
    BY <1>1, <1>5 DEF Ready
  <2>2. to \in Idrs /\ (to >= fresh \/ to >= p.pos)
    BY <1>6, DelayCutIsOnward
  <2>3. Take(p) = Anchored(q, to)
    BY <1>2, <1>6
  <2> HIDE DEF to
  <2>4. QED
    BY <2>1, <2>2, <2>3, ReadyAnchors DEF Onward
<1>7. CASE ~(due /\ to # None)
  <2>1. Take(p) = r
    BY <1>2, <1>4, <1>7
  <2>2. /\ r \in PumpSet /\ r.token = p.token /\ r.heard = p.heard /\ r.pos = p.pos
        /\ r.since = p.since /\ r.high = p.high /\ r.sent = p.sent /\ r.anchor = p.anchor
        /\ r.ref = p.ref /\ r.pc = "pace" /\ r.ts = ring[p.pos]
    <3>1. r = [q EXCEPT !.pc = "pace", !.ts = ring[p.pos], !.until = 0]
      OBVIOUS
    <3> HIDE DEF r
    <3>2. PumpRecord(r)
      BY <1>5, <3>1 DEF PumpSet, PumpRecord
    <3>3. PumpFields(r)
      BY <1>1, <1>5, <3>1 DEF PumpSet, PumpFields, Places
    <3>4. /\ r.token = q.token /\ r.heard = q.heard /\ r.pos = q.pos
          /\ r.since = q.since /\ r.high = q.high /\ r.sent = q.sent /\ r.anchor = q.anchor
          /\ r.ref = q.ref /\ r.pc = "pace" /\ r.ts = ring[p.pos]
      BY <1>5, <3>1 DEF PumpSet
    <3>5. QED
      BY <1>5, <3>2, <3>3, <3>4, PumpTyped
  <2> HIDE DEF r
  <2>3. PlaceOK(r)
    BY <1>1, <2>2 DEF PumpOK, PlaceOK, Between, InHand, EnvInv, RingInv
  <2>4. TimeOK(r)
    <3>1. \A s \in Seqs : s > p.pos => ring[s] > ring[p.pos]
      BY <1>1 DEF EnvInv, EnvTypes, RingInv
    <3>2. ring[p.pos] <= Clock /\ (~obs.sentNow => ring[p.pos] < Clock)
      BY DEF EnvInv, RingInv
    <3>3. p.high <= p.sent - p.anchor
      BY <1>1 DEF Ready
    <3>4. p.high < ring[p.pos] - p.anchor
      BY <1>1, <1>3
    <3>5. QED
      BY <1>3, <2>2, <3>1, <3>2, <3>3, <3>4 DEF TimeOK, Between, InHand
  <2>5. ChainOK(r) /\ AwaitOK(r)
    <3>1. Chained(p)
      BY <1>1 DEF PumpOK, ChainOK
    <3>2. Chained(r)
      BY <2>2, <3>1 DEF Chained
    <3>3. QED
      BY <2>2, <3>2 DEF ChainOK, AwaitOK, Between
  <2>6. QED
    BY <2>1, <2>2, <2>3, <2>4, <2>5 DEF PumpOK, Onward
<1>8. QED
  BY <1>6, <1>7

\* What a pump between two tags looks at can change, and what the loop counts with.
LEMMA FlagsOK ==
  ASSUME EnvInv, NEW p, PumpOK(p), Between(p), NEW q \in PumpSet, q.pc \in {"top", "wait"},
         q.token = p.token, q.heard = p.heard, q.pos = p.pos, q.since = p.since,
         q.high = p.high, q.sent = p.sent, q.anchor = p.anchor, q.ref = p.ref
  PROVE  PumpOK(q) /\ Between(q)
<1>1. PlaceOK(q)
  BY DEF PumpOK, PlaceOK, Between, InHand
<1>2. TimeOK(q)
  BY DEF PumpOK, TimeOK, Between, InHand
<1>3. ChainOK(q) /\ AwaitOK(q)
  BY DEF PumpOK, ChainOK, AwaitOK, Chained, Between
<1>4. QED
  BY <1>1, <1>2, <1>3 DEF PumpOK, Between

LEMMA FollowOK ==
  ASSUME EnvInv, NEW p, Following(p)
  PROVE  PumpOK(Follow(p)) /\ Onward(p, Follow(p))
<1> DEFINE w == [p EXCEPT !.pc = "wait", !.until = now + 1]
<1>1. /\ p \in PumpSet /\ now \in Nat /\ Ready(p) /\ PumpOK(p) /\ Between(p) /\ p.pos \in Nat
  BY FollowingIsReady DEF Following, EnvInv, EnvTypes, PumpOK, PumpSet
<1>2. CASE Seqs # {} /\ p.pos < Min(Seqs) /\ Idrs # {}
  <2>1. Follow(p) = Anchored(p, Min(Idrs))
    BY <1>2 DEF Follow
  <2>2. Min(Idrs) \in Idrs /\ Min(Idrs) \in Seqs /\ Min(Idrs) \in Nat
    <3>1. Idrs \subseteq Nat /\ Idrs \subseteq Seqs
      BY IdrsAreTags
    <3>2. Min(Idrs) \in Idrs
      BY <1>2, <3>1, MinIsLeast
    <3>3. QED
      BY <3>1, <3>2
  <2>3. Min(Seqs) <= Min(Idrs) /\ Min(Seqs) \in Nat
    BY <1>2, <2>2, EndsOf, IdrsAreTags
  <2>4. Min(Idrs) >= p.pos
    BY <1>1, <1>2, <2>2, <2>3
  <2>5. QED
    BY <1>1, <2>1, <2>2, <2>4, ReadyAnchors DEF Onward
<1>3. CASE ~(Seqs # {} /\ p.pos < Min(Seqs) /\ Idrs # {}) /\ p.pos \in Seqs
  BY <1>3, TakeOK DEF Follow
<1>4. CASE ~(Seqs # {} /\ p.pos < Min(Seqs) /\ Idrs # {}) /\ p.pos \notin Seqs
  <2>1. Follow(p) = w
    BY <1>4 DEF Follow
  <2>2. /\ w \in PumpSet /\ w.token = p.token /\ w.heard = p.heard /\ w.pos = p.pos
        /\ w.since = p.since /\ w.high = p.high /\ w.sent = p.sent /\ w.anchor = p.anchor
        /\ w.ref = p.ref /\ w.pc = "wait"
    <3>1. w = [p EXCEPT !.pc = "wait", !.until = now + 1] /\ now + 1 \in Nat
      BY <1>1
    <3> HIDE DEF w
    <3>2. PumpRecord(w)
      BY <1>1, <3>1 DEF PumpSet, PumpRecord
    <3>3. PumpFields(w)
      BY <1>1, <3>1 DEF PumpSet, PumpFields, Places
    <3>4. /\ w.token = p.token /\ w.heard = p.heard /\ w.pos = p.pos
          /\ w.since = p.since /\ w.high = p.high /\ w.sent = p.sent /\ w.anchor = p.anchor
          /\ w.ref = p.ref /\ w.pc = "wait"
      BY <1>1, <3>1 DEF PumpSet
    <3>5. QED
      BY <3>2, <3>3, <3>4, PumpTyped
  <2> HIDE DEF w
  <2>3. PumpOK(w)
    BY <1>1, <2>2, FlagsOK
  <2>4. QED
    BY <2>1, <2>2, <2>3 DEF Onward
<1>5. QED
  BY <1>2, <1>3, <1>4

LEMMA ReanchorOK ==
  ASSUME EnvInv, NEW p, Ready(p)
  PROVE  PumpOK(Reanchor(p)) /\ Fresh(p, Reanchor(p))
<1> DEFINE m == IF LatestSeq = None THEN 0 ELSE LatestSeq
           q == [p EXCEPT !.heard = obs.token, !.goal = "reanchor", !.mark = m]
<1>1. p \in PumpSet /\ obs.token \in Nat /\ None = -1
  BY ConstantTypes DEF Ready, EnvInv, EnvTypes, ObsSet
<1>2. m \in Nat /\ \A s \in Idrs : ~(s > m)
  <2>1. \/ Seqs = {} /\ LatestSeq = None
        \/ LatestSeq \in Seqs /\ LatestSeq \in Nat /\ \A s \in Seqs : s <= LatestSeq
    BY NewestOf DEF LatestSeq
  <2>2. Idrs \subseteq Seqs /\ Idrs \subseteq Nat
    BY IdrsAreTags
  <2>3. QED
    BY <1>1, <2>1, <2>2
<1>3. Reanchor(p) = AwaitIdr(q)
  BY DEF Reanchor
<1> HIDE DEF m
<1>4. Ready(q) /\ q.pos = p.pos /\ q.mark = m
  <2>0. q = [p EXCEPT !.heard = obs.token, !.goal = "reanchor", !.mark = m]
    OBVIOUS
  <2> HIDE DEF q
  <2>1. PumpRecord(q)
    BY <1>1, <2>0 DEF PumpSet, PumpRecord
  <2>2. PumpFields(q)
    BY <1>1, <1>2, <2>0 DEF PumpSet, PumpFields, NatOrNone
  <2>3. /\ q.token = p.token /\ q.heard = obs.token /\ q.pos = p.pos /\ q.since = p.since
        /\ q.high = p.high /\ q.sent = p.sent /\ q.anchor = p.anchor /\ q.mark = m
    BY <1>1, <2>0 DEF PumpSet
  <2>4. QED
    BY <1>1, <2>1, <2>2, <2>3, PumpTyped DEF Ready
<1> HIDE DEF q
<1>5. PumpOK(AwaitIdr(q)) /\ Fresh(q, AwaitIdr(q))
  BY <1>2, <1>4, AwaitIdrOK
<1>6. QED
  BY <1>3, <1>4, <1>5 DEF Fresh

LEMMA TurnOK ==
  ASSUME EnvInv, NEW p, PumpOK(p), p.pc = "top"
  PROVE  PumpOK(Turn(p)) /\ Onward(p, Turn(p))
<1> DEFINE gone == ObsGone \/ HoldActive
           q    == IF gone /\ ~HoldActive THEN [p EXCEPT !.tailing = TRUE] ELSE p
<1>1. p \in PumpSet /\ Between(p) /\ Ready(p)
  BY FollowingIsReady DEF PumpOK, Between
<1>2. /\ q \in PumpSet /\ q.pc = "top" /\ q.token = p.token /\ q.heard = p.heard
      /\ q.pos = p.pos /\ q.since = p.since /\ q.high = p.high /\ q.sent = p.sent
      /\ q.anchor = p.anchor /\ q.ref = p.ref
  BY <1>1 DEF PumpSet
<1>3. Turn(p) \in {Ended, PlayScreen(p, "rejoin"), Reanchor(q)}
      \/ (Turn(p) = Follow(q) /\ q.token = obs.token)
  BY DEF Turn
<1> HIDE DEF q
<1>4. PumpOK(q) /\ Between(q) /\ Ready(q)
  BY <1>1, <1>2, FlagsOK, FollowingIsReady
<1>5. PumpOK(Ended) /\ Onward(p, Ended)
  BY EndedOK DEF Onward, Ended, NoPump
<1>6. PumpOK(PlayScreen(p, "rejoin")) /\ Onward(p, PlayScreen(p, "rejoin"))
  BY <1>1, PlayScreenOK, FreshIsOnward
<1>7. PumpOK(Reanchor(q)) /\ Onward(p, Reanchor(q))
  BY <1>2, <1>4, ReanchorOK DEF Fresh, Onward
<1>8. q.token = obs.token => PumpOK(Follow(q)) /\ Onward(p, Follow(q))
  BY <1>2, <1>4, FollowOK DEF Following, Onward
<1>9. QED
  BY <1>3, <1>5, <1>6, <1>7, <1>8
-----------------------------------------------------------------------------
(* The pump's steps.                                                        *)

\* What a step of the pump to q does: it keeps to the invariant, jumps to keyframes
\* only, none of them from before a freeze unless it was on the screen, and leaves
\* the screen as late as asked or when the wait has run out.
StepOK(q) ==
  /\ PumpOK(q)
  /\ q.pos \in {pump.pos, pump.pos + 1, Nowhere} \/ q.pos \in Idrs
  /\ pump.pc # "screen" => Onward(pump, q)
  /\ /\ pump.pc = "screen" /\ q.pc = "top"
     /\ pump.since # None => now - pump.since < target + Grace
     => Age(q.pos) >= target

LEMMA OnwardStep ==
  ASSUME NEW q, PumpOK(q), Onward(pump, q), pump.pc # "screen" PROVE StepOK(q)
BY DEF StepOK, Onward

LEMMA EndedStep == ASSUME EnvInv, pump.pc # "off" PROVE StepOK(Ended)
BY EndedOK DEF StepOK, Onward, Ended, NoPump

LEMMA ConnectedStep == ASSUME IInv, Connected PROVE StepOK(pump')
<1> DEFINE p == [NoPump EXCEPT !.token = obs.token]
<1>1. EnvInv /\ obs.token \in Nat /\ None = -1 /\ pump.pc = "dial"
  BY ConstantTypes DEF IInv, EnvInv, EnvTypes, ObsSet, Connected
<1>2. Ready(p) /\ p.pos = Nowhere
  <2>1. NoPump \in PumpSet
    BY <1>1, EndedOK DEF Ended, PumpOK
  <2>2. NoPump.heard = 0 /\ NoPump.pos = Nowhere /\ NoPump.since = None /\ NoPump.high = None
        /\ NoPump.sent = 0 /\ NoPump.anchor = 0
    BY DEF NoPump
  <2>3. /\ p \in PumpSet /\ p.token = obs.token /\ p.heard = NoPump.heard /\ p.pos = NoPump.pos
        /\ p.since = NoPump.since /\ p.high = NoPump.high /\ p.sent = NoPump.sent
        /\ p.anchor = NoPump.anchor
    BY <1>1, <2>1 DEF PumpSet
  <2>4. QED
    BY <1>1, <2>2, <2>3 DEF Ready
<1>3. pump' = (IF HoldActive THEN PlayScreen(p, "join") ELSE Seed(p))
  BY DEF Connected, Steps, Goes
<1> HIDE DEF p
<1>4. PumpOK(pump') /\ Fresh(p, pump')
  BY <1>1, <1>2, <1>3, PlayScreenOK, SeedOK
<1>5. Onward(pump, pump')
  BY <1>2, <1>4 DEF Fresh, Onward
<1>6. QED
  BY <1>1, <1>4, <1>5, OnwardStep

LEMMA WakeStep == ASSUME IInv, Wake PROVE StepOK(pump')
<1> DEFINE q == [pump EXCEPT !.pc = "top", !.until = 0]
<1>1. EnvInv /\ pump \in PumpSet /\ PumpOK(pump) /\ pump.pc = "wait" /\ Between(pump)
  BY DEF IInv, PumpOK, Wake, Between
<1>2. PumpOK(q) /\ q.pos = pump.pos
  <2>1. /\ q \in PumpSet /\ q.pc = "top" /\ q.token = pump.token /\ q.heard = pump.heard
        /\ q.pos = pump.pos /\ q.since = pump.since /\ q.high = pump.high /\ q.sent = pump.sent
        /\ q.anchor = pump.anchor /\ q.ref = pump.ref
    BY <1>1 DEF PumpSet, Places
  <2> HIDE DEF q
  <2>2. QED
    BY <1>1, <2>1, FlagsOK
<1>3. \/ pump' = Take(pump) /\ pump.pos \in Seqs /\ pump.token = obs.token
      \/ pump' = q
  BY DEF Wake, Steps, Goes
<1> HIDE DEF q
<1>4. PumpOK(pump') /\ Onward(pump, pump')
  BY <1>1, <1>2, <1>3, TakeOK DEF Following, Onward
<1>5. QED
  BY <1>1, <1>4, OnwardStep

LEMMA AirStep == ASSUME IInv, Air PROVE StepOK(pump')
<1> DEFINE s == [pump EXCEPT !.pc = "send", !.high = Max({@, OutTs}), !.ref = pump.pos]
           t == [pump EXCEPT !.pc = "top", !.pos = @ + 1, !.ts = 0]
<1>1. /\ EnvInv /\ pump \in PumpSet /\ pump.pc = "pace" /\ PlaceOK(pump) /\ TimeOK(pump)
      /\ ChainOK(pump) /\ None = -1
  BY ConstantTypes DEF IInv, PumpOK, Air
<1>2. /\ pump.high \in Int /\ pump.ts \in Nat /\ pump.anchor \in Int /\ pump.pos \in Nat
      /\ OutTs \in Int /\ pump.high < OutTs /\ OutTs = pump.ts - pump.anchor
  BY <1>1 DEF PumpSet, OutTs, TimeOK
<1>3. Max({pump.high, OutTs}) = OutTs
  BY <1>2, MaxOfTwo
<1>4. /\ next \in Nat /\ obs.token \in Nat /\ \A k \in Seqs : ring[k] \in Nat /\ k \in Nat
      /\ Clock \in Int
  BY <1>1 DEF EnvInv, EnvTypes, ObsSet, Clock
<1>5. CASE pump.pos \in Seqs
  <2>1. pump' = s
    BY <1>5 DEF Air, Steps, Goes
  <2>2. s = [pump EXCEPT !.pc = "send", !.high = OutTs, !.ref = pump.pos]
    BY <1>1, <1>3 DEF PumpSet
  <2> HIDE DEF s
  <2>3. /\ s \in PumpSet /\ s.token = pump.token /\ s.heard = pump.heard /\ s.pos = pump.pos
        /\ s.since = pump.since /\ s.high = OutTs /\ s.sent = pump.sent /\ s.ts = pump.ts
        /\ s.anchor = pump.anchor /\ s.ref = pump.pos /\ s.pc = "send"
    BY <1>1, <1>2, <2>2 DEF PumpSet, Places, NatOrNone
  <2>4. PlaceOK(s)
    BY <1>1, <2>3 DEF PlaceOK, Between, InHand
  <2>5. TimeOK(s)
    BY <1>1, <1>2, <2>3 DEF TimeOK, Between, InHand
  <2>6. ChainOK(s) /\ AwaitOK(s)
    BY <1>1, <2>3 DEF ChainOK, AwaitOK, Between
  <2>7. QED
    BY <1>1, <2>1, <2>3, <2>4, <2>5, <2>6, OnwardStep DEF PumpOK, Onward
<1>6. CASE pump.pos \notin Seqs
  <2>1. pump' = t
    BY <1>6 DEF Air, Steps, Goes
  <2>2. t = [pump EXCEPT !.pc = "top", !.pos = pump.pos + 1, !.ts = 0]
    BY <1>1 DEF PumpSet
  <2> HIDE DEF t
  <2>3. /\ t \in PumpSet /\ t.token = pump.token /\ t.heard = pump.heard /\ t.pos = pump.pos + 1
        /\ t.since = pump.since /\ t.high = pump.high /\ t.sent = pump.sent
        /\ t.anchor = pump.anchor /\ t.ref = pump.ref /\ t.pc = "top"
    <3>1. PumpRecord(t)
      BY <1>1, <2>2 DEF PumpSet, PumpRecord
    <3>2. PumpFields(t)
      BY <1>1, <1>2, <2>2 DEF PumpSet, PumpFields, Places
    <3>3. /\ t.token = pump.token /\ t.heard = pump.heard /\ t.pos = pump.pos + 1
          /\ t.since = pump.since /\ t.high = pump.high /\ t.sent = pump.sent
          /\ t.anchor = pump.anchor /\ t.ref = pump.ref /\ t.pc = "top"
      BY <1>1, <2>2 DEF PumpSet
    <3>4. QED
      BY <3>1, <3>2, <3>3, PumpTyped
  <2>4. PlaceOK(t)
    BY <1>1, <1>2, <1>4, <2>3 DEF PlaceOK, Between, InHand
  <2>5. TimeOK(t)
    <3>1. pump.high <= pump.sent - pump.anchor /\ pump.high >= None
      BY <1>1 DEF TimeOK, InHand
    <3>2. pump.anchor + pump.high < pump.ts
      BY <1>2
    <3>3. ASSUME pump.token = obs.token
          PROVE  /\ \A k \in Seqs : k >= pump.pos + 1 => ring[k] > pump.anchor + pump.high
                 /\ pump.anchor + pump.high <= Clock
                 /\ ~obs.sentNow => pump.anchor + pump.high < Clock
      <4>1. /\ \A k \in Seqs : k > pump.pos => ring[k] > pump.ts
            /\ pump.ts <= Clock /\ (~obs.sentNow => pump.ts < Clock)
        BY <1>1, <3>3 DEF TimeOK, InHand
      <4>2. QED
        BY <1>2, <1>4, <3>2, <4>1
    <3>4. QED
      BY <2>3, <3>1, <3>3 DEF TimeOK, Between, InHand
  <2>6. ChainOK(t) /\ AwaitOK(t)
    <3>1. pump.token = obs.token => Behind(pump.pos)
      BY <1>1, <1>6 DEF ChainOK
    <3>2. t.pos - 1 = pump.pos
      BY <1>2, <2>3
    <3>3. QED
      BY <2>3, <3>1, <3>2 DEF ChainOK, AwaitOK, Chained, Between
  <2>7. QED
    BY <1>1, <2>1, <2>3, <2>4, <2>5, <2>6, OnwardStep DEF PumpOK, Onward
<1>7. QED
  BY <1>5, <1>6

LEMMA SentStep == ASSUME IInv, Sent PROVE StepOK(pump')
<1> DEFINE m == Max({pump.sent, pump.ts})
           t == [pump EXCEPT !.pc = "top", !.pos = pump.pos + 1, !.sent = m, !.ts = 0]
<1>1. /\ EnvInv /\ pump \in PumpSet /\ pump.pc = "send" /\ PlaceOK(pump) /\ TimeOK(pump)
      /\ ChainOK(pump) /\ None = -1
  BY ConstantTypes DEF IInv, PumpOK, Sent
<1>2. /\ pump.high \in Int /\ pump.ts \in Nat /\ pump.anchor \in Int /\ pump.pos \in Nat
      /\ pump.sent \in Int /\ pump.high = pump.ts - pump.anchor /\ pump.high >= None
  BY <1>1 DEF PumpSet, TimeOK, InHand
<1>3. m \in Int /\ m >= pump.ts
  BY <1>2, MaxOfTwo
<1>4. /\ next \in Nat /\ obs.token \in Nat /\ \A k \in Seqs : ring[k] \in Nat /\ k \in Nat
      /\ Clock \in Int
  BY <1>1 DEF EnvInv, EnvTypes, ObsSet, Clock
<1>5. pump' = t
  BY <1>1 DEF Sent, Steps, Goes, PumpSet
<1> HIDE DEF m
<1>6. /\ t \in PumpSet /\ t.token = pump.token /\ t.heard = pump.heard /\ t.pos = pump.pos + 1
      /\ t.since = pump.since /\ t.high = pump.high /\ t.sent = m /\ t.anchor = pump.anchor
      /\ t.ref = pump.ref /\ t.pc = "top"
  <2>0. t = [pump EXCEPT !.pc = "top", !.pos = pump.pos + 1, !.sent = m, !.ts = 0]
    OBVIOUS
  <2> HIDE DEF t
  <2>1. PumpRecord(t)
    BY <1>1, <2>0 DEF PumpSet, PumpRecord
  <2>2. PumpFields(t)
    BY <1>1, <1>2, <1>3, <2>0 DEF PumpSet, PumpFields, Places
  <2>3. /\ t.token = pump.token /\ t.heard = pump.heard /\ t.pos = pump.pos + 1
        /\ t.since = pump.since /\ t.high = pump.high /\ t.sent = m /\ t.anchor = pump.anchor
        /\ t.ref = pump.ref /\ t.pc = "top"
    BY <1>1, <2>0 DEF PumpSet
  <2>4. QED
    BY <2>1, <2>2, <2>3, PumpTyped
<1> HIDE DEF t
<1>7. PlaceOK(t)
  BY <1>1, <1>2, <1>4, <1>6 DEF PlaceOK, Between, InHand
<1>8. TimeOK(t)
  <2>1. pump.high <= m - pump.anchor /\ pump.anchor + pump.high = pump.ts
    BY <1>2, <1>3
  <2>2. ASSUME pump.token = obs.token
        PROVE  /\ \A k \in Seqs : k >= pump.pos + 1 => ring[k] > pump.ts
               /\ pump.ts <= Clock /\ (~obs.sentNow => pump.ts < Clock)
    BY <1>1, <1>2, <1>4, <2>2 DEF TimeOK, InHand
  <2>3. QED
    BY <1>2, <1>6, <2>1, <2>2 DEF TimeOK, Between, InHand
<1>9. ChainOK(t) /\ AwaitOK(t)
  <2>1. pump.ref = pump.pos /\ t.pos - 1 = pump.pos
    BY <1>1, <1>2, <1>6 DEF ChainOK
  <2>2. QED
    BY <1>6, <2>1 DEF ChainOK, AwaitOK, Chained, Between
<1>10. QED
  BY <1>1, <1>5, <1>6, <1>7, <1>8, <1>9, OnwardStep DEF PumpOK, Onward

LEMMA ScreenStep ==
  ASSUME IInv, pump.pc = "screen", NEW p, Screening(p), p.pos = pump.pos, p.since = pump.since
  PROVE  StepOK(OnScreen(p))
BY OnScreenOK DEF StepOK, IInv

LEMMA FrameStep == ASSUME IInv, Frame \/ Look PROVE StepOK(pump')
<1> DEFINE ts == pump.sent - pump.anchor + 1 + (pump.until - pump.wall)
           p  == [pump EXCEPT !.last = ts, !.high = ts, !.until = pump.until + 1]
<1>1. /\ EnvInv /\ pump \in PumpSet /\ pump.pc = "screen" /\ PlaceOK(pump) /\ TimeOK(pump)
      /\ next \in Nat /\ obs.token \in Nat
  BY DEF IInv, PumpOK, Frame, Look, EnvInv, EnvTypes, ObsSet
<1>2. Screening(pump)
  BY <1>1 DEF Screening, PlaceOK, TimeOK
<1>3. ts \in Int
  BY <1>1 DEF PumpSet
<1>4. pump' = OnScreen(pump) \/ pump' = OnScreen(p)
  BY <1>1 DEF Frame, Look, Steps, Goes, PumpSet
<1> HIDE DEF ts
<1>5. Screening(p) /\ p.pos = pump.pos /\ p.since = pump.since
  <2>0. p = [pump EXCEPT !.last = ts, !.high = ts, !.until = pump.until + 1]
    OBVIOUS
  <2> HIDE DEF p
  <2>1. PumpRecord(p)
    BY <1>1, <2>0 DEF PumpSet, PumpRecord
  <2>2. PumpFields(p)
    BY <1>1, <1>3, <2>0 DEF PumpSet, PumpFields
  <2>3. /\ p.token = pump.token /\ p.heard = pump.heard /\ p.pos = pump.pos /\ p.pc = pump.pc
        /\ p.since = pump.since /\ p.high = ts /\ p.last = ts
    BY <1>1, <2>0 DEF PumpSet
  <2>4. QED
    BY <1>2, <1>3, <2>1, <2>2, <2>3, PumpTyped DEF Screening
<1> HIDE DEF p
<1>6. StepOK(OnScreen(pump)) /\ StepOK(OnScreen(p))
  BY <1>1, <1>2, <1>5, ScreenStep
<1>7. QED
  BY <1>4, <1>6

LEMMA DialStep == ASSUME IInv, Dial PROVE StepOK(pump')
<1> DEFINE q == [pump EXCEPT !.pc = "dial"]
<1>1. EnvInv /\ pump \in PumpSet /\ pump.pc = "off" /\ PlaceOK(pump) /\ pump' = q
  BY DEF IInv, PumpOK, Dial, Steps, Goes
<1>2. /\ q \in PumpSet /\ q.token = pump.token /\ q.heard = pump.heard /\ q.pos = pump.pos
      /\ q.since = pump.since /\ q.pc = "dial"
  BY <1>1 DEF PumpSet, Places
<1> HIDE DEF q
<1>3. PumpOK(q)
  BY <1>1, <1>2 DEF PumpOK, PlaceOK, TimeOK, ChainOK, AwaitOK, Between, InHand
<1>4. QED
  BY <1>1, <1>2, <1>3, OnwardStep DEF Onward

LEMMA PumpStep == ASSUME IInv, Pump PROVE StepOK(pump') /\ UNCHANGED <<now, env>>
<1>1. EnvInv /\ PumpOK(pump)
  BY DEF IInv
<1>2. CASE PlatformDrops
  BY <1>1, <1>2, EndedStep DEF PlatformDrops, Goes
<1>3. CASE Loop
  BY <1>1, <1>3, TurnOK, OnwardStep DEF Loop, Steps, Goes
<1>4. CASE Seeds
  <2>1. pump' = Seed(pump) /\ pump.pc = "seed" /\ UNCHANGED <<now, env>>
    BY <1>4 DEF Seeds, Steps, Goes
  <2>2. Ready(pump)
    BY <1>1, <2>1 DEF PumpOK, PlaceOK, TimeOK, Ready
  <2>3. QED
    BY <1>1, <2>1, <2>2, SeedOK, FreshIsOnward, OnwardStep
<1>5. CASE Awaits
  <2>1. pump' = AwaitIdr(pump) /\ pump.pc = "await" /\ UNCHANGED <<now, env>>
    BY <1>5 DEF Awaits, Steps, Goes
  <2>2. Ready(pump) /\ (pump.mark # None => \A s \in Idrs : s > pump.mark => s >= fresh)
    BY <1>1, <2>1 DEF PumpOK, PlaceOK, TimeOK, AwaitOK, Ready
  <2>3. QED
    BY <1>1, <2>1, <2>2, AwaitIdrOK, FreshIsOnward, OnwardStep
<1>6. CASE Dial
  BY <1>6, DialStep DEF Dial, Steps, Goes
<1>7. CASE Connected
  BY <1>7, ConnectedStep DEF Connected, Steps, Goes
<1>8. CASE Wake
  BY <1>8, WakeStep DEF Wake, Steps, Goes
<1>9. CASE Air
  BY <1>9, AirStep DEF Air, Steps, Goes
<1>10. CASE Sent
  BY <1>10, SentStep DEF Sent, Steps, Goes
<1>11. CASE Frame \/ Look
  BY <1>11, FrameStep DEF Frame, Look, Steps, Goes
<1>12. QED
  BY <1>2, <1>3, <1>4, <1>5, <1>6, <1>7, <1>8, <1>9, <1>10, <1>11 DEF Pump

\* What a step that leaves the buffer, OBS and the hold alone keeps.
LEMMA EnvStays == ASSUME EnvInv, UNCHANGED <<now, env>> PROVE EnvInv'
BY DEF env, EnvInv, EnvTypes, RingInv, FloorInv, BoundsInv, Clock, Seqs

LEMMA PumpStays ==
  ASSUME UNCHANGED <<now, env>>, PumpOK(pump') PROVE PumpOK(pump)'
<1>1. Seqs' = Seqs /\ Idrs' = Idrs /\ Clock' = Clock
  BY DEF env, Seqs, Idrs, Clock
<1>2. PlaceOK(pump)' /\ TimeOK(pump)'
  BY <1>1 DEF env, PumpOK, PlaceOK, TimeOK, Between, InHand
<1>3. ChainOK(pump)' /\ AwaitOK(pump)'
  BY <1>1 DEF env, PumpOK, ChainOK, AwaitOK, Chained, Behind, Beyond, Between
<1>4. QED
  BY <1>2, <1>3 DEF PumpOK
-----------------------------------------------------------------------------
(* The steps of OBS, the supervisor and the streamer.                       *)

\* Steps that leave the buffer and the clock alone keep the invariant.
LEMMA CalmStep ==
  ASSUME IInv, UNCHANGED <<now, ring, next, fresh, pump>>,
         obs' \in ObsSet, obs'.token = obs.token, obs'.start = obs.start, obs'.born = obs.born,
         obs'.sentNow = obs.sentNow, obs'.alive => obs.alive,
         hold' \in HoldSet, hold'.after = hold.after, target' \in Nat
  PROVE  IInv'
<1>1. Seqs' = Seqs /\ Idrs' = Idrs /\ Clock' = Clock
  BY DEF Seqs, Idrs, Clock
<1>2. EnvInv'
  BY <1>1 DEF IInv, EnvInv, EnvTypes, RingInv, FloorInv, BoundsInv
<1>3. PlaceOK(pump)' /\ TimeOK(pump)'
  BY <1>1 DEF IInv, PumpOK, PlaceOK, TimeOK, Between, InHand
<1>4. ChainOK(pump)' /\ AwaitOK(pump)'
  BY <1>1 DEF IInv, PumpOK, ChainOK, AwaitOK, Chained, Behind, Beyond, Between
<1>5. QED
  BY <1>2, <1>3, <1>4 DEF IInv, PumpOK

\* A member of HoldSet, field by field.
HoldRecord(h) == h = [open |-> h.open, ends |-> h.ends, lastEnd |-> h.lastEnd, tail |-> h.tail,
                      tailEnd |-> h.tailEnd, after |-> h.after]
HoldFields(h) == /\ h.open \in BOOLEAN /\ h.ends \in Nat /\ h.tail \in BOOLEAN
                 /\ h.lastEnd \in {"none", "ended", "resumed"}
                 /\ h.tailEnd \in NatOrNone /\ h.after \in NatOrNone

LEMMA HoldTyped == ASSUME NEW h, HoldRecord(h), HoldFields(h) PROVE h \in HoldSet
BY DEF HoldSet, HoldRecord, HoldFields

\* What the hold becomes.
LEMMA HoldChanges ==
  ASSUME EnvInv
  PROVE  /\ \A h \in HoldSet : Closed(h) \in HoldSet /\ Closed(h).after = h.after
         /\ Started \in HoldSet /\ Started.after = hold.after
         /\ Expired \in HoldSet /\ Expired.after = hold.after
         /\ \A h \in HoldSet : \A e \in {None, LatestSeq} :
              Resumed(h, e) \in HoldSet /\ Resumed(h, e).after = e
         /\ LatestSeq \in NatOrNone
<1>1. hold \in HoldSet /\ now \in Nat /\ HoldFor \in Nat /\ ObsGone \in BOOLEAN
  BY ConstantTypes DEF EnvInv, EnvTypes, ObsGone, ObsSet
<1>2. LatestSeq \in NatOrNone /\ None \in NatOrNone
  BY NewestOf DEF LatestSeq, NatOrNone
<1>3. ASSUME NEW h \in HoldSet PROVE Closed(h) \in HoldSet /\ Closed(h).after = h.after
  BY DEF Closed, HoldSet
<1>4. Started \in HoldSet /\ Started.after = hold.after
  <2> DEFINE r == Started
  <2>1. r = [hold EXCEPT !.open = TRUE, !.ends = now + HoldFor, !.tail = FALSE,
                         !.tailEnd = LatestSeq]
    BY DEF Started
  <2> HIDE DEF r
  <2>2. HoldRecord(r)
    BY <1>1, <2>1 DEF HoldSet, HoldRecord
  <2>3. HoldFields(r) /\ r.after = hold.after
    BY <1>1, <1>2, <2>1 DEF HoldSet, HoldFields
  <2>4. QED
    BY <2>2, <2>3, HoldTyped DEF r
<1>5. Expired \in HoldSet /\ Expired.after = hold.after
  <2>1. ASSUME NEW h \in HoldSet
        PROVE  [h EXCEPT !.tail = ObsGone] \in HoldSet /\ [h EXCEPT !.tail = ObsGone].after = h.after
    BY <1>1 DEF HoldSet
  <2>2. QED
    BY <1>1, <1>3, <2>1 DEF Expired
<1>6. ASSUME NEW h \in HoldSet, NEW e \in {None, LatestSeq}
      PROVE  Resumed(h, e) \in HoldSet /\ Resumed(h, e).after = e
  <2>1. e \in NatOrNone
    BY <1>2
  <2> DEFINE r == Resumed(h, e)
  <2>2. r = [h EXCEPT !.open = FALSE, !.ends = 0, !.lastEnd = IF h.open THEN "resumed" ELSE @,
                      !.tail = FALSE, !.tailEnd = None, !.after = e]
    BY DEF Resumed
  <2> HIDE DEF r
  <2>3. HoldRecord(r)
    BY <2>2 DEF HoldSet, HoldRecord
  <2>4. HoldFields(r) /\ r.after = e
    BY <1>2, <2>1, <2>2 DEF HoldSet, HoldFields
  <2>5. QED
    BY <2>3, <2>4, HoldTyped DEF r
<1>7. QED
  BY <1>2, <1>3, <1>4, <1>5, <1>6

LEMMA DropStep == ASSUME IInv, NEW stopped \in BOOLEAN, Drop(stopped) PROVE IInv'
<1> DEFINE h == IF stopped THEN IF hold.open THEN Closed(hold) ELSE hold
                ELSE IF MayStart THEN Started ELSE hold
           t == [h EXCEPT !.tail = TRUE, !.tailEnd = LatestSeq]
<1>1. EnvInv /\ hold \in HoldSet /\ obs \in ObsSet /\ target \in Nat
  BY DEF IInv, EnvInv, EnvTypes
<1>2. h \in HoldSet /\ h.after = hold.after
  BY <1>1, HoldChanges
<1>3. hold' = h \/ hold' = t
  BY DEF Drop
<1> HIDE DEF h
<1>4. t \in HoldSet /\ t.after = h.after
  BY <1>1, <1>2, HoldChanges DEF HoldSet
<1>5. hold' \in HoldSet /\ hold'.after = hold.after
  BY <1>2, <1>3, <1>4
<1>6. obs' \in ObsSet /\ obs'.token = obs.token /\ obs'.start = obs.start /\ obs'.born = obs.born
      /\ obs'.sentNow = obs.sentNow /\ (obs'.alive => obs.alive)
  BY <1>1 DEF Drop, ObsSet
<1>7. UNCHANGED <<now, ring, next, fresh, pump, target>>
  BY DEF Drop, Around
<1>8. QED
  BY <1>1, <1>5, <1>6, <1>7, CalmStep

LEMMA CheckFreezeStep == ASSUME IInv, CheckFreeze PROVE IInv'
<1>1. EnvInv /\ hold \in HoldSet /\ obs \in ObsSet /\ target \in Nat
  BY DEF IInv, EnvInv, EnvTypes
<1>2. obs' \in ObsSet /\ obs'.token = obs.token /\ obs'.start = obs.start /\ obs'.born = obs.born
      /\ obs'.sentNow = obs.sentNow /\ obs'.alive = obs.alive
  BY <1>1 DEF CheckFreeze, ObsSet
<1>3. hold' \in HoldSet /\ hold'.after = hold.after
  BY <1>1, HoldChanges DEF CheckFreeze
<1>4. UNCHANGED <<now, ring, next, fresh, pump, target>>
  BY DEF CheckFreeze, Around
<1>5. QED
  BY <1>1, <1>2, <1>3, <1>4, CalmStep

LEMMA SettleStep ==
  ASSUME IInv, NEW h \in HoldSet, h.after = hold.after, Settle(h) PROVE IInv'
<1>1. obs \in ObsSet /\ target \in Nat
  BY DEF IInv, EnvInv, EnvTypes
<1>2. hold' = h /\ UNCHANGED <<now, ring, next, obs, target, fresh, pump>>
  BY DEF Settle, Around
<1>3. QED
  BY <1>1, <1>2, CalmStep

LEMMA HoldEndsStep == ASSUME IInv, Expire \/ EndHoldNow \/ EndTailNow PROVE IInv'
<1> DEFINE off(h) == [h EXCEPT !.tail = FALSE]
<1>1. EnvInv /\ hold \in HoldSet
  BY DEF IInv, EnvInv, EnvTypes
<1>2. ASSUME NEW h \in HoldSet PROVE off(h) \in HoldSet /\ off(h).after = h.after
  BY DEF HoldSet
<1>3. CASE Expire
  BY <1>1, <1>3, HoldChanges, SettleStep DEF Expire
<1>4. CASE EndHoldNow
  <2>1. Settle(off(Closed(hold)))
    BY <1>4 DEF EndHoldNow
  <2>2. Closed(hold) \in HoldSet /\ Closed(hold).after = hold.after
    BY <1>1, HoldChanges
  <2> HIDE DEF off
  <2>3. QED
    BY <1>2, <2>1, <2>2, SettleStep
<1>5. CASE EndTailNow
  <2>1. Settle(off(hold))
    BY <1>5 DEF EndTailNow
  <2> HIDE DEF off
  <2>2. QED
    BY <1>1, <1>2, <2>1, SettleStep
<1>6. QED
  BY <1>3, <1>4, <1>5

LEMMA AskStep == ASSUME IInv, NEW d \in Delays, Ask(d) PROVE IInv'
<1>1. EnvInv /\ hold \in HoldSet /\ obs \in ObsSet
  BY DEF IInv, EnvInv, EnvTypes
<1>2. hold' \in HoldSet /\ hold'.after = hold.after
  BY <1>1 DEF Ask, HoldSet
<1>3. target' \in Nat
  BY DelaysAssumption DEF Ask
<1>4. UNCHANGED <<now, ring, next, fresh, pump, obs>>
  BY DEF Ask, Around
<1>5. QED
  BY <1>1, <1>2, <1>3, <1>4, CalmStep

LEMMA PublishStep == ASSUME IInv, Publish PROVE IInv'
<1>1. /\ EnvInv /\ hold \in HoldSet /\ obs \in ObsSet /\ now \in Nat /\ next \in Nat
      /\ target \in Nat /\ None = -1 /\ MaxPublishers \in Nat /\ MaxTime \in Nat
      /\ FirstVideo \in Nat /\ FreezeAfter \in Nat /\ obs.token \in Nat
  BY ConstantTypes DEF IInv, EnvInv, EnvTypes, ObsSet
<1>2. /\ obs' \in ObsSet /\ obs'.token = obs.token + 1 /\ obs'.born = now /\ obs'.start = next
      /\ obs'.sentNow = FALSE
  BY <1>1 DEF Publish, ObsSet
<1>3. hold' \in HoldSet
  BY <1>1, HoldChanges DEF Publish
<1>4. /\ UNCHANGED <<now, next, target, pump>> /\ fresh' = 0 /\ Seqs' = {} /\ Idrs' = {}
      /\ obs.token < MaxPublishers
  BY DEF Publish, Around, Seqs, Idrs
<1>5. EnvInv'
  <2>1. EnvTypes'
    BY <1>1, <1>2, <1>3, <1>4 DEF EnvTypes
  <2>2. RingInv'
    BY <1>1, <1>2, <1>4 DEF RingInv
  <2>3. FloorInv'
    BY <1>1, <1>4 DEF FloorInv
  <2>4. BoundsInv'
    BY <1>1, <1>2, <1>4 DEF EnvInv, BoundsInv
  <2>5. QED
    BY <2>1, <2>2, <2>3, <2>4 DEF EnvInv
<1>6. pump.token # obs'.token
  BY <1>1, <1>2 DEF IInv, PumpOK, PlaceOK, PumpSet
<1>7. PlaceOK(pump)'
  BY <1>1, <1>2, <1>4 DEF IInv, PumpOK, PumpSet, PlaceOK, Between, InHand
<1>8. TimeOK(pump)' /\ ChainOK(pump)' /\ AwaitOK(pump)'
  BY <1>4, <1>6 DEF IInv, PumpOK, TimeOK, ChainOK, AwaitOK, Between, InHand
<1>9. QED
  BY <1>4, <1>5, <1>7, <1>8 DEF IInv, PumpOK

LEMMA InitStep == Init => IInv
<1> SUFFICES ASSUME Init PROVE IInv
  OBVIOUS
<1>1. None = -1 /\ None \in NatOrNone /\ target \in Nat /\ MaxTime \in Nat /\ MaxPublishers \in Nat
  BY ConstantTypes, DelaysAssumption DEF Init, NatOrNone
<1>2. Seqs = {} /\ now = 0 /\ next = 0 /\ fresh = 0 /\ pump = Ended
  BY DEF Init, Seqs, Ended
<1>3. /\ obs \in ObsSet /\ obs.token = 0 /\ obs.born = 0 /\ obs.start = 0 /\ ~obs.alive
      /\ hold \in HoldSet
  BY <1>1 DEF Init, ObsSet, HoldSet
<1>4. EnvInv
  BY <1>1, <1>2, <1>3 DEF EnvInv, EnvTypes, RingInv, FloorInv, BoundsInv
<1>5. QED
  BY <1>2, <1>4, EndedOK DEF IInv

\* A pump that leaves the screen for a wait still knows what for.
LEMMA ScreenGoal ==
  ASSUME EnvInv, NEW p, Screening(p)
  PROVE  OnScreen(p).pc = "await" => OnScreen(p).goal = p.goal
<1> DEFINE q     == IF p.since = None THEN [p EXCEPT !.since = now, !.after = hold.after] ELSE p
           first == IF q.after # None THEN q.after + 1 ELSE Oldest(Seqs)
           h     == [p EXCEPT !.since = None, !.after = None]
           b     == Rebased(q)
           t     == [b EXCEPT !.token = IF q.goal = "join" THEN obs.token ELSE @]
           j     == [t EXCEPT !.token = obs.token]
           w     == [t EXCEPT !.pc = "await", !.mark = Max({first - 1, 0})]
           s     == RejoinIdr(first)
           FieldsOf == DOMAIN p
<1>1. p \in PumpSet /\ p.pc = "screen"
  BY DEF Screening
<1>2. {"pc", "goal", "token"} \subseteq FieldsOf
  BY <1>1 DEF PumpSet
<1>3. DOMAIN q = FieldsOf /\ q.pc = "screen" /\ q.goal = p.goal
  BY <1>1, <1>2
<1>4. h.pc = "screen"
  BY <1>1, <1>2
<1>5. OnScreen(p) \in {h, Ended, Rejoined(q, first), q}
  BY DEF OnScreen
<1>6. Rejoined(q, first) \in {Anchored(j, s), Ended, w}
  BY DEF Rejoined
<1>7. Ended.pc = "off"
  BY DEF Ended, NoPump
<1> HIDE DEF q, first, h, s
<1>8. DOMAIN b = FieldsOf /\ b.goal = p.goal
  BY <1>2, <1>3 DEF Rebased
<1> HIDE DEF b
<1>9. DOMAIN t = FieldsOf /\ t.goal = p.goal
  BY <1>2, <1>8
<1> HIDE DEF t
<1>10. DOMAIN j = FieldsOf /\ w.goal = p.goal
  BY <1>2, <1>9
<1> HIDE DEF j, w
<1>11. Anchored(j, s).pc = "top"
  BY <1>2, <1>10 DEF Anchored
<1>12. QED
  BY <1>3, <1>4, <1>5, <1>6, <1>7, <1>10, <1>11

\* A wait that has found a keyframe goes on from there.
LEMMA FoundMoves ==
  ASSUME EnvInv, NEW p, Ready(p), p.pc = "await", NEW s PROVE Found(p, s) # p
<1> DEFINE j == [p EXCEPT !.token = obs.token]
           q == [p EXCEPT !.token = p.heard]
           b == [q EXCEPT !.pc = "screen", !.goal = "rejoin", !.wall = now, !.until = now,
                     !.last = q.sent - q.anchor + 1]
<1>1. p \in PumpSet /\ obs.token \in Nat /\ now \in Nat /\ p.heard \in Nat /\ p.heard <= obs.token
  BY DEF Ready, EnvInv, EnvTypes, ObsSet, PumpSet
<1>2. j \in PumpSet /\ q \in PumpSet /\ q.sent = p.sent /\ q.anchor = p.anchor /\ q.pos = p.pos
      /\ q.high = p.high /\ q.token = p.heard /\ q.heard = p.heard
  BY <1>1 DEF PumpSet
<1>3. ASSUME NEW r \in PumpSet PROVE Anchored(r, s).pc = "top"
  BY DEF Anchored, PumpSet
<1>4. PlayScreen(q, "rejoin") = OnScreen(b)
  BY DEF PlayScreen
<1>5. \/ Found(p, s) \in {Anchored(j, s), Anchored(q, s), Anchored(p, s)}
      \/ Found(p, s) = OnScreen(b) /\ p.goal = "reanchor"
  BY <1>4 DEF Found
<1> HIDE DEF j, q
<1>6. Screening(b) /\ b.goal = "rejoin"
  <2>0. b = [q EXCEPT !.pc = "screen", !.goal = "rejoin", !.wall = now, !.until = now,
                     !.last = q.sent - q.anchor + 1]
    OBVIOUS
  <2>1. q.sent \in Int /\ q.anchor \in Int /\ q.high \in Int /\ p.high <= p.sent - p.anchor
    BY <1>2 DEF PumpSet, Ready
  <2> HIDE DEF b
  <2>2. PumpRecord(b)
    BY <1>2, <2>0 DEF PumpSet, PumpRecord
  <2>3. PumpFields(b)
    BY <1>1, <1>2, <2>0, <2>1 DEF PumpSet, PumpFields, Places
  <2>4. /\ b.token = q.token /\ b.heard = q.heard /\ b.pos = q.pos /\ b.pc = "screen"
        /\ b.high = q.high /\ b.last = q.sent - q.anchor + 1 /\ b.goal = "rejoin"
    BY <1>2, <2>0 DEF PumpSet
  <2>5. QED
    BY <1>1, <1>2, <2>1, <2>2, <2>3, <2>4, PumpTyped DEF Screening, Ready
<1> HIDE DEF b
<1>7. OnScreen(b).pc = "await" => OnScreen(b).goal = "rejoin"
  BY <1>6, ScreenGoal
<1>8. QED
  BY <1>1, <1>2, <1>3, <1>5, <1>7

LEMMA TickStep == ASSUME IInv, Tick PROVE IInv'
<1> DEFINE q == [pump EXCEPT !.checked = FALSE]
<1>1. /\ EnvInv /\ PumpOK(pump) /\ pump \in PumpSet /\ obs \in ObsSet /\ now \in Nat /\ next \in Nat
      /\ obs.born \in Nat /\ obs.token \in Nat /\ obs.start \in Nat /\ None = -1
      /\ MaxTime \in Nat /\ MaxPublishers \in Nat /\ fresh \in Nat
  BY ConstantTypes DEF IInv, PumpOK, EnvInv, EnvTypes, ObsSet
<1>2. /\ now' = now + 1 /\ now < MaxTime
      /\ obs' = [obs EXCEPT !.sentNow = FALSE]
      /\ UNCHANGED <<ring, next, hold, target, fresh>>
      /\ pump' = q \/ pump' = pump
  BY DEF Tick
<1>3. /\ obs' \in ObsSet /\ obs'.token = obs.token /\ obs'.start = obs.start
      /\ obs'.born = obs.born /\ obs'.alive = obs.alive /\ obs'.sentNow = FALSE
  BY <1>1, <1>2 DEF ObsSet
<1>4. Seqs' = Seqs /\ Idrs' = Idrs /\ Clock' = Clock + 1 /\ Clock \in Int
  BY <1>1, <1>2, <1>3 DEF Seqs, Idrs, Clock
<1>5. EnvInv'
  <2>1. EnvTypes' /\ FloorInv'
    BY <1>1, <1>2, <1>3, <1>4 DEF EnvInv, EnvTypes, FloorInv
  <2>2. RingInv'
    <3>1. \A s \in Seqs : ring[s] \in Nat /\ ring[s] <= Clock
      BY <1>1 DEF EnvInv, EnvTypes, RingInv
    <3>2. \A s \in Seqs : ring[s] <= Clock + 1 /\ ring[s] < Clock + 1
      BY <1>4, <3>1
    <3>3. obs.start <= next /\ obs.born <= now + 1
      BY <1>1 DEF EnvInv, RingInv
    <3>4. /\ \A s \in Seqs : obs.start <= s /\ s < next
          /\ \A s \in Seqs, t \in Nat : s <= t /\ t < next => t \in Seqs
          /\ \A s, t \in Seqs : s < t => ring[s] < ring[t]
      BY <1>1 DEF EnvInv, RingInv
    <3>5. QED
      BY <1>2, <1>3, <1>4, <3>2, <3>3, <3>4 DEF RingInv
  <2>3. BoundsInv'
    BY <1>1, <1>2, <1>3 DEF EnvInv, BoundsInv
  <2>4. QED
    BY <2>1, <2>2, <2>3 DEF EnvInv
<1>6. /\ q \in PumpSet /\ q.pc = pump.pc /\ q.token = pump.token /\ q.heard = pump.heard
      /\ q.pos = pump.pos /\ q.anchor = pump.anchor /\ q.sent = pump.sent /\ q.ts = pump.ts
      /\ q.mark = pump.mark /\ q.since = pump.since /\ q.last = pump.last
      /\ q.high = pump.high /\ q.ref = pump.ref
  BY <1>1 DEF PumpSet
<1> HIDE DEF q
<1>7. /\ pump' \in PumpSet /\ pump'.pc = pump.pc /\ pump'.token = pump.token
      /\ pump'.heard = pump.heard /\ pump'.pos = pump.pos /\ pump'.anchor = pump.anchor
      /\ pump'.sent = pump.sent /\ pump'.ts = pump.ts /\ pump'.mark = pump.mark
      /\ pump'.since = pump.since /\ pump'.last = pump.last /\ pump'.high = pump.high
      /\ pump'.ref = pump.ref
  BY <1>1, <1>2, <1>6
<1>8. PlaceOK(pump)'
  BY <1>1, <1>2, <1>3, <1>7 DEF PumpOK, PlaceOK, Between, InHand
<1>9. TimeOK(pump)'
  <2>1. pump.anchor \in Int /\ pump.high \in Int /\ pump.ts \in Int
    BY <1>1 DEF PumpSet
  <2>2. Between(pump) /\ pump.token = obs.token =>
          /\ \A s \in Seqs : s >= pump.pos => ring[s] > pump.anchor + pump.high
          /\ pump.anchor + pump.high <= Clock + 1 /\ pump.anchor + pump.high < Clock + 1
    BY <1>1, <1>4, <2>1 DEF PumpOK, TimeOK
  <2>3. InHand(pump) /\ pump.token = obs.token =>
          /\ \A s \in Seqs : s > pump.pos => ring[s] > pump.ts
          /\ pump.ts <= Clock + 1 /\ pump.ts < Clock + 1
    BY <1>1, <1>4, <2>1 DEF PumpOK, TimeOK
  <2>4. (Between(pump)' <=> Between(pump)) /\ (InHand(pump)' <=> InHand(pump))
    BY <1>7 DEF Between, InHand
  <2>5. QED
    BY <1>1, <1>2, <1>3, <1>4, <1>7, <2>2, <2>3, <2>4 DEF PumpOK, TimeOK
<1>10. ChainOK(pump)'
  BY <1>1, <1>2, <1>3, <1>4, <1>7 DEF PumpOK, ChainOK, Chained, Behind, Between
<1>11. AwaitOK(pump)'
  <2> SUFFICES ASSUME pump.pc = "await" PROVE AwaitOK(pump)'
    BY <1>7 DEF AwaitOK
  <2>1. AwaitIdr(pump) = pump
    BY DEF Tick, Idle, HeldUp
  <2>2. Ready(pump)
    BY <1>1 DEF PumpOK, PlaceOK, TimeOK, Ready
  <2>3. ~(Newest(Idrs) >= Beyond(pump))
    <3>1. ASSUME Newest(Idrs) >= Beyond(pump) PROVE FALSE
      <4>1. AwaitIdr(pump) = Found(pump, Newest(Idrs))
        BY <3>1 DEF AwaitIdr, Beyond
      <4>2. QED
        BY <1>1, <2>1, <2>2, <4>1, FoundMoves
    <3>2. QED
      BY <3>1
  <2>4. Beyond(pump) \in Nat
    BY <1>1 DEF Beyond, PumpSet, NatOrNone
  <2>5. \A s \in Idrs : s < Beyond(pump)
    <3>1. \/ Idrs = {} /\ Newest(Idrs) = None
          \/ Newest(Idrs) \in Nat /\ \A t \in Idrs : t <= Newest(Idrs)
      BY <1>1, NewestOf, IdrsAreTags
    <3>2. \A t \in Idrs : t \in Nat
      BY <1>1, IdrsAreTags
    <3>3. QED
      BY <2>3, <2>4, <3>1, <3>2
  <2>6. Beyond(pump)' = Beyond(pump)
    BY <1>2, <1>7 DEF Beyond
  <2>7. QED
    BY <1>1, <1>2, <1>4, <1>7, <2>5, <2>6 DEF PumpOK, AwaitOK
<1>12. QED
  BY <1>5, <1>7, <1>8, <1>9, <1>10, <1>11 DEF IInv, PumpOK

\* What the buffer is once it holds the tag next: its old tags but for some of the
\* oldest, and the new one.
TagAdded == /\ Seqs' \subseteq Seqs \union {next} /\ next \in Seqs'
            /\ \A s \in Seqs' : ring'[s] = IF s = next THEN Clock ELSE ring[s]
            /\ \A s \in Seqs', t \in Seqs : s <= t => t \in Seqs'

LEMMA TagIsAdded == ASSUME IInv, OnTag PROVE TagAdded
<1> DEFINE r    == [s \in Seqs \union {next} |-> IF s = next THEN Clock ELSE ring[s]]
           all  == DOMAIN r
           held == IF Cardinality(all) > Cap THEN all \ {Min(all)} ELSE all
           key  == Newest({s \in held : (s - obs.start) % Gop = 0 /\ r[s] <= Max({Clock - Buffer, 0})})
           need == Min({pump.pos, IF key = None THEN Nowhere ELSE key})
           old  == {s \in held : s < need /\ r[s] < Clock - Buffer - Slack}
<1>1. /\ EnvInv /\ next \in Nat /\ Seqs \subseteq Nat /\ Clock \in Int
      /\ \A s \in Seqs : ring[s] \in Nat /\ s < next /\ ring[s] < Clock
      /\ \A s, t \in Seqs : s < t => ring[s] < ring[t]
  BY DEF IInv, EnvInv, EnvTypes, RingInv, OnTag, Clock, ObsSet
<1>2. Cap \in Nat \ {0} /\ Buffer \in Nat /\ Slack \in Nat
  BY TimesAssumption
<1>3. all = Seqs \union {next} /\ all \subseteq Nat /\ all # {}
      /\ \A s \in all : r[s] = (IF s = next THEN Clock ELSE ring[s]) /\ r[s] \in Int
  BY <1>1
<1>4. \A s, t \in all : s <= t => r[s] <= r[t]
  <2>1. ASSUME NEW s \in all, NEW t \in all, s <= t PROVE r[s] <= r[t]
    <3>1. s \in Nat /\ t \in Nat
      BY <1>3
    <3>2. CASE s = t
      BY <1>3, <3>2
    <3>3. CASE s # t /\ t = next
      <4>1. s \in Seqs
        BY <1>3, <3>3
      <4>2. QED
        BY <1>1, <1>3, <3>3, <4>1
    <3>4. CASE s # t /\ t # next
      <4>1. s \in Seqs /\ t \in Seqs /\ s < t
        BY <1>1, <1>3, <2>1, <3>1, <3>4
      <4>2. QED
        BY <1>1, <1>3, <3>4, <4>1
    <3>5. QED
      BY <3>2, <3>3, <3>4
  <2>2. QED
    BY <2>1
<1>5. ring' = [s \in held \ old |-> r[s]]
  <2>1. ring' = Trimmed(r, Clock)
    BY DEF OnTag, Clock
  <2>2. QED
    BY <2>1 DEF Trimmed
<1> HIDE DEF r, key
<1>6. Min(all) \in all /\ \A s \in all : Min(all) <= s
  BY <1>3, MinIsLeast
<1>7. held \subseteq all /\ \A s \in held, t \in all : s <= t => t \in held
  <2>1. ASSUME NEW s \in held, NEW t \in all, s <= t, t \notin held PROVE FALSE
    <3>1. t = Min(all) /\ s \in all /\ s # Min(all)
      BY <2>1
    <3>2. s \in Nat /\ t \in Nat
      BY <1>3, <3>1
    <3>3. QED
      BY <1>6, <2>1, <3>1, <3>2
  <2>2. QED
    BY <2>1
<1>8. next \in held
  <2>1. CASE all = {next}
    <3>1. Cardinality(all) = 1
      BY <2>1, FS_Singleton
    <3>2. QED
      BY <1>2, <1>3, <3>1
  <2>2. CASE all # {next}
    <3>1. PICK s \in Seqs : TRUE
      BY <1>3, <2>2
    <3>2. s < next /\ s \in all /\ s \in Nat
      BY <1>1, <1>3
    <3>3. Min(all) # next
      BY <1>1, <1>6, <3>2
    <3>4. QED
      BY <1>3, <3>3
  <2>3. QED
    BY <2>1, <2>2
<1>9. \A s \in held, t \in held : s \notin old /\ s <= t => t \notin old
  <2>1. need \in Int
    <3>1. pump.pos \in Int
      BY DEF IInv, PumpOK, PumpSet
    <3>2. key \in NatOrNone
      <4> DEFINE K == {s \in held : (s - obs.start) % Gop = 0 /\ r[s] <= Max({Clock - Buffer, 0})}
      <4>0. all \subseteq 0 .. next
        BY <1>1, <1>3
      <4>1. K \subseteq 0 .. next
        BY <1>7, <4>0
      <4>2. key = IF K = {} THEN None ELSE Max(K)
        BY DEF key, Newest
      <4> HIDE DEF K
      <4>3. K # {} => Max(K) \in K
        BY <1>1, <4>1, MaxIsGreatest
      <4>4. K # {} => Max(K) \in Nat
        <5>1. 0 .. next \subseteq Nat
          OBVIOUS
        <5>2. QED
          BY <4>1, <4>3, <5>1
      <4>5. QED
        BY <4>2, <4>4 DEF NatOrNone
    <3>3. QED
      BY <3>1, <3>2, MinOfTwo, ConstantTypes DEF NatOrNone
  <2> HIDE DEF need, held, all
  <2>2. \A s \in held : s \in Nat /\ r[s] \in Int /\ s \in all
    BY <1>3, <1>7
  <2>3. QED
    BY <1>2, <1>4, <2>1, <2>2, <1>1
<1>10. next \notin old
  <2>1. r[next] = Clock
    BY <1>3
  <2>2. QED
    BY <1>1, <1>2, <2>1
<1> HIDE DEF held, old
<1>11. Seqs' = held \ old /\ \A s \in Seqs' : ring'[s] = r[s]
  BY <1>5 DEF Seqs
<1>12. QED
  BY <1>3, <1>7, <1>8, <1>9, <1>10, <1>11 DEF TagAdded

LEMMA OnTagStep == ASSUME IInv, OnTag PROVE IInv'
<1>1. /\ EnvInv /\ PumpOK(pump) /\ obs \in ObsSet /\ hold \in HoldSet /\ now \in Nat
      /\ next \in Nat /\ fresh \in Nat /\ target \in Nat /\ None = -1 /\ Seqs \subseteq Nat
      /\ Clock \in Int /\ obs.born \in Nat /\ obs.start \in Nat /\ obs.token \in Nat
      /\ pump \in PumpSet
  BY ConstantTypes DEF IInv, EnvInv, EnvTypes, ObsSet, Clock, PumpOK
<1>2. /\ UNCHANGED <<now, pump, target>> /\ next' = next + 1 /\ ~obs.sentNow /\ obs.alive
  BY DEF OnTag, Around
<1>3. /\ obs' \in ObsSet /\ obs'.token = obs.token /\ obs'.start = obs.start
      /\ obs'.born = obs.born /\ obs'.alive = obs.alive /\ obs'.sentNow = TRUE
  <2>1. (IF Protected THEN now ELSE None) \in Int
    BY <1>1
  <2>2. QED
    BY <1>1, <2>1 DEF OnTag, ObsSet
<1>4. TagAdded
  BY TagIsAdded
<1>5. /\ \A s \in Seqs : ring[s] \in Nat /\ s < next /\ s >= obs.start /\ ring[s] < Clock
      /\ \A s, t \in Seqs : s < t => ring[s] < ring[t]
      /\ \A s \in Seqs, t \in Nat : s <= t /\ t < next => t \in Seqs
      /\ obs.start <= next /\ obs.born <= now /\ Clock >= 0
  BY <1>1, <1>2 DEF EnvInv, EnvTypes, RingInv, Clock
<1>6. Clock' = Clock
  BY <1>2, <1>3 DEF Clock
<1>7. /\ Seqs' \subseteq Seqs \union {next} /\ next \in Seqs' /\ Seqs' \subseteq Nat
      /\ \A s \in Seqs' : ring'[s] = IF s = next THEN Clock ELSE ring[s]
      /\ \A s \in Seqs', t \in Seqs : s <= t => t \in Seqs'
  BY <1>1, <1>4 DEF TagAdded
<1>8. /\ fresh' \in Nat /\ fresh' <= next /\ hold' \in HoldSet
      /\ fresh' > 0 => hold'.after # None /\ fresh' <= hold'.after + 1
  <2>1. fresh <= next /\ (Seqs = {} => fresh = 0)
        /\ (fresh > 0 => hold.after # None /\ fresh <= hold.after + 1)
    BY <1>1 DEF EnvInv, FloorInv
  <2>2. CASE obs.frozen
    <3>1. hold' \in HoldSet /\ hold'.after = LatestSeq
      BY <1>1, <2>2, HoldChanges DEF OnTag
    <3>2. fresh' = fresh \/ (Seqs # {} /\ fresh' = LatestSeq + 1)
      BY <2>2 DEF OnTag, Floored
    <3>3. Seqs # {} => LatestSeq = next - 1 /\ LatestSeq \in Nat
      BY <1>1, EndsOf
    <3>4. QED
      BY <1>1, <2>1, <3>1, <3>2, <3>3
  <2>3. CASE ~obs.frozen
    BY <1>1, <2>1, <2>3 DEF OnTag
  <2>4. QED
    BY <2>2, <2>3
<1>9. EnvInv'
  <2>1. EnvTypes'
    BY <1>1, <1>2, <1>3, <1>5, <1>7, <1>8 DEF EnvTypes
  <2>2. RingInv'
    <3>1. obs'.start <= next' /\ obs'.born <= now'
      BY <1>1, <1>2, <1>3, <1>5
    <3>2. \A s \in Seqs' : obs'.start <= s /\ s < next'
      BY <1>1, <1>2, <1>3, <1>5, <1>7
    <3>3. ASSUME NEW s \in Seqs', NEW t \in Nat, s <= t, t < next' PROVE t \in Seqs'
      <4>1. t = next \/ (s \in Seqs /\ t < next)
        BY <1>1, <1>2, <1>7, <3>3
      <4>2. t = next \/ t \in Seqs
        BY <1>5, <3>3, <4>1
      <4>3. QED
        BY <1>7, <3>3, <4>2
    <3>4. ASSUME NEW s \in Seqs', NEW t \in Seqs', s < t PROVE ring'[s] < ring'[t]
      <4>1. s \in Seqs /\ s # next
        BY <1>1, <1>5, <1>7, <3>4
      <4>2. ring'[s] = ring[s] /\ ring[s] < Clock
        BY <1>5, <1>7, <4>1
      <4>3. t = next \/ (t # next /\ t \in Seqs)
        BY <1>7
      <4>4. QED
        BY <1>5, <1>7, <3>4, <4>1, <4>2, <4>3
    <3>5. \A s \in Seqs' : ring'[s] <= Clock
      BY <1>1, <1>5, <1>7
    <3>6. QED
      BY <1>3, <1>6, <3>1, <3>2, <3>3, <3>4, <3>5 DEF RingInv
  <2>3. FloorInv'
    BY <1>1, <1>2, <1>7, <1>8 DEF FloorInv
  <2>4. BoundsInv'
    BY <1>1, <1>2, <1>3 DEF EnvInv, BoundsInv
  <2>5. QED
    BY <2>1, <2>2, <2>3, <2>4 DEF EnvInv
<1>10. PlaceOK(pump)'
  BY <1>1, <1>2, <1>3 DEF PumpOK, PumpSet, PlaceOK, Between, InHand
<1>11. TimeOK(pump)'
  <2>1. pump.anchor \in Int /\ pump.high \in Int /\ pump.ts \in Int
    BY <1>1 DEF PumpSet
  <2>2. ASSUME Between(pump), pump.token = obs.token
        PROVE  /\ \A s \in Seqs' : s >= pump.pos => ring'[s] > pump.anchor + pump.high
               /\ pump.anchor + pump.high <= Clock
    <3>1. /\ \A s \in Seqs : s >= pump.pos => ring[s] > pump.anchor + pump.high
          /\ pump.anchor + pump.high < Clock
      BY <1>1, <1>2, <2>2 DEF PumpOK, TimeOK
    <3>2. QED
      BY <1>1, <1>7, <2>1, <3>1
  <2>3. ASSUME InHand(pump), pump.token = obs.token
        PROVE  /\ \A s \in Seqs' : s > pump.pos => ring'[s] > pump.ts
               /\ pump.ts <= Clock
    <3>1. /\ \A s \in Seqs : s > pump.pos => ring[s] > pump.ts
          /\ pump.ts < Clock
      BY <1>1, <1>2, <2>3 DEF PumpOK, TimeOK
    <3>2. QED
      BY <1>1, <1>7, <2>1, <3>1
  <2>4. (Between(pump)' <=> Between(pump)) /\ (InHand(pump)' <=> InHand(pump))
    BY <1>2 DEF Between, InHand
  <2>5. QED
    BY <1>1, <1>2, <1>3, <1>6, <2>2, <2>3, <2>4 DEF PumpOK, TimeOK
<1>12. ASSUME NEW s \in Int, Behind(s) PROVE Behind(s)'
  <2>1. PICK t \in Seqs : s < t
    BY <1>12 DEF Behind
  <2>2. s < next
    BY <1>1, <1>5, <2>1
  <2>3. \A u \in Seqs' : s < u
    BY <1>7, <1>12, <2>2 DEF Behind
  <2>4. QED
    BY <1>7, <2>3 DEF Behind
<1>13. ASSUME NEW s \in Seqs, s \notin Seqs' PROVE Behind(s)' /\ Behind(s - 1)'
  <2>1. \A t \in Seqs' : s < t
    <3>1. ASSUME NEW t \in Seqs', ~(s < t) PROVE FALSE
      <4>1. t <= s
        BY <1>1, <1>7, <3>1
      <4>2. QED
        BY <1>7, <1>13, <4>1
    <3>2. QED
      BY <3>1
  <2>2. \A t \in Seqs' : s - 1 < t
    BY <1>1, <1>7, <2>1
  <2>3. QED
    BY <1>7, <2>1, <2>2 DEF Behind
<1>14. Idrs' \subseteq Idrs \union {next} /\ \A s \in Idrs : s \in Seqs' => s \in Idrs'
  BY <1>3, <1>7 DEF Idrs
<1>15. ChainOK(pump)'
  <2>1. pump.pos \in Nat /\ pump.pos - 1 \in Int
    BY <1>1 DEF PumpSet
  <2>2. Chained(pump) => Chained(pump)'
    <3>1. CASE pump.pos \in Idrs /\ pump.pos \in Seqs'
      BY <1>2, <1>14, <3>1 DEF Chained
    <3>2. CASE pump.pos \in Idrs /\ pump.pos \notin Seqs'
      <4>1. Behind(pump.pos - 1)'
        BY <1>1, <1>2, <1>13, <3>2, IdrsAreTags
      <4>2. QED
        BY <1>2, <4>1 DEF Chained
    <3>3. CASE pump.ref = pump.pos - 1
      BY <1>2, <3>3 DEF Chained
    <3>4. CASE Behind(pump.pos - 1)
      <4>1. Behind(pump.pos - 1)'
        BY <1>2, <1>12, <2>1, <3>4
      <4>2. QED
        BY <1>2, <4>1 DEF Chained
    <3>5. QED
      BY <3>1, <3>2, <3>3, <3>4 DEF Chained
  <2>3. pump.pos \in Seqs \/ Behind(pump.pos) => pump'.pos \in Seqs' \/ Behind(pump.pos)'
    BY <1>2, <1>12, <1>13, <2>1
  <2>4. Between(pump)' <=> Between(pump)
    BY <1>2 DEF Between
  <2>5. QED
    BY <1>1, <1>2, <1>3, <2>2, <2>3, <2>4 DEF PumpOK, ChainOK
<1>16. AwaitOK(pump)'
  <2>1. ASSUME pump.pc = "await", pump.mark # None, NEW s \in Idrs', s > pump.mark
        PROVE  s >= fresh'
    <3>1. \A t \in Idrs : t < pump.mark + 1
      BY <1>1, <1>2, <2>1 DEF PumpOK, AwaitOK, Beyond
    <3>2. pump.mark \in Nat
      BY <1>1, <2>1 DEF PumpSet, NatOrNone
    <3>3. Idrs \subseteq Nat
      BY <1>1, IdrsAreTags
    <3>4. s = next
      BY <1>14, <2>1, <3>1, <3>2, <3>3
    <3>5. QED
      BY <1>1, <1>8, <3>4
  <2>2. QED
    BY <1>2, <1>3, <2>1 DEF AwaitOK
<1>17. QED
  BY <1>1, <1>2, <1>9, <1>10, <1>11, <1>15, <1>16 DEF IInv, PumpOK
-----------------------------------------------------------------------------
(* The invariant is inductive, and what follows from it.                    *)

LEMMA StreamStep == ASSUME IInv, Stream PROVE IInv'
<1>1. CASE OnTag
  BY <1>1, OnTagStep
<1>2. CASE Publish
  BY <1>2, PublishStep
<1>3. CASE CheckFreeze
  BY <1>3, CheckFreezeStep
<1>4. CASE Expire \/ EndHoldNow \/ EndTailNow
  BY <1>4, HoldEndsStep
<1>5. ASSUME NEW stopped \in BOOLEAN, Drop(stopped) PROVE IInv'
  BY <1>5, DropStep
<1>6. ASSUME NEW d \in Delays, Ask(d) PROVE IInv'
  BY <1>6, AskStep
<1>7. QED
  BY <1>1, <1>2, <1>3, <1>4, <1>5, <1>6 DEF Stream

LEMMA NextStep == ASSUME IInv, [Next]_vars PROVE IInv'
<1>1. CASE Pump
  BY <1>1, PumpStep, EnvStays, PumpStays DEF IInv, StepOK
<1>2. CASE Stream
  BY <1>2, StreamStep
<1>3. CASE Tick
  BY <1>3, TickStep
<1>4. CASE UNCHANGED vars
  BY <1>4, EnvStays, PumpStays DEF IInv, vars
<1>5. QED
  BY <1>1, <1>2, <1>3, <1>4 DEF Next

\* The buffer, the floor for jumps, the clock's bounds and the pump's place, times and
\* chain hold together in every state, with any number of publishers, freezes and holds.
THEOREM InductiveInvariant == Spec => []IInv
<1>1. Init => IInv
  BY InitStep
<1>2. IInv /\ [Next]_vars => IInv'
  BY NextStep
<1>3. QED
  BY <1>1, <1>2, PTL DEF Spec

\* Only the pump's own steps take it from one tag to another.
LEMMA OnlyThePumpMoves ==
  ASSUME IInv, [Next]_vars, pump' # pump PROVE Pump \/ (pump'.pc = pump.pc /\ pump'.pos = pump.pos)
<1>1. pump \in PumpSet
  BY DEF IInv, PumpOK
<1>2. CASE Stream
  <2>1. pump' = pump
    BY <1>2 DEF Stream, OnTag, Publish, CheckFreeze, Expire, EndHoldNow, EndTailNow, Settle,
                Drop, Ask, Around
  <2>2. QED
    BY <2>1
<1>3. CASE Tick
  BY <1>1, <1>3 DEF Tick, PumpSet
<1>4. CASE UNCHANGED vars
  BY <1>4 DEF vars
<1>5. QED
  BY <1>2, <1>3, <1>4 DEF Next

\* Every timestamp the pump gives a tag is above all it has sent in its session, over
\* cuts, new publishers and the reconnect screen.
THEOREM ClockForward == Spec => ClockNeverGoesBack
<1>1. ASSUME IInv, Air PROVE OutTs > pump.high
  <2>1. pump \in PumpSet /\ pump.pc = "pace" /\ pump.high < pump.ts - pump.anchor
    BY <1>1 DEF IInv, PumpOK, TimeOK, Air
  <2>2. QED
    BY <2>1 DEF OutTs, PumpSet
<1>2. IInv /\ [Next]_vars => [Air /\ pump'.pc = "send" => OutTs > pump.high]_vars
  BY <1>1
<1>3. QED
  BY <1>2, InductiveInvariant, PTL DEF Spec, ClockNeverGoesBack

\* A decoder is handed a keyframe, or the tag after the last one, but where a tag was
\* overwritten before its time; and every jump is to a keyframe.
THEOREM ChainUnbroken == Spec => DecodeChain
<1>1. ASSUME IInv, Air, pump'.pc = "send"
      PROVE  pump.pos \in Idrs \/ pump.ref = pump.pos - 1 \/ Overwritten(pump.pos - 1)
  <2>1. pump \in PumpSet /\ pump.pc = "pace" /\ PlaceOK(pump) /\ ChainOK(pump) /\ EnvInv
    BY <1>1 DEF IInv, PumpOK, Air
  <2>2. pump.pos \in Seqs
    BY <1>1, <2>1 DEF Air, Steps, Goes, PumpSet
  <2>3. pump.token = obs.token
    <3>1. obs.start <= pump.pos /\ obs.start \in Nat /\ pump.pos \in Nat
      BY <2>1, <2>2 DEF EnvInv, EnvTypes, RingInv, ObsSet
    <3>2. QED
      BY <2>1, <3>1 DEF PlaceOK, InHand
  <2>4. Chained(pump)
    BY <2>1, <2>3 DEF ChainOK
  <2>5. Behind(pump.pos - 1) => Overwritten(pump.pos - 1)
    BY <2>1, <2>2, EndsOf DEF Behind, Overwritten
  <2>6. QED
    BY <2>4, <2>5 DEF Chained
<1>2. ASSUME IInv, [Next]_vars, pump'.pos \notin {pump.pos, pump.pos + 1, Nowhere}
      PROVE  pump'.pos \in Idrs
  <2>1. Pump
    BY <1>2, OnlyThePumpMoves
  <2>2. QED
    BY <1>2, <2>1, PumpStep DEF StepOK
<1>3. IInv /\ [Next]_vars
      => [/\ Air /\ pump'.pc = "send" =>
               pump.pos \in Idrs \/ pump.ref = pump.pos - 1 \/ Overwritten(pump.pos - 1)
          /\ pump'.pos \notin {pump.pos, pump.pos + 1, Nowhere} => pump'.pos \in Idrs]_vars
  BY <1>1, <1>2
<1>4. QED
  BY <1>3, InductiveInvariant, PTL DEF Spec, DecodeChain

\* A pump that is not on the reconnect screen never goes back past the end of a freeze.
THEOREM FreezeStaysBehind == Spec => NoJumpBehindTheFreeze
<1>1. ASSUME IInv, [Next]_vars, pump'.pos < pump.pos, pump.pc # "screen"
      PROVE  pump'.pos >= fresh
  <2>1. /\ pump \in PumpSet /\ PlaceOK(pump) /\ pump.pos \in Nat /\ next \in Nat /\ now \in Nat
        /\ obs.token \in Nat /\ now <= MaxTime /\ obs.token <= MaxPublishers
        /\ next <= now + obs.token /\ MaxTime \in Nat /\ MaxPublishers \in Nat
        /\ Nowhere = MaxTime + MaxPublishers + 1
    BY <1>1, ConstantTypes DEF IInv, PumpOK, PumpSet, EnvInv, EnvTypes, BoundsInv, ObsSet
  <2>2. pump.pos <= Nowhere
    BY <2>1 DEF PlaceOK
  <2>3. Pump
    BY <1>1, <2>1, OnlyThePumpMoves
  <2>4. Onward(pump, pump')
    BY <1>1, <2>3, PumpStep DEF StepOK
  <2>5. \A s \in Idrs : s \in Nat
    BY <1>1, IdrsAreTags DEF IInv
  <2>6. QED
    BY <1>1, <2>1, <2>2, <2>4, <2>5 DEF Onward
<1>2. IInv /\ [Next]_vars
      => [pump'.pos < pump.pos /\ pump.pc # "screen" => pump'.pos >= fresh]_vars
  BY <1>1
<1>3. QED
  BY <1>2, InductiveInvariant, PTL DEF Spec, NoJumpBehindTheFreeze

\* Viewers who saw the reconnect screen see the stream again as late as asked, unless
\* the wait ran out.
THEOREM ScreenGivesWay == Spec => ScreenKeepsTheDelay
<1>1. ASSUME IInv, [Next]_vars, pump.pc = "screen", pump'.pc = "top",
             pump.since # None => now - pump.since < target + Grace
      PROVE  Age(pump'.pos) >= target
  <2>1. Pump
    BY <1>1, OnlyThePumpMoves
  <2>2. QED
    BY <1>1, <2>1, PumpStep DEF StepOK
<1>2. IInv /\ [Next]_vars
      => [/\ pump.pc = "screen" /\ pump'.pc = "top"
          /\ pump.since # None => now - pump.since < target + Grace
          => Age(pump'.pos) >= target]_vars
  BY <1>1
<1>3. QED
  BY <1>2, InductiveInvariant, PTL DEF Spec, ScreenKeepsTheDelay
-----------------------------------------------------------------------------
(* Nothing airs twice: where a pump may land, and how late it follows.      *)

\* A hold that resumed did so with OBS sending.
FrozenInv == obs.frozen => hold.open \/ hold.lastEnd # "resumed"

\* How late the pump's run airs, and when tag ts of it does.
Late(p)    == p.wall - obs.born - p.anchor
Due(p, ts) == p.wall + (ts - p.anchor)

InRun(p) == p.token = obs.token /\ (Between(p) \/ InHand(p))

\* What lies between two tags is a tick, and the ticks OBS sent nothing in.
QuietInv ==
  /\ left \in [quiet : 0 .. Quiet, lag : 0 .. Lag, events : Nat]
  /\ \A s \in Seqs : s + 1 \in Seqs => ring[s + 1] - ring[s] <= 1 + Quiet
  /\ obs.alive /\ Seqs # {} =>
       Clock - LatestTs <= Quiet - left.quiet + (IF obs.sentNow THEN 0 ELSE 1)

\* A run airs as late as asked, unless less was to be had where it started; its tags
\* air in their time, and the next one is due before long.
RunInv(p) ==
  /\ p.wall <= now
  /\ InRun(p) => Seqs # {} /\ Late(p) >= 0 /\ (owed \/ Late(p) >= target)
  /\ p.token = obs.token /\ Between(p) =>
       /\ p.pos - 1 \in Seqs => Due(p, ring[p.pos - 1]) <= now
       /\ p.pos \in Seqs => Due(p, ring[p.pos]) <= now + 1 + Quiet
  /\ p.token = obs.token /\ InHand(p) =>
       /\ p.pos \in Seqs => p.ts = ring[p.pos]
       /\ p.pos + 1 \in Seqs => ring[p.pos + 1] - p.ts <= 1 + Quiet
  /\ p.pc = "pace" => Due(p, p.ts) <= now + 1 + Quiet
  /\ p.pc = "send" => Due(p, p.ts) <= now

\* A keyframe OBS's new video is rejoined at cannot be behind the pump: the pump is
\* before all of that publisher's tags, or at a keyframe as late as asked.
Bound(p) == \/ p.pos = Nowhere \/ p.pos <= obs.start
            \/ /\ p.pos < next
               /\ p.pos \in Seqs => p.pos \in Idrs /\ (owed \/ Age(p.pos) >= target)

\* OBS's new video, after seq a, is ahead of the pump.
AfterOf(p, a)  == IF a # None THEN p.pos <= a + 1 ELSE \A s \in Seqs : p.pos <= s
ScreenAhead(p) == IF p.since = None THEN HoldState = "resumed" => AfterOf(p, hold.after)
                  ELSE AfterOf(p, p.after)

Awaiting(p) == /\ p.pos # Nowhere => p.mark # None /\ \A s \in Idrs : s > p.mark => s >= p.pos
               /\ p.goal = "reanchor" => Bound(p)
Screened(p) == /\ p.goal \in {"rejoin", "join"}
               /\ p.pos = Nowhere \/ Bound(p) \/ ScreenAhead(p)

\* Where the pump lands next is ahead of it, or may be replayed.
Staged(p) == /\ p.pc \in {"off", "dial", "seed"} => p.pos = Nowhere
             /\ p.pc = "await" => Awaiting(p)
             /\ p.pc = "screen" => Screened(p)
StageInv(p) == Staged(p) /\ (Between(p) /\ p.token # obs.token => Bound(p))

\* When a jump back to tag s is in order.
MayReplay(s) == ~ObsGone /\ ~HoldActive /\ (owed \/ Gap(s))
Ahead(p, s)  == p.pos = Nowhere \/ s >= p.pos \/ MayReplay(s)

\* A run starts at r, or the pump is off, waits for a keyframe or is on the screen.
Starts(r) == r.pc = "top" /\ r.pos \in Idrs /\ r.anchor = ring[r.pos] /\ r.wall = now
Rests(r)  == r.pc \in {"off", "dial", "seed", "await", "screen"} /\ r.wall <= now
Outcome(p, r) == \/ Starts(r) /\ Ahead(p, r.pos)
                 \/ Rests(r) /\ Staged(r) /\ r.pos \in {p.pos, Nowhere}

LEMMA AnchoredStarts ==
  ASSUME NEW p \in PumpSet, NEW s \in Idrs
  PROVE  Starts(Anchored(p, s)) /\ Anchored(p, s).pos = s /\ Anchored(p, s).token = p.token
BY DEF Starts, Anchored, PumpSet

LEMMA EndedRests == ASSUME EnvInv, NEW p PROVE Outcome(p, Ended)
<1>1. now \in Nat
  BY DEF EnvInv, EnvTypes
<1>2. Ended.pc = "off" /\ Ended.wall = 0 /\ Ended.pos = Nowhere
  BY DEF Ended, NoPump
<1>3. QED
  BY <1>1, <1>2 DEF Outcome, Rests, Staged

\* OBS's new video is joined ahead of such a pump, but for a longer delay or a gap.
LEMMA BoundIsAhead ==
  ASSUME EnvInv, NEW p \in PumpSet, Bound(p), NEW from \in Nat, RejoinIdr(from) # None
  PROVE  \/ p.pos = Nowhere \/ RejoinIdr(from) >= p.pos \/ owed \/ Gap(RejoinIdr(from))
<1> DEFINE to   == RejoinIdr(from)
           ago  == IF LatestTs > target THEN LatestTs - target ELSE 0
           back == Newest(Upto(ago))
           new  == {s \in Idrs : s >= from}
<1>1. /\ None = -1 /\ Idrs \subseteq Seqs /\ Seqs \subseteq Nat /\ target \in Nat /\ now \in Nat
      /\ next \in Nat /\ obs.born \in Nat /\ obs.start \in Nat /\ p.pos \in Nat
      /\ \A s \in Seqs : ring[s] \in Nat /\ obs.start <= s
      /\ \A s \in Seqs, t \in Nat : s <= t /\ t < next => t \in Seqs
  BY ConstantTypes, IdrsAreTags DEF EnvInv, EnvTypes, RingInv, ObsSet, PumpSet
<1>2. to \in Idrs /\ to >= from /\ to \in Nat
  <2>1. to \in Idrs /\ to >= from
    BY RejoinIdrIsNew
  <2>2. QED
    BY <1>1, <2>1
<1>3. CASE p.pos <= obs.start
  BY <1>1, <1>2, <1>3
<1>4. CASE p.pos < next /\ p.pos \notin Seqs
  <2>1. ASSUME to < p.pos PROVE FALSE
    BY <1>1, <1>2, <1>4, <2>1
  <2>2. QED
    BY <1>1, <1>2, <2>1
<1>5. CASE p.pos \in Idrs /\ Age(p.pos) >= target
  <2> SUFFICES ASSUME ~Gap(to), to < p.pos PROVE FALSE
    BY <1>1, <1>2
  <2>1. Seqs # {} /\ LatestSeq = Max(Seqs) /\ LatestTs \in Nat /\ ring[p.pos] \in Nat
    BY <1>1, <1>5, EndsOf
  <2>2. now <= obs.born + LatestTs
    <3>1. Age(LatestSeq) = now - (obs.born + LatestTs)
      BY <2>1 DEF Age, LatestTs
    <3>2. ~(Age(LatestSeq) > 0)
      BY DEF Gap
    <3>3. QED
      BY <1>1, <2>1, <3>1, <3>2
  <2>3. ring[p.pos] <= LatestTs - target
    BY <1>1, <1>5, <2>1, <2>2 DEF Age
  <2>4. ago = LatestTs - target
    BY <1>1, <2>1, <2>3
  <2>5. p.pos \in Upto(ago) /\ Upto(ago) \subseteq Seqs
    BY <1>1, <1>5, <2>3, <2>4 DEF Upto
  <2>6. back \in Nat /\ p.pos <= back
    BY <2>5, NewestOf
  <2>7. to = back \/ (to \in new /\ ~(back >= from))
    <3>1. to = IF Seqs # {} /\ back >= from THEN back ELSE Oldest(new)
      BY DEF RejoinIdr
    <3>2. new \subseteq Seqs
      BY <1>1
    <3>3. Oldest(new) = None \/ Oldest(new) \in new
      BY <3>2, OldestOf
    <3> HIDE DEF to, back, new
    <3>4. QED
      BY <1>2, <2>1, <3>1, <3>3, <1>1
  <2> HIDE DEF to, back, new
  <2>8. QED
    BY <1>1, <1>2, <2>6, <2>7
<1>6. QED
  BY <1>3, <1>4, <1>5 DEF Bound

\* With OBS back from a hold it is there, and the hold is over.
LEMMA ResumedIsLive ==
  ASSUME FrozenInv, HoldState = "resumed", obs.alive PROVE ~ObsGone /\ ~HoldActive
BY DEF FrozenInv, HoldState, ObsGone, HoldActive

LEMMA RejoinedOutcome ==
  ASSUME EnvInv, FrozenInv, NEW p, Screening(p), p.wall <= now, p.goal \in {"rejoin", "join"},
         NEW from \in Nat, HoldState = "resumed", obs.alive,
         p.pos = Nowhere \/ Bound(p) \/ \A s \in Idrs : s >= from => s >= p.pos
  PROVE  Outcome(p, Rejoined(p, from))
<1> DEFINE b == Rebased(p)
           q == [b EXCEPT !.token = IF p.goal = "join" THEN obs.token ELSE @]
           a == [q EXCEPT !.token = obs.token]
           w == [q EXCEPT !.pc = "await", !.mark = Max({from - 1, 0})]
           s == RejoinIdr(from)
<1>1. p \in PumpSet /\ obs.token \in Nat /\ None = -1 /\ None \in NatOrNone
  BY ConstantTypes DEF Screening, EnvInv, EnvTypes, ObsSet, NatOrNone
<1>2. b \in PumpSet /\ b.pos = p.pos /\ b.wall = p.wall /\ b.goal = p.goal
  <2>1. b = [p EXCEPT !.high = p.high - p.last, !.anchor = p.sent, !.last = 0,
                      !.since = None, !.after = None, !.ref = None]
    BY DEF Rebased
  <2> HIDE DEF b
  <2>2. PumpRecord(b)
    BY <1>1, <2>1 DEF PumpSet, PumpRecord
  <2>3. PumpFields(b)
    BY <1>1, <2>1 DEF PumpSet, PumpFields, Places
  <2>4. QED
    BY <1>1, <2>1, <2>2, <2>3, PumpTyped DEF PumpSet
<1> HIDE DEF b
<1>3. q \in PumpSet /\ q.pos = p.pos /\ q.wall = p.wall /\ q.goal = p.goal
  BY <1>1, <1>2 DEF PumpSet
<1>4. Rejoined(p, from) = IF s # None THEN Anchored(a, s) ELSE IF ~obs.alive THEN Ended ELSE w
  BY DEF Rejoined, b
<1> HIDE DEF q
<1>5. CASE s # None
  <2>1. s \in Idrs /\ s >= from
    BY <1>5, RejoinIdrIsNew
  <2>2. a \in PumpSet
    BY <1>1, <1>3 DEF PumpSet
  <2>3. Starts(Anchored(a, s)) /\ Anchored(a, s).pos = s
    BY <2>1, <2>2, AnchoredStarts
  <2>4. Ahead(p, s)
    BY <1>1, <1>5, <2>1, BoundIsAhead, ResumedIsLive DEF Ahead, MayReplay
  <2> HIDE DEF s
  <2>5. Rejoined(p, from) = Anchored(a, s)
    BY <1>4, <1>5
  <2>6. QED
    BY <2>3, <2>4, <2>5 DEF Outcome
<1>6. CASE s = None
  <2>1. \A t \in Idrs : t < from /\ t \in Nat
    BY <1>1, <1>6, RejoinIdrIsNew, IdrsAreTags
  <2>2. PICK m \in Nat : m = Max({from - 1, 0}) /\ m >= from - 1
    <3>1. Max({from - 1, 0}) = IF from - 1 >= 0 THEN from - 1 ELSE 0
      BY MaxOfTwo
    <3>2. QED
      BY <3>1
  <2>3. w.pc = "await" /\ w.mark = m /\ w.pos = p.pos /\ w.wall = p.wall /\ w.goal = p.goal
    BY <1>3, <2>2 DEF PumpSet
  <2>4. \A t \in Idrs : ~(t > m)
    BY <2>1, <2>2
  <2>5. m # None
    BY <1>1
  <2> HIDE DEF w
  <2>6. Awaiting(w)
    BY <2>3, <2>4, <2>5 DEF Awaiting
  <2>7. Rejoined(p, from) = w
    BY <1>4, <1>6
  <2>8. QED
    BY <2>3, <2>6, <2>7 DEF Outcome, Rests, Staged
<1>7. QED
  BY <1>5, <1>6

LEMMA OnScreenOutcome ==
  ASSUME EnvInv, FrozenInv, NEW p, Screening(p), p.wall <= now, Screened(p)
  PROVE  Outcome(p, OnScreen(p))
<1> DEFINE q     == IF p.since = None THEN [p EXCEPT !.since = now, !.after = hold.after] ELSE p
           first == IF q.after # None THEN q.after + 1 ELSE Oldest(Seqs)
           h     == [p EXCEPT !.since = None, !.after = None]
           r     == OnScreen(p)
<1>1. /\ p \in PumpSet /\ None = -1 /\ now \in Nat /\ p.pc = "screen"
      /\ p.goal \in {"rejoin", "join"} /\ hold.after \in NatOrNone
      /\ Seqs \subseteq Nat /\ Idrs \subseteq Seqs /\ p.pos \in Nat
  BY ConstantTypes, IdrsAreTags
     DEF Screening, Screened, EnvInv, EnvTypes, HoldSet, PumpSet
<1>2. /\ Screening(q) /\ q.pos = p.pos /\ q.since # None /\ q.pc = "screen" /\ q.wall = p.wall
      /\ q.goal = p.goal /\ q.after \in NatOrNone
      /\ p.since = None => q.after = hold.after
      /\ p.since # None => q = p
  <2>1. CASE p.since = None
    <3>1. q = [p EXCEPT !.since = now, !.after = hold.after]
      BY <2>1
    <3> HIDE DEF q
    <3>2. PumpRecord(q)
      BY <1>1, <3>1 DEF PumpSet, PumpRecord
    <3>3. PumpFields(q)
      BY <1>1, <3>1 DEF PumpSet, PumpFields, NatOrNone
    <3>4. /\ q.token = p.token /\ q.heard = p.heard /\ q.pos = p.pos /\ q.pc = p.pc
          /\ q.high = p.high /\ q.last = p.last /\ q.since = now /\ q.after = hold.after
          /\ q.wall = p.wall /\ q.goal = p.goal
      BY <1>1, <3>1 DEF PumpSet
    <3>5. QED
      BY <1>1, <2>1, <3>2, <3>3, <3>4, PumpTyped DEF Screening
  <2>2. CASE p.since # None
    BY <1>1, <2>2 DEF PumpSet, Screening
  <2>3. QED
    BY <2>1, <2>2
<1>3. h.pos = p.pos /\ h.pc = "screen" /\ h.wall = p.wall /\ h.goal = p.goal /\ h.since = None
  BY <1>1 DEF PumpSet
<1>4. r = IF HoldState = "holding" THEN h
          ELSE IF HoldState = "ended" \/ ~obs.alive THEN Ended
          ELSE IF first # None /\ Rebuilt(q, first) THEN Rejoined(q, first)
          ELSE q
  BY DEF OnScreen
<1>5. first \in NatOrNone
  BY <1>1, <1>2, OldestOf DEF NatOrNone
<1>6. HoldState \in {"holding", "resumed", "ended"}
  BY DEF HoldState
<1>7. ASSUME HoldState = "resumed"
      PROVE  q.pos = Nowhere \/ Bound(q) \/ AfterOf(q, q.after)
  <2>1. p.pos = Nowhere \/ Bound(p) \/ ScreenAhead(p)
    BY DEF Screened
  <2>2. Bound(p) => Bound(q)
    BY <1>2 DEF Bound
  <2>3. ScreenAhead(p) => AfterOf(q, q.after)
    BY <1>2, <1>7 DEF ScreenAhead, AfterOf
  <2>4. QED
    BY <1>2, <2>1, <2>2, <2>3
<1>8. ASSUME HoldState = "resumed", first # None
      PROVE  q.pos = Nowhere \/ Bound(q) \/ \A s \in Idrs : s >= first => s >= q.pos
  <2>1. ASSUME AfterOf(q, q.after), NEW s \in Idrs, s >= first PROVE s >= q.pos
    <3>1. CASE q.after # None
      BY <1>1, <1>2, <2>1, <3>1 DEF AfterOf, NatOrNone
    <3>2. CASE q.after = None
      BY <1>1, <1>2, <2>1, <3>2 DEF AfterOf
    <3>3. QED
      BY <3>1, <3>2
  <2>2. QED
    BY <1>7, <1>8, <2>1
<1> HIDE DEF q, first, h
<1>9. CASE HoldState = "holding"
  <2>1. Screened(h)
    <3>1. ScreenAhead(h)
      BY <1>3, <1>9 DEF ScreenAhead
    <3>2. QED
      BY <1>1, <1>3, <3>1 DEF Screened
  <2>2. QED
    BY <1>3, <1>4, <1>9, <2>1 DEF Outcome, Rests, Staged
<1>10. CASE HoldState = "ended" \/ ~obs.alive
  BY <1>4, <1>9, <1>10, EndedRests
<1>11. CASE HoldState = "resumed" /\ obs.alive /\ first # None /\ Rebuilt(q, first)
  <2>1. first \in Nat
    BY <1>5, <1>11 DEF NatOrNone
  <2>2. Outcome(q, Rejoined(q, first))
    BY <1>1, <1>2, <1>8, <1>11, <2>1, RejoinedOutcome
  <2>3. r = Rejoined(q, first)
    BY <1>4, <1>11
  <2> HIDE DEF r
  <2>4. QED
    BY <1>2, <2>2, <2>3 DEF Outcome, Ahead, r
<1>12. CASE HoldState = "resumed" /\ obs.alive /\ ~(first # None /\ Rebuilt(q, first))
  <2>1. Screened(q)
    <3>1. AfterOf(q, q.after) => ScreenAhead(q)
      BY <1>2 DEF ScreenAhead
    <3>2. QED
      BY <1>1, <1>2, <1>7, <1>12, <3>1 DEF Screened
  <2>2. QED
    BY <1>2, <1>4, <1>12, <2>1 DEF Outcome, Rests, Staged
<1>13. QED
  BY <1>6, <1>9, <1>10, <1>11, <1>12

\* A pump that turns to the screen is ahead of what comes after the hold that is on.
LEMMA PlayScreenOutcome ==
  ASSUME EnvInv, FrozenInv, NEW p, Ready(p), NEW goal \in {"rejoin", "join"},
         p.pos = Nowhere \/ Bound(p) \/ HoldActive
  PROVE  /\ Outcome(p, PlayScreen(p, goal))
         /\ HoldActive => Rests(PlayScreen(p, goal))
<1> DEFINE q == [p EXCEPT !.pc = "screen", !.goal = goal, !.wall = now, !.until = now,
                     !.last = p.sent - p.anchor + 1]
<1>1. /\ p \in PumpSet /\ now \in Nat /\ p.sent \in Int /\ p.anchor \in Int /\ p.high \in Int
      /\ p.high <= p.sent - p.anchor
  BY DEF Ready, EnvInv, EnvTypes, PumpSet
<1>2. q = [p EXCEPT !.pc = "screen", !.goal = goal, !.wall = now, !.until = now,
                     !.last = p.sent - p.anchor + 1]
  OBVIOUS
<1>3. PlayScreen(p, goal) = OnScreen(q)
  BY DEF PlayScreen
<1> HIDE DEF q
<1>4. PumpRecord(q)
  BY <1>1, <1>2 DEF PumpSet, PumpRecord
<1>5. PumpFields(q)
  BY <1>1, <1>2 DEF PumpSet, PumpFields, Places
<1>6. /\ q.token = p.token /\ q.heard = p.heard /\ q.pos = p.pos /\ q.pc = "screen"
      /\ q.since = p.since /\ q.high = p.high /\ q.last = p.sent - p.anchor + 1
      /\ q.wall = now /\ q.goal = goal /\ p.since = None
  BY <1>1, <1>2 DEF PumpSet, Ready
<1>7. Screening(q)
  BY <1>1, <1>4, <1>5, <1>6, PumpTyped DEF Ready, Screening
<1>8. HoldActive => HoldState = "holding"
  BY DEF HoldState
<1>9. Screened(q)
  <2>1. Bound(p) => Bound(q)
    BY <1>6 DEF Bound
  <2>2. HoldActive => ScreenAhead(q)
    BY <1>6, <1>8 DEF ScreenAhead
  <2>3. QED
    BY <1>6, <2>1, <2>2 DEF Screened
<1>10. Outcome(q, OnScreen(q))
  BY <1>1, <1>6, <1>7, <1>9, OnScreenOutcome
<1>11. Outcome(p, OnScreen(q))
  BY <1>6, <1>10 DEF Outcome, Ahead
<1>12. HoldActive => Rests(OnScreen(q))
  <2> SUFFICES ASSUME HoldActive PROVE Rests(OnScreen(q))
    OBVIOUS
  <2>1. OnScreen(q).pc = "screen"
    <3>1. OnScreen(q) = [q EXCEPT !.since = None, !.after = None]
      BY <1>8 DEF OnScreen
    <3>2. QED
      BY <1>6, <1>7, <3>1 DEF Screening, PumpSet
  <2>2. QED
    BY <1>11, <2>1 DEF Outcome, Starts
<1>13. QED
  BY <1>3, <1>11, <1>12

LEMMA FoundOutcome ==
  ASSUME EnvInv, FrozenInv, NEW p, Ready(p), NEW s \in Idrs, p.pos = Nowhere \/ s >= p.pos,
         p.goal = "reanchor" => Bound(p)
  PROVE  Outcome(p, Found(p, s))
<1> DEFINE j == [p EXCEPT !.token = obs.token]
           q == [p EXCEPT !.token = p.heard]
<1>1. p \in PumpSet /\ obs.token \in Nat /\ p.heard \in Nat /\ p.heard <= obs.token
  BY DEF Ready, EnvInv, EnvTypes, ObsSet, PumpSet
<1>2. Ready(j) /\ Ready(q) /\ q.pos = p.pos
  BY <1>1 DEF Ready, PumpSet
<1>3. \/ Found(p, s) \in {Anchored(j, s), Anchored(q, s), Anchored(p, s)}
      \/ Found(p, s) = PlayScreen(q, "rejoin") /\ p.goal = "reanchor"
  BY DEF Found
<1> HIDE DEF j, q
<1>4. ASSUME NEW r, Ready(r) PROVE Outcome(p, Anchored(r, s))
  BY <1>4, AnchoredStarts DEF Outcome, Ahead, Ready
<1>5. ASSUME p.goal = "reanchor" PROVE Outcome(p, PlayScreen(q, "rejoin"))
  <2>1. Bound(q)
    BY <1>2, <1>5 DEF Bound
  <2>2. Outcome(q, PlayScreen(q, "rejoin"))
    BY <1>2, <2>1, PlayScreenOutcome
  <2>3. QED
    BY <1>2, <2>2 DEF Outcome, Ahead
<1>6. Ready(p)
  OBVIOUS
<1>7. QED
  BY <1>2, <1>3, <1>4, <1>5, <1>6

\* The wait for a keyframe, when those it takes are ahead of the pump.
LEMMA AwaitIdrOutcome ==
  ASSUME EnvInv, FrozenInv, NEW p, Ready(p), p.wall <= now, Awaiting(p)
  PROVE  /\ Outcome(p, AwaitIdr(p))
         /\ (p.mark # None /\ \A s \in Idrs : ~(s > p.mark)) => Rests(AwaitIdr(p))
<1> DEFINE s == Newest(Idrs)
           w == [p EXCEPT !.pc = "await"]
<1>1. p \in PumpSet /\ fresh \in Nat /\ None = -1 /\ p.mark \in NatOrNone /\ p.pos \in Nat
  BY ConstantTypes DEF Ready, EnvInv, EnvTypes, PumpSet
<1>2. AwaitIdr(p) = IF s >= Beyond(p) THEN Found(p, s) ELSE IF ~obs.alive THEN Ended ELSE w
  BY DEF AwaitIdr, Beyond
<1>3. s = None \/ (s \in Idrs /\ s \in Nat)
  BY NewestOf, IdrsAreTags
<1>4. Beyond(p) \in Nat /\ (p.mark # None => Beyond(p) = p.mark + 1 /\ p.mark \in Nat)
  BY <1>1 DEF Beyond, NatOrNone
<1> HIDE DEF s
<1>5. CASE s >= Beyond(p)
  <2>1. s \in Idrs /\ s \in Nat
    BY <1>1, <1>3, <1>4, <1>5
  <2>2. p.mark # None => s > p.mark
    BY <1>4, <1>5, <2>1
  <2>3. p.pos = Nowhere \/ s >= p.pos
    BY <2>1, <2>2 DEF Awaiting
  <2>4. Outcome(p, Found(p, s))
    BY <2>1, <2>3, FoundOutcome DEF Awaiting
  <2>5. QED
    BY <1>2, <1>5, <2>1, <2>2, <2>4
<1>6. CASE ~(s >= Beyond(p)) /\ ~obs.alive
  <2>1. Rests(Ended)
    BY EndedRests DEF Outcome, Starts, Ended, NoPump
  <2>2. QED
    BY <1>2, <1>6, <2>1, EndedRests
<1>7. CASE ~(s >= Beyond(p)) /\ obs.alive
  <2>1. w.pos = p.pos /\ w.wall = p.wall /\ w.mark = p.mark /\ w.pc = "await" /\ w.goal = p.goal
    BY <1>1 DEF PumpSet
  <2> HIDE DEF w
  <2>2. Awaiting(w)
    BY <2>1 DEF Awaiting, Bound
  <2>3. QED
    BY <1>2, <1>7, <2>1, <2>2 DEF Outcome, Rests, Staged
<1>8. QED
  BY <1>5, <1>6, <1>7

LEMMA SeedOutcome ==
  ASSUME EnvInv, FrozenInv, NEW p, Ready(p), p.wall <= now, p.pos = Nowhere
  PROVE  Outcome(p, Seed(p))
<1> DEFINE a == [p EXCEPT !.mark = None, !.goal = "seed"]
           w == [p EXCEPT !.pc = "seed"]
           s == DelayedIdr(target)
<1>1. p \in PumpSet /\ target \in Nat /\ None \in NatOrNone
  BY DEF Ready, EnvInv, EnvTypes, NatOrNone
<1>2. Seed(p) = IF target = 0 THEN AwaitIdr(a)
                ELSE IF s # None THEN Anchored(p, s) ELSE IF ~obs.alive THEN Ended ELSE w
  BY DEF Seed
<1>3. Ready(a) /\ a.pos = p.pos /\ a.goal = "seed" /\ a.wall = p.wall
  BY <1>1 DEF Ready, PumpSet
<1>4. w.pos = p.pos /\ w.wall = p.wall /\ w.pc = "seed"
  BY <1>1 DEF PumpSet
<1> HIDE DEF a, w, s
<1>5. Outcome(p, AwaitIdr(a))
  <2>1. Awaiting(a)
    BY <1>3 DEF Awaiting
  <2>2. Outcome(a, AwaitIdr(a))
    BY <1>3, <2>1, AwaitIdrOutcome
  <2>3. QED
    BY <1>3, <2>2 DEF Outcome, Ahead
<1>6. s # None => Outcome(p, Anchored(p, s))
  BY <1>1, DelayedIdrIsFresh, AnchoredStarts DEF s, Outcome, Ahead
<1>7. Outcome(p, w)
  BY <1>4 DEF Outcome, Rests, Staged
<1>8. QED
  BY <1>2, <1>5, <1>6, <1>7, EndedRests

\* A pump whose publisher is gone waits for the new one's next keyframe.
LEMMA ReanchorRests ==
  ASSUME EnvInv, FrozenInv, NEW p, Ready(p), p.wall <= now, Bound(p)
  PROVE  Rests(Reanchor(p)) /\ Outcome(p, Reanchor(p))
<1> DEFINE m == IF LatestSeq = None THEN 0 ELSE LatestSeq
           q == [p EXCEPT !.heard = obs.token, !.goal = "reanchor", !.mark = m]
<1>1. p \in PumpSet /\ obs.token \in Nat /\ None = -1
  BY ConstantTypes DEF Ready, EnvInv, EnvTypes, ObsSet
<1>2. m \in Nat /\ \A s \in Idrs : ~(s > m)
  <2>1. \/ Seqs = {} /\ LatestSeq = None
        \/ LatestSeq \in Seqs /\ LatestSeq \in Nat /\ \A s \in Seqs : s <= LatestSeq
    BY NewestOf DEF LatestSeq
  <2>2. Idrs \subseteq Seqs /\ Idrs \subseteq Nat
    BY IdrsAreTags
  <2>3. QED
    BY <1>1, <2>1, <2>2
<1>3. Reanchor(p) = AwaitIdr(q)
  BY DEF Reanchor
<1> HIDE DEF m
<1>4. Ready(q) /\ q.pos = p.pos /\ q.mark = m /\ q.wall = p.wall /\ q.goal = "reanchor"
  <2>0. q = [p EXCEPT !.heard = obs.token, !.goal = "reanchor", !.mark = m]
    OBVIOUS
  <2> HIDE DEF q
  <2>1. PumpRecord(q)
    BY <1>1, <2>0 DEF PumpSet, PumpRecord
  <2>2. PumpFields(q)
    BY <1>1, <1>2, <2>0 DEF PumpSet, PumpFields, NatOrNone
  <2>3. /\ q.token = p.token /\ q.heard = obs.token /\ q.pos = p.pos /\ q.since = p.since
        /\ q.high = p.high /\ q.sent = p.sent /\ q.anchor = p.anchor /\ q.mark = m
        /\ q.wall = p.wall /\ q.goal = "reanchor"
    BY <1>1, <2>0 DEF PumpSet
  <2>4. QED
    BY <1>1, <2>1, <2>2, <2>3, PumpTyped DEF Ready
<1> HIDE DEF q
<1>5. Awaiting(q)
  <2>1. Bound(q)
    BY <1>4 DEF Bound
  <2>2. q.mark # None
    BY <1>1, <1>2, <1>4
  <2>3. QED
    BY <1>2, <1>4, <2>1, <2>2 DEF Awaiting
<1>6. Outcome(q, AwaitIdr(q)) /\ Rests(AwaitIdr(q))
  <2>1. q.mark # None
    BY <1>1, <1>2, <1>4
  <2>2. QED
    BY <1>2, <1>4, <1>5, <2>1, AwaitIdrOutcome
<1>7. QED
  BY <1>3, <1>4, <1>6 DEF Outcome, Ahead

\* No two tags of the buffer are of the same tick.
LEMMA TagsAreApart ==
  ASSUME EnvInv, NEW s \in Seqs, NEW t \in Seqs, s <= t
  PROVE  ring[s] + (t - s) <= ring[t]
<1> DEFINE close == {u \in Seqs : s <= u /\ ring[s] + (u - s) > ring[u]}
<1>1. /\ Seqs \subseteq Nat /\ next \in Nat
      /\ \A k \in Seqs : ring[k] \in Nat /\ k < next
      /\ \A k \in Seqs, u \in Nat : k <= u /\ u < next => u \in Seqs
      /\ \A k, u \in Seqs : k < u => ring[k] < ring[u]
  BY DEF EnvInv, EnvTypes, RingInv
<1>2. ASSUME close # {} PROVE FALSE
  <2>1. PICK u \in close : \A v \in close : u <= v
    <3>1. close \subseteq Nat
      BY <1>1
    <3>2. QED
      BY <1>2, <3>1, LeastNatural
  <2>2. u \in Seqs /\ s < u /\ ring[s] + (u - s) > ring[u]
    BY <1>1, <2>1
  <2>3. u - 1 \in Seqs
    BY <1>1, <2>2
  <2>4. ring[u - 1] < ring[u]
    BY <1>1, <2>2, <2>3
  <2>5. u - 1 \notin close
    BY <1>1, <2>1, <2>3
  <2>6. QED
    BY <1>1, <2>2, <2>3, <2>4, <2>5
<1>3. QED
  BY <1>1, <1>2

\* A cut back is for a delay longer than the run's, or one that OBS has let shrink.
LEMMA CutIsAhead ==
  ASSUME EnvInv, NEW p, Following(p), RunInv(p), p.pos \in Seqs, DelayCut(p.pos) # None
  PROVE  Ahead(p, DelayCut(p.pos))
<1> DEFINE s     == p.pos
           delay == LatestTs - ring[s]
           to    == DelayedIdr(target)
<1>1. /\ None = -1 /\ Seqs # {} /\ Seqs \subseteq Nat /\ target \in Nat /\ now \in Nat
      /\ obs.born \in Nat /\ next \in Nat /\ Jitter \in Nat /\ Jitter >= 1
      /\ \A k \in Seqs : ring[k] \in Nat /\ k < next
      /\ \A k \in Seqs, t \in Nat : k <= t /\ t < next => t \in Seqs
      /\ \A k, t \in Seqs : k < t => ring[k] < ring[t]
  BY ConstantTypes, TimesAssumption DEF EnvInv, EnvTypes, RingInv, ObsSet
<1>2. LatestTs \in Nat /\ LatestSeq \in Seqs /\ LatestSeq = next - 1 /\ LatestTs = ring[LatestSeq]
  BY <1>1, EndsOf DEF LatestTs
<1>3. p \in PumpSet /\ p.wall \in Nat /\ p.anchor \in Int /\ s \in Nat
      /\ p.token = obs.token /\ Between(p)
  BY DEF Following, PumpOK, PumpSet
<1>4. CASE target = 0
  <2>1. DelayCut(s) = Newest(Idrs) /\ Newest(Idrs) > s
    BY <1>4 DEF DelayCut, LiveCut
  <2>2. Newest(Idrs) = None \/ Newest(Idrs) \in Nat
    BY NewestOf, IdrsAreTags
  <2> DEFINE n == Newest(Idrs)
  <2> HIDE DEF n
  <2>3. n > s /\ (n = None \/ n \in Nat) /\ DelayCut(s) = n
    BY <2>1, <2>2 DEF n
  <2>4. n >= s
    BY <1>1, <1>3, <2>3
  <2>5. QED
    BY <2>3, <2>4 DEF Ahead
<1>5. CASE target > 0
  <2> DEFINE little == delay + Jitter < target
             much   == delay > target + Max({DeadBand, Gop + Jitter})
  <2>1. /\ DelayCut(s) = to /\ to # None
        /\ ~(little /\ (HoldActive \/ ObsGone))
        /\ to > s \/ (little /\ to < s /\ LatestTs - ring[to] > delay + Jitter)
    BY <1>5 DEF DelayCut, DelayedCut
  <2>2. to \in Seqs /\ to \in Nat
    BY <1>1, <2>1, DelayedIdrIsFresh, IdrsAreTags
  <2> HIDE DEF to
  <2>3. ASSUME little, to < s, ~owed, ~Gap(to) PROVE FALSE
    <3>1. now <= obs.born + LatestTs /\ LatestTs - ring[to] = LatestSeq - to
      <4>1. Age(LatestSeq) = now - (obs.born + LatestTs)
        BY <1>2 DEF Age
      <4>2. ~(Age(LatestSeq) > 0)
        BY <2>3 DEF Gap
      <4>3. now <= obs.born + LatestTs
        BY <1>1, <1>2, <4>1, <4>2
      <4>4. QED
        BY <2>3, <4>3 DEF Gap
    <3>2. PICK k \in Seqs : k = s - 1 /\ to <= k
      <4>1. s - 1 \in Nat /\ to <= s - 1 /\ s - 1 < next
        BY <1>1, <1>3, <2>2, <2>3
      <4>2. QED
        BY <1>1, <2>2, <4>1
    <3>3. p.wall + (ring[k] - p.anchor) <= now
      BY <1>3, <3>2 DEF RunInv, Due
    <3>4. p.wall - obs.born - p.anchor >= target
      BY <1>3, <2>3 DEF RunInv, InRun, Late
    <3>5. LatestTs - ring[k] >= target
      BY <1>1, <1>2, <1>3, <3>1, <3>3, <3>4
    <3>6. LatestTs - ring[k] = LatestSeq - k
      <4>1. ring[to] + (k - to) <= ring[k]
        BY <1>1, <2>2, <3>2, TagsAreApart
      <4>2. ring[k] + (LatestSeq - k) <= ring[LatestSeq]
        BY <1>1, <1>2, <3>2, TagsAreApart
      <4>3. QED
        BY <1>1, <1>2, <2>2, <3>1, <3>2, <4>1, <4>2
    <3>7. LatestTs - ring[s] >= LatestSeq - s
      <4>1. ring[s] + (LatestSeq - s) <= ring[LatestSeq]
        BY <1>1, <1>2, <1>3, TagsAreApart
      <4>2. QED
        BY <1>1, <1>2, <1>3, <4>1
    <3>8. delay >= target - 1
      BY <1>1, <1>2, <1>3, <3>2, <3>5, <3>6, <3>7
    <3>9. QED
      BY <1>1, <1>2, <1>3, <2>3, <3>8
  <2>4. QED
    BY <1>1, <1>3, <2>1, <2>2, <2>3 DEF Ahead, MayReplay
<1>6. QED
  BY <1>1, <1>4, <1>5

\* A run starts at r within the run of p.
Restarts(p, r) == Starts(r) /\ Ahead(p, r.pos) /\ r.token = p.token
\* r goes on in the run of p: with the tag at its place in hand, or waiting for it.
Runs(p, r)  == r.wall = p.wall /\ r.anchor = p.anchor /\ r.token = p.token
Taken(p, r) == /\ Runs(p, r) /\ r.pc = "pace" /\ r.pos = p.pos /\ r.pos \in Seqs
               /\ r.ts = ring[r.pos]
Waits(p, r) == Runs(p, r) /\ r.pc = "wait" /\ r.pos = p.pos /\ r.until = now + 1

LEMMA TakeOutcome ==
  ASSUME EnvInv, NEW p, Following(p), RunInv(p), p.pos \in Seqs
  PROVE  Taken(p, Take(p)) \/ Restarts(p, Take(p))
<1> DEFINE due == target # p.seen \/ ~p.checked
           q   == IF due THEN [p EXCEPT !.checked = TRUE, !.seen = target] ELSE p
           to  == DelayCut(p.pos)
           r   == [q EXCEPT !.pc = "pace", !.ts = ring[p.pos], !.until = 0]
<1>1. /\ p \in PumpSet /\ target \in Nat /\ ring[p.pos] \in Nat /\ p.high \in Int
      /\ p.anchor \in Int /\ p.pos \in Nat /\ PumpOK(p) /\ Between(p) /\ p.token = obs.token
      /\ None = -1
  BY ConstantTypes DEF Following, EnvInv, EnvTypes, PumpOK, PumpSet
<1>2. Take(p) = IF due /\ to # None THEN Anchored(q, to)
                ELSE IF ring[p.pos] < p.anchor THEN [q EXCEPT !.pos = @ + 1, !.pc = "top"]
                ELSE r
  BY DEF Take
<1>3. ~(ring[p.pos] < p.anchor)
  <2>1. ring[p.pos] > p.anchor + p.high /\ p.high >= None
    BY <1>1 DEF PumpOK, TimeOK
  <2>2. QED
    BY <1>1, <2>1
<1>4. /\ q \in PumpSet /\ q.token = p.token /\ q.pos = p.pos /\ q.wall = p.wall
      /\ q.anchor = p.anchor
  BY <1>1 DEF PumpSet
<1> HIDE DEF q
<1>5. CASE due /\ to # None
  <2>1. to \in Idrs
    BY <1>5, DelayCutIsOnward
  <2>2. Ahead(p, to)
    BY <1>5, CutIsAhead
  <2>3. Take(p) = Anchored(q, to)
    BY <1>2, <1>5
  <2> HIDE DEF to
  <2>4. QED
    BY <1>4, <2>1, <2>2, <2>3, AnchoredStarts DEF Restarts
<1>6. CASE ~(due /\ to # None)
  <2>1. Take(p) = r
    BY <1>2, <1>3, <1>6
  <2>2. /\ r.token = q.token /\ r.pos = q.pos /\ r.wall = q.wall /\ r.anchor = q.anchor
        /\ r.pc = "pace" /\ r.ts = ring[p.pos]
    BY <1>4 DEF PumpSet
  <2>3. QED
    BY <1>4, <2>1, <2>2 DEF Taken, Runs
<1>7. QED
  BY <1>5, <1>6

LEMMA FollowOutcome ==
  ASSUME EnvInv, NEW p, Following(p), RunInv(p)
  PROVE  LET r == Follow(p) IN Taken(p, r) \/ Restarts(p, r) \/ Waits(p, r)
<1>1. p \in PumpSet /\ p.pos \in Nat
  BY DEF Following, PumpOK, PumpSet
<1>2. CASE Seqs # {} /\ p.pos < Min(Seqs) /\ Idrs # {}
  <2>1. Follow(p) = Anchored(p, Min(Idrs))
    BY <1>2 DEF Follow
  <2>2. Min(Idrs) \in Idrs /\ Min(Idrs) \in Seqs /\ Min(Idrs) \in Nat
    <3>1. Idrs \subseteq Nat /\ Idrs \subseteq Seqs
      BY IdrsAreTags
    <3>2. Min(Idrs) \in Idrs
      BY <1>2, <3>1, MinIsLeast
    <3>3. QED
      BY <3>1, <3>2
  <2>3. Min(Seqs) <= Min(Idrs) /\ Min(Seqs) \in Nat
    BY <1>2, <2>2, EndsOf, IdrsAreTags
  <2>4. Min(Idrs) >= p.pos
    BY <1>1, <1>2, <2>2, <2>3
  <2>5. QED
    BY <1>1, <2>1, <2>2, <2>4, AnchoredStarts DEF Restarts, Ahead
<1>3. CASE ~(Seqs # {} /\ p.pos < Min(Seqs) /\ Idrs # {}) /\ p.pos \in Seqs
  BY <1>3, TakeOutcome DEF Follow
<1>4. CASE ~(Seqs # {} /\ p.pos < Min(Seqs) /\ Idrs # {}) /\ p.pos \notin Seqs
  BY <1>1, <1>4 DEF Follow, Waits, Runs, PumpSet
<1>5. QED
  BY <1>2, <1>3, <1>4

\* Is the stream over for a pump at seq s?
OverAt(s) == ~obs.alive /\ ~HoldActive /\ (~TailPlaysOut \/ TailSentAt(s))

\* At the head of the loop, a pump ends with its stream, rests, or goes on.
LEMMA TurnOutcome ==
  ASSUME EnvInv, FrozenInv, NEW p, PumpOK(p), RunInv(p), StageInv(p), p.pc = "top"
  PROVE  LET r == Turn(p)
         IN  /\ \/ Rests(r) /\ Outcome(p, r)
                \/ /\ p.token = obs.token /\ ~OverAt(p.pos)
                   /\ Taken(p, r) \/ Restarts(p, r) \/ Waits(p, r)
             /\ OverAt(p.pos) => Rests(r)
<1> DEFINE gone == ObsGone \/ HoldActive
           q    == IF gone /\ ~HoldActive THEN [p EXCEPT !.tailing = TRUE] ELSE p
           r    == Turn(p)
<1>1. p \in PumpSet /\ Between(p) /\ Ready(p) /\ None = -1
  BY FollowingIsReady, ConstantTypes DEF PumpOK, Between
<1>2. /\ q \in PumpSet /\ q.pc = "top" /\ q.token = p.token /\ q.heard = p.heard
      /\ q.pos = p.pos /\ q.since = p.since /\ q.high = p.high /\ q.sent = p.sent
      /\ q.anchor = p.anchor /\ q.ref = p.ref /\ q.wall = p.wall
  BY <1>1 DEF PumpSet
<1>3. r = IF gone /\ ~HoldActive /\ (~TailPlaysOut \/ TailSentAt(p.pos)) THEN Ended
          ELSE IF HoldActive /\ TailSentAt(p.pos) THEN PlayScreen(p, "rejoin")
          ELSE IF obs.token # q.token THEN (IF q.tailing THEN Ended ELSE Reanchor(q))
          ELSE Follow(q)
  BY DEF Turn
<1> HIDE DEF q
<1>4. Rests(Ended) /\ Outcome(p, Ended)
  BY EndedRests DEF Outcome, Starts, Ended, NoPump
<1>5. OverAt(p.pos) => r = Ended
  BY <1>3 DEF OverAt, ObsGone
<1>6. HoldActive => Rests(PlayScreen(p, "rejoin")) /\ Outcome(p, PlayScreen(p, "rejoin"))
  BY <1>1, PlayScreenOutcome
<1>7. PumpOK(q) /\ Between(q) /\ Ready(q)
  BY <1>1, <1>2, FlagsOK, FollowingIsReady
<1>8. obs.token # q.token => Rests(Reanchor(q)) /\ Outcome(p, Reanchor(q))
  <2> SUFFICES ASSUME obs.token # q.token PROVE Rests(Reanchor(q)) /\ Outcome(p, Reanchor(q))
    OBVIOUS
  <2>1. Bound(p)
    BY <1>1, <1>2 DEF StageInv
  <2>2. Bound(q)
    BY <1>2, <2>1 DEF Bound
  <2>3. q.wall <= now
    BY <1>2 DEF RunInv
  <2>4. Rests(Reanchor(q)) /\ Outcome(q, Reanchor(q))
    BY <1>7, <2>2, <2>3, ReanchorRests
  <2>5. QED
    BY <1>2, <2>4 DEF Outcome, Ahead
<1>9. obs.token = q.token => Taken(p, Follow(q)) \/ Restarts(p, Follow(q)) \/ Waits(p, Follow(q))
  <2> SUFFICES ASSUME obs.token = q.token
               PROVE  Taken(p, Follow(q)) \/ Restarts(p, Follow(q)) \/ Waits(p, Follow(q))
    OBVIOUS
  <2>1. RunInv(q)
    BY <1>1, <1>2 DEF RunInv, InRun, Between, InHand, Late, Due
  <2>2. Taken(q, Follow(q)) \/ Restarts(q, Follow(q)) \/ Waits(q, Follow(q))
    BY <1>7, <2>1, FollowOutcome DEF Following
  <2>3. QED
    BY <1>2, <2>2 DEF Taken, Restarts, Waits, Runs, Ahead
<1> HIDE DEF r
<1>10. QED
  BY <1>2, <1>3, <1>4, <1>5, <1>6, <1>8, <1>9 DEF r
-----------------------------------------------------------------------------
(* What a step of the pump does to its run.                                 *)

\* It wakes up; it sends the tag in hand, passes it over, or is done with it.
Wakes(q)  == Runs(pump, q) /\ pump.pc = "wait" /\ q.pc = "top" /\ q.pos = pump.pos
Sends(q)  == /\ Runs(pump, q) /\ pump.pc = "pace" /\ q.pc = "send" /\ q.pos = pump.pos
             /\ q.pos \in Seqs /\ q.ts = pump.ts /\ Due(pump, pump.ts) <= now
Passes(q) == /\ Runs(pump, q) /\ pump.pc = "pace" /\ q.pc = "top" /\ q.pos = pump.pos + 1
             /\ pump.pos \notin Seqs /\ Due(pump, pump.ts) <= now
Done(q)   == Runs(pump, q) /\ pump.pc = "send" /\ q.pc = "top" /\ q.pos = pump.pos + 1

\* It goes on with its run from between two tags.
GoesOn(q) == /\ Between(pump) /\ pump.token = obs.token
             /\ \/ Taken(pump, q) /\ (pump.pc = "top" => ~StreamOver)
                \/ Restarts(pump, q)
                \/ Waits(pump, q) /\ pump.pc = "top" /\ ~StreamOver

\* It lands from elsewhere, or rests.
Comes(q)  == Outcome(pump, q) /\ (pump.pc \in {"dial", "seed", "await", "screen"} \/ Rests(q))

Moves(q) == GoesOn(q) \/ Wakes(q) \/ Sends(q) \/ Passes(q) \/ Done(q) \/ Comes(q)

LEMMA PumpMoves ==
  ASSUME IInv, FrozenInv, RunInv(pump), StageInv(pump), Pump PROVE Moves(pump')
<1>1. /\ EnvInv /\ PumpOK(pump) /\ pump \in PumpSet /\ now \in Nat /\ pump.wall <= now
      /\ PlaceOK(pump) /\ TimeOK(pump) /\ pump.wall \in Nat /\ pump.pos \in Nat /\ pump.ts \in Nat
      /\ pump.anchor \in Int /\ pump.sent \in Int /\ pump.until \in Nat
  BY DEF IInv, PumpOK, PumpSet, EnvInv, EnvTypes, RunInv
<1>2. CASE PlatformDrops
  <2>1. pump' = Ended
    BY <1>2 DEF PlatformDrops, Goes
  <2>2. Rests(Ended)
    BY <1>1, EndedRests DEF Outcome, Starts, Ended, NoPump
  <2>3. QED
    BY <1>1, <2>1, <2>2, EndedRests DEF Moves, Comes
<1>3. CASE Loop
  <2>1. pump' = Turn(pump) /\ pump.pc = "top"
    BY <1>3 DEF Loop, Steps, Goes
  <2>2. OverAt(pump.pos) <=> StreamOver
    BY DEF OverAt, StreamOver
  <2>3. QED
    BY <1>1, <2>1, <2>2, TurnOutcome DEF Moves, GoesOn, Comes, Between
<1>4. CASE Seeds
  <2>1. pump' = Seed(pump) /\ pump.pc = "seed"
    BY <1>4 DEF Seeds, Steps, Goes
  <2>2. Ready(pump) /\ pump.pos = Nowhere
    BY <1>1, <2>1 DEF PlaceOK, TimeOK, Ready, StageInv, Staged
  <2>3. QED
    BY <1>1, <2>1, <2>2, SeedOutcome DEF Moves, Comes
<1>5. CASE Awaits
  <2>1. pump' = AwaitIdr(pump) /\ pump.pc = "await"
    BY <1>5 DEF Awaits, Steps, Goes
  <2>2. Ready(pump) /\ Awaiting(pump)
    BY <1>1, <2>1 DEF PlaceOK, TimeOK, Ready, StageInv, Staged
  <2>3. QED
    BY <1>1, <2>1, <2>2, AwaitIdrOutcome DEF Moves, Comes
<1>6. CASE Dial
  <2>1. pump' = [pump EXCEPT !.pc = "dial"]
    BY <1>6 DEF Dial, Steps, Goes
  <2>2. pump'.pc = "dial" /\ pump'.pos = pump.pos /\ pump'.wall = pump.wall
    BY <1>1, <2>1 DEF PumpSet
  <2>3. pump.pos = Nowhere
    BY <1>6 DEF Dial, StageInv, Staged
  <2>4. QED
    BY <1>1, <2>2, <2>3 DEF Moves, Comes, Outcome, Rests, Staged
<1>7. CASE Connected
  <2> DEFINE p == [NoPump EXCEPT !.token = obs.token]
  <2>1. pump' = (IF HoldActive THEN PlayScreen(p, "join") ELSE Seed(p)) /\ pump.pc = "dial"
    BY <1>7 DEF Connected, Steps, Goes
  <2>2. Ready(p) /\ p.pos = Nowhere /\ p.wall = 0
    <3>1. NoPump \in PumpSet /\ obs.token \in Nat /\ None = -1
      BY <1>1, EndedOK, ConstantTypes DEF Ended, PumpOK, EnvInv, EnvTypes, ObsSet
    <3>2. NoPump.heard = 0 /\ NoPump.pos = Nowhere /\ NoPump.since = None /\ NoPump.high = None
          /\ NoPump.sent = 0 /\ NoPump.anchor = 0 /\ NoPump.wall = 0
      BY DEF NoPump
    <3>3. /\ p \in PumpSet /\ p.token = obs.token /\ p.heard = NoPump.heard /\ p.pos = NoPump.pos
          /\ p.since = NoPump.since /\ p.high = NoPump.high /\ p.sent = NoPump.sent
          /\ p.anchor = NoPump.anchor /\ p.wall = NoPump.wall
      BY <3>1 DEF PumpSet
    <3>4. QED
      BY <3>1, <3>2, <3>3 DEF Ready
  <2> HIDE DEF p
  <2>3. Outcome(p, pump')
    BY <1>1, <2>1, <2>2, PlayScreenOutcome, SeedOutcome
  <2>4. Outcome(pump, pump')
    <3>1. pump.pos = Nowhere
      BY <2>1 DEF StageInv, Staged
    <3>2. QED
      BY <2>2, <2>3, <3>1 DEF Outcome, Ahead
  <2>5. QED
    BY <2>1, <2>4 DEF Moves, Comes
<1>8. CASE Wake
  <2>1. /\ pump.pc = "wait"
        /\ \/ pump' = Take(pump) /\ pump.pos \in Seqs /\ obs.token = pump.token
           \/ pump' = [pump EXCEPT !.pc = "top", !.until = 0]
    BY <1>8 DEF Wake, Steps, Goes
  <2>2. CASE pump' = [pump EXCEPT !.pc = "top", !.until = 0]
    BY <1>1, <2>1, <2>2 DEF Moves, Wakes, Runs, PumpSet
  <2>3. CASE pump' = Take(pump) /\ pump.pos \in Seqs /\ obs.token = pump.token
    <3>1. Following(pump)
      BY <1>1, <2>1, <2>3 DEF Following, Between
    <3>2. Taken(pump, pump') \/ Restarts(pump, pump')
      BY <1>1, <2>3, <3>1, TakeOutcome
    <3>3. QED
      BY <2>1, <3>1, <3>2 DEF Moves, GoesOn, Following
  <2>4. QED
    BY <2>1, <2>2, <2>3
<1>9. CASE Air
  <2>1. pump.pc = "pace" /\ Due(pump, pump.ts) <= now
    BY <1>1, <1>9 DEF Air, OutTs, Due
  <2>2. CASE pump.pos \in Seqs
    <3>1. pump' = [pump EXCEPT !.pc = "send", !.high = Max({@, OutTs}), !.ref = pump.pos]
      BY <1>9, <2>2 DEF Air, Steps, Goes
    <3>2. QED
      BY <1>1, <2>1, <2>2, <3>1 DEF Moves, Sends, Runs, PumpSet
  <2>3. CASE pump.pos \notin Seqs
    <3>1. pump' = [pump EXCEPT !.pc = "top", !.pos = @ + 1, !.ts = 0]
      BY <1>9, <2>3 DEF Air, Steps, Goes
    <3>2. QED
      BY <1>1, <2>1, <2>3, <3>1 DEF Moves, Passes, Runs, PumpSet
  <2>4. QED
    BY <2>2, <2>3
<1>10. CASE Sent
  <2>1. pump.pc = "send"
        /\ pump' = [pump EXCEPT !.pc = "top", !.pos = @ + 1, !.sent = Max({@, pump.ts}), !.ts = 0]
    BY <1>10 DEF Sent, Steps, Goes
  <2>2. QED
    BY <1>1, <2>1 DEF Moves, Done, Runs, PumpSet
<1>11. CASE Frame \/ Look
  <2> DEFINE ts == pump.sent - pump.anchor + 1 + (pump.until - pump.wall)
             p  == [pump EXCEPT !.last = ts, !.high = ts, !.until = pump.until + 1]
  <2>1. pump.pc = "screen" /\ (pump' = OnScreen(pump) \/ pump' = OnScreen(p))
    BY <1>1, <1>11 DEF Frame, Look, Steps, Goes, PumpSet
  <2>2. Screening(pump) /\ Screened(pump)
    BY <1>1, <2>1 DEF Screening, PlaceOK, TimeOK, StageInv, Staged
  <2>3. ts \in Int
    BY <1>1
  <2> HIDE DEF ts
  <2>4. /\ Screening(p) /\ p.pos = pump.pos /\ p.since = pump.since /\ p.wall = pump.wall
        /\ p.goal = pump.goal /\ p.after = pump.after
    <3>0. p = [pump EXCEPT !.last = ts, !.high = ts, !.until = pump.until + 1]
      OBVIOUS
    <3> HIDE DEF p
    <3>1. PumpRecord(p)
      BY <1>1, <3>0 DEF PumpSet, PumpRecord
    <3>2. PumpFields(p)
      BY <1>1, <2>3, <3>0 DEF PumpSet, PumpFields
    <3>3. /\ p.token = pump.token /\ p.heard = pump.heard /\ p.pos = pump.pos /\ p.pc = pump.pc
          /\ p.since = pump.since /\ p.high = ts /\ p.last = ts /\ p.wall = pump.wall
          /\ p.goal = pump.goal /\ p.after = pump.after
      BY <1>1, <3>0 DEF PumpSet
    <3>4. QED
      BY <2>2, <2>3, <3>1, <3>2, <3>3, PumpTyped DEF Screening
  <2> HIDE DEF p
  <2>5. Screened(p)
    BY <2>2, <2>4 DEF Screened, Bound, ScreenAhead, AfterOf
  <2>6. Outcome(pump, OnScreen(pump)) /\ Outcome(p, OnScreen(p))
    BY <1>1, <2>2, <2>4, <2>5, OnScreenOutcome
  <2>7. Outcome(pump, pump')
    BY <2>1, <2>4, <2>6 DEF Outcome, Ahead
  <2>8. QED
    BY <2>1, <2>7 DEF Moves, Comes
<1>12. QED
  BY <1>2, <1>3, <1>4, <1>5, <1>6, <1>7, <1>8, <1>9, <1>10, <1>11 DEF Pump

FlowInv == IInv /\ FrozenInv /\ QuietInv /\ RunInv(pump) /\ StageInv(pump)

\* What a step of the pump leaves alone, and what it notes of a landing.
LEMMA PumpGoes ==
  ASSUME Pump
  PROVE  /\ UNCHANGED <<now, ring, next, obs, hold, target, fresh>>
         /\ owed' = (IF Lands(pump') THEN Age(pump'.pos) < target ELSE owed)
         /\ over' = (IF (StreamOver /\ OnAir)' THEN over ELSE 0)
         /\ left' = left \/ Event
<1>1. ASSUME NEW q, Goes(q)
      PROVE  /\ UNCHANGED <<now, ring, next, obs, hold, target, fresh>>
             /\ owed' = (IF Lands(pump') THEN Age(pump'.pos) < target ELSE owed)
             /\ over' = (IF (StreamOver /\ OnAir)' THEN over ELSE 0)
  BY <1>1 DEF Goes, env
<1>2. \E q : Goes(q) /\ (left' = left \/ Event)
  BY DEF Pump, Dial, Connected, PlatformDrops, Loop, Seeds, Awaits, Wake, Air, Sent, Frame, Look,
         Steps
<1>3. QED
  BY <1>1, <1>2

LEMMA PumpRun == ASSUME FlowInv, Pump PROVE RunInv(pump)'
<1> DEFINE q == pump'
<1>1. /\ EnvInv /\ PumpOK(pump) /\ pump \in PumpSet /\ now \in Nat /\ PlaceOK(pump) /\ TimeOK(pump)
      /\ pump.wall \in Nat /\ pump.pos \in Nat /\ pump.ts \in Nat /\ pump.anchor \in Int
      /\ obs.born \in Nat /\ target \in Nat /\ Quiet \in Nat /\ RunInv(pump)
      /\ \A s \in Seqs : ring[s] \in Nat /\ s \in Nat
      /\ \A s, t \in Seqs : s < t => ring[s] < ring[t]
      /\ \A s \in Seqs : s + 1 \in Seqs => ring[s + 1] - ring[s] <= 1 + Quiet
  BY BoundsAssumption DEF FlowInv, IInv, PumpOK, PumpSet, EnvInv, EnvTypes, RingInv, ObsSet, QuietInv
<1>2. /\ UNCHANGED <<now, ring, next, obs, hold, target, fresh>>
      /\ owed' = (IF Lands(q) THEN Age(q.pos) < target ELSE owed)
  BY PumpGoes
<1>3. Seqs' = Seqs
  BY <1>2 DEF Seqs
<1>4. Moves(q)
  BY PumpMoves DEF FlowInv
<1> HIDE DEF q
<1>5. ASSUME Starts(q),
             pump.pc \in {"dial", "seed", "await", "screen"} \/ (InRun(pump) /\ q.token = pump.token)
      PROVE  RunInv(pump)'
  <2>1. q.pos \in Seqs /\ q.pc = "top" /\ q.anchor = ring[q.pos] /\ q.wall = now /\ q.pos \in Nat
    BY <1>1, <1>5, IdrsAreTags DEF Starts
  <2>2. Age(q.pos) \in Int /\ Age(q.pos) >= 0 /\ Age(q.pos) = Late(q)
    <3>1. Age(q.pos) \in Int /\ Age(q.pos) >= 0
      BY <1>1, <2>1, AgeOf
    <3>2. QED
      BY <1>1, <2>1, <3>1 DEF Age, Late
  <2>3. owed' \/ Late(q) >= target
    <3>1. CASE Lands(q)
      <4>1. Age(q.pos) < target => owed'
        BY <1>2, <3>1
      <4>2. ~(Age(q.pos) < target) => Late(q) >= target
        BY <1>1, <2>2
      <4>3. QED
        BY <4>1, <4>2
    <3>2. CASE ~Lands(q)
      <4>1. InRun(pump) /\ q.anchor = pump.anchor
        BY <1>5, <2>1, <3>2 DEF Lands
      <4>2. Late(pump) <= Late(q)
        BY <1>1, <2>1, <4>1 DEF Late, RunInv
      <4>3. owed \/ Late(pump) >= target
        BY <1>1, <4>1 DEF RunInv
      <4>4. Late(pump) \in Int /\ Late(q) \in Int
        BY <1>1, <2>1 DEF Late
      <4>5. QED
        BY <1>1, <1>2, <3>2, <4>2, <4>3, <4>4
    <3>3. QED
      BY <3>1, <3>2
  <2>4. q.pos - 1 \in Seqs => Due(q, ring[q.pos - 1]) <= now
    <3>1. q.pos - 1 \in Seqs => ring[q.pos - 1] < ring[q.pos]
      BY <1>1, <2>1
    <3>2. QED
      BY <1>1, <2>1, <3>1 DEF Due
  <2>5. Due(q, ring[q.pos]) <= now + 1 + Quiet
    BY <1>1, <2>1 DEF Due
  <2>6. QED
    BY <1>1, <1>2, <1>3, <2>1, <2>2, <2>3, <2>4, <2>5 DEF RunInv, InRun, Between, InHand, Late, Due, q
<1>6. CASE GoesOn(q)
  <2>1. InRun(pump) /\ Between(pump)
    BY <1>6 DEF GoesOn, InRun
  <2>2. CASE Restarts(pump, q)
    BY <1>5, <2>1, <2>2 DEF Restarts
  <2>3. CASE Waits(pump, q)
    BY <1>1, <1>2, <1>3, <2>1, <2>3
       DEF Waits, Runs, Lands, RunInv, InRun, Between, InHand, Late, Due, q
  <2>4. CASE Taken(pump, q)
    <3>1. owed' = owed
      BY <1>2, <2>4 DEF Lands, Taken
    <3>2. Due(pump, ring[pump.pos]) <= now + 1 + Quiet
      BY <1>1, <2>1, <2>4 DEF RunInv, InRun, Taken
    <3>3. pump.pos + 1 \in Seqs => ring[pump.pos + 1] - ring[pump.pos] <= 1 + Quiet
      BY <1>1, <2>4 DEF Taken
    <3>4. QED
      BY <1>1, <1>2, <1>3, <2>1, <2>4, <3>1, <3>2, <3>3
         DEF Taken, Runs, RunInv, InRun, Between, InHand, Late, Due, q
  <2>5. QED
    BY <1>6, <2>2, <2>3, <2>4 DEF GoesOn
<1>7. CASE Wakes(q)
  BY <1>1, <1>2, <1>3, <1>7 DEF Wakes, Runs, Lands, RunInv, InRun, Between, InHand, Late, Due, q
<1>8. CASE Sends(q)
  BY <1>1, <1>2, <1>3, <1>8 DEF Sends, Runs, Lands, RunInv, InRun, Between, InHand, Late, Due, q
<1>9. CASE Passes(q) \/ Done(q)
  <2>1. /\ Runs(pump, q) /\ InHand(pump) /\ q.pc = "top" /\ q.pos = pump.pos + 1
        /\ Due(pump, pump.ts) <= now
    BY <1>1, <1>9 DEF Passes, Done, InHand, RunInv
  <2>2. CASE pump.token # obs.token
    BY <1>1, <1>2, <1>3, <2>1, <2>2 DEF Runs, RunInv, InRun, Between, InHand, q
  <2>3. CASE pump.token = obs.token
    <3>1. owed' = owed
      <4>1. ~Lands(q)
        BY <1>9, <2>1 DEF Lands, Runs, Passes, Done
      <4>2. QED
        BY <1>2, <4>1
    <3>2. pump.pos \in Seqs => pump.ts = ring[pump.pos]
      BY <1>1, <2>1, <2>3 DEF RunInv
    <3>3. pump.pos + 1 \in Seqs => ring[pump.pos + 1] - pump.ts <= 1 + Quiet
      BY <1>1, <2>1, <2>3 DEF RunInv
    <3>4. q.pos - 1 = pump.pos
      BY <1>1, <2>1
    <3>5. q.pos - 1 \in Seqs => Due(q, ring[q.pos - 1]) <= now
      BY <1>1, <2>1, <3>2, <3>4 DEF Due, Runs
    <3>6. q.pos \in Seqs => Due(q, ring[q.pos]) <= now + 1 + Quiet
      BY <1>1, <2>1, <3>3 DEF Due, Runs
    <3>7. Seqs # {} /\ Late(q) >= 0 /\ (owed' \/ Late(q) >= target)
      <4>1. Seqs # {} /\ Late(pump) >= 0 /\ (owed \/ Late(pump) >= target)
        BY <1>1, <2>1, <2>3 DEF RunInv, InRun
      <4>2. Late(q) = Late(pump)
        BY <2>1 DEF Late, Runs
      <4>3. QED
        BY <3>1, <4>1, <4>2
    <3>8. QED
      BY <1>1, <1>2, <1>3, <2>1, <3>5, <3>6, <3>7
         DEF Runs, RunInv, InRun, Between, InHand, Late, Due, q
  <2>4. QED
    BY <2>2, <2>3
<1>10. CASE Comes(q)
  <2>1. CASE Rests(q)
    BY <1>1, <1>2, <2>1 DEF Rests, RunInv, InRun, Between, InHand, q
  <2>2. CASE ~Rests(q)
    BY <1>5, <1>10, <2>2 DEF Comes, Outcome
  <2>3. QED
    BY <2>1, <2>2
<1>11. QED
  BY <1>4, <1>6, <1>7, <1>8, <1>9, <1>10 DEF Moves

\* A run starts at a keyframe as late as asked, or less was to be had.
LEMMA PumpStage == ASSUME FlowInv, Pump PROVE StageInv(pump)'
<1> DEFINE q == pump'
<1>1. /\ EnvInv /\ PumpOK(pump) /\ pump \in PumpSet /\ now \in Nat /\ PlaceOK(pump)
      /\ pump.pos \in Nat /\ target \in Nat /\ obs.start \in Nat /\ next \in Nat
      /\ StageInv(pump) /\ \A s \in Seqs : s < next
  BY DEF FlowInv, IInv, PumpOK, PumpSet, EnvInv, EnvTypes, RingInv, ObsSet
<1>2. /\ UNCHANGED <<now, ring, next, obs, hold, target, fresh>>
      /\ owed' = (IF Lands(q) THEN Age(q.pos) < target ELSE owed)
  BY PumpGoes
<1>3. Seqs' = Seqs /\ Idrs' = Idrs /\ HoldState' = HoldState
  BY <1>2 DEF Seqs, Idrs, HoldState, HoldActive
<1>4. Moves(q)
  BY PumpMoves DEF FlowInv
<1> HIDE DEF q
<1>5. ASSUME q.pos <= obs.start PROVE Bound(pump)'
  BY <1>2, <1>5 DEF Bound, q
<1>6. ASSUME q.pos = pump.pos, Bound(pump), owed' = owed PROVE Bound(pump)'
  BY <1>2, <1>3, <1>6 DEF Bound, Age, q
<1>7. ASSUME Rests(q) PROVE owed' = owed
  BY <1>2, <1>7 DEF Rests, Lands
<1>8. CASE GoesOn(q) /\ q.token = obs.token
  BY <1>2, <1>8 DEF GoesOn, Restarts, Taken, Waits, Starts, StageInv, Staged, q
<1>9. CASE Wakes(q)
  <2>1. owed' = owed
    BY <1>2, <1>9 DEF Lands, Wakes, Runs
  <2>2. pump.token # obs.token => Bound(pump)'
    BY <1>1, <1>6, <1>9, <2>1 DEF Wakes, StageInv, Between
  <2>3. QED
    BY <1>2, <1>9, <2>2 DEF Wakes, Runs, StageInv, Staged, q
<1>10. CASE Sends(q)
  BY <1>10 DEF Sends, StageInv, Staged, Between, q
<1>11. CASE Passes(q) \/ Done(q)
  <2>1. /\ q.token = pump.token /\ InHand(pump) /\ q.pc = "top" /\ q.pos = pump.pos + 1
    BY <1>11 DEF Passes, Done, InHand, Runs
  <2>2. pump.token # obs.token => q.pos <= obs.start
    BY <1>1, <2>1 DEF PlaceOK
  <2>3. QED
    BY <1>2, <1>5, <2>1, <2>2 DEF StageInv, Staged, q
<1>12. CASE Comes(q)
  <2>1. CASE Rests(q)
    <3>1. owed' = owed
      BY <1>7, <2>1
    <3>2. Staged(q)
      BY <1>12, <2>1 DEF Comes, Outcome, Starts, Rests
    <3>3. Bound(q) => Bound(pump)'
      BY <1>2, <1>3, <3>1 DEF Bound, Age, q
    <3>4. ScreenAhead(q) => ScreenAhead(pump)'
      BY <1>2, <1>3 DEF ScreenAhead, AfterOf, q
    <3>5. Staged(pump)'
      BY <1>3, <3>2, <3>3, <3>4 DEF Staged, Awaiting, Screened, q
    <3>6. QED
      BY <2>1, <3>5 DEF Rests, StageInv, Between, q
  <2>2. CASE ~Rests(q)
    <3>1. Starts(q) /\ pump.pc \in {"dial", "seed", "await", "screen"} /\ q.pc = "top"
      BY <1>12, <2>2 DEF Comes, Outcome, Starts
    <3>2. Lands(q)
      BY <3>1 DEF Lands
    <3>3. q.pos \in Idrs /\ q.pos \in Seqs /\ q.pos < next /\ Age(q.pos) \in Int
      BY <1>1, <3>1, AgeOf, IdrsAreTags DEF Starts
    <3>4. owed' \/ Age(q.pos) >= target
      <4>1. Age(q.pos) < target => owed'
        BY <1>2, <3>2
      <4>2. QED
        BY <1>1, <3>3, <4>1
    <3>5. Bound(pump)'
      BY <1>2, <1>3, <3>3, <3>4 DEF Bound, Age, q
    <3>6. QED
      BY <3>1, <3>5 DEF StageInv, Staged, q
  <2>3. QED
    BY <2>1, <2>2
<1>13. GoesOn(q) => q.token = obs.token
  BY DEF GoesOn, Restarts, Taken, Waits, Runs
<1>14. QED
  BY <1>4, <1>8, <1>9, <1>10, <1>11, <1>12, <1>13 DEF Moves
-----------------------------------------------------------------------------
(* OBS, the supervisor and the streamer leave the pump's run as it is.       *)

LEMMA LeftStays ==
  ASSUME QuietInv, left' = left \/ Event
  PROVE  /\ left' \in [quiet : 0 .. Quiet, lag : 0 .. Lag, events : Nat]
         /\ left'.quiet = left.quiet /\ left'.lag = left.lag
<1>1. left \in [quiet : 0 .. Quiet, lag : 0 .. Lag, events : Nat]
  BY DEF QuietInv
<1>2. CASE left' = left
  BY <1>1, <1>2
<1>3. CASE Event
  <2>1. left.events > 0 /\ left' = [left EXCEPT !.events = left.events - 1]
    BY <1>3 DEF Event
  <2>2. left.events - 1 \in Nat
    BY <1>1, <2>1
  <2>3. QED
    BY <1>1, <2>1, <2>2
<1>4. QED
  BY <1>2, <1>3

\* A hold that closes or opens does not resume; a delay that is cut short asks for less,
\* and one that is longer is owed.
LEMMA CalmFlow ==
  ASSUME FlowInv, IInv', UNCHANGED <<now, ring, next, pump>>, left' = left \/ Event,
         obs'.token = obs.token, obs'.born = obs.born, obs'.start = obs.start,
         obs'.sentNow = obs.sentNow, obs'.alive => obs.alive,
         obs'.frozen => obs.frozen \/ hold'.open,
         ~hold'.open /\ hold'.lastEnd = "resumed"
            => ~hold.open /\ hold.lastEnd = "resumed" /\ hold'.after = hold.after,
         \A late \in Int : late >= 0 /\ (owed \/ late >= target) => owed' \/ late >= target'
  PROVE  FlowInv'
<1>1. /\ EnvInv /\ PumpOK(pump) /\ pump \in PumpSet /\ now \in Nat /\ obs.born \in Nat
      /\ target \in Nat
  BY DEF FlowInv, IInv, PumpOK, EnvInv, EnvTypes, ObsSet
<1>2. Seqs' = Seqs /\ Idrs' = Idrs
  BY DEF Seqs, Idrs
<1>3. FrozenInv'
  BY DEF FlowInv, FrozenInv
<1>4. QuietInv'
  <2>1. LatestTs' = LatestTs /\ Clock' = Clock
    BY <1>2 DEF LatestTs, Clock
  <2>2. /\ left' \in [quiet : 0 .. Quiet, lag : 0 .. Lag, events : Nat]
        /\ left'.quiet = left.quiet
    BY LeftStays DEF FlowInv
  <2>3. QED
    BY <1>2, <2>1, <2>2 DEF FlowInv, QuietInv
<1>5. RunInv(pump)'
  <2>1. InRun(pump) => Late(pump) \in Int
    BY <1>1 DEF Late, PumpSet
  <2>2. QED
    BY <1>1, <1>2, <2>1 DEF FlowInv, RunInv, InRun, Between, InHand, Late, Due
<1>6. Bound(pump) => Bound(pump)'
  <2>1. ASSUME NEW s \in Seqs PROVE Age(s) \in Int /\ Age(s) >= 0 /\ Age(s)' = Age(s)
    BY <1>1, <2>1, AgeOf DEF Age
  <2>2. QED
    BY <1>1, <1>2, <2>1 DEF Bound
<1>7. ScreenAhead(pump) => ScreenAhead(pump)'
  <2>1. HoldState' = "resumed" => HoldState = "resumed" /\ hold'.after = hold.after
    BY DEF HoldState, HoldActive
  <2>2. QED
    BY <1>2, <2>1 DEF ScreenAhead, AfterOf
<1>8. StageInv(pump)'
  BY <1>2, <1>6, <1>7 DEF FlowInv, StageInv, Staged, Awaiting, Screened, Between
<1>9. QED
  BY <1>3, <1>4, <1>5, <1>8 DEF FlowInv

LEMMA CalmFlows ==
  ASSUME FlowInv, IInv',
         \/ CheckFreeze \/ Expire \/ EndHoldNow \/ EndTailNow
         \/ \E stopped \in BOOLEAN : Drop(stopped)
         \/ \E d \in Delays : Ask(d)
  PROVE  FlowInv'
<1>1. /\ hold \in HoldSet /\ obs \in ObsSet /\ target \in Nat
  BY DEF FlowInv, IInv, EnvInv, EnvTypes
<1> DEFINE kept == ~hold'.open /\ hold'.lastEnd = "resumed"
                     => ~hold.open /\ hold.lastEnd = "resumed" /\ hold'.after = hold.after
<1>2. Closed(hold).open = FALSE /\ Closed(hold).lastEnd = "ended"
  BY <1>1 DEF Closed, HoldSet
<1>3. Started.open = TRUE
  BY <1>1 DEF Started, HoldSet
<1>4. CASE CheckFreeze
  <2>1. kept /\ hold'.open
    BY <1>3, <1>4 DEF CheckFreeze
  <2>2. /\ obs'.token = obs.token /\ obs'.born = obs.born /\ obs'.start = obs.start
        /\ obs'.sentNow = obs.sentNow /\ obs'.alive = obs.alive
    BY <1>1, <1>4 DEF CheckFreeze, ObsSet
  <2>3. UNCHANGED <<now, ring, next, pump, left, target, owed>>
    BY <1>4 DEF CheckFreeze, Around
  <2>4. QED
    BY <1>1, <2>1, <2>2, <2>3, CalmFlow
<1>5. CASE Expire \/ EndHoldNow \/ EndTailNow
  <2>1. /\ UNCHANGED <<now, ring, next, obs, pump, target, owed>>
        /\ left' = left \/ Event
    BY <1>5 DEF Expire, EndHoldNow, EndTailNow, Settle, Around
  <2>2. kept
    <3>1. CASE Expire
      <4>1. hold' = [Closed(hold) EXCEPT !.tail = ObsGone]
        BY <1>5, <3>1 DEF Expire, Settle, Expired
      <4>2. hold'.lastEnd = "ended"
        BY <1>1, <1>2, <4>1 DEF Closed, HoldSet
      <4>3. QED
        BY <4>2
    <3>2. CASE EndHoldNow
      <4>1. hold' = [Closed(hold) EXCEPT !.tail = FALSE]
        BY <1>5, <3>2 DEF EndHoldNow, Settle
      <4>2. hold'.lastEnd = "ended"
        BY <1>1, <1>2, <4>1 DEF Closed, HoldSet
      <4>3. QED
        BY <4>2
    <3>3. CASE EndTailNow
      <4>1. hold' = [hold EXCEPT !.tail = FALSE]
        BY <1>5, <3>3 DEF EndTailNow, Settle
      <4>2. hold'.lastEnd = hold.lastEnd /\ hold'.open = hold.open /\ hold'.after = hold.after
        BY <1>1, <4>1 DEF HoldSet
      <4>3. QED
        BY <4>2
    <3>4. QED
      BY <1>5, <3>1, <3>2, <3>3
  <2>3. owed' = owed /\ target' = target
    BY <2>1
  <2>4. ASSUME NEW late \in Int, late >= 0, owed \/ late >= target PROVE owed' \/ late >= target'
    BY <2>3, <2>4
  <2>5. /\ obs'.token = obs.token /\ obs'.born = obs.born /\ obs'.start = obs.start
        /\ obs'.sentNow = obs.sentNow /\ obs'.alive = obs.alive /\ obs'.frozen = obs.frozen
    BY <2>1
  <2>6. QED
    BY <2>1, <2>2, <2>4, <2>5, CalmFlow
<1>6. ASSUME NEW stopped \in BOOLEAN, Drop(stopped) PROVE FlowInv'
  <2>1. /\ UNCHANGED <<now, ring, next, pump, target, owed>> /\ Event
    BY <1>6 DEF Drop, Around
  <2>2. /\ obs'.token = obs.token /\ obs'.born = obs.born /\ obs'.start = obs.start
        /\ obs'.sentNow = obs.sentNow /\ obs'.alive = FALSE /\ obs'.frozen = obs.frozen
    BY <1>1, <1>6 DEF Drop, ObsSet
  <2>3. PICK h \in HoldSet : /\ h = (IF stopped THEN IF hold.open THEN Closed(hold) ELSE hold
                                     ELSE IF MayStart THEN Started ELSE hold)
                             /\ hold' = h \/ hold' = [h EXCEPT !.tail = TRUE, !.tailEnd = LatestSeq]
    <3>1. Closed(hold) \in HoldSet /\ Started \in HoldSet
      BY <1>1, HoldChanges DEF FlowInv, IInv
    <3>2. QED
      BY <1>1, <1>6, <3>1 DEF Drop
  <2>4. hold'.open = h.open /\ hold'.lastEnd = h.lastEnd /\ hold'.after = h.after
    BY <2>3 DEF HoldSet
  <2>5. kept
    BY <1>2, <1>3, <2>3, <2>4
  <2>6. QED
    BY <2>1, <2>2, <2>5, CalmFlow
<1>7. ASSUME NEW d \in Delays, Ask(d) PROVE FlowInv'
  <2>1. /\ UNCHANGED <<now, ring, next, obs, pump>> /\ Event /\ target' = d /\ d \in Nat
        /\ owed' = (d > 0 /\ (owed \/ d > target))
    BY <1>7, DelaysAssumption DEF Ask, Around
  <2>2. kept
    BY <1>1, <1>7 DEF Ask, HoldSet
  <2>3. ASSUME NEW late \in Int, late >= 0, owed \/ late >= target PROVE owed' \/ late >= target'
    <3>1. CASE d = 0
      BY <2>1, <2>3, <3>1
    <3>2. CASE d > 0 /\ owed
      BY <2>1, <3>2
    <3>3. CASE d > 0 /\ d > target
      BY <2>1, <3>3
    <3>4. CASE d > 0 /\ d <= target /\ ~owed
      BY <1>1, <2>1, <2>3, <3>4
    <3>5. QED
      BY <1>1, <2>1, <3>1, <3>2, <3>3, <3>4
  <2>4. QED
    BY <2>1, <2>2, <2>3, CalmFlow
<1>8. QED
  BY <1>4, <1>5, <1>6, <1>7

LEMMA OnTagFlow == ASSUME FlowInv, IInv', OnTag PROVE FlowInv'
<1>1. /\ EnvInv /\ PlaceOK(pump) /\ pump \in PumpSet /\ pump.pos \in Nat /\ pump.wall \in Nat
      /\ pump.anchor \in Int /\ pump.ts \in Nat /\ obs \in ObsSet /\ now \in Nat /\ next \in Nat
      /\ obs.born \in Nat /\ target \in Nat /\ Seqs \subseteq Nat /\ None = -1 /\ Quiet \in Nat
      /\ obs.born <= now /\ \A s \in Seqs : ring[s] \in Nat /\ s < next
  BY ConstantTypes, BoundsAssumption
     DEF FlowInv, IInv, PumpOK, PumpSet, EnvInv, EnvTypes, RingInv, ObsSet
<1>2. /\ UNCHANGED <<now, pump, target, owed, left>> /\ next' = next + 1
      /\ ~obs.sentNow /\ obs.alive
  BY DEF OnTag, Around
<1>3. /\ obs'.token = obs.token /\ obs'.start = obs.start /\ obs'.born = obs.born
      /\ obs'.sentNow = TRUE /\ obs'.frozen = FALSE
  BY <1>1 DEF OnTag, ObsSet
<1>4. /\ Seqs' \subseteq Seqs \union {next} /\ next \in Seqs'
      /\ \A s \in Seqs' : ring'[s] = IF s = next THEN Clock ELSE ring[s]
      /\ Clock \in Nat /\ Clock' = Clock
  BY <1>1, <1>2, <1>3, TagIsAdded DEF FlowInv, TagAdded, Clock
<1>5. Idrs' \subseteq Idrs \union {next} /\ \A s \in Idrs : s \in Seqs' => s \in Idrs'
  BY <1>3, <1>4 DEF Idrs
<1>6. /\ left.quiet \in 0 .. Quiet
      /\ \A s \in Seqs : s + 1 \in Seqs => ring[s + 1] - ring[s] <= 1 + Quiet
      /\ Seqs # {} => next - 1 \in Seqs /\ Clock - ring[next - 1] <= Quiet + 1
  <2>1. left.quiet \in 0 .. Quiet
    BY DEF FlowInv, QuietInv
  <2>2. ASSUME Seqs # {} PROVE next - 1 \in Seqs /\ Clock - ring[next - 1] <= Quiet + 1
    <3>1. Clock - LatestTs <= Quiet - left.quiet + 1
      BY <1>2, <2>2 DEF FlowInv, QuietInv
    <3>2. Max(Seqs) \in Seqs /\ Max(Seqs) = next - 1 /\ LatestTs = ring[next - 1] /\ LatestTs \in Nat
      BY <1>1, <2>2, EndsOf DEF LatestTs
    <3>3. QED
      BY <1>1, <1>4, <2>1, <3>1, <3>2
  <2>3. QED
    BY <2>1, <2>2 DEF FlowInv, QuietInv
<1>7. QuietInv'
  <2>1. ASSUME NEW s \in Seqs', s + 1 \in Seqs' PROVE ring'[s + 1] - ring'[s] <= 1 + Quiet
    <3>1. s \in Nat /\ s < next /\ s \in Seqs
      BY <1>1, <1>4, <2>1
    <3>2. CASE s + 1 = next
      <4>1. s = next - 1
        BY <1>1, <3>1, <3>2
      <4>2. QED
        BY <1>1, <1>4, <1>6, <2>1, <3>1, <3>2, <4>1
    <3>3. CASE s + 1 # next
      BY <1>1, <1>4, <1>6, <2>1, <3>1, <3>3
    <3>4. QED
      BY <3>2, <3>3
  <2>2. LatestTs' = Clock
    <3>1. Seqs' \subseteq 0 .. next
      BY <1>1, <1>4
    <3>2. Max(Seqs') \in Seqs' /\ Max(Seqs') >= next
      BY <1>1, <1>4, <3>1, MaxIsGreatest
    <3>3. Max(Seqs') = next
      <4>1. PICK m \in 0 .. next : m = Max(Seqs')
        BY <3>1, <3>2
      <4>2. QED
        BY <1>1, <3>2, <4>1
    <3>4. QED
      BY <1>4, <3>3 DEF LatestTs
  <2>3. Clock' - LatestTs' <= Quiet - left'.quiet + 0
    BY <1>1, <1>2, <1>4, <1>6, <2>2
  <2>4. QED
    BY <1>2, <1>3, <2>1, <2>3 DEF FlowInv, QuietInv
<1>8. RunInv(pump)'
  <2>1. ASSUME Between(pump), pump.token = obs.token
        PROVE  /\ pump.pos - 1 \in Seqs' => Due(pump, ring'[pump.pos - 1]) <= now
               /\ pump.pos \in Seqs' => Due(pump, ring'[pump.pos]) <= now + 1 + Quiet
    <3>1. /\ pump.pos <= next /\ Seqs # {}
          /\ pump.pos - 1 \in Seqs => Due(pump, ring[pump.pos - 1]) <= now
          /\ pump.pos \in Seqs => Due(pump, ring[pump.pos]) <= now + 1 + Quiet
      BY <1>1, <2>1 DEF PlaceOK, FlowInv, RunInv, InRun
    <3>2. pump.pos - 1 \in Seqs' => pump.pos - 1 \in Seqs /\ pump.pos - 1 # next
      BY <1>1, <1>4, <3>1
    <3>3. CASE pump.pos = next
      <4>1. next - 1 \in Seqs /\ Clock - ring[next - 1] <= Quiet + 1 /\ ring[next - 1] \in Nat
        BY <1>1, <1>6, <3>1
      <4>2. Due(pump, ring[next - 1]) <= now
        BY <3>1, <3>3, <4>1
      <4>3. Due(pump, Clock) <= now + 1 + Quiet
        BY <1>1, <1>4, <4>1, <4>2 DEF Due
      <4>4. QED
        BY <1>4, <3>1, <3>2, <3>3, <4>3
    <3>4. CASE pump.pos # next
      BY <1>4, <3>1, <3>2, <3>4
    <3>5. QED
      BY <3>3, <3>4
  <2>2. ASSUME InHand(pump), pump.token = obs.token
        PROVE  /\ pump.pos \in Seqs' => pump.ts = ring'[pump.pos]
               /\ pump.pos + 1 \in Seqs' => ring'[pump.pos + 1] - pump.ts <= 1 + Quiet
    <3>1. /\ pump.pos < next /\ Seqs # {}
          /\ pump.pos \in Seqs => pump.ts = ring[pump.pos]
          /\ pump.pos + 1 \in Seqs => ring[pump.pos + 1] - pump.ts <= 1 + Quiet
      BY <1>1, <2>2 DEF PlaceOK, FlowInv, RunInv, InRun
    <3>2. CASE pump.pos + 1 = next
      <4>1. pump.pos = next - 1
        BY <1>1, <3>2
      <4>2. pump.pos \in Seqs /\ Clock - pump.ts <= Quiet + 1
        BY <1>6, <3>1, <4>1
      <4>3. QED
        BY <1>1, <1>4, <3>1, <3>2, <4>2
    <3>3. CASE pump.pos + 1 # next
      BY <1>1, <1>4, <3>1, <3>3
    <3>4. QED
      BY <3>2, <3>3
  <2>3. Seqs' # {}
    BY <1>4
  <2>4. QED
    BY <1>2, <1>3, <2>1, <2>2, <2>3 DEF FlowInv, RunInv, InRun, Between, InHand, Late, Due
<1>9. Bound(pump) => Bound(pump)'
  <2>1. ASSUME pump.pos < next, pump.pos \in Seqs'
        PROVE  pump.pos \in Seqs /\ Age(pump.pos)' = Age(pump.pos)
    BY <1>1, <1>2, <1>3, <1>4, <2>1 DEF Age
  <2>2. QED
    BY <1>1, <1>2, <1>3, <1>5, <2>1 DEF Bound
<1>10. pump.pos # Nowhere => pump.pos <= next
  BY <1>1 DEF PlaceOK
<1>11. ASSUME NEW a, pump.pos # Nowhere, AfterOf(pump, a) PROVE AfterOf(pump, a)'
  BY <1>2, <1>4, <1>10, <1>11 DEF AfterOf
<1>12. pump.pos # Nowhere /\ ScreenAhead(pump) => ScreenAhead(pump)'
  <2>1. CASE pump.since # None
    BY <1>2, <1>11, <2>1 DEF ScreenAhead, AfterOf
  <2>2. CASE pump.since = None /\ ~obs.frozen
    <3>1. hold' = hold
      BY <2>2 DEF OnTag
    <3>2. HoldState' = HoldState
      BY <1>2, <3>1 DEF HoldState, HoldActive
    <3>3. QED
      BY <1>2, <1>11, <2>2, <3>1, <3>2 DEF ScreenAhead, AfterOf
  <2>3. CASE pump.since = None /\ obs.frozen /\ pump.pos # Nowhere
    <3>1. hold'.after = LatestSeq
      BY <1>1, <2>3, HoldChanges DEF OnTag, EnvInv, EnvTypes
    <3>2. Seqs # {} => LatestSeq = next - 1
      BY <1>1, EndsOf
    <3>3. Seqs = {} => LatestSeq = None
      BY DEF LatestSeq, Newest
    <3>4. IF hold'.after # None THEN pump.pos <= hold'.after + 1 ELSE \A s \in Seqs' : pump.pos <= s
      <4>1. CASE Seqs # {}
        <5>1. hold'.after = next - 1 /\ next - 1 \in Nat
          BY <1>1, <1>6, <3>1, <3>2, <4>1
        <5>2. hold'.after # None /\ hold'.after + 1 = next
          BY <1>1, <5>1
        <5>3. QED
          BY <1>10, <2>3, <5>2
      <4>2. CASE Seqs = {}
        BY <1>4, <1>10, <2>3, <3>1, <3>3, <4>2
      <4>3. QED
        BY <4>1, <4>2
    <3>5. QED
      BY <1>2, <2>3, <3>1, <3>4 DEF ScreenAhead, AfterOf
  <2>4. QED
    BY <2>1, <2>2, <2>3
<1>13. StageInv(pump)'
  <2>1. Awaiting(pump) => Awaiting(pump)'
    BY <1>2, <1>5, <1>9, <1>10 DEF Awaiting
  <2>2. Screened(pump) => Screened(pump)'
    BY <1>2, <1>9, <1>12 DEF Screened
  <2>3. QED
    BY <1>2, <1>3, <1>9, <2>1, <2>2 DEF FlowInv, StageInv, Staged, Between
<1>14. FrozenInv'
  BY <1>3 DEF FrozenInv
<1>15. QED
  BY <1>7, <1>8, <1>13, <1>14 DEF FlowInv

LEMMA PublishFlow == ASSUME FlowInv, IInv', Publish PROVE FlowInv'
<1>1. /\ EnvInv /\ PlaceOK(pump) /\ pump \in PumpSet /\ pump.pos \in Nat /\ pump.token \in Nat
      /\ obs.token \in Nat /\ next \in Nat
  BY DEF FlowInv, IInv, PumpOK, PumpSet, EnvInv, EnvTypes, ObsSet
<1>2. UNCHANGED <<now, pump, next, target, owed, left>> /\ Seqs' = {} /\ Idrs' = {}
  BY DEF Publish, Around, Seqs, Idrs
<1>3. /\ obs'.token = obs.token + 1 /\ obs'.start = next /\ obs'.frozen = FALSE
  BY DEF Publish
<1>4. pump.token # obs'.token
  BY <1>1, <1>3 DEF PlaceOK
<1>5. Bound(pump)'
  BY <1>1, <1>2, <1>3 DEF PlaceOK, Bound
<1>6. QuietInv' /\ FrozenInv'
  BY <1>2, <1>3 DEF FlowInv, QuietInv, FrozenInv
<1>7. RunInv(pump)'
  BY <1>2, <1>4 DEF FlowInv, RunInv, InRun, Due
<1>8. StageInv(pump)'
  BY <1>2, <1>5 DEF FlowInv, StageInv, Staged, Awaiting, Screened, Between
<1>9. QED
  BY <1>6, <1>7, <1>8 DEF FlowInv

LEMMA TickFlow == ASSUME FlowInv, IInv', Tick PROVE FlowInv'
<1> DEFINE q == pump'
<1>1. /\ EnvInv /\ pump \in PumpSet /\ pump.wall \in Nat /\ pump.anchor \in Int /\ pump.ts \in Nat
      /\ obs \in ObsSet /\ now \in Nat /\ obs.born \in Nat /\ target \in Nat /\ Quiet \in Nat
      /\ \A s \in Seqs : ring[s] \in Nat
  BY BoundsAssumption DEF FlowInv, IInv, PumpOK, PumpSet, EnvInv, EnvTypes, ObsSet
<1>2. /\ now' = now + 1 /\ UNCHANGED <<ring, next, hold, target, owed>>
      /\ q = [pump EXCEPT !.checked = FALSE] \/ q = pump
  BY DEF Tick
<1>3. /\ obs'.token = obs.token /\ obs'.start = obs.start /\ obs'.born = obs.born
      /\ obs'.alive = obs.alive /\ obs'.sentNow = FALSE /\ obs'.frozen = obs.frozen
  BY <1>1 DEF Tick, ObsSet
<1>4. Seqs' = Seqs /\ Idrs' = Idrs
  BY <1>2, <1>3 DEF Seqs, Idrs
<1>5. /\ q.pc = pump.pc /\ q.token = pump.token /\ q.pos = pump.pos /\ q.anchor = pump.anchor
      /\ q.wall = pump.wall /\ q.ts = pump.ts /\ q.mark = pump.mark /\ q.goal = pump.goal
      /\ q.since = pump.since /\ q.after = pump.after
  BY <1>1, <1>2 DEF PumpSet
<1> HIDE DEF q
<1>6. QuietInv'
  <2>1. left \in [quiet : 0 .. Quiet, lag : 0 .. Lag, events : Nat] /\ Lag \in Nat
    BY BoundsAssumption DEF FlowInv, QuietInv
  <2>2. HeldUp => left.lag > 0
    BY DEF Tick, Idle
  <2>3. /\ left' \in [quiet : 0 .. Quiet, lag : 0 .. Lag, events : Nat]
        /\ left'.quiet = IF Silent THEN left.quiet - 1 ELSE left.quiet
    <3>1. left' = [left EXCEPT !.quiet = IF Silent THEN left.quiet - 1 ELSE left.quiet,
                               !.lag = IF HeldUp THEN left.lag - 1 ELSE left.lag]
      BY <2>1 DEF Tick
    <3>2. (IF Silent THEN left.quiet - 1 ELSE left.quiet) \in 0 .. Quiet
      BY <1>1, <2>1 DEF Tick
    <3>3. (IF HeldUp THEN left.lag - 1 ELSE left.lag) \in 0 .. Lag
      BY <2>1, <2>2
    <3>4. QED
      BY <2>1, <3>1, <3>2, <3>3
  <2>4. ASSUME obs.alive, Seqs # {}
        PROVE  Clock' - LatestTs <= Quiet - left'.quiet + 1
    <3>1. Clock - LatestTs <= Quiet - left.quiet + (IF obs.sentNow THEN 0 ELSE 1)
      BY <2>4 DEF FlowInv, QuietInv
    <3>2. LatestTs \in Nat /\ Clock' = Clock + 1 /\ Clock \in Int
      BY <1>1, <1>2, <1>3, <2>4, EndsOf DEF Clock
    <3>3. Silent <=> ~obs.sentNow
      BY <2>4 DEF Silent
    <3>4. left.quiet \in Nat
      BY <2>1
    <3>5. CASE obs.sentNow
      BY <1>1, <2>3, <3>1, <3>2, <3>3, <3>4, <3>5
    <3>6. CASE ~obs.sentNow
      BY <1>1, <2>3, <3>1, <3>2, <3>3, <3>4, <3>6
    <3>7. QED
      BY <3>5, <3>6
  <2>5. LatestTs' = LatestTs
    BY <1>2, <1>4 DEF LatestTs
  <2>6. QED
    BY <1>2, <1>3, <1>4, <2>3, <2>4, <2>5 DEF FlowInv, QuietInv
<1>7. RunInv(pump)'
  BY <1>1, <1>2, <1>3, <1>4, <1>5 DEF FlowInv, RunInv, InRun, Between, InHand, Late, Due, q
<1>8. Bound(pump) => Bound(pump)'
  <2>1. ASSUME NEW s \in Seqs PROVE Age(s)' = Age(s) + 1 /\ Age(s) \in Int
    BY <1>1, <1>2, <1>3, <2>1 DEF Age
  <2>2. ASSUME NEW s \in Seqs, owed \/ Age(s) >= target PROVE owed' \/ Age(s)' >= target'
    BY <1>1, <1>2, <2>1, <2>2
  <2>3. Age(pump.pos)' = now' - (obs'.born + ring'[q.pos])
    BY DEF Age, q
  <2>4. pump.pos \in Seqs => Age(pump.pos)' = Age(pump.pos) + 1
    BY <1>1, <1>2, <1>3, <1>5, <2>1, <2>3 DEF Age
  <2>5. pump.pos \in Seqs /\ (owed \/ Age(pump.pos) >= target) => owed' \/ Age(pump.pos)' >= target'
    BY <1>1, <1>2, <2>1, <2>4
  <2>6. QED
    BY <1>2, <1>3, <1>4, <1>5, <2>5 DEF Bound, q
<1>9. ScreenAhead(pump) => ScreenAhead(pump)'
  <2>1. HoldState' = "resumed" => HoldState = "resumed"
    BY <1>2 DEF HoldState, HoldActive
  <2>2. QED
    BY <1>2, <1>4, <1>5, <2>1 DEF ScreenAhead, AfterOf, q
<1>10. StageInv(pump)'
  BY <1>3, <1>4, <1>5, <1>8, <1>9 DEF FlowInv, StageInv, Staged, Awaiting, Screened, Between, q
<1>11. FrozenInv'
  BY <1>2, <1>3 DEF FlowInv, FrozenInv
<1>12. QED
  BY <1>6, <1>7, <1>10, <1>11 DEF FlowInv

LEMMA InitFlow == Init => FlowInv
<1> SUFFICES ASSUME Init PROVE FlowInv
  OBVIOUS
<1>1. IInv
  BY InitStep
<1>2. Seqs = {}
  BY DEF Init, Seqs
<1>3. QuietInv
  BY <1>2, BoundsAssumption DEF Init, QuietInv
<1>4. RunInv(pump) /\ StageInv(pump) /\ FrozenInv
  BY DEF Init, NoPump, RunInv, InRun, StageInv, Staged, Between, InHand, FrozenInv
<1>5. QED
  BY <1>1, <1>3, <1>4 DEF FlowInv

LEMMA FlowStep == ASSUME FlowInv, [Next]_vars PROVE FlowInv'
<1>1. IInv'
  BY NextStep DEF FlowInv
<1>2. CASE Pump
  <2>1. RunInv(pump)' /\ StageInv(pump)'
    BY <1>2, PumpRun, PumpStage
  <2>2. /\ UNCHANGED <<now, ring, next, obs, hold, target, fresh>>
        /\ left' = left \/ Event
    BY <1>2, PumpGoes
  <2>3. /\ left' \in [quiet : 0 .. Quiet, lag : 0 .. Lag, events : Nat]
        /\ left'.quiet = left.quiet
    BY <2>2, LeftStays DEF FlowInv
  <2>4. QuietInv' /\ FrozenInv'
    <3>1. Seqs' = Seqs /\ LatestTs' = LatestTs /\ Clock' = Clock
      BY <2>2 DEF Seqs, LatestTs, Clock
    <3>2. QED
      BY <2>2, <2>3, <3>1 DEF FlowInv, QuietInv, FrozenInv
  <2>5. QED
    BY <1>1, <2>1, <2>4 DEF FlowInv
<1>3. CASE Stream
  BY <1>1, <1>3, CalmFlows, OnTagFlow, PublishFlow DEF Stream
<1>4. CASE Tick
  BY <1>1, <1>4, TickFlow
<1>5. CASE UNCHANGED vars
  <2>1. UNCHANGED <<now, ring, next, obs, hold, target, fresh, pump, left, owed>>
    BY <1>5 DEF vars, env
  <2>2. /\ Seqs' = Seqs /\ Idrs' = Idrs /\ LatestTs' = LatestTs /\ Clock' = Clock
        /\ HoldState' = HoldState
    BY <2>1 DEF Seqs, Idrs, LatestTs, Clock, HoldState, HoldActive
  <2>3. QuietInv' /\ FrozenInv' /\ RunInv(pump)'
    BY <2>1, <2>2 DEF FlowInv, QuietInv, FrozenInv, RunInv, InRun, Between, InHand, Late, Due
  <2>4. StageInv(pump)'
    BY <2>1, <2>2 DEF FlowInv, StageInv, Staged, Awaiting, Screened, ScreenAhead, AfterOf, Bound,
                      Between, Age
  <2>5. QED
    BY <1>1, <2>3, <2>4 DEF FlowInv
<1>6. QED
  BY <1>2, <1>3, <1>4, <1>5 DEF Next

\* In every state the run a pump airs is as late as asked, or as late as was to be had
\* where it started, its tags air in their time, and wherever a pump is about to land is
\* ahead of it: rejoins, re-anchors, holds and new publishers in any order.
THEOREM RunsKeepTheDelay == Spec => []FlowInv
<1>1. Init => FlowInv
  BY InitFlow
<1>2. FlowInv /\ [Next]_vars => FlowInv'
  BY FlowStep
<1>3. QED
  BY <1>1, <1>2, PTL DEF Spec

\* Viewers are sent back only for a delay that is longer than where the last jump landed,
\* or that OBS let shrink, and never while OBS is gone.
THEOREM NothingAirsTwice == Spec => OnlyARaiseReplays
<1>1. ASSUME FlowInv, [Next]_vars, pump'.pos < pump.pos, pump.pos # Nowhere
      PROVE  ~ObsGone /\ ~HoldActive /\ (owed \/ Gap(pump'.pos))
  <2> DEFINE q == pump'
  <2>1. /\ pump \in PumpSet /\ PlaceOK(pump) /\ pump.pos \in Nat /\ next \in Nat /\ now \in Nat
        /\ obs.token \in Nat /\ now <= MaxTime /\ obs.token <= MaxPublishers
        /\ next <= now + obs.token /\ MaxTime \in Nat /\ MaxPublishers \in Nat
        /\ Nowhere = MaxTime + MaxPublishers + 1
    BY <1>1, ConstantTypes
       DEF FlowInv, IInv, PumpOK, PumpSet, EnvInv, EnvTypes, BoundsInv, ObsSet
  <2>2. pump.pos < Nowhere
    BY <1>1, <2>1 DEF PlaceOK
  <2>3. Pump
    BY <1>1, <2>1, OnlyThePumpMoves DEF FlowInv
  <2>4. Moves(q)
    BY <1>1, <2>3, PumpMoves DEF FlowInv
  <2>5. q.pos < pump.pos
    BY <1>1
  <2> HIDE DEF q
  <2>6. q.pos # pump.pos /\ q.pos # pump.pos + 1 /\ q.pos # Nowhere
    BY <2>1, <2>2, <2>5
  <2>7. Ahead(pump, q.pos)
    BY <2>4, <2>6 DEF Moves, GoesOn, Restarts, Taken, Waits, Wakes, Sends, Passes, Done, Comes,
                      Outcome
  <2>8. ~(q.pos >= pump.pos)
    <3>1. Starts(q)
      BY <2>4, <2>6 DEF Moves, GoesOn, Restarts, Taken, Waits, Wakes, Sends, Passes, Done, Comes,
                        Outcome
    <3>2. q.pos \in Nat
      BY <1>1, <3>1, IdrsAreTags DEF Starts, FlowInv, IInv
    <3>3. QED
      BY <2>1, <2>5, <3>2
  <2>9. MayReplay(q.pos)
    BY <1>1, <2>7, <2>8 DEF Ahead
  <2>10. QED
    BY <2>9 DEF MayReplay, q
<1>2. FlowInv /\ [Next]_vars
      => [pump'.pos < pump.pos /\ pump.pos # Nowhere
          => ~ObsGone /\ ~HoldActive /\ (owed \/ Gap(pump'.pos))]_vars
  BY <1>1
<1>3. QED
  BY <1>2, RunsKeepTheDelay, PTL DEF Spec, OnlyARaiseReplays
-----------------------------------------------------------------------------
(* A session does not outlive its stream.                                   *)

\* How long it may, at a tag whose time is to come or that the platform holds up.
Allow == 1 + Quiet + (Lag - left.lag)

\* A pump that waits when the stream ends waits for what is not there yet and is back
\* within a tick; one that has a tag in hand sends it in its time.
OverInv ==
  /\ over \in 0 .. LastWords
  /\ over > 0 => StreamOver
  /\ pump.pc = "pace" => over <= Allow /\ over + Due(pump, pump.ts) <= now + Allow
  /\ pump.pc = "send" => over <= Allow
  /\ pump.pc = "wait" => /\ pump.until <= now + 1
                         /\ over > 0 => pump.pos \notin Seqs /\ over + pump.until <= now + 1

\* Such a pump is idle only where it does not look.
LEMMA OverIdles ==
  ASSUME IInv, StreamOver, Idle, OnAir
  PROVE  \/ pump.pc = "send" /\ left.lag > 0
         \/ pump.pc = "wait" /\ pump.pos \notin Seqs /\ now < pump.until
         \/ pump.pc = "pace" /\ now < Due(pump, pump.ts)
<1>1. /\ EnvInv /\ PumpOK(pump) /\ pump \in PumpSet /\ ~obs.alive /\ ~HoldActive
      /\ obs.token \in Nat /\ target \in Nat /\ None \in NatOrNone
  BY DEF IInv, PumpOK, StreamOver, EnvInv, EnvTypes, ObsSet, NatOrNone
<1>2. Ended.pc = "off"
  BY DEF Ended, NoPump
<1>3. ASSUME NEW p \in PumpSet, NEW s PROVE Anchored(p, s).pc = "top"
  BY DEF Anchored, PumpSet
<1>4. ASSUME pump.pc = "seed", Seed(pump) = pump PROVE FALSE
  <2> DEFINE a == [pump EXCEPT !.mark = None, !.goal = "seed"]
  <2>1. a \in PumpSet /\ a.goal = "seed"
    BY <1>1 DEF PumpSet
  <2> HIDE DEF a
  <2>2. ASSUME NEW s PROVE Found(a, s) = Anchored(a, s)
    BY <2>1 DEF Found
  <2>3. \/ pump = Ended \/ pump = Anchored(pump, DelayedIdr(target))
        \/ pump = Found(a, Newest(Idrs))
    BY <1>1, <1>4 DEF Seed, AwaitIdr, a
  <2>4. QED
    BY <1>1, <1>2, <1>3, <1>4, <2>1, <2>2, <2>3
<1>5. ASSUME pump.pc = "await", AwaitIdr(pump) = pump PROVE FALSE
  <2>1. Ready(pump)
    BY <1>1, <1>5 DEF PumpOK, PlaceOK, TimeOK, Ready
  <2>2. pump = Ended \/ pump = Found(pump, Newest(Idrs))
    BY <1>1, <1>5 DEF AwaitIdr
  <2>3. QED
    BY <1>1, <1>2, <1>5, <2>1, <2>2, FoundMoves
<1>6. ASSUME pump.pc = "screen", OnScreen(pump) = pump PROVE FALSE
  <2>1. OnScreen(pump) = Ended
    BY <1>1 DEF OnScreen, HoldState
  <2>2. QED
    BY <1>2, <1>6, <2>1
<1>7. pump.wall + OutTs = Due(pump, pump.ts)
  BY DEF OutTs, Due
<1>8. QED
  BY <1>4, <1>5, <1>6, <1>7 DEF Idle, HeldUp, OnAir

LEMMA PumpOver == ASSUME FlowInv, OverInv, Pump PROVE OverInv'
<1> DEFINE q == pump'
<1>1. /\ now \in Nat /\ Quiet \in Nat /\ Lag \in Nat /\ over \in 0 .. LastWords
      /\ left.lag \in 0 .. Lag
  BY BoundsAssumption DEF FlowInv, IInv, EnvInv, EnvTypes, OverInv, QuietInv
<1>2. /\ UNCHANGED <<now, ring, next, obs, hold, target, fresh>>
      /\ over' = (IF (StreamOver /\ OnAir)' THEN over ELSE 0)
      /\ left' = left \/ Event
  BY PumpGoes
<1>3. Seqs' = Seqs /\ left'.lag = left.lag /\ Allow' = Allow
  <2>1. left'.lag = left.lag
    BY <1>2, LeftStays DEF FlowInv
  <2>2. QED
    BY <1>2, <2>1 DEF Seqs, Allow
<1>4. /\ over' \in 0 .. LastWords /\ (over' > 0 => StreamOver') /\ (over = 0 => over' = 0)
      /\ over' <= over
  <2>1. (over' = over /\ StreamOver') \/ over' = 0
    BY <1>2
  <2>2. 0 \in 0 .. LastWords
    BY <1>1 DEF LastWords
  <2>4. CASE over' = over /\ StreamOver'
    BY <1>1, <2>4
  <2>5. CASE over' = 0
    BY <1>1, <2>2, <2>5
  <2>6. QED
    BY <2>1, <2>4, <2>5
<1>5. Moves(q)
  BY PumpMoves DEF FlowInv
<1>6. q.pc = "pace" => Due(q, q.ts) <= now + 1 + Quiet /\ Due(q, q.ts) \in Int
  <2>1. RunInv(pump)' /\ pump' \in PumpSet
    <3>1. IInv'
      BY NextStep DEF FlowInv, Next
    <3>2. QED
      BY PumpRun, <3>1 DEF IInv, PumpOK
  <2>2. pump'.wall \in Int /\ pump'.anchor \in Int /\ pump'.ts \in Int
    BY <2>1 DEF PumpSet
  <2>3. QED
    BY <1>2, <2>1, <2>2 DEF RunInv, Due
<1> HIDE DEF q
<1>7. over' \in Nat /\ Allow \in Nat /\ Allow >= 1 + Quiet
  BY <1>1, <1>4 DEF Allow, LastWords
<1>8. ASSUME q.pc \notin {"pace", "send", "wait"} PROVE OverInv'
  BY <1>4, <1>8 DEF OverInv, q
<1>9. CASE GoesOn(q)
  <2>1. CASE Taken(pump, q)
    <3>1. over = 0
      <4>1. pump.pc = "wait" /\ over > 0 => pump.pos \notin Seqs
        BY DEF OverInv
      <4>2. over > 0 => StreamOver
        BY DEF OverInv
      <4>3. ~(over > 0)
        BY <1>9, <2>1, <4>1, <4>2 DEF GoesOn, Taken, Restarts, Starts, Waits, Between
      <4>4. QED
        BY <1>1, <4>3
    <3>2. over' = 0
      BY <1>4, <3>1
    <3>3. q.pc = "pace"
      BY <2>1 DEF Taken
    <3>4. over' <= Allow /\ over' + Due(q, q.ts) <= now + Allow
      BY <1>1, <1>6, <1>7, <3>2, <3>3
    <3>5. QED
      BY <1>2, <1>3, <1>4, <3>3, <3>4 DEF OverInv, Due, q
  <2>2. CASE Waits(pump, q) /\ ~StreamOver
    <3>1. over = 0
      BY <1>1, <2>2 DEF OverInv
    <3>2. over' = 0 /\ q.pc = "wait" /\ q.until = now + 1
      BY <1>4, <2>2, <3>1 DEF Waits
    <3>3. QED
      BY <1>1, <1>2, <1>3, <1>4, <3>2 DEF OverInv, q
  <2>3. CASE Restarts(pump, q)
    BY <1>8, <2>3 DEF Restarts, Starts
  <2>4. QED
    BY <1>9, <2>1, <2>2, <2>3 DEF GoesOn
<1>10. CASE Sends(q)
  <2>1. q.pc = "send" /\ over <= Allow
    BY <1>10 DEF Sends, OverInv
  <2>2. over' <= Allow
    BY <1>1, <1>4, <1>7, <2>1
  <2>3. QED
    BY <1>3, <1>4, <2>1, <2>2 DEF OverInv, q
<1>11. CASE Wakes(q) \/ Passes(q) \/ Done(q)
  BY <1>8, <1>11 DEF Wakes, Passes, Done
<1>12. CASE Comes(q)
  BY <1>8, <1>12 DEF Comes, Outcome, Starts, Rests
<1>13. QED
  BY <1>5, <1>9, <1>10, <1>11, <1>12 DEF Moves

LEMMA StreamOverStep == ASSUME FlowInv, OverInv, Stream PROVE OverInv'
<1>1. /\ now \in Nat /\ over \in 0 .. LastWords /\ LastWords \in Nat /\ pump.until \in Nat
      /\ Due(pump, pump.ts) \in Int /\ Allow \in Int
  <2>1. /\ pump \in PumpSet /\ now \in Nat /\ left.lag \in 0 .. Lag /\ Quiet \in Nat /\ Lag \in Nat
    BY BoundsAssumption DEF FlowInv, IInv, PumpOK, EnvInv, EnvTypes, QuietInv
  <2>2. pump.wall \in Nat /\ pump.anchor \in Int /\ pump.ts \in Nat /\ pump.until \in Nat
    BY <2>1 DEF PumpSet
  <2>3. QED
    BY <2>1, <2>2 DEF OverInv, LastWords, Due, Allow
<1>2. UNCHANGED <<now, pump>> /\ over' = (IF StreamOver' /\ OnAir THEN over ELSE 0)
  BY DEF Stream, OnTag, Publish, CheckFreeze, Expire, EndHoldNow, EndTailNow, Settle, Drop, Ask,
         Around
<1>3. left' = left \/ Event
  BY DEF Stream, OnTag, Publish, CheckFreeze, Expire, EndHoldNow, EndTailNow, Drop, Ask
<1>4. Allow' = Allow
  BY <1>3, LeftStays DEF FlowInv, Allow
<1>5. over > 0 => ~obs.alive
  BY DEF OverInv, StreamOver
<1>6. CASE over' = 0
  BY <1>1, <1>2, <1>4, <1>6 DEF OverInv, Due
<1>7. CASE over' # 0
  <2>1. over' = over /\ StreamOver' /\ over > 0
    BY <1>1, <1>2, <1>7
  <2>2. ring' = ring
    <3>1. ~obs.alive
      BY <1>5, <2>1
    <3>2. ~Publish
      <4>1. Publish => obs'.alive
        BY DEF Publish
      <4>2. StreamOver' => ~obs'.alive
        BY DEF StreamOver
      <4>3. QED
        BY <2>1, <4>1, <4>2
    <3>3. QED
      BY <3>1, <3>2 DEF Stream, OnTag, CheckFreeze, Expire, EndHoldNow, EndTailNow, Settle, Drop, Ask
  <2>3. Seqs' = Seqs
    BY <2>2 DEF Seqs
  <2>4. QED
    BY <1>1, <1>2, <1>4, <2>1, <2>3 DEF OverInv, Due
<1>8. QED
  BY <1>6, <1>7

LEMMA TickOver == ASSUME FlowInv, OverInv, Tick PROVE OverInv'
<1> DEFINE q == pump'
           D == Due(pump, pump.ts)
<1>1. /\ EnvInv /\ pump \in PumpSet /\ now \in Nat /\ over \in 0 .. LastWords
      /\ left \in [quiet : 0 .. Quiet, lag : 0 .. Lag, events : Nat]
      /\ Quiet \in Nat /\ Lag \in Nat /\ pump.until \in Nat /\ D \in Int /\ obs \in ObsSet
      /\ pump.pc = "pace" => D <= now + 1 + Quiet
  <2>1. pump \in PumpSet
    BY DEF FlowInv, IInv, PumpOK
  <2>2. pump.wall \in Nat /\ pump.anchor \in Int /\ pump.ts \in Nat /\ pump.until \in Nat
    BY <2>1 DEF PumpSet
  <2>3. QED
    BY <2>1, <2>2, BoundsAssumption
       DEF FlowInv, IInv, EnvInv, EnvTypes, OverInv, QuietInv, RunInv, Due
<1>2. /\ now' = now + 1 /\ UNCHANGED <<ring, hold>> /\ Idle
      /\ q = [pump EXCEPT !.checked = FALSE] \/ q = pump
      /\ left'.lag = IF HeldUp THEN left.lag - 1 ELSE left.lag
  BY <1>1 DEF Tick
<1>3. obs'.alive = obs.alive
  BY <1>1 DEF Tick, ObsSet
<1>4. /\ q.pc = pump.pc /\ q.pos = pump.pos /\ q.anchor = pump.anchor
      /\ q.wall = pump.wall /\ q.ts = pump.ts /\ q.until = pump.until
  BY <1>1, <1>2 DEF PumpSet
<1>5. Seqs' = Seqs /\ (OnAir' <=> OnAir)
  BY <1>2, <1>4 DEF Seqs, OnAir, q
<1>6. over > 0 => StreamOver
  BY DEF OverInv
<1>7. over' = IF StreamOver' /\ OnAir THEN Min({over + 1, LastWords + 1}) ELSE 0
  BY <1>5 DEF Tick
<1>8. LastWords = 1 + Quiet + Lag /\ Allow \in Nat /\ Allow >= 1 + Quiet /\ Allow <= LastWords
      /\ Allow' = (IF HeldUp THEN Allow + 1 ELSE Allow)
  BY <1>1, <1>2 DEF LastWords, Allow
<1>9. HeldUp => left.lag > 0
  BY <1>2 DEF Idle
<1> HIDE DEF q
<1>10. CASE ~(StreamOver' /\ OnAir)
  <2>1. over' = 0
    BY <1>7, <1>10
  <2>2. pump.pc = "wait" => pump.until <= now + 1
    BY DEF OverInv
  <2>3. q.pc = "pace" => 0 <= Allow' /\ 0 + D <= now + 1 + Allow'
    BY <1>1, <1>4, <1>8
  <2>4. 0 <= Allow' /\ 0 \in 0 .. LastWords
    BY <1>8
  <2>5. Due(pump, pump.ts)' = D
    BY <1>4 DEF Due, q
  <2>6. QED
    BY <1>1, <1>2, <1>4, <2>1, <2>2, <2>3, <2>4, <2>5 DEF OverInv, q
<1>11. CASE StreamOver' /\ OnAir
  <2>1. over' = over + 1
    <3>1. over <= LastWords => over' = over + 1
      BY <1>1, <1>7, <1>8, <1>11, MinOfTwo
    <3>2. QED
      BY <1>1, <1>8, <3>1
  <2>2. Due(pump, pump.ts)' = D
    BY <1>4 DEF Due, q
  <2>3. /\ pump.pc = "wait" => pump.until <= now + 1 /\ pump.pos \notin Seqs /\ now < pump.until
        /\ pump.pc = "pace" => ~HeldUp
    BY <1>2 DEF OverInv, Idle, HeldUp
  <2>4. CASE over = 0
    <3>1. over' = 1 /\ over' \in 0 .. LastWords /\ over' <= Allow'
      BY <1>1, <1>8, <2>1, <2>4
    <3>2. pump.pc = "pace" => over' + D <= now' + Allow'
      BY <1>1, <1>2, <1>8, <3>1
    <3>3. pump.pc = "wait" => /\ pump.until <= now' + 1 /\ over' + pump.until <= now' + 1
                              /\ pump.pos \notin Seqs
      BY <1>1, <1>2, <2>3, <3>1
    <3>4. QED
      BY <1>4, <1>5, <1>11, <2>2, <3>1, <3>2, <3>3 DEF OverInv, q
  <2>5. CASE over > 0
    <3>1. \/ pump.pc = "send" /\ left.lag > 0
          \/ pump.pc = "wait" /\ pump.pos \notin Seqs /\ now < pump.until
          \/ pump.pc = "pace" /\ now < D
      BY <1>2, <1>6, <1>11, <2>5, OverIdles DEF FlowInv
    <3>2. CASE pump.pc = "send" /\ left.lag > 0
      <4>1. HeldUp /\ over <= Allow
        BY <3>2 DEF HeldUp, OverInv
      <4>2. Allow' <= LastWords
        BY <1>1, <1>2, <1>8, <3>2, <4>1 DEF Allow
      <4>3. over' <= Allow' /\ over' \in 0 .. LastWords
        BY <1>1, <1>8, <2>1, <4>1, <4>2
      <4>4. QED
        BY <1>4, <1>11, <3>2, <4>3 DEF OverInv, q
    <3>3. CASE pump.pc = "wait" /\ pump.pos \notin Seqs /\ now < pump.until
      <4>1. over + pump.until <= now + 1
        BY <2>5, <3>3 DEF OverInv
      <4>2. QED
        BY <1>1, <2>5, <3>3, <4>1
    <3>4. CASE pump.pc = "pace" /\ now < D
      <4>1. over <= Allow /\ over + D <= now + Allow /\ Allow' = Allow
        BY <1>8, <2>3, <3>4 DEF OverInv
      <4>2. over' <= Allow' /\ over' + D <= now' + Allow' /\ over' \in 0 .. LastWords
        BY <1>1, <1>2, <1>8, <2>1, <3>4, <4>1
      <4>3. QED
        BY <1>4, <1>11, <2>2, <3>4, <4>2 DEF OverInv, q
    <3>5. QED
      BY <3>1, <3>2, <3>3, <3>4
  <2>6. QED
    BY <1>1, <2>4, <2>5
<1>12. QED
  BY <1>10, <1>11

\* However late a stream ends in what a pump does, the pump looks again before long: it
\* has at most one tag in hand, and its time is near.
THEOREM SessionsEnd == Spec => []OverMeansOff
<1>1. Init => OverInv
  <2>1. Init => 0 \in 0 .. LastWords
    BY BoundsAssumption DEF LastWords
  <2>2. QED
    BY <2>1 DEF Init, OverInv, NoPump
<1>2. FlowInv /\ OverInv /\ [Next]_vars => OverInv'
  <2> SUFFICES ASSUME FlowInv, OverInv, [Next]_vars PROVE OverInv'
    OBVIOUS
  <2>1. CASE UNCHANGED vars
    BY <2>1 DEF vars, env, OverInv, Allow, Due, Seqs, StreamOver, HoldActive, TailPlaysOut,
                  HoldLapsed, TailSentAt, LatestSeq
  <2>2. QED
    BY <2>1, PumpOver, StreamOverStep, TickOver DEF Next
<1>3. OverInv => OverMeansOff
  BY BoundsAssumption DEF OverInv, OverMeansOff, LastWords
<1>4. QED
  BY <1>1, <1>2, <1>3, RunsKeepTheDelay, PTL DEF Spec
=============================================================================
