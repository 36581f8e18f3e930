------------------------ MODULE SettingsFile_proofs ------------------------
(***************************************************************************)
(* Proofs about SettingsFile for any number of copies and of changes.      *)
(***************************************************************************)
EXTENDS SettingsFile, TLAPS

Program == [at : Places, mem : Texts, next : Texts,
            why : StartReasons \union Handlers, maySave : BOOLEAN, behind : BOOLEAN]

\* A missing file is not one with a text, and a text is what it brings back.
LEMMA TextsAreRead ==
  ASSUME NEW t \in Texts
  PROVE  t # NoFile /\ Held(t) = t
<1>1. 0 \in NoFile /\ 0 \notin t
  BY DEF NoFile, Texts, Changes
<1>2. QED
  BY <1>1 DEF Held

LEMMA MissingIsDefault ==
  Held(NoFile) = Defaults /\ Defaults \in Texts
BY DEF Held, Defaults, Texts

-----------------------------------------------------------------------------
(* Types.                                                                   *)

LEMMA StoppedTyped ==
  Stopped \in Program
BY DEF Stopped, Program, Places, Texts, Defaults, StartReasons

\* A program that goes elsewhere, or begins a save, is one still.
LEMMA StepTyped ==
  ASSUME copy \in [Copies -> Program], NEW c \in Copies
  PROVE  /\ \A place \in Places : Goto(c, place) => copy' \in [Copies -> Program]
         /\ \A text \in Texts, why \in StartReasons \union Handlers :
              Saving(c, text, why) => copy' \in [Copies -> Program]
<1>1. "create" \in Places
  BY DEF Places, SaveSteps
<1>2. ASSUME NEW place \in Places, Goto(c, place)
      PROVE  copy' \in [Copies -> Program]
  BY <1>2 DEF Goto, Program
<1>3. ASSUME NEW text \in Texts, NEW why \in StartReasons \union Handlers,
             Saving(c, text, why)
      PROVE  copy' \in [Copies -> Program]
  BY <1>1, <1>3 DEF Saving, Program
<1>4. QED
  BY <1>2, <1>3

LEMMA StartTyped ==
  ASSUME TypeOK, NEW c \in Copies, Start(c)
  PROVE  TypeOK'
<1>1. copy \in [Copies -> Program]
  BY DEF TypeOK, Program
<1>2. {"start", "load", "out", "aside", "ports", "build", "run"} \subseteq Places
  BY DEF Places
<1>3. {"fresh", "ports", "build"} \subseteq StartReasons \union Handlers
  BY DEF StartReasons
<1>4. copy' \in [Copies -> Program]
  <2>1. CASE Launch(c) \/ TakeLock(c) \/ RunUnguarded(c) \/ HeldElsewhere(c) \/ Unreadable(c)
    BY <2>1, <1>1, <1>2, StepTyped DEF Launch, TakeLock, RunUnguarded, HeldElsewhere, Unreadable
  <2>2. CASE Loaded(c)
    <3>1. file \in Texts
      BY <2>2 DEF TypeOK, Loaded
    <3>2. QED
      BY <2>2, <3>1, <1>1, <1>2 DEF Loaded, Program
  <2>3. CASE FreshInstall(c)
    BY <2>3, <1>1, <1>3, StepTyped, MissingIsDefault DEF FreshInstall
  <2>4. CASE CopyAside(c)
    BY <2>4, <1>1, <1>2 DEF CopyAside, Program
  <2>5. CASE SettlePorts(c) \/ StartFromThisBuild(c)
    <3>1. copy[c].mem \in Texts
      BY <1>1 DEF Program
    <3>2. QED
      BY <2>5, <3>1, <1>1, <1>2, <1>3, StepTyped DEF SettlePorts, StartFromThisBuild
  <2>6. QED
    BY <2>1, <2>2, <2>3, <2>4, <2>5 DEF Start
<1>5. asides' \subseteq Texts /\ kept' \subseteq asides'
  BY DEF TypeOK, Start, Launch, TakeLock, RunUnguarded, HeldElsewhere, Loaded, FreshInstall,
         Unreadable, CopyAside, SettlePorts, StartFromThisBuild, disk, copies
<1>6. lock' \in Copies \union {Nobody} /\ crowded' \in BOOLEAN /\ UNCHANGED <<made, told>>
  BY DEF TypeOK, Start, Launch, TakeLock, RunUnguarded, HeldElsewhere, Loaded, FreshInstall,
         Unreadable, CopyAside, SettlePorts, StartFromThisBuild, history
<1>7. UNCHANGED <<file, tmp, past>>
  BY DEF Start, Launch, TakeLock, RunUnguarded, HeldElsewhere, Loaded, FreshInstall,
         Unreadable, CopyAside, SettlePorts, StartFromThisBuild, disk
<1>8. QED
  BY <1>4, <1>5, <1>6, <1>7 DEF TypeOK, Program, told

LEMMA SaveTyped ==
  ASSUME TypeOK, NEW c \in Copies, Save(c)
  PROVE  TypeOK'
<1>1. copy \in [Copies -> Program] /\ copy[c] \in Program
  BY DEF TypeOK, Program
<1>2. {"write", "sync", "rename", "saved", "failed", "ports", "build", "run"} \subseteq Places
  BY DEF Places, SaveSteps
<1>3. After(copy[c].why) \in {"ports", "build", "run"}
  BY DEF After
<1>4. copy' \in [Copies -> Program]
  <2>1. CASE Create(c) \/ Write(c) \/ Sync(c) \/ Rename(c) \/ SaveFails(c)
    BY <2>1, <1>1, <1>2, StepTyped DEF Create, Write, Sync, Rename, SaveFails
  <2>2. CASE Saved(c)
    BY <2>2, <1>1, <1>2, <1>3 DEF Saved, Program
  <2>3. CASE NotSaved(c)
    BY <2>3, <1>1, <1>2, <1>3 DEF NotSaved, Program
  <2>4. QED
    BY <2>1, <2>2, <2>3 DEF Save
<1>5. /\ copy[c].next \in Texts /\ acked \union copy[c].next \in Texts
      /\ Defaults \in Texts /\ unsaved \ copy[c].next \in Texts
      /\ acked \union Unsaved(c) \in Texts /\ unsaved \union Unsaved(c) \in Texts
  BY <1>1, MissingIsDefault DEF TypeOK, Program, Texts, Unsaved
<1>6. tmp' \in [text : Texts, synced : BOOLEAN]
  <2>1. tmp \in [text : Texts, synced : BOOLEAN]
    BY DEF TypeOK
  <2>2. CASE Create(c)
    BY <2>2, <1>5 DEF Create
  <2>5. CASE Write(c)
    BY <2>1, <2>5, <1>5 DEF Write
  <2>6. CASE Sync(c)
    BY <2>1, <2>6 DEF Sync
  <2>3. CASE ~(Create(c) \/ Write(c) \/ Sync(c))
    BY <2>1, <2>3 DEF Save, Rename, SaveFails, Saved, NotSaved, disk
  <2>4. QED
    BY <2>2, <2>5, <2>6, <2>3
<1>7. /\ file' \in Texts \union {NoFile} /\ past' \subseteq Texts \union {NoFile}
      /\ UNCHANGED copies
  BY <1>5 DEF TypeOK, Save, Create, Write, Sync, Rename, SaveFails, Saved, NotSaved, disk
<1>8. /\ lock' = lock /\ made' = made /\ acked' \in Texts /\ unsaved' \in Texts
      /\ UNCHANGED <<owed, lost, crowded>>
  BY <1>5 DEF TypeOK, Save, Create, Write, Sync, Rename, SaveFails, Saved, NotSaved, history, told
<1>9. replaced' \in BOOLEAN
  BY DEF TypeOK, Save, Create, Write, Sync, Rename, SaveFails, Saved, NotSaved, history, told
<1>10. QED
  BY <1>4, <1>6, <1>7, <1>8, <1>9 DEF TypeOK, Program, copies

LEMMA ChangeTyped ==
  ASSUME TypeOK, NEW c \in Copies, NEW why \in Handlers, Change(c, why)
  PROVE  TypeOK'
<1>1. copy \in [Copies -> Program] /\ copy[c].mem \in Texts
  BY DEF TypeOK, Program
<1>2. made' \in 0 .. MaxChanges /\ made + 1 \in Changes
  BY ChangesAreBounded DEF Change, TypeOK, Changes
<1>3. copy[c].mem \union {made + 1} \in Texts
  BY <1>1, <1>2 DEF Texts
<1>4. copy' \in [Copies -> Program]
  BY <1>1, <1>3, StepTyped DEF Change
<1>5. QED
  BY <1>2, <1>4 DEF TypeOK, Program, Change, disk, copies, history, told

LEMMA NextTyped ==
  ASSUME TypeOK, [Next]_vars
  PROVE  TypeOK'
<1>1. CASE \E c \in Copies : Start(c)
  BY <1>1, StartTyped
<1>2. CASE \E c \in Copies, why \in Handlers : Change(c, why)
  BY <1>2, ChangeTyped
<1>3. CASE \E c \in Copies : Save(c)
  BY <1>3, SaveTyped
<1>4. CASE \E c \in Copies : Die(c)
  BY <1>4, StoppedTyped DEF TypeOK, Program, Die, disk, copies, history, told
<1>5. CASE Settle
  BY <1>5 DEF TypeOK, Settle, Texts
<1>6. CASE PowerCut
  <2>1. asides' \subseteq Texts /\ kept' \subseteq asides' /\ lost' \in Texts
    <3>1. asides' \subseteq Texts /\ kept' \subseteq asides'
      BY <1>6 DEF TypeOK, PowerCut
    <3>2. (UNION asides) \subseteq Changes /\ lost \subseteq Changes
      BY DEF TypeOK, Texts
    <3>3. lost' \subseteq lost \union (UNION asides)
      BY <1>6 DEF PowerCut
    <3>4. QED
      BY <3>1, <3>2, <3>3 DEF Texts
  <2>2. copy' \in [Copies -> Program] /\ tmp' \in [text : Texts, synced : BOOLEAN]
    BY <1>6, StoppedTyped, MissingIsDefault DEF PowerCut
  <2>3. /\ file' \in Texts \union {NoFile} /\ past' \subseteq Texts \union {NoFile}
        /\ lock' = Nobody /\ acked' = owed /\ UNCHANGED <<made, owed, replaced, unsaved, crowded>>
    BY <1>6 DEF TypeOK, PowerCut
  <2>4. QED
    BY <2>1, <2>2, <2>3 DEF TypeOK, Program
<1>7. CASE UNCHANGED vars
  BY <1>7 DEF TypeOK, vars
<1>8. QED
  BY <1>1, <1>2, <1>3, <1>4, <1>5, <1>6, <1>7 DEF Next

LEMMA InitTyped ==
  ASSUME Init
  PROVE  TypeOK
<1>1. copy \in [Copies -> Program]
  BY StoppedTyped DEF Init
<1>2. acked \in Texts /\ owed \in Texts /\ Defaults \in Texts /\ unsaved \in Texts /\ lost \in Texts
  BY MissingIsDefault DEF Init, Defaults
<1>3. made \in 0 .. MaxChanges
  BY ChangesAreBounded DEF Init
<1>4. QED
  BY <1>1, <1>2, <1>3 DEF Init, TypeOK, Program

\* Every variable keeps its type (the settings file, its sibling, the copies
\* put aside and the programs of one setup).
THEOREM TypeCorrectness == Spec => []TypeOK
BY InitTyped, NextTyped, PTL DEF Spec

-----------------------------------------------------------------------------
(* What is saved.                                                           *)

Outside   == {"out", "start"}
Unstarted == {"out", "start", "load", "aside"}
Saves     == {"create", "write", "sync", "rename", "saved", "failed"}
Works     == {"ports", "build", "run"} \union Saves

\* One program is past its start.
OneInside == \A c, d \in Copies : Inside(c) /\ Inside(d) => c = d

\* Where the changes of S are once the file is `text`.
Kept(S, text) == S \subseteq Held(text) \union (IF replaced THEN UNION asides ELSE {}) \union lost

\* Whatever a power cut leaves holds what is owed.
DiskInv ==
  /\ file \in past
  /\ \A text \in past : Kept(owed, text) /\ Held(text) \subseteq 1 .. made
  /\ owed \subseteq acked \ unsaved
  /\ Kept(acked \ unsaved, file)
  /\ acked \subseteq 1 .. made

\* What a program works on holds what was told saved, with the file it set
\* aside; a save writes what it works on and more, and lies whole in the
\* sibling when it is renamed.
CopyInv(c) ==
  /\ copy[c].at \in Unstarted =>
       copy[c].mem = Defaults /\ copy[c].maySave = TRUE /\ copy[c].behind = FALSE
  /\ copy[c].at \in Works =>
       acked \ unsaved \subseteq copy[c].mem
                       \union (IF replaced \/ ~copy[c].maySave THEN UNION asides ELSE {})
                       \union lost
  /\ copy[c].at \in Works => copy[c].mem \subseteq 1 .. made
  /\ copy[c].at \in Works \ {"saved"} /\ ~copy[c].behind => copy[c].mem = Held(file)
  /\ copy[c].at \in Saves =>
       /\ copy[c].mem \subseteq copy[c].next
       /\ (copy[c].next \ copy[c].mem) \cap acked = {}
       /\ copy[c].next \subseteq 1 .. made
       /\ copy[c].why \in StartReasons => copy[c].next = copy[c].mem /\ copy[c].maySave
  /\ copy[c].at = "sync" => tmp.text = copy[c].next
  /\ copy[c].at = "rename" => tmp.text = copy[c].next /\ tmp.synced = TRUE
  /\ copy[c].at = "saved" => file = copy[c].next

IInv == TypeOK /\ ~crowded /\ OneInside /\ DiskInv /\ \A c \in Copies : CopyInv(c)

\* The fields of a program that goes elsewhere, and of the others.
LEMMA Went ==
  ASSUME TypeOK, NEW c \in Copies, NEW place, Goto(c, place)
  PROVE  /\ copy'[c].at = place /\ copy'[c].mem = copy[c].mem
         /\ copy'[c].next = copy[c].next /\ copy'[c].why = copy[c].why
         /\ copy'[c].maySave = copy[c].maySave /\ copy'[c].behind = copy[c].behind
         /\ \A d \in Copies \ {c} : copy'[d] = copy[d]
BY DEF TypeOK, Goto

LEMMA BeganSaving ==
  ASSUME TypeOK, NEW c \in Copies, NEW text, NEW why, Saving(c, text, why)
  PROVE  /\ copy'[c].at = "create" /\ copy'[c].mem = copy[c].mem
         /\ copy'[c].next = text /\ copy'[c].why = why
         /\ copy'[c].maySave = copy[c].maySave /\ copy'[c].behind = copy[c].behind
         /\ \A d \in Copies \ {c} : copy'[d] = copy[d]
BY DEF TypeOK, Saving

\* One program is inside: a step of its own is no step of the others, and
\* what it does to the disk is nothing to them.
LEMMA OthersWait ==
  ASSUME IInv, NEW c \in Copies, copy[c].at \notin Outside,
         \A d \in Copies \ {c} : copy'[d] = copy[d]
  PROVE  \A d \in Copies \ {c} : copy'[d].at \in Outside /\ CopyInv(d)'
<1>1. \A d \in Copies \ {c} : copy[d].at \in Outside
  BY DEF IInv, OneInside, Inside, Outside
<1>2. QED
  BY <1>1 DEF IInv, CopyInv, Outside, Unstarted, Works, Saves

\* A step of one program that leaves the disk and the history alone.
LEMMA OthersStay ==
  ASSUME IInv, NEW d \in Copies, copy'[d] = copy[d],
         UNCHANGED <<file, tmp, asides, made, told>>
  PROVE  CopyInv(d)'
BY DEF IInv, CopyInv, told, Held

LEMMA DiskStays ==
  ASSUME IInv, UNCHANGED <<file, past, asides, told>>, made' = made \/ made' = made + 1
  PROVE  DiskInv'
<1>1. made \in Nat
  BY ChangesAreBounded DEF IInv, TypeOK
<1>2. 1 .. made \subseteq 1 .. made'
  BY <1>1
<1>3. QED
  BY <1>2 DEF IInv, DiskInv, Kept, told, Held

\* A step of the program inside, put together.
LEMMA InsideStep ==
  ASSUME IInv, NEW c \in Copies, copy[c].at \notin Outside,
         \A d \in Copies \ {c} : copy'[d] = copy[d],
         crowded' = crowded, TypeOK', DiskInv', CopyInv(c)'
  PROVE  IInv'
<1>1. \A d \in Copies \ {c} : copy'[d].at \in Outside /\ CopyInv(d)'
  BY OthersWait
<1>3. OneInside'
  BY <1>1 DEF OneInside, Inside, Outside
<1>4. QED
  BY <1>1, <1>3 DEF IInv

-----------------------------------------------------------------------------
(* The steps.                                                               *)

LEMMA InitKept ==
  ASSUME Init
  PROVE  IInv
<1>1. TypeOK
  BY InitTyped
<1>2. DiskInv
  BY MissingIsDefault DEF Init, DiskInv, Kept, Defaults
<1>3. \A c \in Copies : copy[c].at = "out" /\ CopyInv(c)
  BY DEF Init, Stopped, CopyInv, Unstarted, Works, Saves
<1>4. QED
  BY <1>1, <1>2, <1>3 DEF Init, IInv, OneInside, Inside

\* Who waits to start, or goes in where nobody is and has read nothing yet.
LEMMA EnterKept ==
  ASSUME IInv, NEW c \in Copies, ~crowded',
         Launch(c) \/ TakeLock(c) \/ RunUnguarded(c) \/ HeldElsewhere(c)
  PROVE  IInv'
<1>1. TypeOK /\ copy[c].at \in Outside /\ CopyInv(c)
  BY DEF IInv, Launch, TakeLock, RunUnguarded, HeldElsewhere, At, Outside
<1>2. PICK place \in {"out", "start", "load"} :
        Goto(c, place) /\ (place = "load" <=> TakeLock(c) \/ RunUnguarded(c))
  BY DEF Launch, TakeLock, RunUnguarded, HeldElsewhere, At
<1>3. TypeOK'
  BY <1>1, StartTyped DEF Start
<1>4. UNCHANGED <<file, tmp, past, asides, made, told>>
  BY DEF Launch, TakeLock, RunUnguarded, HeldElsewhere, disk, copies, history
<1>5. DiskInv' /\ \A d \in Copies \ {c} : CopyInv(d)'
  BY <1>1, <1>2, <1>4, DiskStays, OthersStay, Went
<1>6. CopyInv(c)'
  <2>1. /\ copy'[c].at \in Unstarted
        /\ copy'[c].at \notin Works /\ copy'[c].at \notin Saves
    BY <1>1, <1>2, Went DEF Unstarted, Works, Saves
  <2>2. copy'[c].mem = Defaults /\ copy'[c].maySave = TRUE /\ copy'[c].behind = FALSE
    BY <1>1, <1>2, Went DEF CopyInv, Outside, Unstarted
  <2>3. QED
    BY <2>1, <2>2 DEF CopyInv, Saves
<1>7. OneInside'
  <2>1. CASE TakeLock(c) \/ RunUnguarded(c)
    <3>1. \A d \in Copies : copy[d].at \in Outside
      BY <2>1, NobodyIsNoCopy DEF TakeLock, RunUnguarded, Inside, Outside
    <3>2. QED
      BY <3>1, <1>1, <1>2, Went DEF OneInside, Inside, Outside
  <2>2. CASE ~(TakeLock(c) \/ RunUnguarded(c))
    <3>1. place \in Outside
      BY <2>2, <1>2 DEF Outside
    <3>2. QED
      BY <3>1, <1>1, <1>2, Went DEF IInv, OneInside, Inside, Outside
  <2>3. QED
    BY <2>1, <2>2
<1>8. QED
  BY <1>3, <1>5, <1>6, <1>7 DEF IInv

\* The settings a start goes on with are the file's, the defaults of a fresh
\* install, or stand-ins whose file was set aside.
LEMMA LoadKept ==
  ASSUME IInv, NEW c \in Copies,
         Loaded(c) \/ FreshInstall(c) \/ Unreadable(c) \/ CopyAside(c)
  PROVE  IInv'
<1>1. /\ TypeOK /\ copy[c].at \in {"load", "aside"} /\ CopyInv(c) /\ DiskInv
      /\ copy[c].mem = Defaults /\ copy[c].maySave = TRUE /\ copy[c].behind = FALSE
  BY DEF IInv, CopyInv, Unstarted, Loaded, FreshInstall, Unreadable, CopyAside, At
<1>2. TypeOK' /\ copy[c].at \notin Outside /\ UNCHANGED <<made, told, crowded>>
  BY <1>1, StartTyped DEF Start, Outside, Loaded, FreshInstall, Unreadable, CopyAside, history
<1>3. CASE Loaded(c)
  <2>1. /\ copy'[c].at = "ports" /\ copy'[c].mem = file
        /\ copy'[c].maySave = TRUE /\ copy'[c].behind = FALSE
        /\ \A d \in Copies \ {c} : copy'[d] = copy[d]
    BY <1>1, <1>3 DEF TypeOK, Loaded
  <2>2. UNCHANGED <<file, tmp, past, asides>> /\ file # NoFile
    BY <1>3 DEF Loaded, disk, copies
  <2>3. CopyInv(c)'
    BY <2>1, <2>2, <1>1, <1>2 DEF CopyInv, Unstarted, Works, Saves, DiskInv, Kept, Held, told
  <2>4. QED
    BY <2>1, <2>2, <2>3, <1>2, DiskStays, InsideStep
<1>4. CASE FreshInstall(c)
  <2>1. /\ copy'[c].at = "create" /\ copy'[c].mem = Defaults /\ copy'[c].next = Defaults
        /\ copy'[c].maySave = TRUE /\ copy'[c].behind = FALSE
        /\ \A d \in Copies \ {c} : copy'[d] = copy[d]
    BY <1>1, <1>4, BeganSaving DEF FreshInstall
  <2>2. UNCHANGED <<file, tmp, past, asides>> /\ Held(file) = Defaults
    BY <1>4, MissingIsDefault DEF FreshInstall, disk, copies
  <2>3. CopyInv(c)'
    BY <2>1, <2>2, <1>1, <1>2 DEF CopyInv, Unstarted, Works, Saves, DiskInv, Kept, Held, told
  <2>4. QED
    BY <2>1, <2>2, <2>3, <1>2, DiskStays, InsideStep
<1>5. CASE Unreadable(c)
  <2>1. /\ copy'[c].at = "aside" /\ copy'[c].mem = Defaults
        /\ copy'[c].maySave = TRUE /\ copy'[c].behind = FALSE
        /\ \A d \in Copies \ {c} : copy'[d] = copy[d]
    BY <1>1, <1>5, Went DEF Unreadable
  <2>2. UNCHANGED <<file, tmp, past, asides>>
    BY <1>5 DEF Unreadable, disk, copies
  <2>3. CopyInv(c)'
    BY <2>1 DEF CopyInv, Unstarted, Works, Saves
  <2>4. QED
    BY <2>1, <2>2, <2>3, <1>2, DiskStays, InsideStep
<1>6. CASE CopyAside(c)
  <2>1. /\ copy'[c].at = "ports" /\ copy'[c].mem = copy[c].mem
        /\ copy'[c].maySave = FALSE /\ copy'[c].behind = TRUE
        /\ \A d \in Copies \ {c} : copy'[d] = copy[d]
    BY <1>1, <1>6 DEF TypeOK, CopyAside
  <2>2. /\ file' = file /\ past' = past
        /\ (UNION asides) \subseteq (UNION asides') /\ file \subseteq UNION asides'
    BY <1>6 DEF CopyAside
  <2>3. DiskInv'
    BY <2>2, <1>1, <1>2 DEF DiskInv, Kept, Held, told
  <2>4. Held(file) \subseteq UNION asides'
    BY <2>2 DEF Held, Defaults
  <2>5. acked' \ unsaved' \subseteq (UNION asides') \union lost'
    BY <2>2, <2>4, <1>1, <1>2 DEF DiskInv, Kept, told
  <2>6. CopyInv(c)'
    BY <2>1, <2>5, <1>1 DEF CopyInv, Unstarted, Works, Saves, Defaults
  <2>7. QED
    BY <2>1, <2>3, <2>6, <1>2, InsideStep
<1>7. QED
  BY <1>3, <1>4, <1>5, <1>6

\* The saves of a start write what it read.
LEMMA SettleStartKept ==
  ASSUME IInv, NEW c \in Copies, SettlePorts(c) \/ StartFromThisBuild(c)
  PROVE  IInv'
<1>1. /\ TypeOK /\ copy[c].at \in {"ports", "build"} /\ CopyInv(c)
      /\ copy[c].maySave \in BOOLEAN
  BY DEF IInv, TypeOK, SettlePorts, StartFromThisBuild, At
<1>2. /\ TypeOK' /\ copy[c].at \notin Outside
      /\ UNCHANGED <<file, tmp, past, asides, made, told, crowded>>
  BY <1>1, StartTyped DEF Start, Outside, SettlePorts, StartFromThisBuild, IInv, disk, copies, history
<1>3. CASE \E place \in {"build", "run"} : Goto(c, place)
  <2>1. PICK place \in {"build", "run"} : Goto(c, place)
    BY <1>3
  <2>2. CopyInv(c)'
    BY <1>1, <1>2, <2>1, Went DEF CopyInv, Unstarted, Works, Saves, told, Held
  <2>3. QED
    BY <2>1, <2>2, <1>1, <1>2, Went, DiskStays, InsideStep
<1>4. CASE copy[c].maySave /\ \E why \in StartReasons : Saving(c, copy[c].mem, why)
  <2>1. PICK why \in StartReasons : Saving(c, copy[c].mem, why)
    BY <1>4
  <2>2. /\ copy'[c].at = "create" /\ copy'[c].mem = copy[c].mem
        /\ copy'[c].next = copy[c].mem
        /\ copy'[c].maySave = copy[c].maySave /\ copy'[c].behind = copy[c].behind
        /\ \A d \in Copies \ {c} : copy'[d] = copy[d]
    BY <1>1, <2>1, BeganSaving
  <2>3. CopyInv(c)'
    BY <1>1, <1>2, <1>4, <2>2 DEF CopyInv, Unstarted, Works, Saves, told, Held
  <2>4. QED
    BY <2>2, <2>3, <1>2, DiskStays, InsideStep
<1>5. QED
  BY <1>3, <1>4 DEF SettlePorts, StartFromThisBuild, StartReasons

\* A change adds to what the program works on.
LEMMA ChangeKept ==
  ASSUME IInv, NEW c \in Copies, NEW why \in Handlers, Change(c, why)
  PROVE  IInv'
<1>1. TypeOK /\ copy[c].at = "run" /\ CopyInv(c) /\ Saving(c, copy[c].mem \union {made + 1}, why)
  BY DEF IInv, Change, At
<1>2. /\ TypeOK' /\ copy[c].at \notin Outside /\ made' = made + 1 /\ made \in Nat
      /\ UNCHANGED <<file, tmp, past, asides, told, crowded>>
  BY <1>1, ChangeTyped, ChangesAreBounded DEF TypeOK, Outside, Change, disk, copies, history
<1>3. /\ copy'[c].at = "create" /\ copy'[c].mem = copy[c].mem
      /\ copy'[c].next = copy[c].mem \union {made + 1} /\ copy'[c].why = why
      /\ copy'[c].maySave = copy[c].maySave /\ copy'[c].behind = copy[c].behind
      /\ \A d \in Copies \ {c} : copy'[d] = copy[d]
  BY <1>1, BeganSaving
<1>4. why \notin StartReasons
  BY DEF Handlers, StartReasons
<1>5. CopyInv(c)'
  <2>1. /\ made + 1 \notin acked' /\ made + 1 \in 1 .. made'
        /\ 1 .. made \subseteq 1 .. made'
    BY <1>2 DEF IInv, DiskInv, told
  <2>2. QED
    BY <1>1, <1>2, <1>3, <1>4, <2>1 DEF CopyInv, Unstarted, Works, Saves, told, Held
<1>6. QED
  BY <1>2, <1>3, <1>5, DiskStays, InsideStep

\* The sibling is nobody else's: what is written there is there to rename.
LEMMA WriteKept ==
  ASSUME IInv, NEW c \in Copies, Create(c) \/ Write(c) \/ Sync(c)
  PROVE  IInv'
<1>1. /\ TypeOK /\ copy[c].at \in {"create", "write", "sync"} /\ CopyInv(c)
      /\ tmp \in [text : Texts, synced : BOOLEAN]
  BY DEF IInv, TypeOK, Create, Write, Sync, At
<1>2. /\ TypeOK' /\ copy[c].at \notin Outside
      /\ UNCHANGED <<file, past, asides, made, told, crowded>>
  BY <1>1, SaveTyped DEF Save, Outside, Create, Write, Sync, copies, history
<1>3. DiskInv'
  BY <1>2, DiskStays
<1>4. PICK place \in {"write", "sync", "rename"} :
        /\ Goto(c, place)
        /\ place = "sync" => tmp'.text = copy[c].next
        /\ place = "rename" => tmp'.text = copy[c].next /\ tmp'.synced = TRUE
  <2>1. CASE Create(c)
    BY <2>1 DEF Create
  <2>2. CASE Write(c)
    BY <2>2, <1>1 DEF Write
  <2>3. CASE Sync(c)
    BY <2>3, <1>1 DEF Sync, At, CopyInv
  <2>4. QED
    BY <2>1, <2>2, <2>3
<1>5. /\ copy'[c].at = place /\ copy'[c].mem = copy[c].mem
      /\ copy'[c].next = copy[c].next /\ copy'[c].why = copy[c].why
      /\ copy'[c].maySave = copy[c].maySave /\ copy'[c].behind = copy[c].behind
      /\ \A d \in Copies \ {c} : copy'[d] = copy[d]
  BY <1>1, <1>4, Went
<1>6. CopyInv(c)'
  BY <1>1, <1>2, <1>4, <1>5 DEF CopyInv, Unstarted, Works, Saves, told, Held
<1>7. QED
  BY <1>2, <1>3, <1>5, <1>6, InsideStep

\* The rename puts a whole text, of all that was told saved and more, in the
\* file's place; what stand-ins lack is in the copy set aside.
LEMMA RenameKept ==
  ASSUME IInv, NEW c \in Copies, Rename(c)
  PROVE  IInv'
<1>1. /\ TypeOK /\ copy[c].at = "rename" /\ CopyInv(c) /\ DiskInv
      /\ tmp.text = copy[c].next /\ tmp.synced = TRUE /\ copy[c].next \in Texts
      /\ copy[c].why \in StartReasons \union Handlers /\ copy[c].maySave \in BOOLEAN
      /\ replaced \in BOOLEAN
  BY DEF IInv, TypeOK, Rename, At, CopyInv
<1>2. /\ TypeOK' /\ copy[c].at \notin Outside
      /\ UNCHANGED <<asides, made, acked, owed, unsaved, lost, crowded>>
      /\ file' = copy[c].next /\ past' = past \union {copy[c].next}
      /\ replaced' = (replaced \/ (copy[c].why \in Handlers /\ ~copy[c].maySave))
  BY <1>1, SaveTyped DEF Save, Outside, Rename, IInv, copies
<1>3. /\ copy'[c].at = "saved" /\ copy'[c].mem = copy[c].mem
      /\ copy'[c].next = copy[c].next /\ copy'[c].why = copy[c].why
      /\ copy'[c].maySave = copy[c].maySave /\ copy'[c].behind = copy[c].behind
      /\ \A d \in Copies \ {c} : copy'[d] = copy[d]
  BY <1>1, Went DEF Rename
<1>4. Held(copy[c].next) = copy[c].next
  BY <1>1, TextsAreRead
<1>5. copy[c].mem \subseteq copy[c].next /\ copy[c].next \subseteq 1 .. made
      /\ (copy[c].why \in StartReasons => copy[c].next = copy[c].mem /\ copy[c].maySave)
  BY <1>1 DEF CopyInv, Saves
<1>6. replaced \/ ~copy[c].maySave => replaced'
  BY <1>1, <1>2, <1>5
<1>7. acked \ unsaved \subseteq copy[c].next \union (IF replaced' THEN UNION asides ELSE {}) \union lost
  BY <1>1, <1>5, <1>6 DEF CopyInv, Works, Saves
<1>8. DiskInv'
  <2>1. \A text \in past : owed \subseteq Held(text) \union (IF replaced' THEN UNION asides ELSE {}) \union lost
    BY <1>1, <1>2 DEF DiskInv, Kept
  <2>2. owed \subseteq copy[c].next \union (IF replaced' THEN UNION asides ELSE {}) \union lost
    BY <1>1, <1>7 DEF DiskInv
  <2>3. QED
    BY <1>1, <1>2, <1>4, <1>5, <1>7, <2>1, <2>2 DEF DiskInv, Kept, Held
<1>9. CopyInv(c)'
  <2>1. acked \ unsaved \subseteq copy[c].mem
            \union (IF replaced' \/ ~copy[c].maySave THEN UNION asides ELSE {}) \union lost
    BY <1>1, <1>2 DEF CopyInv, Works, Saves
  <2>2. QED
    BY <1>1, <1>2, <1>3, <1>5, <2>1 DEF CopyInv, Unstarted, Works, Saves
<1>10. QED
  BY <1>2, <1>3, <1>8, <1>9, InsideStep

\* A save that fails leaves the file as it was.
LEMMA FailKept ==
  ASSUME IInv, NEW c \in Copies, SaveFails(c)
  PROVE  IInv'
<1>1. /\ TypeOK /\ copy[c].at \in SaveSteps /\ CopyInv(c)
      /\ TypeOK' /\ UNCHANGED <<file, tmp, past, asides, made, told, crowded>>
  BY SaveTyped DEF Save, IInv, SaveFails, disk, copies, history
<1>2. /\ copy'[c].at = "failed" /\ copy'[c].mem = copy[c].mem
      /\ copy'[c].next = copy[c].next /\ copy'[c].why = copy[c].why
      /\ copy'[c].maySave = copy[c].maySave /\ copy'[c].behind = copy[c].behind
      /\ \A d \in Copies \ {c} : copy'[d] = copy[d]
  BY <1>1, Went DEF SaveFails
<1>3. CopyInv(c)' /\ copy[c].at \notin Outside
  BY <1>1, <1>2 DEF CopyInv, Unstarted, Works, Saves, SaveSteps, Outside, told, Held
<1>4. QED
  BY <1>1, <1>2, <1>3, DiskStays, InsideStep

\* After a save the program works on what it wrote, or on what it had, or
\* ahead of the file when it ignored that the save failed.
LEMMA ReturnKept ==
  ASSUME IInv, NEW c \in Copies, Saved(c) \/ NotSaved(c)
  PROVE  IInv'
<1>1. /\ TypeOK /\ copy[c].at \in {"saved", "failed"} /\ CopyInv(c) /\ DiskInv
      /\ copy[c].next \in Texts /\ copy[c].behind \in BOOLEAN
  BY DEF IInv, TypeOK, Saved, NotSaved, At
<1>2. /\ TypeOK' /\ copy[c].at \notin Outside
      /\ UNCHANGED <<file, tmp, past, asides, made, owed, replaced, lost, crowded>>
  BY <1>1, SaveTyped DEF Save, IInv, Outside, Saved, NotSaved, disk, copies
<1>3. /\ copy[c].mem \subseteq copy[c].next
      /\ (copy[c].next \ copy[c].mem) \cap acked = {}
      /\ copy[c].next \subseteq 1 .. made
      /\ acked \ unsaved \subseteq copy[c].mem
            \union (IF replaced \/ ~copy[c].maySave THEN UNION asides ELSE {}) \union lost
  BY <1>1 DEF CopyInv, Works, Saves
<1>4. After(copy[c].why) \in {"ports", "build", "run"}
  BY DEF After
<1>5. CASE Saved(c)
  <2>1. /\ copy'[c].at = After(copy[c].why) /\ copy'[c].mem = copy[c].next
        /\ copy'[c].maySave = copy[c].maySave /\ copy'[c].behind = FALSE
        /\ \A d \in Copies \ {c} : copy'[d] = copy[d]
    BY <1>1, <1>5 DEF TypeOK, Saved
  <2>2. /\ file = copy[c].next /\ Held(file) = copy[c].next
        /\ acked \subseteq acked' /\ acked' \subseteq acked \union copy[c].next
        /\ unsaved' = unsaved \ copy[c].next
    BY <1>1, <1>5, TextsAreRead DEF CopyInv, Saved, At
  <2>3. acked' \subseteq 1 .. made
    BY <1>1, <1>3, <2>2 DEF DiskInv
  <2>4. DiskInv'
    BY <1>1, <1>2, <1>3, <2>2, <2>3 DEF DiskInv, Kept, Held
  <2>5. CopyInv(c)'
    BY <1>2, <1>3, <1>4, <2>1, <2>2 DEF CopyInv, Unstarted, Works, Saves, Held
  <2>6. QED
    BY <1>2, <2>1, <2>4, <2>5, InsideStep
<1>6. CASE NotSaved(c)
  <2>1. /\ copy'[c].at = After(copy[c].why)
        /\ copy'[c].mem = IF copy[c].why = "ignored" THEN copy[c].next ELSE copy[c].mem
        /\ copy'[c].maySave = copy[c].maySave
        /\ copy'[c].behind = (copy[c].behind \/ copy[c].why = "ignored")
        /\ \A d \in Copies \ {c} : copy'[d] = copy[d]
    BY <1>1, <1>6 DEF TypeOK, NotSaved
  <2>2. /\ acked' = acked \union Unsaved(c) /\ unsaved' = unsaved \union Unsaved(c)
        /\ copy[c].at = "failed"
    BY <1>6 DEF NotSaved, At
  <2>3. /\ Unsaved(c) \cap acked = {} /\ Unsaved(c) \subseteq 1 .. made
        /\ acked' \ unsaved' \subseteq acked \ unsaved
    BY <1>3, <2>2 DEF Unsaved
  <2>4. DiskInv'
    BY <1>1, <1>2, <2>2, <2>3 DEF DiskInv, Kept, Held
  <2>5. ~copy[c].behind => copy[c].mem = Held(file)
    BY <1>1, <2>2 DEF CopyInv, Works, Saves
  <2>6. copy[c].mem \subseteq copy'[c].mem /\ copy'[c].mem \subseteq 1 .. made
    BY <1>3, <2>1
  <2>7. CopyInv(c)'
    <3>1. copy'[c].at \in Works \ Saves /\ copy'[c].at \notin Unstarted
      BY <1>4, <2>1 DEF Works, Saves, Unstarted
    <3>2. acked' \ unsaved' \subseteq copy'[c].mem
            \union (IF replaced' \/ ~copy'[c].maySave THEN UNION asides' ELSE {}) \union lost'
      BY <1>2, <1>3, <2>1, <2>3, <2>6
    <3>3. ~copy'[c].behind => copy'[c].mem = Held(file')
      BY <1>2, <2>1, <2>5
    <3>4. QED
      BY <1>2, <2>6, <3>1, <3>2, <3>3 DEF CopyInv, Saves
  <2>8. QED
    BY <1>2, <2>1, <2>4, <2>7, InsideStep
<1>7. QED
  BY <1>5, <1>6

LEMMA StoppedIsUnstarted ==
  /\ Stopped.at \in Outside /\ Stopped.at = "out"
  /\ Stopped.mem = Defaults /\ Stopped.maySave = TRUE /\ Stopped.behind = FALSE
BY DEF Stopped, Outside

\* A program that ends takes nothing with it.
LEMMA DieKept ==
  ASSUME IInv, NEW c \in Copies, Die(c)
  PROVE  IInv'
<1>1. TypeOK' /\ UNCHANGED <<file, tmp, past, asides, made, told, crowded>>
  BY NextTyped DEF IInv, Next, Die, disk, copies, history
<1>2. copy'[c] = Stopped /\ \A d \in Copies \ {c} : copy'[d] = copy[d]
  BY DEF IInv, TypeOK, Die
<1>3. DiskInv' /\ \A d \in Copies \ {c} : CopyInv(d)'
  BY <1>1, <1>2, DiskStays, OthersStay
<1>4. CopyInv(c)'
  BY <1>2, StoppedIsUnstarted DEF CopyInv, Unstarted, Works, Saves
<1>5. OneInside'
  BY <1>2, StoppedIsUnstarted DEF IInv, OneInside, Inside
<1>6. QED
  BY <1>1, <1>3, <1>4, <1>5 DEF IInv

\* What a power cut brings back holds what is owed, but for the copies it took.
LEMMA PowerCutKept ==
  ASSUME IInv, PowerCut
  PROVE  IInv'
<1>1. TypeOK' /\ DiskInv
  BY NextTyped DEF IInv, Next
<1>2. PICK left \in past : file' = left /\ past' = {left}
  BY DEF PowerCut
<1>3. /\ acked' = owed /\ UNCHANGED <<made, owed, replaced, unsaved, crowded>>
      /\ lost' = lost \union ((UNION asides) \ ((UNION asides') \union Held(file')))
  BY DEF PowerCut
<1>4. Kept(owed, file)'
  <2>1. owed \subseteq Held(left) \union (IF replaced THEN UNION asides ELSE {}) \union lost
    BY <1>1, <1>2 DEF DiskInv, Kept
  <2>2. (UNION asides) \subseteq Held(file') \union (UNION asides') \union lost'
    BY <1>3
  <2>3. QED
    BY <1>2, <1>3, <2>1, <2>2 DEF Kept
<1>5. DiskInv'
  <2>1. Held(left) \subseteq 1 .. made /\ owed \subseteq acked \ unsaved /\ acked \subseteq 1 .. made
    BY <1>1, <1>2 DEF DiskInv
  <2>2. \A text \in past' : text = file' /\ Held(text) \subseteq 1 .. made'
    BY <1>2, <1>3, <2>1
  <2>3. \A text \in past' : Kept(owed, text)'
    BY <1>4, <2>2 DEF Kept
  <2>4. owed' \subseteq acked' \ unsaved' /\ acked' \subseteq 1 .. made'
    BY <1>3, <2>1
  <2>5. Kept(acked \ unsaved, file)'
    BY <1>3, <1>4 DEF Kept
  <2>6. QED
    BY <1>2, <2>2, <2>3, <2>4, <2>5 DEF DiskInv
<1>6. \A c \in Copies : copy'[c] = Stopped
  BY DEF PowerCut
<1>7. \A c \in Copies : CopyInv(c)' /\ copy'[c].at = "out"
  BY <1>6, StoppedIsUnstarted DEF CopyInv, Unstarted, Works, Saves
<1>8. QED
  BY <1>1, <1>3, <1>5, <1>7 DEF IInv, OneInside, Inside

LEMMA SettleKept ==
  ASSUME IInv, Settle
  PROVE  IInv'
<1>1. TypeOK' /\ DiskInv
  BY NextTyped DEF IInv, Next
<1>2. /\ past' = {file} /\ owed' = acked \ unsaved
      /\ UNCHANGED <<file, tmp, asides, copy, made, acked, replaced, unsaved, lost, crowded>>
  BY DEF Settle
<1>3. DiskInv'
  BY <1>1, <1>2 DEF DiskInv, Kept, Held
<1>4. OneInside' /\ \A c \in Copies : CopyInv(c)'
  BY <1>2 DEF IInv, OneInside, Inside, CopyInv, Held
<1>5. QED
  BY <1>1, <1>2, <1>3, <1>4 DEF IInv

\* As long as no program runs beside another without the lock.
LEMMA NextKept ==
  ASSUME IInv, [Next]_vars, ~crowded'
  PROVE  IInv'
<1>1. CASE UNCHANGED vars
  BY <1>1 DEF IInv, TypeOK, OneInside, Inside, DiskInv, Kept, CopyInv, Held, vars
<1>2. CASE \E c \in Copies : Start(c)
  BY <1>2, EnterKept, LoadKept, SettleStartKept DEF Start
<1>3. CASE \E c \in Copies, why \in Handlers : Change(c, why)
  BY <1>3, ChangeKept
<1>4. CASE \E c \in Copies : Save(c)
  BY <1>4, WriteKept, RenameKept, FailKept, ReturnKept DEF Save
<1>5. CASE (\E c \in Copies : Die(c)) \/ Settle \/ PowerCut
  BY <1>5, DieKept, SettleKept, PowerCutKept
<1>6. QED
  BY <1>1, <1>2, <1>3, <1>4, <1>5 DEF Next

\* A program that has run beside another has.
LEMMA CrowdedStays ==
  ASSUME TypeOK, [Next]_vars, crowded
  PROVE  crowded'
<1>1. CASE \E c \in Copies : Start(c)
  BY <1>1 DEF Start, Launch, TakeLock, RunUnguarded, HeldElsewhere, Loaded, FreshInstall,
              Unreadable, CopyAside, SettlePorts, StartFromThisBuild, history
<1>2. CASE \E c \in Copies : Save(c)
  BY <1>2 DEF Save, Create, Write, Sync, Rename, SaveFails, Saved, NotSaved, history
<1>3. CASE ~\E c \in Copies : Start(c) \/ Save(c)
  BY <1>3 DEF Next, Change, Die, Settle, PowerCut, vars, history
<1>4. QED
  BY <1>1, <1>2, <1>3

GuardedInv == TypeOK /\ (~crowded => IInv)

LEMMA Inductive == Spec => []GuardedInv
<1>1. Init => GuardedInv
  BY InitKept, InitTyped DEF GuardedInv
<1>2. ASSUME GuardedInv, [Next]_vars
      PROVE  GuardedInv'
  <2>1. TypeOK'
    BY <1>2, NextTyped DEF GuardedInv
  <2>2. ASSUME ~crowded' PROVE IInv'
    BY <1>2, <2>2, CrowdedStays, NextKept DEF GuardedInv
  <2>3. QED
    BY <2>1, <2>2 DEF GuardedInv
<1>3. QED
  BY <1>1, <1>2, PTL DEF Spec

\* What the user was told is saved is in the file, or in the copy set aside
\* from under settings that replaced it, through every kill, second launch and
\* failed save; a power cut takes no more of it than was told since the disk
\* settled and what only a copy the disk had not caught up with held (save,
\* load_for_startup, the instance lock).  Excepted are the changes a handler
\* answered with OK over a failed save, and programs run side by side because
\* the lock could not be had.
THEOREM SavedKept == Spec => []SavedIsKept
<1>1. GuardedInv => SavedIsKept
  BY DEF GuardedInv, IInv, DiskInv, Kept, SavedIsKept, Found
<1>2. QED
  BY <1>1, Inductive, PTL

\* Between two handlers the settings in use are the file's, unless a failed
\* save was ignored or the file could not be read: a restart changes nothing
\* (post_config), with one program at a time.
THEOREM FileRuns == Spec => []FileIsWhatRuns
<1>1. GuardedInv => FileIsWhatRuns
  BY DEF GuardedInv, IInv, CopyInv, FileIsWhatRuns, At, Works
<1>2. QED
  BY <1>1, Inductive, PTL
=============================================================================
