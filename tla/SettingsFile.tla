---------------------------- MODULE SettingsFile ----------------------------
(***************************************************************************)
(* The settings file of one setup (src/src/config.rs, instance_lock.rs, the *)
(* start in main.rs): who may write it, how a save replaces it, and what a *)
(* start of the program makes of what it finds, while copies of the        *)
(* program are launched, quit, killed, relaunched, and the power fails.    *)
(*                                                                         *)
(* A text is the set of the user's changes it brings back.  Every change   *)
(* is to a setting of its own, so that none takes another back.  A file    *)
(* cut short is read as the defaults of what it lacks: the empty set.      *)
(*                                                                         *)
(* A program that cannot have its lock file runs without the lock.  Two    *)
(* that run at once because of it are not followed down to the .tmp they   *)
(* share, which is one record here: nothing is claimed of them.            *)
(***************************************************************************)
EXTENDS Naturals, FiniteSets

CONSTANTS
  Copies,       \* running programs of this setup
  Nobody,       \* not one of them
  MaxChanges    \* bound: changes the user makes

Changes == 1 .. MaxChanges
Texts == SUBSET Changes
Defaults == {}
NoFile == {0}   \* there is no settings file yet (not a text: changes count from 1)

ASSUME NobodyIsNoCopy == Nobody \notin Copies
ASSUME ChangesAreBounded == MaxChanges \in Nat

VARIABLES
  file,       \* the settings file
  tmp,        \* its .tmp sibling: the text, and whether it is on the disk
  past,       \* what a power cut may leave as the settings file
  asides,     \* what the copies put aside hold
  kept,       \* of those, the ones that are on the disk
  lock,       \* who holds the instance lock
  copy,       \* each running program
  made,       \* changes made so far
  (* History. *)
  acked,      \* changes the user was told are saved
  owed,       \* of those, the ones saved when the disk last settled
  replaced,   \* the user changed settings over a file that was set aside
  unsaved,    \* changes answered with OK though their save had failed
  lost,       \* changes a power cut took with the copy that held them
  crowded     \* a program has run beside another without the lock

vars == <<file, tmp, past, asides, kept, lock, copy, made,
          acked, owed, replaced, unsaved, lost, crowded>>

SaveSteps == {"create", "write", "sync", "rename"}
Places == {"out", "start", "load", "aside", "ports", "build", "run",
           "saved", "failed"} \union SaveSteps

(* What the result of a save means to its caller: the three saves of a     *)
(* start ignore it, a handler checks it before it publishes the change, or *)
(* publishes whatever came of it.                                          *)
StartReasons == {"fresh", "ports", "build"}
Handlers == {"checked", "ignored"}

(* A program that is not running.  `behind` is history: what it works on   *)
(* is not the file's, because a failed save was ignored or the file could  *)
(* not be read.                                                            *)
Stopped == [at |-> "out", mem |-> Defaults, next |-> Defaults,
            why |-> "fresh", maySave |-> TRUE, behind |-> FALSE]

Held(text) == IF text = NoFile THEN Defaults ELSE text

Init ==
  /\ file = NoFile
  /\ tmp = [text |-> Defaults, synced |-> FALSE]
  /\ past = {NoFile}
  /\ asides = {} /\ kept = {}
  /\ lock = Nobody
  /\ copy = [c \in Copies |-> Stopped]
  /\ made = 0
  /\ acked = {}
  /\ owed = {}
  /\ replaced = FALSE
  /\ unsaved = {} /\ lost = {}
  /\ crowded = FALSE

At(c, place) == copy[c].at = place
Goto(c, place) == copy' = [copy EXCEPT ![c].at = place]

(* `save` with the settings `text`, from its first step. *)
Saving(c, text, why) ==
  copy' = [copy EXCEPT ![c].at = "create", ![c].next = text, ![c].why = why]

Inside(c) == copy[c].at \notin {"out", "start"}

told == <<acked, owed, replaced, unsaved, lost>>
copies == <<asides, kept>>
disk == <<file, tmp, past, copies>>
history == <<told, crowded>>

-----------------------------------------------------------------------------
(* A start. *)

(* The user starts a copy, or a restart spawns the next one. *)
Launch(c) ==
  /\ At(c, "out")
  /\ Goto(c, "start")
  /\ UNCHANGED <<disk, lock, made, history>>

TakeLock(c) ==
  /\ At(c, "start")
  /\ lock = Nobody
  /\ lock' = c
  /\ crowded' = (crowded \/ \E d \in Copies : Inside(d) /\ lock # d)
  /\ Goto(c, "load")
  /\ UNCHANGED <<disk, made, told>>

(* The lock file cannot be opened or locked: the program runs without it.  *)
RunUnguarded(c) ==
  /\ At(c, "start")
  /\ crowded' = (crowded \/ \E d \in Copies : Inside(d))
  /\ Goto(c, "load")
  /\ UNCHANGED <<disk, lock, made, told>>

(* Another copy runs: at once for a launch, after the wait for a restart,  *)
(* this one leaves without touching anything.                              *)
HeldElsewhere(c) ==
  /\ At(c, "start")
  /\ lock # Nobody
  /\ Goto(c, "out")
  /\ UNCHANGED <<disk, lock, made, history>>

Loaded(c) ==
  /\ At(c, "load")
  /\ file # NoFile
  /\ copy' = [copy EXCEPT ![c].at = "ports", ![c].mem = file]
  /\ UNCHANGED <<disk, lock, made, history>>

FreshInstall(c) ==
  /\ At(c, "load")
  /\ file = NoFile
  /\ Saving(c, Defaults, "fresh")
  /\ UNCHANGED <<disk, lock, made, history>>

(* Something holds the file through all the attempts at reading it. *)
Unreadable(c) ==
  /\ At(c, "load")
  /\ file # NoFile
  /\ Goto(c, "aside")
  /\ UNCHANGED <<disk, lock, made, history>>

(* The copy is not synced: it reaches the disk when the disk settles.      *)
(* Without it the program does not start: that is Die.                     *)
CopyAside(c) ==
  /\ At(c, "aside")
  /\ file # NoFile
  /\ asides' = asides \union {file}
  /\ copy' = [copy EXCEPT ![c].at = "ports", ![c].maySave = FALSE,
                          ![c].behind = TRUE]
  /\ UNCHANGED <<file, tmp, past, kept, lock, made, history>>

(* The ports the start settled on are saved, and a fresh install marks the *)
(* build it starts from: neither is a change of the user's.                *)
SettlePorts(c) ==
  /\ At(c, "ports")
  /\ IF copy[c].maySave THEN Saving(c, copy[c].mem, "ports") ELSE Goto(c, "build")
  /\ UNCHANGED <<disk, lock, made, history>>

StartFromThisBuild(c) ==
  /\ At(c, "build")
  /\ \/ copy[c].maySave /\ Saving(c, copy[c].mem, "build")
     \/ Goto(c, "run")
  /\ UNCHANGED <<disk, lock, made, history>>

-----------------------------------------------------------------------------
(* A change, and the save. *)

(* The handlers share the runtime's one thread: the next one starts when   *)
(* this one has answered.                                                  *)
Change(c, why) ==
  /\ At(c, "run")
  /\ made < MaxChanges
  /\ made' = made + 1
  /\ Saving(c, copy[c].mem \union {made + 1}, why)
  /\ UNCHANGED <<disk, lock, history>>

Create(c) ==
  /\ At(c, "create")
  /\ tmp' = [text |-> Defaults, synced |-> FALSE]
  /\ Goto(c, "write")
  /\ UNCHANGED <<file, past, copies, lock, made, history>>

Write(c) ==
  /\ At(c, "write")
  /\ tmp' = [tmp EXCEPT !.text = copy[c].next]
  /\ Goto(c, "sync")
  /\ UNCHANGED <<file, past, copies, lock, made, history>>

(* Mutant: the text is renamed over the file before it is on the disk. *)
SyncForgotten(c) ==
  /\ At(c, "sync")
  /\ Goto(c, "rename")
  /\ UNCHANGED <<disk, lock, made, history>>

Sync(c) ==
  /\ At(c, "sync")
  /\ tmp' = [tmp EXCEPT !.synced = TRUE]
  /\ Goto(c, "rename")
  /\ UNCHANGED <<file, past, copies, lock, made, history>>

(* The rename reaches the disk when it likes, and so does a text that was  *)
(* not synced.                                                             *)
Rename(c) ==
  /\ At(c, "rename")
  /\ file' = tmp.text
  /\ past' = past \union {tmp.text} \union (IF tmp.synced THEN {} ELSE {Defaults})
  /\ replaced' = (replaced \/ (copy[c].why \in Handlers /\ ~copy[c].maySave))
  /\ Goto(c, "saved")
  /\ UNCHANGED <<tmp, copies, lock, made, acked, owed, unsaved, lost, crowded>>

(* The disk is full, or something holds one of the two files. *)
SaveFails(c) ==
  /\ copy[c].at \in SaveSteps
  /\ Goto(c, "failed")
  /\ UNCHANGED <<disk, lock, made, history>>

After(why) ==
  CASE why = "fresh" -> "ports"
    [] why = "ports" -> "build"
    [] OTHER -> "run"

Saved(c) ==
  /\ At(c, "saved")
  /\ copy' = [copy EXCEPT ![c].at = After(copy[c].why), ![c].mem = copy[c].next,
                          ![c].behind = FALSE]
  /\ acked' = IF copy[c].why \in Handlers THEN acked \union copy[c].next ELSE acked
  /\ unsaved' = unsaved \ copy[c].next
  /\ UNCHANGED <<disk, lock, made, owed, replaced, lost, crowded>>

(* What a handler answers with OK although it is not saved. *)
Unsaved(c) == IF copy[c].why = "ignored" THEN copy[c].next \ copy[c].mem ELSE {}

(* Mutant: the handler publishes the change before it looks at the result. *)
NotSavedButPublished(c) ==
  /\ At(c, "failed")
  /\ copy' = [copy EXCEPT
       ![c].at = After(copy[c].why),
       ![c].mem = copy[c].next,
       ![c].behind = copy[c].behind \/ copy[c].why = "ignored"]
  /\ acked' = acked \union Unsaved(c)
  /\ unsaved' = unsaved \union Unsaved(c)
  /\ UNCHANGED <<disk, lock, made, owed, replaced, lost, crowded>>

NotSaved(c) ==
  /\ At(c, "failed")
  /\ copy' = [copy EXCEPT
       ![c].at = After(copy[c].why),
       ![c].mem = IF copy[c].why = "ignored" THEN copy[c].next ELSE copy[c].mem,
       ![c].behind = copy[c].behind \/ copy[c].why = "ignored"]
  /\ acked' = acked \union Unsaved(c)
  /\ unsaved' = unsaved \union Unsaved(c)
  /\ UNCHANGED <<disk, lock, made, owed, replaced, lost, crowded>>

-----------------------------------------------------------------------------
(* Ends. *)

(* A copy quits, restarts, gives up its start, or is killed. *)
Die(c) ==
  /\ ~At(c, "out")
  /\ copy' = [copy EXCEPT ![c] = Stopped]
  /\ lock' = IF lock = c THEN Nobody ELSE lock
  /\ UNCHANGED <<disk, made, history>>

(* The disk has caught up with the renames and the copies. *)
Settle ==
  /\ past' = {file}
  /\ kept' = asides
  /\ owed' = acked \ unsaved
  /\ UNCHANGED <<file, tmp, asides, lock, copy, made, acked, replaced, unsaved, lost, crowded>>

(* The power fails: of what the disk has not caught up with some renames   *)
(* are undone and some copies gone, and what the user was told since is    *)
(* not held against it.                                                    *)
PowerCut ==
  /\ \E left \in past : file' = left /\ past' = {left}
  /\ \E more \in SUBSET (asides \ kept) : asides' = kept \union more /\ kept' = kept \union more
  /\ tmp' = [text |-> Defaults, synced |-> FALSE]
  /\ copy' = [c \in Copies |-> Stopped]
  /\ lock' = Nobody
  /\ acked' = owed
  /\ lost' = lost \union ((UNION asides) \ ((UNION asides') \union Held(file')))
  /\ UNCHANGED <<made, owed, replaced, unsaved, crowded>>

Start(c) ==
  \/ Launch(c) \/ TakeLock(c) \/ RunUnguarded(c) \/ HeldElsewhere(c)
  \/ Loaded(c) \/ FreshInstall(c) \/ Unreadable(c) \/ CopyAside(c)
  \/ SettlePorts(c) \/ StartFromThisBuild(c)

Save(c) ==
  \/ Create(c) \/ Write(c) \/ Sync(c) \/ Rename(c)
  \/ SaveFails(c) \/ Saved(c) \/ NotSaved(c)

Next ==
  \/ \E c \in Copies :
       \/ Start(c)
       \/ \E why \in Handlers : Change(c, why)
       \/ Save(c)
       \/ Die(c)
  \/ Settle
  \/ PowerCut

Spec == Init /\ [][Next]_vars

-----------------------------------------------------------------------------
(* Properties. *)

(* Every variable keeps its type. *)
TypeOK ==
  /\ file \in Texts \union {NoFile}
  /\ tmp \in [text : Texts, synced : BOOLEAN]
  /\ past \subseteq Texts \union {NoFile}
  /\ asides \subseteq Texts /\ kept \subseteq asides
  /\ lock \in Copies \union {Nobody}
  /\ copy \in [Copies -> [at : Places, mem : Texts, next : Texts,
                          why : StartReasons \union Handlers,
                          maySave : BOOLEAN, behind : BOOLEAN]]
  /\ made \in 0 .. MaxChanges
  /\ acked \in Texts
  /\ owed \in Texts
  /\ replaced \in BOOLEAN
  /\ unsaved \in Texts /\ lost \in Texts
  /\ crowded \in BOOLEAN

Found == Held(file) \union (IF replaced THEN UNION asides ELSE {})

(* A change the user was told is saved is never lost: whatever is killed,  *)
(* whichever copy starts, and however a save or a read fails, it is in the *)
(* file, or, once the user changed settings over a file the start could    *)
(* not read, in the copy set aside (save, load_for_startup, the instance   *)
(* lock).  A power cut takes only what was told since the disk settled and *)
(* what was in a copy and not in the file; a save that failed, only the    *)
(* changes answered with OK all the same.  Nothing is said of programs     *)
(* that run side by side without the lock.                                 *)
SavedIsKept == ~crowded => acked \subseteq Found \union unsaved \union lost

(* A restart brings back what the program works on: between two handlers   *)
(* the settings in use are the file's, but for a save whose failure was    *)
(* ignored, for a start that could not read them (post_config publishes    *)
(* only what is saved), and for programs side by side without the lock.    *)
FileIsWhatRuns ==
  ~crowded =>
    \A c \in Copies :
      At(c, "run") /\ ~copy[c].behind => copy[c].mem = Held(file)
=============================================================================
