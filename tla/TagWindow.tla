------------------------------ MODULE TagWindow ------------------------------
(***************************************************************************)
(* What the buffer promises its users, with the file left out: an append-  *)
(* only log of tags of which a suffix is still readable.  The window moves *)
(* forward only, a tag's sequence number is its place in the log for ever, *)
(* and a reader that asks for a sequence number is handed exactly the tag  *)
(* appended under it, or nothing.  DiskRing implements this with a file    *)
(* whose bytes are overwritten.                                            *)
(***************************************************************************)
EXTENDS Naturals, Sequences

CONSTANTS Tags,     \* the tags a publisher may send
          Readers   \* the tasks that read the buffer (one per destination)

VARIABLES log,      \* every tag ever appended; tag number s is log[s + 1]
          first,    \* the lowest sequence number still readable
          given     \* per reader, the tag it was last handed, or Nothing

vars == <<log, first, given>>

Nothing == [seq |-> 0, tag |-> <<>>]

Init == /\ log = <<>>
        /\ first = 0
        /\ given = [r \in Readers |-> Nothing]

\* A tag is added at the end; making room for it was a Forget of its own.
Add(tag) == /\ log' = Append(log, tag)
            /\ UNCHANGED <<first, given>>

\* The oldest readable tags stop being readable.
Forget == /\ first' \in (first + 1)..Len(log)
          /\ UNCHANGED <<log, given>>

\* A reader is handed the tag numbered s while s is in the window.
Give(r, s) == /\ s \in first..(Len(log) - 1)
              /\ given' = [given EXCEPT ![r] = [seq |-> s, tag |-> log[s + 1]]]
              /\ UNCHANGED <<log, first>>

\* A reader is done with the tag it was handed.
LetGo(r) == /\ given' = [given EXCEPT ![r] = Nothing]
            /\ UNCHANGED <<log, first>>

Next == \/ \E tag \in Tags : Add(tag)
        \/ Forget
        \/ \E r \in Readers : LetGo(r) \/ \E s \in 0..Len(log) : Give(r, s)

Spec == Init /\ [][Next]_vars
=============================================================================
