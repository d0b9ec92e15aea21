-------------------------- MODULE IndependentLists --------------------------
(***************************************************************************)
(* What list.h promises: every list is a sequence of its own, whatever was *)
(* copied from what.  A list has at most one mutable cursor, which follows *)
(* its element through every change, and there may be a light cursor,      *)
(* which survives additions and is invalidated by a removal.               *)
(***************************************************************************)
EXTENDS Naturals, Sequences, SequencesExt

CONSTANTS Lists, Payloads, Absent

VARIABLES seqs,    \* the contents of every list, or Absent
          cursor,  \* position of the mutable cursor, 0 if invalid, or Absent
          light    \* [list, pos] of the light cursor, pos 0 if invalid, or Absent

vars == <<seqs, cursor, light>>

Exists(l)     == seqs[l] # Absent
HasCursor(l)  == Exists(l) /\ cursor[l] # Absent
LightOn(l)    == light # Absent /\ light.list = l
Positions(l)  == 1..Len(seqs[l])

Init ==
  /\ seqs   = [l \in Lists |-> Absent]
  /\ cursor = [l \in Lists |-> Absent]
  /\ light  = Absent

New(l) ==
  /\ ~Exists(l)
  /\ seqs' = [seqs EXCEPT ![l] = <<>>]
  /\ UNCHANGED <<cursor, light>>

Destroy(l) ==
  /\ Exists(l)
  /\ seqs' = [seqs EXCEPT ![l] = Absent]
  /\ UNCHANGED <<cursor, light>>

Copy(o, d) ==
  /\ Exists(o) /\ ~Exists(d)
  /\ seqs' = [seqs EXCEPT ![d] = seqs[o]]
  /\ UNCHANGED <<cursor, light>>

\* An addition at position i moves the cursors at or after it along.
Insert(l, i, x) ==
  LET moved(p) == IF p # 0 /\ p >= i THEN p + 1 ELSE p IN
  /\ seqs'   = [seqs EXCEPT ![l] = InsertAt(@, i, x)]
  /\ cursor' = IF HasCursor(l) THEN [cursor EXCEPT ![l] = moved(@)] ELSE cursor
  /\ light'  = IF LightOn(l) THEN [light EXCEPT !.pos = moved(@)] ELSE light

\* A removal invalidates the light cursor; the mutable one stays on its
\* element, or moves to the next, the previous, or nowhere.
Delete(l, i) ==
  LET n == Len(seqs[l])
      moved(p) == IF p > i \/ (p = i /\ i = n) THEN p - 1 ELSE p IN
  /\ seqs'   = [seqs EXCEPT ![l] = RemoveAt(@, i)]
  /\ cursor' = IF HasCursor(l) THEN [cursor EXCEPT ![l] = moved(@)] ELSE cursor
  /\ light'  = IF LightOn(l) THEN [light EXCEPT !.pos = 0] ELSE light

Prepend(l, x) == Exists(l) /\ Insert(l, 1, x)
Append1(l, x) == Exists(l) /\ Insert(l, Len(seqs[l]) + 1, x)

\* The first element that matches.
RemoveMatch(l, x) ==
  /\ Exists(l)
  /\ \E i \in Positions(l) : /\ seqs[l][i] = x
                             /\ \A j \in 1..(i - 1) : seqs[l][j] # x
                             /\ Delete(l, i)

OpenCursor(l) ==
  /\ Exists(l) /\ cursor[l] = Absent /\ seqs[l] # <<>>
  /\ cursor' = [cursor EXCEPT ![l] = 1]
  /\ UNCHANGED <<seqs, light>>

CloseCursor(l) ==
  /\ HasCursor(l)
  /\ cursor' = [cursor EXCEPT ![l] = Absent]
  /\ UNCHANGED <<seqs, light>>

\* First, last, next and previous.
MoveCursor(l) ==
  /\ HasCursor(l) /\ cursor[l] # 0
  /\ \E p \in Positions(l) \cap {1, Len(seqs[l]), cursor[l] + 1, cursor[l] - 1} :
       cursor' = [cursor EXCEPT ![l] = p]
  /\ UNCHANGED <<seqs, light>>

CursorPrepend(l, x) == HasCursor(l) /\ cursor[l] # 0 /\ Insert(l, cursor[l], x)
CursorAppend(l, x)  == HasCursor(l) /\ cursor[l] # 0 /\ Insert(l, cursor[l] + 1, x)
CursorRemove(l)     == /\ HasCursor(l) /\ cursor[l] # 0
                       /\ Len(seqs[l]) > 1
                       /\ Delete(l, cursor[l])

OpenLight(l) ==
  /\ Exists(l) /\ light = Absent /\ seqs[l] # <<>>
  /\ light' = [list |-> l, pos |-> 1]
  /\ UNCHANGED <<seqs, cursor>>

CloseLight ==
  /\ light # Absent
  /\ light' = Absent
  /\ UNCHANGED <<seqs, cursor>>

MoveLight ==
  /\ light # Absent /\ light.pos # 0
  /\ \E p \in Positions(light.list) \cap {1, Len(seqs[light.list]),
                                          light.pos + 1, light.pos - 1} :
       light' = [light EXCEPT !.pos = p]
  /\ UNCHANGED <<seqs, cursor>>

Next ==
  \/ MoveLight \/ CloseLight
  \/ \E l \in Lists :
       \/ MoveCursor(l) \/ OpenCursor(l) \/ CloseCursor(l) \/ CursorRemove(l)
       \/ OpenLight(l)
       \/ New(l) \/ Destroy(l) \/ \E d \in Lists : Copy(l, d)
       \/ \E x \in Payloads : \/ Prepend(l, x) \/ Append1(l, x) \/ RemoveMatch(l, x)
                              \/ CursorPrepend(l, x) \/ CursorAppend(l, x)

Spec == Init /\ [][Next]_vars
=============================================================================
