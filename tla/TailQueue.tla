----------------------------- MODULE TailQueue -----------------------------
(***************************************************************************)
(* The tail queues of server/queue.h (FreeBSD), which hold the server's    *)
(* thread_data.  A head and an element are cells of two pointers each:     *)
(* tqh_first or tqe_next, and tqh_last or tqe_prev.  The second one is the *)
(* address of the first pointer of some cell, and as that is where a cell  *)
(* begins, the address of the cell: TAILQ_LAST and TAILQ_PREV rely on it   *)
(* when they take an element for a head.                                   *)
(*                                                                         *)
(* The auxiliary variables say what the pointers are for: queue is the     *)
(* sequence each head stands for, and ahead what a running                 *)
(* TAILQ_FOREACH_SAFE has still to visit, the element it is at included.   *)
(***************************************************************************)
EXTENDS Integers, SequencesExt

CONSTANTS
  Heads,     \* the queues
  Elements,  \* the structures with a TAILQ_ENTRY
  NULL,      \* the null pointer
  Trash      \* what a pointer holds before malloc's memory is set, or after free

ASSUME QueueAssumption ==
  /\ Heads \cap Elements = {}
  /\ {NULL, Trash} \cap (Heads \cup Elements) = {}
  /\ NULL # Trash

VARIABLES
  link,   \* tqh_first of a head, tqe_next of an element
  back,   \* tqh_last of a head, tqe_prev of an element
  loop,   \* the running TAILQ_FOREACH_SAFE: its head, or NULL; item and tmp
  queue,  \* auxiliary: the elements of each queue, in order
  ahead   \* auxiliary: the elements the loop has not done with

memory == <<link, back>>
vars   == <<link, back, loop, queue, ahead>>

Cells == Heads \cup Elements

TypeOK ==
  /\ link \in [Cells -> Elements \cup {NULL, Trash}]
  /\ back \in [Cells -> Cells \cup {Trash}]
  /\ loop \in [head : Heads \cup {NULL}, item : Elements \cup {NULL},
               tmp : Elements \cup {NULL}]
  /\ queue \in [Heads -> Seq(Elements)]
  /\ ahead \in Seq(Elements)

NoLoop == [head |-> NULL, item |-> NULL, tmp |-> NULL]

\* TAILQ_INIT of every head; no element is in a queue.
Init ==
  /\ link = [c \in Cells |-> IF c \in Heads THEN NULL ELSE Trash]
  /\ back = [c \in Cells |-> IF c \in Heads THEN c ELSE Trash]
  /\ loop = NoLoop
  /\ queue = [h \in Heads |-> << >>]
  /\ ahead = << >>

-----------------------------------------------------------------------------
(***************************************************************************)
(* The macros.  Assignments to one pointer field after the other become    *)
(* the parts of an EXCEPT, in the order of the code.                       *)
(***************************************************************************)
TAILQ_EMPTY(h) == link[h] = NULL
TAILQ_FIRST(h) == link[h]
TAILQ_NEXT(e)  == link[e]

\* (*(((struct headname *)((head)->tqh_last))->tqh_last))
TAILQ_LAST(h)  == link[back[back[h]]]

TAILQ_PREV(e)  == link[back[back[e]]]

\* The cell whose second pointer leads back to the cell at: the element after
\* it, or the head of its queue.
After(h, at) == IF link[at] # NULL THEN link[at] ELSE h

\* The common part of TAILQ_INSERT_HEAD, where at is the head, and
\* TAILQ_INSERT_AFTER.
LinkAfter(h, at, e) ==
  /\ link' = [link EXCEPT ![e] = link[at], ![at] = e]
  /\ back' = [back EXCEPT ![After(h, at)] = e, ![e] = at]

TAILQ_INSERT_HEAD(h, e) == LinkAfter(h, h, e)

TAILQ_INSERT_AFTER(h, listelm, e) == LinkAfter(h, listelm, e)

TAILQ_INSERT_BEFORE(listelm, e) ==
  /\ link' = [link EXCEPT ![e] = listelm, ![back[listelm]] = e]
  /\ back' = [back EXCEPT ![e] = back[listelm], ![listelm] = e]

TAILQ_INSERT_TAIL(h, e) ==
  /\ link' = [link EXCEPT ![e] = NULL, ![back[h]] = e]
  /\ back' = [back EXCEPT ![e] = back[h], ![h] = e]

\* Mutant: the head's tqh_last is not moved when the last element goes.
remove_keeping_last(h, e) ==
  /\ link' = [link EXCEPT ![back[e]] = link[e], ![e] = Trash]
  /\ back' = [back EXCEPT ![IF link[e] # NULL THEN link[e] ELSE e] = back[e],
                          ![e] = Trash]

\* The element's own pointers are of no use afterwards: TRASHIT overwrites them in
\* a debug build, and free follows.
TAILQ_REMOVE(h, e) ==
  /\ link' = [link EXCEPT ![back[e]] = link[e], ![e] = Trash]
  /\ back' = [back EXCEPT ![After(h, e)] = back[e], ![e] = Trash]

TAILQ_CONCAT(h1, h2) ==
  IF TAILQ_EMPTY(h2) THEN UNCHANGED memory
  ELSE /\ link' = [link EXCEPT ![back[h1]] = link[h2], ![h2] = NULL]
       /\ back' = [back EXCEPT ![link[h2]] = back[h1], ![h1] = back[h2], ![h2] = h2]

\* What tqh_last of h becomes when h takes over the elements of g.
LastOf(h, g) == IF TAILQ_EMPTY(g) THEN h ELSE back[g]

TAILQ_SWAP(h1, h2) ==
  /\ link' = [link EXCEPT ![h1] = link[h2], ![h2] = link[h1]]
  /\ back' = [c \in Cells |->
                CASE c = h1 -> LastOf(h1, h2)
                  [] c = h2 -> LastOf(h2, h1)
                  [] c = link[h2] -> h1
                  [] c = link[h1] -> h2
                  [] OTHER -> back[c]]

-----------------------------------------------------------------------------
(***************************************************************************)
(* Their use: on elements that are, or are not, in a queue.                *)
(***************************************************************************)
Idle == loop = NoLoop /\ UNCHANGED <<loop, ahead>>

Outside == {e \in Elements : \A h \in Heads : ~Contains(queue[h], e)}

\* e joins queue h with i elements before it.
Joins(h, i, e) == queue' = [queue EXCEPT ![h] = InsertAt(@, i + 1, e)]

InsertHead(h, e) == Idle /\ TAILQ_INSERT_HEAD(h, e) /\ Joins(h, 0, e)

InsertTail(h, e) == Idle /\ TAILQ_INSERT_TAIL(h, e) /\ Joins(h, Len(queue[h]), e)

InsertAfter(h, e) ==
  \E i \in DOMAIN queue[h] :
    Idle /\ TAILQ_INSERT_AFTER(h, queue[h][i], e) /\ Joins(h, i, e)

InsertBefore(h, e) ==
  \E i \in DOMAIN queue[h] :
    Idle /\ TAILQ_INSERT_BEFORE(queue[h][i], e) /\ Joins(h, i - 1, e)

RemoveAndFree(h, i) ==
  /\ TAILQ_REMOVE(h, queue[h][i])
  /\ queue' = [queue EXCEPT ![h] = RemoveAt(@, i)]

Concat(h1, h2) ==
  /\ Idle /\ TAILQ_CONCAT(h1, h2)
  /\ queue' = [queue EXCEPT ![h1] = queue[h1] \o queue[h2], ![h2] = << >>]

Swap(h1, h2) ==
  /\ Idle /\ TAILQ_SWAP(h1, h2)
  /\ queue' = [queue EXCEPT ![h1] = queue[h2], ![h2] = queue[h1]]

-----------------------------------------------------------------------------
(***************************************************************************)
(* TAILQ_FOREACH_SAFE(item, head, entries, tmp).                           *)
(***************************************************************************)
\* The loop comes to element e, if there is one; "(tvar) = TAILQ_NEXT((var),
\* field)" reads the one after it before the body, which may free e.
LoopAt(h, e) ==
  loop' = IF e = NULL THEN NoLoop
          ELSE [head |-> h, item |-> e, tmp |-> link'[e]]

StartLoop(h) ==
  /\ loop = NoLoop
  /\ UNCHANGED <<memory, queue>>
  /\ LoopAt(h, TAILQ_FIRST(h))
  /\ ahead' = queue[h]

\* Mutant: TAILQ_FOREACH, which reads the next element after the body; in memory
\* that has been freed it finds NULL.
next_after_body == IF link'[loop.item] = Trash THEN NULL
                   ELSE link'[loop.item]

\* "(var) = (tvar)"
NextItem == loop.tmp

GoOn == LoopAt(loop.head, NextItem) /\ ahead' = Tail(ahead)

\* A body that leaves the queue alone.
KeepItem ==
  /\ loop # NoLoop
  /\ UNCHANGED <<memory, queue>>
  /\ GoOn

\* A body with TAILQ_REMOVE and free (aesdsocket.c:484-486).
RemoveItem ==
  /\ loop # NoLoop
  /\ \E i \in DOMAIN queue[loop.head] :
       queue[loop.head][i] = loop.item /\ RemoveAndFree(loop.head, i)
  /\ GoOn

-----------------------------------------------------------------------------
Next ==
  \/ \E h \in Heads, e \in Outside :
       InsertHead(h, e) \/ InsertTail(h, e) \/ InsertAfter(h, e) \/ InsertBefore(h, e)
  \/ \E h \in Heads : \E i \in DOMAIN queue[h] : Idle /\ RemoveAndFree(h, i)
  \/ \E h1, h2 \in Heads : h1 # h2 /\ (Concat(h1, h2) \/ Swap(h1, h2))
  \/ \E h \in Heads : StartLoop(h)
  \/ KeepItem \/ RemoveItem

Spec == Init /\ [][Next]_vars

-----------------------------------------------------------------------------
\* The i-th cell of queue h; the head comes before its first element.
Cell(h, i) == IF i = 0 THEN h ELSE queue[h][i]

(***************************************************************************)
(* The pointers of a queue are those of the sequence it stands for: going  *)
(* forward from the head meets its elements in order and ends with NULL,   *)
(* each second pointer is the address of the pointer that leads to its     *)
(* cell, and tqh_last that of the last one.  Going backward, TAILQ_LAST    *)
(* and TAILQ_PREV, which read an element as if it were a head, meet the    *)
(* same elements.                                                          *)
(***************************************************************************)
LastAndPrevFind(h) ==
  /\ TAILQ_LAST(h) = IF queue[h] = << >> THEN NULL ELSE Last(queue[h])
  /\ \A i \in DOMAIN queue[h] :
       TAILQ_PREV(queue[h][i]) = IF i = 1 THEN NULL ELSE queue[h][i - 1]

LinksAgree ==
  \A h \in Heads :
    LET n == Len(queue[h])
    IN  /\ \A i \in 0 .. n : link[Cell(h, i)] = IF i = n THEN NULL ELSE queue[h][i + 1]
        /\ \A i \in 1 .. n : back[queue[h][i]] = Cell(h, i - 1)
        /\ back[h] = Cell(h, n)
        /\ LastAndPrevFind(h)

(***************************************************************************)
(* A loop visits the elements that were in the queue when it began, each   *)
(* once and in order, whichever of them its body removes and frees on the  *)
(* way: what it is at, and the tmp it has read in advance, are the first   *)
(* two of those still ahead.                                               *)
(***************************************************************************)
LoopVisitsAll ==
  LET at(i) == IF i \in DOMAIN ahead THEN ahead[i] ELSE NULL
  IN  /\ loop.item = at(1)
      /\ loop.tmp = at(2)
      /\ loop # NoLoop => IsSuffix(ahead, queue[loop.head])
=============================================================================
