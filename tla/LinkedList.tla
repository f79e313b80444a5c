---------------------------- MODULE LinkedList ----------------------------
(***************************************************************************)
(* The sorted list of examples/linked_list.h, over marked_arc_ptr.  A set  *)
(* of keys; a key is removed when the next pointer of its node is marked,  *)
(* and its node is unlinked afterwards, by whoever comes along.            *)
(*                                                                         *)
(* A marked_ptr is a pair of a node and a mark.  Memory is what atomic_rc_ *)
(* ptr promises to its users: a node stays while it is reachable, from the *)
(* list or from a snapshot_ptr or rc_ptr of a thread, by way of nodes that *)
(* stay; any other node may be taken for a new one.                        *)
(***************************************************************************)
EXTENDS Integers, FiniteSets, FiniteSetsExt

CONSTANTS
  Threads,
  Nodes,       \* memory for the nodes between head and tail
  head, tail,
  null,
  Keys         \* the keys that threads use

lowest == 0
max == Max(Keys) + 1

VARIABLES
  mem,   \* the key, and the node and the mark of next, of each node
  th,    \* the call that each thread is in, and its local variables
  seen   \* whether the key of the call was in the set, at some time in the call

vars == <<mem, th, seen>>

\* marked_ptr
NoPtr == [node |-> null, mark |-> 0]
Ptr(n) == [node |-> n, mark |-> 0]

set_mark(p, mark) == [p EXCEPT !.mark = mark]

Idle == [pc |-> "idle", op |-> "none", key |-> lowest, marked |-> FALSE,
         left |-> null, right |-> null, right_nxt |-> NoPtr, left_nxt |-> null]

Init ==
  /\ mem = [n \in Nodes \cup {head, tail} |->
              [key |-> IF n = tail THEN max ELSE lowest,
               next |-> IF n = head THEN Ptr(tail) ELSE NoPtr]]
  /\ th = [t \in Threads |-> Idle]
  /\ seen = [t \in Threads |-> {}]

-----------------------------------------------------------------------------
\* Everything that can be reached from the nodes in S.
RECURSIVE Reach(_)
Reach(S) ==
  LET T == S \cup ({mem[n].next.node : n \in S} \ {null})
  IN  IF T = S THEN S ELSE Reach(T)

\* The nodes that the pointers of t protect.
Protected(t) ==
  {th[t].left, th[t].right, th[t].right_nxt.node, th[t].left_nxt} \ {null}

\* make_shared may return n.
Fresh(n) == n \in Nodes \ Reach({head, tail} \cup UNION {Protected(t) : t \in Threads})

\* compare_and_swap and compare_and_set_mark on n->next compare the marks too.
Holds(n, p) == mem[n].next = p

Store(n, p) == mem' = [mem EXCEPT ![n].next = p]

compare_and_set_mark(n, expected, mark) ==
  Holds(n, expected) /\ Store(n, set_mark(expected, mark))

Return(t) == th' = [th EXCEPT ![t] = Idle]

\* search(key), for a call from its beginning or once more, in the beginning.
Restart(t) ==
  th' = [th EXCEPT ![t] = [Idle EXCEPT !.pc = "search", !.op = th[t].op, !.key = th[t].key,
                                       !.marked = th[t].marked]]

\* search: head itself never changes, so the first read is that of right_nxt.
Search(t, op, key, marked) ==
  /\ th' = [th EXCEPT ![t] =
              [Idle EXCEPT !.pc = "loop", !.op = op, !.key = key, !.marked = marked,
                           !.right = head, !.right_nxt = mem[head].next]]
  /\ UNCHANGED mem

Call(t, op, key) == th[t].pc = "idle" /\ Search(t, op, key, FALSE)

SearchAgain(t) == th[t].pc = "search" /\ Search(t, th[t].op, th[t].key, th[t].marked)

\* Mutant: search goes on past the key.
StopAfter(t, right) == mem[right].next.mark = 0 /\ mem[right].key > th[t].key

\* The loop of search stops at an unmarked node that is not before the key.
Stop(t, right) == mem[right].next.mark = 0 /\ mem[right].key >= th[t].key

\* The body of the loop up to the read of the next right_nxt, and its test.
\* There is nothing to unlink when left and right are adjacent.
Advance(t) ==
  LET me == th[t]
      right == me.right_nxt.node
      left_nxt == IF me.right_nxt.mark = 0 THEN null
                  ELSE IF me.left_nxt = null THEN me.right ELSE me.left_nxt
  IN
  /\ me.pc = "loop"
  /\ th' = [th EXCEPT
       ![t].left = IF me.right_nxt.mark = 0 THEN me.right ELSE @,
       ![t].left_nxt = left_nxt,
       ![t].right = right,
       ![t].right_nxt = mem[right].next,
       ![t].pc = CASE ~Stop(t, right) -> "loop"
                   [] Stop(t, right) /\ left_nxt = null -> "verify"
                   [] OTHER -> "unlink"]
  /\ UNCHANGED mem

\* Unlink the marked nodes between left and right.
Unlink(t) ==
  LET me == th[t] IN
  /\ me.pc = "unlink"
  /\ IF Holds(me.left, Ptr(me.left_nxt))
     THEN /\ Store(me.left, Ptr(me.right))
          /\ th' = [th EXCEPT ![t].pc = "verify"]
     ELSE Restart(t) /\ UNCHANGED mem

\* What the calls do when search returns: find answers, and so do an insert of
\* a key that is present, a remove of one that is not, and a remove that has
\* marked its node before it searched.
AfterSearch(t, present) ==
  CASE th[t].op = "find" \/ th[t].marked -> "return"
    [] th[t].op = "insert" -> IF present THEN "return" ELSE "insert"
    [] OTHER -> IF present THEN "read" ELSE "return"

\* search returns left and right, unless right was removed meanwhile.
Verify(t) ==
  LET me == th[t]
      then == AfterSearch(t, mem[me.right].key = me.key)
  IN
  /\ me.pc = "verify"
  /\ CASE mem[me.right].next.mark # 0 -> Restart(t)
       [] mem[me.right].next.mark = 0 /\ then = "return" -> Return(t)
       [] OTHER -> th' = [th EXCEPT ![t].pc = then, ![t].right_nxt = NoPtr, ![t].left_nxt = null]
  /\ UNCHANGED mem

\* Mutant: the CAS compares the nodes and not the marks, as marked_ptr does
\* with a plain pointer.
InsertUnmarked(t, n) ==
  LET me == th[t] IN
  /\ me.pc = "insert" /\ mem[me.left].next.node = me.right
  /\ Fresh(n)
  /\ mem' = [mem EXCEPT ![n] = [key |-> me.key, next |-> Ptr(me.right)], ![me.left].next = Ptr(n)]
  /\ Return(t)

\* Mutant: the node is made without its next pointer.
InsertEnd(t, n) ==
  LET me == th[t] IN
  /\ me.pc = "insert" /\ Holds(me.left, Ptr(me.right))
  /\ Fresh(n)
  /\ mem' = [mem EXCEPT ![n] = [key |-> me.key, next |-> NoPtr], ![me.left].next = Ptr(n)]
  /\ Return(t)

\* insert: a new node, which is seen by others when the CAS links it.
Insert(t, n) ==
  LET me == th[t] IN
  /\ me.pc = "insert" /\ Holds(me.left, Ptr(me.right))
  /\ Fresh(n)
  /\ mem' = [mem EXCEPT ![n] = [key |-> me.key, next |-> Ptr(me.right)], ![me.left].next = Ptr(n)]
  /\ Return(t)

InsertFails(t) ==
  /\ th[t].pc = "insert" /\ ~Holds(th[t].left, Ptr(th[t].right))
  /\ Restart(t)
  /\ UNCHANGED mem

\* remove takes a snapshot of right->next.
RemoveRead(t) ==
  LET next == mem[th[t].right].next IN
  /\ th[t].pc = "read"
  /\ IF next.mark = 0
     THEN th' = [th EXCEPT ![t].pc = "mark", ![t].right_nxt = next]
     ELSE Restart(t)
  /\ UNCHANGED mem

RemoveMark(t) ==
  LET me == th[t] IN
  /\ me.pc = "mark"
  /\ \/ /\ compare_and_set_mark(me.right, me.right_nxt, 1)
        /\ th' = [th EXCEPT ![t].pc = "remove", ![t].marked = TRUE]
     \/ /\ ~Holds(me.right, me.right_nxt)
        /\ Restart(t) /\ UNCHANGED mem

\* The marked node is unlinked, here or by the search that follows.
RemoveUnlink(t) ==
  LET me == th[t] IN
  /\ me.pc = "remove"
  /\ IF Holds(me.left, Ptr(me.right))
     THEN Store(me.left, me.right_nxt) /\ Return(t)
     ELSE Restart(t) /\ UNCHANGED mem

-----------------------------------------------------------------------------
\* The keys of the unmarked nodes of the list.
Contents ==
  {mem[n].key : n \in {m \in Reach({head}) \ {head, tail} : mem[m].next.mark = 0}}

\* What each call has had a chance to see.
Watch ==
  seen' = [t \in Threads |->
             IF th'[t].pc = "idle" THEN {}
             ELSE seen[t] \cup {th'[t].key \in Contents, th'[t].key \in Contents'}]

Step(t) ==
  \/ SearchAgain(t) \/ Advance(t) \/ Unlink(t) \/ Verify(t)
  \/ (\E n \in Nodes : Insert(t, n)) \/ InsertFails(t)
  \/ RemoveRead(t) \/ RemoveMark(t) \/ RemoveUnlink(t)

Next ==
  /\ \E t \in Threads :
       Step(t) \/ \E op \in {"find", "insert", "remove"}, key \in Keys : Call(t, op, key)
  /\ Watch

Spec == Init /\ [][Next]_vars

-----------------------------------------------------------------------------
\* find, and the insert and the remove that change nothing, answer as the set
\* would at some moment during the call, although they read one pointer at a
\* time and may come by nodes that are not in the list any more.
AnswersAreLinearizable ==
  [][\A t \in Threads :
       th[t].pc = "verify" /\ th'[t].pc = "idle" /\ ~th[t].marked =>
         (mem[th[t].right].key = th[t].key) \in seen[t]]_vars

\* t links the node it inserts, or marks the node it removes.
Inserts(t) == th[t].pc = "insert" /\ th'[t].pc = "idle"
Removes(t) == ~th[t].marked /\ th'[t].marked

\* The set changes exactly when an insert or a remove takes effect, by its key:
\* no insert is lost next to a node that is being removed, and no unlinking
\* takes away another key.
EffectsAreAtomic ==
  [][Contents' =
       (Contents \cup {th[t].key : t \in {u \in Threads : Inserts(u)}})
         \ {th[t].key : t \in {u \in Threads : Removes(u)}}
     /\ \A t \in Threads : (Inserts(t) => th[t].key \notin Contents)
                          /\ (Removes(t) => th[t].key \in Contents)]_vars

\* From head to tail the keys increase, whatever is marked or unlinked.
ListIsSorted ==
  /\ tail \in Reach({head})
  /\ \A n \in Reach({head}) \ {tail} : mem[n].key < mem[mem[n].next.node].key
=============================================================================
