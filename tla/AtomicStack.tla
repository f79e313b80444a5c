---------------------------- MODULE AtomicStack ----------------------------
(***************************************************************************)
(* atomic_stack of examples/stack.h: a chain of nodes that hold an rc_ptr  *)
(* to the next one, behind an atomic_rc_ptr head.                          *)
(*                                                                         *)
(* Memory is what atomic_rc_ptr promises to its users: a node stays while  *)
(* it is reachable, from head or from a snapshot_ptr or rc_ptr of a thread,*)
(* by way of nodes that stay; any other node may be taken for a new one.   *)
(* A CAS that fails and the load that follows it are one step.             *)
(***************************************************************************)
EXTENDS Integers, Sequences, FiniteSets

CONSTANTS Threads, Nodes, Values, null

VARIABLES
  head,
  mem,    \* the fields t (here value) and next of each node
  th,     \* the call that each thread is in, and its local variables
  was,    \* history: the stack when the thread took its snapshot
  scrap   \* ~atomic_stack: its stage, local variables and deferred decrement

vars == <<head, mem, th, was, scrap>>

Idle == [pc |-> "idle", value |-> null, ss |-> null, node |-> null]
NoScrap == [pc |-> "no", node |-> null, next |-> null, deferred |-> null]

Init ==
  /\ head = null
  /\ mem = [n \in Nodes |-> [value |-> null, next |-> null]]
  /\ th = [t \in Threads |-> Idle]
  /\ was = [t \in Threads |-> <<>>]
  /\ scrap = NoScrap

RECURSIVE ChainFrom(_)
ChainFrom(n) == IF n = null THEN <<>> ELSE <<n>> \o ChainFrom(mem[n].next)

ReachableFrom(n) == {ChainFrom(n)[i] : i \in DOMAIN ChainFrom(n)}

ValuesFrom(n) == [i \in DOMAIN ChainFrom(n) |-> mem[ChainFrom(n)[i]].value]

\* The stack, from the top.
Contents == ValuesFrom(head)

\* The nodes that have an owner.  Below the snapshot, find has plain pointers.
Alive == UNION {ReachableFrom(n) : n \in
           {head, scrap.node, scrap.next, scrap.deferred}
             \cup {th[t].ss : t \in Threads}
             \cup {th[t].node : t \in {u \in Threads : th[u].pc = "push"}}}

\* make_rc may return n.
Fresh(n) == n \in Nodes \ Alive

Calling(t, pc) == th[t].pc = pc /\ scrap.pc = "no"

Return(t) ==
  /\ th' = [th EXCEPT ![t] = Idle]
  /\ was' = [was EXCEPT ![t] = <<>>]

\* t goes on as me, after it read head.
TakeHead(t, me) ==
  /\ th' = [th EXCEPT ![t] = [me EXCEPT !.ss = head]]
  /\ was' = [was EXCEPT ![t] = Contents]

-----------------------------------------------------------------------------
\* push_front: load head and make the new node, which is node to its thread.
PushLoad(t, v, n) ==
  /\ Calling(t, "idle") /\ Fresh(n)
  /\ TakeHead(t, [Idle EXCEPT !.pc = "push", !.node = n])
  /\ mem' = [mem EXCEPT ![n] = [value |-> v, next |-> head]]
  /\ UNCHANGED <<head, scrap>>

\* Mutant: a store instead of the CAS.
PushBlind(t) ==
  /\ Calling(t, "push")
  /\ head' = th[t].node
  /\ Return(t)
  /\ UNCHANGED <<mem, scrap>>

Push(t) ==
  /\ Calling(t, "push") /\ head = th[t].ss
  /\ head' = th[t].node
  /\ Return(t)
  /\ UNCHANGED <<mem, scrap>>

\* Mutant: compare_and_swap, which leaves its expected value alone.
PushRetryStale(t) ==
  /\ Calling(t, "push") /\ head # th[t].ss
  /\ UNCHANGED vars

\* compare_exchange_weak fails and loads head, here into new_node->next.
PushRetry(t) ==
  /\ Calling(t, "push") /\ head # th[t].ss
  /\ TakeHead(t, th[t])
  /\ mem' = [mem EXCEPT ![th[t].node].next = head]
  /\ UNCHANGED <<head, scrap>>

\* pop_front: the snapshot, with the pointer ss->next to swap in for it, which
\* does not change any more once a node is linked.  An empty stack ends the
\* loop, at once or when a CAS failed.
PopSnapshot(t) ==
  /\ Calling(t, "idle") /\ head # null
  /\ TakeHead(t, [Idle EXCEPT !.pc = "pop", !.node = mem[head].next])
  /\ UNCHANGED <<head, mem, scrap>>

\* Mutant: the loop does not test the snapshot again.
PopRetryUntested(t) ==
  /\ Calling(t, "pop") /\ head # th[t].ss
  /\ TakeHead(t, [th[t] EXCEPT !.node = IF head = null THEN null ELSE mem[head].next])
  /\ UNCHANGED <<head, mem, scrap>>

PopRetry(t) ==
  /\ Calling(t, "pop") /\ head # th[t].ss
  /\ IF head = null THEN Return(t) ELSE TakeHead(t, [th[t] EXCEPT !.node = mem[head].next])
  /\ UNCHANGED <<head, mem, scrap>>

Pop(t) ==
  /\ Calling(t, "pop") /\ head = th[t].ss
  /\ head' = th[t].node
  /\ Return(t)
  /\ UNCHANGED <<mem, scrap>>

\* Mutant: head.get_snapshot().get(), and the snapshot is gone.
FindRaw(t, v) ==
  /\ Calling(t, "idle") /\ head # null
  /\ th' = [th EXCEPT ![t] = [Idle EXCEPT !.pc = "find", !.value = v, !.node = head]]
  /\ was' = [was EXCEPT ![t] = Contents]
  /\ UNCHANGED <<head, mem, scrap>>

\* find and front take one snapshot, and read from there.
FindSnapshot(t, v) ==
  /\ Calling(t, "idle") /\ head # null
  /\ TakeHead(t, [Idle EXCEPT !.pc = "find", !.value = v, !.node = head])
  /\ UNCHANGED <<head, mem, scrap>>

FindNext(t) ==
  /\ Calling(t, "find") /\ mem[th[t].node].value # th[t].value /\ mem[th[t].node].next # null
  /\ th' = [th EXCEPT ![t].node = mem[@].next]
  /\ UNCHANGED <<head, mem, was, scrap>>

FindReturn(t) ==
  /\ Calling(t, "find") /\ (mem[th[t].node].value = th[t].value \/ mem[th[t].node].next = null)
  /\ Return(t)
  /\ UNCHANGED <<head, mem, scrap>>

FrontSnapshot(t) ==
  /\ Calling(t, "idle") /\ head # null
  /\ TakeHead(t, [Idle EXCEPT !.pc = "front", !.node = head])
  /\ UNCHANGED <<head, mem, scrap>>

FrontReturn(t) ==
  /\ Calling(t, "front")
  /\ Return(t)
  /\ UNCHANGED <<head, mem, scrap>>

-----------------------------------------------------------------------------
\* ~atomic_stack, when no call is left.  The store defers a decrement of the
\* first node, which is applied at any time from then on.

\* Mutant: the nodes are passed one by one, and stay linked.
UnchainNothing(n, deferred) ==
  /\ \E d \in {deferred, null} :
       scrap' = [pc |-> "loop", node |-> n, next |-> mem[n].next, deferred |-> d]
  /\ UNCHANGED mem

\* next = node->next; node->next = nullptr
Unchain(n, deferred) ==
  /\ \E d \in {deferred, null} :
       scrap' = [pc |-> "loop", node |-> n, next |-> mem[n].next, deferred |-> d]
  /\ mem' = [mem EXCEPT ![n].next = null]

ScrapStart ==
  /\ \A t \in Threads : Calling(t, "idle")
  /\ head' = null
  /\ IF head = null THEN scrap' = [NoScrap EXCEPT !.pc = "done"] /\ UNCHANGED mem
     ELSE Unchain(head, head)
  /\ UNCHANGED <<th, was>>

ScrapNext ==
  /\ scrap.pc = "loop" /\ scrap.next # null
  /\ Unchain(scrap.next, scrap.deferred)
  /\ UNCHANGED <<head, th, was>>

\* The destructor returns; then the deferred decrement is applied.
ScrapReturn ==
  /\ scrap.pc = "loop" /\ scrap.next = null
  /\ scrap' = [NoScrap EXCEPT !.pc = "eject", !.deferred = scrap.deferred]
  /\ UNCHANGED <<head, mem, th, was>>

ScrapEject ==
  /\ scrap.pc = "eject"
  /\ scrap' = [NoScrap EXCEPT !.pc = "done"]
  /\ UNCHANGED <<head, mem, th, was>>

Ended == scrap.pc = "done" /\ UNCHANGED vars

-----------------------------------------------------------------------------
Step(t) ==
  \/ Push(t) \/ PushRetry(t) \/ Pop(t) \/ PopRetry(t)
  \/ FindNext(t) \/ FindReturn(t) \/ FrontReturn(t)

Call(t) ==
  \/ PopSnapshot(t) \/ FrontSnapshot(t)
  \/ \E v \in Values : FindSnapshot(t, v) \/ \E n \in Nodes : PushLoad(t, v, n)

Next ==
  \/ \E t \in Threads : Step(t) \/ Call(t)
  \/ ScrapStart \/ ScrapNext \/ ScrapReturn \/ ScrapEject \/ Ended

Spec == Init /\ [][Next]_vars

\* A thread in a call goes on.
FairSpec == Spec /\ \A t \in Threads : WF_vars(Step(t))

-----------------------------------------------------------------------------
\* The types; no thread dereferences an empty snapshot.
TypeOK ==
  /\ head \in Nodes \cup {null}
  /\ mem \in [Nodes -> [value : Values \cup {null}, next : Nodes \cup {null}]]
  /\ th \in [Threads -> [pc : {"idle", "push", "pop", "find", "front"}, value : Values \cup {null},
                         ss : Nodes \cup {null}, node : Nodes \cup {null}]]
  /\ was \in [Threads -> Seq(Values)]
  /\ scrap.pc \in {"no", "loop", "eject", "done"}
  /\ \A t \in Threads : (th[t].pc = "pop" => th[t].ss # null)
                         /\ (th[t].pc \in {"find", "front"} => th[t].node # null)

\* t completes a push or a pop.
Pushes(t) == th[t].pc = "push" /\ th'[t].pc = "idle"
Pops(t) == th[t].pc = "pop" /\ th'[t].pc = "idle" /\ head # null

\* push_front and pop_front take effect in one step on a stack: the value that
\* pop_front returns, read from its snapshot, is the one that was on top.
StackDiscipline ==
  [][scrap'.pc = "no" =>
       \/ \E t \in Threads : Pushes(t) /\ Contents' = <<mem[th[t].node].value>> \o Contents
       \/ \E t \in Threads : Pops(t) /\ Contents = <<mem[th[t].ss].value>> \o Contents'
       \/ /\ \A t \in Threads : ~Pushes(t) /\ ~Pops(t)
          /\ Contents' = Contents]_vars

\* "Holding a snapshot protects the entire list from destruction while we are
\* reading it" (stack.h:57-58): find and front see the stack as it was when
\* they took their snapshot, whatever is pushed, popped and allocated meanwhile:
\* what is left to read is a suffix of it, and what was read is not the value.
SnapshotKeepsTheChain ==
  \A t \in Threads : th[t].pc \in {"find", "front"} =>
    \E k \in 0..Len(was[t]) :
      /\ \A i \in 1..k : was[t][i] # th[t].value
      /\ SubSeq(was[t], k + 1, Len(was[t])) = ValuesFrom(th[t].node)

\* "Avoid exploding the call stack when destructing" (stack.h:35): no step of
\* the destructor, nor the decrement it deferred, destroys a node that destroys
\* the next one.
DestructionIsShallow ==
  [][scrap'.pc # "no" =>
       \A n \in Alive \ Alive' : mem'[n].next \notin Alive \ Alive']_vars

\* Once no new calls come, every call returns: a CAS fails only because
\* another call has succeeded.
CallsReturn ==
  <>[][\A t \in Threads : ~Call(t)]_vars =>
    \A t \in Threads : [](th[t].pc # "idle" => <>(th[t].pc = "idle"))
=============================================================================
