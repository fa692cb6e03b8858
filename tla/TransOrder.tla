----------------------------- MODULE TransOrder -----------------------------
(***************************************************************************)
(* rpmtsOrder (lib/order.c): the topological sort of a transaction set.    *)
(*                                                                         *)
(* A transaction is a sequence of elements in presentation order, each to  *)
(* be installed ("added") or erased ("removed"), with the requirements of  *)
(* each that rpmalSatisfiesDepend answers with another element of its      *)
(* kind, and for an erasure the installed element that replaces it.        *)
(* The sort counts the predecessors of every element, queues those that    *)
(* have none, and outputs the queue's front, which may let others in.  If  *)
(* elements remain, every relation of a loop is eliminated and the scan    *)
(* starts again.                                                           *)
(*                                                                         *)
(* Tree, depth, breadth and parent, which only reports use, colours, and   *)
(* the dependency whiteout of ignoreDep are left out.                      *)
(***************************************************************************)
EXTENDS Integers, Sequences, FiniteSets, SequencesExt

CONSTANTS
  Transactions,     \* the transaction sets that may be ordered
  NRescans          \* the scans after the first one: 100 in the code

NoElement == 0

VARIABLES
  ts,         \* the transaction set
  pc,         \* the stage of the algorithm
  count,      \* tsi_count: predecessors not yet output, -1 when sorted
  next,       \* tsi_next: successors of an element
  qcnt,       \* tsi_qcnt: the number of successors ever recorded
  queued,     \* tsi_queued: the generation that queued the element, 0 if none
  queue,      \* the list from q through tsi_suc
  ordering,   \* the elements output
  printed,    \* _printed: the queue was relinked in presentation order
  nrescans    \* scans still allowed

vars == <<ts, pc, count, next, qcnt, queued, queue, ordering, printed, nrescans>>

Elements == 1 .. Len(ts.type)
OrderCount == Len(ts.type)
loopcheck == OrderCount - Len(ordering)
Everywhere(v) == [p \in Elements |-> v]

Init ==
  /\ ts \in Transactions
  /\ pc = "record"
  /\ count = Everywhere(0) /\ next = Everywhere(<<>>) /\ qcnt = Everywhere(0)
  /\ queued = Everywhere(0)
  /\ queue = <<>> /\ ordering = <<>>
  /\ printed = FALSE /\ nrescans = NRescans
-----------------------------------------------------------------------------
(* T1 to T3: recording "q <- p" relations.  A relation of an erasure that  *)
(* another one satisfies is turned round, one that an installed element    *)
(* satisfies, its replacement, is not.                                     *)

Link(r, q, p) ==
  [r EXCEPT !.count[p] = @ + 1, !.next[q] = <<p>> \o @, !.qcnt[q] = @ + 1]

AddRelation(r, p, q, reversed) ==
  IF q \in r.selected THEN r
  ELSE LET s == [r EXCEPT !.selected = @ \cup {q}]
       IN IF reversed THEN Link(s, p, q) ELSE Link(s, q, p)

(* A requirement without any flag, as "Requires: name" is built, is not    *)
(* used (isAuto).                                                          *)
Ordered(p) == SelectSeq(ts.requires[p], LAMBDA d : d.flags # "none")

(* Mutant: the type of an erasure is not changed for its replacement, so   *)
(* that the relation is turned round.                                      *)
AddRelationsReversed(r, p) ==
  LET links == Ordered(p) \o IF ts.flink[p] = NoElement THEN <<>> ELSE <<[on |-> ts.flink[p]]>>
  IN FoldLeft(LAMBDA s, d : AddRelation(s, p, d.on, ts.type[p] = "removed"),
              [r EXCEPT !.selected = {p}], links)

AddRelations(r, p) ==
  LET required == FoldLeft(LAMBDA s, d : AddRelation(s, p, d.on, ts.type[p] = "removed"),
                           [r EXCEPT !.selected = {p}], Ordered(p))
  IN IF ts.type[p] = "removed" /\ ts.flink[p] # NoElement
     THEN AddRelation(required, p, ts.flink[p], FALSE) ELSE required

Record ==
  /\ pc = "record"
  /\ LET r == FoldLeft(AddRelations,
                       [count |-> count, next |-> next, qcnt |-> qcnt, selected |-> {}],
                       [p \in Elements |-> p])
     IN count' = r.count /\ next' = r.next /\ qcnt' = r.qcnt
  /\ pc' = "scan"
  /\ UNCHANGED <<ts, queued, queue, ordering, printed, nrescans>>
-----------------------------------------------------------------------------
(* T4: the elements without predecessors.                                  *)

(* p is put behind the elements of other generations and before the first  *)
(* one of at most as many successors; erasures do not pass installs.       *)
Before(p, q, succs, gen) ==
  /\ ts.type[p] = "added" \/ ts.type[q] = "removed"
  /\ gen[p] <= gen[q]
  /\ succs[q] <= succs[p]

AddQ(list, p, succs, gen) ==
  LET places == {i \in 1 .. Len(list) : Before(p, list[i], succs, gen)}
  IN InsertAt(list, IF places = {} THEN Len(list) + 1
                    ELSE CHOOSE i \in places : \A j \in places : i <= j, p)

(* The order of presentation counts instead of the successors if the       *)
(* installer asks for it (RPMDEPS_FLAG_ANACONDA).                          *)
Successors == IF ts.anaconda THEN [p \in Elements |-> OrderCount - (p - 1)] ELSE qcnt

Zeroes == {p \in Elements : count[p] = 0}

(* A later element has still the tsi_qcnt of the recording when it is not  *)
(* reached yet, but only the ones already queued are compared with.        *)
Scan ==
  /\ pc = "scan"
  /\ queued' = [p \in Elements |-> IF p \in Zeroes THEN Len(ordering) + 1 ELSE queued[p]]
  /\ qcnt' = Successors
  /\ queue' = FoldLeft(LAMBDA l, p : IF p \in Zeroes THEN AddQ(l, p, qcnt', queued') ELSE l,
                       <<>>, [p \in Elements |-> p])
  /\ pc' = "output"
  /\ UNCHANGED <<ts, count, next, ordering, printed, nrescans>>
-----------------------------------------------------------------------------
(* T5 to T7: output the front of the queue, erase its relations, and queue *)
(* the elements that have no predecessor left.                             *)

EraseRelation(r, p) ==
  LET c == [r.count EXCEPT ![p] = @ - 1]
      g == [r.queued EXCEPT ![p] = Len(r.ordering) + 1]
  IN IF c[p] > 0 THEN [r EXCEPT !.count = c]
     ELSE [r EXCEPT !.count = c, !.queued = g, !.queue = AddQ(@, p, qcnt, g)]

(* Once only, when everything left is in the queue, it is relinked in      *)
(* presentation order.                                                     *)
Relinks(r) == ~printed /\ OrderCount - Len(r.ordering) = Len(r.queue) /\ r.queue # <<>>
Presented(r) == SelectSeq([p \in Elements |-> p], LAMBDA p : r.queued[p] # 0)

Output ==
  /\ pc = "output" /\ queue # <<>>
  /\ LET q == Head(queue)
         r == FoldLeft(EraseRelation,
                       [count |-> count, queued |-> [queued EXCEPT ![q] = 0],
                        queue |-> Tail(queue), ordering |-> Append(ordering, q)], next[q])
     IN /\ count' = r.count /\ queued' = r.queued /\ ordering' = r.ordering
        /\ next' = [next EXCEPT ![q] = <<>>]
        /\ queue' = IF Relinks(r) THEN Presented(r) ELSE r.queue
        /\ printed' = (printed \/ Relinks(r))
  /\ UNCHANGED <<ts, pc, qcnt, nrescans>>
-----------------------------------------------------------------------------
(* T8 to T13: break the loops.                                             *)

(* T10: chain every element to the first predecessor that reaches it.      *)
RECURSIVE MarkLoop(_, _, _, _)
MarkLoop(chain, successors, q, list) ==
  FoldLeft(LAMBDA c, p : IF c[p] # NoElement THEN c
                         ELSE MarkLoop([c EXCEPT ![p] = q], successors, p, successors[p]),
           chain, list)

Chains ==
  FoldLeft(LAMBDA c, q : MarkLoop(c, [next EXCEPT ![q] = <<>>], q, next[q]),
           Everywhere(NoElement), [p \in Elements |-> p])

(* T12: mark the chain from q up to its end or a marked element.           *)
RECURSIVE MarkChain(_, _)
MarkChain(r, q) ==
  IF q = NoElement \/ r.queued[q] # 0 THEN [r EXCEPT !.at = q]
  ELSE MarkChain([r EXCEPT !.queued[q] = 1], r.chain[q])

(* Mutant: p still waits for the predecessor it was freed of.              *)
ZapRelationCounted(r, q, p) ==
  [r EXCEPT !.nzaps = @ + 1, !.next[q] = SelectSeq(@, LAMBDA e : e # p)]

(* zapRelation: remove the relation "q <- p", whatever kind it is of.      *)
ZapRelation(r, q, p) ==
  LET found == {i \in 1 .. Len(r.next[q]) : r.next[q][i] = p}
  IN IF found = {} THEN r
     ELSE [r EXCEPT !.count[p] = @ - 1, !.nzaps = @ + 1,
                    !.next[q] = RemoveAt(@, CHOOSE i \in found : \A j \in found : i <= j)]

(* T13: unchain the loop from p, and zap its relations.                    *)
RECURSIVE ZapLoop(_, _)
ZapLoop(r, p) ==
  IF p = NoElement \/ r.chain[p] = NoElement THEN r
  ELSE ZapLoop(ZapRelation([r EXCEPT !.chain[p] = NoElement], r.chain[p], p), r.chain[p])

(* The linear part of the chain that led to the loop.                      *)
RECURSIVE Unchain(_, _)
Unchain(r, p) ==
  IF r.chain[p] = NoElement THEN r
  ELSE Unchain([r EXCEPT !.chain[p] = NoElement, !.queued[p] = 0], r.chain[p])

(* Mutant: the chain is zapped from its start, not from where it closes.   *)
BreakLoopFromStart(r, p) == Unchain(ZapLoop(MarkChain(r, r.chain[p]), p), p)

BreakLoop(r, p) ==
  LET m == MarkChain(r, r.chain[p]) IN Unchain(ZapLoop(m, m.at), p)

Sorted == [p \in Elements |-> IF count[p] = 0 THEN -1 ELSE count[p]]

BreakLoops ==
  /\ pc = "output" /\ queue = <<>> /\ loopcheck # 0
  /\ LET r == FoldLeft(BreakLoop,
                       [count |-> Sorted, next |-> next, queued |-> Everywhere(0),
                        chain |-> Chains, at |-> NoElement, nzaps |-> 0],
                       [p \in Elements |-> p])
     IN /\ count' = r.count /\ next' = r.next /\ queued' = r.queued
        /\ pc' = IF r.nzaps > 0 /\ nrescans > 0 THEN "scan" ELSE "failed"
        /\ nrescans' = IF r.nzaps > 0 THEN nrescans - 1 ELSE nrescans
  /\ UNCHANGED <<ts, qcnt, queue, ordering, printed>>

(* The keys of ordering are turned into the order of the elements.         *)
Finish ==
  /\ pc = "output" /\ queue = <<>> /\ loopcheck = 0
  /\ pc' = "done"
  /\ UNCHANGED <<ts, count, next, qcnt, queued, queue, ordering, printed, nrescans>>

(* The call has returned: no other state may be without a next step.       *)
Returned == pc \in {"done", "failed"} /\ UNCHANGED vars

Next == Record \/ Scan \/ Output \/ BreakLoops \/ Finish \/ Returned

Spec == Init /\ [][Next]_vars
-----------------------------------------------------------------------------
Out == ToSet(ordering)
Left == Elements \ Out

(* Every predecessor still to be output is counted once, and while         *)
(* elements are output the queue holds exactly those that have none: an    *)
(* element counted short would be output before what it requires, one      *)
(* counted long never.                                                     *)
TypeOK ==
  /\ pc \in {"record", "scan", "output", "done", "failed"}
  /\ nrescans \in -1 .. NRescans
  /\ IsInjective(ordering) /\ IsInjective(queue)
  /\ \A p \in Left : count[p] = Cardinality({q \in Left : p \in ToSet(next[q])})
  /\ \A p \in Out : next[p] = <<>> /\ p \notin UNION {ToSet(next[q]) : q \in Elements}
  /\ pc = "output" => ToSet(queue) = {p \in Left : count[p] = 0}

(* The elements that must come before p: what it requires, for an erasure  *)
(* what requires it, and the install that replaces it.                     *)
First(p) ==
  LET needs(e) == {d.on : d \in ToSet(Ordered(e))} \ {e}
  IN IF ts.type[p] = "added" THEN needs(p)
     ELSE {e \in Elements \ {p} : ts.type[e] = "removed" /\ p \in needs(e)}
          \cup ({ts.flink[p]} \ {NoElement})

RECURSIVE Reach(_)
Reach(S) == LET T == S \cup UNION {First(p) : p \in S} IN IF T = S THEN S ELSE Reach(T)

Place(p) == CHOOSE i \in 1 .. Len(ordering) : ordering[i] = p

(* A relation is given up only if it is part of a loop: everything else is *)
(* output after what it needs, and every element is output.                *)
OnlyLoopsBroken ==
  pc = "done" =>
    /\ Out = Elements
    /\ \A p \in Elements : \A q \in First(p) :
          Place(q) < Place(p) \/ p \in Reach(First(q))

Relations(n) == {<<q, p>> \in Elements \X Elements : p \in ToSet(n[q])}

RECURSIVE Onwards(_, _)
Onwards(rel, S) ==
  LET T == S \cup {e[2] : e \in {r \in rel : r[1] \in S}}
  IN IF T = S THEN S ELSE Onwards(rel, T)

(* Whatever the loops, the order is found: a round over the elements that  *)
(* remain eliminates a relation, so that the next scan finds an element,   *)
(* long before the hundred rescans are used up; and it eliminates only     *)
(* relations that close a loop among those elements.                       *)
RoundBreaksLoops ==
  [][(pc = "output" /\ queue = <<>> /\ loopcheck # 0) =>
       LET zapped == Relations(next) \ Relations(next')
       IN /\ zapped # {} /\ pc' = "scan"
          /\ \A e \in zapped : e[1] \in Onwards(Relations(next), {e[2]})]_vars

(* What doc/manual/dependencies and doc/manual/tsort promise: a            *)
(* prerequisite is installed before the package that has it, unless the    *)
(* prerequisites alone form a loop.                                        *)
Prereqs(p) == {d.on : d \in {e \in ToSet(ts.requires[p]) : e.flags = "pre"}} \ {p}

RECURSIVE ReachPre(_)
ReachPre(S) == LET T == S \cup UNION {Prereqs(p) : p \in S} IN IF T = S THEN S ELSE ReachPre(T)

PrereqsFirst ==
  pc = "done" =>
    \A p \in Elements : ts.type[p] = "added" =>
      \A q \in Prereqs(p) : Place(q) < Place(p) \/ p \in ReachPre(Prereqs(q))

(* What rpmts.h says of the final order: installed packages come before    *)
(* the removed ones that none of them replaces.                            *)
RemovedLast ==
  pc = "done" =>
    \A p, r \in Elements :
      ts.type[p] = "added" /\ ts.type[r] = "removed" /\ ts.flink[r] = NoElement
        => Place(p) < Place(r)
=============================================================================
