---------------------------- MODULE SnapshotTree ----------------------------
(***************************************************************************)
(* The snapshots of virtual machines as vSphere keeps them, as far as the  *)
(* code of internal/vsphere/snapshots.go looks at them: the tree of        *)
(* snapshots and the current one (vm.Snapshot), and the files each         *)
(* snapshot and the running machine use (vm.LayoutEx).  A disk is a chain  *)
(* of files: its base and one delta for each snapshot it went through.     *)
(***************************************************************************)
EXTENDS Naturals, FiniteSets

CONSTANTS VMs, Snaps, Disks,
          Attached,   \* the disks a machine has at first
          NoSnap,     \* the parent of a root; an unset CurrentSnapshot
          MaxOps,     \* bounds on the operations on the snapshots and disks of each
          MaxNow      \* bound on the clock, in days

\* The file with number n of disk d was created by the n-th operation, 0 is a base.
\* The data file of a snapshot (vmsn) goes by the snapshot's own name.
Files == Disks \X UNION {0..MaxOps[v] : v \in VMs}
Layouts == [Disks -> SUBSET Files]

Machine == [live     : SUBSET Snaps,
            parent   : [Snaps -> Snaps \cup {NoSnap}],
            current  : Snaps \cup {NoSnap},
            created  : [Snaps -> 0..MaxNow],
            layout   : [Snaps -> Layouts],
            disk     : Layouts,
            readable : BOOLEAN]

ASSUME TreeAssumption == /\ IsFiniteSet(VMs) /\ IsFiniteSet(Snaps) /\ IsFiniteSet(Disks)
                         /\ NoSnap \notin Snaps /\ Snaps \cap Files = {} /\ Attached \subseteq Disks
                         /\ MaxOps \in [VMs -> Nat] /\ MaxNow \in Nat

VARIABLES vm,         \* the machines
          split,      \* those that lost a snapshot from which several branches went on
          ops, now    \* the operations so far; the time

tree == <<vm, split, ops, now>>

AllFiles(l) == UNION {l[d] : d \in Disks}

\* A new snapshot or a revert starts a new delta for every disk of the state it leaves.
NewDeltas(v, l) == [d \in Disks |-> IF l[d] = {} THEN {} ELSE l[d] \cup {<<d, ops[v] + 1>>}]

Children(v, s) == {c \in vm[v].live : vm[v].parent[c] = s}

TreeInit ==
  /\ vm = [v \in VMs |-> [live     |-> {},
                          parent   |-> [s \in Snaps |-> NoSnap],
                          current  |-> NoSnap,
                          created  |-> [s \in Snaps |-> 0],
                          layout   |-> [s \in Snaps |-> [d \in Disks |-> {}]],
                          disk     |-> [d \in Disks |-> IF d \in Attached THEN {<<d, 0>>} ELSE {}],
                          readable |-> TRUE]]
  /\ split = {}
  /\ ops = [v \in VMs |-> 0]
  /\ now = 0

Operation(v, m) == /\ ops[v] < MaxOps[v]
                   /\ ops' = [ops EXCEPT ![v] = @ + 1]
                   /\ vm' = [vm EXCEPT ![v] = m]
                   /\ UNCHANGED now

TakeSnapshot(v) == \E s \in Snaps \ vm[v].live :
  /\ Operation(v, [vm[v] EXCEPT !.live       = @ \cup {s},
                                !.parent[s]  = vm[v].current,
                                !.current    = s,
                                !.created[s] = now,
                                !.layout[s]  = vm[v].disk,
                                !.disk       = NewDeltas(v, @)])
  /\ UNCHANGED split

RevertToSnapshot(v) == \E s \in vm[v].live :
  /\ Operation(v, [vm[v] EXCEPT !.current = s, !.disk = NewDeltas(v, vm[v].layout[s])])
  /\ UNCHANGED split

\* The children of a removed snapshot become its parent's.  With one branch going on from
\* it, a child or the running machine, the deltas in between are merged into the files
\* below; with several, every file stays.  The machine is at the parent if it was at s.
RemoveSnapshot(v) == \E s \in vm[v].live :
  LET m == vm[v]
      branches == Cardinality(Children(v, s)) + IF m.current = s THEN 1 ELSE 0
      next == IF m.current = s THEN m.disk ELSE m.layout[CHOOSE c \in Children(v, s) : TRUE]
      merged(d) == IF branches = 1 /\ m.layout[s][d] # {} THEN next[d] \ m.layout[s][d] ELSE {}
      Without(l) == [d \in Disks |-> l[d] \ merged(d)]
  IN /\ Operation(v, [m EXCEPT
          !.live    = @ \ {s},
          !.current = IF @ = s THEN m.parent[s] ELSE @,
          !.parent  = [c \in Snaps |-> IF c = s THEN NoSnap
                                       ELSE IF @[c] = s THEN m.parent[s] ELSE @[c]],
          !.created[s] = 0,
          !.layout  = [c \in Snaps |-> IF c = s THEN [d \in Disks |-> {}] ELSE Without(@[c])],
          !.disk    = Without(@)])
     /\ split' = IF branches > 1 THEN split \cup {v} ELSE split

AddDisk(v) == \E d \in Disks :
  /\ vm[v].disk[d] = {} /\ \A s \in vm[v].live : vm[v].layout[s][d] = {}
  /\ Operation(v, [vm[v] EXCEPT !.disk[d] = {<<d, ops[v] + 1>>}])
  /\ UNCHANGED split

RemoveDisk(v) == \E d \in Disks :
  /\ vm[v].disk[d] # {}
  /\ Operation(v, [vm[v] EXCEPT !.disk[d] = {}])
  /\ UNCHANGED split

\* The files of the machine cannot be read any more: vm.Config is unset.
BecomeInaccessible(v) == /\ vm[v].readable
                         /\ Operation(v, [vm[v] EXCEPT !.readable = FALSE])
                         /\ UNCHANGED split

Tick == now < MaxNow /\ now' = now + 1 /\ UNCHANGED <<vm, split, ops>>

TreeStep == \/ \E v \in VMs : \/ TakeSnapshot(v) \/ RevertToSnapshot(v) \/ RemoveSnapshot(v)
                              \/ AddDisk(v) \/ RemoveDisk(v) \/ BecomeInaccessible(v)
            \/ Tick
=============================================================================
