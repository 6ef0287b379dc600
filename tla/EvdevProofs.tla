----------------------------- MODULE EvdevProofs -----------------------------
(***************************************************************************)
(* Theorems about Evdev, for any number of nodes, ports and notifications. *)
(***************************************************************************)
EXTENDS Evdev, SequenceTheorems, WellFoundedInduction, TLAPS

(* A set of numbers that is not empty has a smallest one. *)
LEMMA MinFacts ==
  ASSUME NEW S \in SUBSET Nat, S # {}
  PROVE  Min(S) \in S /\ \A y \in S : Min(S) <= y
<1>1. PICK x \in S : \A y \in S : ~(<<y, x>> \in OpToRel(<, Nat))
  BY NatLessThanWellFounded, WFMin
<1>2. \A y \in S : x <= y
  <2>1. SUFFICES ASSUME NEW y \in S PROVE x <= y
    OBVIOUS
  <2>2. ~(y < x)
    BY <1>1 DEF OpToRel
  <2>3. QED
    BY <2>2
<1>3. QED
  BY <1>2 DEF Min

(* The port of a new device is a port, and one in use only if all are.     *)
LEMMA FreePortFacts ==
  ASSUME NEW used \in SUBSET Ids
  PROVE  /\ FreePort(used) \in Ids
         /\ FreePort(used) \in used => used = Ids
<1>1. EVDEV_ID_MAX \in Nat \ {0} /\ Ids \subseteq Nat /\ 0 \in Ids
  BY EvdevAssumption DEF Ids
<1>2. CASE Ids \subseteq used
  BY <1>1, <1>2 DEF FreePort
<1>3. CASE ~(Ids \subseteq used)
  <2>1. Ids \ used \in SUBSET Nat /\ Ids \ used # {}
    BY <1>1, <1>3
  <2>2. Min(Ids \ used) \in Ids \ used
    BY <2>1, MinFacts
  <2>3. QED
    BY <1>3, <2>2 DEF FreePort
<1>4. QED
  BY <1>2, <1>3

-----------------------------------------------------------------------------
(* What the slots and the ports have to do with each other: the types, and *)
(* that an open device has its port marked.  That ports are never cleared  *)
(* keeps it so.                                                            *)
PortsType ==
  /\ s_evdev \in [Nodes -> Device \cup {None}]
  /\ s_evdev_ports \in [Classes -> SUBSET Ids]

Marked == \A i \in Nodes :
  s_evdev[i] # None => s_evdev[i].id \in s_evdev_ports[Class(s_evdev[i].type)]

PortsInv == PortsType /\ Marked /\ DistinctPorts

LEMMA ClassFacts == \A type : Class(type) \in Classes
BY DEF Class, Classes

(* A device that goes, or is found not to be valid, changes no port.       *)
LEMMA Fewer ==
  ASSUME PortsInv, s_evdev_ports' = s_evdev_ports,
         s_evdev' \in [Nodes -> Device \cup {None}],
         \A i \in Nodes : s_evdev'[i] # None =>
           /\ s_evdev[i] # None
           /\ s_evdev'[i].id = s_evdev[i].id
           /\ s_evdev'[i].type = s_evdev[i].type
  PROVE  PortsInv'
<1>1. PortsType'
  BY DEF PortsInv, PortsType
<1>2. Marked'
  BY DEF PortsInv, Marked
<1>3. DistinctPorts'
  BY DEF PortsInv, DistinctPorts
<1>4. QED
  BY <1>1, <1>2, <1>3 DEF PortsInv

(* Opening a node over whatever was in its slot keeps the ports apart.     *)
LEMMA ReopenKeeps ==
  ASSUME PortsInv, NEW i \in Nodes, NEW mask, Reopen(i, mask)
  PROVE  PortsInv'
<1> DEFINE type == Detected(node[i].kind, mask)
           c    == Class(type)
           port == FreePort(s_evdev_ports[c])
<1>1. c \in Classes /\ type \in Types
  BY ClassFacts DEF Detected, Types
<1>2. s_evdev_ports[c] \in SUBSET Ids
  BY <1>1 DEF PortsInv, PortsType
<1>3. /\ port \in Ids
      /\ port \in s_evdev_ports[c] => s_evdev_ports[c] = Ids
  BY <1>2, FreePortFacts
<1>4. CASE ~Opens(i, mask)
  <2>1. /\ s_evdev' = [s_evdev EXCEPT ![i] = None]
        /\ s_evdev_ports' = s_evdev_ports
    BY <1>4 DEF Reopen
  <2>2. QED
    BY <2>1, Fewer DEF PortsInv, PortsType
<1>5. CASE Opens(i, mask)
  <2> DEFINE d == [id |-> port, type |-> type, valid |-> TRUE]
  <2>1. /\ s_evdev' = [s_evdev EXCEPT ![i] = d]
        /\ s_evdev_ports' = [s_evdev_ports EXCEPT ![c] = @ \cup {port}]
    BY <1>5 DEF Reopen
  <2>2. d \in Device /\ d.id = port /\ d.type = type
    BY <1>1, <1>3 DEF Device
  <2> HIDE DEF d, port, c, type
  <2>3. /\ \A k \in Nodes : s_evdev'[k] = IF k = i THEN d ELSE s_evdev[k]
        /\ \A e \in Classes : s_evdev_ports'[e] =
             IF e = c THEN s_evdev_ports[c] \cup {port} ELSE s_evdev_ports[e]
    BY <2>1 DEF PortsInv, PortsType
  <2>4. PortsType'
    BY <1>1, <1>2, <1>3, <2>1, <2>2 DEF PortsInv, PortsType
  <2>5. Class(d.type) = c
    BY <2>2 DEF c
  <2>6. Marked'
    <3>1. SUFFICES ASSUME NEW k \in Nodes, s_evdev'[k] # None
                   PROVE  s_evdev'[k].id \in s_evdev_ports'[Class(s_evdev'[k].type)]
      BY DEF Marked
    <3>2. CASE k = i
      BY <1>1, <2>2, <2>3, <2>5, <3>2
    <3>3. CASE k # i
      BY <2>3, <3>1, <3>3, ClassFacts DEF PortsInv, Marked
    <3>4. QED
      BY <3>2, <3>3
  <2>7. DistinctPorts'
    <3>1. SUFFICES ASSUME NEW j \in Nodes, NEW k \in Nodes,
                          j # k, s_evdev'[j] # None, s_evdev'[k] # None,
                          Class(s_evdev'[j].type) = Class(s_evdev'[k].type),
                          s_evdev'[j].id = s_evdev'[k].id
                   PROVE  s_evdev_ports'[Class(s_evdev'[j].type)] = Ids
      BY DEF DistinctPorts
    <3>2. CASE j # i /\ k # i
      <4>1. s_evdev_ports[Class(s_evdev[j].type)] = Ids
        BY <2>3, <3>1, <3>2 DEF PortsInv, DistinctPorts
      <4>2. /\ s_evdev'[j] = s_evdev[j]
            /\ Class(s_evdev[j].type) \in Classes
        BY <2>3, <3>2, ClassFacts
      <4>3. port \in Ids
        BY <1>3
      <4>4. QED
        BY <2>3, <4>1, <4>2, <4>3
    <3>3. ASSUME NEW m \in Nodes, m # i, s_evdev[m] # None,
                 Class(s_evdev[m].type) = c, s_evdev[m].id = port
          PROVE  s_evdev_ports'[c] = Ids
      <4>1. port \in s_evdev_ports[c]
        BY <3>3 DEF PortsInv, Marked
      <4>2. QED
        BY <1>1, <1>3, <2>3, <4>1
    <3>4. CASE j = i
      <4>1. /\ s_evdev'[j] = d
            /\ s_evdev'[k] = s_evdev[k]
        BY <2>3, <3>1, <3>4
      <4>2. QED
        BY <2>2, <2>5, <3>1, <3>3, <3>4, <4>1
    <3>5. CASE k = i
      <4>1. /\ s_evdev'[k] = d
            /\ s_evdev'[j] = s_evdev[j]
        BY <2>3, <3>1, <3>5
      <4>2. QED
        BY <2>2, <2>5, <3>1, <3>3, <3>5, <4>1
    <3>6. QED
      BY <3>2, <3>4, <3>5
  <2>8. QED
    BY <2>4, <2>6, <2>7 DEF PortsInv
<1>6. QED
  BY <1>4, <1>5

-----------------------------------------------------------------------------
(* The rest of the types                                                   *)
EvdevInv == TypeOK /\ Marked /\ DistinctPorts

LEMMA InitInv == Init => EvdevInv
<1>1. SUFFICES ASSUME Init PROVE EvdevInv
  OBVIOUS
<1>2. 0 \in Nodes
  BY EvdevAssumption DEF Nodes
<1>3. TypeOK
  <2>1. [kind : Kinds, plugged : {TRUE}, readable : {TRUE}] \subseteq Node
    BY DEF Node
  <2>2. node \in [Nodes -> Node \cup {None}]
    BY <1>1, <2>1 DEF Init
  <2>3. s_evdev_ports \in [Classes -> SUBSET Ids]
    BY <1>1 DEF Init
  <2>4. s_evdev \in [Nodes -> Device \cup {None}] /\ notices \in Seq(Notice)
    BY <1>1 DEF Init
  <2>5. s_initialized \in SUBSET Types /\ reread \in BOOLEAN
    BY <1>1 DEF Init
  <2>6. scan = None /\ read = None
    BY <1>1 DEF Init
  <2>7. QED
    BY <2>2, <2>3, <2>4, <2>5, <2>6 DEF TypeOK
<1>4. Marked /\ DistinctPorts
  BY <1>1 DEF Init, Marked, DistinctPorts
<1>5. QED
  BY <1>3, <1>4 DEF EvdevInv

LEMMA InvParts == EvdevInv => PortsInv
BY DEF EvdevInv, TypeOK, PortsInv, PortsType

(* The kernel puts at most one more notification in the queue.             *)
LEMMA NotifyType ==
  ASSUME TypeOK, NEW i \in Nodes, NEW what \in {"create", "delete", "attrib"},
         Notify(i, what)
  PROVE  notices' \in Seq(Notice)
<1>1. [node |-> i, what |-> what] \in Notice
  BY DEF Notice
<1>2. notices \in Seq(Notice)
  BY DEF TypeOK
<1>3. notices' = Append(notices, [node |-> i, what |-> what]) \/ notices' = notices
  BY DEF Notify
<1>4. QED
  BY <1>1, <1>2, <1>3

LEMMA KernelKeeps == EvdevInv /\ Kernel => EvdevInv'
<1>1. SUFFICES ASSUME EvdevInv, Kernel PROVE EvdevInv'
  OBVIOUS
<1>2. ASSUME NEW i \in Nodes, NEW k \in Kinds, NEW b \in BOOLEAN, Plug(i, k, b)
      PROVE  EvdevInv'
  <2>1. notices' \in Seq(Notice)
    BY <1>1, <1>2, NotifyType DEF EvdevInv, Plug
  <2>2. node' \in [Nodes -> Node \cup {None}]
    <3>1. [kind |-> k, plugged |-> TRUE, readable |-> b] \in Node
      BY DEF Node
    <3>2. QED
      BY <1>1, <1>2, <3>1 DEF EvdevInv, TypeOK, Plug
  <2>3. TypeOK'
    BY <1>1, <1>2, <2>1, <2>2 DEF EvdevInv, TypeOK, Plug, engine
  <2>4. QED
    BY <1>1, <1>2, <2>3 DEF EvdevInv, Plug, engine, Marked, DistinctPorts
<1>3. ASSUME NEW i \in Nodes, NEW b \in BOOLEAN, Unplug(i, b)
      PROVE  EvdevInv'
  <2>1. notices' \in Seq(Notice)
    BY <1>1, <1>3, NotifyType DEF EvdevInv, Unplug
  <2>2. node' \in [Nodes -> Node \cup {None}]
    <3>1. node \in [Nodes -> Node \cup {None}] /\ node[i] \in Node
      BY <1>1, <1>3 DEF EvdevInv, TypeOK, Unplug
    <3>2. [node[i] EXCEPT !.plugged = FALSE] \in Node
      BY <3>1 DEF Node
    <3>3. \E v \in Node \cup {None} : node' = [node EXCEPT ![i] = v]
      BY <1>3, <3>2 DEF Unplug
    <3>4. QED
      BY <3>1, <3>3
  <2>3. s_evdev' \in [Nodes -> Device \cup {None}]
    <3>1. s_evdev \in [Nodes -> Device \cup {None}]
      BY <1>1 DEF EvdevInv, TypeOK
    <3>2. s_evdev[i] \in Device => [s_evdev[i] EXCEPT !.valid = FALSE] \in Device
      BY DEF Device
    <3>3. \E v \in Device \cup {None} : s_evdev' = [s_evdev EXCEPT ![i] = v]
      BY <1>3, <3>1, <3>2 DEF Unplug
    <3>4. QED
      BY <3>1, <3>3
  <2>4. TypeOK'
    BY <1>1, <1>3, <2>1, <2>2, <2>3 DEF EvdevInv, TypeOK, Unplug
  <2>5. ASSUME NEW j \in Nodes, s_evdev'[j] # None
        PROVE  /\ s_evdev[j] # None
               /\ s_evdev'[j].id = s_evdev[j].id
               /\ s_evdev'[j].type = s_evdev[j].type
    BY <1>1, <1>3, <2>5 DEF EvdevInv, TypeOK, Unplug, Device
  <2>6. s_evdev_ports' = s_evdev_ports
    BY <1>3 DEF Unplug
  <2>7. PortsInv'
    BY <1>1, <2>3, <2>5, <2>6, InvParts, Fewer
  <2>8. QED
    BY <2>4, <2>7 DEF EvdevInv, PortsInv
<1>4. ASSUME NEW i \in Nodes, Chmod(i)
      PROVE  EvdevInv'
  <2>1. notices' \in Seq(Notice)
    BY <1>1, <1>4, NotifyType DEF EvdevInv, Chmod
  <2>2. node' \in [Nodes -> Node \cup {None}]
    <3>1. node \in [Nodes -> Node \cup {None}] /\ node[i] \in Node
      BY <1>1, <1>4 DEF EvdevInv, TypeOK, Chmod
    <3>2. [node[i] EXCEPT !.readable = ~@] \in Node
      BY <3>1 DEF Node
    <3>3. QED
      BY <1>4, <3>1, <3>2 DEF Chmod
  <2>3. TypeOK'
    BY <1>1, <1>4, <2>1, <2>2 DEF EvdevInv, TypeOK, Chmod, engine
  <2>4. QED
    BY <1>1, <1>4, <2>3 DEF EvdevInv, Chmod, engine, Marked, DistinctPorts
<1>5. QED
  BY <1>1, <1>2, <1>3, <1>4 DEF Kernel

(* Devices that are closed                                                 *)
LEMMA ClosedKeeps ==
  ASSUME PortsInv, NEW S \in SUBSET Nodes,
         s_evdev' = Closed(S), s_evdev_ports' = s_evdev_ports
  PROVE  PortsInv'
<1>1. s_evdev' \in [Nodes -> Device \cup {None}]
  BY DEF PortsInv, PortsType, Closed
<1>2. ASSUME NEW j \in Nodes, s_evdev'[j] # None
      PROVE  s_evdev[j] # None /\ s_evdev'[j] = s_evdev[j]
  BY <1>2 DEF Closed
<1>3. QED
  BY <1>1, <1>2, Fewer

(* What one notification does to the slots.                                *)
LEMMA HandledKeeps ==
  ASSUME PortsInv, NEW n \in Notice, Handled(n)
  PROVE  PortsInv'
<1>1. n.node \in Nodes /\ {n.node} \in SUBSET Nodes
  BY DEF Notice
<1>2. CASE Reopen(n.node, s_initialized)
  BY <1>1, <1>2, ReopenKeeps
<1>3. CASE s_evdev' = Closed({n.node}) /\ UNCHANGED s_evdev_ports
  BY <1>1, <1>3, ClosedKeeps
<1>4. CASE UNCHANGED <<s_evdev, s_evdev_ports>>
  BY <1>4 DEF PortsInv, PortsType, Marked, DistinctPorts
<1>5. QED
  BY <1>2, <1>3, <1>4 DEF Handled

-----------------------------------------------------------------------------
(* The steps of the engine                                                 *)
LEMMA InitializeKeeps ==
  ASSUME EvdevInv, NEW mask \in SUBSET Types, Initialize(mask)
  PROVE  EvdevInv'
<1>1. PortsInv
  BY InvParts
<1>2. PortsInv'
  <2>1. CASE s_initialized = {}
    BY <1>1, <2>1, ClosedKeeps DEF Initialize
  <2>2. CASE s_initialized # {}
    BY <1>1, <2>2 DEF Initialize, PortsInv, PortsType, Marked, DistinctPorts
  <2>3. QED
    BY <2>1, <2>2
<1>3. scan' \in [mask : SUBSET Types, i : Nodes]
  BY EvdevAssumption DEF Initialize, Nodes
<1>4. TypeOK'
  BY <1>2, <1>3 DEF EvdevInv, TypeOK, PortsInv, PortsType, Initialize
<1>5. QED
  BY <1>2, <1>4 DEF EvdevInv, PortsInv

LEMMA ScanKeeps ==
  ASSUME EvdevInv, Scan
  PROVE  EvdevInv'
<1>1. PortsInv
  BY InvParts
<1>2. scan \in [mask : SUBSET Types, i : Nodes]
  BY DEF Scan, EvdevInv, TypeOK
<1>3. PortsInv'
  <2>1. CASE Valid(scan.i)
    BY <1>1, <2>1 DEF Scan, PortsInv, PortsType, Marked, DistinctPorts
  <2>2. CASE ~Valid(scan.i)
    BY <1>1, <1>2, <2>2, ReopenKeeps DEF Scan
  <2>3. QED
    BY <2>1, <2>2
<1>4. scan' \in [mask : SUBSET Types, i : Nodes] \cup {None}
  BY <1>2, EvdevAssumption DEF Scan, Nodes
<1>5. s_initialized' \in SUBSET Types
  BY <1>2 DEF EvdevInv, TypeOK, Scan
<1>6. TypeOK'
  BY <1>3, <1>4, <1>5 DEF EvdevInv, TypeOK, PortsInv, PortsType, Scan
<1>7. QED
  BY <1>3, <1>6 DEF EvdevInv, PortsInv

LEMMA FinalizeKeeps ==
  ASSUME EvdevInv, NEW mask \in SUBSET Types, Finalize(mask)
  PROVE  EvdevInv'
<1>1. PortsInv'
  BY InvParts, ClosedKeeps DEF Finalize
<1>2. notices' \in Seq(Notice) /\ s_initialized' \in SUBSET Types
  BY DEF EvdevInv, TypeOK, Finalize
<1>3. TypeOK'
  BY <1>1, <1>2 DEF EvdevInv, TypeOK, PortsInv, PortsType, Finalize
<1>4. QED
  BY <1>1, <1>3 DEF EvdevInv, PortsInv

LEMMA TickKeeps ==
  ASSUME EvdevInv, Tick
  PROVE  EvdevInv'
<1>1. read' \in Read
  BY EvdevAssumption DEF Tick, Read
<1>2. TypeOK'
  BY <1>1 DEF EvdevInv, TypeOK, Tick, engine
<1>3. QED
  BY <1>2 DEF EvdevInv, Tick, engine, Marked, DistinctPorts

LEMMA FetchKeeps ==
  ASSUME EvdevInv, Fetch
  PROVE  EvdevInv'
<1>1. notices \in Seq(Notice) /\ notices # <<>> /\ Len(notices) \in Nat \ {0}
  BY DEF EvdevInv, TypeOK, Fetch
<1>2. read \in Read
  BY DEF EvdevInv, TypeOK, Fetch, Fetching
<1> DEFINE l_c == Min({Cap, Len(notices)})
<1>3. l_c \in 1..Len(notices)
  <2>1. {Cap, Len(notices)} \in SUBSET Nat /\ {Cap, Len(notices)} # {}
    BY <1>1, EvdevAssumption
  <2>2. l_c \in {Cap, Len(notices)} /\ l_c <= Len(notices)
    BY <2>1, MinFacts
  <2>3. QED
    BY <1>1, <2>2, EvdevAssumption
<1>4. /\ read' = [read EXCEPT !.l_raw = SubSeq(notices, 1, l_c)]
      /\ notices' = SubSeq(notices, l_c + 1, Len(notices))
  BY DEF Fetch
<1> HIDE DEF l_c
<1>5. SubSeq(notices, 1, l_c) \in Seq(Notice) /\ notices' \in Seq(Notice)
  BY <1>1, <1>3, <1>4, SubSeqProperties
<1>6. read' \in Read
  BY <1>2, <1>4, <1>5 DEF Read
<1>7. reread' \in BOOLEAN
  BY DEF Fetch
<1>8. TypeOK'
  BY <1>5, <1>6, <1>7 DEF EvdevInv, TypeOK, Fetch, engine
<1>9. QED
  BY <1>8 DEF EvdevInv, Fetch, engine, Marked, DistinctPorts

LEMMA EndTickKeeps ==
  ASSUME EvdevInv, EndTick
  PROVE  EvdevInv'
BY DEF EvdevInv, TypeOK, EndTick, engine, Marked, DistinctPorts

LEMMA ProcessKeeps ==
  ASSUME EvdevInv, NEW n, Process(n)
  PROVE  EvdevInv'
<1>1. read \in Read /\ read.l_raw \in Seq(Notice) /\ read.l_i \in 0..Cap
  BY DEF EvdevInv, TypeOK, Process, Read
<1>2. n = Junk \/ n \in Notice
  BY <1>1 DEF Process, Taken
<1>3. PortsInv
  BY InvParts
<1>4. PortsInv'
  <2>1. CASE n = Junk
    BY <1>3, <2>1 DEF Process, PortsInv, PortsType, Marked, DistinctPorts
  <2>2. CASE n # Junk
    BY <1>2, <1>3, <2>2, HandledKeeps DEF Process
  <2>3. QED
    BY <2>1, <2>2
<1>5. read' \in Read
  <2>1. PICK l_i \in read.l_i + 1..IF n = Junk THEN Cap + 1 ELSE read.l_i + 1 :
          read' = [l_raw |-> IF l_i < Len(read.l_raw) THEN read.l_raw ELSE <<>>,
                   l_i   |-> Min({l_i, Cap})]
    BY DEF Process
  <2>2. {l_i, Cap} \in SUBSET Nat /\ {l_i, Cap} # {}
    BY <1>1, <2>1, EvdevAssumption
  <2>3. Min({l_i, Cap}) \in 0..Cap
    <3>1. Min({l_i, Cap}) \in {l_i, Cap} /\ Min({l_i, Cap}) <= Cap
      BY <2>2, MinFacts
    <3>2. QED
      BY <2>2, <3>1, EvdevAssumption
  <2>4. (IF l_i < Len(read.l_raw) THEN read.l_raw ELSE <<>>) \in Seq(Notice)
    BY <1>1
  <2>5. QED
    BY <2>1, <2>3, <2>4 DEF Read
<1>6. TypeOK'
  BY <1>4, <1>5 DEF EvdevInv, TypeOK, PortsInv, PortsType, Process
<1>7. QED
  BY <1>4, <1>6 DEF EvdevInv, PortsInv

LEMMA NextInv == EvdevInv /\ [Next]_vars => EvdevInv'
<1>1. SUFFICES ASSUME EvdevInv, [Next]_vars PROVE EvdevInv'
  OBVIOUS
<1>2. KeyboardMask \in SUBSET Types /\ JoystickMask \in SUBSET Types
  BY DEF KeyboardMask, JoystickMask, Types
<1>3. CASE Kernel
  BY <1>1, <1>3, KernelKeeps
<1>4. ASSUME NEW mask \in {KeyboardMask, JoystickMask},
             Initialize(mask) \/ Finalize(mask)
      PROVE  EvdevInv'
  BY <1>1, <1>2, <1>4, InitializeKeeps, FinalizeKeeps
<1>5. CASE Scan \/ Tick
  BY <1>1, <1>5, ScanKeeps, TickKeeps
<1>6. CASE Reading
  BY <1>1, <1>6, FetchKeeps, EndTickKeeps, ProcessKeeps DEF Reading
<1>7. CASE UNCHANGED vars
  BY <1>1, <1>7 DEF vars, engine, EvdevInv, TypeOK, Marked, DistinctPorts
<1>8. QED
  BY <1>1, <1>3, <1>4, <1>5, <1>6, <1>7 DEF Next

-----------------------------------------------------------------------------
LEMMA Invariance == Spec => []EvdevInv
BY InitInv, NextInv, PTL DEF Spec

(* The nodes, devices, ports and notifications keep their types, whatever  *)
(* the kernel does between the system calls of the engine: no slot, port   *)
(* or byte of l_raw is reached beyond its array.                           *)
THEOREM TypeCorrect == Spec => []TypeOK
<1>1. EvdevInv => TypeOK
  BY DEF EvdevInv
<1>2. QED
  BY <1>1, Invariance, PTL

(* Two open devices of a class share a port only when the ports of the     *)
(* class have run out, even if junk is taken for a notification.           *)
THEOREM PortsDistinct == Spec => []DistinctPorts
<1>1. EvdevInv => DistinctPorts
  BY DEF EvdevInv
<1>2. QED
  BY <1>1, Invariance, PTL
-----------------------------------------------------------------------------
(* The notifications that are still to be handled, the oldest first, as    *)
(* long as no second buffer was read.                                      *)
Rest == (IF read = None THEN <<>>
         ELSE IF read.l_raw = <<>> THEN <<>>
         ELSE SubSeq(read.l_raw, read.l_i + 1, Len(read.l_raw))) \o notices

(* Notifications s hold one of the node i, and the last of them that it    *)
(* was deleted.                                                            *)
Waits(s, i) == \E k \in 1..Len(s) : s[k].node = i
Left(s, i) == \E k \in 1..Len(s) : /\ s[k].node = i /\ s[k].what = "delete"
                                   /\ \A j \in k + 1..Len(s) : s[j].node # i

(* The types that node i has been asked for. *)
Asked(i) ==
  s_initialized \cup IF scan = None THEN {} ELSE IF i < scan.i THEN scan.mask ELSE {}

(* What is open of a node of which no notification waits.  A node that is  *)
(* a joystick too may be closed with the joysticks while keyboards stay.   *)
UpToDate(i) ==
  /\ Asked(i) = Types => /\ Opens(i, Types) => Valid(i)
                         /\ s_evdev[i] # None => Valid(i)
  /\ Asked(i) = KeyboardMask =>
       (Opens(i, KeyboardMask) /\ ~Opens(i, JoystickMask) => Valid(i))

(* Where Initialize, Finalize and Tick have got to.                        *)
Phase ==
  /\ s_initialized \in {{}, KeyboardMask, Types}
  /\ scan # None => \/ s_initialized = {} /\ scan.mask = KeyboardMask
                    \/ s_initialized = KeyboardMask /\ scan.mask = JoystickMask
  /\ read # None => scan = None /\ s_initialized = Types
  /\ ~Watching => notices = <<>>

(* A device that is valid is of the hardware that is there. *)
Alive == \A i \in Nodes :
  Valid(i) => node[i] # None /\ node[i].plugged /\ s_evdev[i].type \in node[i].kind

StepInv ==
  /\ Phase
  /\ Alive
  /\ ~reread =>
       /\ read # None => /\ Len(read.l_raw) <= Cap
                         /\ read.l_raw = <<>> \/ read.l_i < Len(read.l_raw)
       /\ \A i \in Nodes : Left(Rest, i) => node[i] = None
       /\ \A i \in Nodes : ~Waits(Rest, i) => UpToDate(i)

-----------------------------------------------------------------------------
(* One more notification, one less, and none. *)
LEMMA WaitsAppend ==
  ASSUME NEW s \in Seq(Notice), NEW n \in Notice, NEW i
  PROVE  /\ Append(s, n) \in Seq(Notice)
         /\ ~Waits(Append(s, n), i) => ~Waits(s, i) /\ n.node # i
         /\ Left(Append(s, n), i) => \/ n.node = i /\ n.what = "delete"
                                     \/ n.node # i /\ Left(s, i)
<1> DEFINE t == Append(s, n)
<1>1. /\ t \in Seq(Notice) /\ Len(s) \in Nat /\ Len(t) = Len(s) + 1
      /\ t[Len(s) + 1] = n /\ \A k \in 1..Len(s) : t[k] = s[k]
      /\ 1..Len(s) \subseteq 1..Len(s) + 1 /\ Len(s) + 1 \in 1..Len(s) + 1
  OBVIOUS
<1> HIDE DEF t
<1>2. ASSUME ~Waits(t, i) PROVE ~Waits(s, i) /\ n.node # i
  BY <1>1, <1>2 DEF Waits
<1>3. ASSUME Left(t, i) PROVE (n.node = i /\ n.what = "delete") \/ (n.node # i /\ Left(s, i))
  <2>1. PICK k \in 1..Len(s) + 1 : /\ t[k].node = i /\ t[k].what = "delete"
                                   /\ \A j \in k + 1..Len(s) + 1 : t[j].node # i
    BY <1>1, <1>3 DEF Left
  <2>2. CASE k = Len(s) + 1
    BY <1>1, <2>1, <2>2
  <2>3. CASE k # Len(s) + 1
    <3>1. k \in 1..Len(s) /\ Len(s) + 1 \in k + 1..Len(s) + 1
          /\ k + 1..Len(s) \subseteq k + 1..Len(s) + 1
          /\ k + 1..Len(s) \subseteq 1..Len(s)
      BY <1>1, <2>1, <2>3
    <3>2. n.node # i
      BY <1>1, <2>1, <3>1
    <3>3. \A j \in k + 1..Len(s) : s[j].node # i
      BY <1>1, <2>1, <3>1
    <3>4. QED
      BY <1>1, <2>1, <3>1, <3>2, <3>3 DEF Left
  <2>4. QED
    BY <2>2, <2>3
<1>4. QED
  BY <1>1, <1>2, <1>3 DEF t

LEMMA WaitsTail ==
  ASSUME NEW s \in Seq(Notice), s # <<>>, NEW i
  PROVE  /\ Tail(s) \in Seq(Notice) /\ Head(s) \in Notice
         /\ ~Waits(Tail(s), i) /\ Head(s).node # i => ~Waits(s, i)
         /\ ~Waits(Tail(s), i) /\ Head(s).node = i /\ Head(s).what = "delete" => Left(s, i)
         /\ Left(Tail(s), i) => Left(s, i)
<1> DEFINE t == Tail(s)
           h == Head(s)
<1>1. /\ t \in Seq(Notice) /\ Len(s) \in Nat \ {0} /\ Len(t) = Len(s) - 1
      /\ h = s[1] /\ h \in Notice /\ \A k \in 1..Len(t) : s[k + 1] = t[k]
  OBVIOUS
<1> HIDE DEF t, h
<1>2. \A k \in 1..Len(s) : k # 1 => k - 1 \in 1..Len(t) /\ s[k] = t[k - 1]
  <2>1. SUFFICES ASSUME NEW k \in 1..Len(s), k # 1
                 PROVE  k - 1 \in 1..Len(t) /\ s[k] = t[k - 1]
    OBVIOUS
  <2>2. k - 1 \in 1..Len(t) /\ (k - 1) + 1 = k
    BY <1>1, <2>1
  <2>3. QED
    BY <1>1, <2>2
<1>3. ASSUME ~Waits(t, i), h.node # i PROVE ~Waits(s, i)
  <2>1. SUFFICES ASSUME NEW k \in 1..Len(s), s[k].node = i PROVE FALSE
    BY DEF Waits
  <2>2. k # 1
    BY <1>1, <1>3, <2>1
  <2>3. QED
    BY <1>2, <1>3, <2>1, <2>2 DEF Waits
<1>4. ASSUME ~Waits(t, i), h.node = i, h.what = "delete" PROVE Left(s, i)
  <2>1. \A j \in 1 + 1..Len(s) : s[j].node # i
    <3>1. SUFFICES ASSUME NEW j \in 1 + 1..Len(s) PROVE s[j].node # i
      OBVIOUS
    <3>2. j \in 1..Len(s) /\ j # 1
      BY <1>1
    <3>3. QED
      BY <1>2, <1>4, <3>2 DEF Waits
  <2>2. 1 \in 1..Len(s)
    BY <1>1
  <2>3. QED
    BY <1>1, <1>4, <2>1, <2>2 DEF Left
<1>5. ASSUME Left(t, i) PROVE Left(s, i)
  <2>1. PICK k \in 1..Len(t) : /\ t[k].node = i /\ t[k].what = "delete"
                               /\ \A j \in k + 1..Len(t) : t[j].node # i
    BY <1>5 DEF Left
  <2>2. k + 1 \in 1..Len(s) /\ s[k + 1] = t[k]
    BY <1>1, <2>1
  <2>3. \A j \in (k + 1) + 1..Len(s) : s[j].node # i
    <3>1. SUFFICES ASSUME NEW j \in (k + 1) + 1..Len(s) PROVE s[j].node # i
      OBVIOUS
    <3>2. j \in 1..Len(s) /\ j # 1 /\ j - 1 \in k + 1..Len(t)
      BY <1>1, <2>1
    <3>3. QED
      BY <1>2, <2>1, <3>2
  <2>4. QED
    BY <2>1, <2>2, <2>3 DEF Left
<1>6. QED
  BY <1>1, <1>3, <1>4, <1>5 DEF t, h

LEMMA WaitsNone == \A i : ~Waits(<<>>, i) /\ ~Left(<<>>, i)
<1>1. Len(<<>>) = 0
  OBVIOUS
<1>2. QED
  BY <1>1 DEF Waits, Left

-----------------------------------------------------------------------------
(* What the steps do to the notifications still to be handled.             *)
Unread == IF read = None THEN <<>>
          ELSE IF read.l_raw = <<>> THEN <<>>
          ELSE SubSeq(read.l_raw, read.l_i + 1, Len(read.l_raw))

LEMMA RestType ==
  ASSUME TypeOK
  PROVE  /\ Rest = Unread \o notices
         /\ Unread \in Seq(Notice) /\ notices \in Seq(Notice) /\ Rest \in Seq(Notice)
         /\ read = None => Rest = notices
<1>1. Rest = Unread \o notices
  BY DEF Rest, Unread
<1>2. notices \in Seq(Notice)
  BY DEF TypeOK
<1>3. Unread \in Seq(Notice)
  <2>1. CASE read = None
    BY <2>1 DEF Unread
  <2>2. CASE read # None /\ read.l_raw = <<>>
    BY <2>2 DEF Unread
  <2>3. CASE read # None /\ read.l_raw # <<>>
    <3>1. read.l_raw \in Seq(Notice) /\ read.l_i \in Nat /\ Len(read.l_raw) \in Nat
      BY <2>3, EvdevAssumption DEF TypeOK, Read
    <3>2. SubSeq(read.l_raw, read.l_i + 1, Len(read.l_raw)) \in Seq(Notice)
      BY <3>1
    <3>3. QED
      BY <2>3, <3>2 DEF Unread
  <2>4. QED
    BY <2>1, <2>2, <2>3
<1>4. Rest \in Seq(Notice)
  BY <1>1, <1>2, <1>3
<1>5. read = None => Rest = notices
  BY <1>1, <1>2, ConcatEmptySeq DEF Unread
<1>6. QED
  BY <1>1, <1>2, <1>3, <1>4, <1>5

LEMMA RestAppend ==
  ASSUME TypeOK, NEW n \in Notice, notices' = Append(notices, n), read' = read
  PROVE  Rest' = Append(Rest, n)
<1>1. Rest = Unread \o notices /\ Unread \in Seq(Notice) /\ notices \in Seq(Notice)
  BY RestType
<1>2. Rest' = Unread \o Append(notices, n)
  BY DEF Rest, Unread
<1> DEFINE u == Unread
           v == notices
<1>3. u \in Seq(Notice) /\ v \in Seq(Notice) /\ <<n>> \in Seq(Notice)
  BY <1>1
<1> HIDE DEF u, v
<1>4. /\ Append(v, n) = v \o <<n>>
      /\ u \o v \in Seq(Notice) /\ Append(u \o v, n) = (u \o v) \o <<n>>
  BY <1>3, AppendIsConcat
<1>5. (u \o v) \o <<n>> = u \o (v \o <<n>>)
  BY <1>3, ConcatAssociative
<1>6. QED
  BY <1>1, <1>2, <1>4, <1>5 DEF u, v

LEMMA RestFetch ==
  ASSUME TypeOK, TypeOK', Fetch, ~reread'
  PROVE  /\ Rest' = Rest
         /\ read' # None /\ Len(read'.l_raw) <= Cap /\ read'.l_i < Len(read'.l_raw)
<1> DEFINE s == notices
           l_c == Min({Cap, Len(s)})
           u == SubSeq(s, 1, l_c)
           v == SubSeq(s, l_c + 1, Len(s))
<1>1. /\ s \in Seq(Notice) /\ s # <<>> /\ Len(s) \in Nat \ {0}
      /\ read \in Read /\ read.l_raw = <<>> /\ read # None
  BY DEF TypeOK, Fetch, Fetching
<1>2. read.l_i = 0
  <2>1. read.l_i \in Nat
    BY <1>1, EvdevAssumption DEF Read
  <2>2. ~(read.l_i > 0)
    BY Zenon DEF Fetch
  <2>3. QED
    BY <2>1, <2>2
<1>3. l_c \in 1..Len(s) /\ l_c <= Cap
  <2>1. {Cap, Len(s)} \in SUBSET Nat /\ {Cap, Len(s)} # {}
    BY <1>1, EvdevAssumption
  <2>2. l_c \in {Cap, Len(s)} /\ l_c <= Len(s) /\ l_c <= Cap
    BY <2>1, MinFacts
  <2>3. QED
    BY <1>1, <2>2, EvdevAssumption
<1>4. read' = [read EXCEPT !.l_raw = u] /\ notices' = v
  BY DEF Fetch
<1> HIDE DEF s, l_c
<1>5. u \in Seq(Notice) /\ Len(u) = l_c /\ v \in Seq(Notice)
  BY <1>1, <1>3
<1>6. u \o v = s
  <2>1. 1 \in 1..Len(s) + 1 /\ l_c \in 1 - 1..Len(s) /\ Len(s) \in l_c..Len(s)
    BY <1>1, <1>3
  <2>2. u \o v = SubSeq(s, 1, Len(s))
    BY ONLY <1>1, <2>1, ConcatAdjacentSubSeq
  <2>3. SubSeq(s, 1, Len(s)) = s
    BY <1>1
  <2>4. QED
    BY <2>2, <2>3
<1>7. SubSeq(u, 1, l_c) = u
  BY <1>3, <1>5
<1> HIDE DEF u, v
<1>8. read' \in Read /\ read'.l_raw = u /\ read'.l_i = 0
  BY <1>1, <1>2, <1>4, <1>5 DEF Read
<1>9. read' # None
  BY <1>8, ValuesAssumption
<1>10. u # <<>>
  BY <1>3, <1>5
<1>11. Rest' = u \o v
  <2>1. SubSeq(read'.l_raw, read'.l_i + 1, Len(read'.l_raw)) = u
    BY <1>5, <1>7, <1>8
  <2>2. QED
    BY <1>4, <1>8, <1>9, <1>10, <2>1 DEF Rest
<1>12. Rest = s
  <2>1. Rest = <<>> \o s
    BY <1>1 DEF Rest, s
  <2>2. QED
    BY <1>1, <2>1, ConcatEmptySeq
<1>13. read'.l_i < Len(read'.l_raw) /\ Len(read'.l_raw) <= Cap
  BY <1>3, <1>5, <1>8
<1>14. QED
  BY <1>6, <1>9, <1>11, <1>12, <1>13

LEMMA RestProcess ==
  ASSUME TypeOK, TypeOK', NEW n, Process(n),
         read.l_i < Len(read.l_raw), Len(read.l_raw) <= Cap
  PROVE  /\ n \in Notice /\ Handled(n)
         /\ Rest \in Seq(Notice) /\ Rest # <<>>
         /\ n = Head(Rest) /\ Rest' = Tail(Rest)
         /\ read' # None /\ Len(read'.l_raw) <= Cap
         /\ read'.l_raw = <<>> \/ read'.l_i < Len(read'.l_raw)
<1> DEFINE r == read.l_raw
           k == read.l_i + 1
           u == SubSeq(r, k, Len(r))
           w == SubSeq(r, k + 1, Len(r))
           v == notices
<1>1. /\ read \in Read /\ read # None /\ r \in Seq(Notice) /\ r # <<>>
      /\ v \in Seq(Notice) /\ read' \in Read \cup {None}
  BY DEF TypeOK, Process, Fetching, Read
<1>2. k \in 1..Len(r) /\ Len(r) \in Nat /\ r[k] \in Notice
  BY <1>1, EvdevAssumption DEF Read
<1>3. n = r[k] /\ n \in Notice /\ n # Junk
  BY <1>2, ValuesAssumption DEF Process, Taken
<1>4. Handled(n)
  BY <1>3 DEF Process
<1>5. read' = [l_raw |-> IF k < Len(r) THEN r ELSE <<>>, l_i |-> Min({k, Cap})]
  <2>1. PICK l_i \in read.l_i + 1..IF n = Junk THEN Cap + 1 ELSE read.l_i + 1 :
          read' = [l_raw |-> IF l_i < Len(read.l_raw) THEN read.l_raw ELSE <<>>,
                   l_i   |-> Min({l_i, Cap})]
    BY DEF Process
  <2>2. l_i = k
    BY <1>2, <1>3, <2>1
  <2>3. QED
    BY <2>1, <2>2
<1>6. notices' = v
  BY DEF Process
<1>7. Min({k, Cap}) \in {k, Cap} /\ Min({k, Cap}) <= k /\ Min({k, Cap}) <= Cap
  <2>1. {k, Cap} \in SUBSET Nat /\ {k, Cap} # {}
    BY <1>2, EvdevAssumption
  <2>2. QED
    BY <2>1, MinFacts
<1>8. Min({k, Cap}) = k
  BY <1>2, <1>7, EvdevAssumption
<1>9. read' = [l_raw |-> IF k < Len(r) THEN r ELSE <<>>, l_i |-> k]
  BY <1>5, <1>8
<1>10. read' # None
  <2>1. (IF k < Len(r) THEN r ELSE <<>>) \in Seq(Notice) /\ k \in 0..Cap
    BY <1>1, <1>2, EvdevAssumption
  <2>2. read' \in Read
    BY <1>9, <2>1 DEF Read
  <2>3. QED
    BY <2>2, ValuesAssumption
<1>11. Rest = u \o v
  BY <1>1 DEF Rest
<1>12. /\ u \in Seq(Notice) /\ u # <<>> /\ Head(u) = n /\ Tail(u) = w
       /\ w \in Seq(Notice)
  <2>1. Len(r) \in k..Len(r)
    BY <1>2
  <2>2. Head(u) = r[k] /\ Tail(u) = w
    BY <1>1, <1>2, <2>1, HeadTailOfSubSeq
  <2>3. u \in Seq(Notice) /\ u # <<>> /\ w \in Seq(Notice)
    <3>1. u \in Seq(Notice) /\ w \in Seq(Notice)
      BY <1>1, <1>2
    <3>2. Len(u) = Len(r) - k + 1 /\ Len(u) > 0
      BY <1>1, <1>2
    <3> HIDE DEF u, w
    <3>3. u # <<>>
      BY <3>2
    <3>4. QED
      BY <3>1, <3>3
  <2>4. QED
    BY <1>3, <2>2, <2>3
<1>13. Rest' = w \o v
  <2>1. CASE k < Len(r)
    <3>1. read'.l_raw = r /\ read'.l_i = k
      BY <1>9, <2>1
    <3>2. QED
      BY <1>1, <1>6, <1>10, <3>1 DEF Rest
  <2>2. CASE ~(k < Len(r))
    <3>1. w = <<>>
      BY <1>1, <1>2, <2>2
    <3>2. read'.l_raw = <<>>
      BY <1>9, <2>2
    <3>3. QED
      BY <1>6, <1>10, <3>1, <3>2 DEF Rest
  <2>3. QED
    BY <2>1, <2>2
<1>14. /\ Len(read'.l_raw) <= Cap
       /\ read'.l_raw = <<>> \/ read'.l_i < Len(read'.l_raw)
  BY <1>2, <1>9, EvdevAssumption
<1> HIDE DEF r, k, u, v, w
<1>15. /\ u \o v \in Seq(Notice) /\ u \o v # <<>>
       /\ Head(u \o v) = Head(u) /\ Tail(u \o v) = Tail(u) \o v
  <2>1. /\ Len(u) \in Nat \ {0} /\ Len(v) \in Nat /\ Head(u) = u[1]
        /\ Tail(u) \in Seq(Notice) /\ Len(Tail(u)) = Len(u) - 1
        /\ \A i \in 1..Len(u) - 1 : Tail(u)[i] = u[i + 1]
    BY <1>1, <1>12
  <2>2. /\ u \o v \in Seq(Notice) /\ Len(u \o v) = Len(u) + Len(v)
        /\ \A i \in 1..Len(u) + Len(v) : (u \o v)[i] = IF i <= Len(u) THEN u[i] ELSE v[i - Len(u)]
    BY <1>1, <1>12, ConcatProperties
  <2> DEFINE x == u \o v
             y == Tail(u)
  <2> HIDE DEF x, y
  <2>3. x # <<>> /\ Head(x) = u[1]
    BY <2>1, <2>2 DEF x
  <2>4. /\ Tail(x) \in Seq(Notice) /\ Len(Tail(x)) = Len(u) + Len(v) - 1
        /\ \A i \in 1..Len(u) + Len(v) - 1 : Tail(x)[i] = x[i + 1]
    BY <2>1, <2>2, <2>3 DEF x
  <2>5. /\ y \o v \in Seq(Notice) /\ Len(y \o v) = Len(u) - 1 + Len(v)
        /\ \A i \in 1..Len(u) - 1 + Len(v) :
             (y \o v)[i] = IF i <= Len(u) - 1 THEN y[i] ELSE v[i - (Len(u) - 1)]
    BY <1>1, <2>1, ConcatProperties DEF y
  <2>6. ASSUME NEW i \in 1..Len(u) + Len(v) - 1 PROVE Tail(x)[i] = (y \o v)[i]
    <3>1. /\ i + 1 \in 1..Len(u) + Len(v) /\ i \in 1..Len(u) - 1 + Len(v)
          /\ (i + 1) - Len(u) = i - (Len(u) - 1)
          /\ i + 1 <= Len(u) <=> i <= Len(u) - 1
          /\ i <= Len(u) - 1 => i \in 1..Len(u) - 1
      BY <2>1
    <3>2. Tail(x)[i] = IF i + 1 <= Len(u) THEN u[i + 1] ELSE v[(i + 1) - Len(u)]
      BY <2>2, <2>4, <3>1 DEF x
    <3>3. (y \o v)[i] = IF i <= Len(u) - 1 THEN u[i + 1] ELSE v[i - (Len(u) - 1)]
      BY <2>1, <2>5, <3>1 DEF y
    <3>4. CASE i + 1 <= Len(u)
      BY <3>1, <3>2, <3>3, <3>4
    <3>5. CASE ~(i + 1 <= Len(u))
      BY <3>1, <3>2, <3>3, <3>5
    <3>6. QED
      BY <3>4, <3>5
  <2>7. Tail(x) = y \o v
    <3> DEFINE z == y \o v
               a == Tail(x)
    <3>1. /\ a \in Seq(Notice) /\ z \in Seq(Notice) /\ Len(a) = Len(z)
          /\ \A i \in 1..Len(a) : a[i] = z[i]
      <4> HIDE DEF z, a
      <4>1. a \in Seq(Notice) /\ Len(a) = Len(u) + Len(v) - 1
        BY <2>4 DEF a
      <4>2. z \in Seq(Notice) /\ Len(z) = Len(u) - 1 + Len(v)
        BY <2>5 DEF z
      <4>3. \A i \in 1..Len(u) + Len(v) - 1 : a[i] = z[i]
        BY <2>6 DEF a, z
      <4>4. QED
        BY <2>1, <4>1, <4>2, <4>3
    <3> HIDE DEF z, a
    <3>2. a = z
      BY ONLY <3>1, SeqEqual
    <3>3. QED
      BY <3>2 DEF z, a
  <2>8. QED
    BY <2>1, <2>2, <2>3, <2>7 DEF x, y
<1>16. QED
  BY <1>3, <1>4, <1>10, <1>11, <1>12, <1>13, <1>14, <1>15

-----------------------------------------------------------------------------
(* A slot that is opened anew: the device in it is valid and of the        *)
(* hardware that is there, or the slot is empty.                           *)
LEMMA ReopenFacts ==
  ASSUME EvdevInv, NEW i \in Nodes, NEW mask \in SUBSET Types, Reopen(i, mask)
  PROVE  /\ \A j \in Nodes \ {i} : s_evdev'[j] = s_evdev[j]
         /\ Opens(i, mask) => /\ s_evdev'[i] # None /\ s_evdev'[i].valid
                              /\ node[i] # None /\ node[i].plugged
                              /\ s_evdev'[i].type \in node[i].kind
         /\ ~Opens(i, mask) => s_evdev'[i] = None
<1> DEFINE type == Detected(node[i].kind, mask)
           port == FreePort(s_evdev_ports[Class(type)])
           d == [id |-> port, type |-> type, valid |-> TRUE]
<1>1. s_evdev \in [Nodes -> Device \cup {None}] /\ node \in [Nodes -> Node \cup {None}]
  BY DEF EvdevInv, TypeOK
<1>2. CASE ~Opens(i, mask)
  BY <1>1, <1>2 DEF Reopen
<1>3. CASE Opens(i, mask)
  <2>1. /\ node[i] # None /\ node[i].plugged
        /\ node[i].kind \cap mask # {} /\ node[i].kind \in SUBSET Types
    BY <1>1, <1>3, EvdevAssumption DEF Opens, Node
  <2>2. type \in node[i].kind /\ type \in Types
    BY <2>1 DEF Detected, Types
  <2>3. port \in Ids
    <3>1. s_evdev_ports[Class(type)] \in SUBSET Ids
      BY ClassFacts DEF EvdevInv, TypeOK
    <3>2. QED
      BY <3>1, FreePortFacts
  <2>4. s_evdev' = [s_evdev EXCEPT ![i] = d]
    BY <1>3 DEF Reopen
  <2> HIDE DEF port, type
  <2>5. d \in Device
    BY <2>2, <2>3 DEF Device
  <2>6. d # None /\ d.valid /\ d.type = type
    BY <2>5, ValuesAssumption
  <2> HIDE DEF d
  <2>7. \A j \in Nodes : s_evdev'[j] = IF j = i THEN d ELSE s_evdev[j]
    BY <1>1, <2>4
  <2>8. QED
    BY <1>3, <2>1, <2>2, <2>6, <2>7
<1>4. QED
  BY <1>2, <1>3

LEMMA Masks ==
  /\ KeyboardMask \in SUBSET Types /\ JoystickMask \in SUBSET Types
  /\ KeyboardMask # {} /\ Types # {} /\ KeyboardMask # Types
  /\ KeyboardMask \cup JoystickMask = Types /\ Types \ JoystickMask = KeyboardMask
  /\ KeyboardMask \ KeyboardMask = {} /\ {} \cup KeyboardMask = KeyboardMask
  /\ JoystickMask # KeyboardMask /\ JoystickMask # {}
BY DEF KeyboardMask, JoystickMask, Types

(* A node that can be opened at all can be as a joystick or as a keyboard. *)
LEMMA OpensFacts ==
  ASSUME NEW i
  PROVE  /\ Opens(i, KeyboardMask) => Opens(i, Types)
         /\ Opens(i, JoystickMask) => Opens(i, Types)
         /\ Opens(i, Types) => Opens(i, KeyboardMask) \/ Opens(i, JoystickMask)
BY DEF Opens, KeyboardMask, JoystickMask, Types

LEMMA StepInit == Init => StepInv
<1>1. SUFFICES ASSUME Init PROVE StepInv
  OBVIOUS
<1>2. /\ notices = <<>> /\ s_evdev = [i \in Nodes |-> None] /\ s_initialized = {}
      /\ scan = None /\ read = None
  BY <1>1 DEF Init
<1>3. Phase
  BY <1>2 DEF Phase, Watching
<1>4. \A i \in Nodes : s_evdev[i] = None
  BY <1>2
<1>5. Alive
  BY <1>4 DEF Alive, Valid
<1>6. \A i \in Nodes : UpToDate(i)
  <2>1. \A i \in Nodes : Asked(i) = {}
    BY <1>2 DEF Asked
  <2>2. QED
    BY <2>1, Masks DEF UpToDate
<1>7. Rest = <<>>
  BY <1>1, <1>2, InitInv, RestType DEF EvdevInv
<1>8. QED
  BY <1>2, <1>3, <1>5, <1>6, <1>7, WaitsNone DEF StepInv

(* A step of the kernel at node k: it is announced, unless nobody watches. *)
LEMMA KernelStep ==
  ASSUME EvdevInv, EvdevInv', StepInv, NEW k \in Nodes,
         NEW what \in {"create", "delete", "attrib"}, Notify(k, what),
         UNCHANGED <<s_initialized, scan, read, reread>>,
         \A i \in Nodes \ {k} : node'[i] = node[i] /\ s_evdev'[i] = s_evdev[i],
         what = "delete" => node'[k] = None,
         Valid(k)' => node'[k] # None /\ node'[k].plugged
                      /\ s_evdev'[k].type \in node'[k].kind
  PROVE  StepInv'
<1>1. Phase'
  BY DEF StepInv, Phase, Watching, Notify
<1>2. Alive'
  <2>1. SUFFICES ASSUME NEW i \in Nodes, Valid(i)'
                 PROVE  node'[i] # None /\ node'[i].plugged
                        /\ s_evdev'[i].type \in node'[i].kind
    BY DEF Alive
  <2>2. CASE i = k
    BY <2>1, <2>2
  <2>3. CASE i # k
    BY <2>1, <2>3 DEF StepInv, Alive, Valid
  <2>4. QED
    BY <2>2, <2>3
<1>3. SUFFICES ASSUME ~reread
               PROVE  /\ read # None => /\ Len(read.l_raw) <= Cap
                                        /\ read.l_raw = <<>> \/ read.l_i < Len(read.l_raw)
                      /\ \A i \in Nodes : Left(Rest', i) => node'[i] = None
                      /\ \A i \in Nodes : ~Waits(Rest', i) => UpToDate(i)'
  BY <1>1, <1>2 DEF StepInv
<1>4. /\ \A i \in Nodes : Left(Rest, i) => node[i] = None
      /\ \A i \in Nodes : ~Waits(Rest, i) => UpToDate(i)
  BY <1>3 DEF StepInv
<1>5. CASE Watching
  <2> DEFINE n == [node |-> k, what |-> what]
  <2>1. n \in Notice /\ n.node = k /\ n.what = what
    BY DEF Notice
  <2>2. notices' = Append(notices, n)
    BY <1>5 DEF Notify
  <2> HIDE DEF n
  <2>3. Rest' = Append(Rest, n) /\ Rest \in Seq(Notice)
    BY <2>1, <2>2, RestAppend, RestType DEF EvdevInv
  <2>4. ASSUME NEW i \in Nodes, Left(Rest', i) PROVE node'[i] = None
    <3>1. (n.node = i /\ n.what = "delete") \/ (n.node # i /\ Left(Rest, i))
      BY <2>1, <2>3, <2>4, WaitsAppend
    <3>2. QED
      BY <1>4, <2>1, <3>1
  <2>5. ASSUME NEW i \in Nodes, ~Waits(Rest', i) PROVE UpToDate(i)'
    <3>1. ~Waits(Rest, i) /\ i # k
      BY <2>1, <2>3, <2>5, WaitsAppend
    <3>2. UpToDate(i) /\ node'[i] = node[i] /\ s_evdev'[i] = s_evdev[i]
      BY <1>4, <3>1
    <3>3. QED
      BY <3>2 DEF UpToDate, Asked, Opens, Valid
  <2>6. QED
    BY <1>3, <2>4, <2>5 DEF StepInv
<1>6. CASE ~Watching
  <2>1. s_initialized = {} /\ scan = None /\ notices = <<>> /\ notices' = notices /\ read = None
    BY <1>6, Masks DEF StepInv, Phase, Watching, Notify
  <2>2. Rest' = <<>>
    BY <2>1, RestType DEF EvdevInv, Rest
  <2>3. \A i \in Nodes : UpToDate(i)'
    <3>1. \A i \in Nodes : Asked(i)' = {}
      BY <2>1 DEF Asked
    <3>2. QED
      BY <3>1, Masks DEF UpToDate
  <2>4. QED
    BY <1>3, <2>1, <2>2, <2>3, WaitsNone DEF StepInv
<1>7. QED
  BY <1>5, <1>6

LEMMA KernelInStep ==
  ASSUME EvdevInv, EvdevInv', StepInv, Kernel
  PROVE  StepInv'
<1>0. node \in [Nodes -> Node \cup {None}] /\ s_evdev \in [Nodes -> Device \cup {None}]
  BY DEF EvdevInv, TypeOK
<1>1. ASSUME NEW k \in Nodes, NEW kind \in Kinds, NEW b \in BOOLEAN, Plug(k, kind, b)
      PROVE  StepInv'
  <2> DEFINE what == IF node[k] = None THEN "create" ELSE "attrib"
  <2>1. /\ what \in {"create", "delete", "attrib"} /\ what # "delete"
        /\ Notify(k, what)
        /\ UNCHANGED <<s_initialized, scan, read, reread>>
    BY <1>1 DEF Plug, engine
  <2>2. \A i \in Nodes \ {k} : node'[i] = node[i] /\ s_evdev'[i] = s_evdev[i]
    BY <1>0, <1>1 DEF Plug, engine
  <2>3. ~Valid(k)'
    <3>1. s_evdev'[k] = s_evdev[k]
      BY <1>1 DEF Plug, engine
    <3>2. ~Valid(k)
      BY <1>1 DEF Plug, StepInv, Alive
    <3>3. QED
      BY <3>1, <3>2 DEF Valid
  <2> HIDE DEF what
  <2>4. QED
    BY <2>1, <2>2, <2>3, KernelStep
<1>2. ASSUME NEW k \in Nodes, NEW stays \in BOOLEAN, Unplug(k, stays)
      PROVE  StepInv'
  <2> DEFINE what == IF stays THEN "attrib" ELSE "delete"
  <2>1. /\ what \in {"create", "delete", "attrib"} /\ Notify(k, what)
        /\ UNCHANGED <<s_initialized, scan, read, reread>>
    BY <1>2 DEF Unplug
  <2>2. \A i \in Nodes \ {k} : node'[i] = node[i] /\ s_evdev'[i] = s_evdev[i]
    BY <1>0, <1>2 DEF Unplug
  <2>3. what = "delete" => node'[k] = None
    BY <1>0, <1>2 DEF Unplug
  <2>4. ~Valid(k)'
    <3>1. s_evdev[k] = None \/ s_evdev[k] \in Device
      BY <1>0
    <3>2. s_evdev'[k] = IF s_evdev[k] = None THEN None ELSE [s_evdev[k] EXCEPT !.valid = FALSE]
      BY <1>0, <1>2 DEF Unplug
    <3>3. QED
      BY <3>1, <3>2 DEF Valid, Device
  <2> HIDE DEF what
  <2>5. QED
    BY <2>1, <2>2, <2>3, <2>4, KernelStep
<1>3. ASSUME NEW k \in Nodes, Chmod(k)
      PROVE  StepInv'
  <2> DEFINE what == "attrib"
  <2>1. /\ what \in {"create", "delete", "attrib"} /\ Notify(k, what)
        /\ UNCHANGED <<s_initialized, scan, read, reread>>
    BY <1>3 DEF Chmod, engine
  <2>2. \A i \in Nodes \ {k} : node'[i] = node[i] /\ s_evdev'[i] = s_evdev[i]
    BY <1>0, <1>3 DEF Chmod, engine
  <2>3. /\ node[k] \in Node /\ node'[k] \in Node
        /\ node'[k].plugged = node[k].plugged /\ node'[k].kind = node[k].kind
    <3>1. node[k] \in Node
      BY <1>0, <1>3 DEF Chmod
    <3>2. node'[k] = [node[k] EXCEPT !.readable = ~node[k].readable]
      BY <1>0, <1>3 DEF Chmod
    <3>3. QED
      BY <3>1, <3>2 DEF Node
  <2>4. Valid(k)' => /\ node'[k] # None /\ node'[k].plugged
                     /\ s_evdev'[k].type \in node'[k].kind
    <3>1. s_evdev'[k] = s_evdev[k]
      BY <1>3 DEF Chmod, engine
    <3>2. Valid(k)' => Valid(k)
      BY <3>1 DEF Valid
    <3>3. QED
      BY <2>3, <3>1, <3>2, ValuesAssumption DEF StepInv, Alive
  <2>5. what # "delete"
    OBVIOUS
  <2> HIDE DEF what
  <2>6. QED
    BY <2>1, <2>2, <2>4, <2>5, KernelStep
<1>4. QED
  BY <1>1, <1>2, <1>3 DEF Kernel

(* The steps that leave the notifications alone: what each node has been   *)
(* asked for, and what is open of it.                                      *)
LEMMA EngineStep ==
  ASSUME StepInv, Phase', UNCHANGED <<node, reread>>, Rest' = Rest,
         \A i \in Nodes : Valid(i)' =>
           node[i] # None /\ node[i].plugged /\ s_evdev'[i].type \in node[i].kind,
         ~reread /\ read' # None => /\ Len(read'.l_raw) <= Cap
                                    /\ read'.l_raw = <<>> \/ read'.l_i < Len(read'.l_raw),
         ~reread => \A i \in Nodes : ~Waits(Rest, i) => UpToDate(i)'
  PROVE  StepInv'
<1>1. Alive'
  BY DEF Alive
<1>2. QED
  BY <1>1 DEF StepInv

LEMMA InitializeInStep ==
  ASSUME EvdevInv, EvdevInv', StepInv, NEW mask, Initialize(mask)
  PROVE  StepInv'
<1>1. /\ scan = None /\ read = None /\ read' = None
      /\ scan' = [mask |-> mask, i |-> 0]
      /\ UNCHANGED <<node, notices, s_initialized, reread>>
      /\ \/ mask = KeyboardMask /\ s_initialized = {}
         \/ mask = JoystickMask /\ s_initialized = KeyboardMask
  BY DEF Initialize, Idle
<1>2. scan'.mask = mask /\ scan'.i = 0
  BY <1>1
<1>3. scan' # None
  <2>1. 0 \in Nodes
    BY EvdevAssumption DEF Nodes
  <2>2. scan' \in [mask : SUBSET Types, i : Nodes]
    BY <1>1, <2>1, Masks
  <2>3. QED
    BY <2>2, ValuesAssumption
<1>4. Phase'
  BY <1>1, <1>2, <1>3 DEF StepInv, Phase, Watching
<1>5. Rest' = Rest
  BY <1>1 DEF Rest
<1>6. \A i \in Nodes : s_evdev'[i] = IF s_initialized = {} THEN None ELSE s_evdev[i]
  BY DEF Initialize, Closed
<1>7. \A i \in Nodes : Valid(i)' =>
        node[i] # None /\ node[i].plugged /\ s_evdev'[i].type \in node[i].kind
  BY <1>6 DEF StepInv, Alive, Valid
<1>8. ASSUME ~reread, NEW i \in Nodes, ~Waits(Rest, i)
      PROVE  UpToDate(i)'
  <2>1. Asked(i)' = s_initialized /\ Asked(i) = s_initialized
    <3>1. ~(i < 0)
      BY EvdevAssumption DEF Nodes
    <3>2. QED
      BY <1>1, <1>2, <1>3, <3>1 DEF Asked
  <2>2. CASE s_initialized = {}
    BY <2>1, <2>2, Masks DEF UpToDate
  <2>3. CASE s_initialized = KeyboardMask
    <3>1. UpToDate(i)
      BY <1>8 DEF StepInv
    <3>2. s_evdev'[i] = s_evdev[i]
      BY <1>6, <2>3, Masks
    <3>3. QED
      BY <1>1, <2>1, <3>1, <3>2 DEF UpToDate, Opens, Valid
  <2>4. QED
    BY <1>1, <2>2, <2>3
<1>9. QED
  BY <1>1, <1>4, <1>5, <1>7, <1>8, EngineStep

LEMMA FinalizeInStep ==
  ASSUME EvdevInv, EvdevInv', StepInv, NEW mask, Finalize(mask)
  PROVE  StepInv'
<1> DEFINE S == {i \in Nodes : s_evdev[i] # None /\ s_evdev[i].type \in mask}
<1>1. /\ scan = None /\ read = None /\ scan' = None /\ read' = None
      /\ s_initialized' = s_initialized \ mask
      /\ notices' = IF s_initialized' = {} THEN <<>> ELSE notices
      /\ UNCHANGED <<node, reread>>
      /\ s_evdev' = Closed(S)
      /\ \/ mask = JoystickMask /\ s_initialized = Types
         \/ mask = KeyboardMask /\ s_initialized = KeyboardMask
  BY DEF Finalize, Idle
<1>2. \A i \in Nodes : s_evdev'[i] = IF i \in S THEN None ELSE s_evdev[i]
  BY <1>1 DEF Closed
<1>3. \A i \in Nodes : Valid(i)' =>
        node[i] # None /\ node[i].plugged /\ s_evdev'[i].type \in node[i].kind
  BY <1>2 DEF StepInv, Alive, Valid
<1>4. Rest = notices /\ Rest' = notices'
  <2>1. Rest = notices
    BY <1>1, RestType DEF EvdevInv
  <2>2. Rest' = <<>> \o notices'
    BY <1>1 DEF Rest
  <2>3. notices' \in Seq(Notice)
    BY DEF EvdevInv, TypeOK
  <2>4. QED
    BY <2>1, <2>2, <2>3, ConcatEmptySeq
<1>5. CASE mask = KeyboardMask /\ s_initialized = KeyboardMask
  <2>1. s_initialized' = {} /\ notices' = <<>>
    BY <1>1, <1>5, Masks
  <2>2. Phase'
    BY <1>1, <2>1 DEF Phase, Watching
  <2>3. \A i \in Nodes : UpToDate(i)'
    <3>1. \A i \in Nodes : Asked(i)' = {}
      BY <1>1, <2>1 DEF Asked
    <3>2. QED
      BY <3>1, Masks DEF UpToDate
  <2>4. Alive'
    BY <1>1, <1>3 DEF Alive
  <2>5. QED
    BY <1>1, <1>4, <2>1, <2>2, <2>3, <2>4, WaitsNone DEF StepInv
<1>6. CASE mask = JoystickMask /\ s_initialized = Types
  <2>1. s_initialized' = KeyboardMask /\ notices' = notices
    BY <1>1, <1>6, Masks
  <2>2. Phase'
    BY <1>1, <2>1, Masks DEF Phase, Watching
  <2>3. ASSUME ~reread, NEW i \in Nodes, ~Waits(Rest, i)
        PROVE  UpToDate(i)'
    <3>1. Asked(i)' = KeyboardMask /\ Asked(i) = Types
      BY <1>1, <1>6, <2>1 DEF Asked
    <3>2. SUFFICES ASSUME Opens(i, KeyboardMask)', ~Opens(i, JoystickMask)' PROVE Valid(i)'
      BY <3>1, Masks DEF UpToDate
    <3>3. Opens(i, KeyboardMask) /\ ~Opens(i, JoystickMask)
      BY <1>1, <3>2 DEF Opens
    <3>4. Valid(i)
      BY <2>3, <3>1, <3>3, OpensFacts DEF StepInv, UpToDate
    <3>5. s_evdev[i].type \in node[i].kind
      BY <3>4 DEF StepInv, Alive
    <3>6. s_evdev[i].type \notin JoystickMask
      BY <3>3, <3>5 DEF Opens
    <3>7. i \notin S
      BY <1>6, <3>6
    <3>8. QED
      BY <1>2, <3>4, <3>7 DEF Valid
  <2>4. QED
    BY <1>1, <1>3, <1>4, <2>1, <2>2, <2>3, EngineStep
<1>7. QED
  BY <1>1, <1>5, <1>6

LEMMA ScanInStep ==
  ASSUME EvdevInv, EvdevInv', StepInv, Scan
  PROVE  StepInv'
<1> DEFINE k == scan.i
           mask == scan.mask
<1>1. /\ scan # None /\ scan \in [mask : SUBSET Types, i : Nodes]
      /\ k \in Nodes /\ mask \in SUBSET Types /\ read = None /\ read' = None
      /\ UNCHANGED <<node, notices, reread>>
      /\ \/ s_initialized = {} /\ mask = KeyboardMask
         \/ s_initialized = KeyboardMask /\ mask = JoystickMask
  BY DEF Scan, EvdevInv, TypeOK, StepInv, Phase
<1>2. /\ k + 1 < EVDEV_MAX => /\ scan' = [scan EXCEPT !.i = k + 1]
                              /\ s_initialized' = s_initialized
      /\ ~(k + 1 < EVDEV_MAX) => /\ scan' = None
                                 /\ s_initialized' = s_initialized \cup mask
  BY DEF Scan
<1>3. /\ \A i \in Nodes \ {k} : s_evdev'[i] = s_evdev[i]
      /\ Valid(k) => s_evdev'[k] = s_evdev[k]
      /\ ~Valid(k) /\ Opens(k, mask) => /\ s_evdev'[k] # None /\ s_evdev'[k].valid
                                        /\ node[k] # None /\ node[k].plugged
                                        /\ s_evdev'[k].type \in node[k].kind
      /\ ~Valid(k) /\ ~Opens(k, mask) => s_evdev'[k] = None
  <2>1. CASE Valid(k)
    BY <2>1 DEF Scan
  <2>2. CASE ~Valid(k)
    <3>1. Reopen(k, mask)
      BY <2>2 DEF Scan
    <3>2. k \in Nodes /\ mask \in SUBSET Types
      BY <1>1
    <3> HIDE DEF k, mask
    <3>3. /\ \A j \in Nodes \ {k} : s_evdev'[j] = s_evdev[j]
          /\ Opens(k, mask) => /\ s_evdev'[k] # None /\ s_evdev'[k].valid
                               /\ node[k] # None /\ node[k].plugged
                               /\ s_evdev'[k].type \in node[k].kind
          /\ ~Opens(k, mask) => s_evdev'[k] = None
      BY <3>1, <3>2, ReopenFacts
    <3>4. QED
      BY <2>2, <3>3 DEF Valid
  <2>3. QED
    BY <2>1, <2>2
<1>4. k + 1 < EVDEV_MAX => scan' # None /\ scan'.i = k + 1 /\ scan'.mask = mask
  <2>1. SUFFICES ASSUME k + 1 < EVDEV_MAX
                 PROVE  scan' # None /\ scan'.i = k + 1 /\ scan'.mask = mask
    OBVIOUS
  <2>2. k + 1 \in Nodes
    BY <1>1, <2>1, EvdevAssumption DEF Nodes
  <2>3. /\ scan' \in [mask : SUBSET Types, i : Nodes]
        /\ scan'.i = k + 1 /\ scan'.mask = mask
    BY <1>1, <1>2, <2>1, <2>2
  <2>4. QED
    BY <2>3, ValuesAssumption
<1> HIDE DEF k, mask
<1>5. Phase'
  <2>1. CASE k + 1 < EVDEV_MAX
    BY <1>1, <1>2, <1>4, <2>1 DEF StepInv, Phase, Watching
  <2>2. CASE ~(k + 1 < EVDEV_MAX)
    BY <1>1, <1>2, <2>2, Masks DEF StepInv, Phase, Watching
  <2>3. QED
    BY <2>1, <2>2
<1>6. Rest' = Rest
  BY <1>1 DEF Rest
<1>7. ASSUME NEW i \in Nodes, Valid(i)'
      PROVE  node[i] # None /\ node[i].plugged /\ s_evdev'[i].type \in node[i].kind
  <2>1. CASE s_evdev'[i] = s_evdev[i]
    BY <1>7, <2>1 DEF StepInv, Alive, Valid
  <2>2. CASE s_evdev'[i] # s_evdev[i]
    BY <1>3, <1>7, <2>2 DEF Valid
  <2>3. QED
    BY <2>1, <2>2
<1>8. ASSUME NEW i \in Nodes
      PROVE  /\ i # k => Asked(i)' = Asked(i)
             /\ i = k => Asked(i)' = s_initialized \cup mask /\ Asked(i) = s_initialized
  <2>1. i \in Nat /\ i < EVDEV_MAX /\ k \in Nat /\ EVDEV_MAX \in Nat
    BY <1>1, EvdevAssumption DEF Nodes
  <2>2. Asked(i) = s_initialized \cup IF i < k THEN mask ELSE {}
    BY <1>1 DEF Asked, k, mask
  <2>3. CASE k + 1 < EVDEV_MAX
    <3>1. Asked(i)' = s_initialized \cup IF i < k + 1 THEN mask ELSE {}
      BY <1>2, <1>4, <2>3 DEF Asked
    <3>2. QED
      BY <2>1, <2>2, <3>1
  <2>4. CASE ~(k + 1 < EVDEV_MAX)
    <3>1. Asked(i)' = s_initialized \cup mask
      BY <1>2, <2>4 DEF Asked
    <3>2. i = k \/ i < k
      BY <2>1, <2>4
    <3>3. QED
      BY <2>1, <2>2, <3>1, <3>2
  <2>5. QED
    BY <2>3, <2>4
<1>9. ASSUME ~reread, NEW i \in Nodes, ~Waits(Rest, i)
      PROVE  UpToDate(i)'
  <2>1. UpToDate(i)
    BY <1>9 DEF StepInv
  <2>2. \A m : Opens(i, m)' = Opens(i, m)
    BY <1>1 DEF Opens
  <2>3. CASE i # k
    <3>1. s_evdev'[i] = s_evdev[i] /\ Asked(i)' = Asked(i)
      BY <1>3, <1>8, <2>3
    <3>2. QED
      BY <2>1, <2>2, <3>1 DEF UpToDate, Valid
  <2>4. CASE i = k
    <3>1. Asked(i)' = s_initialized \cup mask /\ Asked(i) = s_initialized
      BY <1>8, <2>4
    <3>2. CASE Valid(i)'
      BY <3>2 DEF UpToDate
    <3>3. CASE ~Valid(i)'
      <4>1. ~Valid(i) /\ ~Opens(i, mask) /\ s_evdev'[i] = None
        <5>1. ~(s_evdev'[k] # None /\ s_evdev'[k].valid)
          BY <2>4, <3>3 DEF Valid
        <5>2. ~Valid(k)
          BY <1>3, <5>1 DEF Valid
        <5>3. QED
          BY <1>3, <2>4, <5>1, <5>2
      <4>2. CASE s_initialized = {} /\ mask = KeyboardMask
        <5>1. Asked(i)' = KeyboardMask /\ ~Opens(i, KeyboardMask)'
          BY <2>2, <3>1, <4>1, <4>2, Masks
        <5>2. QED
          BY <5>1, Masks DEF UpToDate
      <4>3. CASE s_initialized = KeyboardMask /\ mask = JoystickMask
        <5>1. Asked(i)' = Types /\ Asked(i) = KeyboardMask
          BY <3>1, <4>3, Masks
        <5>2. ~Opens(i, Types)
          BY <2>1, <4>1, <4>3, <5>1, OpensFacts DEF UpToDate
        <5>3. QED
          BY <2>2, <4>1, <5>1, <5>2, Masks DEF UpToDate
      <4>4. QED
        BY <1>1, <4>2, <4>3 DEF mask
    <3>4. QED
      BY <3>2, <3>3
  <2>5. QED
    BY <2>3, <2>4
<1>10. QED
  BY <1>1, <1>5, <1>6, <1>7, <1>9, EngineStep

LEMMA TickInStep ==
  ASSUME EvdevInv, EvdevInv', StepInv, Tick
  PROVE  StepInv'
<1>1. /\ scan = None /\ read = None /\ s_initialized = Types
      /\ read' = [l_raw |-> <<>>, l_i |-> 0]
      /\ UNCHANGED <<node, notices, s_evdev, s_initialized, scan, reread>>
  BY DEF Tick, Idle, engine
<1>2. read'.l_raw = <<>> /\ Len(read'.l_raw) <= Cap
  BY <1>1, EvdevAssumption
<1>3. Phase'
  BY <1>1 DEF StepInv, Phase, Watching
<1>4. Rest' = Rest
  BY <1>1, <1>2 DEF Rest
<1>5. \A i \in Nodes : Valid(i)' =>
        node[i] # None /\ node[i].plugged /\ s_evdev'[i].type \in node[i].kind
  BY <1>1 DEF StepInv, Alive, Valid
<1>6. ~reread => \A i \in Nodes : ~Waits(Rest, i) => UpToDate(i)'
  BY <1>1 DEF StepInv, UpToDate, Asked, Opens, Valid
<1>7. QED
  BY <1>1, <1>2, <1>3, <1>4, <1>5, <1>6, EngineStep

LEMMA EndTickInStep ==
  ASSUME EvdevInv, EvdevInv', StepInv, EndTick
  PROVE  StepInv'
<1>1. /\ read # None /\ read.l_raw = <<>> /\ notices = <<>> /\ read' = None
      /\ UNCHANGED <<node, notices, s_evdev, s_initialized, scan, reread>>
  BY DEF EndTick, Fetching, engine
<1>2. Phase'
  BY <1>1 DEF StepInv, Phase, Watching
<1>3. Rest' = Rest
  BY <1>1 DEF Rest
<1>4. \A i \in Nodes : Valid(i)' =>
        node[i] # None /\ node[i].plugged /\ s_evdev'[i].type \in node[i].kind
  BY <1>1 DEF StepInv, Alive, Valid
<1>5. ~reread => \A i \in Nodes : ~Waits(Rest, i) => UpToDate(i)'
  BY <1>1 DEF StepInv, UpToDate, Asked, Opens, Valid
<1>6. QED
  BY <1>1, <1>2, <1>3, <1>4, <1>5, EngineStep

LEMMA FetchInStep ==
  ASSUME EvdevInv, EvdevInv', StepInv, Fetch
  PROVE  StepInv'
<1>1. /\ read # None
      /\ UNCHANGED <<node, s_evdev, s_initialized, scan>>
  BY DEF Fetch, Fetching, engine
<1>2. Phase'
  <2>1. scan = None /\ s_initialized = Types
    BY <1>1 DEF StepInv, Phase
  <2>2. QED
    BY <1>1, <2>1, Masks DEF Phase, Watching
<1>3. Alive'
  BY <1>1 DEF StepInv, Alive, Valid
<1>4. ASSUME ~reread'
      PROVE  /\ read' # None => /\ Len(read'.l_raw) <= Cap
                                /\ read'.l_raw = <<>> \/ read'.l_i < Len(read'.l_raw)
             /\ \A i \in Nodes : Left(Rest', i) => node'[i] = None
             /\ \A i \in Nodes : ~Waits(Rest', i) => UpToDate(i)'
  <2>1. ~reread
    BY <1>4, Zenon DEF Fetch
  <2>2. /\ Rest' = Rest
        /\ read' # None /\ Len(read'.l_raw) <= Cap /\ read'.l_i < Len(read'.l_raw)
    BY <1>4, RestFetch DEF EvdevInv
  <2>3. QED
    BY <1>1, <2>1, <2>2 DEF StepInv, UpToDate, Asked, Opens, Valid
<1>5. QED
  BY <1>2, <1>3, <1>4 DEF StepInv

(* What one notification leaves in the slots: nothing of a node that was   *)
(* deleted, and of any other what can be opened, and only if it is valid.  *)
LEMMA HandledFacts ==
  ASSUME EvdevInv, Alive, NEW n \in Notice, Handled(n)
  PROVE  /\ n.node \in Nodes
         /\ \A j \in Nodes \ {n.node} : s_evdev'[j] = s_evdev[j]
         /\ n.what = "delete" => s_evdev'[n.node] = None
         /\ n.what # "delete" =>
              /\ Opens(n.node, s_initialized) => s_evdev'[n.node] # None
              /\ s_evdev'[n.node] # None => s_evdev'[n.node].valid
         /\ s_evdev'[n.node] # None =>
              /\ node[n.node] # None /\ node[n.node].plugged
              /\ s_evdev'[n.node].type \in node[n.node].kind
<1>1. n.node \in Nodes /\ s_initialized \in SUBSET Types
  BY DEF Notice, EvdevInv, TypeOK
<1>2. CASE n.what = "delete"
  <2>1. s_evdev' = Closed({n.node})
    BY <1>2 DEF Handled
  <2>2. QED
    BY <1>1, <1>2, <2>1 DEF Closed
<1>3. CASE n.what # "delete" /\ Reopen(n.node, s_initialized)
  <2> DEFINE k == n.node
  <2>1. k \in Nodes /\ Reopen(k, s_initialized)
    BY <1>1, <1>3
  <2> HIDE DEF k
  <2>2. /\ \A j \in Nodes \ {k} : s_evdev'[j] = s_evdev[j]
        /\ Opens(k, s_initialized) => /\ s_evdev'[k] # None /\ s_evdev'[k].valid
                                      /\ node[k] # None /\ node[k].plugged
                                      /\ s_evdev'[k].type \in node[k].kind
        /\ ~Opens(k, s_initialized) => s_evdev'[k] = None
    BY <1>1, <2>1, ReopenFacts
  <2>3. QED
    BY <1>1, <1>3, <2>2 DEF k
<1>4. CASE n.what # "delete" /\ Valid(n.node) /\ UNCHANGED <<s_evdev, s_evdev_ports>>
  BY <1>1, <1>4 DEF Alive, Valid
<1>5. QED
  BY <1>2, <1>3, <1>4 DEF Handled

LEMMA ProcessInStep ==
  ASSUME EvdevInv, EvdevInv', StepInv, NEW n, Process(n)
  PROVE  StepInv'
<1>1. /\ read # None /\ read.l_raw # <<>> /\ scan = None /\ s_initialized = Types
      /\ UNCHANGED <<node, notices, s_initialized, scan, reread>>
  BY DEF Process, Fetching, StepInv, Phase
<1>2. Phase'
  BY <1>1, Masks DEF Phase, Watching
<1>3. Alive'
  <2>1. SUFFICES ASSUME NEW i \in Nodes, Valid(i)'
                 PROVE  node[i] # None /\ node[i].plugged /\ s_evdev'[i].type \in node[i].kind
    BY <1>1 DEF Alive
  <2>2. CASE s_evdev'[i] = s_evdev[i]
    BY <2>1, <2>2 DEF StepInv, Alive, Valid
  <2>3. CASE s_evdev'[i] # s_evdev[i]
    <3>1. n # Junk /\ n \in Notice /\ Handled(n)
      <4>1. n # Junk
        BY <2>3 DEF Process
      <4>2. read.l_raw \in Seq(Notice) /\ read.l_i \in Nat
        BY <1>1, EvdevAssumption DEF EvdevInv, TypeOK, Read
      <4>3. n \in Notice
        BY <4>1, <4>2 DEF Process, Taken
      <4>4. QED
        BY <4>1, <4>3 DEF Process
    <3>2. i = n.node /\ s_evdev'[i] # None
      BY <2>1, <2>3, <3>1, HandledFacts DEF StepInv, Valid
    <3>3. QED
      BY <3>1, <3>2, HandledFacts DEF StepInv
  <2>4. QED
    BY <2>2, <2>3
<1>4. ASSUME ~reread
      PROVE  /\ read' # None => /\ Len(read'.l_raw) <= Cap
                                /\ read'.l_raw = <<>> \/ read'.l_i < Len(read'.l_raw)
             /\ \A i \in Nodes : Left(Rest', i) => node'[i] = None
             /\ \A i \in Nodes : ~Waits(Rest', i) => UpToDate(i)'
  <2>1. read.l_i < Len(read.l_raw) /\ Len(read.l_raw) <= Cap
    BY <1>1, <1>4 DEF StepInv
  <2>2. /\ n \in Notice /\ Handled(n)
        /\ Rest \in Seq(Notice) /\ Rest # <<>>
        /\ n = Head(Rest) /\ Rest' = Tail(Rest)
        /\ Len(read'.l_raw) <= Cap
        /\ read'.l_raw = <<>> \/ read'.l_i < Len(read'.l_raw)
    BY <2>1, RestProcess DEF EvdevInv
  <2>3. ASSUME NEW i \in Nodes, Left(Rest', i) PROVE node'[i] = None
    <3>1. Left(Rest, i)
      BY <2>2, <2>3, WaitsTail
    <3>2. QED
      BY <1>1, <1>4, <3>1 DEF StepInv
  <2>4. ASSUME NEW i \in Nodes, ~Waits(Rest', i) PROVE UpToDate(i)'
    <3>1. Asked(i) = Types /\ Asked(i)' = Types
      BY <1>1 DEF Asked
    <3>2. CASE n.node # i
      <4>1. ~Waits(Rest, i)
        BY <2>2, <2>4, <3>2, WaitsTail
      <4>2. UpToDate(i) /\ s_evdev'[i] = s_evdev[i]
        BY <1>4, <2>2, <3>2, <4>1, HandledFacts DEF StepInv
      <4>3. QED
        BY <1>1, <3>1, <4>2 DEF UpToDate, Opens, Valid
    <3>3. CASE n.node = i /\ n.what = "delete"
      <4>1. Left(Rest, i)
        BY <2>2, <2>4, <3>3, WaitsTail
      <4>2. node[i] = None
        BY <1>4, <4>1 DEF StepInv
      <4>3. s_evdev'[i] = None
        BY <2>2, <3>3, HandledFacts DEF StepInv
      <4>4. QED
        BY <1>1, <3>1, <4>2, <4>3, Masks DEF UpToDate, Opens
    <3>4. CASE n.node = i /\ n.what # "delete"
      <4>1. /\ Opens(i, Types) => s_evdev'[i] # None
            /\ s_evdev'[i] # None => s_evdev'[i].valid
        BY <1>1, <2>2, <3>4, HandledFacts DEF StepInv
      <4>2. QED
        BY <1>1, <3>1, <4>1, Masks DEF UpToDate, Opens, Valid
    <3>5. QED
      BY <3>2, <3>3, <3>4
  <2>5. QED
    BY <2>2, <2>3, <2>4
<1>5. QED
  BY <1>1, <1>2, <1>3, <1>4 DEF StepInv

LEMMA StepStep == EvdevInv /\ EvdevInv' /\ StepInv /\ [Next]_vars => StepInv'
<1>1. SUFFICES ASSUME EvdevInv, EvdevInv', StepInv, [Next]_vars PROVE StepInv'
  OBVIOUS
<1>2. CASE Kernel
  BY <1>1, <1>2, KernelInStep
<1>3. ASSUME NEW mask \in {KeyboardMask, JoystickMask},
             Initialize(mask) \/ Finalize(mask)
      PROVE  StepInv'
  BY <1>1, <1>3, InitializeInStep, FinalizeInStep
<1>4. CASE Scan \/ Tick
  BY <1>1, <1>4, ScanInStep, TickInStep
<1>5. CASE Reading
  BY <1>1, <1>5, FetchInStep, EndTickInStep, ProcessInStep DEF Reading
<1>6. CASE UNCHANGED vars
  BY <1>1, <1>6 DEF vars, engine, StepInv, Phase, Watching, Alive, Valid, Rest,
                    UpToDate, Asked, Opens
<1>7. QED
  BY <1>1, <1>2, <1>3, <1>4, <1>5, <1>6 DEF Next

LEMMA UpToDateWhenIdle == EvdevInv /\ StepInv => InStep
<1>1. SUFFICES ASSUME EvdevInv, StepInv, Idle, notices = <<>>, s_initialized = Types,
                      ~reread, NEW i \in Nodes
               PROVE  /\ Opens(i, Types) => Valid(i)
                      /\ s_evdev[i] # None => Valid(i)
  BY DEF InStep
<1>2. Rest = <<>>
  BY <1>1, RestType DEF EvdevInv, Idle
<1>3. UpToDate(i)
  BY <1>1, <1>2, WaitsNone DEF StepInv
<1>4. Asked(i) = Types
  BY <1>1 DEF Asked, Idle
<1>5. QED
  BY <1>3, <1>4 DEF UpToDate

(* Between two ticks, with every notification handled and no second buffer *)
(* read in one tick, the engine has open exactly what can be opened,       *)
(* however the nodes came, went and changed while it scanned and read.     *)
THEOREM DevicesInStep == Spec => []InStep
<1>1. Init => EvdevInv /\ StepInv
  BY InitInv, StepInit
<1>2. (EvdevInv /\ StepInv) /\ [Next]_vars => (EvdevInv /\ StepInv)'
  BY NextInv, StepStep
<1>3. Spec => [](EvdevInv /\ StepInv)
  BY <1>1, <1>2, PTL DEF Spec
<1>4. QED
  BY <1>3, UpToDateWhenIdle, PTL
=============================================================================
