-------------------------------- MODULE Evdev --------------------------------
(***************************************************************************)
(* Input::Linux::EVDEV: the event devices of /dev/input, opened by a scan  *)
(* of all the nodes at initialization and later as inotify notifies of     *)
(* nodes that come, go and change.  The kernel and udev act between any    *)
(* two system calls of the engine.  The calls of the engine are those of   *)
(* Game::InputEngineFeature: the keyboards first, the joysticks next, and  *)
(* finalized the other way round.                                          *)
(***************************************************************************)
EXTENDS Integers, Sequences, FiniteSetsExt

CONSTANTS
  EVDEV_MAX,     (* the nodes event0, event1...                            *)
  EVDEV_ID_MAX,  (* the ports of each class of devices                     *)
  Kinds,         (* the devices in use: a set of types each                *)
  Cap,           (* the notifications that fit in l_raw                    *)
  None,          (* no node, no device, no scan, no read                   *)
  Junk,          (* bytes that are no notification of a node               *)
  MaxNotices     (* bound: notifications waiting in the kernel             *)

Types == {"Keyboard", "Gamepad", "Joystick"}   (* a mouse is never asked for *)
KeyboardMask == {"Keyboard"}
JoystickMask == {"Gamepad", "Joystick"}
Nodes == 0..EVDEV_MAX - 1
Ids == 0..EVDEV_ID_MAX - 1

ASSUME EvdevAssumption ==
  /\ EVDEV_MAX \in Nat \ {0}
  /\ EVDEV_ID_MAX \in Nat \ {0}
  /\ Kinds \subseteq SUBSET Types
  /\ Cap \in Nat \ {0}
  /\ MaxNotices \in Nat

VARIABLES
  node,           (* what the kernel has at each node                      *)
  notices,        (* the notifications to be read                          *)
  s_evdev,        (* the open device of each node                          *)
  s_evdev_ports,  (* the ports in use, by class                            *)
  s_initialized,  (* the types asked for                                   *)
  scan,           (* the loop of Initialize in progress, or None           *)
  read,           (* the ProcessNotificationEvents in progress, or None    *)
  reread          (* ghost: a second buffer was read in one call of it     *)

engine == <<s_evdev, s_evdev_ports, s_initialized, scan>>
vars == <<node, notices, engine, read, reread>>

(* A node may outlive its hardware, and be unreadable until udev has set   *)
(* its attributes.                                                         *)
Node == [kind : Kinds, plugged : BOOLEAN, readable : BOOLEAN]
Notice == [node : Nodes, what : {"create", "delete", "attrib"}]

(* An EventDevice; valid is what isValid() finds out. *)
Device == [id : Ids, type : Types, valid : BOOLEAN]

(* What the last read() put in l_raw, none between two rounds of the outer *)
(* loop, and l_i: both in notifications.  What earlier reads left behind   *)
(* l_raw[l_c] is not kept: l_i has gone past all of it.                    *)
Read == [l_raw : Seq(Notice), l_i : 0..Cap]

(* What stands for nothing, and for junk, is no value of these. *)
ASSUME ValuesAssumption ==
  /\ None \notin Node /\ None \notin Device /\ None \notin Read
  /\ None \notin [mask : SUBSET Types, i : Nodes]
  /\ Junk \notin Notice

Class(type) == IF type = "Keyboard" THEN "keyboards" ELSE "joysticks"
Classes == {"keyboards", "joysticks"}

TypeOK ==
  /\ node \in [Nodes -> Node \cup {None}]
  /\ notices \in Seq(Notice)
  /\ s_evdev \in [Nodes -> Device \cup {None}]
  /\ s_evdev_ports \in [Classes -> SUBSET Ids]
  /\ s_initialized \in SUBSET Types
  /\ scan \in [mask : SUBSET Types, i : Nodes] \cup {None}
  /\ read \in Read \cup {None}
  /\ reread \in BOOLEAN

Init ==
  /\ node \in [Nodes -> [kind : Kinds, plugged : {TRUE}, readable : {TRUE}] \cup {None}]
  /\ notices = <<>>
  /\ s_evdev = [i \in Nodes |-> None]
  /\ s_evdev_ports = [c \in Classes |-> {}]
  /\ s_initialized = {}
  /\ scan = None
  /\ read = None
  /\ reread = FALSE

-----------------------------------------------------------------------------
(***************************************************************************)
(* The kernel and udev.  Notifications are kept while the engine watches.  *)
(***************************************************************************)
Watching == s_initialized # {} \/ scan # None

Notify(i, what) ==
  /\ Len(notices) < MaxNotices
  /\ notices' = IF Watching THEN Append(notices, [node |-> i, what |-> what])
                            ELSE notices

(* A new node, or new hardware at a node that was left. *)
Plug(i, kind, readable) ==
  /\ node[i] # None => ~node[i].plugged
  /\ node' = [node EXCEPT ![i] =
                [kind |-> kind, plugged |-> TRUE, readable |-> readable]]
  /\ Notify(i, IF node[i] = None THEN "create" ELSE "attrib")
  /\ UNCHANGED <<engine, read, reread>>

(* The node goes too, or stays with its attributes changed. *)
Unplug(i, stays) ==
  /\ node[i] # None
  /\ node[i].plugged
  /\ node' = [node EXCEPT ![i] = IF stays THEN [@ EXCEPT !.plugged = FALSE] ELSE None]
  /\ Notify(i, IF stays THEN "attrib" ELSE "delete")
  /\ s_evdev' = [s_evdev EXCEPT ![i] =
                   IF @ = None THEN None ELSE [@ EXCEPT !.valid = FALSE]]
  /\ UNCHANGED <<s_evdev_ports, s_initialized, scan, read, reread>>

Chmod(i) ==
  /\ node[i] # None
  /\ node' = [node EXCEPT ![i].readable = ~@]
  /\ Notify(i, "attrib")
  /\ UNCHANGED <<engine, read, reread>>

-----------------------------------------------------------------------------
(***************************************************************************)
(* EventDevice::Open and its constructor, and the destructor               *)
(***************************************************************************)
Opens(i, mask) ==
  /\ node[i] # None
  /\ node[i].plugged /\ node[i].readable
  /\ node[i].kind \cap mask # {}

Detected(kind, mask) ==
  CASE "Keyboard" \in kind \cap mask -> "Keyboard"
    [] "Gamepad" \in kind \cap mask  -> "Gamepad"
    [] OTHER                         -> "Joystick"

(* The first free port, or 0 if there is none. *)
FreePort(used) == IF Ids \subseteq used THEN 0 ELSE Min(Ids \ used)

(* Mistake: the port is not marked. *)
Reopen_Unmarked(i, mask) ==
  LET type == Detected(node[i].kind, mask)
      port == FreePort(s_evdev_ports[Class(type)])
  IN  IF Opens(i, mask)
      THEN /\ s_evdev' = [s_evdev EXCEPT ![i] =
                            [id |-> port, type |-> type, valid |-> TRUE]]
           /\ UNCHANGED s_evdev_ports
      ELSE /\ s_evdev' = [s_evdev EXCEPT ![i] = None]
           /\ UNCHANGED s_evdev_ports

(* The slot of the node gets a new device, or none.  The destructor gives  *)
(* no port back, as close() has set m_type to Unknown by then.             *)
Reopen(i, mask) ==
  LET type == Detected(node[i].kind, mask)
      port == FreePort(s_evdev_ports[Class(type)])
  IN  IF Opens(i, mask)
      THEN /\ s_evdev' = [s_evdev EXCEPT ![i] =
                            [id |-> port, type |-> type, valid |-> TRUE]]
           /\ s_evdev_ports' = [s_evdev_ports EXCEPT ![Class(type)] = @ \cup {port}]
      ELSE /\ s_evdev' = [s_evdev EXCEPT ![i] = None]
           /\ UNCHANGED s_evdev_ports

Closed(S) == [i \in Nodes |-> IF i \in S THEN None ELSE s_evdev[i]]

Valid(i) == s_evdev[i] # None /\ s_evdev[i].valid

-----------------------------------------------------------------------------
(***************************************************************************)
(* Initialize and Finalize                                                 *)
(***************************************************************************)
Idle == scan = None /\ read = None

(* The watch begins before the scan; inotify is there. *)
Initialize(mask) ==
  /\ Idle
  /\ \/ mask = KeyboardMask /\ s_initialized = {}
     \/ mask = JoystickMask /\ s_initialized = KeyboardMask
  /\ s_evdev' = IF s_initialized = {} THEN Closed(Nodes) ELSE s_evdev
  /\ scan' = [mask |-> mask, i |-> 0]
  /\ UNCHANGED <<node, notices, s_evdev_ports, s_initialized, read, reread>>

(* One node of the scan.  A device that is not valid is overwritten. *)
Scan ==
  /\ scan # None
  /\ IF Valid(scan.i) THEN UNCHANGED <<s_evdev, s_evdev_ports>>
                      ELSE Reopen(scan.i, scan.mask)
  /\ IF scan.i + 1 < EVDEV_MAX
     THEN /\ scan' = [scan EXCEPT !.i = @ + 1]
          /\ UNCHANGED s_initialized
     ELSE /\ scan' = None
          /\ s_initialized' = s_initialized \cup scan.mask
  /\ UNCHANGED <<node, notices, read, reread>>

Finalize(mask) ==
  /\ Idle
  /\ \/ mask = JoystickMask /\ s_initialized = Types
     \/ mask = KeyboardMask /\ s_initialized = KeyboardMask
  /\ s_evdev' = Closed({i \in Nodes : s_evdev[i] # None /\ s_evdev[i].type \in mask})
  /\ s_initialized' = s_initialized \ mask
  /\ notices' = IF s_initialized' = {} THEN <<>> ELSE notices
  /\ UNCHANGED <<node, s_evdev_ports, scan, read, reread>>

-----------------------------------------------------------------------------
(***************************************************************************)
(* Tick: ProcessNotificationEvents (what the devices report is elsewhere)  *)
(***************************************************************************)
Tick ==
  /\ Idle
  /\ s_initialized = Types
  /\ read' = [l_raw |-> <<>>, l_i |-> 0]
  /\ UNCHANGED <<node, notices, engine, reread>>

Fetching == read # None /\ read.l_raw = <<>>

(* What fits of the notifications is read over the last buffer; l_i stays. *)
Fetch ==
  /\ Fetching
  /\ notices # <<>>
  /\ LET l_c == Min({Cap, Len(notices)})
     IN  /\ read' = [read EXCEPT !.l_raw = SubSeq(notices, 1, l_c)]
         /\ notices' = SubSeq(notices, l_c + 1, Len(notices))
  /\ reread' = (reread \/ read.l_i > 0)
  /\ UNCHANGED <<node, engine>>

EndTick ==
  /\ Fetching
  /\ notices = <<>>
  /\ read' = None
  /\ UNCHANGED <<node, notices, engine, reread>>

(* Mistake: a device that is there is taken for valid. *)
Handled_KeepInvalid(n) ==
  CASE n.what = "create" -> Reopen(n.node, s_initialized)
    [] n.what = "delete" -> s_evdev' = Closed({n.node}) /\ UNCHANGED s_evdev_ports
    [] OTHER ->
         IF s_evdev[n.node] # None THEN UNCHANGED <<s_evdev, s_evdev_ports>>
                                   ELSE Reopen(n.node, s_initialized)

Handled(n) ==
  CASE n.what = "create" -> Reopen(n.node, s_initialized)
    [] n.what = "delete" -> s_evdev' = Closed({n.node}) /\ UNCHANGED s_evdev_ports
    [] OTHER ->
         IF Valid(n.node) THEN UNCHANGED <<s_evdev, s_evdev_ports>>
                          ELSE Reopen(n.node, s_initialized)

(* The notification that the inner loop takes for the one at l_i: beyond   *)
(* what was read, whatever is there.                                       *)
Taken == IF read.l_i < Len(read.l_raw) THEN {read.l_raw[read.l_i + 1]}
                                       ELSE Notice \cup {Junk}

(* One pass of the inner loop.  The length of junk is any length.          *)
Process(n) ==
  /\ read # None /\ ~Fetching
  /\ n \in Taken
  /\ IF n = Junk THEN UNCHANGED <<s_evdev, s_evdev_ports>> ELSE Handled(n)
  /\ \E l_i \in read.l_i + 1..IF n = Junk THEN Cap + 1 ELSE read.l_i + 1 :
       read' = [l_raw |-> IF l_i < Len(read.l_raw) THEN read.l_raw ELSE <<>>,
                l_i   |-> Min({l_i, Cap})]
  /\ UNCHANGED <<node, notices, s_initialized, scan, reread>>

Kernel ==
  \/ \E i \in Nodes, k \in Kinds, b \in BOOLEAN : Plug(i, k, b)
  \/ \E i \in Nodes, b \in BOOLEAN : Unplug(i, b)
  \/ \E i \in Nodes : Chmod(i)

Reading == Fetch \/ EndTick \/ \E n \in Notice \cup {Junk} : Process(n)

Next ==
  \/ Kernel
  \/ \E mask \in {KeyboardMask, JoystickMask} : Initialize(mask) \/ Finalize(mask)
  \/ Scan
  \/ Tick
  \/ Reading

Spec == Init /\ [][Next]_vars

-----------------------------------------------------------------------------
(* Two open devices of a class have different ports (the id that their     *)
(* events carry tells the players apart), until the ports have run out,    *)
(* whatever comes and goes while the engine scans and reads.               *)
DistinctPorts ==
  \A i, j \in Nodes :
    (/\ i # j /\ s_evdev[i] # None /\ s_evdev[j] # None
     /\ Class(s_evdev[i].type) = Class(s_evdev[j].type)
     /\ s_evdev[i].id = s_evdev[j].id)
      => s_evdev_ports[Class(s_evdev[i].type)] = Ids

(* Between two ticks, with no notification waiting, the engine has open    *)
(* what can be opened, and nothing that is gone: neither the order of scan *)
(* and notifications nor a node that is used again leaves it behind, as    *)
(* long as no tick has to read a second buffer.                            *)
InStep ==
  (Idle /\ notices = <<>> /\ s_initialized = Types /\ ~reread) =>
    \A i \in Nodes : /\ Opens(i, Types) => Valid(i)
                     /\ s_evdev[i] # None => Valid(i)

=============================================================================
