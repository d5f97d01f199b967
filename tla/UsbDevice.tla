------------------------------ MODULE UsbDevice ------------------------------
(***************************************************************************)
(* How the upgrader finds its module on the USB bus and opens it           *)
(* (usb_linux.c, and the loop at __edl_retry of qfirehose.c).  The module  *)
(* disconnects when it is told to switch to emergency download mode; with  *)
(* USB 3 it comes back at another place of the bus, among others like it.  *)
(***************************************************************************)
EXTENDS Integers, FiniteSets

CONSTANTS Attempts,   \* edl_retry
          Delay,      \* bound: seconds (turns of the loop) a module is away
          Neighbours, \* what may be in the other socket when the upgrader starts
          BusFaultSets   \* what may go wrong, a set of faults for each behaviour

\* busy: a device cannot be opened or claimed; deaf: the switch is not obeyed;
\* gone: the module is away when the upgrader starts, or does not come back;
\* switch: somebody else switches the neighbour to download mode.
BusFaults == {"busy", "deaf", "gone", "switch"}

Products == {"app", "laptop", "edl", "asr", "foreign"}
NoDevice == [who |-> 0, product |-> "none"]

ASSUME UsbDeviceAssumption ==
    /\ Attempts \in Nat \ {0} /\ Delay \in Nat \ {0}
    /\ Neighbours \subseteq Products \cup {"none"}
    /\ BusFaultSets \subseteq SUBSET BusFaults

\* The place a module is plugged in at, and the USB 3 place of the same socket.
Home(m) == <<m, "home">>
Moved(m) == <<m, "moved">>
Ports == {Home(1), Home(2), Moved(1), Moved(2)}

VARIABLES
    troubles,
    bus, super,        \* /sys/bus/usb/devices; the modules run at USB 3 speed
    away, secs,        \* what a module restarts as; seconds since one was told to
    how,               \* options: -s path, -p port, or neither
    pc, attempts,      \* the upgrader's place; edl_retry
    path,              \* module_sys_path
    usb3, fresh,       \* usb3_speed >= 5000; what came to the bus after usb3_atime
    handle, iface,     \* what is open: a tty or the device; usb_dm_interface
    chosen, opened     \* ghosts: the module asked for, the one last opened

env  == <<troubles, super>>
world == <<bus, away>>
search == <<path, usb3, fresh>>
devvars == <<handle, iface, opened>>
svars == <<env, world, secs, how, pc, attempts, search, devvars, chosen>>

-----------------------------------------------------------------------------
\* auto_find_quectel_modules: the products it knows; ASR and HISI are skipped.
IsModule(d) == d.product \in {"app", "laptop", "edl"}

Modules == {p \in Ports : IsModule(bus[p])}

\* Mutant: the time is not looked at.
NewEdlAnyTime == {p \in Ports : bus[p].product = "edl"}

\* With a product and a time: those in download mode that came after it.
NewEdl == {p \in fresh : bus[p].product = "edl"}

\* Mutant: the interface is only set for the products that have a special one.
InterfaceKept(product) == IF product = "laptop" THEN 3 ELSE iface

\* quectel_get_usb_device_info: the interface the upgrade uses.
Interface(product) == IF product = "laptop" THEN 3 ELSE 0

\* In normal mode the interface has a tty when the kernel has a driver for it.
Ways(product) == IF product = "edl" THEN {"usbfs"} ELSE {"usbfs", "tty"}

At(m, p) == [who |-> m, product |-> p]

SearchInit ==
    /\ troubles \in BusFaultSets /\ super \in BOOLEAN
    /\ \E p1 \in {"app", "laptop", "edl"}, p2 \in Neighbours :
          bus = [p \in Ports |->
              CASE p = Home(1) -> At(1, p1)
                [] p = Home(2) /\ p2 # "none" -> At(2, p2)
                [] OTHER -> NoDevice]
    /\ away = [m \in {1, 2} |-> "no"] /\ secs = 0
    /\ how \in {"path", "port", "otherPort", "auto"}
    /\ pc = "resolve" /\ attempts = Attempts
    /\ path = Home(1) /\ usb3 = FALSE /\ fresh = {}
    /\ handle = "none" /\ iface = 0
    /\ chosen = 1 /\ opened = 0

-----------------------------------------------------------------------------
(* The upgrader.                                                           *)

MainUnchanged == UNCHANGED <<env, bus, how>>

\* -s, or the place that the tty of -p, the one the upgrade uses, hangs on.
ResolveGiven ==
    /\ pc = "resolve" /\ how \in {"path", "port"}
    /\ IF bus[Home(1)] # NoDevice /\ (how = "port" => bus[Home(1)].product # "edl")
       THEN path' = Home(1) /\ chosen' = 1 /\ pc' = "speed"
       ELSE pc' = "failed" /\ UNCHANGED <<path, chosen>>
    /\ UNCHANGED <<away, secs, attempts, usb3, fresh, devvars>> /\ MainUnchanged

\* Neither of them, or another tty of a module: the only module there is.
ResolveAuto ==
    /\ pc = "resolve" /\ how \in {"auto", "otherPort"}
    /\ LET found == Modules
       IN  IF Cardinality(found) = 1
           THEN path' \in found /\ chosen' = bus[path'].who /\ pc' = "speed"
           ELSE pc' = "failed" /\ UNCHANGED <<path, chosen>>
    /\ UNCHANGED <<away, secs, attempts, usb3, fresh, devvars>> /\ MainUnchanged

\* qusb_read_speed_atime; what came after the module, before the upgrader was
\* started, is its choice.  When the module is gone the two variables keep what
\* the stack happens to hold.
ReadSpeed ==
    /\ pc = "speed"
    /\ usb3' \in IF bus[path] # NoDevice THEN {super} ELSE BOOLEAN
    /\ fresh' \in SUBSET {p \in Ports : bus[p] # NoDevice}
    /\ pc' = "open"
    /\ UNCHANGED <<away, secs, attempts, path, devvars, chosen>> /\ MainUnchanged

Turn == pc = "open" /\ attempts > 0 /\ attempts' = attempts - 1

\* A reboot that has been asked for takes no longer than Delay.
InTime == secs < Delay \/ "gone" \in troubles \/ \A m \in {1, 2} : away[m] = "no"
Second == secs' = IF secs < Delay THEN secs + 1 ELSE secs

\* qusb_noblock_open succeeds, and usb3_atime is now.  One interface is download
\* mode; a module with more is told to switch, and closed.
OpenDevice ==
    /\ Turn /\ bus[path].product \in {"app", "laptop", "edl"}
    /\ LET d == bus[path]
       IN  /\ iface' = Interface(d.product)
           /\ opened' = d.who
           /\ fresh' = {}
           /\ IF d.product = "edl"
              THEN handle' \in Ways(d.product) /\ pc' = "opened" /\ UNCHANGED <<away, secs>>
              ELSE /\ handle' = "none" /\ pc' = "open"
                   /\ \/ away[d.who] = "no" /\ secs' = 0
                         /\ away' = [away EXCEPT ![d.who] = "edl"]
                      \/ away[d.who] # "no" /\ InTime /\ Second /\ away' = away
                      \/ "deaf" \in troubles /\ UNCHANGED <<away, secs>>
    /\ UNCHANGED <<path, usb3, chosen>> /\ MainUnchanged

\* Mutant: the time is taken anew with every turn.
OpenFailsAnew ==
    /\ Turn
    /\ bus[path] = NoDevice \/ "busy" \in troubles
    /\ InTime /\ Second
    /\ handle' = "none" /\ iface' = iface
    /\ pc' = "rescan"
    /\ fresh' = {}
    /\ UNCHANGED <<away, path, usb3, chosen, opened>> /\ MainUnchanged

\* There is no device, it is not ready, or a driver claims it.  Then a second
\* passes.
OpenFails ==
    /\ Turn
    /\ bus[path] = NoDevice \/ "busy" \in troubles
    /\ InTime /\ Second
    /\ handle' = "none"
    /\ iface' \in {iface} \cup {Interface(bus[path].product)}
    /\ pc' = "rescan"
    /\ UNCHANGED <<away, search, chosen, opened>> /\ MainUnchanged

\* A USB 3 module is looked for elsewhere once its old place is empty.
Rescan ==
    /\ pc = "rescan"
    /\ LET found == NewEdl
       IN  IF usb3 /\ bus[path] = NoDevice /\ found # {}
           THEN IF Cardinality(found) = 1 THEN path' \in found /\ pc' = "open"
                                          ELSE path' \in found /\ pc' = "failed"
           ELSE path' = path /\ pc' = "open"
    /\ UNCHANGED <<away, secs, attempts, usb3, fresh, devvars, chosen>> /\ MainUnchanged

GiveUp ==
    /\ pc = "open" /\ attempts = 0
    /\ pc' = "failed"
    /\ UNCHANGED <<away, secs, attempts, search, devvars, chosen>> /\ MainUnchanged

\* The stages are over: qusb_noblock_close.
CloseDevice ==
    /\ pc = "opened"
    /\ handle' = "none" /\ pc' = "closed"
    /\ UNCHANGED <<away, secs, attempts, search, iface, opened, chosen>> /\ MainUnchanged

-----------------------------------------------------------------------------
(* The modules.                                                            *)

WorldUnchanged == UNCHANGED <<env, secs, how, pc, attempts, devvars, chosen>>

Leave(m) ==
    /\ away[m] # "no"
    /\ bus[Home(m)].who = m
    /\ bus' = [bus EXCEPT ![Home(m)] = NoDevice]
    /\ UNCHANGED <<away, search>> /\ WorldUnchanged

\* Back at its old place or, in download mode with USB 3, at the other one.
Arrive(m) ==
    /\ away[m] # "no" /\ bus[Home(m)] = NoDevice
    /\ LET p == IF super /\ away[m] = "edl" THEN Moved(m) ELSE Home(m)
       IN  bus' = [bus EXCEPT ![p] = At(m, away[m])] /\ fresh' = fresh \cup {p}
    /\ away' = [away EXCEPT ![m] = "no"]
    /\ UNCHANGED <<path, usb3>> /\ WorldUnchanged

\* Another upgrader switches the module next to ours.
Neighbour ==
    /\ "switch" \in troubles /\ away[2] = "no"
    /\ bus[Home(2)].who = 2 /\ bus[Home(2)].product \in {"app", "laptop"}
    /\ away' = [away EXCEPT ![2] = "edl"]
    /\ UNCHANGED <<bus, search>> /\ WorldUnchanged

\* The module resets of itself.
ResetEarly ==
    /\ "gone" \in troubles /\ pc \in {"resolve", "speed", "open"} /\ away[1] = "no"
    /\ bus[Home(1)].product \in {"app", "laptop"}
    /\ away' = [away EXCEPT ![1] = bus[Home(1)].product]
    /\ bus' = [bus EXCEPT ![Home(1)] = NoDevice]
    /\ UNCHANGED search /\ WorldUnchanged

Over == pc \in {"failed", "closed"} /\ UNCHANGED svars

-----------------------------------------------------------------------------
SearchMain == ResolveGiven \/ ResolveAuto \/ ReadSpeed \/ OpenDevice \/ OpenFails \/ Rescan \/ GiveUp \/ CloseDevice
World == \E m \in {1, 2} : Leave(m) \/ Arrive(m)

SearchNext == SearchMain \/ World \/ Neighbour \/ ResetEarly \/ Over

SearchSpec == SearchInit /\ [][SearchNext]_svars

\* The loop sleeps and goes on; a module that was told to switch restarts.
FairSearchSpec ==
    /\ SearchSpec
    /\ WF_svars(SearchMain)
    /\ \A m \in {1, 2} : WF_svars(Leave(m)) /\ WF_svars(Arrive(m))

-----------------------------------------------------------------------------
\* The firmware goes to the module that was asked for, or that was the only one:
\* never to a neighbour that is in download mode too, wherever on the bus the
\* module comes back (the time and the count in auto_find_quectel_modules); and not
\* over the interface an earlier device left in usb_dm_interface.  The first does not
\* hold for a module that resets of itself, nor with USB 3 when somebody else switches
\* the neighbour in the same seconds.
RightModule ==
    pc = "opened" =>
        /\ iface = 0
        /\ "gone" \notin troubles /\ (super => "switch" \notin troubles) => opened = chosen

\* A module that was named and that comes back in time is opened in download mode.
Succeeds == troubles = {} /\ how = "path" ~> pc \in {"opened", "closed"}
=============================================================================
