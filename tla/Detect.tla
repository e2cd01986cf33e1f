------------------------------- MODULE Detect -------------------------------
(***************************************************************************)
(* How a flight controller is found among the serial ports (serial.rs),    *)
(* as the start of the daemon and its connection manager do it (main.rs):  *)
(* the ports are enumerated; a vendor on the allowlist wins; a board in    *)
(* its bootloader is left alone, for opening it blocks for ever; else the  *)
(* other ports are opened one by one, and read for a MAVLink heartbeat.    *)
(*                                                                         *)
(* All of it runs on the caller's thread while the devices come, go and    *)
(* reboot.  The order in which the system lists ports is arbitrary, so     *)
(* lists of ports are sets.                                                *)
(***************************************************************************)
EXTENDS Naturals, Sequences

CONSTANTS
    Devices,        \* the serial devices of the machine
    Usb,            \* those on USB
    Known,          \* those with a vendor ID on the allowlist
    Boots,          \* those with a bootloader that names itself in its product
    Excluded,       \* those whose name says that they are no flight controller
    Paired,         \* those with a cu and a tty node (macOS)
    V1Id,           \* offset of the message id in a MAVLink v1 header: 5
    V2Id, V2End,    \* first and last offset of the id in a v2 header: 7 and 9
    ChunkMax,       \* bytes that one read returns: 256
    Above, Keep,    \* a window longer than 4096 is cut to its last 512
    MaxBytes        \* bound of the model: what a port sends during a probe

ASSUME DetectAssumption ==
    /\ Known \subseteq Usb /\ Usb \subseteq Devices
    /\ Boots \subseteq Usb /\ Excluded \subseteq Devices /\ Paired \subseteq Devices
    /\ V1Id \in Nat \ {0} /\ V2Id \in Nat \ {0} /\ V2End \in Nat \ {0}
    /\ ChunkMax \in Nat \ {0} /\ MaxBytes \in Nat
    /\ Above \in Nat \ {0} /\ Keep \in Nat \ {0}
    /\ V2Id <= V2End
    /\ V1Id <= Keep /\ V2End <= Keep /\ Keep <= Above

VARIABLES
    attached,   \* the devices that are plugged in
    booting,    \* those that run their bootloader
    at,         \* where the search is
    ready,      \* PixhawkScan.ready, then DetectionOutcome.found
    boot,       \* PixhawkScan.bootloader, then DetectionOutcome.bootloader
    todo,       \* the candidates that are still to be probed
    target,     \* the port that is probed, or the one that the caller opens
    window,     \* what the probe keeps of the bytes it read
    stream,     \* history: all it read
    changed,    \* history: devices that changed since the last enumeration
    missed      \* history: those that changed, or were not listed, since the first

world  == <<attached, booting>>
search == <<at, ready, boot, todo, target, window, stream>>
past   == <<changed, missed>>

vars == <<world, search, past>>

NoPort == <<>>

\* Bytes, by what the probe distinguishes: the two magics, zero, and the rest.
Bytes == {"v1", "v2", "zero", "other"}

Nodes(d) == IF d \in Paired THEN {"cu", "tty"} ELSE {"cu"}

Ports == UNION {{<<d, n>> : n \in Nodes(d)} : d \in Devices}

DeviceOf(port) == port[1]

DetectTypeOK ==
    /\ attached \subseteq Devices /\ booting \subseteq Boots
    /\ at \in {"idle", "candidates", "next", "opening", "reading", "done"}
    /\ ready \subseteq Ports /\ boot \subseteq Ports /\ todo \subseteq Ports
    /\ target \in Ports \cup {NoPort}
    /\ window \in Seq(Bytes) /\ stream \in Seq(Bytes)
    /\ changed \subseteq Devices /\ missed \subseteq Devices

Init ==
    /\ attached \in SUBSET Devices /\ booting \in SUBSET Boots
    /\ at = "idle"
    /\ ready = {} /\ boot = {} /\ todo = {} /\ target = NoPort
    /\ window = <<>> /\ stream = <<>>
    /\ changed = {} /\ missed = {}

------------------------------------------------------------------------------
(* What is made of an enumeration.                                         *)

\* available_ports: the nodes of what is attached.
Listed == {p \in Ports : DeviceOf(p) \in attached}

\* maybe_prefer_tty: the cu node of a device blocks reads until DTR is raised.
MaybePreferTty(port) ==
    IF DeviceOf(port) \in Paired THEN <<DeviceOf(port), "tty">> ELSE port

IsPixhawkVid(port) == DeviceOf(port) \in Known

IsBootloaderProduct(port) == DeviceOf(port) \in booting

IsExcludedPort(port) == DeviceOf(port) \in Excluded

\* find_pixhawk_ports: what is on USB.
UsbOf(listed) == {p \in listed : DeviceOf(p) \in Usb}

Preferred(ports) == {MaybePreferTty(p) : p \in ports}

\* classify_ports: boards of known vendors, by whether they may be opened.
ClassifyPorts(listed) ==
    LET pixhawks == {p \in UsbOf(listed) : IsPixhawkVid(p)}
    IN  [ready      |-> Preferred({p \in pixhawks : ~IsBootloaderProduct(p)}),
         bootloader |-> Preferred({p \in pixhawks : IsBootloaderProduct(p)})]

\* Mutant of CandidateProbePorts: a bootloader of another vendor is not told apart.
CandidatesWithBootloaders(listed) ==
    Preferred({p \in UsbOf(listed) : ~IsPixhawkVid(p) /\ ~IsExcludedPort(p)})

\* candidate_probe_ports: everything else on USB that could be a board.
CandidateProbePorts(listed) ==
    Preferred({p \in UsbOf(listed) :
                  ~IsPixhawkVid(p) /\ ~IsBootloaderProduct(p) /\ ~IsExcludedPort(p)})

\* contains_heartbeat: a header with message id 0, complete up to the id.
ContainsHeartbeat(bytes) ==
    \E i \in DOMAIN bytes :
        \/ /\ bytes[i] = "v1" /\ Len(bytes) >= i + V1Id
           /\ bytes[i + V1Id] = "zero"
        \/ /\ bytes[i] = "v2" /\ Len(bytes) >= i + V2End
           /\ \A j \in V2Id..V2End : bytes[i + j] = "zero"

\* Mutant of Trim: a window that is too long is emptied.
TrimAll(bytes) ==
    IF Len(bytes) > Above THEN <<>> ELSE bytes

\* scan_for_heartbeat keeps a tail that spans a header split across reads.
Trim(bytes) ==
    IF Len(bytes) > Above
      THEN SubSeq(bytes, Len(bytes) - Keep + 1, Len(bytes))
      ELSE bytes

------------------------------------------------------------------------------
(* The devices.                                                            *)

Changes(d) ==
    /\ changed' = changed \cup {d}
    /\ missed' = missed \cup {d}

\* A device is plugged in, in its bootloader first if it has one, or pulled out.
Replug(d) ==
    /\ attached' = IF d \in attached THEN attached \ {d} ELSE attached \cup {d}
    /\ booting' = IF d \in Boots THEN booting \cup {d} ELSE booting
    /\ Changes(d)
    /\ UNCHANGED search

\* The firmware of a board starts, or reboots into the bootloader.
Reboot(d) ==
    /\ d \in Boots \cap attached
    /\ booting' = IF d \in booting THEN booting \ {d} ELSE booting \cup {d}
    /\ Changes(d)
    /\ UNCHANGED <<attached, search>>

------------------------------------------------------------------------------
(* detect_flight_controller.                                               *)

\* The allowlist: a ready board, or one in its bootloader, ends the search.  An
\* enumeration that fails lists nothing.
Enumerate(listed) ==
    /\ at = "idle"
    /\ LET scan == ClassifyPorts(listed)
       IN  /\ ready' = scan.ready /\ boot' = scan.bootloader
           /\ at' = IF scan.ready = {} /\ scan.bootloader = {} THEN "candidates" ELSE "done"
    /\ changed' = {} /\ missed' = attached \ {DeviceOf(p) : p \in listed}
    /\ UNCHANGED <<world, todo, target, window, stream>>

\* The ports are enumerated again for the probe.
EnumerateAgain(listed) ==
    /\ at = "candidates"
    /\ todo' = CandidateProbePorts(listed)
    /\ at' = "next"
    /\ changed' = {}
    /\ UNCHANGED <<world, ready, boot, target, window, stream, missed>>

NextCandidate ==
    /\ at = "next"
    /\ \/ /\ todo = {}
          /\ at' = "done" /\ UNCHANGED <<todo, target>>
       \/ \E p \in todo :
              at' = "opening" /\ todo' = todo \ {p} /\ target' = p
    /\ UNCHANGED <<world, ready, boot, window, stream, past>>

\* A bootloader neither accepts an open nor lets it fail.
Hangs == DeviceOf(target) \in attached \cap booting

GiveUp ==
    /\ at' = "next" /\ target' = NoPort
    /\ window' = <<>> /\ stream' = <<>>
    /\ UNCHANGED <<world, ready, boot, todo, past>>

\* open_serial: the port is gone, or another program has it.
OpenFails == at = "opening" /\ ~Hangs /\ GiveUp

OpenSucceeds ==
    /\ at = "opening" /\ DeviceOf(target) \in attached /\ ~Hangs
    /\ at' = "reading"
    /\ UNCHANGED <<world, ready, boot, todo, target, window, stream, past>>

\* A read of the probe: with a header in the window the port is adopted.
Read(chunk) ==
    /\ at = "reading" /\ DeviceOf(target) \in attached
    /\ Len(stream) + Len(chunk) <= MaxBytes
    /\ stream' = stream \o chunk
    /\ LET seen == window \o chunk
       IN  IF ContainsHeartbeat(seen)
             THEN at' = "done" /\ ready' = {target} /\ window' = seen
             ELSE window' = Trim(seen) /\ UNCHANGED <<at, ready>>
    /\ UNCHANGED <<world, boot, todo, target, past>>

\* The deadline of PROBE_WINDOW, or an error other than a timeout: the handle is
\* dropped before the next port.
ProbeEnds == at = "reading" /\ GiveUp

\* The caller opens one of the ports it was given, or sleeps, and looks again.
Take ==
    /\ at = "done"
    /\ at' = "idle"
    /\ ready' = {} /\ boot' = {} /\ todo' = {} /\ target' = NoPort
    /\ window' = <<>> /\ stream' = <<>>
    /\ UNCHANGED <<world, past>>

Chunks == UNION {[1..n -> Bytes] : n \in 1..ChunkMax}

Opens == OpenFails \/ OpenSucceeds

Detector ==
    \/ \E listed \in {Listed, {}} : Enumerate(listed) \/ EnumerateAgain(listed)
    \/ NextCandidate \/ ProbeEnds

Next ==
    \/ \E d \in Devices : Replug(d) \/ Reboot(d)
    \/ Detector \/ Opens \/ Take
    \/ \E c \in Chunks : Read(c)

Spec == Init /\ [][Next]_vars

\* The thread of the caller runs, and the deadline of a probe comes whatever the
\* port sends; an open returns unless the device stays in its bootloader: one
\* that leaves it, or is pulled, ends the call.
Fairness == WF_vars(Detector) /\ WF_vars(ProbeEnds) /\ WF_vars(Take) /\ SF_vars(Opens)

FairSpec == Spec /\ Fairness

------------------------------------------------------------------------------
(* Properties.                                                             *)

\* "Must never be opened": a port that the search opens, or offers to its
\* caller, is no board in its bootloader, unless that board entered it after
\* the enumeration which chose the port.
\* (is_bootloader_product, in classify_ports and in candidate_probe_ports)
BootloaderLeftAlone ==
    \A p \in ready \cup (IF at \in {"opening", "reading"} THEN {target} ELSE {}) :
        DeviceOf(p) \in attached \cap booting => DeviceOf(p) \in changed

\* "Recognised hardware never pays for probing": while a port is probed, each
\* board of a known vendor appeared, or changed, after the first enumeration, or
\* that enumeration did not list it.  (detect_flight_controller)
RecognisedFirst ==
    at \in {"opening", "reading"} => Known \cap attached \subseteq missed

\* A heartbeat is never missed however reads split its header, and none is seen
\* that was not sent: while a port is read nothing in all it sent is a header
\* with id 0, and a port that was adopted by the probe has sent one.
\* (scan_for_heartbeat and its window)
HeaderNeverMissed ==
    /\ at = "reading" => ~ContainsHeartbeat(stream)
    /\ at = "done" /\ target # NoPort => ContainsHeartbeat(stream)

\* The search comes to an end again and again; only a board that went into its
\* bootloader behind the enumeration's back can hold it in an open for ever.
\* (detect_flight_controller, which no timeout guards)
SearchEnds ==
    \/ []<>(at = "idle")
    \/ <>[](at = "opening" /\ Hangs /\ DeviceOf(target) \in changed)
=============================================================================
