---------------------------- MODULE DetectProofs ----------------------------
(***************************************************************************)
(* Proofs about Detect for any devices, vendors, names and header layouts, *)
(* windows and chunks of any size, and devices that change at any moment.  *)
(***************************************************************************)
EXTENDS Detect, TLAPS

\* The ports that the search may still open or offer.
Chosen == ready \cup todo \cup (IF target = NoPort THEN {} ELSE {target})

\* What the search has in hand at each of its places.
Places ==
    /\ at \in {"idle", "candidates"} => todo = {} /\ ready = {}
    /\ at \in {"idle", "candidates", "next"} => target = NoPort
    /\ at \in {"opening", "reading"} => target # NoPort
    /\ at \in {"idle", "candidates", "next", "opening"} => window = <<>> /\ stream = <<>>

\* Each was told apart from a bootloader after its device changed last.
Described ==
    \A p \in Chosen : DeviceOf(p) \in attached \cap booting => DeviceOf(p) \in changed

\* As soon as the allowlist has found nothing.
Unrecognised ==
    at \in {"candidates", "next", "opening", "reading"} => Known \cap attached \subseteq missed

\* a is the end of b, and long enough to hold all but the last byte of a header.
TailOf(a, b) ==
    /\ Len(a) <= Len(b)
    /\ Len(a) = Len(b) \/ Keep <= Len(a)
    /\ \A i \in 1..Len(a) : a[i] = b[Len(b) - Len(a) + i]

Heard ==
    /\ at = "reading" => ~ContainsHeartbeat(stream) /\ TailOf(window, stream)
    /\ at = "done" /\ target # NoPort => ContainsHeartbeat(stream)

IInv == DetectTypeOK /\ Places /\ Described /\ Unrecognised /\ Heard

------------------------------------------------------------------------------
(* Ports.                                                                  *)

\* Preferring the tty node never changes the device.
LEMMA Preference ==
    ASSUME NEW p \in Ports
    PROVE  MaybePreferTty(p) \in Ports /\ DeviceOf(MaybePreferTty(p)) = DeviceOf(p)
<1>1. PICK d \in Devices : \E n \in Nodes(d) : p = <<d, n>>
  BY DEF Ports
<1>2. DeviceOf(p) = d
  BY <1>1 DEF DeviceOf
<1>3. CASE d \in Paired
  <2>1. MaybePreferTty(p) = <<d, "tty">>
    BY <1>2, <1>3 DEF MaybePreferTty
  <2>2. "tty" \in Nodes(d)
    BY <1>3 DEF Nodes
  <2>. QED  BY <1>2, <2>1, <2>2 DEF Ports, DeviceOf
<1>4. CASE d \notin Paired
  BY <1>2, <1>4 DEF MaybePreferTty
<1>. QED  BY <1>3, <1>4

\* What is made of a list of ports stays on the devices of that list.
LEMMA PreferredKeepsDevices ==
    ASSUME NEW S \in SUBSET Ports
    PROVE  /\ Preferred(S) \subseteq Ports
           /\ \A q \in Preferred(S) : \E p \in S : DeviceOf(q) = DeviceOf(p)
           /\ \A p \in S : MaybePreferTty(p) \in Preferred(S)
BY Preference DEF Preferred

\* classify_ports offers no bootloader, and leaves out no board of a known vendor.
LEMMA Classification ==
    ASSUME NEW listed \in SUBSET Ports
    PROVE  LET scan == ClassifyPorts(listed) IN
           /\ scan.ready \subseteq Ports /\ scan.bootloader \subseteq Ports
           /\ \A q \in scan.ready : DeviceOf(q) \notin booting
           /\ scan.ready = {} /\ scan.bootloader = {} =>
                  \A p \in listed : DeviceOf(p) \notin Known
<1> DEFINE pixhawks == {p \in UsbOf(listed) : IsPixhawkVid(p)}
           apps     == {p \in pixhawks : ~IsBootloaderProduct(p)}
           boots    == {p \in pixhawks : IsBootloaderProduct(p)}
<1>1. /\ ClassifyPorts(listed).ready = Preferred(apps)
      /\ ClassifyPorts(listed).bootloader = Preferred(boots)
  BY DEF ClassifyPorts
<1>2. apps \in SUBSET Ports /\ boots \in SUBSET Ports
  BY DEF UsbOf
<1>3. \A q \in Preferred(apps) : DeviceOf(q) \notin booting
  <2>1. \A p \in apps : DeviceOf(p) \notin booting
    BY DEF IsBootloaderProduct
  <2>. HIDE DEF apps
  <2>. QED  BY <1>2, <2>1, PreferredKeepsDevices
<1>4. ASSUME Preferred(apps) = {}, Preferred(boots) = {}
      PROVE  \A p \in listed : DeviceOf(p) \notin Known
  <2>1. apps = {} /\ boots = {}
    <3>. HIDE DEF apps, boots
    <3>. QED  BY <1>2, <1>4, PreferredKeepsDevices
  <2>2. \A p \in listed : DeviceOf(p) \in Known => p \in pixhawks
    BY DetectAssumption DEF DetectAssumption, UsbOf, IsPixhawkVid
  <2>3. \A p \in pixhawks : p \in apps \/ p \in boots
    OBVIOUS
  <2>. QED  BY <2>1, <2>2, <2>3
<1>5. Preferred(apps) \subseteq Ports /\ Preferred(boots) \subseteq Ports
  <2>. HIDE DEF apps, boots
  <2>. QED  BY <1>2, PreferredKeepsDevices
<1>. QED  BY <1>1, <1>3, <1>4, <1>5

\* candidate_probe_ports offers no bootloader either.
LEMMA Candidates ==
    ASSUME NEW listed \in SUBSET Ports
    PROVE  /\ CandidateProbePorts(listed) \subseteq Ports
           /\ \A q \in CandidateProbePorts(listed) : DeviceOf(q) \notin booting
<1> DEFINE chosen == {p \in UsbOf(listed) :
                         ~IsPixhawkVid(p) /\ ~IsBootloaderProduct(p) /\ ~IsExcludedPort(p)}
<1>1. CandidateProbePorts(listed) = Preferred(chosen)
  BY DEF CandidateProbePorts
<1>2. chosen \in SUBSET Ports /\ \A p \in chosen : DeviceOf(p) \notin booting
  BY DEF UsbOf, IsBootloaderProduct
<1>. HIDE DEF chosen
<1>. QED  BY <1>1, <1>2, PreferredKeepsDevices

\* What a system may list is ports.
LEMMA ListsArePorts == Listed \in SUBSET Ports /\ {} \in SUBSET Ports
BY DEF Listed

------------------------------------------------------------------------------
(* Bytes.                                                                  *)

\* Where a header with message id 0 ends that begins at i.
Ends(bytes, i, e) ==
    \/ /\ e = i + V1Id /\ e <= Len(bytes)
       /\ bytes[i] = "v1" /\ bytes[e] = "zero"
    \/ /\ e = i + V2End /\ e <= Len(bytes)
       /\ bytes[i] = "v2" /\ \A j \in V2Id..V2End : bytes[i + j] = "zero"

\* A heartbeat is in a stream when a header ends somewhere in it.
LEMMA HeaderEnds ==
    ASSUME NEW bytes \in Seq(Bytes)
    PROVE  ContainsHeartbeat(bytes) <=> \E i \in 1..Len(bytes) : \E e \in Nat : Ends(bytes, i, e)
<1>1. DOMAIN bytes = 1..Len(bytes) /\ Len(bytes) \in Nat
  OBVIOUS
<1>2. V1Id \in Nat /\ V2End \in Nat
  BY DetectAssumption DEF DetectAssumption
<1> DEFINE In(i) ==
        \/ /\ bytes[i] = "v1" /\ Len(bytes) >= i + V1Id
           /\ bytes[i + V1Id] = "zero"
        \/ /\ bytes[i] = "v2" /\ Len(bytes) >= i + V2End
           /\ \A j \in V2Id..V2End : bytes[i + j] = "zero"
<1>3. ContainsHeartbeat(bytes) <=> \E i \in 1..Len(bytes) : In(i)
  BY <1>1 DEF ContainsHeartbeat
<1>4. ASSUME NEW i \in 1..Len(bytes) PROVE In(i) <=> \E e \in Nat : Ends(bytes, i, e)
  <2>1. i + V1Id \in Nat /\ i + V2End \in Nat
    BY <1>1, <1>2
  <2>2. \A x, y \in Nat : x >= y <=> y <= x
    OBVIOUS
  <2>3. /\ Len(bytes) >= i + V1Id <=> i + V1Id <= Len(bytes)
        /\ Len(bytes) >= i + V2End <=> i + V2End <= Len(bytes)
    BY <1>1, <2>1, <2>2
  <2>4. ASSUME In(i) PROVE \E e \in Nat : Ends(bytes, i, e)
    <3>1. CASE bytes[i] = "v1" /\ Len(bytes) >= i + V1Id /\ bytes[i + V1Id] = "zero"
      <4>1. Ends(bytes, i, i + V1Id)
        BY <2>3, <3>1 DEF Ends
      <4>. QED  BY <2>1, <4>1
    <3>2. CASE /\ bytes[i] = "v2" /\ Len(bytes) >= i + V2End
               /\ \A j \in V2Id..V2End : bytes[i + j] = "zero"
      <4>1. Ends(bytes, i, i + V2End)
        BY <2>3, <3>2 DEF Ends
      <4>. QED  BY <2>1, <4>1
    <3>. QED  BY <2>4, <3>1, <3>2
  <2>5. ASSUME NEW e \in Nat, Ends(bytes, i, e) PROVE In(i)
    BY <2>3, <2>5 DEF Ends
  <2>. QED  BY <2>4, <2>5
<1>. HIDE DEF In
<1>. QED  BY <1>3, <1>4

\* A header that the end of a sequence holds is in the sequence.
LEMMA HeaderOfTail ==
    ASSUME NEW a \in Seq(Bytes), NEW b \in Seq(Bytes), TailOf(a, b), ContainsHeartbeat(a)
    PROVE  ContainsHeartbeat(b)
<1>1. PICK i \in 1..Len(a) : \E e \in Nat : Ends(a, i, e)
  BY HeaderEnds
<1>2. PICK e \in Nat : Ends(a, i, e)
  BY <1>1
<1> DEFINE k == Len(b) - Len(a)
<1>3. k \in Nat /\ Len(a) \in Nat /\ Len(b) \in Nat /\ k + i \in 1..Len(b) /\ k + e \in Nat
      /\ Len(b) = k + Len(a)
  BY DEF TailOf
<1>4. \A j \in 1..Len(a) : a[j] = b[k + j]
  BY DEF TailOf
<1>5. Ends(b, k + i, k + e)
  <2>. HIDE DEF k
  <2>1. CASE e = i + V1Id /\ e <= Len(a) /\ a[i] = "v1" /\ a[e] = "zero"
    <3>1. e \in 1..Len(a) /\ k + e = k + i + V1Id /\ k + e <= Len(b)
      BY <1>3, <2>1, DetectAssumption DEF DetectAssumption
    <3>2. b[k + i] = "v1" /\ b[k + e] = "zero"
      BY <1>4, <2>1, <3>1
    <3>. QED  BY <3>1, <3>2 DEF Ends
  <2>2. CASE /\ e = i + V2End /\ e <= Len(a) /\ a[i] = "v2"
             /\ \A j \in V2Id..V2End : a[i + j] = "zero"
    <3>1. e \in 1..Len(a) /\ k + e = k + i + V2End /\ k + e <= Len(b)
      BY <1>3, <2>2, DetectAssumption DEF DetectAssumption
    <3>2. b[k + i] = "v2"
      BY <1>4, <2>2
    <3>3. ASSUME NEW j \in V2Id..V2End PROVE b[k + i + j] = "zero"
      <4>1. i + j \in 1..Len(a) /\ k + i + j = k + (i + j)
        BY <1>3, <2>2, DetectAssumption DEF DetectAssumption
      <4>. QED  BY <1>4, <2>2, <4>1
    <3>. QED  BY <3>1, <3>2, <3>3 DEF Ends
  <2>. QED  BY <1>2, <2>1, <2>2 DEF Ends
<1>. HIDE DEF k
<1>. QED  BY <1>3, <1>5, HeaderEnds

\* What appending does, element by element.
LEMMA Appended ==
    ASSUME NEW a \in Seq(Bytes), NEW c \in Seq(Bytes)
    PROVE  /\ a \o c \in Seq(Bytes)
           /\ Len(a \o c) = Len(a) + Len(c) /\ Len(a) \in Nat /\ Len(c) \in Nat
           /\ \A i \in 1..Len(a) : (a \o c)[i] = a[i]
           /\ \A i \in 1..Len(c) : (a \o c)[Len(a) + i] = c[i]
OBVIOUS

\* What is the end of a stream stays it when both grow by the same bytes.
LEMMA TailGrows ==
    ASSUME NEW a \in Seq(Bytes), NEW b \in Seq(Bytes), NEW c \in Seq(Bytes), TailOf(a, b)
    PROVE  TailOf(a \o c, b \o c)
<1> DEFINE ac == a \o c
           bc == b \o c
<1>1. /\ Len(ac) = Len(a) + Len(c) /\ Len(bc) = Len(b) + Len(c)
      /\ Len(a) \in Nat /\ Len(b) \in Nat /\ Len(c) \in Nat
      /\ \A i \in 1..Len(a) : ac[i] = a[i]
      /\ \A i \in 1..Len(b) : bc[i] = b[i]
      /\ \A i \in 1..Len(c) : ac[Len(a) + i] = c[i] /\ bc[Len(b) + i] = c[i]
  BY Appended
<1>. HIDE DEF ac, bc
<1>2. ASSUME NEW i \in 1..Len(ac)
      PROVE  ac[i] = bc[Len(bc) - Len(ac) + i]
  <2>1. Len(bc) - Len(ac) + i = Len(b) - Len(a) + i
    BY <1>1
  <2>2. CASE i <= Len(a)
    <3>1. i \in 1..Len(a) /\ Len(b) - Len(a) + i \in 1..Len(b)
      BY <1>1, <2>2 DEF TailOf
    <3>2. a[i] = b[Len(b) - Len(a) + i]
      BY <3>1 DEF TailOf
    <3>. QED  BY <1>1, <2>1, <3>1, <3>2
  <2>3. CASE i > Len(a)
    <3> DEFINE j == i - Len(a)
    <3>1. j \in 1..Len(c) /\ i = Len(a) + j /\ Len(b) - Len(a) + i = Len(b) + j
      BY <1>1, <2>3
    <3>. HIDE DEF j
    <3>. QED  BY <1>1, <2>1, <3>1
  <2>. QED  BY <1>1, <2>2, <2>3
<1>3. Len(ac) <= Len(bc) /\ (Len(ac) = Len(bc) \/ Keep <= Len(ac))
  <2>1. Keep \in Nat /\ Len(a) <= Len(b) /\ (Len(a) = Len(b) \/ Keep <= Len(a))
    BY DetectAssumption DEF TailOf, DetectAssumption
  <2>2. \A x, y, z \in Nat :
            /\ x <= y => x + z <= y + z
            /\ Keep <= x => Keep <= x + z
    BY <2>1
  <2>3. /\ Len(ac) = Len(a) + Len(c) /\ Len(bc) = Len(b) + Len(c)
        /\ Len(a) \in Nat /\ Len(b) \in Nat /\ Len(c) \in Nat
    BY <1>1
  <2>. QED  BY <2>1, <2>2, <2>3, Zenon
<1>4. TailOf(ac, bc)
  BY <1>2, <1>3 DEF TailOf
<1>. QED  BY <1>4 DEF ac, bc

\* The heart of the probe: what was cut off the window could not have begun a
\* header that the next bytes complete.
LEMMA NothingLost ==
    ASSUME NEW a \in Seq(Bytes), NEW b \in Seq(Bytes), NEW c \in Seq(Bytes), TailOf(a, b),
           ~ContainsHeartbeat(b), ContainsHeartbeat(b \o c)
    PROVE  ContainsHeartbeat(a \o c)
<1> DEFINE ac == a \o c
           bc == b \o c
           k  == Len(b) - Len(a)
<1>1. /\ ac \in Seq(Bytes) /\ bc \in Seq(Bytes)
      /\ Len(ac) = Len(a) + Len(c) /\ Len(bc) = Len(b) + Len(c)
      /\ Len(a) \in Nat /\ Len(b) \in Nat /\ Len(c) \in Nat
      /\ \A i \in 1..Len(b) : bc[i] = b[i]
  BY Appended
<1>2. TailOf(ac, bc) /\ ContainsHeartbeat(bc)
  BY TailGrows
<1>. HIDE DEF ac, bc
<1>3. PICK i \in 1..Len(bc) : \E e \in Nat : Ends(bc, i, e)
  BY <1>1, <1>2, HeaderEnds
<1>4. PICK e \in Nat : Ends(bc, i, e)
  BY <1>3
<1>5. /\ i < e /\ e <= i + Keep /\ e <= Len(bc)
      /\ V1Id \in Nat \ {0} /\ V2Id \in Nat \ {0} /\ V2End \in Nat \ {0} /\ Keep \in Nat
  BY <1>1, <1>4, DetectAssumption DEF Ends, DetectAssumption
<1>6. e > Len(b)
  <2>1. SUFFICES ASSUME e <= Len(b) PROVE FALSE
    BY <1>1
  <2>2. i \in 1..Len(b) /\ e \in 1..Len(b)
    BY <1>1, <1>5, <2>1
  <2>3. CASE e = i + V1Id /\ bc[i] = "v1" /\ bc[e] = "zero"
    <3>1. Ends(b, i, e)
      BY <1>1, <2>1, <2>2, <2>3 DEF Ends
    <3>. QED  BY <2>2, <3>1, HeaderEnds
  <2>4. CASE /\ e = i + V2End /\ bc[i] = "v2"
             /\ \A j \in V2Id..V2End : bc[i + j] = "zero"
    <3>1. ASSUME NEW j \in V2Id..V2End PROVE b[i + j] = "zero"
      <4>1. i + j \in 1..Len(b)
        BY <1>5, <2>2, <2>4
      <4>. QED  BY <1>1, <2>4, <4>1
    <3>2. Ends(b, i, e)
      BY <1>1, <2>1, <2>2, <2>4, <3>1 DEF Ends
    <3>. QED  BY <2>2, <3>2, HeaderEnds
  <2>. QED  BY <1>4, <2>3, <2>4 DEF Ends
<1>7. /\ k \in Nat /\ Len(bc) = k + Len(ac) /\ Len(bc) - Len(ac) = k
      /\ i - k \in 1..Len(ac) /\ e - k \in 1..Len(ac)
      /\ k + (i - k) = i /\ k + (e - k) = e
  BY <1>1, <1>5, <1>6 DEF TailOf
<1>8. \A j \in 1..Len(ac) : ac[j] = bc[k + j]
  BY <1>2, <1>7 DEF TailOf
<1>9. Ends(ac, i - k, e - k)
  <2>. HIDE DEF k
  <2>1. CASE e = i + V1Id /\ bc[i] = "v1" /\ bc[e] = "zero"
    <3>1. ac[i - k] = "v1" /\ ac[e - k] = "zero"
      BY <1>7, <1>8, <2>1
    <3>2. e - k = (i - k) + V1Id /\ e - k <= Len(ac)
      BY <1>5, <1>7, <2>1
    <3>. QED  BY <3>1, <3>2 DEF Ends
  <2>2. CASE /\ e = i + V2End /\ bc[i] = "v2"
             /\ \A j \in V2Id..V2End : bc[i + j] = "zero"
    <3>1. ac[i - k] = "v2"
      BY <1>7, <1>8, <2>2
    <3>2. e - k = (i - k) + V2End /\ e - k <= Len(ac)
      BY <1>5, <1>7, <2>2
    <3>3. ASSUME NEW j \in V2Id..V2End PROVE ac[(i - k) + j] = "zero"
      <4>1. (i - k) + j \in 1..Len(ac) /\ k + ((i - k) + j) = i + j
        BY <1>1, <1>5, <1>7, <3>2
      <4>. QED  BY <1>8, <2>2, <4>1
    <3>. QED  BY <3>1, <3>2, <3>3 DEF Ends
  <2>. QED  BY <1>4, <2>1, <2>2 DEF Ends
<1>10. i - k \in 1..Len(ac) /\ e - k \in Nat
  BY <1>1, <1>7
<1>11. ContainsHeartbeat(ac)
  <2>. HIDE DEF k
  <2>. QED  BY <1>1, <1>9, <1>10, HeaderEnds
<1>. QED  BY <1>11 DEF ac

\* The window stays long enough.
LEMMA TrimKeepsTail ==
    ASSUME NEW a \in Seq(Bytes), NEW b \in Seq(Bytes), TailOf(a, b)
    PROVE  Trim(a) \in Seq(Bytes) /\ TailOf(Trim(a), b)
<1>1. CASE Len(a) > Above
  <2> DEFINE t == SubSeq(a, Len(a) - Keep + 1, Len(a))
  <2>1. Keep \in Nat \ {0} /\ Above \in Nat \ {0} /\ Keep <= Above
    BY DetectAssumption DEF DetectAssumption
  <2>2. /\ t \in Seq(Bytes) /\ Len(t) = Keep
        /\ \A i \in 1..Keep : t[i] = a[Len(a) - Keep + i]
    BY <1>1, <2>1
  <2>3. Trim(a) = t
    BY <1>1 DEF Trim
  <2>. HIDE DEF t
  <2>4. ASSUME NEW i \in 1..Keep PROVE t[i] = b[Len(b) - Keep + i]
    <3>1. Len(a) - Keep + i \in 1..Len(a)
      BY <1>1, <2>1
    <3>2. a[Len(a) - Keep + i] = b[Len(b) - Len(a) + (Len(a) - Keep + i)]
      BY <3>1 DEF TailOf
    <3>3. Len(b) - Len(a) + (Len(a) - Keep + i) = Len(b) - Keep + i
      BY <2>1
    <3>. QED  BY <2>2, <3>2, <3>3
  <2>5. Len(t) <= Len(b)
    BY <1>1, <2>1, <2>2 DEF TailOf
  <2>6. Len(t) = Len(b) \/ Keep <= Len(t)
    BY <2>1, <2>2
  <2>7. TailOf(t, b)
    BY <2>2, <2>4, <2>5, <2>6 DEF TailOf
  <2>. QED  BY <2>2, <2>3, <2>7
<1>2. CASE ~(Len(a) > Above)
  BY <1>2 DEF Trim
<1>. QED  BY <1>1, <1>2
------------------------------------------------------------------------------
(* The invariant.                                                          *)

\* Nothing is in hand before the first search.
LEMMA Initially == Init => IInv
<1> SUFFICES ASSUME Init PROVE IInv
  OBVIOUS
<1>1. DetectTypeOK
  BY DEF Init, DetectTypeOK
<1>2. Places /\ Described /\ Unrecognised /\ Heard
  BY DEF Init, Places, Described, Chosen, Unrecognised, Heard
<1>. QED  BY <1>1, <1>2 DEF IInv

\* The world changes: whatever changes is noted.
LEMMA WorldStep ==
    ASSUME IInv, NEW d \in Devices, Replug(d) \/ Reboot(d)
    PROVE  IInv'
<1> USE DEF IInv, search
<1>1. /\ attached' \subseteq attached \cup {d} /\ booting' \subseteq booting \cup {d}
      /\ attached' \subseteq Devices /\ booting' \subseteq Boots
      /\ changed' = changed \cup {d} /\ missed' = missed \cup {d}
      /\ UNCHANGED search
  BY DEF Replug, Reboot, Changes, DetectTypeOK
<1>2. DetectTypeOK'
  BY <1>1 DEF DetectTypeOK
<1>3. Places' /\ Heard'
  BY <1>1 DEF Places, Heard
<1>4. Described'
  BY <1>1 DEF Described, Chosen
<1>5. Unrecognised'
  BY <1>1, Zenon DEF Unrecognised
<1>. QED  BY <1>2, <1>3, <1>4, <1>5

\* A port is classified from a list that is fresh.
LEMMA EnumerateStep ==
    ASSUME IInv, NEW listed \in {Listed, {}}, Enumerate(listed)
    PROVE  IInv'
<1> DEFINE scan == ClassifyPorts(listed)
<1>1. listed \in SUBSET Ports
  BY ListsArePorts
<1>2. /\ scan.ready \subseteq Ports /\ scan.bootloader \subseteq Ports
      /\ \A q \in scan.ready : DeviceOf(q) \notin booting
      /\ scan.ready = {} /\ scan.bootloader = {} => \A p \in listed : DeviceOf(p) \notin Known
  BY <1>1, Classification
<1>3. /\ at = "idle" /\ ready' = scan.ready /\ boot' = scan.bootloader
      /\ at' = IF scan.ready = {} /\ scan.bootloader = {} THEN "candidates" ELSE "done"
      /\ changed' = {} /\ missed' = attached \ {DeviceOf(p) : p \in listed}
      /\ UNCHANGED <<attached, booting, todo, target, window, stream>>
  BY DEF Enumerate, world
<1>. HIDE DEF scan
<1>4. DetectTypeOK'
  BY <1>2, <1>3 DEF IInv, DetectTypeOK
<1>5. todo = {} /\ target = NoPort /\ window = <<>> /\ stream = <<>>
  BY <1>3 DEF IInv, Places
<1>6. Places'
  BY <1>3, <1>5 DEF Places
<1>7. Described'
  BY <1>2, <1>3, <1>5 DEF Described, Chosen
<1>8. Unrecognised'
  BY <1>2, <1>3 DEF Unrecognised
<1>9. Heard'
  BY <1>3, <1>5 DEF Heard
<1>. QED  BY <1>4, <1>6, <1>7, <1>8, <1>9 DEF IInv

\* The candidates are taken from a second list, which is fresh again.
LEMMA EnumerateAgainStep ==
    ASSUME IInv, NEW listed \in {Listed, {}}, EnumerateAgain(listed)
    PROVE  IInv'
<1>1. listed \in SUBSET Ports
  BY ListsArePorts
<1>2. /\ CandidateProbePorts(listed) \subseteq Ports
      /\ \A q \in CandidateProbePorts(listed) : DeviceOf(q) \notin booting
  BY <1>1, Candidates
<1>3. /\ at = "candidates" /\ at' = "next" /\ changed' = {}
      /\ todo' = CandidateProbePorts(listed)
      /\ UNCHANGED <<attached, booting, ready, boot, target, window, stream, missed>>
  BY DEF EnumerateAgain, world
<1>4. ready = {} /\ target = NoPort /\ window = <<>> /\ stream = <<>>
  BY <1>3 DEF IInv, Places
<1>5. DetectTypeOK'
  BY <1>2, <1>3 DEF IInv, DetectTypeOK
<1>6. Places' /\ Heard'
  BY <1>3, <1>4 DEF Places, Heard
<1>7. Described'
  BY <1>2, <1>3, <1>4 DEF Described, Chosen
<1>8. Unrecognised'
  BY <1>3 DEF IInv, Unrecognised
<1>. QED  BY <1>5, <1>6, <1>7, <1>8 DEF IInv

\* A probe begins with nothing read.
LEMMA NextCandidateStep ==
    ASSUME IInv, NextCandidate
    PROVE  IInv'
<1>1. /\ at = "next" /\ target = NoPort /\ window = <<>> /\ stream = <<>>
      /\ UNCHANGED <<attached, booting, ready, boot, window, stream, changed, missed>>
  BY DEF NextCandidate, world, past, IInv, Places
<1>2. CASE at' = "done" /\ UNCHANGED <<todo, target>>
  BY <1>1, <1>2 DEF IInv, DetectTypeOK, Places, Described, Chosen, Unrecognised, Heard
<1>3. ASSUME NEW p \in todo, at' = "opening", todo' = todo \ {p}, target' = p
      PROVE  IInv'
  <2>1. p \in Ports /\ p # NoPort
    BY <1>3 DEF IInv, DetectTypeOK, Ports, NoPort
  <2>2. DetectTypeOK'
    BY <1>1, <1>3, <2>1 DEF IInv, DetectTypeOK
  <2>3. Places' /\ Heard' /\ Unrecognised'
    BY <1>1, <1>3, <2>1 DEF IInv, Places, Heard, Unrecognised
  <2>4. Described'
    BY <1>1, <1>3, <2>1 DEF IInv, Described, Chosen
  <2>. QED  BY <2>2, <2>3, <2>4 DEF IInv
<1>. QED  BY <1>2, <1>3 DEF NextCandidate

\* The handle is dropped, or the caller starts anew.
LEMMA GiveUpStep ==
    ASSUME IInv, at \in {"opening", "reading"}, GiveUp
    PROVE  IInv'
<1>1. /\ at' = "next" /\ target' = NoPort /\ window' = <<>> /\ stream' = <<>>
      /\ UNCHANGED <<attached, booting, ready, boot, todo, changed, missed>>
  BY DEF GiveUp, world, past
<1>2. <<>> \in Seq(Bytes)
  OBVIOUS
<1>3. DetectTypeOK'
  BY <1>1, <1>2 DEF IInv, DetectTypeOK
<1>4. Places' /\ Heard' /\ Unrecognised' /\ Described'
  BY <1>1 DEF IInv, Places, Heard, Unrecognised, Described, Chosen
<1>. QED  BY <1>3, <1>4 DEF IInv

\* A port that opens has sent nothing yet.
LEMMA OpenStep ==
    ASSUME IInv, OpenSucceeds
    PROVE  IInv'
<1>1. /\ at = "opening" /\ at' = "reading" /\ window = <<>> /\ stream = <<>>
      /\ UNCHANGED <<attached, booting, ready, boot, todo, target, window, stream, changed, missed>>
  BY DEF OpenSucceeds, world, past, IInv, Places
<1>2. ~ContainsHeartbeat(<<>>) /\ TailOf(<<>>, <<>>)
  BY DEF ContainsHeartbeat, TailOf
<1>3. DetectTypeOK' /\ Places' /\ Unrecognised'
  BY <1>1 DEF IInv, DetectTypeOK, Places, Unrecognised
<1>4. Described'
  BY <1>1 DEF IInv, Described, Chosen
<1>5. Heard'
  BY <1>1, <1>2 DEF Heard
<1>. QED  BY <1>3, <1>4, <1>5 DEF IInv

\* The window follows the stream, and a header in it ends the probe.
LEMMA ReadStep ==
    ASSUME IInv, NEW c \in Seq(Bytes), Read(c)
    PROVE  IInv'
<1> DEFINE seen == window \o c
<1>1. /\ window \in Seq(Bytes) /\ stream \in Seq(Bytes)
      /\ at = "reading" /\ ~ContainsHeartbeat(stream) /\ TailOf(window, stream)
      /\ target \in Ports /\ target # NoPort
  BY DEF Read, IInv, DetectTypeOK, Heard, Places
<1>2. /\ stream' = stream \o c
      /\ IF ContainsHeartbeat(seen)
           THEN at' = "done" /\ ready' = {target} /\ window' = seen
           ELSE window' = Trim(seen) /\ UNCHANGED <<at, ready>>
      /\ UNCHANGED <<attached, booting, boot, todo, target, changed, missed>>
  BY DEF Read, world, past
<1>3. seen \in Seq(Bytes) /\ stream' \in Seq(Bytes)
  BY <1>1, <1>2, Appended
<1>4. TailOf(seen, stream')
  BY <1>1, <1>2, TailGrows
<1>5. ContainsHeartbeat(stream') => ContainsHeartbeat(seen)
  BY <1>1, <1>2, NothingLost
<1>. HIDE DEF seen
<1>6. CASE ContainsHeartbeat(seen)
  <2>1. at' = "done" /\ ready' = {target} /\ window' = seen
    BY <1>2, <1>6
  <2>2. ContainsHeartbeat(stream')
    BY <1>3, <1>4, <1>6, HeaderOfTail
  <2>3. DetectTypeOK'
    BY <1>1, <1>2, <1>3, <2>1 DEF IInv, DetectTypeOK
  <2>4. Places' /\ Unrecognised' /\ Heard'
    BY <2>1, <2>2 DEF Places, Unrecognised, Heard
  <2>5. Described'
    BY <1>1, <1>2, <2>1 DEF IInv, Described, Chosen
  <2>. QED  BY <2>3, <2>4, <2>5 DEF IInv
<1>7. CASE ~ContainsHeartbeat(seen)
  <2>1. window' = Trim(seen) /\ at' = "reading" /\ UNCHANGED ready
    BY <1>1, <1>2, <1>7
  <2>2. Trim(seen) \in Seq(Bytes) /\ TailOf(Trim(seen), stream')
    BY <1>3, <1>4, TrimKeepsTail
  <2>3. DetectTypeOK'
    BY <1>2, <1>3, <2>1, <2>2 DEF IInv, DetectTypeOK
  <2>4. Places' /\ Unrecognised'
    BY <1>1, <1>2, <2>1 DEF IInv, Places, Unrecognised
  <2>5. Described'
    BY <1>2, <2>1 DEF IInv, Described, Chosen
  <2>6. Heard'
    BY <1>5, <1>7, <2>1, <2>2 DEF Heard
  <2>. QED  BY <2>3, <2>4, <2>5, <2>6 DEF IInv
<1>. QED  BY <1>6, <1>7

\* A search that is over leaves nothing in hand.
LEMMA TakeStep ==
    ASSUME IInv, Take
    PROVE  IInv'
<1>1. /\ at' = "idle" /\ ready' = {} /\ boot' = {} /\ todo' = {} /\ target' = NoPort
      /\ window' = <<>> /\ stream' = <<>>
      /\ UNCHANGED <<attached, booting, changed, missed>>
  BY DEF Take, world, past
<1>2. <<>> \in Seq(Bytes)
  OBVIOUS
<1>3. DetectTypeOK'
  BY <1>1, <1>2 DEF IInv, DetectTypeOK
<1>4. Places' /\ Heard' /\ Unrecognised' /\ Described'
  BY <1>1 DEF Places, Heard, Unrecognised, Described, Chosen
<1>. QED  BY <1>3, <1>4 DEF IInv

\* A read is a few bytes.
LEMMA ChunksAreBytes == Chunks \subseteq Seq(Bytes)
<1>1. ASSUME NEW n \in 1..ChunkMax PROVE [1..n -> Bytes] \subseteq Seq(Bytes)
  OBVIOUS
<1>. QED  BY <1>1 DEF Chunks

\* No step of the search or of a device disturbs the invariant.
LEMMA Inductive == IInv /\ [Next]_vars => IInv'
<1> SUFFICES ASSUME IInv, [Next]_vars PROVE IInv'
  OBVIOUS
<1>1. ASSUME NEW d \in Devices, Replug(d) \/ Reboot(d) PROVE IInv'
  BY <1>1, WorldStep
<1>2. CASE Detector
  <2>1. ASSUME NEW listed \in {Listed, {}}, Enumerate(listed) PROVE IInv'
    BY <2>1, EnumerateStep
  <2>2. ASSUME NEW listed \in {Listed, {}}, EnumerateAgain(listed) PROVE IInv'
    BY <2>2, EnumerateAgainStep
  <2>3. CASE NextCandidate
    BY <2>3, NextCandidateStep
  <2>4. CASE ProbeEnds
    BY <2>4, GiveUpStep DEF ProbeEnds
  <2>. QED  BY <1>2, <2>1, <2>2, <2>3, <2>4 DEF Detector
<1>3. CASE Opens
  <2>1. CASE OpenFails
    BY <2>1, GiveUpStep DEF OpenFails
  <2>2. CASE OpenSucceeds
    BY <2>2, OpenStep
  <2>. QED  BY <1>3, <2>1, <2>2 DEF Opens
<1>4. CASE Take
  BY <1>4, TakeStep
<1>5. ASSUME NEW c \in Chunks, Read(c) PROVE IInv'
  BY <1>5, ChunksAreBytes, ReadStep
<1>6. CASE UNCHANGED vars
  <2>1. UNCHANGED <<attached, booting, at, ready, boot, todo, target, window, stream, changed, missed>>
    BY <1>6 DEF vars, world, search, past
  <2>2. DetectTypeOK'
    BY <2>1 DEF IInv, DetectTypeOK
  <2>3. Places' /\ Described' /\ Unrecognised'
    BY <2>1 DEF IInv, Places, Described, Chosen, Unrecognised
  <2>4. Heard'
    BY <2>1 DEF IInv, Heard
  <2>. QED  BY <2>2, <2>3, <2>4 DEF IInv
<1>. QED  BY <1>1, <1>2, <1>3, <1>4, <1>5, <1>6 DEF Next

------------------------------------------------------------------------------
(* Theorems.                                                               *)

\* In every behaviour the invariant holds: the search has ports, bytes and
\* devices in hand, as each of its places asks.
THEOREM Correct == Spec => []IInv
BY Initially, Inductive, PTL DEF Spec

\* The search's state has its types.  (serial.rs)
THEOREM TypeCorrect == Spec => []DetectTypeOK
<1>1. IInv => DetectTypeOK
  BY DEF IInv
<1>. QED  BY <1>1, Correct, PTL

\* No port that the search opens or offers is a board that an enumeration saw in
\* its bootloader.  (is_bootloader_product, in both lists)
THEOREM BootloaderSpared == Spec => []BootloaderLeftAlone
<1>1. IInv => BootloaderLeftAlone
  BY DEF IInv, Places, Described, Chosen, BootloaderLeftAlone
<1>. QED  BY <1>1, Correct, PTL

\* No port is probed while a board of a known vendor that the allowlist's
\* enumeration listed is still there.  (detect_flight_controller)
THEOREM RecognisedGoFirst == Spec => []RecognisedFirst
<1>1. IInv => RecognisedFirst
  BY DEF IInv, Unrecognised, RecognisedFirst
<1>. QED  BY <1>1, Correct, PTL

\* However a header is split across reads, and wherever the window is cut, the
\* probe hears it as soon as it is complete.  (scan_for_heartbeat)
THEOREM NoHeaderMissed == Spec => []HeaderNeverMissed
<1>1. IInv => HeaderNeverMissed
  BY DEF IInv, Heard, HeaderNeverMissed
<1>. QED  BY <1>1, Correct, PTL
=============================================================================
