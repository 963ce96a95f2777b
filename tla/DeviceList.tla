------------------------------ MODULE DeviceList ------------------------------
(***************************************************************************)
(* The list of tokens (fido_dev_info_manifest), what opens when a path of  *)
(* it is used, and the numbers fido2-manage.sh gives to its entries.       *)
(* A place is where a device can be opened: a node of a HID driver, an NFC *)
(* adapter with a card, a PC/SC reader with a card.  A token may have      *)
(* several.  Plugging in and out, and what the kernel and pcscd then show, *)
(* is external.                                                            *)
(***************************************************************************)
EXTENDS Integers, SequencesExt

CONSTANTS
  Systems,    \* some of AllSystems
  Tokens,     \* FIDO tokens
  Others,     \* other HID devices and cards
  MaxNodes,   \* MAX_UHID: node numbers that are tried
  MaxReaders, \* READERS: readers that are looked at
  Room,       \* entries that fit in the list
  MaxPlaces, MaxChanges,   \* bounds: places at a time, changes
  Absent      \* no device, no path

AllDrivers == {"reader", "nfc", "hidraw", "uhid", "fido", "hid", "winhello"}

AllSystems == {"linux", "freebsd", "netbsd", "openbsd", "osx", "win", "hidapi"}

ASSUME ListAssumption ==
  /\ Systems \subseteq AllSystems /\ Tokens \cap Others = {} /\ Absent \notin Tokens \cup Others
  /\ Absent \notin AllDrivers \X Int
  /\ {MaxNodes, MaxReaders, Room, MaxPlaces, MaxChanges} \subseteq Nat

VARIABLES
  sys,       \* the system it runs on
  places,    \* the places in the order of the system's buses
  listed,    \* the list the user has seen: paths and the devices they were
  changed,   \* a device came, went, or was taken by another process since
  chosen,    \* the path fido2-manage.sh has found for the number it was given
  opened,    \* the path that was opened, the device that was meant, and the one it was
  changes    \* counter for MaxChanges

listVars == <<sys, places, listed, changed, chosen, opened, changes>>

Nothing == [path |-> Absent, meant |-> Absent, got |-> Absent]
NotChosen == [path |-> Absent, meant |-> Absent]

ListInit ==
  /\ sys \in Systems
  /\ places = <<>> /\ listed = <<>> /\ changed = FALSE
  /\ chosen = NotChosen /\ opened = Nothing /\ changes = 0

-----------------------------------------------------------------------------
(* Places come and go.                                                     *)

\* hidraw(4) or uhid(4) is configured per device on FreeBSD; fido(4) only takes tokens.
Drivers(dev) ==
  {"reader"}
  \cup (CASE sys = "freebsd" -> {"hidraw", "uhid"}
          [] sys = "netbsd"  -> {"uhid"}
          [] sys = "openbsd" -> IF dev \in Tokens THEN {"fido"} ELSE {}
          [] sys = "linux"   -> {"hidraw", "nfc"}
          [] sys = "win"     -> {"hid", "winhello"}
          [] OTHER           -> {"hid"})

Nodes(driver) == {a \in ToSet(places) : a.driver = driver}

FreeNumber(driver) ==
  LET used == {a.number : a \in Nodes(driver)} IN
  CHOOSE n \in 0 .. MaxPlaces : n \notin used /\ \A k \in 0 .. n - 1 : k \in used

Change(now) ==
  /\ changes < MaxChanges
  /\ places' = now /\ changed' = TRUE /\ changes' = changes + 1
  /\ UNCHANGED <<sys, listed, chosen, opened>>

Plug ==
  /\ Len(places) < MaxPlaces
  /\ \E dev \in Tokens \cup Others, i \in 1 .. Len(places) + 1 : \E driver \in Drivers(dev) :
       Change(InsertAt(places, i, [dev |-> dev, driver |-> driver, number |-> FreeNumber(driver),
                                   busy |-> FALSE]))

Unplug == \E i \in DOMAIN places : Change(RemoveAt(places, i))

\* Another process opens or closes the device (hidraw: locks it; a reader: shares it).
Taken == \E i \in DOMAIN places : Change([places EXCEPT ![i].busy = ~@])

-----------------------------------------------------------------------------
(* fido_dev_info_manifest: the manifests of the transports, one after the  *)
(* other, while there is room.                                             *)

\* The k-th of some numbers, and what a sequence has at them, in its order.
Kth(set, k) == CHOOSE n \in set : Cardinality({m \in set : m <= n}) = k
Sub(seq, set) == [k \in 1 .. Cardinality(set) |-> seq[Kth(set, k)]]

At(driver) == Sub(places, {i \in DOMAIN places : places[i].driver = driver})

\* The usage page of the report descriptor, or the applet that could be selected.
IsFido(a) == a.dev \in Tokens

\* copy_info has to open the node on the BSDs and the adapter on nfc, which cannot be done
\* twice.  hidraw and macOS nodes are not opened; a reader is, but shared.
ListsAlone(a) ==
  \/ a.driver = "nfc"
  \/ sys \in {"freebsd", "netbsd", "openbsd"} /\ a.driver # "reader"

CopyInfo(a) == IsFido(a) /\ (ListsAlone(a) => ~a.busy)

Good(seq) == Sub(seq, {i \in DOMAIN seq : CopyInfo(seq[i])})

\* A mistake: the slots are those of the readers with a token.
PathOf_Listed(a) ==
  IF a.driver = "reader"
  THEN <<"reader", SelectInSeq(Good(At("reader")), LAMBDA r : r = a) - 1>>
  ELSE <<a.driver, a.number>>

PathOf(a) ==
  IF a.driver = "reader" THEN <<"reader", SelectInSeq(At("reader"), LAMBDA r : r = a) - 1>>
  ELSE <<a.driver, a.number>>

Entry(a) == [path |-> PathOf(a), dev |-> a.dev]

Entries(seq) == [i \in DOMAIN Good(seq) |-> Entry(Good(seq)[i])]

Upto(n, seq) == SubSeq(seq, 1, IF n < Len(seq) THEN n ELSE Len(seq))

\* /dev/uhid0, /dev/uhid1, ...
ByNumber(driver) ==
  LET numbers == {a.number : a \in Nodes(driver)} \cap 0 .. MaxNodes - 1 IN
  [k \in 1 .. Cardinality(numbers) |->
     CHOOSE a \in Nodes(driver) : a.number = Kth(numbers, k)]

\* fido_hid_manifest: the orders in which it can meet the HID devices.
LinuxManifest   == {Entries(At("hidraw"))}
FreeBSDManifest == {IF Entries(ByNumber("hidraw")) # <<>> THEN Entries(ByNumber("hidraw"))
                    ELSE Entries(ByNumber("uhid"))}   \* hidraw(4) is preferred over uhid(4)
NetBSDManifest  == {Entries(ByNumber("uhid"))}
OpenBSDManifest == {Entries(ByNumber("fido"))}
OsxManifest     == {Entries(s) : s \in SetToSeqs(Nodes("hid"))}   \* a CFSet
WinManifest     == {Entries(At("hid"))}
HidapiManifest  == {Entries(At("hid"))}

HidManifest ==
  CASE sys = "linux"   -> LinuxManifest
    [] sys = "freebsd" -> FreeBSDManifest
    [] sys = "netbsd"  -> NetBSDManifest
    [] sys = "openbsd" -> OpenBSDManifest
    [] sys = "osx"     -> OsxManifest
    [] sys = "win"     -> WinManifest
    [] sys = "hidapi"  -> HidapiManifest

NfcManifest  == Entries(At("nfc"))
PcscManifest == Entries(Upto(MaxReaders, At("reader")))
WinhelloManifest == Entries(At("winhello"))

RunManifest(list, more) == list \o Upto(Room - Len(list), more)

DevInfoManifest ==
  {RunManifest(RunManifest(RunManifest(RunManifest(<<>>, hid), NfcManifest), PcscManifest),
               WinhelloManifest) : hid \in HidManifest}

\* fido2-token -L: token_list.
ListTokens ==
  /\ listed' \in DevInfoManifest
  /\ changed' = FALSE
  /\ UNCHANGED <<sys, places, chosen, opened, changes>>

-----------------------------------------------------------------------------
(* A path is opened.                                                       *)

\* fido_hid_open locks a hidraw node and seizes a macOS device; Windows, hidapi and pcscd
\* share what they open.
OpensAlone(a) ==
  \/ a.driver = "nfc"
  \/ sys \in {"linux", "freebsd", "netbsd", "openbsd", "osx"} /\ a.driver # "reader"

GetReader(n) == IF n < MaxReaders /\ n < Len(At("reader")) THEN {At("reader")[n + 1]} ELSE {}

\* fido_pcsc_open and the others: what is at the path now, or Absent.
OpenPath(path) ==
  LET found == IF path = Absent THEN {}
               ELSE IF path[1] = "reader" THEN GetReader(path[2])
               ELSE {a \in Nodes(path[1]) : a.number = path[2]}
      opens == {a \in found : OpensAlone(a) => ~a.busy} IN
  IF opens = {} THEN Absent ELSE (CHOOSE a \in opens : TRUE).dev

\* fido2-token with a path that was listed.
OpenListed ==
  /\ \E i \in DOMAIN listed :
       opened' = [path |-> listed[i].path, meant |-> listed[i].dev,
                  got |-> OpenPath(listed[i].path)]
  /\ UNCHANGED <<sys, places, listed, changed, chosen, changes>>

Slot0 == <<"reader", 0>>

\* cut -d ':' -f 1: nothing is left of a path with a colon but what is before it.
Cut(path) == IF path[1] \in {"reader", "nfc"} THEN Absent ELSE path

\* fido2-manage.sh -device n lists again: slot 0 if that is listed, else the nth line.
ScriptChooses ==
  /\ sys = "linux" /\ chosen = NotChosen
  /\ \E n \in DOMAIN listed, list \in DevInfoManifest :
       chosen' = [meant |-> listed[n].dev,
                  path |-> IF \E i \in DOMAIN list : list[i].path = Slot0 THEN Slot0
                           ELSE IF n \in DOMAIN list THEN Cut(list[n].path)
                           ELSE Absent]
  /\ UNCHANGED <<sys, places, listed, changed, opened, changes>>

\* The user has confirmed, and fido2-token acts on the path.
ScriptActs ==
  /\ chosen # NotChosen
  /\ opened' = [path |-> chosen.path, meant |-> chosen.meant, got |-> OpenPath(chosen.path)]
  /\ chosen' = NotChosen
  /\ UNCHANGED <<sys, places, listed, changed, changes>>

ListNext ==
  \/ Plug \/ Unplug \/ Taken
  \/ ListTokens \/ OpenListed \/ ScriptChooses \/ ScriptActs

ListSpec == ListInit /\ [][ListNext]_listVars

-----------------------------------------------------------------------------
(* Properties.                                                             *)

\* Another process holds the place with this path, and it cannot be opened twice.
InUse(path) == \E a \in ToSet(places) : OpensAlone(a) /\ a.busy /\ PathOf(a) = path

\* While nothing has changed since the list was printed, a path of it opens the token it
\* was printed for, or nothing at all where it was listed although another process holds
\* it (hidraw, macOS): no manifest names a place otherwise than its open function finds
\* it, and none but these lists what will not open.
ListedOpens ==
  [][OpenListed /\ ~changed =>
       opened'.got = IF InUse(opened'.path) THEN Absent ELSE opened'.meant]_listVars

\* fido2-manage.sh acts on the device of that number, or on none, while nothing has
\* changed since the user saw the numbers (fido2-manage.sh: "Perform a factory reset on a
\* specific device: ./fido2-manage.sh -reset -device 1").
ActsOnSeen == [][ScriptActs /\ ~changed => opened'.got \in {opened'.meant, Absent}]_listVars
=============================================================================
