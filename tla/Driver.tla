------------------------------- MODULE Driver -------------------------------
(***************************************************************************)
(* The life of the driver (src/src/driver.c): the cameras of the settings  *)
(* file become devices, the connection lists connect them, every device is *)
(* registered with the kernel, and unloading the module undoes it all.     *)
(* Device objects are counted references (src/src/device.c); a device is   *)
(* referred to by the driver's list and by every device it is connected    *)
(* to.                                                                     *)
(*                                                                         *)
(* The settings are input: each camera and each connection list is chosen  *)
(* when it is read.  A device is named by its position in the driver's     *)
(* list, which is what a connection list refers to.  The kernel's choice   *)
(* of a device number (video_register_device) is external.                 *)
(***************************************************************************)
EXTENDS Integers, FiniteSets, Sequences, Functions

CONSTANTS
  MaxCameras,  (* bound: cameras in the settings                           *)
  MaxNodes,    (* bound: nodes in one connection list                      *)
  Numbers,     (* the device numbers there are                             *)
  HostNumbers, (* those taken by other drivers                             *)
  Requests,    (* the values of videonr, -1 if there is none               *)
  Formats      (* first format of a device                                 *)

Free     == -1                  (* no node: vdev is NULL *)
Devs     == 1 .. MaxCameras
Cameras  == [type : {"output", "capture"}, direct : BOOLEAN, format : Formats,
             videonr : Requests]

ASSUME DriverAssumption ==
  /\ MaxCameras \in Nat /\ MaxNodes \in Nat
  /\ Numbers \subseteq Nat /\ IsFiniteSet(Numbers)
  /\ HostNumbers \subseteq Numbers
  /\ Requests \subseteq Numbers \cup {Free}

VARIABLES
  phase,      (* where akvcam_driver_init or akvcam_driver_uninit stands    *)
  cameras,    (* cameras read so far, those without a device included       *)
  devices,    (* the driver's list: the attributes of each device           *)
  videonr,    (* videonr of each device; set to -1 before the second round  *)
  connected,  (* connected_devices of each device                           *)
  node,       (* the number under which a device is registered              *)
  next,       (* the device the current loop stands at                      *)
  refs,       (* reference count of each device                             *)
  puts,       (* references still to be dropped, in order                   *)
  failed      (* history: some registration has failed                      *)

vars == <<phase, cameras, devices, videonr, connected, node, next, refs, puts,
          failed>>

Phases == {"read", "connect", "numbered", "rest", "loaded", "unload", "gone"}

TypeOK ==
  /\ phase \in Phases
  /\ cameras \in 0 .. MaxCameras
  /\ devices \in Seq(Cameras) /\ Len(devices) <= cameras
  /\ videonr \in [Devs -> Requests \cup {Free}]
  /\ connected \in [Devs -> Seq(Devs)]
  /\ node \in [Devs -> Numbers \cup {Free}]
  /\ next \in 1 .. MaxCameras + 1
  /\ refs \in [Devs -> Nat]
  /\ puts \in Seq(Devs)
  /\ failed \in BOOLEAN

Init ==
  /\ phase = "read"
  /\ cameras = 0
  /\ devices = << >>
  /\ videonr = [d \in Devs |-> Free]
  /\ connected = [d \in Devs |-> << >>]
  /\ node = [d \in Devs |-> Free]
  /\ next = 1
  /\ refs = [d \in Devs |-> 0]
  /\ puts = << >>
  /\ failed = FALSE

-----------------------------------------------------------------------------
(* Reading the cameras.                                                    *)

(* A usable camera: the list holds the only reference when it is done.     *)
ReadDevice(camera) ==
  /\ phase = "read"
  /\ cameras < MaxCameras
  /\ cameras' = cameras + 1
  /\ devices' = Append(devices, camera)
  /\ videonr' = [videonr EXCEPT ![Len(devices) + 1] = camera.videonr]
  /\ refs' = [refs EXCEPT ![Len(devices) + 1] = 1]
  /\ UNCHANGED <<phase, connected, node, next, puts, failed>>

(* A camera without a description or without a known format: no device,    *)
(* and every camera after it moves up by one.                              *)
SkipCamera ==
  /\ phase = "read"
  /\ cameras < MaxCameras
  /\ cameras' = cameras + 1
  /\ UNCHANGED <<phase, devices, videonr, connected, node, next, refs, puts,
                 failed>>

ReadingDone ==
  /\ phase = "read"
  /\ phase' = "connect"
  /\ UNCHANGED <<cameras, devices, videonr, connected, node, next, refs, puts,
                 failed>>

-----------------------------------------------------------------------------
(* Connecting them.                                                        *)

(* Node lists as they may stand in the settings.  0 stands for what is no  *)
(* number, or no device at all.                                            *)
NodeLists == UNION {[1 .. n -> 0 .. MaxCameras + 1] : n \in 1 .. MaxNodes}

(* the whole list is dropped unless it is one output, then captures        *)
ValidList(nodes) ==
  /\ Len(nodes) >= 2
  /\ \A j \in DOMAIN nodes :
       /\ nodes[j] \in 1 .. Len(devices)
       /\ devices[nodes[j]].type = IF j = 1 THEN "output" ELSE "capture"

(* (wrong: a capture takes any number of outputs)                          *)
ConnectableTwice(out, cap) ==
  devices[out].direct /\ devices[cap].direct =>
    devices[out].format = devices[cap].format

(* A capture takes one output.  A direct mode mismatch is only warned of;  *)
(* two direct devices must agree on the format.                            *)
Connectable(out, cap) ==
  /\ connected[cap] = << >>
  /\ devices[out].direct /\ devices[cap].direct =>
       devices[out].format = devices[cap].format

(* the captures among the first n nodes that are connected, a repeated one *)
(* only once                                                               *)
Accepted(nodes) ==
  LET first[n \in 1 .. Len(nodes)] ==
        IF n = 1 THEN << >>
        ELSE IF nodes[n] \in Range(first[n - 1]) \/ ~Connectable(nodes[1], nodes[n])
             THEN first[n - 1]
             ELSE Append(first[n - 1], nodes[n])
  IN  first[Len(nodes)]

(* (wrong: takes no references)                                            *)
ConnectUncounted(nodes) ==
  LET out  == nodes[1]
      caps == Accepted(nodes)
  IN  /\ phase = "connect"
      /\ ValidList(nodes)
      /\ connected' = [d \in Devs |->
           IF d = out THEN connected[d] \o caps
           ELSE IF d \in Range(caps) THEN Append(connected[d], out)
           ELSE connected[d]]
      /\ UNCHANGED <<phase, cameras, devices, videonr, node, next, refs, puts,
                     failed>>

ConnectList(nodes) ==
  LET out  == nodes[1]
      caps == Accepted(nodes)
  IN  /\ phase = "connect"
      /\ ValidList(nodes)
      /\ connected' = [d \in Devs |->
           IF d = out THEN connected[d] \o caps
           ELSE IF d \in Range(caps) THEN Append(connected[d], out)
           ELSE connected[d]]
      /\ refs' = [d \in Devs |->
           IF d = out THEN refs[d] + Len(caps)
           ELSE IF d \in Range(caps) THEN refs[d] + 1
           ELSE refs[d]]
      /\ UNCHANGED <<phase, cameras, devices, videonr, node, next, puts, failed>>

(* a list that is dropped changes nothing                                  *)
RejectList(nodes) ==
  /\ phase = "connect"
  /\ ~ValidList(nodes)
  /\ UNCHANGED vars

ConnectingDone ==
  /\ phase = "connect"
  /\ phase' = "numbered"
  /\ UNCHANGED <<cameras, devices, videonr, connected, node, next, refs, puts,
                 failed>>

-----------------------------------------------------------------------------
(* Registering them.                                                       *)

FreeNumbers == (Numbers \ HostNumbers) \ Range(node)

Least(S) == CHOOSE n \in S : \A m \in S : n <= m

(* The kernel takes the first free number from the requested one on, and   *)
(* starts over at 0 when there is none.                                    *)
NumberFor(nr) ==
  LET above == {n \in FreeNumbers : n >= nr}
  IN  IF above # {} THEN Least(above) ELSE Least(FreeNumbers)

(* akvcam_device_register succeeds                                         *)
Registered(d) ==
  /\ FreeNumbers # {}
  /\ node' = [node EXCEPT ![d] = NumberFor(videonr'[d])]
  /\ UNCHANGED failed

(* ... or fails, and leaves no node                                        *)
RegisterFailed ==
  /\ failed' = TRUE
  /\ UNCHANGED node

(* (wrong: one round for all devices)                                      *)
RegisterAny ==
  /\ phase = "numbered"
  /\ next <= Len(devices)
  /\ UNCHANGED videonr
  /\ Registered(next) \/ RegisterFailed
  /\ next' = next + 1
  /\ UNCHANGED <<phase, cameras, devices, connected, refs, puts>>

(* First round: the devices with a number of their own, failures tolerated *)
RegisterNumbered ==
  /\ phase = "numbered"
  /\ next <= Len(devices)
  /\ IF videonr[next] >= 0
     THEN UNCHANGED videonr /\ (Registered(next) \/ RegisterFailed)
     ELSE UNCHANGED <<node, failed, videonr>>
  /\ next' = next + 1
  /\ UNCHANGED <<phase, cameras, devices, connected, refs, puts>>

NumberedDone ==
  /\ phase = "numbered"
  /\ next > Len(devices)
  /\ phase' = "rest"
  /\ next' = 1
  /\ UNCHANGED <<cameras, devices, videonr, connected, node, refs, puts, failed>>

(* Second round: every device not registered yet, with any number          *)
RegisterRest ==
  /\ phase = "rest"
  /\ next <= Len(devices)
  /\ IF node[next] = Free
     THEN /\ videonr' = [videonr EXCEPT ![next] = Free]
          /\ Registered(next)
     ELSE UNCHANGED <<videonr, node, failed>>
  /\ next' = next + 1
  /\ UNCHANGED <<phase, cameras, devices, connected, refs, puts>>

(* (wrong: leaves the registered devices in place)                         *)
RestFailsHalfway ==
  /\ phase = "rest"
  /\ next <= Len(devices)
  /\ node[next] = Free
  /\ videonr' = [videonr EXCEPT ![next] = Free]
  /\ failed' = TRUE
  /\ phase' = "loaded"
  /\ UNCHANGED <<cameras, devices, connected, node, next, refs, puts>>

(* A failure here unregisters all of them.  akvcam_driver_init does not    *)
(* look at the result: the module stays loaded.                            *)
RegisterRestFails ==
  /\ phase = "rest"
  /\ next <= Len(devices)
  /\ node[next] = Free
  /\ videonr' = [videonr EXCEPT ![next] = Free]
  /\ node' = [d \in Devs |-> Free]
  /\ failed' = TRUE
  /\ phase' = "loaded"
  /\ UNCHANGED <<cameras, devices, connected, next, refs, puts>>

RestDone ==
  /\ phase = "rest"
  /\ next > Len(devices)
  /\ phase' = "loaded"
  /\ UNCHANGED <<cameras, devices, videonr, connected, node, next, refs, puts,
                 failed>>

-----------------------------------------------------------------------------
(* Unloading the module.                                                   *)

(* akvcam_driver_uninit unregisters every device, then deletes the list,   *)
(* which drops one reference to each device in it.                         *)
Uninit ==
  /\ phase = "loaded"
  /\ node' = [d \in Devs |-> Free]
  /\ puts' = [d \in 1 .. Len(devices) |-> d]
  /\ phase' = "unload"
  /\ UNCHANGED <<cameras, devices, videonr, connected, next, refs, failed>>

(* akvcam_device_delete: the last reference frees the device, and that     *)
(* drops the references of its own list of connected devices first.        *)
PutDevice ==
  LET d == Head(puts)
  IN  /\ phase = "unload"
      /\ puts # << >>
      /\ refs' = [refs EXCEPT ![d] = @ - 1]
      /\ puts' = IF refs[d] = 1 THEN connected[d] \o Tail(puts) ELSE Tail(puts)
      /\ connected' = IF refs[d] = 1 THEN [connected EXCEPT ![d] = << >>]
                      ELSE connected
      /\ UNCHANGED <<phase, cameras, devices, videonr, node, next, failed>>

UninitDone ==
  /\ phase = "unload"
  /\ puts = << >>
  /\ phase' = "gone"
  /\ UNCHANGED <<cameras, devices, videonr, connected, node, next, refs, puts,
                 failed>>

-----------------------------------------------------------------------------
Next ==
  \/ \E camera \in Cameras : ReadDevice(camera)
  \/ SkipCamera
  \/ ReadingDone
  \/ \E nodes \in NodeLists : ConnectList(nodes)
  \/ \E nodes \in NodeLists : RejectList(nodes)
  \/ ConnectingDone
  \/ RegisterNumbered
  \/ NumberedDone
  \/ RegisterRest
  \/ RegisterRestFails
  \/ RestDone
  \/ Uninit
  \/ PutDevice
  \/ UninitDone

Spec == Init /\ [][Next]_vars

-----------------------------------------------------------------------------
(* Properties.                                                             *)

(* The connections are a forest of outputs with their captures, seen the   *)
(* same from both ends: whatever the lists say and however often they name *)
(* a device, a capture has one output at most, an output has no capture    *)
(* twice, and two devices in direct mode agree on the format.              *)
ConnectionsSound ==
  \A d \in Devs :
    /\ IsInjective(connected[d])
    /\ \A e \in Range(connected[d]) :
         /\ d \in Range(connected[e])
         /\ devices[d].type # devices[e].type
         /\ devices[d].type = "capture" => Len(connected[d]) = 1
         /\ devices[d].direct /\ devices[e].direct =>
              devices[d].format = devices[e].format

(* the devices that ask for a number, when no two want the same and nobody *)
(* else has one of them                                                    *)
Asking == {d \in 1 .. Len(devices) : devices[d].videonr >= 0}

Uncontested ==
  /\ \A d, e \in Asking : devices[d].videonr = devices[e].videonr => d = e
  /\ \A d \in Asking : devices[d].videonr \notin HostNumbers

(* A device gets the number it asks for when nobody else wants or has it,  *)
(* wherever it stands among devices that take any number: akvcam registers *)
(* the numbered devices first for this.                                    *)
NumbersHonoured ==
  phase = "loaded" /\ ~failed /\ Uncontested =>
    \A d \in Asking : node[d] = devices[d].videonr

(* Loading leaves all of the devices in place or none of them: a failed    *)
(* registration cannot leave a capture without its output.                 *)
AllOrNothing ==
  phase = "loaded" =>
    \/ \A d \in 1 .. Len(devices) : node[d] # Free
    \/ \A d \in 1 .. Len(devices) : node[d] = Free

(* A device is not freed while anything can still reach it: the kernel     *)
(* through its node, another device through its connections, or a          *)
(* reference that is about to be dropped.                                  *)
FreedIsUnreachable ==
  \A d \in 1 .. Len(devices) :
    refs[d] = 0 =>
      /\ node[d] = Free
      /\ d \notin Range(puts)
      /\ \A e \in Devs : d \notin Range(connected[e])

(* Every device is freed when the module is gone: the lifetime of an       *)
(* object ends with the last use of it.                                    *)
AllDevicesFreed ==
  phase = "gone" => \A d \in 1 .. Len(devices) : refs[d] = 0

(* A capture in direct mode writes the frames of its output as they are,   *)
(* so that the formats of the two must match, whatever the mode of the     *)
(* output: akvcam_device_clock_run_once takes that as given.               *)
DirectFormatsMatch ==
  \A d \in 1 .. Len(devices), e \in 1 .. Len(devices) :
    e \in Range(connected[d]) /\ devices[d].type = "capture"
        /\ devices[d].direct =>
      devices[d].format = devices[e].format

=============================================================================
