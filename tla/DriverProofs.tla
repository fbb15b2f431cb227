---------------------------- MODULE DriverProofs ----------------------------
(***************************************************************************)
(* Proofs about Driver, for any number of cameras, nodes and device        *)
(* numbers.                                                                *)
(*                                                                         *)
(* Connections are seen the same from both ends, and the count of a device *)
(* is the number of its connections, and one more while the driver's list  *)
(* refers to it.  So a device that is connected is never freed, and a      *)
(* device that is freed has nothing left to drop.  The numbers rest on the *)
(* two rounds of the registration: before the second one no device holds a *)
(* number that another one asks for.                                       *)
(***************************************************************************)
EXTENDS Driver, SequenceLemmas, TLAPS

Listed == 1 .. Len(devices)

(* What has not happened yet, and what is over.                            *)
Stages ==
  /\ \A d \in Devs : d \notin Listed =>
       connected[d] = << >> /\ node[d] = Free /\ refs[d] = 0
  /\ phase = "read" => \A d \in Devs : connected[d] = << >>
  /\ phase \in {"read", "connect"} => next = 1 /\ \A d \in Devs : node[d] = Free
  /\ phase \in {"unload", "gone"} => \A d \in Devs : node[d] = Free
  /\ phase # "unload" => puts = << >>

(* The driver's list still refers to device d.                             *)
InDriverList(d) == phase \in {"unload", "gone"} => d \in Range(puts)

(* A device's count is what refers to it.                                  *)
Counted ==
  /\ IsInjective(puts)
  /\ Range(puts) \subseteq Listed
  /\ \A d \in Listed :
       refs[d] = Len(connected[d]) + (IF InDriverList(d) THEN 1 ELSE 0)

(* The first round gives every device that asks its number, in turn, and   *)
(* no other device any; the second round leaves these alone.               *)
Numbering ==
  /\ phase \in {"read", "connect", "numbered"} =>
       \A d \in Listed : videonr[d] = devices[d].videonr
  /\ phase = "numbered" /\ ~failed /\ Uncontested =>
       \A d \in Listed : node[d] = IF d < next /\ d \in Asking
                                   THEN devices[d].videonr ELSE Free
  /\ phase \in {"rest", "loaded"} /\ ~failed /\ Uncontested =>
       \A d \in Asking : node[d] = devices[d].videonr

(* The second round leaves no device behind it without a node.             *)
Rounds ==
  /\ phase = "rest" => \A d \in Listed : d < next => node[d] # Free
  /\ AllOrNothing

DriverInv ==
  TypeOK /\ Stages /\ ConnectionsSound /\ Counted /\ Numbering /\ Rounds

-----------------------------------------------------------------------------
(* The kernel's choice of a number.                                        *)

LEMMA LeastIn ==
  ASSUME NEW S \in SUBSET Nat, S # {}
  PROVE  Least(S) \in S /\ \A m \in S : Least(S) <= m
<1>1. \E n \in S : \A m \in S : n <= m
  BY LeastIndex
<1> QED
  BY <1>1, Zenon DEF Least

LEMMA NumbersAreNumbers ==
  /\ Numbers \subseteq Nat
  /\ Free \notin Numbers
  /\ FreeNumbers \subseteq Numbers
  /\ \A nr \in Requests : nr >= 0 => nr \in Numbers
  /\ \A nr \in Requests \cup {Free} : nr \in Int
BY DriverAssumption DEF DriverAssumption, Free, FreeNumbers

(* A free number is found when there is one, and the one that is asked for *)
(* when that is free.                                                      *)
LEMMA NumberIsFree ==
  ASSUME NEW nr \in Requests \cup {Free}, FreeNumbers # {}
  PROVE  /\ NumberFor(nr) \in FreeNumbers
         /\ nr \in FreeNumbers => NumberFor(nr) = nr
<1> DEFINE above == {n \in FreeNumbers : n >= nr}
<1>1. FreeNumbers \in SUBSET Nat /\ nr \in Int
  BY NumbersAreNumbers
<1>2. NumberFor(nr) = IF above # {} THEN Least(above) ELSE Least(FreeNumbers)
  BY DEF NumberFor
<1>3. above \in SUBSET Nat /\ above \subseteq FreeNumbers /\ \A n \in above : n >= nr
  BY <1>1
<1>4. nr \in FreeNumbers => nr \in above
  BY <1>1
<1> HIDE DEF above
<1>5. NumberFor(nr) \in FreeNumbers
  BY <1>1, <1>2, <1>3, LeastIn
<1>6. ASSUME nr \in FreeNumbers PROVE NumberFor(nr) = nr
  <2>1. Least(above) \in above /\ Least(above) <= nr
    BY <1>3, <1>4, <1>6, LeastIn
  <2>2. Least(above) >= nr /\ Least(above) \in Nat
    BY <1>3, <2>1
  <2> QED
    BY <1>1, <1>2, <1>4, <1>6, <2>1, <2>2
<1> QED
  BY <1>5, <1>6

-----------------------------------------------------------------------------
(* What a connection list connects: captures of the list that take an      *)
(* output, each once.                                                      *)
LEMMA AcceptedCaptures ==
  ASSUME TypeOK, NEW nodes \in NodeLists, ValidList(nodes)
  PROVE  /\ Accepted(nodes) \in Seq(Devs)
         /\ IsInjective(Accepted(nodes))
         /\ \A c \in Range(Accepted(nodes)) :
              /\ c \in Listed
              /\ devices[c].type = "capture"
              /\ Connectable(nodes[1], c)
<1> DEFINE Longer(s, c) == IF c \in Range(s) \/ ~Connectable(nodes[1], c)
                           THEN s ELSE Append(s, c)
           Defines(f, m) == f = [n \in 1 .. m |-> IF n = 1 THEN << >>
                                                ELSE Longer(f[n - 1], nodes[n])]
           first == CHOOSE f : Defines(f, Len(nodes))
           Sound(n) == /\ first[n] \in Seq(Devs)
                       /\ IsInjective(first[n])
                       /\ \A c \in Range(first[n]) :
                            /\ \E j \in 2 .. Len(nodes) : nodes[j] = c
                            /\ Connectable(nodes[1], c)
<1>1. /\ Len(nodes) \in Nat /\ Len(nodes) >= 2
      /\ DOMAIN nodes = 1 .. Len(nodes)
      /\ \A j \in 1 .. Len(nodes) : nodes[j] \in Listed
      /\ \A j \in 2 .. Len(nodes) : devices[nodes[j]].type = "capture"
  <2>1. PICK n \in 1 .. MaxNodes : nodes \in [1 .. n -> 0 .. MaxCameras + 1]
    BY DEF NodeLists
  <2>2. n \in Nat /\ Len(nodes) = n /\ DOMAIN nodes = 1 .. n
    BY <2>1, DriverAssumption DEF DriverAssumption
  <2> QED
    BY <2>2 DEF ValidList, Listed
<1>2. Listed \subseteq Devs
  BY DriverAssumption DEF Listed, Devs, TypeOK, DriverAssumption
<1>3. Accepted(nodes) = first[Len(nodes)]
  BY DEF Accepted
<1> HIDE DEF Longer
<1>4. \E f : Defines(f, Len(nodes))
  <2> DEFINE Missing == {m \in Nat \ {0} : ~ \E f : Defines(f, m)}
  <2>1. ASSUME NEW m \in Missing PROVE \E k \in Missing : k < m
    <3>1. m # 1
      <4>1. Defines([n \in 1 .. 1 |-> << >>], 1)
        OBVIOUS
      <4> QED
        BY <4>1
    <3>2. m \in Nat /\ m - 1 \in Nat \ {0} /\ m - 1 < m
      BY <3>1
    <3>3. ASSUME NEW f, Defines(f, m - 1) PROVE FALSE
      <4> DEFINE g == [n \in 1 .. m |-> IF n = m THEN Longer(f[m - 1], nodes[m])
                                                ELSE f[n]]
      <4>1. \A n \in 1 .. m : n # 1 => n - 1 \in 1 .. m /\ n - 1 # m
        BY <3>2
      <4>2. \A n \in 1 .. m : n # 1 => g[n - 1] = f[n - 1]
        BY <4>1
      <4>3. \A n \in 1 .. m : n # m => n \in 1 .. m - 1
        BY <3>2
      <4>4. \A n \in 1 .. m : n # m =>
              f[n] = IF n = 1 THEN << >> ELSE Longer(f[n - 1], nodes[n])
        BY <3>3, <4>3
      <4>5. \A n \in 1 .. m : g[n] = IF n = 1 THEN << >> ELSE Longer(g[n - 1], nodes[n])
        BY <3>1, <3>2, <4>2, <4>4
      <4>6. Defines(g, m)
        BY <4>5
      <4> QED
        BY <4>6
    <3> QED
      BY <3>2, <3>3
  <2>2. Missing = {}
    <3>1. Missing \in SUBSET Nat
      OBVIOUS
    <3> HIDE DEF Missing
    <3>2. \A m \in Missing : m \in Nat
      BY <3>1
    <3> QED
      BY <2>1, <3>1, <3>2, LeastIndex
  <2>3. Len(nodes) \in Nat \ {0}
    BY <1>1
  <2> QED
    BY <2>2, <2>3
<1>5. Defines(first, Len(nodes))
  BY <1>4
<1> HIDE DEF first
<1>6. /\ first[1] = << >>
      /\ \A n \in 2 .. Len(nodes) :
           first[n] = Longer(first[n - 1], nodes[n]) /\ n - 1 \in 1 .. Len(nodes)
  BY <1>1, <1>5
<1> HIDE DEF Defines
<1>7. Sound(1)
  <2>1. << >> \in Seq(Devs)
    OBVIOUS
  <2> QED
    BY <1>6, <2>1, EmptyDistinct
<1>8. ASSUME NEW n \in 2 .. Len(nodes), Sound(n - 1) PROVE Sound(n)
  <2>1. first[n] = Longer(first[n - 1], nodes[n])
    BY <1>6
  <2>2. CASE nodes[n] \in Range(first[n - 1]) \/ ~Connectable(nodes[1], nodes[n])
    <3>1. first[n] = first[n - 1]
      BY <2>1, <2>2 DEF Longer
    <3> QED
      BY <1>8, <3>1
  <2>3. CASE nodes[n] \notin Range(first[n - 1]) /\ Connectable(nodes[1], nodes[n])
    <3>1. first[n] = Append(first[n - 1], nodes[n])
      BY <2>1, <2>3 DEF Longer
    <3>2. nodes[n] \in Devs /\ first[n - 1] \in Seq(Devs)
      BY <1>1, <1>2, <1>8
    <3>3. /\ first[n] \in Seq(Devs)
          /\ Range(first[n]) = Range(first[n - 1]) \cup {nodes[n]}
          /\ IsInjective(first[n])
      BY <1>8, <2>3, <3>1, <3>2, AppendDistinct
    <3> QED
      BY <1>8, <2>3, <3>3
  <2> QED
    BY <2>2, <2>3
<1>9. \A n \in 1 .. Len(nodes) : Sound(n)
  <2> DEFINE Unsound == {n \in 1 .. Len(nodes) : ~Sound(n)}
  <2>1. Unsound \in SUBSET Nat
    OBVIOUS
  <2>2. ASSUME NEW n \in Unsound PROVE \E k \in Unsound : k < n
    <3>1. n # 1 /\ n \in 1 .. Len(nodes)
      BY <1>7
    <3>2. n \in 2 .. Len(nodes) /\ n - 1 \in 1 .. Len(nodes) /\ n - 1 < n
      BY <1>1, <3>1
    <3>3. ~Sound(n - 1)
      BY <1>8, <3>2
    <3> HIDE DEF Sound
    <3> QED
      BY <3>2, <3>3
  <2>3. Unsound = {}
    <3> HIDE DEF Unsound
    <3>1. \A n \in Unsound : n \in Nat
      BY <2>1
    <3> QED
      BY <2>1, <2>2, <3>1, LeastIndex
  <2> HIDE DEF Sound
  <2> QED
    BY <2>3
<1>10. Sound(Len(nodes))
  <2>1. Len(nodes) \in 1 .. Len(nodes)
    BY <1>1
  <2> HIDE DEF Sound
  <2> QED
    BY <1>9, <2>1
<1> QED
  BY <1>1, <1>3, <1>10

-----------------------------------------------------------------------------
(* Types.                                                                  *)

(* The devices are at most as many as the cameras.                         *)
LEMMA ListedAreDevs ==
  ASSUME TypeOK
  PROVE  /\ Len(devices) \in Nat /\ Len(devices) <= MaxCameras
         /\ Listed \subseteq Devs
         /\ \A d \in Listed : devices[d] \in Cameras
         /\ Devs \subseteq Nat
BY DriverAssumption DEF DriverAssumption, TypeOK, Listed, Devs

LEMMA NextIsListed ==
  ASSUME TypeOK, next <= Len(devices)
  PROVE  next \in Listed /\ next \in Devs /\ next \in Nat
<1>1. next \in 1 .. MaxCameras + 1 /\ MaxCameras \in Nat /\ Len(devices) \in Nat
  BY ListedAreDevs, DriverAssumption DEF TypeOK, DriverAssumption
<1>2. next \in Listed
  BY <1>1 DEF Listed
<1> QED
  BY <1>1, <1>2, ListedAreDevs

LEMMA DriverInvInit == Init => DriverInv
<1> SUFFICES ASSUME Init PROVE DriverInv
  OBVIOUS
<1>1. TypeOK
  <2>1. MaxCameras \in Nat
    BY DriverAssumption DEF DriverAssumption
  <2>2. << >> \in Seq(Cameras) /\ << >> \in Seq(Devs) /\ Len(<< >>) = 0
    OBVIOUS
  <2>3. cameras \in 0 .. MaxCameras /\ next \in 1 .. MaxCameras + 1
    BY <2>1 DEF Init
  <2>4. /\ videonr \in [Devs -> Requests \cup {Free}]
        /\ node \in [Devs -> Numbers \cup {Free}]
        /\ refs \in [Devs -> Nat]
    <3>1. [d \in Devs |-> Free] \in [Devs -> Requests \cup {Free}]
      OBVIOUS
    <3>2. [d \in Devs |-> Free] \in [Devs -> Numbers \cup {Free}]
      OBVIOUS
    <3>3. [d \in Devs |-> 0] \in [Devs -> Nat]
      OBVIOUS
    <3> QED
      BY <3>1, <3>2, <3>3, Zenon DEF Init
  <2>5. connected \in [Devs -> Seq(Devs)]
    BY <2>2 DEF Init
  <2>6. devices \in Seq(Cameras) /\ Len(devices) <= cameras /\ puts \in Seq(Devs)
    BY <2>2 DEF Init
  <2>7. phase \in Phases /\ failed \in BOOLEAN
    BY DEF Init, Phases
  <2> QED
    BY ONLY <2>3, <2>4, <2>5, <2>6, <2>7 DEF TypeOK
<1>2. Listed = {}
  BY DEF Init, Listed
<1>3. Stages
  BY <1>2 DEF Init, Stages
<1>4. ConnectionsSound
  <2>1. \A d \in Devs : connected[d] = << >>
    BY DEF Init
  <2> QED
    BY <2>1, EmptyDistinct DEF ConnectionsSound
<1>5. Counted
  BY <1>2, EmptyDistinct DEF Init, Counted
<1>6. Numbering
  BY <1>2 DEF Init, Numbering
<1>7. Rounds
  BY DEF Init, Rounds, AllOrNothing
<1> QED
  BY <1>1, <1>3, <1>4, <1>5, <1>6, <1>7 DEF DriverInv

(* A registration gives the device a number of its own and nothing else.   *)
LEMMA RegisteredNode ==
  ASSUME TypeOK, NEW d \in Devs, Registered(d), videonr'[d] \in Requests \cup {Free}
  PROVE  /\ node' = [node EXCEPT ![d] = NumberFor(videonr'[d])]
         /\ NumberFor(videonr'[d]) \in FreeNumbers
         /\ videonr'[d] \in FreeNumbers => NumberFor(videonr'[d]) = videonr'[d]
         /\ node' \in [Devs -> Numbers \cup {Free}]
         /\ node'[d] # Free
         /\ \A e \in Devs : e # d => node'[e] = node[e]
<1>1. FreeNumbers # {} /\ node' = [node EXCEPT ![d] = NumberFor(videonr'[d])]
  BY DEF Registered
<1>2. /\ NumberFor(videonr'[d]) \in FreeNumbers
      /\ videonr'[d] \in FreeNumbers => NumberFor(videonr'[d]) = videonr'[d]
  BY <1>1, NumberIsFree
<1>3. NumberFor(videonr'[d]) \in Numbers /\ NumberFor(videonr'[d]) # Free
  BY <1>2, NumbersAreNumbers
<1> QED
  BY <1>1, <1>2, <1>3 DEF TypeOK

LEMMA TypeStep == DriverInv /\ [Next]_vars => TypeOK'
<1> SUFFICES ASSUME DriverInv, [Next]_vars PROVE TypeOK'
  OBVIOUS
<1>t. /\ TypeOK
      /\ Len(devices) \in Nat /\ Len(devices) <= MaxCameras /\ Listed \subseteq Devs
      /\ MaxCameras \in Nat
  BY ListedAreDevs, DriverAssumption DEF DriverInv, DriverAssumption
<1>1. ASSUME NEW camera \in Cameras, ReadDevice(camera) PROVE TypeOK'
  <2>1. Len(devices) + 1 \in Devs
    BY <1>1, <1>t DEF ReadDevice, TypeOK, Devs
  <2>2. /\ devices' \in Seq(Cameras)
        /\ Len(devices') = Len(devices) + 1
    BY <1>1, <1>t DEF ReadDevice, TypeOK
  <2>3. cameras' \in 0 .. MaxCameras /\ Len(devices') <= cameras'
    BY <1>1, <1>t, <2>2 DEF ReadDevice, TypeOK
  <2>4. camera.videonr \in Requests
    BY DEF Cameras
  <2> QED
    BY <1>1, <1>t, <2>1, <2>2, <2>3, <2>4 DEF ReadDevice, TypeOK
<1>2. CASE SkipCamera
  <2>1. cameras' \in 0 .. MaxCameras /\ Len(devices) <= cameras'
    BY <1>2, <1>t DEF SkipCamera, TypeOK
  <2> QED
    BY <1>2, <1>t, <2>1 DEF SkipCamera, TypeOK
<1>3. CASE ReadingDone \/ ConnectingDone \/ RestDone \/ UninitDone
  BY <1>3, <1>t DEF ReadingDone, ConnectingDone, RestDone, UninitDone, TypeOK, Phases
<1>4. ASSUME NEW nodes \in NodeLists, ConnectList(nodes) PROVE TypeOK'
  <2> DEFINE caps == Accepted(nodes)
  <2>1. caps \in Seq(Devs) /\ nodes[1] \in Devs
    <3>1. ValidList(nodes)
      BY <1>4 DEF ConnectList
    <3>2. nodes[1] \in Listed
      <4>1. PICK n \in 1 .. MaxNodes : nodes \in [1 .. n -> 0 .. MaxCameras + 1]
        BY DEF NodeLists
      <4>2. 1 \in DOMAIN nodes
        BY <4>1, DriverAssumption DEF DriverAssumption
      <4> QED
        BY <3>1, <4>2 DEF ValidList, Listed
    <3> QED
      BY <1>t, <3>1, <3>2, AcceptedCaptures
  <2> HIDE DEF caps
  <2>2. /\ connected' = [d \in Devs |->
              IF d = nodes[1] THEN connected[d] \o caps
              ELSE IF d \in Range(caps) THEN Append(connected[d], nodes[1])
              ELSE connected[d]]
        /\ refs' = [d \in Devs |->
              IF d = nodes[1] THEN refs[d] + Len(caps)
              ELSE IF d \in Range(caps) THEN refs[d] + 1
              ELSE refs[d]]
    BY <1>4 DEF ConnectList, caps
  <2>3. connected' \in [Devs -> Seq(Devs)]
    BY <1>t, <2>1, <2>2 DEF TypeOK
  <2>4. refs' \in [Devs -> Nat]
    BY <1>t, <2>1, <2>2, SMTT(20) DEF TypeOK
  <2> QED
    BY <1>4, <1>t, <2>3, <2>4 DEF ConnectList, TypeOK
<1>5. ASSUME NEW nodes \in NodeLists, RejectList(nodes) PROVE TypeOK'
  BY <1>5, <1>t DEF RejectList, TypeOK, vars
<1>6. CASE RegisterNumbered
  <2>1. next \in Devs /\ next' \in 1 .. MaxCameras + 1
    BY <1>6, <1>t DEF RegisterNumbered, TypeOK, Devs
  <2>2. videonr' = videonr /\ videonr'[next] \in Requests \cup {Free}
    BY <1>6, <1>t, <2>1 DEF RegisterNumbered, TypeOK
  <2>3. node' \in [Devs -> Numbers \cup {Free}] /\ failed' \in BOOLEAN
    <3>1. CASE Registered(next)
      BY <1>t, <2>1, <2>2, <3>1, RegisteredNode DEF Registered, TypeOK
    <3>2. CASE RegisterFailed \/ UNCHANGED <<node, failed>>
      BY <1>t, <3>2 DEF RegisterFailed, TypeOK
    <3> QED
      BY <1>6, <3>1, <3>2 DEF RegisterNumbered
  <2> QED
    BY <1>6, <1>t, <2>1, <2>2, <2>3 DEF RegisterNumbered, TypeOK
<1>7. CASE NumberedDone
  BY <1>7, <1>t DEF NumberedDone, TypeOK, Phases
<1>8. CASE RegisterRest
  <2>1. next \in Devs /\ next' \in 1 .. MaxCameras + 1
    BY <1>8, <1>t DEF RegisterRest, TypeOK, Devs
  <2>2. videonr' \in [Devs -> Requests \cup {Free}]
    BY <1>8, <1>t, <2>1 DEF RegisterRest, TypeOK
  <2>3. node' \in [Devs -> Numbers \cup {Free}] /\ failed' = failed
    <3>1. CASE Registered(next)
      BY <1>t, <2>1, <2>2, <3>1, RegisteredNode DEF Registered
    <3>2. CASE UNCHANGED <<node, failed>>
      BY <1>t, <3>2 DEF TypeOK
    <3> QED
      BY <1>8, <3>1, <3>2 DEF RegisterRest
  <2> QED
    BY <1>8, <1>t, <2>1, <2>2, <2>3 DEF RegisterRest, TypeOK
<1>9. CASE RegisterRestFails
  <2>1. next \in Devs
    BY <1>9, <1>t DEF RegisterRestFails, TypeOK, Devs
  <2> QED
    BY <1>9, <1>t, <2>1 DEF RegisterRestFails, TypeOK, Phases
<1>10. CASE Uninit
  <2>1. puts' \in Seq(Devs)
    BY <1>10, <1>t DEF Uninit, Listed
  <2> QED
    BY <1>10, <1>t, <2>1 DEF Uninit, TypeOK, Phases
<1>11. CASE PutDevice
  <2>1. /\ Head(puts) \in Devs /\ Head(puts) \in Range(puts) /\ Tail(puts) \in Seq(Devs)
    BY <1>11, <1>t, TailDistinct DEF PutDevice, TypeOK
  <2>2. refs[Head(puts)] - 1 \in Nat
    <3>1. Head(puts) \in Listed /\ InDriverList(Head(puts))
      BY <2>1 DEF DriverInv, Counted, InDriverList
    <3>2. refs[Head(puts)] = Len(connected[Head(puts)]) + 1
      BY <3>1 DEF DriverInv, Counted
    <3>3. Len(connected[Head(puts)]) \in Nat
      BY <1>t, <2>1 DEF TypeOK
    <3> QED
      BY <3>2, <3>3
  <2>3. refs' \in [Devs -> Nat]
    BY <1>11, <1>t, <2>1, <2>2 DEF PutDevice, TypeOK
  <2>4. puts' \in Seq(Devs)
    <3>1. connected[Head(puts)] \in Seq(Devs)
      BY <1>t, <2>1 DEF TypeOK
    <3> QED
      BY <1>11, <2>1, <3>1 DEF PutDevice
  <2>5. connected' \in [Devs -> Seq(Devs)]
    BY <1>11, <1>t, <2>1 DEF PutDevice, TypeOK
  <2> QED
    BY <1>11, <1>t, <2>3, <2>4, <2>5 DEF PutDevice, TypeOK
<1>12. CASE UNCHANGED vars
  BY <1>12, <1>t DEF vars, TypeOK
<1> QED
  BY <1>1, <1>2, <1>3, <1>4, <1>5, <1>6, <1>7, <1>8, <1>9, <1>10, <1>11, <1>12
  DEF Next

-----------------------------------------------------------------------------
(* The connections.                                                        *)

(* What a connection list says of the devices it names.                    *)
LEMMA ListIsValid ==
  ASSUME TypeOK, NEW nodes \in NodeLists, ConnectList(nodes)
  PROVE  /\ nodes[1] \in Listed /\ nodes[1] \in Devs
         /\ devices[nodes[1]].type = "output"
         /\ Accepted(nodes) \in Seq(Devs)
         /\ IsInjective(Accepted(nodes))
         /\ nodes[1] \notin Range(Accepted(nodes))
         /\ \A c \in Range(Accepted(nodes)) :
              /\ c \in Listed /\ c \in Devs
              /\ devices[c].type = "capture"
              /\ connected[c] = << >>
              /\ devices[nodes[1]].direct /\ devices[c].direct =>
                   devices[nodes[1]].format = devices[c].format
<1>1. ValidList(nodes)
  BY DEF ConnectList
<1>2. nodes[1] \in Listed /\ devices[nodes[1]].type = "output"
  <2>1. PICK n \in 1 .. MaxNodes : nodes \in [1 .. n -> 0 .. MaxCameras + 1]
    BY DEF NodeLists
  <2>2. 1 \in DOMAIN nodes
    BY <2>1, DriverAssumption DEF DriverAssumption
  <2> QED
    BY <1>1, <2>2 DEF ValidList, Listed
<1> QED
  BY <1>1, <1>2, AcceptedCaptures, ListedAreDevs DEF Connectable

(* Dropping the last reference of a device finds nothing connected to it.  *)
LEMMA PutKeepsConnections ==
  ASSUME DriverInv, PutDevice
  PROVE  /\ Head(puts) \in Listed /\ Head(puts) \in Devs
         /\ refs[Head(puts)] = Len(connected[Head(puts)]) + 1
         /\ refs' = [refs EXCEPT ![Head(puts)] = @ - 1]
         /\ connected' = connected
         /\ puts' = Tail(puts)
         /\ IsInjective(puts')
         /\ \A d : d \in Range(puts) <=> d = Head(puts) \/ d \in Range(puts')
         /\ Head(puts) \notin Range(puts')
<1> DEFINE d == Head(puts)
<1>t. TypeOK /\ IsInjective(puts) /\ Range(puts) \subseteq Listed /\ Listed \subseteq Devs
  BY ListedAreDevs DEF DriverInv, Counted
<1>1. /\ d \in Range(puts) /\ d \in Devs /\ Tail(puts) \in Seq(Devs)
      /\ IsInjective(Tail(puts)) /\ d \notin Range(Tail(puts))
      /\ Range(puts) = Range(Tail(puts)) \cup {d}
  BY <1>t, TailDistinct DEF PutDevice, TypeOK
<1>2. refs[d] = Len(connected[d]) + 1 /\ d \in Listed
  <2>1. d \in Listed /\ InDriverList(d)
    BY <1>t, <1>1 DEF InDriverList
  <2> QED
    BY <2>1 DEF DriverInv, Counted
<1>3. connected[d] \in Seq(Devs) /\ connected \in [Devs -> Seq(Devs)]
  BY <1>t, <1>1 DEF TypeOK
<1>4. refs[d] = 1 => connected[d] = << >>
  BY <1>2, <1>3
<1>5. connected' = connected
  BY <1>1, <1>3, <1>4 DEF PutDevice
<1>6. puts' = Tail(puts)
  BY <1>1, <1>4 DEF PutDevice
<1> QED
  BY <1>1, <1>2, <1>5, <1>6 DEF PutDevice

LEMMA ConnectionsStep == DriverInv /\ [Next]_vars => ConnectionsSound'
<1> SUFFICES ASSUME DriverInv, [Next]_vars PROVE ConnectionsSound'
  OBVIOUS
<1>t. /\ TypeOK /\ Stages /\ ConnectionsSound /\ Listed \subseteq Devs
      /\ Len(devices) \in Nat
  BY ListedAreDevs DEF DriverInv
<1>1. ASSUME NEW camera \in Cameras, ReadDevice(camera) PROVE ConnectionsSound'
  <2>1. \A d \in Devs : connected'[d] = << >>
    BY <1>1, <1>t DEF ReadDevice, Stages
  <2> QED
    BY <2>1, EmptyDistinct DEF ConnectionsSound
<1>2. CASE UNCHANGED <<devices, connected>>
  BY <1>2, <1>t DEF ConnectionsSound
<1>3. ASSUME NEW nodes \in NodeLists, ConnectList(nodes) PROVE ConnectionsSound'
  <2> DEFINE out  == nodes[1]
             caps == Accepted(nodes)
  <2>1. /\ out \in Listed /\ out \in Devs
        /\ devices[out].type = "output"
        /\ caps \in Seq(Devs) /\ IsInjective(caps) /\ out \notin Range(caps)
        /\ \A c \in Range(caps) :
             /\ c \in Listed /\ c \in Devs
             /\ devices[c].type = "capture"
             /\ connected[c] = << >>
             /\ devices[out].direct /\ devices[c].direct =>
                  devices[out].format = devices[c].format
    BY <1>3, <1>t, ListIsValid
  <2>2. /\ devices' = devices
        /\ connected' = [d \in Devs |->
             IF d = out THEN connected[d] \o caps
             ELSE IF d \in Range(caps) THEN Append(connected[d], out)
             ELSE connected[d]]
    BY <1>3 DEF ConnectList
  <2> HIDE DEF out, caps
  <2>3. \A d \in Devs : connected[d] \in Seq(Devs)
    BY <1>t DEF TypeOK
  <2>4. \A d \in Devs :
          /\ IsInjective(connected[d])
          /\ \A e \in Range(connected[d]) :
               /\ e \in Devs
               /\ d \in Range(connected[e])
               /\ devices[d].type # devices[e].type
               /\ devices[d].type = "capture" => Len(connected[d]) = 1
               /\ devices[d].direct /\ devices[e].direct =>
                    devices[d].format = devices[e].format
    BY <1>t, <2>3, RangeOfSeq DEF ConnectionsSound
  <2>5. /\ connected'[out] = connected[out] \o caps
        /\ Range(connected'[out]) = Range(connected[out]) \cup Range(caps)
        /\ IsInjective(connected'[out])
    <3>1. connected'[out] = connected[out] \o caps
      BY <2>1, <2>2
    <3>2. Range(connected[out]) \cap Range(caps) = {}
      BY <2>1, <2>4, EmptyDistinct
    <3> QED
      BY <2>1, <2>3, <2>4, <3>1, <3>2, ConcatDistinct
  <2>6. ASSUME NEW c \in Range(caps)
        PROVE  /\ Range(connected'[c]) = {out}
               /\ IsInjective(connected'[c])
               /\ Len(connected'[c]) = 1
    <3>1. connected'[c] = Append(connected[c], out)
      BY <2>1, <2>2
    <3>2. connected[c] \in Seq(Devs) /\ connected[c] = << >> /\ Len(connected[c]) = 0
      BY <2>1, <2>3
    <3>3. Range(connected[c]) = {} /\ IsInjective(connected[c])
      BY <3>2, EmptyDistinct
    <3>4. /\ Range(Append(connected[c], out)) = Range(connected[c]) \cup {out}
          /\ IsInjective(Append(connected[c], out))
      <4>1. connected[c] \in Seq(Devs) /\ out \in Devs /\ out \notin Range(connected[c])
        BY <2>1, <3>2, <3>3
      <4>2. IsInjective(connected[c])
        BY <3>3
      <4> QED
        BY ONLY <4>1, <4>2, AppendDistinct
    <3>5. Len(Append(connected[c], out)) = Len(connected[c]) + 1
      BY ONLY <2>1, <3>2
    <3> QED
      BY <3>1, <3>2, <3>3, <3>4, <3>5
  <2>7. \A d \in Devs : d # out /\ d \notin Range(caps) => connected'[d] = connected[d]
    BY <2>2
  <2> SUFFICES ASSUME NEW d \in Devs
               PROVE  /\ IsInjective(connected'[d])
                      /\ \A e \in Range(connected'[d]) :
                           /\ d \in Range(connected'[e])
                           /\ devices[d].type # devices[e].type
                           /\ devices[d].type = "capture" => Len(connected'[d]) = 1
                           /\ devices[d].direct /\ devices[e].direct =>
                                devices[d].format = devices[e].format
    <3>1. devices' = devices
      BY <2>2
    <3> QED
      BY <3>1, Zenon DEF ConnectionsSound
  <2>8. CASE d = out
    <3> SUFFICES ASSUME NEW e \in Range(connected'[d])
                 PROVE  /\ d \in Range(connected'[e])
                        /\ devices[d].type # devices[e].type
                        /\ devices[d].type = "capture" => Len(connected'[d]) = 1
                        /\ devices[d].direct /\ devices[e].direct =>
                             devices[d].format = devices[e].format
      BY <2>5, <2>8
    <3>1. CASE e \in Range(caps)
      BY <2>1, <2>6, <2>8, <3>1
    <3>2. CASE e \in Range(connected[out])
      <4>1. e \in Devs /\ out \in Range(connected[e]) /\ devices[out].type # devices[e].type
        BY <2>1, <2>4, <3>2
      <4>2. e # out /\ e \notin Range(caps)
        BY <2>1, <4>1, EmptyDistinct
      <4>3. d \in Range(connected'[e])
        BY <2>7, <2>8, <4>1, <4>2
      <4>4. devices[d].direct /\ devices[e].direct =>
              devices[d].format = devices[e].format
        BY <2>1, <2>4, <2>8, <3>2
      <4>5. devices[d].type # "capture"
        BY <2>1, <2>8
      <4> QED
        BY <2>8, <4>1, <4>3, <4>4, <4>5
    <3> QED
      BY <2>5, <2>8, <3>1, <3>2
  <2>9. CASE d \in Range(caps)
    <3>1. /\ Range(connected'[d]) = {out} /\ IsInjective(connected'[d])
          /\ Len(connected'[d]) = 1
      BY <2>6, <2>9
    <3>2. d \in Range(connected'[out])
      BY <2>5, <2>9
    <3>3. /\ devices[d].type # devices[out].type
          /\ devices[d].direct /\ devices[out].direct =>
               devices[d].format = devices[out].format
      BY <2>1, <2>9
    <3> QED
      BY <3>1, <3>2, <3>3
  <2>10. CASE d # out /\ d \notin Range(caps)
    <3>1. connected'[d] = connected[d]
      BY <2>7, <2>10
    <3> SUFFICES ASSUME NEW e \in Range(connected[d]) PROVE d \in Range(connected'[e])
      BY <2>4, <3>1
    <3>2. e \in Devs /\ d \in Range(connected[e])
      BY <2>4
    <3>3. e \notin Range(caps)
      BY <2>1, <3>2, EmptyDistinct
    <3> QED
      BY <2>5, <2>7, <3>2, <3>3
  <2> QED
    BY <2>8, <2>9, <2>10
<1>4. CASE PutDevice
  BY <1>2, <1>4, PutKeepsConnections DEF PutDevice
<1>5. ASSUME NEW nodes \in NodeLists, RejectList(nodes) PROVE ConnectionsSound'
  BY <1>2, <1>5 DEF RejectList, vars
<1>6. CASE \/ SkipCamera \/ ReadingDone \/ ConnectingDone \/ RegisterNumbered
           \/ NumberedDone \/ RegisterRest \/ RegisterRestFails \/ RestDone
           \/ Uninit \/ UninitDone \/ UNCHANGED vars
  BY <1>2, <1>6
  DEF SkipCamera, ReadingDone, ConnectingDone, RegisterNumbered, NumberedDone,
      RegisterRest, RegisterRestFails, RestDone, Uninit, UninitDone, vars
<1> QED
  BY <1>1, <1>3, <1>4, <1>5, <1>6 DEF Next

-----------------------------------------------------------------------------
(* Stages and counts.                                                      *)

(* A device that is read is put at the end of the list.                    *)
LEMMA ReadExtends ==
  ASSUME TypeOK, NEW camera \in Cameras, ReadDevice(camera)
  PROVE  LET d == Len(devices) + 1
         IN  /\ d \in Devs /\ d \notin Listed
             /\ Listed' = Listed \cup {d}
             /\ devices'[d] = camera
             /\ \A e \in Listed : devices'[e] = devices[e]
             /\ videonr'[d] = camera.videonr /\ refs'[d] = 1
             /\ \A e \in Devs : e # d => videonr'[e] = videonr[e] /\ refs'[e] = refs[e]
<1> DEFINE d == Len(devices) + 1
<1>1. /\ Len(devices) \in Nat /\ Listed \subseteq Devs /\ devices \in Seq(Cameras)
      /\ devices' = Append(devices, camera)
  BY ListedAreDevs DEF ReadDevice, TypeOK
<1>2. d \in Devs
  BY <1>1, DriverAssumption DEF ReadDevice, TypeOK, Devs, DriverAssumption
<1>3. Len(devices') = Len(devices) + 1 /\ devices'[d] = camera
  BY <1>1
<1>4. \A e \in Listed : devices'[e] = devices[e]
  BY <1>1 DEF Listed
<1>5. d \notin Listed /\ Listed' = Listed \cup {d}
  BY <1>1, <1>3 DEF Listed
<1> HIDE DEF d
<1>6. /\ videonr' = [videonr EXCEPT ![d] = camera.videonr]
      /\ refs' = [refs EXCEPT ![d] = 1]
  BY DEF ReadDevice, d
<1>7. /\ videonr'[d] = camera.videonr /\ refs'[d] = 1
      /\ \A e \in Devs : e # d => videonr'[e] = videonr[e] /\ refs'[e] = refs[e]
  BY <1>2, <1>6 DEF TypeOK
<1> QED
  BY <1>2, <1>3, <1>4, <1>5, <1>7 DEF d

LEMMA StagesStep == DriverInv /\ [Next]_vars => Stages'
<1> SUFFICES ASSUME DriverInv, [Next]_vars PROVE Stages'
  OBVIOUS
<1>t. TypeOK /\ Stages /\ Listed \subseteq Devs /\ Len(devices) \in Nat
  BY ListedAreDevs DEF DriverInv
<1>1. ASSUME NEW camera \in Cameras, ReadDevice(camera) PROVE Stages'
  <2>1. \A d \in Devs : d \notin Listed' => d \notin Listed /\ refs'[d] = refs[d]
    BY <1>1, <1>t, ReadExtends
  <2> QED
    BY <1>1, <1>t, <2>1 DEF ReadDevice, Stages
<1>2. ASSUME NEW nodes \in NodeLists, ConnectList(nodes) PROVE Stages'
  <2>1. \A d \in Devs : d \notin Listed =>
          d # nodes[1] /\ d \notin Range(Accepted(nodes))
    BY <1>2, <1>t, ListIsValid
  <2>2. \A d \in Devs : d \notin Listed =>
          connected'[d] = connected[d] /\ refs'[d] = refs[d]
    BY <1>2, <2>1 DEF ConnectList
  <2> QED
    BY <1>2, <1>t, <2>2 DEF ConnectList, Stages, Listed
<1>3. CASE RegisterNumbered
  <2>1. next \in Listed /\ next \in Devs
    BY <1>3, <1>t, NextIsListed DEF RegisterNumbered
  <2>2. \A d \in Devs : d \notin Listed => node'[d] = node[d]
    <3>1. CASE Registered(next)
      BY <1>t, <2>1, <3>1 DEF Registered, TypeOK
    <3>2. CASE UNCHANGED node
      BY <3>2
    <3> QED
      BY <1>3, <3>1, <3>2 DEF RegisterNumbered, RegisterFailed
  <2> QED
    BY <1>3, <1>t, <2>2 DEF RegisterNumbered, Stages, Listed
<1>4. CASE RegisterRest
  <2>1. next \in Listed /\ next \in Devs
    BY <1>4, <1>t, NextIsListed DEF RegisterRest
  <2>2. \A d \in Devs : d \notin Listed => node'[d] = node[d]
    <3>1. CASE Registered(next)
      BY <1>t, <2>1, <3>1 DEF Registered, TypeOK
    <3>2. CASE UNCHANGED node
      BY <3>2
    <3> QED
      BY <1>4, <3>1, <3>2 DEF RegisterRest
  <2> QED
    BY <1>4, <1>t, <2>2 DEF RegisterRest, Stages, Listed
<1>5. CASE RegisterRestFails \/ Uninit
  BY <1>5, <1>t DEF RegisterRestFails, Uninit, Stages, Listed
<1>6. CASE PutDevice
  <2>1. /\ connected' = connected /\ node' = node /\ devices' = devices
        /\ phase = "unload" /\ phase' = phase
        /\ \A d \in Devs : d \notin Listed => refs'[d] = refs[d]
    BY <1>6, <1>t, PutKeepsConnections DEF PutDevice, TypeOK
  <2> QED
    BY <1>t, <2>1 DEF Stages, Listed
<1>7. CASE SkipCamera \/ ReadingDone \/ ConnectingDone \/ NumberedDone \/ RestDone
  BY <1>7, <1>t
  DEF SkipCamera, ReadingDone, ConnectingDone, NumberedDone, RestDone, Stages, Listed
<1>8. CASE UninitDone
  BY <1>8, <1>t DEF UninitDone, Stages, Listed
<1>9. ASSUME NEW nodes \in NodeLists, RejectList(nodes) PROVE Stages'
  BY <1>9, <1>t DEF RejectList, vars, Stages, Listed
<1>10. CASE UNCHANGED vars
  BY <1>10, <1>t DEF vars, Stages, Listed
<1> QED
  BY <1>1, <1>2, <1>3, <1>4, <1>5, <1>6, <1>7, <1>8, <1>9, <1>10 DEF Next

LEMMA CountedStep == DriverInv /\ [Next]_vars => Counted'
<1> SUFFICES ASSUME DriverInv, [Next]_vars PROVE Counted'
  OBVIOUS
<1>t. /\ TypeOK /\ Stages /\ Counted /\ Listed \subseteq Devs /\ Len(devices) \in Nat
      /\ \A d \in Devs : connected[d] \in Seq(Devs) /\ refs[d] \in Nat
  BY ListedAreDevs DEF DriverInv, TypeOK
<1>1. ASSUME NEW camera \in Cameras, ReadDevice(camera) PROVE Counted'
  <2> DEFINE n == Len(devices) + 1
  <2>1. /\ n \in Devs /\ n \notin Listed /\ Listed' = Listed \cup {n}
        /\ refs'[n] = 1 /\ \A d \in Devs : d # n => refs'[d] = refs[d]
    BY <1>1, <1>t, ReadExtends
  <2> HIDE DEF n
  <2>2. phase = "read" /\ phase' = "read" /\ connected' = connected /\ puts' = puts
    BY <1>1 DEF ReadDevice
  <2>3. connected[n] = << >> /\ Len(connected[n]) = 0
    BY <1>t, <2>1, <2>2 DEF Stages
  <2> QED
    BY <1>t, <2>1, <2>2, <2>3 DEF Counted, InDriverList
<1>2. ASSUME NEW nodes \in NodeLists, ConnectList(nodes) PROVE Counted'
  <2> DEFINE out  == nodes[1]
             caps == Accepted(nodes)
  <2>1. /\ out \in Devs /\ caps \in Seq(Devs) /\ out \notin Range(caps)
    BY <1>2, <1>t, ListIsValid
  <2>2. /\ phase = "connect" /\ phase' = phase /\ devices' = devices /\ puts' = puts
        /\ connected' = [d \in Devs |->
             IF d = out THEN connected[d] \o caps
             ELSE IF d \in Range(caps) THEN Append(connected[d], out)
             ELSE connected[d]]
        /\ refs' = [d \in Devs |->
             IF d = out THEN refs[d] + Len(caps)
             ELSE IF d \in Range(caps) THEN refs[d] + 1
             ELSE refs[d]]
    BY <1>2 DEF ConnectList
  <2> HIDE DEF out, caps
  <2>3. \A d \in Listed : refs[d] = Len(connected[d]) + 1
    BY <1>t, <2>2 DEF Counted, InDriverList
  <2>4. \A d \in Listed : refs'[d] = Len(connected'[d]) + 1
    <3> SUFFICES ASSUME NEW d \in Listed PROVE refs'[d] = Len(connected'[d]) + 1
      OBVIOUS
    <3>1. d \in Devs /\ connected[d] \in Seq(Devs) /\ Len(connected[d]) \in Nat
      BY <1>t
    <3>2. Len(connected[d] \o caps) = Len(connected[d]) + Len(caps) /\ Len(caps) \in Nat
      BY <2>1, <3>1
    <3>3. Len(Append(connected[d], out)) = Len(connected[d]) + 1
      BY <2>1, <3>1
    <3>4. refs[d] = Len(connected[d]) + 1
      BY <2>3
    <3>5. CASE d = out
      <4>1. refs'[d] = refs[d] + Len(caps) /\ connected'[d] = connected[d] \o caps
        BY <2>2, <3>1, <3>5
      <4> QED
        BY ONLY <4>1, <3>1, <3>2, <3>4
    <3>6. CASE d # out /\ d \in Range(caps)
      <4>1. refs'[d] = refs[d] + 1 /\ connected'[d] = Append(connected[d], out)
        BY <2>2, <3>1, <3>6
      <4> QED
        BY <4>1, <3>3, <3>4
    <3>7. CASE d # out /\ d \notin Range(caps)
      <4>1. refs'[d] = refs[d] /\ connected'[d] = connected[d]
        BY <2>2, <3>1, <3>7
      <4> QED
        BY <4>1, <3>4
    <3> QED
      BY <3>5, <3>6, <3>7
  <2>5. Listed' = Listed /\ \A d \in Listed : InDriverList(d)'
    BY <2>2 DEF Listed, InDriverList
  <2> QED
    BY <1>t, <2>2, <2>4, <2>5 DEF Counted
<1>3. CASE Uninit
  <2>1. /\ phase = "loaded" /\ phase' = "unload" /\ Listed' = Listed
        /\ refs' = refs /\ connected' = connected
        /\ puts' = [d \in Listed |-> d]
    BY <1>3 DEF Uninit, Listed
  <2>2. IsInjective(puts') /\ Range(puts') = Listed
    BY <2>1 DEF IsInjective, Range
  <2>3. \A d \in Listed : InDriverList(d) /\ InDriverList(d)'
    BY <2>1, <2>2 DEF InDriverList
  <2> QED
    BY <1>t, <2>1, <2>2, <2>3 DEF Counted
<1>4. CASE PutDevice
  <2> DEFINE h == Head(puts)
  <2>1. /\ h \in Listed /\ h \in Devs
        /\ refs[h] = Len(connected[h]) + 1
        /\ refs' = [refs EXCEPT ![h] = @ - 1]
        /\ connected' = connected
        /\ IsInjective(puts')
        /\ \A d : d \in Range(puts) <=> d = h \/ d \in Range(puts')
        /\ h \notin Range(puts')
    BY <1>4, PutKeepsConnections
  <2> HIDE DEF h
  <2>2. phase = "unload" /\ phase' = "unload" /\ devices' = devices /\ Listed' = Listed
    BY <1>4 DEF PutDevice, Listed
  <2>3. Range(puts') \subseteq Listed
    BY <1>t, <2>1 DEF Counted
  <2>4. \A d \in Listed :
          refs'[d] = Len(connected[d]) + (IF d \in Range(puts') THEN 1 ELSE 0)
    <3> SUFFICES ASSUME NEW d \in Listed
                 PROVE  refs'[d] = Len(connected[d])
                                     + (IF d \in Range(puts') THEN 1 ELSE 0)
      OBVIOUS
    <3>1. Len(connected[d]) \in Nat /\ d \in Devs /\ refs \in [Devs -> Nat]
      BY <1>t DEF TypeOK
    <3>2. CASE d = h
      BY <2>1, <3>1, <3>2
    <3>3. CASE d # h
      BY <1>t, <2>1, <2>2, <3>1, <3>3 DEF Counted, InDriverList
    <3> QED
      BY <3>2, <3>3
  <2> QED
    BY <2>1, <2>2, <2>3, <2>4 DEF Counted, InDriverList
<1>5. CASE UninitDone
  BY <1>5, <1>t DEF UninitDone, Counted, InDriverList, Listed
<1>6. ASSUME UNCHANGED <<devices, connected, refs, puts>>,
             \A d \in Listed : InDriverList(d)' <=> InDriverList(d)
      PROVE  Counted'
  BY <1>6, <1>t DEF Counted, Listed
<1>7. CASE \/ SkipCamera \/ ReadingDone \/ ConnectingDone \/ RegisterNumbered
           \/ NumberedDone \/ RegisterRest \/ RegisterRestFails \/ RestDone
           \/ UNCHANGED vars
  <2>1. /\ UNCHANGED <<devices, connected, refs, puts>>
        /\ phase \in {"unload", "gone"} <=> phase' \in {"unload", "gone"}
    BY <1>7
    DEF SkipCamera, ReadingDone, ConnectingDone, RegisterNumbered, NumberedDone,
        RegisterRest, RegisterRestFails, RestDone, vars
  <2> QED
    BY <1>6, <2>1 DEF InDriverList
<1>8. ASSUME NEW nodes \in NodeLists, RejectList(nodes) PROVE Counted'
  BY <1>6, <1>8 DEF RejectList, vars, InDriverList
<1> QED
  BY <1>1, <1>2, <1>3, <1>4, <1>5, <1>7, <1>8 DEF Next

-----------------------------------------------------------------------------
(* The two rounds of the registration.                                     *)

(* A device that asks for an uncontested number finds it free as long as   *)
(* only such devices have been registered.                                 *)
LEMMA AskedIsFree ==
  ASSUME DriverInv, phase = "numbered", ~failed, Uncontested,
         NEW d \in Asking, next <= d
  PROVE  devices[d].videonr \in FreeNumbers
<1>t. /\ TypeOK /\ Stages /\ Listed \subseteq Devs
      /\ \A e \in Listed : devices[e] \in Cameras /\ e \in Nat
      /\ d \in Listed
      /\ next \in Nat
  BY ListedAreDevs DEF DriverInv, TypeOK, Asking, Listed
<1>1. devices[d].videonr \in Numbers /\ devices[d].videonr # Free
  <2>1. devices[d].videonr \in Requests /\ devices[d].videonr >= 0
    BY <1>t DEF Cameras, Asking
  <2> QED
    BY <2>1, NumbersAreNumbers
<1>2. devices[d].videonr \notin HostNumbers
  BY DEF Uncontested
<1>3. \A e \in Devs : node[e] # devices[d].videonr
  <2> SUFFICES ASSUME NEW e \in Devs PROVE node[e] # devices[d].videonr
    OBVIOUS
  <2>1. CASE e \notin Listed
    BY <1>t, <1>1, <2>1 DEF Stages
  <2>2. CASE e \in Listed
    <3>1. node[e] = IF e < next /\ e \in Asking THEN devices[e].videonr ELSE Free
      BY <2>2 DEF DriverInv, Numbering
    <3>2. CASE e < next /\ e \in Asking
      <4>1. e # d
        BY <1>t, <2>2, <3>2
      <4> QED
        BY <3>1, <3>2, <4>1 DEF Uncontested
    <3> QED
      BY <1>1, <3>1, <3>2
  <2> QED
    BY <2>1, <2>2
<1>4. devices[d].videonr \notin Range(node)
  BY <1>t, <1>3 DEF Range, TypeOK
<1> QED
  BY <1>1, <1>2, <1>4 DEF FreeNumbers

LEMMA NumberingStep == DriverInv /\ [Next]_vars => Numbering'
<1> SUFFICES ASSUME DriverInv, [Next]_vars PROVE Numbering'
  OBVIOUS
<1>t. /\ TypeOK /\ Stages /\ Numbering /\ Listed \subseteq Devs
      /\ Len(devices) \in Nat /\ next \in Nat
      /\ \A d \in Listed : d \in Nat
      /\ Asking \subseteq Listed
  BY ListedAreDevs DEF DriverInv, TypeOK, Asking, Listed
<1>s. ASSUME devices' = devices
      PROVE  Listed' = Listed /\ Asking' = Asking /\ Uncontested' = Uncontested
  BY <1>s DEF Listed, Asking, Uncontested
<1>1. ASSUME NEW camera \in Cameras, ReadDevice(camera) PROVE Numbering'
  <2>1. \A d \in Listed' : videonr'[d] = devices'[d].videonr
    <3> DEFINE n == Len(devices) + 1
    <3>1. /\ n \notin Listed /\ Listed' = Listed \cup {n} /\ devices'[n] = camera
          /\ \A e \in Listed : devices'[e] = devices[e]
          /\ videonr'[n] = camera.videonr
          /\ \A e \in Devs : e # n => videonr'[e] = videonr[e]
      BY <1>1, <1>t, ReadExtends
    <3> HIDE DEF n
    <3>2. \A d \in Listed : videonr[d] = devices[d].videonr
      BY <1>1, <1>t DEF ReadDevice, Numbering
    <3> QED
      BY <1>t, <3>1, <3>2
  <2> QED
    BY <1>1, <2>1 DEF ReadDevice, Numbering
<1>2. CASE SkipCamera \/ ReadingDone
  BY <1>2, <1>s, <1>t DEF SkipCamera, ReadingDone, Numbering
<1>3. ASSUME NEW nodes \in NodeLists, ConnectList(nodes) \/ RejectList(nodes)
      PROVE  Numbering'
  <2>1. /\ phase = "connect" /\ phase' = phase /\ devices' = devices
        /\ videonr' = videonr
    BY <1>3 DEF ConnectList, RejectList, vars
  <2> QED
    BY <1>s, <1>t, <2>1 DEF Numbering
<1>4. CASE ConnectingDone
  <2>1. /\ phase = "connect" /\ phase' = "numbered" /\ devices' = devices
        /\ videonr' = videonr /\ node' = node /\ next' = 1
        /\ \A d \in Listed : node[d] = Free
    BY <1>4, <1>t DEF ConnectingDone, Stages
  <2>2. \A d \in Listed : ~ (d < 1)
    BY DEF Listed
  <2> QED
    BY <1>s, <1>t, <2>1, <2>2 DEF Numbering
<1>5. CASE RegisterNumbered
  <2>1. /\ phase = "numbered" /\ phase' = phase /\ devices' = devices
        /\ videonr' = videonr /\ next' = next + 1
        /\ next \in Listed /\ next \in Devs
        /\ videonr[next] = devices[next].videonr
    BY <1>5, <1>t, NextIsListed DEF RegisterNumbered, Numbering
  <2>2. ASSUME ~failed', Uncontested, NEW d \in Listed
        PROVE  node'[d] = IF d < next + 1 /\ d \in Asking
                          THEN devices[d].videonr ELSE Free
    <3>1. ~failed
      BY <1>5, <2>2 DEF RegisterNumbered, Registered, RegisterFailed
    <3>2. node[d] = IF d < next /\ d \in Asking THEN devices[d].videonr ELSE Free
      BY <1>t, <2>1, <2>2, <3>1 DEF Numbering
    <3>3. d \in Nat /\ d \in Devs
      BY <1>t
    <3>4. CASE next \in Asking
      <4>1. Registered(next) /\ videonr'[next] = devices[next].videonr
        BY <1>5, <2>1, <2>2, <3>1, <3>4 DEF RegisterNumbered, RegisterFailed, Asking
      <4>2. devices[next].videonr \in FreeNumbers
        BY <1>t, <2>1, <2>2, <3>1, <3>4, AskedIsFree
      <4>3. videonr'[next] \in Requests \cup {Free}
        BY <1>t, <2>1 DEF TypeOK
      <4>4. /\ node'[next] = devices[next].videonr
            /\ \A e \in Devs : e # next => node'[e] = node[e]
        BY <1>t, <2>1, <4>1, <4>2, <4>3, RegisteredNode DEF TypeOK
      <4>5. CASE d = next
        BY <1>t, <3>4, <4>4, <4>5
      <4>6. CASE d # next
        <5>1. d < next + 1 <=> d < next
          BY <1>t, <3>3, <4>6
        <5> QED
          BY <3>2, <3>3, <4>4, <4>6, <5>1
      <4> QED
        BY <4>5, <4>6
    <3>5. CASE next \notin Asking
      <4>1. node' = node
        BY <1>5, <2>1, <3>5 DEF RegisterNumbered, Asking, Listed
      <4>2. d \in Asking => (d < next + 1 <=> d < next)
        BY <1>t, <3>3, <3>5
      <4> QED
        BY <3>2, <4>1, <4>2
    <3> QED
      BY <3>4, <3>5
  <2>3. \A d \in Listed : videonr[d] = devices[d].videonr
    BY <1>t, <2>1 DEF Numbering
  <2>4. Listed' = Listed /\ Asking' = Asking /\ Uncontested' = Uncontested
    BY <1>s, <2>1
  <2> QED
    BY <2>1, <2>2, <2>3, <2>4 DEF Numbering
<1>6. CASE NumberedDone
  <2>1. /\ phase = "numbered" /\ phase' = "rest" /\ devices' = devices
        /\ node' = node /\ failed' = failed /\ next > Len(devices)
    BY <1>6 DEF NumberedDone
  <2>2. \A d \in Asking : d \in Listed /\ d < next
    BY <1>t, <2>1 DEF Listed
  <2> QED
    BY <1>s, <1>t, <2>1, <2>2 DEF Numbering
<1>7. CASE RegisterRest
  <2>1. /\ phase = "rest" /\ phase' = phase /\ devices' = devices
        /\ next \in Devs
    BY <1>7, <1>t, NextIsListed DEF RegisterRest
  <2>2. ASSUME ~failed', Uncontested, NEW d \in Asking
        PROVE  node'[d] = devices[d].videonr
    <3>1. ~failed
      BY <1>7, <2>2 DEF RegisterRest, Registered
    <3>2. node[d] = devices[d].videonr /\ d \in Devs
      BY <1>t, <2>1, <2>2, <3>1 DEF Numbering
    <3>3. devices[d].videonr # Free
      BY DEF Asking, Free
    <3>4. CASE node[next] = Free
      BY <1>7, <1>t, <2>1, <3>2, <3>3, <3>4 DEF RegisterRest, Registered, TypeOK
    <3>5. CASE node[next] # Free
      BY <1>7, <3>2, <3>5 DEF RegisterRest
    <3> QED
      BY <3>4, <3>5
  <2> QED
    BY <1>s, <2>1, <2>2 DEF Numbering
<1>8. CASE RegisterRestFails
  BY <1>8 DEF RegisterRestFails, Numbering
<1>9. CASE RestDone
  BY <1>9, <1>s, <1>t DEF RestDone, Numbering
<1>10. CASE Uninit \/ PutDevice \/ UninitDone
  BY <1>10 DEF Uninit, PutDevice, UninitDone, Numbering
<1>11. CASE UNCHANGED vars
  BY <1>11, <1>s, <1>t DEF vars, Numbering
<1> QED
  BY <1>1, <1>2, <1>3, <1>4, <1>5, <1>6, <1>7, <1>8, <1>9, <1>10, <1>11 DEF Next

LEMMA RoundsStep == DriverInv /\ [Next]_vars => Rounds'
<1> SUFFICES ASSUME DriverInv, [Next]_vars PROVE Rounds'
  OBVIOUS
<1>t. /\ TypeOK /\ Stages /\ Rounds /\ Listed \subseteq Devs
      /\ Len(devices) \in Nat /\ next \in Nat /\ \A d \in Listed : d \in Nat
  BY ListedAreDevs DEF DriverInv, TypeOK, Listed
<1>1. CASE RegisterRest
  <2>1. /\ phase' = "rest" /\ devices' = devices /\ next' = next + 1
        /\ next \in Devs
        /\ \A d \in Listed : d < next => node[d] # Free
    BY <1>1, <1>t, NextIsListed DEF RegisterRest, Rounds
  <2>2. \A d \in Listed : d < next + 1 => d < next \/ d = next
    BY <1>t
  <2>3. CASE node[next] = Free
    <3>1. Registered(next) /\ videonr'[next] \in Requests \cup {Free}
      BY <1>1, <1>t, <2>1, <2>3 DEF RegisterRest, TypeOK
    <3>2. node'[next] # Free /\ \A e \in Devs : e # next => node'[e] = node[e]
      BY <1>t, <2>1, <3>1, RegisteredNode
    <3> QED
      BY <1>t, <2>1, <2>2, <3>2 DEF Rounds, AllOrNothing, Listed
  <2>4. CASE node[next] # Free
    <3>1. node' = node
      BY <1>1, <2>4 DEF RegisterRest
    <3> QED
      BY <1>t, <2>1, <2>2, <2>4, <3>1 DEF Rounds, AllOrNothing, Listed
  <2> QED
    BY <2>3, <2>4
<1>2. CASE NumberedDone
  BY <1>2 DEF NumberedDone, Rounds, AllOrNothing, Listed
<1>3. CASE RegisterRestFails
  BY <1>3, <1>t DEF RegisterRestFails, Rounds, AllOrNothing, Listed
<1>4. CASE RestDone
  <2>1. \A d \in Listed : d < next
    BY <1>4, <1>t DEF RestDone, Listed
  <2> QED
    BY <1>4, <1>t, <2>1 DEF RestDone, Rounds, AllOrNothing, Listed
<1>5. CASE phase' \notin {"rest", "loaded"}
  BY <1>5 DEF Rounds, AllOrNothing
<1>6. CASE \/ SkipCamera \/ ReadingDone \/ ConnectingDone \/ RegisterNumbered
           \/ Uninit \/ PutDevice \/ UninitDone
  BY <1>5, <1>6
  DEF SkipCamera, ReadingDone, ConnectingDone, RegisterNumbered, Uninit, PutDevice,
      UninitDone
<1>7. ASSUME NEW camera \in Cameras, ReadDevice(camera) PROVE Rounds'
  BY <1>5, <1>7 DEF ReadDevice
<1>8. ASSUME NEW nodes \in NodeLists, ConnectList(nodes) \/ RejectList(nodes)
      PROVE  Rounds'
  BY <1>5, <1>8 DEF ConnectList, RejectList, vars
<1>9. CASE UNCHANGED vars
  BY <1>9, <1>t DEF vars, Rounds, AllOrNothing, Listed
<1> QED
  BY <1>1, <1>2, <1>3, <1>4, <1>6, <1>7, <1>8, <1>9 DEF Next

LEMMA DriverInvHolds == Spec => []DriverInv
<1>1. DriverInv /\ [Next]_vars => DriverInv'
  BY TypeStep, StagesStep, ConnectionsStep, CountedStep, NumberingStep, RoundsStep
  DEF DriverInv
<1> QED
  BY <1>1, DriverInvInit, PTL DEF Spec

-----------------------------------------------------------------------------
(* Types; in particular no reference count falls below 0.                  *)
THEOREM TypesHold == Spec => []TypeOK
<1>1. DriverInv => TypeOK
  BY DEF DriverInv
<1> QED
  BY <1>1, DriverInvHolds, PTL

(* The connections stay a forest, whatever the lists say and however often *)
(* they name a device (akvcam_driver_connect_devices).                     *)
THEOREM ConnectionsSoundHolds == Spec => []ConnectionsSound
<1>1. DriverInv => ConnectionsSound
  BY DEF DriverInv
<1> QED
  BY <1>1, DriverInvHolds, PTL

(* Uncontested numbers are honoured, since the devices that ask for one    *)
(* are registered before any device that takes what is left.               *)
THEOREM NumbersHonouredHolds == Spec => []NumbersHonoured
<1>1. DriverInv => NumbersHonoured
  BY DEF DriverInv, Numbering, NumbersHonoured
<1> QED
  BY <1>1, DriverInvHolds, PTL

(* Either all devices are in place after loading, or none is.              *)
THEOREM AllOrNothingHolds == Spec => []AllOrNothing
<1>1. DriverInv => AllOrNothing
  BY DEF DriverInv, Rounds
<1> QED
  BY <1>1, DriverInvHolds, PTL

(* A device is freed only when its node, the references to be dropped and  *)
(* the connections of the other devices have all let go of it.             *)
THEOREM FreedIsUnreachableHolds == Spec => []FreedIsUnreachable
<1>1. DriverInv => FreedIsUnreachable
  <2> SUFFICES ASSUME DriverInv, NEW d \in Listed, refs[d] = 0
               PROVE  /\ node[d] = Free
                      /\ d \notin Range(puts)
                      /\ \A e \in Devs : d \notin Range(connected[e])
    BY DEF FreedIsUnreachable, Listed
  <2>1. TypeOK /\ d \in Devs /\ connected[d] \in Seq(Devs)
    BY ListedAreDevs DEF DriverInv, TypeOK
  <2>2. ~InDriverList(d) /\ Len(connected[d]) = 0
    <3>1. refs[d] = Len(connected[d]) + (IF InDriverList(d) THEN 1 ELSE 0)
      BY DEF DriverInv, Counted
    <3>2. Len(connected[d]) \in Nat
      BY <2>1
    <3>3. \A n \in Nat : n + 1 # 0 /\ (n + 0 = 0 => n = 0)
      OBVIOUS
    <3> QED
      BY ONLY refs[d] = 0, <3>1, <3>2, <3>3
  <2>3. connected[d] = << >>
    BY <2>1, <2>2
  <2>4. \A e \in Devs : d \notin Range(connected[e])
    BY <2>1, <2>3, EmptyDistinct DEF DriverInv, ConnectionsSound
  <2> QED
    BY <2>1, <2>2, <2>4 DEF DriverInv, Stages, InDriverList
<1> QED
  BY <1>1, DriverInvHolds, PTL

=============================================================================
