--------------------------- MODULE KernelPlanProofs ---------------------------
(***************************************************************************)
(* From the machine to its .config, for all machines, scan ranges, device  *)
(* trees, device tables and Makefiles: the scan saves exactly what is      *)
(* there, whatever was found reaches the .config, nothing else does, and   *)
(* the boot chain is built in.                                             *)
(***************************************************************************)
EXTENDS KernelPlan, Integers, TLAPS

-----------------------------------------------------------------------------
(* The scan of the PCI configuration space.                                *)

Cur == Slots[place.slot]
Scanning == at \in {"select", "data"}

\* scan() has been past the device's place.
Passed(d) == \E k \in 1 .. Len(Slots) :
                 Slots[k] = d.slot /\ (k < place.slot \/ (k = place.slot /\ d.fn < place.fn))

\* A device as scan() finds it.
AsFound(d) == [slot |-> d.slot, fn |-> d.fn, vendor |-> d.vendor, device |-> d.device,
               cls |-> d.cls, header |-> d.header,
               subvendor |-> IF d.header.bridge THEN AllOnes ELSE d.subvendor,
               subdevice |-> IF d.header.bridge THEN AllOnes ELSE d.subdevice]

\* Of the devices that can be found, and of those on record, the ones in slots
\* that the kernel has left alone.
Calm == {d \in machine.pci : Conforming(d) /\ d.slot \notin disturbed}
FoundCalmly == {x \in found : x.slot \notin disturbed}

PlaceInv ==
    /\ machine \in Machines
    /\ access \in [port : BOOLEAN, usb : SUBSET machine.usb, mem : BOOLEAN]
    /\ at = "open" => place = [slot |-> 1, fn |-> 0] /\ got = <<>>
    /\ Scanning => /\ access.port
                   /\ place \in [slot : 1 .. Len(Slots), fn : 0 .. LastFn]
                   /\ Len(got) \in 0 .. 5 /\ got = [k \in 1 .. Len(got) |-> got[k]]

\* In a slot that the kernel has left alone, what has been read is what a
\* device at the place has there, and a function other than 0 is read only of
\* a device with several.
Several == \E zero \in machine.pci : zero.slot = Cur /\ zero.fn = 0 /\ zero.header.multi
ReadOf(d) == /\ d.slot = Cur /\ d.fn = place.fn
             /\ \A k \in 1 .. Len(got) : got[k] = d[Fields[k]]
             /\ Len(got) > 3 => ~d.header.bridge
ReadInv ==
    Scanning /\ Cur \notin disturbed =>
        /\ place.fn > 0 => Several
        /\ Len(got) > 0 => \E d \in machine.pci : ReadOf(d)
        /\ at = "data" => address = Register(Cur, place.fn, Dword[Field])

\* Devices are found as they are passed.
FoundInv ==
    /\ at = "open" => found = {} /\ ~access.port
    /\ Scanning => /\ \A d \in Calm : Passed(d) => AsFound(d) \in found
                   /\ \A x \in FoundCalmly : \E d \in Calm : Passed(d) /\ x = AsFound(d)
    /\ ~Scanning /\ access.port =>
            /\ \A d \in Calm : AsFound(d) \in found
            /\ \A x \in FoundCalmly : \E d \in Calm : x = AsFound(d)
    /\ ~Scanning /\ ~access.port => found = {}

ScanInv == PlaceInv /\ ReadInv /\ FoundInv

-----------------------------------------------------------------------------
(* Lemmas about the place, the fields and the answers.                     *)

\* The fields by their numbers.
LEMMA FieldFacts ==
    ASSUME Len(got) \in 0 .. 5
    PROVE  /\ Field = "vendor" <=> Len(got) = 0
           /\ Field = "device" <=> Len(got) = 1
           /\ Field = "cls" <=> Len(got) = 2
           /\ Field = "header" <=> Len(got) = 3
           /\ Field = "subvendor" <=> Len(got) = 4
           /\ Field = "subdevice" <=> Len(got) = 5
<1>1. /\ Fields[1] = "vendor" /\ Fields[2] = "device" /\ Fields[3] = "cls"
      /\ Fields[4] = "header" /\ Fields[5] = "subvendor" /\ Fields[6] = "subdevice"
  BY DEF Fields
<1>2. \/ Len(got) = 0 \/ Len(got) = 1 \/ Len(got) = 2
      \/ Len(got) = 3 \/ Len(got) = 4 \/ Len(got) = 5
  OBVIOUS
<1>3. /\ Len(got) = 0 => Field = Fields[1]
      /\ Len(got) = 1 => Field = Fields[2]
      /\ Len(got) = 2 => Field = Fields[3]
      /\ Len(got) = 3 => Field = Fields[4]
      /\ Len(got) = 4 => Field = Fields[5]
      /\ Len(got) = 5 => Field = Fields[6]
  <2>1. \A n \in 0 .. 5 : Len(got) = n => Field = Fields[n + 1]
    BY DEF Field
  <2>2. /\ 0 + 1 = 1 /\ 1 + 1 = 2 /\ 2 + 1 = 3 /\ 3 + 1 = 4 /\ 4 + 1 = 5 /\ 5 + 1 = 6
    OBVIOUS
  <2> QED BY <2>1, <2>2
<1> QED BY <1>1, <1>2, <1>3

\* A sequence keeps what it has and gains one when a value is appended to it.
LEMMA Appended ==
    ASSUME NEW s, Len(s) \in Nat, s = [k \in 1 .. Len(s) |-> s[k]], NEW v
    PROVE  /\ Len(Append(s, v)) = Len(s) + 1
           /\ \A k \in 1 .. Len(s) : Append(s, v)[k] = s[k]
           /\ Append(s, v)[Len(s) + 1] = v
           /\ Append(s, v) = [k \in 1 .. Len(s) + 1 |-> Append(s, v)[k]]
<1> DEFINE S == {s[k] : k \in 1 .. Len(s)} \cup {v}
<1>1. s \in [1 .. Len(s) -> S]
  OBVIOUS
<1>2. s \in Seq(S)
  BY <1>1
<1>3. v \in S
  OBVIOUS
<1> HIDE DEF S
<1>4. /\ Append(s, v) \in Seq(S) /\ Len(Append(s, v)) = Len(s) + 1
      /\ \A k \in 1 .. Len(s) : Append(s, v)[k] = s[k]
      /\ Append(s, v)[Len(s) + 1] = v
  BY <1>2, <1>3
<1>5. \A q \in Seq(S) : q = [k \in 1 .. Len(q) |-> q[k]]
  OBVIOUS
<1>6. Append(s, v) = [k \in 1 .. Len(Append(s, v)) |-> Append(s, v)[k]]
  BY <1>4, <1>5
<1> QED BY <1>4, <1>6

\* Where the address port selects the register in question, the answer is the
\* device's, if there is one, and all ones if there is none.
LEMMA AnswersHere ==
    ASSUME address = Register(Cur, place.fn, Dword[Field]), NEW value \in Answers
    PROVE  /\ \/ \E d \in machine.pci : d.slot = Cur /\ d.fn = place.fn /\ value = d[Field]
              \/ ~\E d \in machine.pci : d.slot = Cur /\ d.fn = place.fn
           /\ Field = "vendor" /\ ~(\E d \in machine.pci : d.slot = Cur /\ d.fn = place.fn)
                => value = AllOnes
<1> DEFINE there == {d \in machine.pci : d.slot = Cur /\ d.fn = place.fn}
<1>1. /\ address.slot = Cur /\ address.fn = place.fn /\ address.dword = Dword[Field]
  BY DEF Register
<1>2. CASE there # {}
  <2>1. Answers = {d[Field] : d \in there}
    BY <1>1, <1>2 DEF Answers, Cur
  <2> QED BY <2>1
<1>3. CASE there = {}
  <2>1. ASSUME Field = "vendor" PROVE value = AllOnes
    BY <1>1, <1>3, <2>1 DEF Answers, Cur
  <2> QED BY <1>3, <2>1
<1> QED BY <1>2, <1>3

\* What moving on passes: the place's function, or all of its slot.
NowPassed(d, leave) == Passed(d) \/ (d.slot = Cur /\ (leave \/ d.fn = place.fn))

LEMMA Moving ==
    ASSUME PlaceInv, Scanning, NEW leave \in BOOLEAN, MoveOn(leave)
    PROVE  /\ got' = <<>> /\ UNCHANGED <<machine, address, access, disturbed, hardware>>
           /\ at' \in {"select", "usb"}
           /\ at' = "select" =>
                 /\ place' \in [slot : 1 .. Len(Slots), fn : 0 .. LastFn]
                 /\ \A d \in machine.pci : Passed(d)' <=> NowPassed(d, leave)
                 /\ place'.fn = 0 \/ (~leave /\ place'.slot = place.slot)
           /\ at' = "usb" => \A d \in machine.pci : NowPassed(d, leave)
<1>t. /\ place.slot \in 1 .. Len(Slots) /\ place.fn \in 0 .. LastFn
      /\ Len(Slots) \in Nat /\ LastFn \in Nat
      /\ \A i, j \in 1 .. Len(Slots) : Slots[i] = Slots[j] => i = j
      /\ place = [slot |-> place.slot, fn |-> place.fn]
  BY DetectAssumption DEF PlaceInv
<1>d. ASSUME NEW d \in machine.pci
      PROVE  d.fn \in 0 .. LastFn /\ \E k \in 1 .. Len(Slots) : d.slot = Slots[k]
  BY DeviceAssumption DEF PlaceInv
<1>m. got' = <<>> /\ UNCHANGED <<machine, address, access, disturbed, hardware>>
  BY DEF MoveOn
<1>1. CASE leave \/ place.fn = LastFn
  <2>1. CASE place.slot + 1 > Len(Slots)
    <3>1. at' = "usb" /\ place' = place
      BY <1>1, <2>1 DEF MoveOn
    <3>2. ASSUME NEW d \in machine.pci PROVE NowPassed(d, leave)
      <4>1. PICK k \in 1 .. Len(Slots) : d.slot = Slots[k]
        BY <1>d
      <4>2. k < place.slot \/ k = place.slot
        BY <1>t, <2>1
      <4>3. d.fn < place.fn \/ d.fn = place.fn \/ leave
        BY <1>1, <1>d, <1>t
      <4> QED BY <4>1, <4>2, <4>3 DEF NowPassed, Passed, Cur
    <3> QED BY <1>m, <3>1, <3>2
  <2>2. CASE ~(place.slot + 1 > Len(Slots))
    <3>1. at' = "select" /\ place' = [slot |-> place.slot + 1, fn |-> 0]
      BY <1>1, <2>2 DEF MoveOn
    <3>2. place' \in [slot : 1 .. Len(Slots), fn : 0 .. LastFn] /\ place'.fn = 0
          /\ place'.slot = place.slot + 1
      BY <3>1, <2>2, <1>t
    <3>3. ASSUME NEW d \in machine.pci PROVE Passed(d)' <=> NowPassed(d, leave)
      <4>1. PICK k \in 1 .. Len(Slots) : d.slot = Slots[k]
        BY <1>d
      <4>2. Passed(d)' <=> k < place.slot + 1
        BY <1>t, <1>d, <3>2, <4>1 DEF Passed
      <4>3. Passed(d) <=> k < place.slot \/ (k = place.slot /\ d.fn < place.fn)
        BY <1>t, <4>1 DEF Passed
      <4>4. d.slot = Cur <=> k = place.slot
        BY <1>t, <4>1 DEF Cur
      <4>5. d.fn < place.fn \/ d.fn = place.fn \/ leave
        BY <1>1, <1>d, <1>t
      <4> QED BY <1>t, <4>2, <4>3, <4>4, <4>5 DEF NowPassed
    <3> QED BY <1>m, <3>1, <3>2, <3>3
  <2> QED BY <2>1, <2>2
<1>2. CASE ~(leave \/ place.fn = LastFn)
  <2>1. place' = [place EXCEPT !.fn = @ + 1] /\ at' = "select"
    BY <1>2, <1>t DEF MoveOn
  <2>2. place'.slot = place.slot /\ place'.fn = place.fn + 1
        /\ place' \in [slot : 1 .. Len(Slots), fn : 0 .. LastFn]
    BY <2>1, <1>2, <1>t
  <2>3. ASSUME NEW d \in machine.pci PROVE Passed(d)' <=> NowPassed(d, leave)
    <3>1. PICK k \in 1 .. Len(Slots) : d.slot = Slots[k]
      BY <1>d
    <3>2. Passed(d)' <=> k < place.slot \/ (k = place.slot /\ d.fn < place.fn + 1)
      BY <1>t, <2>2, <3>1 DEF Passed
    <3>3. Passed(d) <=> k < place.slot \/ (k = place.slot /\ d.fn < place.fn)
      BY <1>t, <3>1 DEF Passed
    <3>4. d.slot = Cur <=> k = place.slot
      BY <1>t, <3>1 DEF Cur
    <3>5. d.fn < place.fn + 1 <=> d.fn < place.fn \/ d.fn = place.fn
      BY <1>t, <1>d
    <3> QED BY <1>2, <3>2, <3>3, <3>4, <3>5 DEF NowPassed
  <2> QED BY <1>2, <1>m, <2>1, <2>2, <2>3
<1> QED BY <1>1, <1>2

-----------------------------------------------------------------------------
(* The scan's invariant.                                                   *)

LEMMA InitScanInv == Init => ScanInv
<1> SUFFICES ASSUME Init PROVE ScanInv
  OBVIOUS
<1>1. /\ machine \in Machines /\ at = "open" /\ found = {} /\ disturbed = {}
      /\ access = [port |-> FALSE, usb |-> {}, mem |-> FALSE]
      /\ place = [slot |-> 1, fn |-> 0] /\ got = <<>>
  BY DEF Init, DetectInit
<1>2. PlaceInv /\ ReadInv
  BY <1>1 DEF PlaceInv, ReadInv, Scanning
<1>3. FoundInv
  BY <1>1 DEF FoundInv, Scanning
<1> QED BY <1>2, <1>3 DEF ScanInv

\* The places of devices, and what conforming means, stay with the machine.
LEMMA SameMachine ==
    ASSUME machine' = machine
    PROVE  /\ \A d : Conforming(d)' <=> Conforming(d)
           /\ disturbed' = disturbed => Calm' = Calm
           /\ found' = found /\ disturbed' = disturbed => FoundCalmly' = FoundCalmly
<1>1. \A d : Conforming(d)' <=> Conforming(d)
  BY DEF Conforming
<1> QED BY <1>1 DEF Calm, FoundCalmly

\* A device that can be found, in the slot of one that has been found there,
\* is that one if the slot is left after it.
LEMMA OnlyOne ==
    ASSUME machine \in Machines, NEW d \in machine.pci, NEW x \in machine.pci,
           Conforming(x), x.slot = d.slot, SingleFunction(d)
    PROVE  x = d
<1>1. d.fn = 0 /\ ~d.header.multi
  BY DEF SingleFunction
<1>2. PICK zero \in machine.pci : zero.slot = x.slot /\ zero.fn = 0
                                  /\ (x.fn = 0 \/ zero.header.multi)
  BY DEF Conforming
<1>3. zero = d
  BY <1>1, <1>2, DeviceAssumption
<1> QED BY <1>1, <1>2, <1>3, DeviceAssumption

\* A function that is not there: nothing that can be found has been passed.
LEMMA NoFunctionScans ==
    ASSUME ScanInv, NoFunction
    PROVE  ScanInv'
<1> USE DEF ScanInv
<1> DEFINE leave == place.fn = 0
<1>0. /\ at = "data" /\ Scanning /\ Field = "vendor" /\ AllOnes \in Answers
      /\ MoveOn(leave) /\ found' = found
  BY DEF NoFunction, Scanning
<1>1. /\ got' = <<>> /\ UNCHANGED <<machine, address, access, disturbed, hardware>>
      /\ at' \in {"select", "usb"}
      /\ at' = "select" =>
            /\ place' \in [slot : 1 .. Len(Slots), fn : 0 .. LastFn]
            /\ \A d \in machine.pci : Passed(d)' <=> NowPassed(d, leave)
            /\ place'.fn = 0 \/ (~leave /\ place'.slot = place.slot)
      /\ at' = "usb" => \A d \in machine.pci : NowPassed(d, leave)
  <2>1. leave \in BOOLEAN
    OBVIOUS
  <2> HIDE DEF leave
  <2> QED BY <1>0, <2>1, Moving
<1>t. /\ machine \in Machines /\ place.fn \in 0 .. LastFn /\ Len(got) \in 0 .. 5
      /\ access.port /\ access \in [port : BOOLEAN, usb : SUBSET machine.usb, mem : BOOLEAN]
  BY <1>0 DEF PlaceInv
<1>s. Calm' = Calm /\ FoundCalmly' = FoundCalmly
  BY <1>0, <1>1, SameMachine
<1>2. ASSUME Cur \notin disturbed
      PROVE  ~\E d \in machine.pci : d.slot = Cur /\ d.fn = place.fn
  <2>1. address = Register(Cur, place.fn, Dword[Field])
    BY <1>0, <1>2 DEF ReadInv
  <2>2. \A d \in machine.pci : AllOnes # d.vendor
    BY <1>t, DeviceAssumption DEF AllOnes
  <2> QED BY <1>0, <2>1, <2>2, AnswersHere
<1>3. \A d \in Calm : NowPassed(d, leave) => Passed(d)
  <2> SUFFICES ASSUME NEW d \in Calm, d.slot = Cur, leave \/ d.fn = place.fn
               PROVE  FALSE
    BY DEF NowPassed
  <2>1. d \in machine.pci /\ Conforming(d) /\ Cur \notin disturbed
    BY DEF Calm
  <2>2. PICK zero \in machine.pci : zero.slot = Cur /\ zero.fn = 0
    BY <2>1 DEF Conforming
  <2> QED BY <1>2, <2>1, <2>2
<1>4. FoundInv'
  <2>1. CASE at' = "select"
    <3>1. \A d \in Calm : Passed(d)' <=> Passed(d)
      BY <1>1, <1>3, <2>1 DEF Calm, NowPassed
    <3>2. \A d : AsFound(d)' = AsFound(d)
      BY DEF AsFound
    <3> QED BY <1>0, <1>s, <2>1, <3>1, <3>2 DEF FoundInv, Scanning
  <2>2. CASE at' = "usb"
    <3>1. \A d \in Calm : Passed(d)
      BY <1>1, <1>3, <2>2 DEF Calm
    <3>2. \A d : AsFound(d)' = AsFound(d)
      BY DEF AsFound
    <3> QED BY <1>0, <1>1, <1>s, <1>t, <2>2, <3>1, <3>2 DEF FoundInv, Scanning
  <2> QED BY <1>1, <2>1, <2>2
<1>5. PlaceInv'
  BY <1>1, <1>t DEF PlaceInv, Scanning
<1>6. ReadInv'
  <2> SUFFICES ASSUME at' = "select", Cur' \notin disturbed', place'.fn > 0
               PROVE  Several'
    BY <1>1 DEF ReadInv, Scanning
  <2>1. place'.slot = place.slot /\ place.fn # 0
    BY <1>1, <1>t
  <2>2. Cur' = Cur
    BY <2>1 DEF Cur
  <2>3. Several
    BY <1>0, <1>1, <1>t, <2>1, <2>2 DEF ReadInv
  <2> QED BY <1>1, <2>2, <2>3 DEF Several
<1> QED BY <1>4, <1>5, <1>6

\* In a calm slot, the answer is the field of a device at the place, the one
\* that has been read up to there.
LEMMA AnswerOfDevice ==
    ASSUME ScanInv, at = "data", Cur \notin disturbed, NEW value \in Answers,
           ~(Field = "vendor" /\ value = AllOnes)
    PROVE  \E d \in machine.pci : ReadOf(d) /\ value = d[Field]
<1>0. /\ Scanning /\ machine \in Machines /\ Len(got) \in 0 .. 5
      /\ address = Register(Cur, place.fn, Dword[Field])
      /\ Len(got) > 0 => \E d \in machine.pci : ReadOf(d)
  BY DEF ScanInv, PlaceInv, ReadInv, Scanning
<1>1. \E d \in machine.pci : ReadOf(d)
  <2>1. CASE Len(got) > 0
    BY <1>0, <2>1
  <2>2. CASE Len(got) = 0
    <3>1. Field = "vendor" /\ value # AllOnes
      BY <1>0, <2>2, FieldFacts
    <3>2. PICK d \in machine.pci : d.slot = Cur /\ d.fn = place.fn
      BY <1>0, <3>1, AnswersHere
    <3>3. ReadOf(d)
      BY <2>2, <3>2 DEF ReadOf
    <3> QED BY <3>3
  <2> QED BY <1>0, <2>1, <2>2
<1>2. PICK d \in machine.pci : ReadOf(d)
  BY <1>1
<1>3. d.slot = Cur /\ d.fn = place.fn
  BY <1>2 DEF ReadOf
<1>4. PICK x \in machine.pci : x.slot = Cur /\ x.fn = place.fn /\ value = x[Field]
  BY <1>0, <1>3, AnswersHere
<1>5. x = d
  BY <1>0, <1>3, <1>4, DeviceAssumption
<1> QED BY <1>2, <1>4, <1>5

LEMMA ReadFieldScans ==
    ASSUME ScanInv, ReadField
    PROVE  ScanInv'
<1> USE DEF ScanInv
<1>1. PICK value \in Answers : /\ ~(Field = "vendor" /\ value = AllOnes) /\ ~LastRead(value)
                               /\ got' = Append(got, value)
  BY DEF ReadField
<1>2. /\ at = "data" /\ at' = "select"
      /\ UNCHANGED <<machine, address, place, found, access, disturbed>>
  BY DEF ReadField
<1>t. /\ Scanning /\ Scanning' /\ machine \in Machines /\ Len(got) \in 0 .. 5
      /\ got = [k \in 1 .. Len(got) |-> got[k]]
  BY <1>2 DEF PlaceInv, Scanning
<1>3. /\ Len(got') = Len(got) + 1 /\ \A k \in 1 .. Len(got) : got'[k] = got[k]
      /\ got'[Len(got) + 1] = value /\ got' = [k \in 1 .. Len(got) + 1 |-> got'[k]]
  BY <1>1, <1>t, Appended
<1>4. Len(got) # 5
  BY <1>1, <1>t, FieldFacts DEF LastRead
<1>5. PlaceInv'
  BY <1>2, <1>3, <1>4, <1>t DEF PlaceInv
<1>6. ReadInv'
  <2> SUFFICES ASSUME Cur \notin disturbed
               PROVE  (place.fn > 0 => Several') /\ \E d \in machine.pci : ReadOf(d)'
    BY <1>2, <1>3 DEF ReadInv, Cur
  <2>1. place.fn > 0 => Several'
    BY <1>2, <1>t DEF ReadInv, Several, Cur
  <2>2. PICK d \in machine.pci : ReadOf(d) /\ value = d[Field]
    BY <1>1, <1>2, AnswerOfDevice
  <2>3. value = d[Fields[Len(got) + 1]]
    BY <2>2 DEF Field
  <2>4. \A k \in 1 .. Len(got') : got'[k] = d[Fields[k]]
    <3>1. \A k \in 1 .. Len(got) + 1 : k \in 1 .. Len(got) \/ k = Len(got) + 1
      BY <1>t
    <3> QED BY <1>3, <2>2, <2>3, <3>1 DEF ReadOf
  <2>5. Len(got') > 3 => ~d.header.bridge
    <3>1. CASE Len(got) = 3
      <4>1. Field = "header"
        BY <1>t, <3>1, FieldFacts
      <4> QED BY <1>1, <2>2, <4>1 DEF LastRead
    <3>2. CASE Len(got) # 3
      BY <1>t, <1>3, <2>2, <3>2 DEF ReadOf
    <3> QED BY <3>1, <3>2
  <2> QED BY <1>2, <2>1, <2>2, <2>4, <2>5 DEF ReadOf, Cur
<1>7. FoundInv'
  <2>1. Calm' = Calm /\ FoundCalmly' = FoundCalmly
    BY <1>2, SameMachine
  <2>2. \A d : (Passed(d)' <=> Passed(d)) /\ AsFound(d)' = AsFound(d)
    BY <1>2 DEF Passed, AsFound
  <2> QED BY <1>2, <1>t, <2>1, <2>2 DEF FoundInv
<1> QED BY <1>5, <1>6, <1>7

LEMMA FoundDeviceScans ==
    ASSUME ScanInv, FoundDevice
    PROVE  ScanInv'
<1> USE DEF ScanInv
<1>1. PICK value \in Answers :
          /\ LastRead(value)
          /\ LET read == Append(got, value) \o (IF Field = "header" THEN <<AllOnes, AllOnes>>
                                                ELSE <<>>)
                 d == [slot |-> Slots[place.slot], fn |-> place.fn, vendor |-> read[1],
                       device |-> read[2], cls |-> read[3], header |-> read[4],
                       subvendor |-> read[5], subdevice |-> read[6]]
             IN  found' = found \cup {d} /\ MoveOn(SingleFunction(d))
  BY DEF FoundDevice
<1> DEFINE read == Append(got, value) \o (IF Field = "header" THEN <<AllOnes, AllOnes>>
                                          ELSE <<>>)
           new == [slot |-> Cur, fn |-> place.fn, vendor |-> read[1],
                   device |-> read[2], cls |-> read[3], header |-> read[4],
                   subvendor |-> read[5], subdevice |-> read[6]]
           leave == SingleFunction(new)
<1>2. at = "data" /\ found' = found \cup {new} /\ MoveOn(leave)
  BY <1>1 DEF FoundDevice, Cur
<1>t. /\ Scanning /\ machine \in Machines /\ place.fn \in 0 .. LastFn
      /\ Len(got) \in 0 .. 5 /\ got = [k \in 1 .. Len(got) |-> got[k]]
      /\ access.port /\ access \in [port : BOOLEAN, usb : SUBSET machine.usb, mem : BOOLEAN]
  BY <1>2 DEF PlaceInv, Scanning
\* In a calm slot it is the device at the place, as it is.
<1>3. ASSUME Cur \notin disturbed
      PROVE  \E d \in machine.pci : /\ d.slot = Cur /\ d.fn = place.fn
                                    /\ new = AsFound(d) /\ Conforming(d)
  <2>1. ~(Field = "vendor" /\ value = AllOnes)
    BY <1>1 DEF LastRead
  <2>2. PICK d \in machine.pci : ReadOf(d) /\ value = d[Field]
    BY <1>2, <1>3, <2>1, AnswerOfDevice
  <2>3. /\ Len(Append(got, value)) = Len(got) + 1
        /\ \A k \in 1 .. Len(got) : Append(got, value)[k] = got[k]
        /\ Append(got, value)[Len(got) + 1] = value
        /\ Append(got, value) = [k \in 1 .. Len(got) + 1 |-> Append(got, value)[k]]
    BY <1>t, Appended
  <2>4. d.slot = Cur /\ d.fn = place.fn /\ \A k \in 1 .. Len(got) : got[k] = d[Fields[k]]
    BY <2>2 DEF ReadOf
  <2>5. /\ Fields[1] = "vendor" /\ Fields[2] = "device" /\ Fields[3] = "cls"
        /\ Fields[4] = "header" /\ Fields[5] = "subvendor" /\ Fields[6] = "subdevice"
    BY DEF Fields
  <2>6. new = AsFound(d)
    <3>1. CASE Field = "header" /\ value.bridge
      <4>1. Len(got) = 3
        BY <1>t, <3>1, FieldFacts
      <4>2. /\ Append(got, value)[1] = d.vendor /\ Append(got, value)[2] = d.device
            /\ Append(got, value)[3] = d.cls /\ Append(got, value)[4] = d.header
        <5>1. Len(got) + 1 = 4 /\ \A k \in 1 .. 3 : got[k] = d[Fields[k]]
          BY <2>4, <4>1
        <5>2. /\ Append(got, value)[4] = value
              /\ \A k \in 1 .. 3 : Append(got, value)[k] = got[k]
          BY <2>3, <4>1, <5>1
        <5> QED BY <2>2, <2>5, <3>1, <5>1, <5>2
      <4>3. read = Append(got, value) \o <<AllOnes, AllOnes>>
        BY <3>1
      <4>4. /\ read[1] = d.vendor /\ read[2] = d.device /\ read[3] = d.cls
            /\ read[4] = d.header /\ read[5] = AllOnes /\ read[6] = AllOnes
        <5> HIDE DEF read
        <5> DEFINE p == Append(got, value)
        <5>1. Len(p) = 4 /\ p = [k \in 1 .. 4 |-> p[k]]
          BY <2>3, <4>1
        <5> HIDE DEF p
        <5>2. p \in Seq({p[k] : k \in 1 .. 4})
          BY <5>1
        <5>3. /\ (p \o <<AllOnes, AllOnes>>)[1] = p[1] /\ (p \o <<AllOnes, AllOnes>>)[2] = p[2]
              /\ (p \o <<AllOnes, AllOnes>>)[3] = p[3] /\ (p \o <<AllOnes, AllOnes>>)[4] = p[4]
              /\ (p \o <<AllOnes, AllOnes>>)[5] = AllOnes
              /\ (p \o <<AllOnes, AllOnes>>)[6] = AllOnes
          BY <5>1, <5>2
        <5> QED BY <4>2, <4>3, <5>3 DEF p
      <4> HIDE DEF read
      <4> QED BY <2>2, <2>4, <3>1, <4>4 DEF AsFound
    <3>2. CASE Field = "subdevice"
      <4>1. Len(got) = 5
        BY <1>t, <3>2, FieldFacts
      <4>2. /\ Append(got, value)[1] = d.vendor /\ Append(got, value)[2] = d.device
            /\ Append(got, value)[3] = d.cls /\ Append(got, value)[4] = d.header
            /\ Append(got, value)[5] = d.subvendor /\ Append(got, value)[6] = d.subdevice
        <5>1. Len(got) + 1 = 6 /\ \A k \in 1 .. 5 : got[k] = d[Fields[k]]
          BY <2>4, <4>1
        <5>2. /\ Append(got, value)[6] = value
              /\ \A k \in 1 .. 5 : Append(got, value)[k] = got[k]
          BY <2>3, <4>1, <5>1
        <5> QED BY <2>2, <2>5, <3>2, <5>1, <5>2
      <4>3. read = Append(got, value) \o <<>>
        BY <3>2
      <4>4. read = Append(got, value)
        <5> HIDE DEF read
        <5> DEFINE p == Append(got, value)
        <5>0. Len(got) + 1 = 6
          BY <4>1
        <5>1. Len(p) = 6 /\ p = [k \in 1 .. 6 |-> p[k]]
          BY <2>3, <5>0
        <5> HIDE DEF p
        <5>2. p \in Seq({p[k] : k \in 1 .. 6})
          BY <5>1
        <5>3. p \o <<>> = p
          BY <5>2
        <5> QED BY <4>3, <5>3 DEF p
      <4>5. ~d.header.bridge
        BY <2>2, <4>1 DEF ReadOf
      <4> HIDE DEF read
      <4> QED BY <2>4, <4>2, <4>4, <4>5 DEF AsFound
    <3> QED BY <1>1, <3>1, <3>2 DEF LastRead
  <2>7. Conforming(d)
    <3>1. CASE place.fn = 0
      BY <2>4, <3>1 DEF Conforming
    <3>2. CASE place.fn # 0
      <4>1. Several
        BY <1>3, <1>t, <3>2 DEF ReadInv
      <4> QED BY <2>4, <4>1 DEF Several, Conforming
    <3> QED BY <3>1, <3>2
  <2> QED BY <2>4, <2>6, <2>7
<1>n. new.slot = Cur
  OBVIOUS
<1> HIDE DEF new
<1>4. /\ got' = <<>> /\ UNCHANGED <<machine, address, access, disturbed, hardware>>
      /\ at' \in {"select", "usb"}
      /\ at' = "select" =>
            /\ place' \in [slot : 1 .. Len(Slots), fn : 0 .. LastFn]
            /\ \A d \in machine.pci : Passed(d)' <=> NowPassed(d, leave)
            /\ place'.fn = 0 \/ (~leave /\ place'.slot = place.slot)
      /\ at' = "usb" => \A d \in machine.pci : NowPassed(d, leave)
  <2>1. leave \in BOOLEAN
    BY DEF SingleFunction
  <2> HIDE DEF leave
  <2> QED BY <1>2, <1>t, <2>1, Moving
<1>s. Calm' = Calm
  BY <1>4, SameMachine
<1>c. FoundCalmly' = FoundCalmly \cup (IF Cur \in disturbed THEN {} ELSE {new})
  BY <1>2, <1>4, <1>n DEF FoundCalmly
\* Of what can be found in calm slots, this one has been passed now.
<1>5. \A d \in Calm : NowPassed(d, leave) => Passed(d) \/ AsFound(d) = new
  <2> SUFFICES ASSUME NEW d \in Calm, d.slot = Cur, leave \/ d.fn = place.fn
               PROVE  AsFound(d) = new
    BY DEF NowPassed
  <2>1. d \in machine.pci /\ Conforming(d) /\ Cur \notin disturbed
    BY DEF Calm
  <2>2. PICK x \in machine.pci : x.slot = Cur /\ x.fn = place.fn /\ new = AsFound(x)
    BY <1>3, <2>1
  <2>3. SingleFunction(new) <=> SingleFunction(x)
    BY <2>2 DEF SingleFunction, AsFound
  <2>4. d = x
    <3>1. CASE leave
      BY <1>t, <2>1, <2>2, <2>3, <3>1, OnlyOne
    <3>2. CASE d.fn = place.fn
      BY <1>t, <2>1, <2>2, <3>2, DeviceAssumption
    <3> QED BY <3>1, <3>2
  <2> QED BY <2>2, <2>4
<1>6. Cur \notin disturbed => \E d \in Calm : NowPassed(d, leave) /\ new = AsFound(d)
  <2> SUFFICES ASSUME Cur \notin disturbed
               PROVE  \E d \in Calm : NowPassed(d, leave) /\ new = AsFound(d)
    OBVIOUS
  <2>1. PICK d \in machine.pci : d.slot = Cur /\ d.fn = place.fn /\ new = AsFound(d)
                                 /\ Conforming(d)
    BY <1>3
  <2> QED BY <2>1 DEF Calm, NowPassed
<1>7. /\ \A d \in Calm : NowPassed(d, leave) => AsFound(d) \in found'
      /\ \A x \in FoundCalmly' : \E d \in Calm : NowPassed(d, leave) /\ x = AsFound(d)
  <2>1. \A d \in Calm : Passed(d) => AsFound(d) \in found /\ NowPassed(d, leave)
    BY <1>t DEF FoundInv, NowPassed
  <2>2. \A x \in FoundCalmly : \E d \in Calm : Passed(d) /\ x = AsFound(d)
    BY <1>t DEF FoundInv
  <2> HIDE DEF leave
  <2> QED BY <1>2, <1>5, <1>6, <1>c, <2>1, <2>2
<1>8. FoundInv'
  <2>1. \A d : AsFound(d)' = AsFound(d)
    BY DEF AsFound
  <2>2. CASE at' = "select"
    <3>1. \A d \in Calm : Passed(d)' <=> NowPassed(d, leave)
      BY <1>4, <2>2 DEF Calm
    <3> HIDE DEF leave
    <3> QED BY <1>7, <1>s, <2>1, <2>2, <3>1 DEF FoundInv, Scanning
  <2>3. CASE at' = "usb"
    <3>1. \A d \in Calm : NowPassed(d, leave)
      BY <1>4, <2>3 DEF Calm
    <3> HIDE DEF leave
    <3> QED BY <1>4, <1>7, <1>s, <1>t, <2>1, <2>3, <3>1 DEF FoundInv, Scanning
  <2> QED BY <1>4, <2>2, <2>3
<1>9. PlaceInv'
  BY <1>4, <1>t DEF PlaceInv, Scanning
<1>10. ReadInv'
  <2> SUFFICES ASSUME at' = "select", Cur' \notin disturbed', place'.fn > 0
               PROVE  Several'
    BY <1>4 DEF ReadInv, Scanning
  <2>1. place'.slot = place.slot /\ ~leave
    BY <1>4
  <2>2. Cur' = Cur
    BY <2>1 DEF Cur
  <2>3. PICK d \in machine.pci : d.slot = Cur /\ d.fn = place.fn /\ new = AsFound(d)
    BY <1>3, <1>4, <2>2
  <2>4. ~SingleFunction(d)
    BY <2>1, <2>3 DEF SingleFunction, AsFound
  <2>5. Several
    <3>1. CASE place.fn = 0
      BY <2>3, <2>4, <3>1 DEF SingleFunction, Several
    <3>2. CASE place.fn > 0
      BY <1>4, <1>t, <2>2, <3>2 DEF ReadInv
    <3> QED BY <1>t, <3>1, <3>2
  <2> QED BY <1>4, <2>2, <2>5 DEF Several
<1> QED BY <1>8, <1>9, <1>10

LEMMA NextScanInv == ScanInv /\ [Next]_vars => ScanInv'
<1> SUFFICES ASSUME ScanInv, [Next]_vars PROVE ScanInv'
  OBVIOUS
<1> USE DEF ScanInv
<1>t. machine \in Machines /\ access \in [port : BOOLEAN, usb : SUBSET machine.usb, mem : BOOLEAN]
  BY DEF PlaceInv
<1>a. \A d : AsFound(d)' = AsFound(d)
  BY DEF AsFound
\* The scan is not going on, before or after, and what it has found stays.
<1>q. ASSUME UNCHANGED <<machine, found, disturbed>>,
             ~Scanning, ~Scanning', at' # "open",
             access' \in [port : BOOLEAN, usb : SUBSET machine.usb, mem : BOOLEAN],
             access'.port = access.port
      PROVE  ScanInv'
  <2>1. Calm' = Calm /\ FoundCalmly' = FoundCalmly
    BY <1>q, SameMachine
  <2>2. PlaceInv' /\ ReadInv'
    BY <1>q DEF PlaceInv, ReadInv
  <2>3. FoundInv'
    BY <1>q, <1>a, <2>1 DEF FoundInv
  <2> QED BY <2>2, <2>3
<1>1. CASE OpenPort
  <2>1. PICK port \in BOOLEAN : /\ access' = [access EXCEPT !.port = port]
                                /\ at' = IF port THEN "select" ELSE "usb"
    BY <1>1 DEF OpenPort
  <2>2. /\ at = "open" /\ UNCHANGED <<machine, place, got, found, disturbed>>
        /\ place = [slot |-> 1, fn |-> 0] /\ got = <<>> /\ found = {}
    BY <1>1 DEF OpenPort, PlaceInv, FoundInv
  <2>3. access' \in [port : BOOLEAN, usb : SUBSET machine.usb, mem : BOOLEAN]
        /\ access'.port = port
    BY <1>t, <2>1
  <2>4. 1 \in 1 .. Len(Slots) /\ 0 \in 0 .. LastFn
    BY DetectAssumption
  <2>5. PlaceInv'
    BY <1>t, <2>1, <2>2, <2>3, <2>4 DEF PlaceInv, Scanning
  <2>6. ReadInv'
    BY <2>1, <2>2 DEF ReadInv, Scanning
  <2>7. \A d \in machine.pci : ~Passed(d)'
    <3>1. \A d \in machine.pci : d.fn \in 0 .. LastFn
      BY <1>t, DeviceAssumption
    <3>2. place'.slot = 1 /\ place'.fn = 0 /\ LastFn \in Nat
      BY <2>2, DetectAssumption
    <3> QED BY <3>1, <3>2 DEF Passed
  <2>8. FoundInv'
    BY <2>1, <2>2, <2>3, <2>7 DEF FoundInv, Scanning, Calm, FoundCalmly
  <2> QED BY <2>5, <2>6, <2>8
<1>2. CASE SelectRegister
  <2>1. /\ at = "select" /\ at' = "data" /\ Scanning /\ Scanning'
        /\ address' = Register(Cur, place.fn, Dword[Field])
        /\ UNCHANGED <<machine, place, got, found, access, disturbed>>
    BY <1>2 DEF SelectRegister, Scanning, Cur
  <2>2. Calm' = Calm /\ FoundCalmly' = FoundCalmly
    BY <2>1, SameMachine
  <2>3. \A d : (Passed(d)' <=> Passed(d)) /\ (ReadOf(d)' <=> ReadOf(d))
    BY <2>1 DEF Passed, ReadOf, Cur
  <2>4. PlaceInv'
    BY <2>1 DEF PlaceInv
  <2>5. ReadInv'
    BY <2>1, <2>3 DEF ReadInv, Several, Cur, Field
  <2>6. FoundInv'
    BY <1>a, <2>1, <2>2, <2>3 DEF FoundInv
  <2> QED BY <2>4, <2>5, <2>6
<1>3. CASE KernelAccess
  <2>1. /\ at = "data" /\ at' = at /\ Scanning /\ Scanning'
        /\ disturbed' = disturbed \cup {Cur}
        /\ UNCHANGED <<machine, place, got, found, access>>
    BY <1>3 DEF KernelAccess, Scanning, Cur
  <2>2. /\ Calm' = {d \in Calm : d.slot # Cur}
        /\ FoundCalmly' = {x \in FoundCalmly : x.slot # Cur}
    BY <2>1, SameMachine DEF Calm, FoundCalmly
  <2>3. \A d : (Passed(d)' <=> Passed(d)) /\ AsFound(d).slot = d.slot
    BY <2>1 DEF Passed, AsFound
  <2>4. PlaceInv'
    BY <2>1 DEF PlaceInv
  <2>5. ReadInv'
    BY <2>1 DEF ReadInv, Cur
  <2>6. FoundInv'
    BY <1>a, <2>1, <2>2, <2>3 DEF FoundInv
  <2> QED BY <2>4, <2>5, <2>6
<1>4. CASE NoFunction
  BY <1>4, NoFunctionScans
<1>5. CASE ReadField
  BY <1>5, ReadFieldScans
<1>6. CASE FoundDevice
  BY <1>6, FoundDeviceScans
<1>7. CASE ScanUsb
  <2>1. /\ at = "usb" /\ at' = "acpi" /\ UNCHANGED <<machine, found, disturbed>>
    BY <1>7 DEF ScanUsb
  <2>2. PICK readable \in SUBSET machine.usb : access' = [access EXCEPT !.usb = readable]
    BY <1>7 DEF ScanUsb
  <2> QED BY <1>q, <1>t, <2>1, <2>2 DEF Scanning
<1>8. CASE ScanAcpi
  <2>1. /\ at = "acpi" /\ at' \in {"failed", "tree"} /\ UNCHANGED <<machine, found, disturbed>>
    BY <1>8 DEF ScanAcpi
  <2>2. PICK mem \in BOOLEAN : access' = [access EXCEPT !.mem = mem]
    BY <1>8 DEF ScanAcpi
  <2> QED BY <1>q, <1>t, <2>1, <2>2 DEF Scanning
<1>9. CASE OpenTree \/ WalkTree \/ LeaveTree \/ SaveHardware
  <2>1. /\ at \in {"tree", "walk", "save"}
        /\ at' \in {"walk", "save", "failed", "refused", "match"}
        /\ UNCHANGED <<machine, found, disturbed, access>>
    BY <1>9 DEF OpenTree, WalkTree, LeaveTree, SaveHardware
  <2> QED BY <1>q, <1>t, <2>1 DEF Scanning
<1>10. CASE MatchDevices \/ Generate \/ LockPath
  <2>1. /\ at \in {"match", "generate", "lock"} /\ at' \in {"generate", "lock", "write"}
        /\ UNCHANGED <<machine, found, disturbed, access>>
    BY <1>10 DEF MatchDevices, Generate, LockPath, Found
  <2> QED BY <1>q, <1>t, <2>1 DEF Scanning
<1>11. CASE UNCHANGED vars
  <2>1. UNCHANGED <<machine, at, address, place, got, found, access, disturbed>>
    BY <1>11 DEF vars, detectVars
  <2>2. Calm' = Calm /\ FoundCalmly' = FoundCalmly
    BY <2>1, SameMachine
  <2>3. \A d : (Passed(d)' <=> Passed(d)) /\ (ReadOf(d)' <=> ReadOf(d))
    BY <2>1 DEF Passed, ReadOf, Cur
  <2> QED BY <1>a, <2>1, <2>2, <2>3
          DEF PlaceInv, ReadInv, FoundInv, Several, Cur, Field, Scanning
<1> QED BY <1>1, <1>2, <1>3, <1>4, <1>5, <1>6, <1>7, <1>8, <1>9, <1>10, <1>11
        DEF Next, DetectStep, Detect

-----------------------------------------------------------------------------
(* What is saved.                                                          *)

\* The state file has what was found and what could be read.
SavedInv == Saved => /\ hardware.pci = {SavePci(x) : x \in found}
                     /\ hardware.usb = {SaveUsb(x) : x \in access.usb}

LEMMA NextSavedInv == SavedInv /\ [Next]_vars => SavedInv'
<1> SUFFICES ASSUME SavedInv, [Next]_vars, Saved' PROVE SavedInv'
  BY DEF SavedInv
<1>1. CASE SaveHardware
  <2>1. /\ UNCHANGED <<found, access>>
        /\ hardware'.pci = {SavePci(d) : d \in found}
        /\ hardware'.usb = {SaveUsb(d) : d \in access.usb}
    BY <1>1 DEF SaveHardware
  <2> QED BY <2>1 DEF SavedInv, SavePci, SaveUsb
<1>2. CASE MatchDevices \/ Generate \/ LockPath \/ UNCHANGED vars
  <2>1. UNCHANGED <<found, access, hardware>> /\ (Saved' => Saved)
    BY <1>2 DEF MatchDevices, Generate, LockPath, Found, vars, detectVars, Saved
  <2> QED BY <2>1 DEF SavedInv, SavePci, SaveUsb
<1>3. CASE \/ OpenPort \/ SelectRegister \/ KernelAccess \/ ReadField \/ ScanUsb
           \/ ScanAcpi \/ OpenTree \/ WalkTree \/ LeaveTree \/ NoFunction \/ FoundDevice
  <2>1. at' \in {"select", "usb", "data", "acpi", "tree", "walk", "save", "failed"}
    BY <1>3 DEF OpenPort, SelectRegister, KernelAccess, ReadField, ScanUsb, ScanAcpi,
                OpenTree, WalkTree, LeaveTree, NoFunction, FoundDevice, MoveOn
  <2> QED BY <2>1 DEF Saved
<1> QED BY <1>1, <1>2, <1>3 DEF Next, DetectStep, Detect

LEMMA ScanAlways == Spec => [](ScanInv /\ SavedInv)
<1>1. Init => SavedInv
  BY DEF Init, DetectInit, SavedInv, Saved
<1> QED BY <1>1, InitScanInv, NextScanInv, NextSavedInv, PTL DEF Spec

\* Every device of a machine has the first interface of its descriptors.
LEMMA InterfacesFirst ==
    ASSUME NEW m \in Machines, NEW d \in m.usb
    PROVE  FirstInterface(d.config) = IF d.config = <<>> THEN NoInterface ELSE d.iface
<1> DEFINE config == d.config
           hits == {k \in 1 .. Len(config) : config[k].type = "interface" /\ Reached(config, k)}
<1>1. Len(config) \in Nat
  BY DescriptorAssumption
<1>2. CASE config = <<>>
  <2>1. hits = {}
    BY <1>2
  <2> QED BY <1>2, <2>1 DEF FirstInterface
<1>3. CASE config # <<>>
  <2>1. PICK k \in 1 .. Len(config) :
           /\ config[k].type = "interface" /\ config[k].iface = d.iface
           /\ Reached(config, k)
           /\ \A j \in 1 .. k - 1 : config[j].type # "interface"
    BY <1>3, DescriptorAssumption
  <2>2. k \in hits
    BY <2>1
  <2>3. \A j \in hits : k <= j /\ j \in Int
    <3> SUFFICES ASSUME NEW j \in hits, j < k PROVE FALSE
      BY <1>1
    <3> QED BY <1>1, <2>1
  <2>4. FirstInterface(config) = config[CHOOSE x \in hits : \A j \in hits : x <= j].iface
    BY <2>2 DEF FirstInterface
  <2>5. (CHOOSE x \in hits : \A j \in hits : x <= j) = k
    <3> HIDE DEF hits
    <3> QED BY <2>2, <2>3
  <2> QED BY <1>3, <2>1, <2>4, <2>5
<1> QED BY <1>2, <1>3

\* Whatever is in the machine and whenever the kernel uses the ports as well,
\* what is saved of the slots it left alone is exactly what is there, function
\* by function and field by field; and of USB, all that could be read (pci.py
\* 95-147, s01_hardware.py 48-52).
THEOREM ScanIsExact == Spec => []ScanExact
<1>1. ScanInv /\ SavedInv => ScanExact
  <2> SUFFICES ASSUME ScanInv, SavedInv, Saved PROVE ScanExact
    BY DEF ScanExact
  <2> DEFINE Exact(d) == [slot |-> d.slot, fn |-> d.fn, vendor |-> d.vendor,
                          device |-> d.device, cls |-> d.cls,
                          alias |-> IF d.header.bridge THEN <<AllOnes, AllOnes>>
                                    ELSE <<d.subvendor, d.subdevice>>]
             there == {x \in machine.pci : access.port /\ Conforming(x)
                                           /\ x.slot \notin disturbed}
  <2>t. machine \in Machines /\ access.usb \subseteq machine.usb /\ access.port \in BOOLEAN
        /\ ~Scanning
    BY DEF ScanInv, PlaceInv, Saved, Scanning
  <2>1. /\ hardware.pci = {SavePci(x) : x \in found}
        /\ hardware.usb = {SaveUsb(x) : x \in access.usb}
    BY DEF SavedInv
  <2>2. \A d : SavePci(AsFound(d)) = Exact(d) /\ \A x : SavePci(x).slot = x.slot
    BY DEF SavePci, AsFound
  <2>3. {s \in hardware.pci : s.slot \notin disturbed} = {SavePci(x) : x \in FoundCalmly}
    BY <2>1, <2>2 DEF FoundCalmly
  <2>4. {SavePci(x) : x \in FoundCalmly} = {Exact(d) : d \in there}
    <3>1. CASE access.port
      <4>1. /\ \A d \in Calm : AsFound(d) \in found
            /\ \A x \in FoundCalmly : \E d \in Calm : x = AsFound(d)
        BY <2>t, <3>1 DEF ScanInv, FoundInv
      <4>2. there = Calm
        BY <3>1 DEF Calm
      <4>3. \A d \in Calm : AsFound(d) \in FoundCalmly
        BY <4>1 DEF Calm, FoundCalmly, AsFound
      <4> HIDE DEF Exact, there
      <4> QED BY <2>2, <4>1, <4>2, <4>3
    <3>2. CASE ~access.port
      <4>1. FoundCalmly = {} /\ there = {}
        BY <2>t, <3>2 DEF ScanInv, FoundInv, FoundCalmly
      <4> HIDE DEF Exact, there
      <4> QED BY <4>1
    <3> QED BY <2>t, <3>1, <3>2
  <2>5. ASSUME NEW d \in access.usb
        PROVE  [vendor |-> d.vendor, product |-> d.product, dev_class |-> d.dev_class,
                alias |-> IF d.config = <<>> THEN NoInterface ELSE d.iface] \in hardware.usb
    <3>1. FirstInterface(d.config) = IF d.config = <<>> THEN NoInterface ELSE d.iface
      BY <2>t, InterfacesFirst
    <3>2. SaveUsb(d) \in hardware.usb
      BY <2>1
    <3> QED BY <3>1, <3>2 DEF SaveUsb
  <2> QED BY <2>3, <2>4, <2>5 DEF ScanExact
<1> QED BY <1>1, ScanAlways, PTL

-----------------------------------------------------------------------------
(* The walk over a device tree.                                            *)

IsTree(t) == Len(t) \in Nat \ {0} /\ t \in Trees(Len(t))

\* The leaves that are devices, among the first k nodes.
LeavesUpTo(t, k) ==
    {[path |-> PathOf(t, j), compatible |-> j] :
        j \in {x \in 1 .. k : t[x].compatible = "listed" /\ Leaf(t, x)}}

\* The path is that of node k, down to a depth.
Follows(path, t, k, depth) ==
    /\ path \in Seq(Nat) /\ Len(path) = depth
    /\ \A d \in 1 .. depth : path[d] = Above(t, k, d)

\* Before a node, those that enclose it are on the path, and the leaves before
\* it are collected.
Between(t, w, k) ==
    /\ k <= Len(t) => Follows(w.path, t, k, t[k].depth - 1)
    /\ w.devices = LeavesUpTo(t, k - 1)

\* The nodes that have ended with the first i tokens of node k.
Ended(t, k, i) == IF i <= 1 + Len(Props(t, k)) THEN 0 ELSE i - (1 + Len(Props(t, k)))

\* Behind the first i tokens of node k: its properties are the only ones there,
\* and they are gone when it has ended; it is collected with its own end.
ReadTo(t, w, k, i) ==
    /\ Follows(w.path, t, k, t[k].depth - Ended(t, k, i))
    /\ w.props = IF Ended(t, k, i) = 0 /\ i > 1 /\ t[k].compatible # "absent" THEN k
                 ELSE NoProps
    /\ w.devices = LeavesUpTo(t, IF Ended(t, k, i) > 0 THEN k ELSE k - 1)

WalkedTo(t) ==
    /\ offset \in [node : 1 .. Len(t) + 1, token : Nat \ {0}]
    /\ IF offset.token = 1 THEN Between(t, walk, offset.node)
       ELSE /\ offset.node <= Len(t)
            /\ offset.token <= Len(NodeTokens(t, offset.node))
            /\ ReadTo(t, walk, offset.node, offset.token - 1)

Starting == {"open", "select", "data", "usb", "acpi", "tree"}
TreeInv ==
    /\ machine \in Machines
    /\ at \in Starting => offset = [node |-> 1, token |-> 1] /\ walk = NoWalk
    /\ at = "walk" => \E f \in Taken(machine.dtbs) : WalkedTo(f.tree)
    /\ at = "save" \/ Saved =>
          walk.devices = UNION {Leaves(f.tree) : f \in Taken(machine.dtbs)}
    /\ Saved => hardware.dt = walk.devices

LEMMA TreeFacts ==
    ASSUME NEW t, IsTree(t)
    PROVE  /\ Len(t) \in Nat /\ Len(t) > 0
           /\ \A k \in 1 .. Len(t) : t[k].depth \in Nat /\ t[k].depth > 0
           /\ \A k \in 1 .. Len(t) : t[k].compatible \in {"absent", "blank", "listed"}
           /\ t[1].depth = 1
           /\ \A k \in 2 .. Len(t) : t[k].depth \in 2 .. t[k - 1].depth + 1
<1> DEFINE Nodes == [depth : 1 .. Len(t), compatible : {"absent", "blank", "listed"}]
<1>1. Len(t) \in Nat /\ Len(t) > 0
  BY DEF IsTree
<1>2. /\ t \in [1 .. Len(t) -> Nodes] /\ t[1].depth = 1
      /\ \A k \in 2 .. Len(t) : t[k].depth \in 2 .. t[k - 1].depth + 1
  BY DEF IsTree, Trees
<1>3. ASSUME NEW k \in 1 .. Len(t)
      PROVE  /\ t[k].depth \in 1 .. Len(t)
             /\ t[k].compatible \in {"absent", "blank", "listed"}
  <2> HIDE DEF Nodes
  <2>1. t[k] \in Nodes
    BY <1>2
  <2> QED BY <2>1 DEF Nodes
<1>4. ASSUME NEW k \in 1 .. Len(t) PROVE t[k].depth \in Nat /\ t[k].depth > 0
  BY <1>1, <1>3
<1> HIDE DEF Nodes
<1> QED BY <1>1, <1>2, <1>3, <1>4

LEMMA EndFacts ==
    ASSUME NEW t, IsTree(t), NEW k \in 1 .. Len(t)
    PROVE  /\ Ends(t, k) \in Nat /\ (Leaf(t, k) <=> Ends(t, k) > 0)
           /\ k < Len(t) => t[k].depth - Ends(t, k) = t[k + 1].depth - 1
           /\ k = Len(t) => t[k].depth - Ends(t, k) = 0
<1>1. /\ Len(t) \in Nat /\ t[k].depth \in Nat /\ t[k].depth > 0
      /\ k < Len(t) => t[k + 1].depth \in 2 .. t[k].depth + 1
  <2>1. k < Len(t) => k + 1 \in 2 .. Len(t) /\ (k + 1) - 1 = k
    BY TreeFacts
  <2> QED BY <2>1, TreeFacts
<1>2. CASE k = Len(t)
  BY <1>1, <1>2 DEF Ends, Leaf
<1>3. CASE k < Len(t)
  <2>1. /\ Ends(t, k) = t[k].depth + 1 - t[k + 1].depth
        /\ Leaf(t, k) <=> t[k + 1].depth <= t[k].depth
    BY <1>1, <1>3 DEF Ends, Leaf
  <2>2. t[k + 1].depth \in Nat /\ t[k + 1].depth <= t[k].depth + 1
    BY <1>1, <1>3
  <2>3. k # Len(t)
    BY <1>1, <1>3
  <2>4. Ends(t, k) \in Nat /\ t[k].depth - Ends(t, k) = t[k + 1].depth - 1
    BY <1>1, <2>1, <2>2
  <2>5. Leaf(t, k) <=> Ends(t, k) > 0
    BY <1>1, <2>1, <2>2
  <2> QED BY <2>3, <2>4, <2>5
<1> QED BY <1>1, <1>2, <1>3

\* No node ends more nodes than its path has.
LEMMA EndsWithin ==
    ASSUME NEW t, IsTree(t), NEW k \in 1 .. Len(t)
    PROVE  Ends(t, k) <= t[k].depth
<1>1. /\ Len(t) \in Nat /\ t[k].depth \in Nat /\ Ends(t, k) \in Nat
      /\ k < Len(t) => t[k + 1].depth \in 2 .. t[k].depth + 1
  <2>1. k < Len(t) => k + 1 \in 2 .. Len(t) /\ (k + 1) - 1 = k
    BY TreeFacts
  <2> QED BY <2>1, TreeFacts, EndFacts
<1>2. CASE k = Len(t)
  <2>1. t[k].depth - Ends(t, k) = 0
    BY <1>2, EndFacts
  <2> QED BY <1>1, <2>1
<1>3. CASE k < Len(t)
  <2>1. t[k].depth - Ends(t, k) = t[k + 1].depth - 1 /\ t[k + 1].depth \in 2 .. t[k].depth + 1
    BY <1>1, <1>3, EndFacts
  <2> QED BY <1>1, <2>1
<1> QED BY <1>1, <1>2, <1>3

\* A path that loses its last name.
LEMMA OneOff ==
    \A a, b \in Nat : \A len :
        b <= a /\ len = a - (b - 1) => len > 0 /\ len - 1 = a - b
OBVIOUS

\* The elements of two sequences put together.
LEMMA Joined ==
    ASSUME NEW S, NEW u \in Seq(S), NEW v \in Seq(S)
    PROVE  /\ u \o v \in Seq(S) /\ Len(u \o v) = Len(u) + Len(v)
           /\ \A j \in 1 .. Len(u) : (u \o v)[j] = u[j]
           /\ \A j \in 1 .. Len(v) : (u \o v)[Len(u) + j] = v[j]
<1>1. Len(u) \in Nat /\ Len(v) \in Nat
  OBVIOUS
<1>2. u \o v \in Seq(S) /\ Len(u \o v) = Len(u) + Len(v)
  OBVIOUS
<1>3. \A j \in 1 .. Len(u) : (u \o v)[j] = u[j]
  BY <1>1
<1>4. \A j \in 1 .. Len(v) : (u \o v)[Len(u) + j] = v[j]
  BY <1>1
<1> QED BY <1>2, <1>3, <1>4

\* A sequence without its last element.
LEMMA Shortened ==
    ASSUME NEW S, NEW u \in Seq(S), Len(u) > 0
    PROVE  /\ SubSeq(u, 1, Len(u) - 1) \in Seq(S)
           /\ Len(SubSeq(u, 1, Len(u) - 1)) = Len(u) - 1
           /\ \A j \in 1 .. Len(u) - 1 : SubSeq(u, 1, Len(u) - 1)[j] = u[j]
<1>1. Len(u) - 1 \in Nat /\ u \in [1 .. Len(u) -> S]
  OBVIOUS
<1>2. Len(SubSeq(u, 1, Len(u) - 1)) = Len(u) - 1
  BY <1>1
<1>3. \A j \in 1 .. Len(u) - 1 : SubSeq(u, 1, Len(u) - 1)[j] = u[j]
  BY <1>1
<1>4. SubSeq(u, 1, Len(u) - 1) \in Seq(S)
  BY <1>1
<1> QED BY <1>2, <1>3, <1>4

\* The tokens of a node, one by one.
Layout(t, k) ==
    /\ Len(NodeTokens(t, k)) = 1 + Len(Props(t, k)) + Ends(t, k)
    /\ Len(Props(t, k)) = IF t[k].compatible = "absent" THEN 0 ELSE 3
    /\ NodeTokens(t, k)[1] = [token |-> "BEGIN_NODE", name |-> k]
    /\ t[k].compatible # "absent" => /\ NodeTokens(t, k)[2] = Prop("compatible", k)
                                     /\ NodeTokens(t, k)[3] = [token |-> "NOP"]
                                     /\ NodeTokens(t, k)[4] = Prop("status", k)
    /\ \A i \in Nat : 1 + Len(Props(t, k)) < i /\ i <= Len(NodeTokens(t, k)) =>
          NodeTokens(t, k)[i] = [token |-> "END_NODE"]

LEMMA TokenFacts ==
    ASSUME NEW t, IsTree(t), NEW k \in 1 .. Len(t)
    PROVE  Layout(t, k)
<1> DEFINE b == <<[token |-> "BEGIN_NODE", name |-> k]>>
           p == Props(t, k)
           e == [i \in 1 .. Ends(t, k) |-> [token |-> "END_NODE"]]
           T == {[token |-> "BEGIN_NODE", name |-> k], Prop("compatible", k),
                 [token |-> "NOP"], Prop("status", k), [token |-> "END_NODE"]}
<1>1. b \in Seq(T) /\ Len(b) = 1 /\ b[1] = [token |-> "BEGIN_NODE", name |-> k]
  OBVIOUS
<1>2. p \in Seq(T) /\ Len(p) = IF t[k].compatible = "absent" THEN 0 ELSE 3
  <2>1. Prop("compatible", k) \in T /\ [token |-> "NOP"] \in T /\ Prop("status", k) \in T
    OBVIOUS
  <2> HIDE DEF T
  <2>2. CASE t[k].compatible = "absent"
    <3>1. p = <<>>
      BY <2>2 DEF Props
    <3> QED BY <2>2, <3>1
  <2>3. CASE t[k].compatible # "absent"
    <3>1. p = <<Prop("compatible", k), [token |-> "NOP"], Prop("status", k)>>
      BY <2>3 DEF Props
    <3> QED BY <2>1, <2>3, <3>1
  <2> QED BY <2>2, <2>3
<1>3. e \in Seq(T) /\ Len(e) = Ends(t, k)
      /\ \A i \in 1 .. Ends(t, k) : e[i] = [token |-> "END_NODE"]
  <2>1. Ends(t, k) \in Nat
    BY EndFacts
  <2> HIDE DEF T
  <2>2. [token |-> "END_NODE"] \in T
    BY DEF T
  <2> QED BY <2>1, <2>2
<1>4. NodeTokens(t, k) = b \o p \o e
  BY DEF NodeTokens
<1> HIDE DEF b, p, e, T
<1>5. /\ b \o p \in Seq(T) /\ Len(b \o p) = 1 + Len(p) /\ (b \o p)[1] = b[1]
      /\ \A i \in 1 .. Len(p) : (b \o p)[1 + i] = p[i]
  <2>1. /\ b \o p \in Seq(T) /\ Len(b \o p) = Len(b) + Len(p)
        /\ \A i \in 1 .. Len(b) : (b \o p)[i] = b[i]
        /\ \A i \in 1 .. Len(p) : (b \o p)[Len(b) + i] = p[i]
    <3>1. b \in Seq(T) /\ p \in Seq(T)
      BY <1>1, <1>2
    <3> QED BY <3>1, Joined
  <2>2. 1 \in 1 .. Len(b)
    BY <1>1
  <2> QED BY <1>1, <2>1, <2>2
<1> DEFINE q == b \o p
<1>6. q \in Seq(T) /\ Len(q) = 1 + Len(p)
  BY <1>5
<1>q. Len(p) \in Nat /\ Len(e) \in Nat
  BY <1>2, <1>3
<1> HIDE DEF q
<1>7. /\ Len(q \o e) = Len(q) + Len(e)
      /\ \A i \in 1 .. Len(q) : (q \o e)[i] = q[i]
      /\ \A i \in 1 .. Len(e) : (q \o e)[Len(q) + i] = e[i]
  <2>1. q \in Seq(T) /\ e \in Seq(T)
    BY <1>3, <1>6
  <2> QED BY <2>1, Joined
<1>8. /\ 1 \in 1 .. Len(q) /\ \A i \in 1 .. Len(p) : 1 + i \in 1 .. Len(q)
  BY <1>6, <1>q
<1>9. NodeTokens(t, k) = q \o e
  BY <1>4 DEF q
<1>10. NodeTokens(t, k)[1] = b[1] /\ \A i \in 1 .. Len(p) : NodeTokens(t, k)[1 + i] = p[i]
  BY <1>5, <1>7, <1>8, <1>9 DEF q
<1>11. /\ Len(NodeTokens(t, k)) = 1 + Len(p) + Ends(t, k)
       /\ \A i \in 1 .. Ends(t, k) : NodeTokens(t, k)[1 + Len(p) + i] = [token |-> "END_NODE"]
  BY <1>3, <1>6, <1>7, <1>9
<1>12. ASSUME t[k].compatible # "absent"
       PROVE  /\ NodeTokens(t, k)[2] = Prop("compatible", k)
              /\ NodeTokens(t, k)[3] = [token |-> "NOP"]
              /\ NodeTokens(t, k)[4] = Prop("status", k)
  <2>1. p = <<Prop("compatible", k), [token |-> "NOP"], Prop("status", k)>>
    BY <1>12 DEF Props, p
  <2>2. Len(p) = 3 /\ 1 \in 1 .. 3 /\ 2 \in 1 .. 3 /\ 3 \in 1 .. 3
        /\ 1 + 1 = 2 /\ 1 + 2 = 3 /\ 1 + 3 = 4
    BY <2>1
  <2>3. /\ NodeTokens(t, k)[1 + 1] = p[1] /\ NodeTokens(t, k)[1 + 2] = p[2]
        /\ NodeTokens(t, k)[1 + 3] = p[3]
    BY <1>10, <2>2
  <2> QED BY <2>1, <2>2, <2>3
<1>13. ASSUME NEW i \in Nat, 1 + Len(p) < i, i <= Len(NodeTokens(t, k))
       PROVE  NodeTokens(t, k)[i] = [token |-> "END_NODE"]
  <2>1. Len(p) \in Nat /\ Ends(t, k) \in Nat
    BY <1>2, EndFacts
  <2>2. i - (1 + Len(p)) \in 1 .. Ends(t, k) /\ 1 + Len(p) + (i - (1 + Len(p))) = i
    BY <1>11, <1>13, <2>1
  <2> QED BY <1>11, <2>2
<1> QED BY <1>1, <1>2, <1>10, <1>11, <1>12, <1>13 DEF p, Layout

\* A node is the last of its depth up to itself; of lesser depths it is not.
LEMMA AboveFacts ==
    ASSUME NEW t, IsTree(t), NEW k \in 1 .. Len(t)
    PROVE  /\ Above(t, k, t[k].depth) = k
           /\ k > 1 => \A d \in 1 .. t[k].depth - 1 : Above(t, k, d) = Above(t, k - 1, d)
<1>0. Len(t) \in Nat
  BY TreeFacts
<1>1. Above(t, k, t[k].depth) = k
  <2> DEFINE S == {j \in 1 .. k : t[j].depth = t[k].depth}
  <2>1. k \in S /\ \A j \in S : j \in Int /\ j <= k
    BY <1>0
  <2>0. k \in Int
    BY <1>0
  <2> HIDE DEF S
  <2>2. Latest(S) = k
    <3>1. Latest(S) \in S /\ \A j \in S : j <= Latest(S)
      BY <2>1 DEF Latest
    <3>2. Latest(S) <= k /\ k <= Latest(S) /\ Latest(S) \in Int
      BY <2>1, <3>1
    <3> QED BY <2>0, <3>2
  <2> QED BY <2>2 DEF Above, S
<1>2. ASSUME k > 1, NEW d \in 1 .. t[k].depth - 1
      PROVE  Above(t, k, d) = Above(t, k - 1, d)
  <2>1. t[k].depth \in Nat
    BY TreeFacts
  <2>2. {j \in 1 .. k : t[j].depth = d} = {j \in 1 .. k - 1 : t[j].depth = d}
    BY <2>1
  <2> QED BY <2>2 DEF Above
<1> QED BY <1>1, <1>2

\* The path to a node is the one that follows it all the way.
LEMMA WholePath ==
    ASSUME NEW t, IsTree(t), NEW k \in 1 .. Len(t), NEW path,
           Follows(path, t, k, t[k].depth)
    PROVE  path = PathOf(t, k) /\ path # <<>>
<1>1. t[k].depth \in Nat /\ t[k].depth > 0
  BY TreeFacts
<1>2. path \in Seq(Nat) /\ Len(path) = t[k].depth
      /\ \A d \in 1 .. t[k].depth : path[d] = Above(t, k, d)
  BY DEF Follows
<1>3. path = [d \in 1 .. Len(path) |-> path[d]]
  BY <1>2
<1> QED BY <1>1, <1>2, <1>3 DEF PathOf

LEMMA NodeBegins ==
    ASSUME NEW t, IsTree(t), NEW w, NEW k \in 1 .. Len(t), Between(t, w, k)
    PROVE  ReadTo(t, Walked(w, NodeTokens(t, k)[1], t), k, 1)
<1>1. t[k].depth \in Nat /\ t[k].depth > 0 /\ Len(t) \in Nat /\ Len(Props(t, k)) \in Nat
  BY TreeFacts, TokenFacts DEF Layout
<1>2. /\ w.path \in Seq(Nat) /\ Len(w.path) = t[k].depth - 1
      /\ \A d \in 1 .. t[k].depth - 1 : w.path[d] = Above(t, k, d)
      /\ w.devices = LeavesUpTo(t, k - 1)
  BY <1>1 DEF Between, Follows
<1>3. Walked(w, NodeTokens(t, k)[1], t) = BeginNode(w, k)
  <2>1. NodeTokens(t, k)[1] = [token |-> "BEGIN_NODE", name |-> k]
    BY TokenFacts DEF Layout
  <2> QED BY <2>1 DEF Walked
<1>4. Ended(t, k, 1) = 0
  BY <1>1 DEF Ended
<1>5. Follows(Append(w.path, k), t, k, t[k].depth)
  <2>1. /\ Append(w.path, k) \in Seq(Nat) /\ Len(Append(w.path, k)) = t[k].depth
        /\ \A d \in 1 .. t[k].depth - 1 : Append(w.path, k)[d] = w.path[d]
        /\ Append(w.path, k)[t[k].depth] = k
    <3>1. w.path \in Seq(Nat) /\ k \in Nat /\ Len(w.path) + 1 = t[k].depth
      BY <1>1, <1>2
    <3>2. /\ Append(w.path, k) \in Seq(Nat) /\ Len(Append(w.path, k)) = Len(w.path) + 1
          /\ \A d \in 1 .. Len(w.path) : Append(w.path, k)[d] = w.path[d]
          /\ Append(w.path, k)[Len(w.path) + 1] = k
      BY <3>1
    <3> QED BY <1>2, <3>1, <3>2
  <2>2. Above(t, k, t[k].depth) = k
    BY AboveFacts
  <2>3. \A d \in 1 .. t[k].depth : d = t[k].depth \/ d \in 1 .. t[k].depth - 1
    BY <1>1
  <2> QED BY <1>2, <2>1, <2>2, <2>3 DEF Follows
<1>6. /\ BeginNode(w, k).path = Append(w.path, k) /\ BeginNode(w, k).props = NoProps
      /\ BeginNode(w, k).devices = w.devices
  BY DEF BeginNode, Walk
<1>7. t[k].depth - 0 = t[k].depth
  BY <1>1
<1> QED BY <1>2, <1>3, <1>4, <1>5, <1>6, <1>7 DEF ReadTo

\* With a node's end, its device is collected, if it is a leaf that has one.
LEMMA LeafCollected ==
    ASSUME NEW t, IsTree(t), NEW k \in 1 .. Len(t)
    PROVE  LeavesUpTo(t, k) = LeavesUpTo(t, k - 1)
               \cup (IF t[k].compatible = "listed" /\ Leaf(t, k)
                     THEN {[path |-> PathOf(t, k), compatible |-> k]} ELSE {})
<1> DEFINE S(n) == {x \in 1 .. n : t[x].compatible = "listed" /\ Leaf(t, x)}
<1>1. S(k) = S(k - 1) \cup (IF t[k].compatible = "listed" /\ Leaf(t, k) THEN {k} ELSE {})
  <2>1. \A x : x \in 1 .. k <=> x \in 1 .. k - 1 \/ x = k
    OBVIOUS
  <2> QED BY <2>1
<1> HIDE DEF S
<1>2. \A n : LeavesUpTo(t, n) = {[path |-> PathOf(t, j), compatible |-> j] : j \in S(n)}
  BY DEF LeavesUpTo, S
<1> QED BY <1>1, <1>2

LEMMA TokenRead ==
    ASSUME NEW t, IsTree(t), NEW w, NEW k \in 1 .. Len(t),
           NEW i \in 2 .. Len(NodeTokens(t, k)), ReadTo(t, w, k, i - 1)
    PROVE  ReadTo(t, Walked(w, NodeTokens(t, k)[i], t), k, i)
<1> DEFINE n == Len(Props(t, k))
           c == t[k].compatible
           token == NodeTokens(t, k)[i]
<1>f. Layout(t, k)
  BY TokenFacts
<1>1. /\ t[k].depth \in Nat /\ t[k].depth > 0 /\ Ends(t, k) \in Nat
      /\ c \in {"absent", "blank", "listed"} /\ n = (IF c = "absent" THEN 0 ELSE 3)
      /\ n \in Nat /\ Len(NodeTokens(t, k)) = 1 + n + Ends(t, k)
      /\ i \in Nat /\ i > 1 /\ i <= Len(NodeTokens(t, k)) /\ k \in Nat \ {0}
  <2>1. t[k].depth \in Nat /\ t[k].depth > 0 /\ c \in {"absent", "blank", "listed"}
        /\ k \in Nat \ {0}
    BY TreeFacts
  <2>2. Ends(t, k) \in Nat
    BY EndFacts
  <2>3. n = (IF c = "absent" THEN 0 ELSE 3) /\ Len(NodeTokens(t, k)) = 1 + n + Ends(t, k)
    BY TokenFacts DEF Layout
  <2>4. n \in Nat
    BY <2>3
  <2> QED BY <2>1, <2>2, <2>3, <2>4
<1>2. /\ Follows(w.path, t, k, t[k].depth - Ended(t, k, i - 1))
      /\ w.props = IF Ended(t, k, i - 1) = 0 /\ i - 1 > 1 /\ c # "absent" THEN k ELSE NoProps
      /\ w.devices = LeavesUpTo(t, IF Ended(t, k, i - 1) > 0 THEN k ELSE k - 1)
  BY DEF ReadTo
<1>3. CASE i <= 1 + n
  <2>0. c # "absent" /\ n = 3 /\ i \in 2 .. 4
    BY <1>1, <1>3
  <2>1. Ended(t, k, i) = 0 /\ Ended(t, k, i - 1) = 0
    BY <1>1, <1>3 DEF Ended
  <2>3. /\ i = 2 => token = Prop("compatible", k)
        /\ i = 3 => token = [token |-> "NOP"]
        /\ i = 4 => token = Prop("status", k)
    <3>1. t[k].compatible # "absent"
      BY <2>0
    <3>2. /\ NodeTokens(t, k)[2] = Prop("compatible", k)
          /\ NodeTokens(t, k)[3] = [token |-> "NOP"]
          /\ NodeTokens(t, k)[4] = Prop("status", k)
      <4> HIDE DEF n, c, token
      <4> QED BY <3>1, <1>f DEF Layout
    <3> QED BY <3>2
  <2> DEFINE v == Walked(w, token, t)
  <2>4. v.path = w.path /\ v.devices = w.devices
        /\ v.props = IF i = 2 THEN k ELSE w.props
    <3>1. CASE i = 2
      BY <2>3, <3>1 DEF Walked, ReadProp, Prop, Walk
    <3>2. CASE i = 3
      BY <2>3, <3>2 DEF Walked
    <3>3. CASE i = 4
      BY <2>3, <3>3 DEF Walked, ReadProp, Prop
    <3> QED BY <2>0, <3>1, <3>2, <3>3
  <2> HIDE DEF v
  <2>5. v.props = k
    BY <1>2, <2>0, <2>1, <2>4
  <2>6. ReadTo(t, v, k, i)
    <3>1. Follows(v.path, t, k, t[k].depth - Ended(t, k, i))
      BY <1>2, <2>1, <2>4
    <3>2. v.props = IF Ended(t, k, i) = 0 /\ i > 1 /\ t[k].compatible # "absent" THEN k
                    ELSE NoProps
      BY <1>1, <2>0, <2>1, <2>5
    <3>3. v.devices = LeavesUpTo(t, IF Ended(t, k, i) > 0 THEN k ELSE k - 1)
      BY <1>2, <2>1, <2>4
    <3> QED BY <3>1, <3>2, <3>3 DEF ReadTo
  <2> QED BY <2>6 DEF v
<1>4. CASE i > 1 + n
  <2> DEFINE e == i - (1 + n)
  <2>0. e \in 1 .. Ends(t, k) /\ i = 1 + n + e
    BY <1>1, <1>4
  <2>1. token = [token |-> "END_NODE"]
    <3>1. 1 + Len(Props(t, k)) < i /\ i <= Len(NodeTokens(t, k)) /\ i \in Nat
      BY <1>1, <1>4
    <3> HIDE DEF n, c
    <3> QED BY <3>1, <1>f DEF Layout
  <2>2. Ended(t, k, i) = e /\ Ended(t, k, i - 1) = e - 1
    BY <1>1, <1>4 DEF Ended
  <2>e. e > 0 /\ e \in Nat /\ Ends(t, k) <= t[k].depth
    <3>1. e > 0 /\ e \in Nat
      BY <1>1, <2>0
    <3> QED BY <3>1, EndsWithin
  <2>3. Walked(w, token, t) = EndNode(w, t)
    BY <2>1 DEF Walked
  <2>4. /\ w.path \in Seq(Nat) /\ Len(w.path) = t[k].depth - (e - 1)
        /\ \A d \in 1 .. t[k].depth - (e - 1) : w.path[d] = Above(t, k, d)
    BY <1>2, <2>2 DEF Follows
  <2>5. Follows(Popped(w.path), t, k, t[k].depth - e)
    <3>1. Len(w.path) > 0 /\ Len(w.path) - 1 = t[k].depth - e
      <4>1. /\ t[k].depth \in Nat /\ e \in Nat /\ e <= t[k].depth
            /\ Len(w.path) = t[k].depth - (e - 1)
        BY <1>1, <2>0, <2>e, <2>4
      <4> QED BY <4>1, OneOff
    <3>2. Popped(w.path) = SubSeq(w.path, 1, t[k].depth - e)
      BY <2>4, <3>1 DEF Popped
    <3>3. /\ SubSeq(w.path, 1, Len(w.path) - 1) \in Seq(Nat)
          /\ Len(SubSeq(w.path, 1, Len(w.path) - 1)) = Len(w.path) - 1
          /\ \A d \in 1 .. Len(w.path) - 1 :
                SubSeq(w.path, 1, Len(w.path) - 1)[d] = w.path[d]
      <4>1. w.path \in Seq(Nat) /\ Len(w.path) \in Nat /\ Len(w.path) > 0
        BY <2>4, <3>1
      <4> QED BY <4>1, Shortened
    <3>4. \A d \in 1 .. t[k].depth - e : d \in 1 .. t[k].depth - (e - 1)
      BY <1>1, <2>e
    <3> QED BY <2>4, <3>1, <3>2, <3>3, <3>4 DEF Follows
  <2>6. w.devices \cup Collected(w, t) = LeavesUpTo(t, k)
    <3>1. CASE e = 1
      <4>1. w.props = IF c # "absent" THEN k ELSE NoProps
        BY <1>1, <1>2, <2>0, <2>2, <3>1
      <4>2. w.path = PathOf(t, k) /\ w.path # <<>>
        <5>1. t[k].depth - Ended(t, k, i - 1) = t[k].depth
          BY <1>1, <2>2, <3>1
        <5> QED BY <1>2, <5>1, WholePath
      <4>3. Leaf(t, k)
        BY <2>0, <3>1, <1>1, EndFacts
      <4>4. Collected(w, t) = IF c = "listed" THEN {[path |-> PathOf(t, k), compatible |-> k]}
                              ELSE {}
        <5>1. CASE c = "absent"
          BY <4>1, <5>1 DEF Collected
        <5>2. CASE c # "absent"
          <6>1. w.props = k /\ k # 0
            BY <1>1, <4>1, <5>2
          <6> HIDE DEF c
          <6>2. k # NoProps
            BY <6>1 DEF NoProps
          <6>3. Collected(w, t) = IF t[k].compatible = "listed"
                                  THEN {[path |-> w.path, compatible |-> k]} ELSE {}
            BY <4>2, <6>1, <6>2 DEF Collected
          <6> QED BY <4>2, <6>3 DEF c
        <5> QED BY <5>1, <5>2
      <4>5. w.devices = LeavesUpTo(t, k - 1)
        BY <1>2, <2>2, <3>1
      <4> QED BY <4>3, <4>4, <4>5, LeafCollected
    <3>2. CASE e > 1
      <4>1. w.props = NoProps /\ w.devices = LeavesUpTo(t, k)
        BY <1>2, <2>0, <2>2, <3>2
      <4> QED BY <4>1 DEF Collected
    <3> QED BY <2>0, <2>e, <3>1, <3>2
  <2>7. /\ EndNode(w, t).path = Popped(w.path) /\ EndNode(w, t).props = NoProps
        /\ EndNode(w, t).devices = w.devices \cup Collected(w, t)
    BY DEF EndNode, Walk
  <2>8. ReadTo(t, EndNode(w, t), k, i)
    <3>1. Ended(t, k, i) = e /\ e # 0 /\ e > 0
      BY <2>2, <2>e
    <3> HIDE DEF e
    <3> QED BY <2>5, <2>6, <2>7, <3>1 DEF ReadTo
  <2> QED BY <2>3, <2>8
<1> QED BY <1>1, <1>3, <1>4

LEMMA NodeLeft ==
    ASSUME NEW t, IsTree(t), NEW w, NEW k \in 1 .. Len(t),
           ReadTo(t, w, k, Len(NodeTokens(t, k)))
    PROVE  Between(t, w, k + 1)
<1> DEFINE i == Len(NodeTokens(t, k))
<1> HIDE DEF i
<1>1. /\ t[k].depth \in Nat /\ Ends(t, k) \in Nat /\ Len(t) \in Nat
      /\ Len(Props(t, k)) \in Nat /\ i = 1 + Len(Props(t, k)) + Ends(t, k)
      /\ Leaf(t, k) <=> Ends(t, k) > 0
  <2>1. t[k].depth \in Nat /\ Len(t) \in Nat
    BY TreeFacts
  <2>2. Ends(t, k) \in Nat /\ (Leaf(t, k) <=> Ends(t, k) > 0)
    BY EndFacts
  <2>3. /\ Len(NodeTokens(t, k)) = 1 + Len(Props(t, k)) + Ends(t, k)
        /\ Len(Props(t, k)) = IF t[k].compatible = "absent" THEN 0 ELSE 3
    BY TokenFacts DEF Layout
  <2>4. Len(Props(t, k)) \in Nat
    BY <2>3
  <2> QED BY <2>1, <2>2, <2>3, <2>4 DEF i
<1>2. Ended(t, k, i) = Ends(t, k)
  BY <1>1 DEF Ended
<1>3. /\ Follows(w.path, t, k, t[k].depth - Ends(t, k))
      /\ w.devices = LeavesUpTo(t, IF Ends(t, k) > 0 THEN k ELSE k - 1)
  BY <1>2 DEF ReadTo, i
<1>4. w.devices = LeavesUpTo(t, (k + 1) - 1)
  <2>1. (k + 1) - 1 = k
    OBVIOUS
  <2>2. CASE Ends(t, k) > 0
    BY <1>3, <2>1, <2>2
  <2>3. CASE ~(Ends(t, k) > 0)
    <3>1. w.devices = LeavesUpTo(t, k - 1) /\ ~Leaf(t, k)
      BY <1>1, <1>3, <2>3
    <3>2. LeavesUpTo(t, k) = LeavesUpTo(t, k - 1)
               \cup (IF t[k].compatible = "listed" /\ Leaf(t, k)
                     THEN {[path |-> PathOf(t, k), compatible |-> k]} ELSE {})
      BY LeafCollected
    <3> QED BY <2>1, <3>1, <3>2
  <2> QED BY <2>2, <2>3
<1>5. ASSUME k + 1 <= Len(t) PROVE Follows(w.path, t, k + 1, t[k + 1].depth - 1)
  <2>1. t[k].depth - Ends(t, k) = t[k + 1].depth - 1
    BY <1>1, <1>5, EndFacts
  <2>2. k + 1 \in 1 .. Len(t) /\ k + 1 > 1 /\ (k + 1) - 1 = k
    BY <1>1, <1>5
  <2>3. \A d \in 1 .. t[k + 1].depth - 1 : Above(t, k + 1, d) = Above(t, k, d)
    BY <2>2, AboveFacts
  <2> QED BY <1>3, <2>1, <2>3 DEF Follows
<1> QED BY <1>4, <1>5 DEF Between

\* There is one file that is taken, if there is any.
LEMMA OneTaken ==
    ASSUME NEW files, Len(files) \in Nat, NEW f \in Taken(files)
    PROVE  Taken(files) = {f}
<1> DEFINE J == {j \in 1 .. Len(files) : ~Unusable(files[j])
                                         /\ \A k \in 1 .. j - 1 : Unusable(files[k])}
<1>1. \A i, j \in J : i = j
  <2> SUFFICES ASSUME NEW i \in J, NEW j \in J, i < j PROVE FALSE
    OBVIOUS
  <2>1. i \in 1 .. j - 1
    OBVIOUS
  <2> QED BY <2>1
<1>2. Taken(files) = {files[i] : i \in J}
  BY DEF Taken
<1> HIDE DEF J
<1>3. PICK i \in J : f = files[i]
  BY <1>2
<1> QED BY <1>1, <1>2, <1>3

LEMMA WalkTreeWalks ==
    ASSUME TreeInv, WalkTree
    PROVE  TreeInv'
<1>1. PICK g \in Taken(machine.dtbs) : WalkedTo(g.tree)
  BY DEF TreeInv, WalkTree
<1>2. PICK f \in Taken(machine.dtbs) :
          /\ Token(f.tree, offset).token # "END"
          /\ walk' = Walked(walk, Token(f.tree, offset), f.tree)
          /\ offset' = After(f.tree, offset)
  BY DEF WalkTree
<1>3. /\ machine \in Machines /\ at = "walk" /\ at' = "walk"
      /\ UNCHANGED <<machine, hardware>>
  BY DEF TreeInv, WalkTree
<1>4. f = g /\ IsTree(f.tree)
  BY <1>1, <1>2, <1>3, OneTaken, TreeAssumption DEF IsTree
<1> DEFINE t == f.tree
           k == offset.node
           i == offset.token
<1>t. IsTree(t) /\ WalkedTo(t) /\ Len(t) \in Nat
  BY <1>1, <1>4, TreeFacts
<1>5. /\ k \in 1 .. Len(t) + 1 /\ i \in Nat \ {0} /\ offset = [node |-> k, token |-> i]
      /\ IF i = 1 THEN Between(t, walk, k)
         ELSE k <= Len(t) /\ i <= Len(NodeTokens(t, k)) /\ ReadTo(t, walk, k, i - 1)
  BY <1>t DEF WalkedTo
<1>6. k \in 1 .. Len(t)
  <2>1. CASE k > Len(t)
    BY <1>2, <2>1 DEF Token
  <2> QED BY <1>t, <1>5, <2>1
<1>7. /\ Token(t, offset) = NodeTokens(t, k)[i]
      /\ walk' = Walked(walk, NodeTokens(t, k)[i], t)
  <2>1. ~(k > Len(t))
    BY <1>t, <1>6
  <2> QED BY <1>2, <2>1 DEF Token
<1>8. Len(NodeTokens(t, k)) \in Nat /\ Len(NodeTokens(t, k)) > 0
      /\ i \in 1 .. Len(NodeTokens(t, k))
  <2>1. /\ Len(NodeTokens(t, k)) = 1 + Len(Props(t, k)) + Ends(t, k)
        /\ Len(Props(t, k)) \in Nat /\ Ends(t, k) \in Nat
    <3> HIDE DEF t, k, i
    <3>1. /\ Len(NodeTokens(t, k)) = 1 + Len(Props(t, k)) + Ends(t, k)
          /\ Len(Props(t, k)) = IF t[k].compatible = "absent" THEN 0 ELSE 3
      BY <1>t, <1>6, TokenFacts DEF Layout
    <3>2. Ends(t, k) \in Nat
      BY <1>t, <1>6, EndFacts
    <3>3. Len(Props(t, k)) \in Nat
      BY <3>1
    <3> QED BY <3>1, <3>2, <3>3
  <2> HIDE DEF t, k, i
  <2> QED BY <2>1, <1>5
<1>9. ReadTo(t, walk', k, i)
  <2>1. CASE i = 1
    <3>1. Between(t, walk, k)
      BY <1>5, <2>1
    <3>2. walk' = Walked(walk, NodeTokens(t, k)[1], t)
      BY <1>7, <2>1
    <3> HIDE DEF t, k, i
    <3> QED BY <1>t, <1>6, <2>1, <3>1, <3>2, NodeBegins
  <2>2. CASE i # 1
    <3>1. ReadTo(t, walk, k, i - 1) /\ i \in 2 .. Len(NodeTokens(t, k))
      BY <1>5, <1>8, <2>2
    <3> HIDE DEF t, k, i
    <3> QED BY <1>t, <1>6, <1>7, <3>1, TokenRead
  <2> QED BY <2>1, <2>2
<1>10. WalkedTo(t)'
  <2>0. t' = t
    OBVIOUS
  <2>1. CASE i < Len(NodeTokens(t, k))
    <3>1. offset' = [node |-> k, token |-> i + 1]
      BY <1>2, <1>5, <2>1 DEF After
    <3>2. offset'.node = k /\ offset'.token = i + 1 /\ i + 1 # 1 /\ (i + 1) - 1 = i
          /\ i + 1 <= Len(NodeTokens(t, k)) /\ i + 1 \in Nat \ {0}
      BY <1>8, <2>1, <3>1
    <3> HIDE DEF t, k, i
    <3> QED BY <1>t, <1>6, <1>9, <2>0, <3>1, <3>2 DEF WalkedTo
  <2>2. CASE ~(i < Len(NodeTokens(t, k)))
    <3>1. i = Len(NodeTokens(t, k))
      BY <1>8, <2>2
    <3>2. offset' = [node |-> k + 1, token |-> 1]
      BY <1>2, <2>2 DEF After
    <3>3. Between(t, walk', k + 1)
      <4> HIDE DEF t, k, i
      <4> QED BY <1>t, <1>6, <1>9, <3>1, NodeLeft
    <3>4. k + 1 \in 1 .. Len(t) + 1
      BY <1>t, <1>6
    <3> HIDE DEF t, k, i
    <3> QED BY <2>0, <3>2, <3>3, <3>4 DEF WalkedTo
  <2> QED BY <2>1, <2>2
<1>11. \E x \in Taken(machine'.dtbs) : WalkedTo(x.tree)'
  BY <1>3, <1>10
<1> QED BY <1>3, <1>11 DEF TreeInv, Starting, Saved

LEMMA LeaveTreeWalks ==
    ASSUME TreeInv, LeaveTree
    PROVE  TreeInv'
<1>1. PICK g \in Taken(machine.dtbs) : WalkedTo(g.tree)
  BY DEF TreeInv, LeaveTree
<1>2. PICK f \in Taken(machine.dtbs) :
          \/ Token(f.tree, offset).token = "END" /\ at' = "save"
          \/ TokenRaises(f, Token(f.tree, offset)) /\ at' = "failed"
  BY DEF LeaveTree
<1>3. machine \in Machines /\ UNCHANGED <<machine, hardware, offset, walk>>
  BY DEF TreeInv, LeaveTree, treeVars
<1>4. f = g /\ IsTree(f.tree) /\ Taken(machine.dtbs) = {f}
  BY <1>1, <1>2, <1>3, OneTaken, TreeAssumption DEF IsTree
<1> DEFINE t == f.tree
           k == offset.node
<1>5. CASE Token(t, offset).token = "END" /\ at' = "save"
  <2>1. IsTree(t) /\ WalkedTo(t) /\ Len(t) \in Nat
    BY <1>1, <1>4, TreeFacts
  <2>2. k = Len(t) + 1
    <3> SUFFICES ASSUME k \in 1 .. Len(t) PROVE FALSE
      BY <2>1 DEF WalkedTo
    <3>1. /\ offset.token \in Nat \ {0}
          /\ offset.token = 1 \/ offset.token <= Len(NodeTokens(t, k))
      BY <2>1 DEF WalkedTo
    <3>2. Token(t, offset) = NodeTokens(t, k)[offset.token]
      BY <2>1 DEF Token
    <3>3. NodeTokens(t, k)[offset.token].token # "END"
      <4> DEFINE n == Len(Props(t, k))
                 i == offset.token
      <4>1. /\ Len(NodeTokens(t, k)) = 1 + n + Ends(t, k)
            /\ n = IF t[k].compatible = "absent" THEN 0 ELSE 3
            /\ NodeTokens(t, k)[1] = [token |-> "BEGIN_NODE", name |-> k]
            /\ t[k].compatible # "absent" =>
                  /\ NodeTokens(t, k)[2] = Prop("compatible", k)
                  /\ NodeTokens(t, k)[3] = [token |-> "NOP"]
                  /\ NodeTokens(t, k)[4] = Prop("status", k)
            /\ \A j \in Nat : 1 + n < j /\ j <= Len(NodeTokens(t, k)) =>
                  NodeTokens(t, k)[j] = [token |-> "END_NODE"]
            /\ Ends(t, k) \in Nat
        <5> HIDE DEF t, k, i
        <5>1. Ends(t, k) \in Nat
          BY <2>1, EndFacts
        <5> QED BY <2>1, <5>1, TokenFacts DEF n, Layout
      <4>5. n \in Nat
        BY <4>1
      <4>2. CASE i = 1
        BY <4>1, <4>2
      <4>3. CASE i # 1 /\ i <= 1 + n
        <5>0. t[k].compatible # "absent" /\ n = 3
          BY <3>1, <4>1, <4>3
        <5>1. i = 2 \/ i = 3 \/ i = 4
          <6> HIDE DEF n
          <6> QED BY <3>1, <4>3, <5>0
        <5>2. /\ NodeTokens(t, k)[2].token = "PROP" /\ NodeTokens(t, k)[3].token = "NOP"
              /\ NodeTokens(t, k)[4].token = "PROP"
          BY <4>1, <5>0 DEF Prop
        <5> QED BY <5>1, <5>2
      <4>4. CASE i > 1 + n
        <5>1. 1 + n < i /\ i <= Len(NodeTokens(t, k)) /\ i \in Nat
          BY <3>1, <4>1, <4>4, <4>5
        <5> QED BY <4>1, <5>1
      <4> QED BY <3>1, <4>2, <4>3, <4>4, <4>5
    <3> QED BY <1>5, <3>2, <3>3
  <2>3. walk.devices = LeavesUpTo(t, Len(t))
    <3>1. Between(t, walk, k)
      BY <2>1, <2>2 DEF WalkedTo
    <3>2. k - 1 = Len(t)
      BY <2>1, <2>2
    <3> QED BY <3>1, <3>2 DEF Between
  <2>4. walk.devices = UNION {Leaves(x.tree) : x \in Taken(machine.dtbs)}
    <3>1. walk.devices = Leaves(t)
      BY <2>3 DEF LeavesUpTo, Leaves
    <3> QED BY <1>4, <3>1
  <2> QED BY <1>3, <1>5, <2>4 DEF TreeInv, Starting, Saved
<1>6. CASE at' = "failed"
  BY <1>3, <1>6 DEF TreeInv, Starting, Saved
<1> QED BY <1>2, <1>5, <1>6

LEMMA NextTreeInv == TreeInv /\ [Next]_vars => TreeInv'
<1> SUFFICES ASSUME TreeInv, [Next]_vars PROVE TreeInv'
  OBVIOUS
<1>1. CASE OpenTree
  <2>1. /\ machine \in Machines /\ at = "tree" /\ UNCHANGED <<machine, hardware, offset, walk>>
        /\ \/ Taken(machine.dtbs) = {} /\ at' = "save"
           \/ \E f \in Taken(machine.dtbs) : at' = IF HeaderRaises(f) THEN "failed" ELSE "walk"
    BY <1>1 DEF OpenTree, treeVars, TreeInv
  <2>2. /\ offset = [node |-> 1, token |-> 1] /\ walk.devices = {} /\ walk.path = <<>>
    BY <2>1 DEF TreeInv, Starting, NoWalk, Walk
  <2>3. CASE at' = "save" /\ Taken(machine.dtbs) = {}
    BY <2>1, <2>2, <2>3 DEF TreeInv, Starting, Saved
  <2>4. CASE at' = "failed"
    BY <2>1, <2>4 DEF TreeInv, Starting, Saved
  <2>5. ASSUME NEW f \in Taken(machine.dtbs), at' = "walk" PROVE TreeInv'
    <3>1. IsTree(f.tree)
      BY <2>1, TreeAssumption DEF IsTree
    <3> DEFINE t == f.tree
    <3>2. Len(t) \in Nat /\ Len(t) > 0 /\ t[1].depth = 1
      BY <3>1, TreeFacts
    <3>3. Between(t, walk, 1)
      <4>1. LeavesUpTo(t, 1 - 1) = {}
        BY DEF LeavesUpTo
      <4>2. Follows(walk.path, t, 1, t[1].depth - 1)
        BY <2>2, <3>2 DEF Follows
      <4> QED BY <2>2, <4>1, <4>2 DEF Between
    <3>4. WalkedTo(t)
      BY <2>2, <3>2, <3>3 DEF WalkedTo
    <3>5. WalkedTo(t)'
      BY <2>1, <3>4 DEF WalkedTo
    <3> QED BY <2>1, <2>5, <3>5 DEF TreeInv, Starting, Saved
  <2> QED BY <2>1, <2>3, <2>4, <2>5
<1>2. CASE WalkTree
  BY <1>2, WalkTreeWalks
<1>3. CASE LeaveTree
  BY <1>3, LeaveTreeWalks
<1>4. CASE SaveHardware
  <2>1. /\ at = "save" /\ UNCHANGED <<machine, walk>> /\ hardware'.dt = walk.devices
        /\ at' \in {"refused", "match"}
    BY <1>4 DEF SaveHardware, treeVars
  <2> QED BY <2>1 DEF TreeInv, Starting, Saved
<1>5. CASE MatchDevices \/ Generate \/ LockPath
  <2>1. at \in {"match", "generate", "lock"} /\ at' \in {"generate", "lock", "write"}
        /\ UNCHANGED <<machine, walk, hardware>>
    BY <1>5 DEF MatchDevices, Generate, LockPath, Found, treeVars
  <2> QED BY <2>1 DEF TreeInv, Starting, Saved
<1>6. CASE \/ OpenPort \/ SelectRegister \/ KernelAccess \/ ReadField \/ ScanUsb
           \/ ScanAcpi \/ NoFunction \/ FoundDevice
  <2>1. /\ at \in Starting /\ at' \in Starting \cup {"failed"}
        /\ UNCHANGED <<machine, offset, walk, hardware>>
    BY <1>6 DEF OpenPort, SelectRegister, KernelAccess, ReadField, ScanUsb, ScanAcpi,
                NoFunction, FoundDevice, MoveOn, Starting, treeVars
  <2> QED BY <2>1 DEF TreeInv, Starting, Saved
<1>7. CASE UNCHANGED vars
  <2>1. UNCHANGED <<machine, at, offset, walk, hardware>>
    BY <1>7 DEF vars, detectVars, treeVars
  <2> QED BY <2>1 DEF TreeInv, Starting, Saved, WalkedTo
<1> QED BY <1>1, <1>2, <1>3, <1>4, <1>5, <1>6, <1>7 DEF Next, DetectStep, Detect

\* Of every device tree, whatever its nodes and however deep, exactly the
\* leaves that name what they are compatible with are saved, each under its own
\* path (dt.py 82-130, 155-170).
THEOREM LeavesAreFound == Spec => []DtLeavesFound
<1>1. Init => TreeInv
  BY DEF Init, DetectInit, TreeInv, Starting, Saved
<1>2. TreeInv => DtLeavesFound
  BY DEF TreeInv, DtLeavesFound
<1> QED BY <1>1, <1>2, NextTreeInv, PTL DEF Spec

-----------------------------------------------------------------------------
(* What is generated.                                                      *)

\* A symbol that is asked for has an entry, and not "n".
AskedIn(config, s) == s \in DOMAIN config /\ config[s] \in {"m", "y"}

\* What add() keeps and what it gives, and that write() writes it.
LEMMA AddManyGives ==
    ASSUME NEW config, NEW set, NEW value \in {"m", "y"}, NEW s
    PROVE  /\ s \in set => AskedIn(AddMany(config, set, value), s)
           /\ AskedIn(config, s) => AskedIn(AddMany(config, set, value), s)
           /\ s \in set /\ value = "y" => BuiltIn(AddMany(config, set, value), s)
  BY DEF AddMany, AskedIn, BuiltIn

LEMMA AddManyDomain ==
    ASSUME NEW config, NEW set, NEW value
    PROVE  DOMAIN AddMany(config, set, value) = DOMAIN config \cup set
  BY DEF AddMany

LEMMA ValueOfEntry ==
    /\ \A s : AskedIn(entries, s) => Asked(s)
    /\ \A s : BuiltIn(entries, s) => Value(s) = "y"
BY DEF AskedIn, BuiltIn, Asked, Value, Written

\* The symbols of the matched files' drivers.
FileSymbols(order) == UNION {GetConfigs(Module(file.stem), order) :
                                 file \in MatchedFiles(Aliases(hardware))}

\* The symbols are those of the matched files' drivers and of the tables, in
\* some order of the Makefiles; they and the boot path's come into the entries,
\* and no others but those of every machine.
PlanInv ==
    /\ machine \in Machines
    /\ at \in {"generate", "lock", "write"} =>
          \E order \in KeyOrders : symbols = FileSymbols(order) \cup AcpiSymbols(hardware)
    /\ at \in {"lock", "write"} =>
          /\ \A s \in symbols : AskedIn(entries, s)
          /\ DOMAIN entries \subseteq symbols \cup Given
    /\ at = "write" => \A s \in StaticConfigs(machine.path) : BuiltIn(entries, s)

LEMMA NextPlanInv == PlanInv /\ [Next]_vars => PlanInv'
<1> SUFFICES ASSUME PlanInv, [Next]_vars PROVE PlanInv'
  OBVIOUS
<1> USE DEF PlanInv
<1>1. CASE DetectStep
  <2>1. at' \notin {"generate", "lock", "write"}
    BY <1>1 DEF DetectStep, Detect, OpenPort, SelectRegister, KernelAccess, NoFunction,
                ReadField, FoundDevice, MoveOn, ScanUsb, ScanAcpi, OpenTree, WalkTree,
                LeaveTree, SaveHardware
  <2>2. machine' = machine
    BY <1>1 DEF DetectStep, Detect, OpenPort, SelectRegister, KernelAccess, NoFunction,
                ReadField, FoundDevice, MoveOn, ScanUsb, ScanAcpi, OpenTree, WalkTree,
                LeaveTree, SaveHardware
  <2> QED BY <2>1, <2>2
<1>2. CASE MatchDevices
  <2>1. /\ at' = "generate" /\ UNCHANGED <<machine, hardware>>
        /\ \E order \in KeyOrders : symbols' = FileSymbols(order) \cup AcpiSymbols(hardware)
    BY <1>2 DEF MatchDevices, Found, FileSymbols
  <2>2. \A order : FileSymbols(order)' = FileSymbols(order)
    BY <2>1 DEF FileSymbols
  <2> QED BY <2>1, <2>2
<1>3. ASSUME UNCHANGED <<machine, hardware, symbols>>
      PROVE  /\ Given' = Given
             /\ \A order : FileSymbols(order)' = FileSymbols(order)
  BY <1>3 DEF Given, FileSymbols
<1>4. CASE Generate
  <2>1. /\ at = "generate" /\ at' = "lock" /\ UNCHANGED <<machine, hardware, symbols>>
        /\ \E value \in {"m", "y"} :
              entries' = AddMany(BaseConfig(hardware.acpi.has_acpi), symbols, value)
    BY <1>4 DEF Generate, Found
  <2>2. \A s \in symbols : AskedIn(entries', s)
    BY <2>1, AddManyGives
  <2>3. DOMAIN entries' = DOMAIN BaseConfig(hardware.acpi.has_acpi) \cup symbols
    <3>1. PICK value \in {"m", "y"} :
              entries' = AddMany(BaseConfig(hardware.acpi.has_acpi), symbols, value)
      BY <2>1
    <3> HIDE DEF PlanInv
    <3> QED BY <3>1, AddManyDomain
  <2>4. DOMAIN entries' \subseteq symbols \cup Given
    <3> HIDE DEF PlanInv
    <3> QED BY <2>3 DEF Given
  <2> QED BY <1>3, <2>1, <2>2, <2>4
<1>5. CASE LockPath
  <2>1. /\ at = "lock" /\ at' = "write" /\ UNCHANGED <<machine, hardware, symbols>>
        /\ entries' = AddMany(entries, StaticConfigs(machine.path), "y")
    BY <1>5 DEF LockPath, Found
  <2>2. /\ \A s \in symbols : AskedIn(entries', s)
        /\ \A s \in StaticConfigs(machine.path) : BuiltIn(entries', s)
    BY <2>1, AddManyGives
  <2>3. DOMAIN entries' = DOMAIN entries \cup StaticConfigs(machine.path)
    BY <2>1, AddManyDomain
  <2>4. DOMAIN entries \subseteq symbols \cup Given
    BY <2>1
  <2>5. DOMAIN entries' \subseteq symbols \cup Given
    <3> HIDE DEF PlanInv
    <3> QED BY <2>3, <2>4 DEF Given
  <2> QED BY <1>3, <2>1, <2>2, <2>5
<1>6. CASE UNCHANGED vars
  <2>1. UNCHANGED <<machine, hardware, at, symbols, entries>>
    BY <1>6 DEF vars, detectVars
  <2> QED BY <1>3, <2>1
<1> QED BY <1>1, <1>2, <1>4, <1>5, <1>6 DEF Next

LEMMA PlanAlways == Spec => []PlanInv
<1>1. Init => PlanInv
  BY DEF Init, DetectInit, PlanInv
<1> QED BY <1>1, NextPlanInv, PTL DEF Spec

\* For every machine, with every combination of root file system, disk and
\* layers, the bus, the layers, the file system and a driver of the disk are
\* built in (bootpath.py 97-133).
THEOREM ChainIsBuiltIn == Spec => []ChainBuiltIn
<1>1. PlanInv => ChainBuiltIn
  <2> SUFFICES ASSUME PlanInv, at = "write" PROVE ChainBuiltIn
    BY DEF ChainBuiltIn
  <2> DEFINE path == machine.path
             locked == {"BLOCK", "PCI_MSI", FsConfig[path.root_fs]}
                       \cup UNION {ChainSymbols[layer] : layer \in path.layers}
  <2>1. path \in BootPaths
    BY MachineAssumption DEF PlanInv
  <2>2. \A s \in StaticConfigs(path) : Value(s) = "y"
    BY ValueOfEntry DEF PlanInv
  <2>3. path.layers \subseteq {"lvm", "luks", "raid"}
    BY <2>1 DEF BootPaths
  <2>4. ASSUME NEW layer \in path.layers PROVE ChainSymbols[layer] \subseteq StaticConfigs(path)
    <3>1. CASE layer = "lvm"
      BY <3>1 DEF ChainSymbols, StaticConfigs, Layer, LvmConfigs
    <3>2. CASE layer = "luks"
      BY <3>2 DEF ChainSymbols, StaticConfigs, Layer, LuksCrypto
    <3>3. CASE layer = "raid"
      BY <3>3 DEF ChainSymbols, StaticConfigs, Layer, RaidConfigs
    <3> QED BY <2>3, <2>4, <3>1, <3>2, <3>3
  <2>5. locked \subseteq StaticConfigs(path)
    <3>1. {"BLOCK", "PCI_MSI", FsConfig[path.root_fs]} \subseteq StaticConfigs(path)
      BY DEF StaticConfigs, AlwaysStatic
    <3> HIDE DEF path
    <3> QED BY <2>4, <3>1
  <2>6. ASSUME path.device \in {"sd", "nvme", "vd", "mmcblk", "hd"}
        PROVE  \E s \in DeviceConfigs[path.device] \ {"PCI"} : Value(s) = "y"
    <3>1. DeviceConfigs[path.device] \subseteq StaticConfigs(path)
      BY DEF StaticConfigs
    <3>2. \E s \in DeviceConfigs[path.device] : s # "PCI"
      <4>1. /\ "AHCI" \in DeviceConfigs["sd"] /\ "NVME_CORE" \in DeviceConfigs["nvme"]
            /\ "VIRTIO" \in DeviceConfigs["vd"] /\ "MMC" \in DeviceConfigs["mmcblk"]
            /\ "IDE" \in DeviceConfigs["hd"]
        BY DEF DeviceConfigs
      <4> QED BY <2>6, <4>1
    <3> QED BY <2>2, <3>1, <3>2
  <2> QED BY <2>2, <2>5, <2>6 DEF ChainBuiltIn
<1> QED BY <1>1, PlanAlways, PTL

-----------------------------------------------------------------------------
(* What is matched.                                                        *)

\* What a PCI device's alias takes to match, and a USB device's.
LEMMA PciMatches ==
    ASSUME NEW s, NEW v, NEW dv, NEW cls, NEW mask
    PROVE  Matches(PciAlias(s), PciPattern(v, dv, cls, mask)) <=>
              /\ v \in {AnyPciId, "*", s.vendor} /\ dv \in {AnyPciId, "*", s.device}
              /\ \A f \in {"bc", "sc", "i"} :
                    cls # ZeroClass /\ f \in mask => cls[f] \in {"*", s.cls[f]}
<1> DEFINE a == PciAlias(s)
           p == PciPattern(v, dv, cls, mask)
           part(f) == IF cls # ZeroClass /\ f \in mask THEN cls[f] ELSE "*"
<1>1. /\ DOMAIN a = {"bus", "v", "d", "sub", "bc", "sc", "i"}
      /\ a.bus = "pci" /\ a.v = s.vendor /\ a.d = s.device
      /\ a["bc"] = s.cls["bc"] /\ a["sc"] = s.cls["sc"] /\ a["i"] = s.cls["i"]
  BY DEF PciAlias
<1>2. /\ p.bus = "pci" /\ p.v = Wild(v, AnyPciId) /\ p.d = Wild(dv, AnyPciId)
      /\ p["sub"] = "*"
      /\ p["bc"] = part("bc") /\ p["sc"] = part("sc") /\ p["i"] = part("i")
  BY DEF PciPattern
<1>3. Matches(a, p) <=> /\ p.v \in {"*", s.vendor} /\ p.d \in {"*", s.device}
                        /\ \A f \in {"bc", "sc", "i"} : p[f] \in {"*", s.cls[f]}
  <2> HIDE DEF a, p, part
  <2> QED BY <1>1, <1>2 DEF Matches
<1>4. /\ p.v \in {"*", s.vendor} <=> v \in {AnyPciId, "*", s.vendor}
      /\ p.d \in {"*", s.device} <=> dv \in {AnyPciId, "*", s.device}
  <2> HIDE DEF a, p, part
  <2> QED BY <1>2 DEF Wild
<1>5. ASSUME NEW f \in {"bc", "sc", "i"}
      PROVE  p[f] \in {"*", s.cls[f]} <=>
                 (cls # ZeroClass /\ f \in mask => cls[f] \in {"*", s.cls[f]})
  <2>1. p[f] = part(f)
    <3> HIDE DEF p, part
    <3> QED BY <1>2
  <2> QED BY <2>1
<1> HIDE DEF a, p, part
<1>6. Matches(a, p) <=>
              /\ v \in {AnyPciId, "*", s.vendor} /\ dv \in {AnyPciId, "*", s.device}
              /\ \A f \in {"bc", "sc", "i"} :
                    cls # ZeroClass /\ f \in mask => cls[f] \in {"*", s.cls[f]}
  BY <1>3, <1>4, <1>5
<1> QED BY <1>6 DEF a, p

LEMMA UsbMatches ==
    ASSUME NEW s, NEW v, NEW pr, NEW iface
    PROVE  Matches(UsbAlias(s), UsbPattern(v, pr, iface)) <=>
              /\ v \in {AnyId, "*", s.vendor} /\ pr \in {AnyId, "*", s.product}
              /\ \A f \in {"ic", "isc", "ip"} : iface[f] \in {AnyClass, "*", "00"}
<1> DEFINE a == UsbAlias(s)
           p == UsbPattern(v, pr, iface)
<1>1. /\ DOMAIN a = {"bus", "v", "p", "dc", "ic", "isc", "ip"}
      /\ a.bus = "usb" /\ a.v = s.vendor /\ a.p = s.product
      /\ a["ic"] = "00" /\ a["isc"] = "00" /\ a["ip"] = "00"
  BY DEF UsbAlias, ZeroIface
<1>2. /\ p.bus = "usb" /\ p.v = Wild(v, AnyId) /\ p.p = Wild(pr, AnyId)
      /\ p["dc"] = "*"
      /\ p["ic"] = Wild(iface["ic"], AnyClass) /\ p["isc"] = Wild(iface["isc"], AnyClass)
      /\ p["ip"] = Wild(iface["ip"], AnyClass)
  BY DEF UsbPattern
<1> HIDE DEF a, p
<1>3. Matches(a, p) <=> /\ p.v \in {"*", s.vendor} /\ p.p \in {"*", s.product}
                        /\ \A f \in {"ic", "isc", "ip"} : p[f] \in {"*", "00"}
  BY <1>1, <1>2 DEF Matches
<1>4. /\ p.v \in {"*", s.vendor} <=> v \in {AnyId, "*", s.vendor}
      /\ p.p \in {"*", s.product} <=> pr \in {AnyId, "*", s.product}
      /\ \A f \in {"ic", "isc", "ip"} :
            p[f] \in {"*", "00"} <=> iface[f] \in {AnyClass, "*", "00"}
  BY <1>2 DEF Wild
<1>5. Matches(a, p) <=>
              /\ v \in {AnyId, "*", s.vendor} /\ pr \in {AnyId, "*", s.product}
              /\ \A f \in {"ic", "isc", "ip"} : iface[f] \in {AnyClass, "*", "00"}
  BY <1>3, <1>4
<1> QED BY <1>5 DEF a, p

\* No alias of one bus matches a pattern of another.
LEMMA BusesApart ==
    /\ \A s, v, pr, iface : ~Matches(PciAlias(s), UsbPattern(v, pr, iface))
    /\ \A s, v, dv, cls, mask : ~Matches(UsbAlias(s), PciPattern(v, dv, cls, mask))
    /\ \A s, id : /\ ~Matches(PciAlias(s), [bus |-> "other", id |-> id])
                  /\ ~Matches(UsbAlias(s), [bus |-> "other", id |-> id])
<1>1. \A s : PciAlias(s).bus = "pci" /\ UsbAlias(s).bus = "usb"
  BY DEF PciAlias, UsbAlias
<1>2. /\ \A v, pr, iface : UsbPattern(v, pr, iface).bus = "usb"
      /\ \A v, dv, cls, mask : PciPattern(v, dv, cls, mask).bus = "pci"
      /\ \A x : [bus |-> "other", id |-> x].bus = "other"
  BY DEF UsbPattern, PciPattern
<1> QED BY <1>1, <1>2 DEF Matches

\* The pattern of an entry by its macro, and the macros there are.
LEMMA PatternFacts ==
    ASSUME NEW file \in Files, NEW e \in Extracted(file)
    PROVE  /\ e \in file.entries
           /\ e.macro \in {"PCI_DEVICE", "PCI_VDEVICE", "PCI_DEVICE_CLASS", "USB_DEVICE",
                           "USB_INTERFACE_INFO", "USB_DEVICE_AND_INTERFACE_INFO",
                           "STRING", "COMPATIBLE"}
           /\ e.macro = "PCI_DEVICE" =>
                 Pattern(e) = PciPattern(e.vendor, e.device, ZeroClass, {})
           /\ e.macro = "PCI_VDEVICE" =>
                 Pattern(e) = PciPattern(IF KnownVendor(e.name) THEN VendorNames[e.name]
                                         ELSE AnyPciId, e.device, ZeroClass, {})
           /\ e.macro = "PCI_DEVICE_CLASS" =>
                 Pattern(e) = PciPattern(AnyPciId, AnyPciId, e.cls, e.mask)
           /\ e.macro = "USB_DEVICE" =>
                 Pattern(e) = UsbPattern(e.vendor, e.product, AnyIface)
           /\ e.macro = "USB_INTERFACE_INFO" =>
                 Pattern(e) = UsbPattern(AnyId, AnyId, e.iface)
           /\ e.macro = "USB_DEVICE_AND_INTERFACE_INFO" =>
                 Pattern(e) = UsbPattern(e.vendor, e.product, e.iface)
           /\ e.macro \in {"STRING", "COMPATIBLE"} =>
                 Pattern(e) = [bus |-> "other", id |-> e.id]
<1>1. e \in file.entries /\ \E bus \in DOMAIN Macros : e.macro \in Macros[bus]
  BY DEF Extracted
<1>2. \A bus \in DOMAIN Macros :
         Macros[bus] \subseteq {"PCI_DEVICE", "PCI_VDEVICE", "PCI_DEVICE_CLASS", "USB_DEVICE",
                                "USB_INTERFACE_INFO", "USB_DEVICE_AND_INTERFACE_INFO",
                                "STRING", "COMPATIBLE"}
  BY DEF Macros
<1>3. e.macro = "PCI_DEVICE" =>
         Pattern(e) = PciPattern(e.vendor, e.device, ZeroClass, {})
  BY DEF Pattern
<1>4. e.macro = "PCI_VDEVICE" =>
         Pattern(e) = PciPattern(IF KnownVendor(e.name) THEN VendorNames[e.name]
                                 ELSE AnyPciId, e.device, ZeroClass, {})
  BY DEF Pattern
<1>5. e.macro = "PCI_DEVICE_CLASS" =>
         Pattern(e) = PciPattern(AnyPciId, AnyPciId, e.cls, e.mask)
  BY DEF Pattern
<1>6. e.macro = "USB_DEVICE" => Pattern(e) = UsbPattern(e.vendor, e.product, AnyIface)
  BY DEF Pattern
<1>7. e.macro = "USB_INTERFACE_INFO" => Pattern(e) = UsbPattern(AnyId, AnyId, e.iface)
  BY DEF Pattern
<1>8. e.macro = "USB_DEVICE_AND_INTERFACE_INFO" =>
         Pattern(e) = UsbPattern(e.vendor, e.product, e.iface)
  BY DEF Pattern
<1>9. e.macro \in {"STRING", "COMPATIBLE"} => Pattern(e) = [bus |-> "other", id |-> e.id]
  BY DEF Pattern
<1> QED BY <1>1, <1>2, <1>3, <1>4, <1>5, <1>6, <1>7, <1>8, <1>9

\* A PCI device's alias matches an exact entry only if the entry is for it; a
\* USB device's, only if the ids are its own.
LEMMA MatchIsFor ==
    ASSUME NEW file \in Files, NEW e \in Extracted(file), ~Vague(e)
    PROVE  /\ \A s, d : /\ Matches(PciAlias(s), Pattern(e))
                        /\ s.vendor = d.vendor /\ s.device = d.device /\ s.cls = d.cls
                        => IsFor(e, d, "pci")
           /\ \A s, d : /\ Matches(UsbAlias(s), Pattern(e))
                        /\ s.vendor = d.vendor /\ s.product = d.product
                        => IsFor(e, d, "usb")
<1>1. ASSUME NEW s, NEW d, Matches(PciAlias(s), Pattern(e)),
             s.vendor = d.vendor, s.device = d.device, s.cls = d.cls
      PROVE  IsFor(e, d, "pci")
  <2>1. CASE e.macro = "PCI_DEVICE"
    <3>1. Matches(PciAlias(s), PciPattern(e.vendor, e.device, ZeroClass, {}))
      BY <1>1, <2>1, PatternFacts
    <3>2. e.vendor \in {AnyPciId, "*", s.vendor} /\ e.device \in {AnyPciId, "*", s.device}
      BY <3>1, PciMatches
    <3>3. {e.vendor, e.device} \cap {"*", AnyPciId} = {}
      BY <2>1, EntryAssumption, PatternFacts
    <3> QED BY <1>1, <2>1, <3>2, <3>3 DEF IsFor
  <2>2. CASE e.macro = "PCI_VDEVICE"
    <3>1. KnownVendor(e.name)
      BY <2>2 DEF Vague
    <3>2. Pattern(e) = PciPattern(VendorNames[e.name], e.device, ZeroClass, {})
      BY <2>2, <3>1, PatternFacts
    <3>3. /\ e.vendor = VendorNames[e.name]
          /\ {e.vendor, e.device} \cap {"*", AnyPciId} = {}
      BY <2>2, <3>1, EntryAssumption, PatternFacts
    <3>4. Matches(PciAlias(s), PciPattern(e.vendor, e.device, ZeroClass, {}))
      BY <1>1, <3>2, <3>3
    <3>5. e.vendor \in {AnyPciId, "*", s.vendor} /\ e.device \in {AnyPciId, "*", s.device}
      BY <3>4, PciMatches
    <3> QED BY <1>1, <2>2, <3>3, <3>5 DEF IsFor
  <2>3. CASE e.macro = "PCI_DEVICE_CLASS"
    <3>1. Matches(PciAlias(s), PciPattern(AnyPciId, AnyPciId, e.cls, e.mask))
      BY <1>1, <2>3, PatternFacts
    <3>2. \A f \in {"bc", "sc", "i"} :
             e.cls # ZeroClass /\ f \in e.mask => e.cls[f] \in {"*", s.cls[f]}
      BY <3>1, PciMatches
    <3>3. e.cls # ZeroClass
      BY <2>3 DEF Vague
    <3>4. e.mask \subseteq {"bc", "sc", "i"} /\ \A f \in e.mask : e.cls[f] # "*"
      BY <2>3, EntryAssumption, PatternFacts
    <3>5. \A f \in e.mask : e.cls[f] = d.cls[f]
      BY <1>1, <3>2, <3>3, <3>4
    <3> QED BY <2>3, <3>5 DEF IsFor
  <2>4. CASE e.macro \in {"USB_DEVICE", "USB_INTERFACE_INFO", "USB_DEVICE_AND_INTERFACE_INFO",
                          "STRING", "COMPATIBLE"}
    <3>1. \/ Pattern(e) = UsbPattern(e.vendor, e.product, AnyIface)
          \/ Pattern(e) = UsbPattern(AnyId, AnyId, e.iface)
          \/ Pattern(e) = UsbPattern(e.vendor, e.product, e.iface)
          \/ Pattern(e) = [bus |-> "other", id |-> e.id]
      BY <2>4, PatternFacts
    <3>2. ~Matches(PciAlias(s), Pattern(e))
      BY <3>1, BusesApart
    <3> QED BY <1>1, <3>2
  <2> QED BY <2>1, <2>2, <2>3, <2>4, PatternFacts
<1>2. ASSUME NEW s, NEW d, Matches(UsbAlias(s), Pattern(e)),
             s.vendor = d.vendor, s.product = d.product
      PROVE  IsFor(e, d, "usb")
  <2>1. CASE e.macro = "USB_DEVICE"
    <3>1. Matches(UsbAlias(s), UsbPattern(e.vendor, e.product, AnyIface))
      BY <1>2, <2>1, PatternFacts
    <3>2. e.vendor \in {AnyId, "*", s.vendor} /\ e.product \in {AnyId, "*", s.product}
      BY <3>1, UsbMatches
    <3>3. "*" \notin {e.vendor, e.product}
      BY <2>1, EntryAssumption, PatternFacts
    <3>4. AnyId \notin {e.vendor, e.product}
      BY <2>1 DEF Vague
    <3> QED BY <1>2, <2>1, <3>2, <3>3, <3>4 DEF IsFor
  <2>2. CASE e.macro \in Interface
    <3>1. \/ Pattern(e) = UsbPattern(AnyId, AnyId, e.iface)
          \/ Pattern(e) = UsbPattern(e.vendor, e.product, e.iface)
      BY <2>2, PatternFacts DEF Interface
    <3>2. \A f \in {"ic", "isc", "ip"} : e.iface[f] \in {AnyClass, "*", "00"}
      BY <1>2, <3>1, UsbMatches
    <3>3. e.iface \in [{"ic", "isc", "ip"} -> STRING \ {"*"}]
      BY <2>2, EntryAssumption, PatternFacts DEF Interface
    <3>4. e.iface # ZeroIface /\ AnyClass \notin {e.iface[f] : f \in DOMAIN e.iface}
      BY <2>2 DEF Vague
    <3>5. \A f \in {"ic", "isc", "ip"} : e.iface[f] = "00"
      <4>1. \A f \in {"ic", "isc", "ip"} : e.iface[f] # "*" /\ e.iface[f] # AnyClass
        BY <3>3, <3>4
      <4> QED BY <3>2, <4>1
    <3>6. e.iface = ZeroIface
      <4>1. /\ ZeroIface = [f \in {"ic", "isc", "ip"} |-> ZeroIface[f]]
            /\ \A f \in {"ic", "isc", "ip"} : ZeroIface[f] = "00"
        BY DEF ZeroIface
      <4>2. e.iface = [f \in {"ic", "isc", "ip"} |-> e.iface[f]]
        BY <3>3
      <4> QED BY <3>5, <4>1, <4>2
    <3> QED BY <3>4, <3>6
  <2>3. CASE e.macro \in {"PCI_DEVICE", "PCI_VDEVICE", "PCI_DEVICE_CLASS", "STRING", "COMPATIBLE"}
    <3>1. \/ \E v, dv, cls, mask : Pattern(e) = PciPattern(v, dv, cls, mask)
          \/ Pattern(e) = [bus |-> "other", id |-> e.id]
      <4>1. CASE e.macro = "PCI_DEVICE"
        BY <4>1, PatternFacts
      <4>2. CASE e.macro = "PCI_VDEVICE"
        BY <4>2, PatternFacts
      <4>3. CASE e.macro = "PCI_DEVICE_CLASS"
        BY <4>3, PatternFacts
      <4>4. CASE e.macro \in {"STRING", "COMPATIBLE"}
        BY <4>4, PatternFacts
      <4> QED BY <2>3, <4>1, <4>2, <4>3, <4>4
    <3>2. ~Matches(UsbAlias(s), Pattern(e))
      BY <3>1, BusesApart
    <3> QED BY <1>2, <3>2
  <2> QED BY <2>1, <2>2, <2>3, PatternFacts DEF Interface
<1> QED BY <1>1, <1>2

\* And an entry that is for a device, but for its interface, is matched.
LEMMA IsForMatches ==
    ASSUME NEW file \in Files, NEW e \in Extracted(file), e.macro \notin Interface
    PROVE  /\ \A s, d : /\ IsFor(e, d, "pci")
                        /\ s.vendor = d.vendor /\ s.device = d.device /\ s.cls = d.cls
                        => Matches(PciAlias(s), Pattern(e))
           /\ \A s, d : /\ IsFor(e, d, "usb")
                        /\ s.vendor = d.vendor /\ s.product = d.product
                        => Matches(UsbAlias(s), Pattern(e))
<1>1. ASSUME NEW s, NEW d, IsFor(e, d, "pci"),
             s.vendor = d.vendor, s.device = d.device, s.cls = d.cls
      PROVE  Matches(PciAlias(s), Pattern(e))
  <2>1. CASE e.macro = "PCI_DEVICE"
    <3>1. e.vendor = s.vendor /\ e.device = s.device
      BY <1>1, <2>1 DEF IsFor
    <3>2. Matches(PciAlias(s), PciPattern(e.vendor, e.device, ZeroClass, {}))
      BY <3>1, PciMatches
    <3> QED BY <2>1, <3>2, PatternFacts
  <2>2. CASE e.macro = "PCI_VDEVICE"
    <3>1. e.vendor = s.vendor /\ e.device = s.device
      BY <1>1, <2>2 DEF IsFor
    <3>2. PICK v \in {AnyPciId, s.vendor} :
             Pattern(e) = PciPattern(v, e.device, ZeroClass, {})
      BY <2>2, <3>1, EntryAssumption, PatternFacts
    <3>3. Matches(PciAlias(s), PciPattern(v, e.device, ZeroClass, {}))
      BY <3>1, PciMatches
    <3> QED BY <3>2, <3>3
  <2>3. CASE e.macro = "PCI_DEVICE_CLASS"
    <3>1. \A f \in e.mask : e.cls[f] = s.cls[f]
      BY <1>1, <2>3 DEF IsFor
    <3>2. Matches(PciAlias(s), PciPattern(AnyPciId, AnyPciId, e.cls, e.mask))
      BY <3>1, PciMatches
    <3> QED BY <2>3, <3>2, PatternFacts
  <2> QED BY <1>1, <2>1, <2>2, <2>3 DEF IsFor
<1>2. ASSUME NEW s, NEW d, IsFor(e, d, "usb"), s.vendor = d.vendor, s.product = d.product
      PROVE  Matches(UsbAlias(s), Pattern(e))
  <2>1. e.macro = "USB_DEVICE" /\ e.vendor = s.vendor /\ e.product = s.product
    BY <1>2 DEF IsFor, Interface
  <2>2. \A f \in {"ic", "isc", "ip"} : AnyIface[f] = AnyClass
    BY DEF AnyIface
  <2>3. Matches(UsbAlias(s), UsbPattern(e.vendor, e.product, AnyIface))
    BY <2>1, <2>2, UsbMatches
  <2> QED BY <2>1, <2>3, PatternFacts
<1> QED BY <1>1, <1>2

\* Whatever is saved is a device's, if the kernel left its slot alone, and all
\* that was seen is saved.
LEMMA SavedDevices ==
    ASSUME ScanInv, SavedInv, Saved
    PROVE  /\ \A s \in hardware.pci : s.slot \notin disturbed =>
                \E d \in machine.pci : s.vendor = d.vendor /\ s.device = d.device /\ s.cls = d.cls
           /\ \A s \in hardware.usb :
                \E d \in machine.usb : s.vendor = d.vendor /\ s.product = d.product
           /\ \A d \in machine.pci : Seen("pci", d) =>
                \E s \in hardware.pci :
                    s.vendor = d.vendor /\ s.device = d.device /\ s.cls = d.cls
           /\ \A d \in machine.usb : Seen("usb", d) =>
                \E s \in hardware.usb : s.vendor = d.vendor /\ s.product = d.product
<1>1. /\ hardware.pci = {SavePci(x) : x \in found}
      /\ hardware.usb = {SaveUsb(x) : x \in access.usb}
      /\ access.usb \subseteq machine.usb /\ access.port \in BOOLEAN /\ ~Scanning
  BY DEF SavedInv, ScanInv, PlaceInv, Saved, Scanning
<1>2. \A x : LET s == SavePci(x)
             IN  /\ s.vendor = x.vendor /\ s.device = x.device /\ s.cls = x.cls
                 /\ s.slot = x.slot
  BY DEF SavePci
<1>3. \A x : SaveUsb(x).vendor = x.vendor /\ SaveUsb(x).product = x.product
  BY DEF SaveUsb
<1>4. \A d : LET x == AsFound(d)
             IN  x.vendor = d.vendor /\ x.device = d.device /\ x.cls = d.cls
  BY DEF AsFound
<1>5. ASSUME NEW s \in hardware.pci, s.slot \notin disturbed
      PROVE  \E d \in machine.pci : s.vendor = d.vendor /\ s.device = d.device /\ s.cls = d.cls
  <2>1. PICK x \in found : s = SavePci(x)
    BY <1>1
  <2>2. PICK d \in Calm : x = AsFound(d)
    BY <1>1, <1>2, <1>5, <2>1 DEF ScanInv, FoundInv, FoundCalmly
  <2> QED BY <1>2, <1>4, <2>1, <2>2 DEF Calm
<1>6. ASSUME NEW d \in machine.pci, Seen("pci", d)
      PROVE  \E s \in hardware.pci :
                 s.vendor = d.vendor /\ s.device = d.device /\ s.cls = d.cls
  <2>1. access.port /\ d \in Calm
    BY <1>6 DEF Seen, Calm
  <2>2. SavePci(AsFound(d)) \in hardware.pci
    BY <1>1, <2>1 DEF ScanInv, FoundInv
  <2> QED BY <1>2, <1>4, <2>2
<1>7. ASSUME NEW d \in machine.usb, Seen("usb", d)
      PROVE  \E s \in hardware.usb : s.vendor = d.vendor /\ s.product = d.product
  <2>1. d \in access.usb
    BY <1>7 DEF Seen
  <2> QED BY <1>1, <1>3, <2>1
<1>8. ASSUME NEW s \in hardware.usb
      PROVE  \E d \in machine.usb : s.vendor = d.vendor /\ s.product = d.product
  BY <1>1, <1>3
<1> QED BY <1>5, <1>6, <1>7, <1>8

-----------------------------------------------------------------------------
(* What comes of it.                                                       *)

\* An alias that an exact entry matches is of a device that the entry is for,
\* unless it was misread.
LEMMA MatchedDevice ==
    ASSUME ScanInv, SavedInv, Saved, NEW file \in Files, NEW e \in Extracted(file),
           ~Vague(e), NEW alias \in Aliases(hardware), alias \notin Misread,
           Matches(alias, Pattern(e))
    PROVE  \E p \in Present : IsFor(e, p[2], p[1])
<1>1. CASE \E s \in hardware.pci : alias = PciAlias(s)
  <2>1. PICK s \in hardware.pci : alias = PciAlias(s)
    BY <1>1
  <2>2. s.slot \notin disturbed
    BY <2>1 DEF Misread
  <2>3. PICK d \in machine.pci : s.vendor = d.vendor /\ s.device = d.device /\ s.cls = d.cls
    BY <2>2, SavedDevices
  <2>4. IsFor(e, d, "pci")
    BY <2>1, <2>3, MatchIsFor
  <2>5. <<"pci", d>> \in Present /\ <<"pci", d>>[1] = "pci" /\ <<"pci", d>>[2] = d
    BY DEF Present
  <2> QED BY <2>4, <2>5
<1>2. CASE \E s \in hardware.usb : alias = UsbAlias(s)
  <2>1. PICK s \in hardware.usb : alias = UsbAlias(s)
    BY <1>2
  <2>2. PICK d \in machine.usb : s.vendor = d.vendor /\ s.product = d.product
    BY SavedDevices
  <2>3. IsFor(e, d, "usb")
    BY <2>1, <2>2, MatchIsFor
  <2>4. <<"usb", d>> \in Present /\ <<"usb", d>>[1] = "usb" /\ <<"usb", d>>[2] = d
    BY DEF Present
  <2> QED BY <2>3, <2>4
<1> QED BY <1>1, <1>2 DEF Aliases

\* What a file without a stranger under its name is looked up as is its own.
LEMMA UnmixedConfigs ==
    ASSUME NEW file, Unmixed(file), NEW order
    PROVE  GetConfigs(Module(file.stem), order) \subseteq file.configs
<1> DEFINE module == Module(file.stem)
<1>1. OwnKeys(file) = {k \in DOMAIN ObjConfigs : k = module \/ <<module, k>> \in SameButHyphens}
  BY DEF OwnKeys
<1> HIDE DEF module
<1>2. Key(module, order) \subseteq OwnKeys(file)
  <2>1. CASE module \in DOMAIN ObjConfigs
    BY <1>1, <2>1 DEF Key
  <2>2. CASE module \notin DOMAIN ObjConfigs
    <3>1. PICK k \in DOMAIN ObjConfigs : <<module, k>> \in SameButHyphens
      BY <1>1, <2>2 DEF Unmixed
    <3>2. Key(module, order) = {x \in DOMAIN ObjConfigs : <<module, x>> \in SameButHyphens}
      BY <2>2, <3>1 DEF Key
    <3> QED BY <1>1, <3>2
  <2> QED BY <2>1, <2>2
<1>3. \A k \in Key(module, order) : ObjConfigs[k] \subseteq file.configs
  BY <1>2 DEF Unmixed
<1> QED BY <1>3 DEF GetConfigs, module

\* On every machine, no driver is asked for that no device needs, but where an
\* entry says more than its pattern, a slot was misread or a file's name is not
\* its driver's (s08_kernel.py 35-58, 114-120, matchers.py 109-212, 342-372).
THEOREM NothingIsForeign == Spec => []NothingForeign
<1>1. ScanInv /\ SavedInv /\ PlanInv => NothingForeign
  <2> SUFFICES ASSUME ScanInv, SavedInv, PlanInv, at = "write",
                      NEW s \in AskedSymbols \ Given, ~Needed(s)
               PROVE  \E file \in Files, alias \in Aliases(hardware), order \in KeyOrders :
                         /\ s \in GetConfigs(Module(file.stem), order)
                         /\ \E e \in Extracted(file) :
                               /\ Matches(alias, Pattern(e))
                               /\ Vague(e) \/ alias \in Misread \/ ~Unmixed(file)
    BY DEF NothingForeign
  <2>1. Saved
    BY DEF Saved
  <2>2. s \in symbols /\ s \notin AcpiSymbols(hardware)
    BY DEF PlanInv, AskedSymbols, Given
  <2>3. PICK order \in KeyOrders : s \in FileSymbols(order)
    BY <2>2 DEF PlanInv
  <2>4. PICK file \in MatchedFiles(Aliases(hardware)) :
            s \in GetConfigs(Module(file.stem), order)
    BY <2>3 DEF FileSymbols
  <2>5. PICK alias \in Aliases(hardware) :
            file \in Files /\ \E e \in Extracted(file) : Matches(alias, Pattern(e))
    BY DEF MatchedFiles, MatchedBy
  <2>6. PICK e \in Extracted(file) : Matches(alias, Pattern(e))
    BY <2>5
  <2>7. ASSUME ~Vague(e), alias \notin Misread, Unmixed(file) PROVE FALSE
    <3>1. PICK p \in Present : IsFor(e, p[2], p[1])
      BY <2>1, <2>5, <2>6, <2>7, MatchedDevice
    <3>2. s \in file.configs
      BY <2>4, <2>7, UnmixedConfigs
    <3> QED BY <2>5, <3>1, <3>2 DEF Needed
  <2> QED BY <2>4, <2>5, <2>6, <2>7
<1> QED BY <1>1, ScanAlways, PlanAlways, PTL

\* A file whose table has an entry for a device that was seen is matched.
LEMMA SeenIsMatched ==
    ASSUME ScanInv, SavedInv, Saved, NEW file \in Files, NEW p \in Present,
           Seen(p[1], p[2]), NEW e \in Extracted(file), e.macro \notin Interface,
           IsFor(e, p[2], p[1])
    PROVE  file \in MatchedFiles(Aliases(hardware))
<1>1. CASE \E d \in machine.pci : p = <<"pci", d>>
  <2>1. PICK d \in machine.pci : p = <<"pci", d>>
    BY <1>1
  <2>2. Seen("pci", d) /\ IsFor(e, d, "pci")
    BY <2>1
  <2>3. PICK s \in hardware.pci : s.vendor = d.vendor /\ s.device = d.device /\ s.cls = d.cls
    BY <2>2, SavedDevices
  <2>4. Matches(PciAlias(s), Pattern(e)) /\ PciAlias(s) \in Aliases(hardware)
    BY <2>2, <2>3, IsForMatches DEF Aliases
  <2> QED BY <2>4 DEF MatchedFiles, MatchedBy
<1>2. CASE \E d \in machine.usb : p = <<"usb", d>>
  <2>1. PICK d \in machine.usb : p = <<"usb", d>>
    BY <1>2
  <2>2. Seen("usb", d) /\ IsFor(e, d, "usb")
    BY <2>1
  <2>3. PICK s \in hardware.usb : s.vendor = d.vendor /\ s.product = d.product
    BY <2>2, SavedDevices
  <2>4. Matches(UsbAlias(s), Pattern(e)) /\ UsbAlias(s) \in Aliases(hardware)
    BY <2>2, <2>3, IsForMatches DEF Aliases
  <2> QED BY <2>4 DEF MatchedFiles, MatchedBy
<1> QED BY <1>1, <1>2 DEF Present

\* The Makefiles have the symbols of a driver under its file's name.
LEMMA TracedConfigs ==
    ASSUME NEW file, Traceable(file), NEW order
    PROVE  file.configs \subseteq GetConfigs(Module(file.stem), order)
<1> DEFINE module == Module(file.stem)
           own == {k \in DOMAIN ObjConfigs : k = module \/ <<module, k>> \in SameButHyphens}
<1>1. own # {} /\ \A k \in own : file.configs \subseteq ObjConfigs[k]
  BY DEF Traceable, OwnKeys
<1>2. \E k \in Key(module, order) : k \in own
  <2> HIDE DEF module
  <2>1. CASE module \in DOMAIN ObjConfigs
    BY <2>1 DEF Key
  <2>2. CASE module \notin DOMAIN ObjConfigs
    <3>1. PICK k \in DOMAIN ObjConfigs : <<module, k>> \in SameButHyphens
      BY <1>1, <2>2
    <3>2. Key(module, order) = {x \in DOMAIN ObjConfigs : <<module, x>> \in SameButHyphens}
      BY <2>2, <3>1 DEF Key
    <3> QED BY <3>1, <3>2
  <2> QED BY <2>1, <2>2
<1>3. PICK k \in Key(module, order) : k \in own
  BY <1>2
<1>4. ObjConfigs[k] \subseteq GetConfigs(module, order)
  BY <1>3 DEF GetConfigs
<1> QED BY <1>1, <1>3, <1>4

\* On every machine, every driver whose table names a device that was seen, and
\* whose symbol the Makefiles have under its name, is asked for in the .config
\* (s08_kernel.py 35-58, 114-120, matchers.py 109-212, 342-372).
THEOREM DriversAreFound == Spec => []DriversFound
<1>1. ScanInv /\ SavedInv /\ PlanInv => DriversFound
  <2> SUFFICES ASSUME ScanInv, SavedInv, PlanInv, at = "write",
                      NEW file \in Files, NEW p \in Present,
                      Seen(p[1], p[2]), Traceable(file),
                      NEW e \in Extracted(file), e.macro \notin Interface,
                      IsFor(e, p[2], p[1]),
                      NEW s \in file.configs
               PROVE  Asked(s)
    BY DEF DriversFound
  <2>1. file \in MatchedFiles(Aliases(hardware))
    BY SeenIsMatched DEF Saved
  <2>2. PICK order \in KeyOrders : GetConfigs(Module(file.stem), order) \subseteq symbols
    BY <2>1 DEF PlanInv, FileSymbols
  <2>3. s \in symbols
    BY <2>2, TracedConfigs
  <2> QED BY <2>3, ValueOfEntry DEF PlanInv
<1> QED BY <1>1, ScanAlways, PlanAlways, PTL
=============================================================================
