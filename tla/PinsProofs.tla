----------------------------- MODULE PinsProofs -----------------------------
(***************************************************************************)
(* The pin table for any sets of pins and any devices that may fail to     *)
(* open: the table names just the devices that are open, each for the      *)
(* pin and the use it was opened for, although a number that was closed is *)
(* given out again and Serial1, the interrupts and Wire keep copies of it. *)
(* The one exception is a device closed by a Serial1.end() without begin(). *)
(***************************************************************************)
EXTENDS Pins, TLAPS

\* The handles the drivers give out for a pin.
Of(p) == {<<p, 1>>, <<p, 2>>}

\* What a pin can have a handle for.
Uses(p) ==
    IF p = Serial1Pin THEN {"PIO_UART"}
    ELSE IF p = WirePin THEN {"PIO_I2C"}
    ELSE IF p \in Eint THEN {"PIO_EINT"}
    ELSE {"PIO_DIGITAL", "PIO_ANALOG", "PIO_PWM"}

----------------------------------------------------------------------------
(* The inductive invariant *)

PinType ==
    /\ table \in [Pins -> [handle : Handles \cup {NoHandle}, type : Types]]
    /\ DOMAIN dev = Handles
    /\ mux \in [Pins -> Types]
    /\ DOMAIN gExinterruptsPio = Eint
    /\ at \in [call : Calls, pin : Pins \cup {Invalid}]
    /\ at.call = "detachInterrupt" => at.pin \in Eint

NothingOpen(p) == \A h \in Of(p) : dev[h] = Closed

\* Serial1.end() may have closed the device of the pin through a stale number.
Lost(p) == closedOther /\ p # Serial1Pin

\* The open device of the pin is that in the table.
Exact(p) ==
    /\ table[p].handle \in Of(p) \cup {NoHandle}
    /\ table[p].handle # NoHandle => table[p].type \in Uses(p)
    /\ \A h \in Of(p) :
           \/ dev[h] = IF h = table[p].handle THEN [type |-> table[p].type, pin |-> p] ELSE Closed
           \/ Lost(p) /\ dev[h] = Closed

\* begin() has opened the UART and has yet to say so.
Beginning ==
    /\ table[Serial1Pin].type = "PIO_UART"
    /\ \A h \in Of(Serial1Pin) :
           dev[h] = IF h = uart_handle THEN [type |-> "PIO_UART", pin |-> Serial1Pin] ELSE Closed

Detaching(p) == at.call = "detachInterrupt" /\ at.pin = p

PinInv(p) ==
    IF Detaching(p) THEN NothingOpen(p)
    ELSE IF at.call = "begin" /\ p = Serial1Pin THEN Beginning
    ELSE Exact(p)

MuxInv(p) == p \notin {Serial1Pin, WirePin} /\ table[p].handle # NoHandle => mux[p] = table[p].type

\* The copies: while the table has a handle, it is the one that was copied.
CopyInv(p, copy) ==
    /\ copy \in Of(p) \cup {NoHandle}
    /\ table[p].handle # NoHandle => copy = table[p].handle

Inv ==
    /\ PinType
    /\ \A p \in Pins : PinInv(p) /\ MuxInv(p)
    /\ CopyInv(Serial1Pin, uart_handle)
    /\ \A p \in Eint : CopyInv(p, gExinterruptsPio[p].handle)

----------------------------------------------------------------------------
(* Handles, and what changePinType does *)

LEMMA HandleLemma ==
    /\ Pins \subseteq Nat /\ Serial1Pin \in Pins /\ WirePin \in Pins /\ {6, 7, 8, 9} \subseteq Pins
    /\ \A p \in Pins : Of(p) \subseteq Handles /\ NoHandle \notin Of(p)
    /\ \A p, q \in Pins : p # q => Of(p) \cap Of(q) = {}
    /\ \A h \in Handles : \E p \in Pins : h \in Of(p)
    /\ NoHandle \notin Handles
<1>1. Pins \subseteq Nat /\ Serial1Pin \in Pins /\ WirePin \in Pins /\ {6, 7, 8, 9} \subseteq Pins
  BY PinsAssumption DEF Pins, Serial1Pin, WirePin
<1>2. ASSUME NEW p \in Pins PROVE Of(p) \subseteq Handles /\ NoHandle \notin Of(p)
  BY <1>1 DEF Of, Handles, NoHandle, Invalid
<1>3. ASSUME NEW p \in Pins, NEW q \in Pins, p # q PROVE Of(p) \cap Of(q) = {}
  BY <1>3 DEF Of
<1>4. ASSUME NEW h \in Handles PROVE \E p \in Pins : h \in Of(p)
  <2>1. PICK p \in Pins, n \in {1, 2} : h = <<p, n>>
    BY DEF Handles
  <2> QED  BY <2>1 DEF Of
<1>5. NoHandle \notin Handles
  BY <1>1 DEF Handles, NoHandle, Invalid
<1> QED  BY <1>1, <1>2, <1>3, <1>4, <1>5

\* A number that is free is given out, if one is.
LEMMA OpenedLemma ==
    ASSUME NEW devices, NEW p, NEW t, devices[<<p, 1>>] = Closed,
           NEW h \in Opened(devices, p, t)
    PROVE  h = NoHandle \/ h = <<p, 1>>
<1> DEFINE free == {n \in {1, 2} : devices[<<p, n>>] = Closed}
<1>1. 1 \in free /\ \A n \in free : 1 =< n
  OBVIOUS
<1>2. Min(free) \in free /\ \A n \in free : Min(free) =< n
  BY <1>1 DEF Min
<1>3. Min(free) = 1
  BY <1>1, <1>2
<1> QED  BY <1>3 DEF Opened

\* Who changes how a pin is used closes its device, and those of the pins that are
\* switched with it.
LEMMA SwitchLemma ==
    ASSUME PinType, \A q \in Pins : Exact(q) /\ MuxInv(q),
           NEW p \in Pins, NEW t \in Uses(p), ~Recorded(p, t)
    PROVE  LET s == Switch(p, t)
           IN /\ \A h \in Of(p) : s.dev[h] = Closed
              /\ DOMAIN s.dev = Handles
              /\ s.table \in [Pins -> [handle : Handles \cup {NoHandle}, type : Types]]
              /\ s.table[p] = [handle |-> table[p].handle, type |-> t]
              /\ s.mux \in [Pins -> Types]
              /\ p \notin {Serial1Pin, WirePin} => s.mux[p] = t
              /\ p \in {Serial1Pin, WirePin} => table[p].handle = NoHandle
              /\ \A q \in Pins \ {p} :
                    \/ /\ \A h \in Of(q) : s.dev[h] = dev[h]
                       /\ s.table[q] = table[q] /\ s.mux[q] = mux[q]
                    \/ /\ \A h \in Of(q) : s.dev[h] = Closed
                       /\ s.table[q].handle = NoHandle
<1> DEFINE s == Switch(p, t)
           group == Switched(p, t)
           shut == {table[q].handle : q \in group}
<1>1. t \in Types
  BY DEF Uses, Types
<1>2. group \subseteq Pins /\ (p \notin {Serial1Pin, WirePin} => group = {p})
  BY HandleLemma DEF Switched, Uses
<1>3. p \in {Serial1Pin, WirePin} => table[p].handle = NoHandle /\ p \notin group
  <2>1. CASE p = Serial1Pin
    <3>1. t = "PIO_UART" /\ Uses(p) = {"PIO_UART"}
      BY <2>1 DEF Uses
    <3>2. table[p].handle = NoHandle
      BY <3>1 DEF Exact, Recorded
    <3>3. group = {8, 9}
      BY <3>1 DEF Switched
    <3> QED  BY <2>1, <3>2, <3>3 DEF Serial1Pin
  <2>2. CASE p = WirePin
    <3>1. t = "PIO_I2C" /\ Uses(p) = {"PIO_I2C"}
      BY <2>2 DEF Uses, Serial1Pin, WirePin
    <3>2. table[p].handle = NoHandle
      BY <3>1 DEF Exact, Recorded
    <3>3. group = {6, 7}
      BY <3>1 DEF Switched
    <3> QED  BY <2>2, <3>2, <3>3 DEF WirePin
  <2> QED  BY <2>1, <2>2
<1>4. /\ s.dev = [h \in Handles |-> IF h \in shut THEN Closed ELSE dev[h]]
      /\ s.table = [q \in Pins |->
            [handle |-> IF q \in group /\ q # p THEN NoHandle ELSE table[q].handle,
             type |-> IF q = p THEN t ELSE table[q].type]]
      /\ s.mux = [q \in Pins |-> IF q \in group THEN t ELSE mux[q]]
  BY DEF Switch
<1>5. s.table[p] = [handle |-> table[p].handle, type |-> t]
  BY <1>4
<1>6. s.table \in [Pins -> [handle : Handles \cup {NoHandle}, type : Types]] /\ s.mux \in [Pins -> Types]
  BY <1>1, <1>4 DEF PinType
<1>7. ASSUME NEW q \in Pins, NEW h \in Of(q), q \in group \/ table[q].handle = NoHandle
      PROVE  s.dev[h] = Closed
  <2>1. h \in Handles
    BY HandleLemma
  <2>2. CASE h = table[q].handle
    BY <1>4, <1>7, <2>1, <2>2, HandleLemma
  <2>3. CASE h # table[q].handle
    <3>1. Exact(q)
      OBVIOUS
    <3>2. dev[h] = Closed
      BY <2>3, <3>1 DEF Exact
    <3>3. s.dev[h] = IF h \in shut THEN Closed ELSE dev[h]
      BY <1>4, <2>1
    <3> QED  BY <3>2, <3>3
  <2> QED  BY <2>2, <2>3
<1>8. ASSUME NEW q \in Pins \ group, NEW h \in Of(q) PROVE s.dev[h] = dev[h]
  <2>1. h \in Handles
    BY HandleLemma
  <2>2. ASSUME NEW r \in group PROVE h # table[r].handle
    <3>1. Exact(r) /\ r \in Pins /\ r # q
      BY <1>2
    <3>2. table[r].handle \in Of(r) \cup {NoHandle}
      BY <3>1 DEF Exact
    <3> QED  BY <3>1, <3>2, HandleLemma
  <2>3. h \notin shut
    BY <2>2
  <2> QED  BY <1>4, <2>1, <2>3
<1>9. ASSUME NEW q \in Pins \ {p}
      PROVE  \/ /\ \A h \in Of(q) : s.dev[h] = dev[h]
                /\ s.table[q] = table[q] /\ s.mux[q] = mux[q]
             \/ /\ \A h \in Of(q) : s.dev[h] = Closed
                /\ s.table[q].handle = NoHandle
  <2>1. CASE q \in group
    <3>1. s.table[q].handle = NoHandle
      BY <1>4, <2>1
    <3>2. \A h \in Of(q) : s.dev[h] = Closed
      BY <1>7, <2>1
    <3> QED  BY <3>1, <3>2
  <2>2. CASE q \notin group
    <3>1. s.table[q] = table[q] /\ s.mux[q] = mux[q]
      BY <1>4, <2>2 DEF PinType
    <3> QED  BY <1>8, <2>2, <3>1
  <2> QED  BY <2>1, <2>2
<1>10. \A h \in Of(p) : s.dev[h] = Closed
  BY <1>2, <1>3, <1>7
<1>11. DOMAIN s.dev = Handles /\ (p \notin {Serial1Pin, WirePin} => s.mux[p] = t)
  BY <1>2, <1>4
<1> QED  BY <1>3, <1>5, <1>6, <1>9, <1>10, <1>11

\* Opening it then leaves the table exact.
LEMMA AcquireLemma ==
    ASSUME PinType, \A q \in Pins : Exact(q) /\ MuxInv(q),
           NEW p \in Pins \ {Serial1Pin}, NEW t \in Uses(p), NEW h, Acquire(p, t, h),
           UNCHANGED closedOther
    PROVE  /\ table' \in [Pins -> [handle : Handles \cup {NoHandle}, type : Types]]
           /\ DOMAIN dev' = Handles /\ mux' \in [Pins -> Types]
           /\ \A q \in Pins : Exact(q)' /\ MuxInv(q)'
           /\ h \in Of(p) \cup {NoHandle} /\ table'[p].handle = h
           /\ \A q \in Pins \ {p} : table'[q].handle \in {table[q].handle, NoHandle}
<1>1. CASE Recorded(p, t) /\ h = table[p].handle /\ UNCHANGED record
  <2>1. UNCHANGED <<table, dev, mux>>
    BY <1>1 DEF record
  <2>2. \A q \in Pins : Exact(q)' /\ MuxInv(q)'
    BY <2>1 DEF Exact, Lost, MuxInv
  <2>3. h \in Of(p) \cup {NoHandle}
    BY <1>1 DEF Exact
  <2> QED  BY <1>1, <2>1, <2>2, <2>3 DEF PinType
<1>2. CASE ~Recorded(p, t)
  <2> DEFINE s == Switch(p, t)
  <2>1. /\ h \in Opened(s.dev, p, t)
        /\ dev' = Using(s.dev, h, p, t)
        /\ table' = [s.table EXCEPT ![p].handle = h]
        /\ mux' = s.mux
    BY <1>2 DEF Acquire
  <2>2. /\ \A g \in Of(p) : s.dev[g] = Closed
        /\ DOMAIN s.dev = Handles
        /\ s.table \in [Pins -> [handle : Handles \cup {NoHandle}, type : Types]]
        /\ s.table[p] = [handle |-> table[p].handle, type |-> t]
        /\ s.mux \in [Pins -> Types]
        /\ p \notin {Serial1Pin, WirePin} => s.mux[p] = t
        /\ \A q \in Pins \ {p} :
              \/ /\ \A g \in Of(q) : s.dev[g] = dev[g]
                 /\ s.table[q] = table[q] /\ s.mux[q] = mux[q]
              \/ /\ \A g \in Of(q) : s.dev[g] = Closed
                 /\ s.table[q].handle = NoHandle
    BY <1>2, SwitchLemma
  <2> HIDE DEF s
  <2>3. h = NoHandle \/ h = <<p, 1>>
    BY <2>1, <2>2, OpenedLemma DEF Of
  <2>4. h \in Of(p) \cup {NoHandle} /\ h \in Handles \cup {NoHandle}
    <3>1. h \in Of(p) \cup {NoHandle}
      BY <2>3 DEF Of
    <3> QED  BY <3>1, HandleLemma
  <2>5. /\ table'[p] = [handle |-> h, type |-> t]
        /\ table' \in [Pins -> [handle : Handles \cup {NoHandle}, type : Types]]
        /\ \A q \in Pins \ {p} : table'[q] = s.table[q]
    BY <2>1, <2>2, <2>4
  <2>6. /\ DOMAIN dev' = Handles
        /\ \A g \in Handles : dev'[g] = IF g = h THEN [type |-> t, pin |-> p] ELSE s.dev[g]
    BY <2>1, <2>2, <2>4, HandleLemma DEF Using
  <2>7. Exact(p)' /\ MuxInv(p)'
    <3>1. \A g \in Of(p) : dev'[g] = IF g = h THEN [type |-> t, pin |-> p] ELSE Closed
      BY <2>2, <2>6, HandleLemma
    <3> QED  BY <2>1, <2>2, <2>4, <2>5, <3>1 DEF Exact, MuxInv
  <2>8. ASSUME NEW q \in Pins \ {p}
        PROVE  Exact(q)' /\ MuxInv(q)' /\ table'[q].handle \in {table[q].handle, NoHandle}
    <3>1. \A g \in Of(q) : g # h /\ g \in Handles /\ g # NoHandle
      BY <2>4, HandleLemma
    <3>2. \A g \in Of(q) : dev'[g] = s.dev[g]
      BY <2>6, <3>1
    <3>3. table'[q] = s.table[q] /\ mux'[q] = s.mux[q]
      BY <2>1, <2>5
    <3>4. CASE /\ \A g \in Of(q) : s.dev[g] = dev[g]
               /\ s.table[q] = table[q] /\ s.mux[q] = mux[q]
      <4>1. Exact(q) /\ MuxInv(q)
        OBVIOUS
      <4> QED  BY <3>2, <3>3, <3>4, <4>1 DEF Exact, Lost, MuxInv
    <3>5. CASE (\A g \in Of(q) : s.dev[g] = Closed) /\ s.table[q].handle = NoHandle
      BY <3>1, <3>2, <3>3, <3>5 DEF Exact, MuxInv
    <3> QED  BY <2>2, <3>4, <3>5
  <2> QED  BY <2>1, <2>2, <2>4, <2>5, <2>6, <2>7, <2>8
<1> QED  BY <1>1, <1>2 DEF Acquire

----------------------------------------------------------------------------
(* The steps of the sketch *)

LEMMA LoopLemma ==
    ASSUME Inv, at = loop
    PROVE  \A q \in Pins : Exact(q) /\ MuxInv(q)
  BY DEF Inv, PinInv, Detaching, loop

\* The sketch is where no function has left a device half opened or half closed.
LEMMA ExactLemma ==
    ASSUME at'.call \notin {"detachInterrupt", "begin"}, \A q \in Pins : Exact(q)'
    PROVE  \A q \in Pins : PinInv(q)'
  BY DEF PinInv, Detaching

LEMMA OpensStep ==
    ASSUME Inv, at = loop, NEW p \in Pins \ {Serial1Pin}, NEW t \in Uses(p), NEW h,
           Acquire(p, t, h), UNCHANGED <<uart_handle, closedOther>>, DOMAIN gExinterruptsPio' = Eint,
           \A q \in Eint : gExinterruptsPio'[q].handle =
                              IF q = p /\ h # NoHandle THEN h ELSE gExinterruptsPio[q].handle,
           at' \in [call : Calls, pin : Pins \cup {Invalid}],
           at'.call \notin {"detachInterrupt", "begin"}
    PROVE  Inv'
<1>1. /\ table' \in [Pins -> [handle : Handles \cup {NoHandle}, type : Types]]
      /\ DOMAIN dev' = Handles /\ mux' \in [Pins -> Types]
      /\ \A q \in Pins : Exact(q)' /\ MuxInv(q)'
      /\ h \in Of(p) \cup {NoHandle} /\ table'[p].handle = h
      /\ \A q \in Pins \ {p} : table'[q].handle \in {table[q].handle, NoHandle}
  BY LoopLemma, AcquireLemma DEF Inv
<1>2. \A q \in Pins : PinInv(q)'
  BY <1>1, ExactLemma
<1>3. CopyInv(Serial1Pin, uart_handle)'
  BY <1>1, HandleLemma DEF Inv, CopyInv
<1>4. ASSUME NEW q \in Eint PROVE CopyInv(q, gExinterruptsPio[q].handle)'
  <2>1. CopyInv(q, gExinterruptsPio[q].handle) /\ q \in Pins
    BY DEF Inv, Pins
  <2>2. CASE q = p
    BY <1>1, <2>1, <2>2 DEF CopyInv
  <2>3. CASE q # p
    BY <1>1, <2>1, <2>3 DEF CopyInv
  <2> QED  BY <2>2, <2>3
<1> QED  BY <1>1, <1>2, <1>3, <1>4 DEF Inv, PinType

\* A use of a pin by the sketch is one the pin has.
LEMMA UsesLemma ==
    /\ \A p \in Gpio : p \in Pins \ {Serial1Pin} /\ p \notin Eint /\ "PIO_DIGITAL" \in Uses(p)
    /\ \A p \in Pwm : p \in Pins \ {Serial1Pin} /\ p \notin Eint /\ "PIO_PWM" \in Uses(p)
    /\ \A p \in Analog : p \in Pins \ {Serial1Pin} /\ p \notin Eint /\ "PIO_ANALOG" \in Uses(p)
    /\ \A p \in Eint : p \in Pins \ {Serial1Pin} /\ "PIO_EINT" \in Uses(p)
    /\ WirePin \in Pins \ {Serial1Pin} /\ WirePin \notin Eint /\ "PIO_I2C" \in Uses(WirePin)
<1>1. WirePin \in Pins \ {Serial1Pin} /\ WirePin \notin Eint /\ "PIO_I2C" \in Uses(WirePin)
  BY PinsAssumption, HandleLemma DEF Uses, WirePin, Serial1Pin
<1>2. \A p \in Gpio \cup Pwm \cup Analog \cup Eint : p \in Pins \ {Serial1Pin, WirePin}
  BY PinsAssumption DEF Pins
<1> QED  BY <1>1, <1>2, PinsAssumption DEF Uses

LEMMA OpenersStep ==
    ASSUME Inv,
           \/ \E p \in Gpio : pinMode(p)
           \/ \E p \in Pwm : analogWrite(p)
           \/ \E p \in Analog : analogRead(p)
           \/ \E p \in Eint : attachInterrupt(p)
           \/ WireBegin
    PROVE  Inv'
<1>1. DOMAIN gExinterruptsPio = Eint
  BY DEF Inv, PinType
<1>2. ASSUME NEW p \in Gpio, pinMode(p) PROVE Inv'
  <2>1. PICK h \in MayOpen : Acquire(p, "PIO_DIGITAL", h)
    BY <1>2 DEF pinMode
  <2>2. at = loop /\ at' = [call |-> "loop", pin |-> Invalid] /\ UNCHANGED <<gExinterruptsPio, uart_handle, closedOther>>
    BY <1>2 DEF pinMode, Call, history
  <2>3. at' \in [call : Calls, pin : Pins \cup {Invalid}] /\ at'.call = "loop"
    BY <2>2 DEF Calls
  <2> QED  BY <1>1, <2>1, <2>2, <2>3, UsesLemma, OpensStep
<1>3. ASSUME NEW p \in Pwm, analogWrite(p) PROVE Inv'
  <2>1. PICK h \in MayOpen : Acquire(p, "PIO_PWM", h)
    BY <1>3 DEF analogWrite
  <2>2. at = loop /\ at' = [call |-> "loop", pin |-> Invalid] /\ UNCHANGED <<gExinterruptsPio, uart_handle, closedOther>>
    BY <1>3 DEF analogWrite, Call, history
  <2>3. at' \in [call : Calls, pin : Pins \cup {Invalid}] /\ at'.call = "loop"
    BY <2>2 DEF Calls
  <2> QED  BY <1>1, <2>1, <2>2, <2>3, UsesLemma, OpensStep
<1>4. ASSUME NEW p \in Analog, analogRead(p) PROVE Inv'
  <2>1. PICK h \in MayOpen : Acquire(p, "PIO_ANALOG", h)
    BY <1>4 DEF analogRead
  <2>2. at = loop /\ at' = [call |-> "analogRead", pin |-> p] /\ UNCHANGED <<gExinterruptsPio, uart_handle, closedOther>>
    BY <1>4 DEF analogRead, Call
  <2>3. at' \in [call : Calls, pin : Pins \cup {Invalid}] /\ at'.call = "analogRead"
    BY <2>2, UsesLemma DEF Calls
  <2> QED  BY <1>1, <2>1, <2>2, <2>3, UsesLemma, OpensStep
<1>5. ASSUME NEW p \in Eint, attachInterrupt(p) PROVE Inv'
  <2>1. PICK h \in MayOpen :
            /\ Acquire(p, "PIO_EINT", h)
            /\ gExinterruptsPio' =
                IF h = NoHandle THEN gExinterruptsPio
                               ELSE [gExinterruptsPio EXCEPT ![p] = [handle |-> h, cb |-> "cb"]]
    BY <1>5 DEF attachInterrupt
  <2>2. at = loop /\ at' = [call |-> "loop", pin |-> Invalid] /\ UNCHANGED <<uart_handle, closedOther>>
    BY <1>5 DEF attachInterrupt, Call, history
  <2>3. at' \in [call : Calls, pin : Pins \cup {Invalid}] /\ at'.call = "loop"
    BY <2>2 DEF Calls
  <2>4. /\ DOMAIN gExinterruptsPio' = Eint
        /\ \A q \in Eint : gExinterruptsPio'[q].handle =
                                IF q = p /\ h # NoHandle THEN h ELSE gExinterruptsPio[q].handle
    BY <1>1, <2>1
  <2> QED  BY <1>1, <2>1, <2>2, <2>3, <2>4, UsesLemma, OpensStep
<1>6. CASE WireBegin
  <2>1. PICK h \in MayOpen : Acquire(WirePin, "PIO_I2C", h)
    BY <1>6 DEF WireBegin
  <2>2. at = loop /\ at' = [call |-> "loop", pin |-> Invalid] /\ UNCHANGED <<gExinterruptsPio, uart_handle, closedOther>>
    BY <1>6 DEF WireBegin, Call, history
  <2>3. at' \in [call : Calls, pin : Pins \cup {Invalid}] /\ at'.call = "loop"
    BY <2>2 DEF Calls
  <2> QED  BY <1>1, <2>1, <2>2, <2>3, UsesLemma, OpensStep
<1> QED  BY <1>2, <1>3, <1>4, <1>5, <1>6

\* What is closed through a copy is the device of the pin that is open, if any.
LEMMA ShutLemma ==
    ASSUME PinType, NEW p \in Pins, Exact(p), NEW h, CopyInv(p, h), Shut(h)
    PROVE  /\ NothingOpen(p)' /\ DOMAIN dev' = Handles
           /\ \A q \in Pins \ {p} : \A g \in Of(q) : dev'[g] = dev[g]
<1>1. dev' = IF h = NoHandle THEN dev ELSE [dev EXCEPT ![h] = Closed]
  BY DEF Shut
<1>2. h \in Of(p) \cup {NoHandle}
  BY DEF CopyInv
<1>3. ASSUME NEW g \in Of(p) PROVE g \in Handles /\ g # NoHandle /\ (g # h => dev[g] = Closed)
  <2>1. g \in Handles /\ g # NoHandle
    BY HandleLemma
  <2>2. g # h => g # table[p].handle
    BY <2>1 DEF CopyInv
  <2> QED  BY <2>1, <2>2 DEF Exact
<1>4. NothingOpen(p)' /\ DOMAIN dev' = Handles
  BY <1>1, <1>3 DEF NothingOpen, PinType
<1>5. ASSUME NEW q \in Pins \ {p}, NEW g \in Of(q) PROVE dev'[g] = dev[g]
  <2>1. g \in Handles /\ g # h
    BY <1>2, HandleLemma
  <2> QED  BY <1>1, <2>1 DEF PinType
<1> QED  BY <1>4, <1>5

LEMMA DetachStep ==
    ASSUME Inv, NEW p \in Eint, detachInterrupt(p)
    PROVE  Inv'
<1>1. /\ at = loop /\ at' = [call |-> "detachInterrupt", pin |-> p]
      /\ Shut(gExinterruptsPio[p].handle)
      /\ UNCHANGED <<table, mux, gExinterruptsPio, uart_handle, closedOther>>
  BY DEF detachInterrupt, Call, history
<1>2. p \in Pins /\ (\A q \in Pins : Exact(q) /\ MuxInv(q))
  BY LoopLemma, <1>1, UsesLemma
<1>3. CopyInv(p, gExinterruptsPio[p].handle) /\ PinType
  BY DEF Inv
<1>4. /\ NothingOpen(p)' /\ DOMAIN dev' = Handles
      /\ \A q \in Pins \ {p} : \A g \in Of(q) : dev'[g] = dev[g]
  BY <1>1, <1>2, <1>3, ShutLemma
<1>5. ASSUME NEW q \in Pins \ {p} PROVE Exact(q)'
  BY <1>1, <1>2, <1>4 DEF Exact, Lost
<1>6. \A q \in Pins : PinInv(q)'
  BY <1>1, <1>4, <1>5 DEF PinInv, Detaching
<1>7. PinType'
  BY <1>1, <1>2, <1>4 DEF Inv, PinType, Calls
<1> QED  BY <1>1, <1>6, <1>7 DEF Inv, MuxInv, CopyInv

\* The pin's record is cleared; nothing of it is open.
LEMMA ClearLemma ==
    ASSUME Inv, NEW p \in Pins, NothingOpen(p)', NEW t \in Types,
           closedOther => closedOther',
           \A q \in Pins \ {p} :
              /\ Exact(q)
              /\ \A g \in Of(q) : dev'[g] = dev[g] \/ (Lost(q)' /\ dev'[g] = Closed),
           table' = [table EXCEPT ![p] = [handle |-> NoHandle, type |-> t]],
           DOMAIN dev' = Handles, UNCHANGED mux, at' = loop
    PROVE  /\ table' \in [Pins -> [handle : Handles \cup {NoHandle}, type : Types]]
           /\ at' \in [call : Calls, pin : Pins \cup {Invalid}]
           /\ \A q \in Pins : PinInv(q)' /\ MuxInv(q)'
           /\ \A q \in Pins : table'[q].handle \in {table[q].handle, NoHandle}
<1>1. /\ table' \in [Pins -> [handle : Handles \cup {NoHandle}, type : Types]]
      /\ table'[p] = [handle |-> NoHandle, type |-> t]
      /\ \A q \in Pins \ {p} : table'[q] = table[q]
  BY DEF Inv, PinType
<1>2. Exact(p)'
  BY <1>1, HandleLemma DEF Exact, NothingOpen
<1>3. \A q \in Pins \ {p} : Exact(q)'
  BY <1>1 DEF Exact, Lost
<1>4. at'.call = "loop" /\ at' \in [call : Calls, pin : Pins \cup {Invalid}]
  BY DEF loop, Calls
<1>5. \A q \in Pins : PinInv(q)'
  BY <1>2, <1>3, <1>4, ExactLemma
<1>6. \A q \in Pins : MuxInv(q)'
  BY <1>1 DEF Inv, MuxInv
<1> QED  BY <1>1, <1>4, <1>5, <1>6

LEMMA DetachedStep ==
    ASSUME Inv, Detached
    PROVE  Inv'
<1> PICK p \in Eint : at.pin = p
  BY DEF Detached, Inv, PinType
<1>1. /\ at.call = "detachInterrupt" /\ at.pin = p /\ p \in Pins /\ p # Serial1Pin
      /\ gExinterruptsPio' = [gExinterruptsPio EXCEPT ![p] = [handle |-> NoHandle, cb |-> "NULL"]]
      /\ table' = [table EXCEPT ![p] = [handle |-> NoHandle, type |-> "PIO_DIGITAL"]]
      /\ at' = loop /\ UNCHANGED <<dev, mux, uart_handle, closedOther>>
  BY UsesLemma DEF Detached, Return, history, Inv, PinType
<1>2. NothingOpen(p)'
  BY <1>1 DEF Inv, PinInv, Detaching, NothingOpen
<1>3. \A q \in Pins \ {p} : Exact(q)
  BY <1>1 DEF Inv, PinInv, Detaching
<1>4. /\ table' \in [Pins -> [handle : Handles \cup {NoHandle}, type : Types]]
      /\ at' \in [call : Calls, pin : Pins \cup {Invalid}]
      /\ \A q \in Pins : PinInv(q)' /\ MuxInv(q)'
      /\ \A q \in Pins : table'[q].handle \in {table[q].handle, NoHandle}
  BY <1>1, <1>2, <1>3, ClearLemma DEF Inv, PinType, Types
<1>5. CopyInv(Serial1Pin, uart_handle)'
  BY <1>1, <1>4, HandleLemma DEF Inv, CopyInv
<1>6. ASSUME NEW q \in Eint PROVE CopyInv(q, gExinterruptsPio[q].handle)'
  <2>1. q \in Pins /\ CopyInv(q, gExinterruptsPio[q].handle)
    BY UsesLemma DEF Inv
  <2>2. table'[p].handle = NoHandle
    BY <1>1 DEF Inv, PinType
  <2>3. CASE q = p
    BY <1>1, <2>2, <2>3 DEF CopyInv, Inv, PinType
  <2>4. CASE q # p
    BY <1>1, <1>4, <2>1, <2>4 DEF CopyInv, Inv, PinType
  <2> QED  BY <2>3, <2>4
<1>7. at'.call = "loop"
  BY <1>1 DEF loop
<1> QED  BY <1>1, <1>4, <1>5, <1>6, <1>7 DEF Inv, PinType

LEMMA BeginStep ==
    ASSUME Inv, begin
    PROVE  Inv'
<1>1. /\ at = loop /\ at' = [call |-> "begin", pin |-> Serial1Pin]
      /\ UNCHANGED <<gExinterruptsPio, closedOther>>
      /\ \A q \in Pins : Exact(q) /\ MuxInv(q)
  BY LoopLemma DEF begin, Call, history
<1>2. at' \in [call : Calls, pin : Pins \cup {Invalid}] /\ at'.call = "begin"
  BY <1>1, HandleLemma DEF Calls
<1>3. CASE /\ Recorded(Serial1Pin, "PIO_UART")
           /\ uart_handle' = table[Serial1Pin].handle /\ UNCHANGED record
  <2>1. UNCHANGED <<table, dev, mux>>
    BY <1>3 DEF record
  <2>2. table[Serial1Pin].handle \in Of(Serial1Pin) /\ table[Serial1Pin].type = "PIO_UART"
    BY <1>1, <1>3, HandleLemma DEF Recorded, Exact
  <2>3. Beginning'
    BY <1>1, <1>3, <2>1, <2>2, HandleLemma DEF Beginning, Exact, Lost
  <2>4. \A q \in Pins \ {Serial1Pin} : Exact(q)'
    BY <1>1, <2>1 DEF Exact, Lost
  <2>5. \A q \in Pins : PinInv(q)' /\ MuxInv(q)'
    BY <1>1, <1>2, <2>1, <2>3, <2>4 DEF PinInv, Detaching, MuxInv
  <2>6. CopyInv(Serial1Pin, uart_handle)'
    BY <1>3, <2>1, <2>2 DEF CopyInv
  <2> QED  BY <1>1, <1>2, <2>1, <2>5, <2>6 DEF Inv, PinType, CopyInv
<1>4. CASE ~Recorded(Serial1Pin, "PIO_UART")
  <2> DEFINE s == Switch(Serial1Pin, "PIO_UART")
             h == uart_handle'
  <2>1. /\ h \in Opened(s.dev, Serial1Pin, "PIO_UART")
        /\ dev' = Using(s.dev, h, Serial1Pin, "PIO_UART")
        /\ table' = s.table /\ mux' = s.mux
    BY <1>4 DEF begin
  <2>2. /\ \A g \in Of(Serial1Pin) : s.dev[g] = Closed
        /\ DOMAIN s.dev = Handles
        /\ s.table \in [Pins -> [handle : Handles \cup {NoHandle}, type : Types]]
        /\ s.table[Serial1Pin] = [handle |-> NoHandle, type |-> "PIO_UART"]
        /\ s.mux \in [Pins -> Types]
        /\ \A q \in Pins \ {Serial1Pin} :
              \/ /\ \A g \in Of(q) : s.dev[g] = dev[g]
                 /\ s.table[q] = table[q] /\ s.mux[q] = mux[q]
              \/ /\ \A g \in Of(q) : s.dev[g] = Closed
                 /\ s.table[q].handle = NoHandle
    <3>1. "PIO_UART" \in Uses(Serial1Pin) /\ Serial1Pin \in Pins /\ PinType
      BY HandleLemma DEF Uses, Inv
    <3> HIDE DEF s
    <3>2. /\ \A g \in Of(Serial1Pin) : s.dev[g] = Closed
          /\ DOMAIN s.dev = Handles
          /\ s.table \in [Pins -> [handle : Handles \cup {NoHandle}, type : Types]]
          /\ s.table[Serial1Pin] = [handle |-> table[Serial1Pin].handle, type |-> "PIO_UART"]
          /\ s.mux \in [Pins -> Types]
          /\ Serial1Pin \in {Serial1Pin, WirePin} => table[Serial1Pin].handle = NoHandle
          /\ \A q \in Pins \ {Serial1Pin} :
                \/ /\ \A g \in Of(q) : s.dev[g] = dev[g]
                   /\ s.table[q] = table[q] /\ s.mux[q] = mux[q]
                \/ /\ \A g \in Of(q) : s.dev[g] = Closed
                   /\ s.table[q].handle = NoHandle
      BY <1>1, <1>4, <3>1, SwitchLemma DEF s
    <3> QED  BY <3>2
  <2> HIDE DEF s
  <2>3. h = NoHandle \/ h = <<Serial1Pin, 1>>
    BY <2>1, <2>2, OpenedLemma DEF Of
  <2>4. h \in Of(Serial1Pin) \cup {NoHandle}
    BY <2>3 DEF Of
  <2>5. h \in Handles \cup {NoHandle}
    BY <2>4, HandleLemma
  <2>6. /\ DOMAIN dev' = Handles
        /\ \A g \in Handles : dev'[g] = IF g = h THEN [type |-> "PIO_UART", pin |-> Serial1Pin]
                                        ELSE s.dev[g]
    BY <2>1, <2>2, <2>5, HandleLemma DEF Using
  <2>7. Beginning'
    <3>1. \A g \in Of(Serial1Pin) :
              dev'[g] = IF g = h THEN [type |-> "PIO_UART", pin |-> Serial1Pin] ELSE Closed
      BY <2>2, <2>6, HandleLemma
    <3>2. table'[Serial1Pin].type = "PIO_UART"
      BY <2>1, <2>2
    <3> QED  BY <3>1, <3>2 DEF Beginning
  <2>8. ASSUME NEW q \in Pins \ {Serial1Pin}
        PROVE  Exact(q)' /\ MuxInv(q)' /\ table'[q].handle \in {table[q].handle, NoHandle}
    <3>1. \A g \in Of(q) : g # h /\ g \in Handles /\ g # NoHandle
      BY <2>4, HandleLemma
    <3>2. \A g \in Of(q) : dev'[g] = s.dev[g]
      BY <2>6, <3>1
    <3>3. CASE /\ \A g \in Of(q) : s.dev[g] = dev[g]
               /\ s.table[q] = table[q] /\ s.mux[q] = mux[q]
      <4>1. Exact(q) /\ MuxInv(q)
        BY <1>1
      <4> QED  BY <1>1, <2>1, <3>2, <3>3, <4>1 DEF Exact, Lost, MuxInv
    <3>4. CASE (\A g \in Of(q) : s.dev[g] = Closed) /\ s.table[q].handle = NoHandle
      BY <2>1, <3>1, <3>2, <3>4 DEF Exact, MuxInv
    <3> QED  BY <2>2, <3>3, <3>4
  <2>9. \A q \in Pins : PinInv(q)' /\ MuxInv(q)'
    BY <1>2, <2>7, <2>8 DEF PinInv, Detaching, MuxInv
  <2>10. CopyInv(Serial1Pin, uart_handle)'
    BY <2>1, <2>2, <2>4 DEF CopyInv
  <2>11. ASSUME NEW q \in Eint PROVE CopyInv(q, gExinterruptsPio[q].handle)'
    <3>1. q \in Pins \ {Serial1Pin} /\ CopyInv(q, gExinterruptsPio[q].handle)
      BY UsesLemma DEF Inv
    <3> QED  BY <1>1, <2>8, <3>1 DEF CopyInv
  <2>12. PinType'
    BY <1>1, <1>2, <2>1, <2>2, <2>6 DEF Inv, PinType
  <2> QED  BY <2>9, <2>10, <2>11, <2>12 DEF Inv
<1> QED  BY <1>3, <1>4 DEF begin

LEMMA BegunStep ==
    ASSUME Inv, Begun
    PROVE  Inv'
<1>1. /\ at.call = "begin" /\ at' = loop
      /\ table' = IF uart_handle = NoHandle THEN table
                                            ELSE [table EXCEPT ![Serial1Pin].handle = uart_handle]
      /\ UNCHANGED <<dev, mux, gExinterruptsPio, uart_handle, closedOther>>
  BY DEF Begun, Return, history
<1>2. at' \in [call : Calls, pin : Pins \cup {Invalid}] /\ at'.call = "loop"
  BY <1>1 DEF loop, Calls
<1>3. Beginning /\ CopyInv(Serial1Pin, uart_handle) /\ Serial1Pin \in Pins
  BY <1>1, HandleLemma DEF Inv, PinInv, Detaching
<1>4. uart_handle \in Of(Serial1Pin) \cup {NoHandle} /\ uart_handle \in Handles \cup {NoHandle}
  BY <1>3, HandleLemma DEF CopyInv
<1>5. /\ table' \in [Pins -> [handle : Handles \cup {NoHandle}, type : Types]]
      /\ \A q \in Pins \ {Serial1Pin} : table'[q] = table[q]
      /\ table'[Serial1Pin].handle = uart_handle /\ table'[Serial1Pin].type = "PIO_UART"
  BY <1>1, <1>3, <1>4 DEF Inv, PinType, Beginning, CopyInv
<1>6. Exact(Serial1Pin)'
  <2>1. "PIO_UART" \in Uses(Serial1Pin)
    BY DEF Uses
  <2> QED  BY <1>1, <1>3, <1>4, <1>5, <2>1 DEF Exact, Beginning
<1>7. ASSUME NEW q \in Pins \ {Serial1Pin} PROVE Exact(q)'
  <2>1. Exact(q)
    BY <1>1 DEF Inv, PinInv, Detaching
  <2> QED  BY <1>1, <1>5, <2>1 DEF Exact, Lost
<1>8. \A q \in Pins : PinInv(q)'
  BY <1>2, <1>6, <1>7, ExactLemma
<1>9. \A q \in Pins : MuxInv(q)'
  BY <1>1, <1>5 DEF Inv, MuxInv
<1>10. CopyInv(Serial1Pin, uart_handle)'
  BY <1>1, <1>4, <1>5 DEF CopyInv
<1>11. \A q \in Eint : CopyInv(q, gExinterruptsPio[q].handle)'
  BY <1>1, <1>5, UsesLemma DEF Inv, CopyInv
<1> QED  BY <1>1, <1>2, <1>5, <1>8, <1>9, <1>10, <1>11 DEF Inv, PinType

\* The device closed is that of Serial1, if it is open, or else none or one of another pin.
LEMMA EndedShutLemma ==
    ASSUME PinType, \A q \in Pins : Exact(q), CopyInv(Serial1Pin, uart_handle),
           Ended
    PROVE  /\ NothingOpen(Serial1Pin)' /\ DOMAIN dev' = Handles /\ (closedOther => closedOther')
           /\ \A q \in Pins \ {Serial1Pin} : \A g \in Of(q) :
                  dev'[g] = dev[g] \/ (Lost(q)' /\ dev'[g] = Closed)
<1> USE HandleLemma
<1>1. CASE ~Stale(uart_handle) /\ Shut(uart_handle) /\ UNCHANGED closedOther
  <2>1. /\ NothingOpen(Serial1Pin)' /\ DOMAIN dev' = Handles
        /\ \A q \in Pins \ {Serial1Pin} : \A g \in Of(q) : dev'[g] = dev[g]
    BY <1>1, ShutLemma
  <2> QED  BY <1>1, <2>1
<1>2. ASSUME Stale(uart_handle), NEW g \in Of(Serial1Pin)
      PROVE  dev[g] = Closed
  <2>1. g = uart_handle \/ g # table[Serial1Pin].handle
    BY DEF CopyInv
  <2> QED  BY <1>2, <2>1 DEF Exact, Stale
<1>3. CASE Stale(uart_handle) /\ UNCHANGED <<dev, closedOther>>
  BY <1>2, <1>3 DEF NothingOpen, PinType
<1>4. CASE /\ Stale(uart_handle)
           /\ \E h \in Handles : dev[h] # Closed /\ Shut(h)
           /\ closedOther' = TRUE
  <2>1. PICK h \in Handles : dev[h] # Closed /\ Shut(h)
    BY <1>4
  <2>2. dev' = [dev EXCEPT ![h] = Closed]
    BY <2>1 DEF Shut
  <2>3. DOMAIN dev' = Handles /\ \A g \in Handles : dev'[g] = dev[g] \/ dev'[g] = Closed
    BY <2>2 DEF PinType
  <2>4. NothingOpen(Serial1Pin)'
    BY <1>2, <1>4, <2>3 DEF NothingOpen
  <2> QED  BY <1>4, <2>3, <2>4 DEF Lost
<1> QED  BY <1>1, <1>3, <1>4 DEF Ended

LEMMA EndedStep ==
    ASSUME Inv, Ended
    PROVE  Inv'
<1>1. /\ at.call = "end" /\ at' = loop
      /\ table' = [table EXCEPT ![Serial1Pin] = [handle |-> NoHandle, type |-> "PIO_DIGITAL"]]
      /\ UNCHANGED <<mux, gExinterruptsPio, uart_handle>>
  BY DEF Ended, Return
<1>2. /\ Serial1Pin \in Pins /\ "PIO_DIGITAL" \in Types /\ PinType
      /\ CopyInv(Serial1Pin, uart_handle)
      /\ \A q \in Pins : Exact(q)
  BY <1>1, HandleLemma DEF Inv, PinInv, Detaching, Types
<1>3. /\ NothingOpen(Serial1Pin)' /\ DOMAIN dev' = Handles /\ (closedOther => closedOther')
      /\ \A q \in Pins \ {Serial1Pin} : \A g \in Of(q) :
             dev'[g] = dev[g] \/ (Lost(q)' /\ dev'[g] = Closed)
  BY <1>2, EndedShutLemma
<1>4. /\ table' \in [Pins -> [handle : Handles \cup {NoHandle}, type : Types]]
      /\ at' \in [call : Calls, pin : Pins \cup {Invalid}]
      /\ \A q \in Pins : PinInv(q)' /\ MuxInv(q)'
      /\ \A q \in Pins : table'[q].handle \in {table[q].handle, NoHandle}
  BY <1>1, <1>2, <1>3, ClearLemma
<1>5. CopyInv(Serial1Pin, uart_handle)'
  BY <1>1, <1>2, <1>4 DEF CopyInv
<1>6. \A q \in Eint : CopyInv(q, gExinterruptsPio[q].handle)'
  BY <1>1, <1>4, UsesLemma DEF Inv, CopyInv
<1>7. at'.call = "loop"
  BY <1>1 DEF loop
<1> QED  BY <1>1, <1>2, <1>3, <1>4, <1>5, <1>6, <1>7 DEF Inv, PinType

----------------------------------------------------------------------------
(* The other steps, and the theorems *)

LEMMA SameStep ==
    ASSUME Inv, UNCHANGED <<record, gExinterruptsPio, uart_handle, closedOther>>,
           at' \in [call : Calls, pin : Pins \cup {Invalid}],
           \/ at' = at
           \/ {at.call, at'.call} \cap {"detachInterrupt", "begin"} = {}
    PROVE  Inv'
<1>1. UNCHANGED <<table, dev, mux>>
  BY DEF record
<1>2. ASSUME NEW q \in Pins PROVE PinInv(q)'
  BY <1>1 DEF Inv, PinInv, Detaching, NothingOpen, Beginning, Exact, Lost
<1>3. PinType'
  BY <1>1 DEF Inv, PinType
<1> QED  BY <1>1, <1>2, <1>3 DEF Inv, MuxInv, CopyInv

LEMMA NextInv ==
    ASSUME Inv, [Next]_vars
    PROVE  Inv'
<1>1. at \in [call : Calls, pin : Pins \cup {Invalid}]
  BY DEF Inv, PinType
<1>2. CASE \E off \in BOOLEAN : SetInterrupts(off)
  <2>1. at.call = "loop" /\ at'.call = "loop" /\ at' \in [call : Calls, pin : Pins \cup {Invalid}]
    BY <1>2 DEF SetInterrupts, Call, loop, Calls
  <2> QED  BY <1>2, <2>1, SameStep DEF SetInterrupts, history
<1>3. CASE end
  <2>1. at.call = "loop" /\ at'.call = "end" /\ at' \in [call : Calls, pin : Pins \cup {Invalid}]
    BY <1>3, HandleLemma DEF end, Call, loop, Calls
  <2> QED  BY <1>3, <2>1, SameStep DEF end, history
<1>4. CASE analogReturns
  <2>1. at.call = "analogRead" /\ at'.call = "loop" /\ at' \in [call : Calls, pin : Pins \cup {Invalid}]
    BY <1>4 DEF analogReturns, Return, loop, Calls
  <2> QED  BY <1>4, <2>1, SameStep DEF analogReturns
<1>5. CASE Adc \/ Driver \/ UNCHANGED vars
  BY <1>1, <1>5, SameStep
     DEF Adc, Measures, Measured, Posted, Driver, Triggered, UartIrqHandler, Called, vars, history
<1>6. CASE Sketch
  BY <1>2, <1>3, <1>6, OpenersStep, DetachStep, BeginStep DEF Sketch
<1>7. CASE Continue
  BY <1>4, <1>7, DetachedStep, BegunStep, EndedStep DEF Continue
<1> QED  BY <1>5, <1>6, <1>7 DEF Next

LEMMA InitInv == Init => Inv
<1> SUFFICES ASSUME Init PROVE Inv
  OBVIOUS
<1>1. /\ table = [p \in Pins |-> [handle |-> NoHandle, type |-> "PIO_END"]]
      /\ dev = [h \in Handles |-> Closed]
      /\ mux = [p \in Pins |-> "PIO_DIGITAL"]
      /\ gExinterruptsPio = [p \in Eint |-> [handle |-> NoHandle, cb |-> "NULL"]]
      /\ uart_handle = NoHandle /\ at = loop
  BY DEF Init
<1>2. PinType
  BY <1>1 DEF PinType, Types, loop, Calls
<1>3. ASSUME NEW p \in Pins PROVE Exact(p) /\ MuxInv(p)
  BY <1>1, HandleLemma DEF Exact, MuxInv
<1>4. \A p \in Pins : PinInv(p)
  BY <1>1, <1>3 DEF PinInv, Detaching, loop
<1>5. CopyInv(Serial1Pin, uart_handle) /\ \A p \in Eint : CopyInv(p, gExinterruptsPio[p].handle)
  BY <1>1, HandleLemma, UsesLemma DEF CopyInv
<1> QED  BY <1>2, <1>3, <1>4, <1>5 DEF Inv

THEOREM Invariance == Spec => []Inv
<1>1. Inv /\ [Next]_vars => Inv'
  BY NextInv
<1> QED  BY InitInv, <1>1, PTL DEF Spec

\* An open device is the table's, or Serial1's in its begin().
LEMMA OpenLemma ==
    ASSUME Inv, NEW h \in Handles, dev[h] # Closed
    PROVE  \/ at.call = "begin" /\ uart_handle = h
           \/ \E p \in Pins : /\ table[p].handle = h /\ table[p].type \in Uses(p)
                              /\ dev[h] = [type |-> table[p].type, pin |-> p]
<1>1. PICK p \in Pins : h \in Of(p)
  BY HandleLemma
<1>2. PinInv(p) /\ ~Detaching(p)
  BY <1>1 DEF Inv, PinInv, NothingOpen
<1>3. CASE at.call = "begin" /\ p = Serial1Pin
  BY <1>1, <1>2, <1>3 DEF PinInv, Beginning
<1>4. CASE ~(at.call = "begin" /\ p = Serial1Pin)
  <2>1. Exact(p) /\ h # NoHandle
    BY <1>1, <1>2, <1>4, HandleLemma DEF PinInv
  <2> QED  BY <1>1, <2>1 DEF Exact
<1> QED  BY <1>3, <1>4

\* changePinType and those that open a device keep the pin table exact: it names just the
\* devices that are open, each with its pin and its use.
THEOREM TableIsExact == Spec => []TableExact
<1>1. ASSUME Inv, ~closedOther, NEW p \in Pins, table[p].handle # NoHandle,
             at # [call |-> "detachInterrupt", pin |-> p]
      PROVE  dev[table[p].handle] = [type |-> table[p].type, pin |-> p]
  <2>1. ~Detaching(p)
    BY <1>1 DEF Inv, PinType, Detaching
  <2>2. PinInv(p)
    BY <1>1 DEF Inv
  <2>3. CASE at.call = "begin" /\ p = Serial1Pin
    BY <1>1, <2>1, <2>2, <2>3 DEF PinInv, Beginning, CopyInv, Inv
  <2>4. CASE ~(at.call = "begin" /\ p = Serial1Pin)
    BY <1>1, <2>1, <2>2, <2>4 DEF PinInv, Exact, Lost
  <2> QED  BY <2>3, <2>4
<1>2. ASSUME Inv, NEW h \in Handles, dev[h].type = "PIO_EINT"
      PROVE  \E p \in Eint : gExinterruptsPio[p].handle = h
  <2>1. dev[h] # Closed
    BY <1>2 DEF Closed
  <2>2. h \in Handles /\ h # NoHandle
    BY HandleLemma
  <2>3. CASE at.call = "begin" /\ uart_handle = h
    <3>1. h \in Of(Serial1Pin) /\ Beginning
      BY <1>2, <2>2, <2>3, HandleLemma DEF Inv, PinInv, Detaching, CopyInv
    <3> QED  BY <1>2, <2>3, <3>1 DEF Beginning
  <2>4. ASSUME NEW p \in Pins, table[p].handle = h, table[p].type \in Uses(p),
               dev[h] = [type |-> table[p].type, pin |-> p]
        PROVE  p \in Eint /\ gExinterruptsPio[p].handle = h
    <3>1. p \in Eint
      BY <1>2, <2>4 DEF Uses
    <3> QED  BY <1>2, <2>2, <2>4, <3>1 DEF Inv, CopyInv
  <2> QED  BY <1>2, <2>1, <2>3, <2>4, OpenLemma
<1>3. Inv => TableExact
  BY <1>1, <1>2, OpenLemma DEF TableExact
<1> QED  BY Invariance, <1>3, PTL

\* A pin with a handle is still switched to the function it has it for, whatever other
\* pins and buses changePinType has been called for since.
THEOREM MuxIsTheTables == Spec => []MuxMatches
<1>1. Inv => MuxMatches
  BY DEF Inv, MuxInv, MuxMatches
<1> QED  BY Invariance, <1>1, PTL

\* UartIrqHandler puts the characters of Serial1 into another port's buffer only while
\* Serial1.begin() has not yet put the handle into the table.
THEOREM RoutesOnceBegun == Spec => RoutedOnceBegun
<1>1. ASSUME Inv, NEW h \in Handles, UartIrqHandler(h), rx' \ rx = {"Serial"}
      PROVE  at.call = "begin"
  <2>1. dev[h].type = "PIO_UART" /\ dev[h] # Closed
    BY <1>1 DEF UartIrqHandler, Closed
  <2>2. ASSUME NEW p \in Pins, table[p].handle = h, table[p].type \in Uses(p),
               dev[h] = [type |-> table[p].type, pin |-> p]
        PROVE  FALSE
    <3>1. p = Serial1Pin
      BY <2>1, <2>2 DEF Uses
    <3>2. rx' = rx \cup {"Serial1"}
      BY <1>1, <2>2, <3>1 DEF UartIrqHandler
    <3> QED  BY <1>1, <3>2
  <2> QED  BY <1>1, <2>1, <2>2, OpenLemma
<1>2. ASSUME Inv, [Next]_vars, rx' \ rx = {"Serial"} PROVE at.call = "begin"
  <2>1. rx' # rx /\ ~end
    BY <1>2 DEF end
  <2>2. ~(Sketch \/ Continue \/ Adc \/ Called \/ UNCHANGED vars)
    BY <2>1
       DEF Sketch, pinMode, analogWrite, analogRead, attachInterrupt, detachInterrupt,
           SetInterrupts, WireBegin, begin, Continue, analogReturns, Detached, Begun, Ended,
           Adc, Measures, Measured, Posted, Called, vars, adc
  <2>3. PICK h \in Handles : UartIrqHandler(h)
    BY <1>2, <2>1, <2>2 DEF Next, Driver, Triggered
  <2> QED  BY <1>1, <1>2, <2>3
<1>3. Inv /\ [Next]_vars => [rx' \ rx = {"Serial"} => at.call = "begin"]_vars
  BY <1>2
<1> QED  BY Invariance, <1>3, PTL DEF RoutedOnceBegun, Spec

----------------------------------------------------------------------------
(* analogRead *)

\* Only the object of analogRead's pin is started, and what it has measured, stored or
\* posted since an orderly start is that pin's.
Started ==
    IF at.call = "analogRead" THEN at.pin \in Pins /\ measuring \subseteq {table[at.pin].handle}
                              ELSE measuring = {}

OwnValue ==
    at.call = "analogRead" /\ ~late =>
        /\ result # Invalid => result = at.pin
        /\ posting \/ signal => adc_result = at.pin

ReadInv == Started /\ OwnValue

\* A device in the table is of the pin it is in the table for, unless it is closed.
LEMMA OwnDeviceLemma ==
    ASSUME Inv, at.call = "analogRead", NEW p \in Pins, NEW h \in Handles,
           h = table[p].handle, dev[h].type = "PIO_ANALOG"
    PROVE  dev[h].pin = p
<1>1. Exact(p)
  BY DEF Inv, PinInv, Detaching
<1>2. h \in Of(p)
  BY <1>1, HandleLemma DEF Exact
<1> QED  BY <1>1, <1>2 DEF Exact, Closed

LEMMA AdcStep ==
    ASSUME Inv, ReadInv, Adc
    PROVE  ReadInv'
<1>1. ASSUME NEW h \in Handles, Measures(h) PROVE ReadInv'
  <2>1. /\ h \in measuring /\ dev[h].type = "PIO_ANALOG" /\ result' = dev[h].pin
        /\ UNCHANGED <<table, adc_result, measuring, posting, signal, at, late>>
    BY <1>1 DEF Measures, record, history
  <2>2. at.call = "analogRead" /\ at.pin \in Pins /\ h = table[at.pin].handle
    BY <2>1 DEF ReadInv, Started
  <2>3. result' = at.pin
    BY <2>1, <2>2, OwnDeviceLemma
  <2> QED  BY <2>1, <2>3 DEF ReadInv, Started, OwnValue
<1>2. CASE Measured
  <2>1. /\ result # Invalid /\ adc_result' = result /\ result' = Invalid
        /\ UNCHANGED <<table, measuring, signal, at, late>>
    BY <1>2 DEF Measured, record, history
  <2> QED  BY <2>1 DEF ReadInv, Started, OwnValue
<1>3. CASE Posted
  <2>1. posting /\ UNCHANGED <<table, adc_result, measuring, result, at, late>>
    BY <1>3 DEF Posted, record, history
  <2> QED  BY <2>1 DEF ReadInv, Started, OwnValue
<1> QED  BY <1>1, <1>2, <1>3 DEF Adc

LEMMA ReadStep ==
    ASSUME Inv, ReadInv, NEW p \in Analog, analogRead(p)
    PROVE  ReadInv'
<1>1. PICK h \in MayOpen :
          Acquire(p, "PIO_ANALOG", h) /\ measuring' = measuring \cup ({h} \ {NoHandle})
  BY DEF analogRead
<1>2. /\ at = loop /\ at' = [call |-> "analogRead", pin |-> p]
      /\ signal' = FALSE /\ late' = (result # Invalid \/ posting)
      /\ UNCHANGED <<result, posting, closedOther>>
  BY DEF analogRead, Call
<1>3. p \in Pins \ {Serial1Pin} /\ "PIO_ANALOG" \in Uses(p)
  BY UsesLemma
<1>4. table'[p].handle = h
  BY <1>1, <1>2, <1>3, LoopLemma, AcquireLemma DEF Inv
<1>5. measuring = {}
  BY <1>2 DEF ReadInv, Started, loop
<1>6. Started'
  BY <1>1, <1>2, <1>3, <1>4, <1>5 DEF Started
<1>7. OwnValue'
  BY <1>2 DEF OwnValue
<1> QED  BY <1>6, <1>7 DEF ReadInv

\* analogRead returns a value that was measured by the ADC object of its pin, unless
\* adcCallback still had a result of an earlier call to store or post when it began.
THEOREM ReadsTheRightPin == Spec => []ReadsItsPin
<1>1. Init => ReadInv
  BY DEF Init, ReadInv, Started, OwnValue, loop
<1>2. ASSUME Inv, ReadInv, [Next]_vars PROVE ReadInv'
  <2>1. CASE Adc
    BY <1>2, <2>1, AdcStep
  <2>2. CASE \E p \in Analog : analogRead(p)
    BY <1>2, <2>2, ReadStep
  <2>3. CASE analogReturns
    <3>1. at.call = "analogRead" /\ at' = loop /\ measuring' = measuring \ {table[at.pin].handle}
      BY <2>3 DEF analogReturns, Return
    <3> QED  BY <1>2, <3>1 DEF ReadInv, Started, OwnValue, loop
  <2>4. CASE Driver \/ UNCHANGED vars
    <3>1. UNCHANGED <<table, adc, at, late>>
      BY <2>4 DEF Driver, Triggered, UartIrqHandler, Called, vars, record, history
    <3> QED  BY <1>2, <3>1 DEF ReadInv, Started, OwnValue, adc
  <2>5. ASSUME UNCHANGED adc, at.call # "analogRead" /\ at'.call # "analogRead"
        PROVE  ReadInv'
    BY <1>2, <2>5 DEF ReadInv, Started, OwnValue, adc
  <2>6. CASE Detached \/ Begun \/ Ended
    BY <2>5, <2>6 DEF Detached, Begun, Ended, Return, loop
  <2>7. CASE Sketch /\ ~\E p \in Analog : analogRead(p)
    BY <2>5, <2>7
       DEF Sketch, pinMode, analogWrite, attachInterrupt, detachInterrupt, SetInterrupts,
           WireBegin, begin, end, Call, loop
  <2> QED  BY <1>2, <2>1, <2>2, <2>3, <2>4, <2>6, <2>7 DEF Next, Continue
<1>3. ReadInv => ReadsItsPin
  BY DEF ReadInv, OwnValue, ReadsItsPin
<1> QED  BY Invariance, <1>1, <1>2, <1>3, PTL DEF Spec
=============================================================================
