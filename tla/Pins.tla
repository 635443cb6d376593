-------------------------------- MODULE Pins --------------------------------
(***************************************************************************)
(* The pins of the board: the table g_APinDescription (variant.cpp), which *)
(* every function that takes a pin reads and writes, and those functions:  *)
(* pinMode, analogRead, analogWrite, attachInterrupt and detachInterrupt,  *)
(* Serial1.begin() and end(), Wire.begin().  A pin has one record, with    *)
(* the handle of the device that uses it; a bus (UART, I2C) has its handle *)
(* in the record of a pin of its own, D0 or D18, and switches two others.  *)
(*                                                                         *)
(* The sketch calls one function at a time.  The drivers' callbacks run on *)
(* the main thread, at any moment: UartIrqHandler reads the table,          *)
(* eint_callback the interrupts', adcCallback answers analogRead.  The      *)
(* drivers are modelled by their handles: an open device has one, and a    *)
(* number that was closed is given out again (each pin has two numbers of  *)
(* its own, to keep the states few).                                       *)
(***************************************************************************)
EXTENDS Integers, FiniteSetsExt

CONSTANTS Gpio, Analog, Pwm, Eint,   \* the pins the sketch uses with each function
          MayFail                    \* devices whose vm_dcl_open may fail

Serial1Pin == 0
WirePin == 18

\* The records of D0 and D18 hold the handles of Serial1 and Wire, and a pin with an
\* interrupt is used for nothing else: pinMode(0, ...) closes Serial1's device, and
\* detachInterrupt clears the record of a pin whatever is in it.
ASSUME PinsAssumption ==
    /\ Gpio \cup Analog \cup Pwm \cup Eint \subseteq Nat \ {Serial1Pin, WirePin}
    /\ Eint \cap (Gpio \cup Analog \cup Pwm) = {}

VARIABLES
    table,        \* g_APinDescription: ulHandle and ulPinType
    dev,          \* the drivers: what an open handle is of, and for which pin
    mux,          \* what each pin is switched to
    gExinterruptsPio,
    no_interrupt,
    uart_handle,  \* of Serial1
    i2c_handle,
    rx,           \* the ports in whose buffer characters from the UART wait
    adc_result,   \* the pin whose value it is
    measuring,    \* the ADC objects that are started, by the handle they were created with
    result,       \* of the ADC, on its way to adcCallback: the pin that was measured
    posting,      \* adcCallback is to post
    signal,       \* signalid is set
    at,           \* the sketch: in which call, and how far
    isr,          \* eint_callback: the pin it has found
    disabled,     \* history: the sketch's last word was noInterrupts()
    late,         \* history: this analogRead began with a result or a post of an earlier one due
    closedOther   \* history: Serial1.end() closed the device of another pin

record == <<table, dev, mux>>
adc == <<adc_result, measuring, result, posting, signal>>
history == <<late, closedOther>>
vars == <<record, gExinterruptsPio, no_interrupt, uart_handle, i2c_handle, rx,
          adc, at, isr, disabled, history>>

Pins == {Serial1Pin, WirePin, 6, 7, 8, 9} \cup Gpio \cup Analog \cup Pwm \cup Eint
Handles == Pins \X {1, 2}
Invalid == -1
NoHandle == <<Invalid, 0>>
Closed == [type |-> "none", pin |-> Invalid]
Types == {"PIO_DIGITAL", "PIO_ANALOG", "PIO_EINT", "PIO_PWM", "PIO_UART", "PIO_I2C", "PIO_END"}
Callbacks == {"NULL", "cb"}

\* Outside every call.
loop == [call |-> "loop", pin |-> Invalid]
Calls == {"loop", "analogRead", "detachInterrupt", "begin", "end"}

TypeOK ==
    /\ table \in [Pins -> [handle : Handles \cup {NoHandle}, type : Types]]
    /\ dev \in [Handles -> [type : Types, pin : Pins] \cup {Closed}]
    /\ mux \in [Pins -> Types]
    /\ gExinterruptsPio \in [Eint -> [handle : Handles \cup {NoHandle}, cb : Callbacks]]
    /\ {no_interrupt, posting, signal, disabled, late, closedOther} \subseteq BOOLEAN
    /\ {uart_handle, i2c_handle} \subseteq Handles \cup {NoHandle}
    /\ rx \subseteq {"Serial", "Serial1"}
    /\ adc_result \in Analog \cup {Invalid}
    /\ measuring \subseteq Handles
    /\ result \in Analog \cup {Invalid}
    /\ at \in [call : Calls, pin : Pins \cup {Invalid}]
    /\ isr \in Eint \cup {Invalid}

Init ==
    /\ table = [p \in Pins |-> [handle |-> NoHandle, type |-> "PIO_END"]]
    /\ dev = [h \in Handles |-> Closed]
    /\ mux = [p \in Pins |-> "PIO_DIGITAL"]
    /\ gExinterruptsPio = [p \in Eint |-> [handle |-> NoHandle, cb |-> "NULL"]]
    /\ no_interrupt = TRUE
    /\ uart_handle = NoHandle /\ i2c_handle = NoHandle
    /\ rx = {}
    /\ adc_result = Invalid /\ signal = FALSE
    /\ measuring = {} /\ result = Invalid /\ posting = FALSE
    /\ at = loop
    /\ isr = Invalid
    /\ disabled = FALSE
    /\ late = FALSE /\ closedOther = FALSE

----------------------------------------------------------------------------
(* changePinType(p, t, &handle) and the vm_dcl_open that follows it *)

\* The pin is in use in this way already: its handle is taken from the table.
Recorded(p, t) == table[p].type = t /\ table[p].handle # NoHandle

\* The pins that are switched with p.
Switched(p, t) == CASE t = "PIO_UART" -> {8, 9} [] t = "PIO_I2C" -> {6, 7} [] OTHER -> {p}

\* Mutated form of Switch: the pins of a bus keep their handles.
SwitchKeeps(p, t) ==
    [dev |-> dev,
     table |-> [table EXCEPT ![p].type = t],
     mux |-> [q \in Pins |-> IF q \in Switched(p, t) THEN t ELSE mux[q]]]

\* The handles of those pins are closed.  Only a bus also takes them out of the table: the
\* record of a single pin is left to whoever opens the new device.
Switch(p, t) ==
    LET group == Switched(p, t)
        shut == {table[q].handle : q \in group}
    IN [dev |-> [h \in Handles |-> IF h \in shut THEN Closed ELSE dev[h]],
        table |-> [q \in Pins |->
            [handle |-> IF q \in group /\ q # p THEN NoHandle ELSE table[q].handle,
             type |-> IF q = p THEN t ELSE table[q].type]],
        mux |-> [q \in Pins |-> IF q \in group THEN t ELSE mux[q]]]

\* What vm_dcl_open may return.
Opened(devices, p, t) ==
    LET free == {n \in {1, 2} : devices[<<p, n>>] = Closed}
    IN {<<p, Min(free)>>} \cup (IF t \in MayFail THEN {NoHandle} ELSE {})

Using(devices, h, p, t) ==
    IF h = NoHandle THEN devices ELSE [devices EXCEPT ![h] = [type |-> t, pin |-> p]]

\* The pin's device is h from now on, and h is in the table.
Acquire(p, t, h) ==
    \/ Recorded(p, t) /\ h = table[p].handle /\ UNCHANGED record
    \/ /\ ~Recorded(p, t)
       /\ LET s == Switch(p, t)
          IN /\ h \in Opened(s.dev, p, t)
             /\ dev' = Using(s.dev, h, p, t)
             /\ table' = [s.table EXCEPT ![p].handle = h]
             /\ mux' = s.mux

Call(name, p) == at = loop /\ at' = [call |-> name, pin |-> p]
Return == at' = loop
MayOpen == Handles \cup {NoHandle}

----------------------------------------------------------------------------
(* Functions that open a device and use it *)

pinMode(p) ==
    /\ Call("loop", Invalid)
    /\ \E h \in MayOpen : Acquire(p, "PIO_DIGITAL", h)
    /\ UNCHANGED <<gExinterruptsPio, no_interrupt, uart_handle, i2c_handle, rx,
                   adc, isr, disabled, history>>

\* Also analogWriteAdvance.
analogWrite(p) ==
    /\ Call("loop", Invalid)
    /\ \E h \in MayOpen : Acquire(p, "PIO_PWM", h)
    /\ UNCHANGED <<gExinterruptsPio, no_interrupt, uart_handle, i2c_handle, rx,
                   adc, isr, disabled, history>>

WireBegin ==
    /\ Call("loop", Invalid)
    /\ \E h \in MayOpen : Acquire(WirePin, "PIO_I2C", h) /\ i2c_handle' = h
    /\ UNCHANGED <<gExinterruptsPio, no_interrupt, uart_handle, rx,
                   adc, isr, disabled, history>>

----------------------------------------------------------------------------
(* analogRead and adcCallback *)

\* A new signal is created, and the ADC object of the handle is started.  Without a handle
\* nothing is, and the sketch waits for ever: no status is looked at.
analogRead(p) ==
    /\ Call("analogRead", p)
    /\ \E h \in MayOpen :
        /\ Acquire(p, "PIO_ANALOG", h)
        /\ measuring' = measuring \cup ({h} \ {NoHandle})
    /\ signal' = FALSE
    /\ late' = (result # Invalid \/ posting)
    /\ UNCHANGED <<gExinterruptsPio, no_interrupt, uart_handle, i2c_handle, rx,
                   adc_result, result, posting, isr, disabled, closedOther>>

\* A started object measures the channel it was created with, once each period (one tick)
\* until it is stopped.
Measures(h) ==
    /\ h \in measuring /\ dev[h].type = "PIO_ANALOG"
    /\ result = Invalid
    /\ result' = dev[h].pin
    /\ UNCHANGED <<record, gExinterruptsPio, no_interrupt, uart_handle, i2c_handle, rx,
                   adc_result, measuring, posting, signal, at, isr, disabled, history>>

\* adcCallback stores the result, whosever it is ...
Measured ==
    /\ result # Invalid /\ ~posting
    /\ adc_result' = result /\ result' = Invalid
    /\ posting' = TRUE
    /\ UNCHANGED <<record, gExinterruptsPio, no_interrupt, uart_handle, i2c_handle, rx,
                   measuring, signal, at, isr, disabled, history>>

\* ... and posts the signal there is by now, if analogRead has not destroyed it.
Posted ==
    /\ posting
    /\ posting' = FALSE
    /\ signal' = (at.call = "analogRead")
    /\ UNCHANGED <<record, gExinterruptsPio, no_interrupt, uart_handle, i2c_handle, rx,
                   adc_result, measuring, result, at, isr, disabled, history>>

\* Mutated form of analogReturns: VM_DCL_ADC_COMMAND_SEND_STOP is not sent.
analogReturnsOn ==
    /\ at.call = "analogRead" /\ signal
    /\ signal' = FALSE /\ late' = FALSE
    /\ Return
    /\ UNCHANGED <<record, gExinterruptsPio, no_interrupt, uart_handle, i2c_handle, rx,
                   adc_result, measuring, result, posting, isr, disabled, closedOther>>

\* The object is stopped and the value scaled.
analogReturns ==
    /\ at.call = "analogRead" /\ signal
    /\ signal' = FALSE /\ late' = FALSE
    /\ measuring' = measuring \ {table[at.pin].handle}
    /\ Return
    /\ UNCHANGED <<record, gExinterruptsPio, no_interrupt, uart_handle, i2c_handle, rx,
                   adc_result, result, posting, isr, disabled, closedOther>>

----------------------------------------------------------------------------
(* WInterrupts.c *)

\* The detachInterrupt it starts with subtracts A1 from the pin a second time and writes
\* outside gExinterruptsPio: what that may damage is not modelled, and nothing is detached.
attachInterrupt(p) ==
    /\ Call("loop", Invalid)
    /\ \E h \in MayOpen :
        /\ Acquire(p, "PIO_EINT", h)
        /\ gExinterruptsPio' =
            IF h = NoHandle THEN gExinterruptsPio
                           ELSE [gExinterruptsPio EXCEPT ![p] = [handle |-> h, cb |-> "cb"]]
    /\ UNCHANGED <<no_interrupt, uart_handle, i2c_handle, rx,
                   adc, isr, disabled, history>>

Shut(h) == dev' = IF h = NoHandle THEN dev ELSE [dev EXCEPT ![h] = Closed]

\* The device is closed ...
detachInterrupt(p) ==
    /\ Call("detachInterrupt", p)
    /\ Shut(gExinterruptsPio[p].handle)
    /\ UNCHANGED <<table, mux, gExinterruptsPio, no_interrupt, uart_handle, i2c_handle, rx,
                   adc, isr, disabled, history>>

\* Mutated form of Detached: the record of the pin is left.
DetachedOnly ==
    /\ at.call = "detachInterrupt"
    /\ gExinterruptsPio' = [gExinterruptsPio EXCEPT ![at.pin] = [handle |-> NoHandle, cb |-> "NULL"]]
    /\ Return
    /\ UNCHANGED <<record, no_interrupt, uart_handle, i2c_handle, rx,
                   adc, isr, disabled, history>>

\* ... then both tables are cleared.
Detached ==
    /\ at.call = "detachInterrupt"
    /\ gExinterruptsPio' = [gExinterruptsPio EXCEPT ![at.pin] = [handle |-> NoHandle, cb |-> "NULL"]]
    /\ table' = [table EXCEPT ![at.pin] = [handle |-> NoHandle, type |-> "PIO_DIGITAL"]]
    /\ Return
    /\ UNCHANGED <<dev, mux, no_interrupt, uart_handle, i2c_handle, rx,
                   adc, isr, disabled, history>>

\* eint_callback(handle): it looks for the handle; noStopInterrupts() returns no_interrupt.
Triggered(h) ==
    /\ dev[h].type = "PIO_EINT" /\ isr = Invalid
    /\ \E p \in Eint :
        /\ gExinterruptsPio[p].handle = h
        /\ no_interrupt
        /\ isr' = p
    /\ UNCHANGED <<record, gExinterruptsPio, no_interrupt, uart_handle, i2c_handle, rx,
                   adc, at, disabled, history>>

\* And the function is called, which detachInterrupt may have taken away meanwhile.
Called ==
    /\ isr # Invalid
    /\ isr' = Invalid
    /\ UNCHANGED <<record, gExinterruptsPio, no_interrupt, uart_handle, i2c_handle, rx,
                   adc, at, disabled, history>>

\* interrupts() and noInterrupts() (wiring.c).
SetInterrupts(off) ==
    /\ Call("loop", Invalid)
    /\ no_interrupt' = off /\ disabled' = off
    /\ UNCHANGED <<record, gExinterruptsPio, uart_handle, i2c_handle, rx,
                   adc, isr, history>>

----------------------------------------------------------------------------
(* Serial1 (UARTClass.cpp) *)

\* The UART is opened, if it is not in use, and its callback registered ...
begin ==
    /\ Call("begin", Serial1Pin)
    /\ \/ /\ Recorded(Serial1Pin, "PIO_UART")
          /\ uart_handle' = table[Serial1Pin].handle /\ UNCHANGED record
       \/ /\ ~Recorded(Serial1Pin, "PIO_UART")
          /\ LET s == Switch(Serial1Pin, "PIO_UART")
             IN /\ uart_handle' \in Opened(s.dev, Serial1Pin, "PIO_UART")
                /\ dev' = Using(s.dev, uart_handle', Serial1Pin, "PIO_UART")
                /\ table' = s.table /\ mux' = s.mux
    /\ UNCHANGED <<gExinterruptsPio, no_interrupt, i2c_handle, rx,
                   adc, isr, disabled, history>>

\* Mutated form of Begun: setPinHandle is not called.
BegunUnset ==
    /\ at.call = "begin"
    /\ Return
    /\ UNCHANGED <<record, gExinterruptsPio, no_interrupt, uart_handle, i2c_handle, rx,
                   adc, isr, disabled, history>>

\* ... then its handle is put in the table.
Begun ==
    /\ at.call = "begin"
    /\ table' = IF uart_handle = NoHandle THEN table
                                         ELSE [table EXCEPT ![Serial1Pin].handle = uart_handle]
    /\ Return
    /\ UNCHANGED <<dev, mux, gExinterruptsPio, no_interrupt, uart_handle, i2c_handle, rx,
                   adc, isr, disabled, history>>

\* The buffer is emptied ...
end ==
    /\ Call("end", Serial1Pin)
    /\ rx' = rx \ {"Serial1"}
    /\ UNCHANGED <<record, gExinterruptsPio, no_interrupt, uart_handle, i2c_handle,
                   adc, isr, disabled, history>>

\* The port was ended before: its number may since have been given to another device.
Stale(h) == h # NoHandle /\ dev[h] = Closed

\* ... and uart_handle closed, whatever it is the number of by now.  It is kept.
Ended ==
    /\ at.call = "end"
    /\ \/ ~Stale(uart_handle) /\ Shut(uart_handle) /\ UNCHANGED closedOther
       \/ Stale(uart_handle) /\ UNCHANGED <<dev, closedOther>>
       \/ /\ Stale(uart_handle)
          /\ \E h \in Handles : dev[h] # Closed /\ Shut(h)
          /\ closedOther' = TRUE
    /\ table' = [table EXCEPT ![Serial1Pin] = [handle |-> NoHandle, type |-> "PIO_DIGITAL"]]
    /\ Return
    /\ UNCHANGED <<mux, gExinterruptsPio, no_interrupt, uart_handle, i2c_handle, rx,
                   adc, isr, disabled, late>>

\* UartIrqHandler: whose characters they are is looked up in the table.
UartIrqHandler(h) ==
    /\ dev[h].type = "PIO_UART"
    /\ rx' = rx \cup {IF h = table[Serial1Pin].handle THEN "Serial1" ELSE "Serial"}
    /\ UNCHANGED <<record, gExinterruptsPio, no_interrupt, uart_handle, i2c_handle,
                   adc, at, isr, disabled, history>>

----------------------------------------------------------------------------
(* The specification *)

Sketch ==
    \/ \E p \in Gpio : pinMode(p)
    \/ \E p \in Pwm : analogWrite(p)
    \/ \E p \in Analog : analogRead(p)
    \/ \E p \in Eint : attachInterrupt(p) \/ detachInterrupt(p)
    \/ \E off \in BOOLEAN : SetInterrupts(off)
    \/ WireBegin \/ begin \/ end

\* The sketch goes on in a call.
Continue == analogReturns \/ Detached \/ Begun \/ Ended

Adc == (\E h \in Handles : Measures(h)) \/ Measured \/ Posted

Driver == (\E h \in Handles : Triggered(h) \/ UartIrqHandler(h)) \/ Called

Next == Sketch \/ Continue \/ Adc \/ Driver

Spec == Init /\ [][Next]_vars

\* A bound for TLC: what the sketch does after it has closed another pin's device.
OwnClosed == ~closedOther

----------------------------------------------------------------------------
(* Properties *)

\* What the table has as the handle of a pin is open, and is the device of that pin's type:
\* digitalWrite and the next changePinType never use or close another one's handle.  No
\* device is open whose handle nobody has any more, and eint_callback finds every open
\* interrupt in its own table.  All unless Serial1.end(), called without a begin(), has
\* closed another device through the number it had kept.
TableExact ==
    \/ closedOther
    \/ /\ \A p \in Pins :
              table[p].handle # NoHandle /\ at # [call |-> "detachInterrupt", pin |-> p]
                  => dev[table[p].handle] = [type |-> table[p].type, pin |-> p]
       /\ \A h \in Handles :
              \/ dev[h] = Closed
              \/ \E p \in Pins : table[p].handle = h
              \/ at.call = "begin" /\ uart_handle = h
       /\ \A h \in Handles :
              dev[h].type = "PIO_EINT" => \E p \in Eint : gExinterruptsPio[p].handle = h

\* A pin with a handle in the table is still switched to the function it has it for,
\* whatever other pins and buses have been begun since.
MuxMatches ==
    \A p \in Pins \ {Serial1Pin, WirePin} : table[p].handle # NoHandle => mux[p] = table[p].type

\* Serial1's characters only get into Serial's buffer while its begin() has not returned.
RoutedOnceBegun == [][rx' \ rx = {"Serial"} => at.call = "begin"]_vars

\* What analogRead wakes up to was measured by the ADC object of the pin it was asked for,
\* whatever pins were read before, unless the call began while a result of an earlier one,
\* taken before that was stopped, had yet to be stored or posted: adcCallback does not
\* look whose result it is.
ReadsItsPin == at.call = "analogRead" /\ signal /\ ~late => adc_result = at.pin

\* WInterrupts.h: noInterrupts() disables interrupts.  The code calls the sketch's function
\* only while they are disabled.
NoneWhileDisabled == [][isr' # Invalid /\ isr = Invalid => ~disabled]_vars
=============================================================================
