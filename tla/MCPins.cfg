SPECIFICATION Spec
CONSTANTS
    Gpio = {8}
    Analog = {20, 21}
    Pwm = {20}
    Eint = {22}
    MayFail = {"PIO_ANALOG", "PIO_UART", "PIO_EINT"}
INVARIANTS TableExact MuxMatches ReadsItsPin
PROPERTIES RoutedOnceBegun
CONSTRAINT OwnClosed
CHECK_DEADLOCK FALSE
