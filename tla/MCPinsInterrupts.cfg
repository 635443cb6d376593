SPECIFICATION Spec
CONSTANTS
    Gpio = {8}
    Analog = {}
    Pwm = {}
    Eint = {22}
    MayFail = {}
PROPERTIES NoneWhileDisabled
